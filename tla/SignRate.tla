------------------------------- MODULE SignRate -------------------------------
(***************************************************************************)
(* The sign-rate tripwire, a sliding window per grant, under concurrent    *)
(* calls: Allow reads the clock first and takes the mutex afterwards, so   *)
(* calls may be decided in another order than their clock readings.        *)
(* One key; keys do not touch each other.  The slice is the set of its     *)
(* events: only how many there are, and their times, matter.  Beside the   *)
(* time the code keeps, an event carries who signed and when: history.     *)
(***************************************************************************)
EXTENDS Integers, FiniteSets

CONSTANTS
    Callers,          \* goroutines signing for this grant
    Limit,
    Window,
    MaxTime           \* bound on the clock, for model checking

ASSUME SignRateAssumption ==
    /\ IsFiniteSet(Callers)
    /\ Limit \in Nat \ {0}
    /\ Window \in Nat \ {0}
    /\ MaxTime \in Nat

NoTime == -1
Times == 0..MaxTime

VARIABLES
    clock,
    read,             \* the now a caller has read and not yet used, or NoTime
    events,           \* events[key]: the calls the slice still holds
    admitted          \* history: every call that was allowed

vars == <<clock, read, events, admitted>>

\* An allowed call: the reading it recorded, and (history) its number, its
\* caller and the time at which it was decided.
Event == [no : Nat, by : Callers, read : Times, at : Times]

Init ==
    /\ clock = 0
    /\ read = [c \in Callers |-> NoTime]
    /\ events = {}
    /\ admitted = {}

Tick ==
    /\ clock < MaxTime
    /\ clock' = clock + 1
    /\ UNCHANGED <<read, events, admitted>>

\* now := time.Now(), before the mutex.
ReadClock(c) ==
    /\ read[c] = NoTime
    /\ read' = [read EXCEPT ![c] = clock]
    /\ UNCHANGED <<clock, events, admitted>>

\* Seeded fault: off by one, a full window still has room.
FaultyHasRoom(kept) == Cardinality(kept) <= Limit
HasRoom(kept) == Cardinality(kept) < Limit

\* t.After(cutoff): an event out of this caller's window is dropped.
Kept(now) == {e \in events : e.read > now - Window}

NewEvent(c) ==
    [no |-> Cardinality(admitted), by |-> c, read |-> read[c], at |-> clock]

\* Under the mutex: drop what is out of this caller's window, then admit and
\* record the call if there is room.
Allow(c) ==
    /\ read[c] # NoTime
    /\ IF HasRoom(Kept(read[c]))
       THEN /\ events' = Kept(read[c]) \cup {NewEvent(c)}
            /\ admitted' = admitted \cup {NewEvent(c)}
       ELSE events' = Kept(read[c]) /\ UNCHANGED admitted
    /\ read' = [read EXCEPT ![c] = NoTime]
    /\ UNCHANGED clock

Next == Tick \/ \E c \in Callers : ReadClock(c) \/ Allow(c)

Spec == Init /\ [][Next]_vars

-------------------------------------------------------------------------------
(* Properties                                                              *)

\* The state has its type, the slice holds calls that were allowed, and never
\* more than Limit of them: what Allow's comment says bounds the memory.
TypeOK ==
    /\ clock \in Times
    /\ read \in [Callers -> Times \cup {NoTime}]
    /\ admitted \in SUBSET Event
    /\ IsFiniteSet(admitted)
    /\ events \subseteq admitted
    /\ Cardinality(events) <= Limit

\* The calls allowed in the window that ends at t.
InWindow(t) == {e \in admitted : t - Window < e.at /\ e.at <= t}

\* newRateLimiter: "allowing at most limit events per window, per key".
AtMostLimitPerWindow == \A t \in Times : Cardinality(InWindow(t)) <= Limit

\* What the code guarantees: beyond the limit, a window holds at most the calls
\* that had read the clock before it began, one a caller.
AtMostLimitAndInFlight ==
    \A t \in Times : Cardinality(InWindow(t)) <= Limit + Cardinality(Callers)
===============================================================================
