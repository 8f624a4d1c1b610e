--------------------------- MODULE SignRate_proofs ---------------------------
(***************************************************************************)
(* Theorems about the sign-rate tripwire: the slice never holds more than  *)
(* Limit events, and any window holds at most Limit calls that read the    *)
(* clock inside it and at most one a caller that read it before.           *)
(***************************************************************************)
EXTENDS SignRate, FiniteSetTheorems, TLAPS

(* The calls of the window that ends at t, split by their reading. *)
ReadInside(t) == {e \in admitted : t - Window < e.read /\ e.at <= t}
ReadBefore(t) == {e \in InWindow(t) : e.read <= t - Window}

(* Calls are numbered in the order they were allowed. *)
Numbered == \A e \in admitted : e.no < Cardinality(admitted)

(* No call was decided before it read the clock, and none in the future. *)
ReadThenDecided ==
    /\ \A e \in admitted : e.read <= e.at /\ e.at <= clock
    /\ \A c \in Callers : read[c] <= clock

(* A caller reads the clock for its next call only when its last is decided. *)
OneAtATime ==
    /\ \A e \in admitted : read[e.by] # NoTime => e.at <= read[e.by]
    /\ \A e, f \in admitted :
          e.by = f.by /\ e # f => e.at <= f.read \/ f.at <= e.read

(* What still counts in a window that has not ended is in the slice: a call is
   dropped only by a reading a whole window later. *)
SliceHoldsWindow ==
    /\ \A t \in Times : clock <= t => ReadInside(t) \subseteq events
    /\ \A t \in Times : Cardinality(ReadInside(t)) <= Limit

IInv ==
    /\ TypeOK
    /\ Numbered
    /\ ReadThenDecided
    /\ OneAtATime
    /\ SliceHoldsWindow
-------------------------------------------------------------------------------
(* What an allowed call adds.                                              *)

(* A decided call is a new one: no call before it has its number, and the slice
   it leaves, Kept with it or without it, has at most Limit events. *)
LEMMA NewEventIsNew ==
    ASSUME TypeOK, Numbered, NEW c \in Callers, read[c] # NoTime
    PROVE  /\ NewEvent(c) \in Event
           /\ NewEvent(c).by = c
           /\ NewEvent(c).read = read[c]
           /\ NewEvent(c).at = clock
           /\ NewEvent(c).no = Cardinality(admitted)
           /\ NewEvent(c) \notin admitted
           /\ IsFiniteSet(admitted \cup {NewEvent(c)})
           /\ Cardinality(admitted \cup {NewEvent(c)}) = Cardinality(admitted) + 1
<1>1. Cardinality(admitted) \in Nat
  BY FS_CardinalityType DEF TypeOK
<1>2. read[c] \in Times
  BY DEF TypeOK
<1>3. /\ NewEvent(c).by = c
      /\ NewEvent(c).read = read[c]
      /\ NewEvent(c).at = clock
      /\ NewEvent(c).no = Cardinality(admitted)
  BY DEF NewEvent
<1>4. NewEvent(c) \in Event
  BY <1>1, <1>2 DEF NewEvent, Event, TypeOK
<1>5. NewEvent(c) \notin admitted
  BY <1>1, <1>3 DEF Numbered
<1>6. /\ IsFiniteSet(admitted \cup {NewEvent(c)})
      /\ Cardinality(admitted \cup {NewEvent(c)}) = Cardinality(admitted) + 1
  BY <1>5, FS_AddElement DEF TypeOK
<1>7. QED
  BY <1>3, <1>4, <1>5, <1>6

LEMMA SliceStaysFull ==
    ASSUME TypeOK, NEW now, NEW e
    PROVE  /\ Cardinality(Kept(now)) <= Limit
           /\ HasRoom(Kept(now)) => Cardinality(Kept(now) \cup {e}) <= Limit
<1>1. IsFiniteSet(events)
  BY FS_Subset DEF TypeOK
<1>2. /\ IsFiniteSet(Kept(now))
      /\ Cardinality(Kept(now)) <= Cardinality(events)
  BY <1>1, FS_Subset DEF Kept
<1>3. /\ Cardinality(events) \in Nat
      /\ Cardinality(Kept(now)) \in Nat
  BY <1>1, <1>2, FS_CardinalityType
<1>4. Cardinality(Kept(now)) <= Limit
  BY <1>2, <1>3, SignRateAssumption DEF TypeOK
<1>5. Cardinality(Kept(now) \cup {e}) <= Cardinality(Kept(now)) + 1
  BY <1>2, <1>3, FS_AddElement
<1>6. Cardinality(Kept(now) \cup {e}) \in Nat
  BY <1>2, FS_AddElement, FS_CardinalityType
<1>7. QED
  BY <1>3, <1>4, <1>5, <1>6, SignRateAssumption DEF HasRoom

-------------------------------------------------------------------------------
(* The inductive invariant.                                                *)

LEMMA InitIInv == Init => IInv
<1> SUFFICES ASSUME Init PROVE IInv
  OBVIOUS
<1>1. IsFiniteSet({}) /\ Cardinality({}) = 0
  BY FS_EmptySet
<1>2. TypeOK
  BY <1>1, SignRateAssumption DEF Init, TypeOK, Times
<1>3. Numbered /\ ReadThenDecided /\ OneAtATime
  BY DEF Init, Numbered, ReadThenDecided, OneAtATime, NoTime
<1>4. SliceHoldsWindow
  BY <1>1, SignRateAssumption DEF Init, SliceHoldsWindow, ReadInside
<1>5. QED
  BY <1>2, <1>3, <1>4 DEF IInv

LEMMA TickIInv == ASSUME IInv, Tick PROVE IInv'
<1>1. clock \in Nat /\ clock' = clock + 1 /\ clock' \in Times
  BY SignRateAssumption DEF IInv, TypeOK, Times, Tick
<1>2. read' = read /\ events' = events /\ admitted' = admitted
  BY DEF Tick
<1>3. TypeOK'
  BY <1>1, <1>2 DEF IInv, TypeOK
<1>4. Numbered'
  BY <1>2 DEF IInv, Numbered
<1>5. ReadThenDecided'
  BY <1>1, <1>2 DEF IInv, TypeOK, Event, Times, NoTime, ReadThenDecided
<1>6. OneAtATime'
  BY <1>2 DEF IInv, OneAtATime
<1>7. SliceHoldsWindow'
  BY <1>1, <1>2 DEF IInv, SliceHoldsWindow, ReadInside, Times
<1>8. QED
  BY <1>3, <1>4, <1>5, <1>6, <1>7 DEF IInv

LEMMA ReadClockIInv == ASSUME IInv, NEW c \in Callers, ReadClock(c) PROVE IInv'
<1>1. read' = [read EXCEPT ![c] = clock] /\ read[c] = NoTime
  BY DEF ReadClock
<1>2. clock' = clock /\ events' = events /\ admitted' = admitted
  BY DEF ReadClock
<1>3. TypeOK'
  BY <1>1, <1>2 DEF IInv, TypeOK
<1>4. Numbered'
  BY <1>2 DEF IInv, Numbered
<1>5. ReadThenDecided'
  BY <1>1, <1>2 DEF IInv, TypeOK, Times, ReadThenDecided
<1>6. OneAtATime'
  BY <1>1, <1>2 DEF IInv, TypeOK, Event, ReadThenDecided, OneAtATime
<1>7. SliceHoldsWindow'
  BY <1>2 DEF IInv, SliceHoldsWindow, ReadInside
<1>8. QED
  BY <1>3, <1>4, <1>5, <1>6, <1>7 DEF IInv

LEMMA AllowIInv == ASSUME IInv, NEW c \in Callers, Allow(c) PROVE IInv'
<1> DEFINE now == read[c]
           new == NewEvent(c)
<1>1. /\ TypeOK /\ Numbered /\ ReadThenDecided /\ OneAtATime /\ SliceHoldsWindow
      /\ read[c] # NoTime
      /\ read' = [read EXCEPT ![c] = NoTime]
      /\ clock' = clock
  BY DEF IInv, Allow
<1>2. /\ now \in Times /\ now <= clock
      /\ clock \in Nat /\ Window \in Nat \ {0}
      /\ \A e \in admitted : e \in Event /\ e.read \in Nat /\ e.at \in Nat
                             /\ e.no \in Nat /\ e.by \in Callers
      /\ \A t \in Times : t \in Nat
  BY <1>1, SignRateAssumption DEF TypeOK, Times, Event, ReadThenDecided
<1>3. read' \in [Callers -> Times \cup {NoTime}]
  BY <1>1 DEF TypeOK
<1>4. \A d \in Callers : read'[d] = IF d = c THEN NoTime ELSE read[d]
  BY <1>1 DEF TypeOK
\* A call leaves a window that has not ended only when it was read before it.
<1>5. \A t \in Times : clock <= t => ReadInside(t) \subseteq Kept(now)
  BY <1>1, <1>2 DEF SliceHoldsWindow, ReadInside, Kept
<1>6. Kept(now) \subseteq admitted
  BY <1>1 DEF Kept, TypeOK
<1>7. CASE HasRoom(Kept(now))
  <2>1. events' = Kept(now) \cup {new} /\ admitted' = admitted \cup {new}
    BY <1>7 DEF Allow
  <2>2. /\ new \in Event /\ new.by = c /\ new.read = now /\ new.at = clock
        /\ new.no = Cardinality(admitted)
        /\ IsFiniteSet(admitted') /\ Cardinality(admitted') = Cardinality(admitted) + 1
    BY <1>1, <2>1, NewEventIsNew
  <2>3. Cardinality(events') <= Limit
    BY <1>1, <1>7, <2>1, SliceStaysFull
  <2>4. TypeOK'
    BY <1>1, <1>3, <1>6, <2>1, <2>2, <2>3 DEF TypeOK
  <2>5. Numbered'
    <3>1. Cardinality(admitted) \in Nat
      BY <1>1, FS_CardinalityType DEF TypeOK
    <3>2. QED
      BY <1>1, <1>2, <2>1, <2>2, <3>1 DEF Numbered
  <2>6. ReadThenDecided'
    BY <1>1, <1>2, <1>4, <2>1, <2>2 DEF ReadThenDecided, NoTime
  <2>7. OneAtATime'
    <3>1. \A e \in admitted' : read'[e.by] # NoTime => e.at <= read'[e.by]
      BY <1>1, <1>2, <1>4, <2>1, <2>2 DEF OneAtATime
    <3>2. \A e \in admitted : e.by = c => e.at <= now
      BY <1>1, <1>2 DEF OneAtATime
    <3>3. \A e, f \in admitted' : e.by = f.by /\ e # f => e.at <= f.read \/ f.at <= e.read
      BY <1>1, <2>1, <2>2, <3>2 DEF OneAtATime
    <3>4. QED
      BY <3>1, <3>3 DEF OneAtATime
  <2>8. SliceHoldsWindow'
    <3>1. ASSUME NEW t \in Times, clock <= t
          PROVE  ReadInside(t)' \subseteq events'
      BY <1>1, <1>5, <2>1, <3>1 DEF ReadInside
    <3>2. ASSUME NEW t \in Times, clock <= t
          PROVE  Cardinality(ReadInside(t)') <= Limit
      <4>1. IsFiniteSet(events')
        BY <2>4, FS_Subset DEF TypeOK
      <4>2. /\ IsFiniteSet(ReadInside(t)')
            /\ Cardinality(ReadInside(t)') <= Cardinality(events')
        BY <3>1, <3>2, <4>1, FS_Subset
      <4>3. Cardinality(events') \in Nat /\ Cardinality(ReadInside(t)') \in Nat
        BY <4>1, <4>2, FS_CardinalityType
      <4>4. QED
        BY <2>3, <4>2, <4>3, SignRateAssumption
    <3>3. ASSUME NEW t \in Times, ~(clock <= t)
          PROVE  ReadInside(t)' = ReadInside(t)
      BY <1>1, <1>2, <2>1, <2>2, <3>3 DEF ReadInside
    <3>4. \A t \in Times : Cardinality(ReadInside(t)') <= Limit
      BY <1>1, <3>2, <3>3 DEF SliceHoldsWindow
    <3>5. QED
      BY <1>1, <3>1, <3>4 DEF SliceHoldsWindow
  <2>9. QED
    BY <2>4, <2>5, <2>6, <2>7, <2>8 DEF IInv
<1>8. CASE ~HasRoom(Kept(now))
  <2>1. events' = Kept(now) /\ admitted' = admitted
    BY <1>8 DEF Allow
  <2>2. TypeOK'
    BY <1>1, <1>3, <1>6, <2>1, SliceStaysFull DEF TypeOK
  <2>3. Numbered' /\ OneAtATime'
    BY <1>1, <1>2, <1>4, <2>1 DEF Numbered, OneAtATime
  <2>4. ReadThenDecided'
    BY <1>1, <1>2, <1>4, <2>1 DEF ReadThenDecided, NoTime
  <2>5. SliceHoldsWindow'
    BY <1>1, <1>5, <2>1 DEF SliceHoldsWindow, ReadInside
  <2>6. QED
    BY <2>2, <2>3, <2>4, <2>5 DEF IInv
<1>9. QED
  BY <1>7, <1>8

LEMMA NextIInv == IInv /\ [Next]_vars => IInv'
<1> SUFFICES ASSUME IInv, [Next]_vars PROVE IInv'
  OBVIOUS
<1>1. CASE Tick
  BY <1>1, TickIInv
<1>2. ASSUME NEW c \in Callers, ReadClock(c) PROVE IInv'
  BY <1>2, ReadClockIInv
<1>3. ASSUME NEW c \in Callers, Allow(c) PROVE IInv'
  BY <1>3, AllowIInv
<1>4. CASE UNCHANGED vars
  BY <1>4 DEF vars, IInv, TypeOK, Numbered, ReadThenDecided, OneAtATime,
              SliceHoldsWindow, ReadInside
<1>5. QED
  BY <1>1, <1>2, <1>3, <1>4 DEF Next

-------------------------------------------------------------------------------
(* The bound on a window.                                                  *)

(* The calls that read the clock before a window and were decided inside it: a
   caller's second call reads the clock after its first was decided, so they
   are of different callers. *)
LEMMA OneBeforeACaller ==
    ASSUME IInv, NEW t \in Times
    PROVE  /\ IsFiniteSet(ReadBefore(t))
           /\ Cardinality(ReadBefore(t)) <= Cardinality(Callers)
<1> DEFINE by == [e \in ReadBefore(t) |-> e.by]
<1>1. ReadBefore(t) \subseteq admitted
  BY DEF ReadBefore, InWindow
<1>2. by \in [ReadBefore(t) -> Callers]
  BY <1>1 DEF IInv, TypeOK, Event
<1>3. ASSUME NEW e \in ReadBefore(t), NEW f \in ReadBefore(t), e.by = f.by, e # f
      PROVE  FALSE
  <2>1. e.at <= f.read \/ f.at <= e.read
    BY <1>1, <1>3 DEF IInv, OneAtATime
  <2>2. /\ e.read <= t - Window /\ t - Window < e.at
        /\ f.read <= t - Window /\ t - Window < f.at
    BY DEF ReadBefore, InWindow
  <2>3. /\ e.read \in Nat /\ e.at \in Nat /\ f.read \in Nat /\ f.at \in Nat
        /\ t \in Nat /\ Window \in Nat
    BY <1>1, SignRateAssumption DEF IInv, TypeOK, Event, Times
  <2>4. QED
    BY <2>1, <2>2, <2>3
<1>4. by \in Injection(ReadBefore(t), Callers)
  BY <1>2, <1>3 DEF Injection, IsInjective
<1>5. QED
  BY <1>4, FS_Injection, SignRateAssumption

(* What a window holds beyond the limit was read before it began. *)
LEMMA WindowSplit ==
    ASSUME IInv, NEW t \in Times
    PROVE  /\ Cardinality(InWindow(t)) \in Nat
           /\ Cardinality(InWindow(t)) <= Limit + Cardinality(ReadBefore(t))
<1>1. IsFiniteSet(ReadInside(t)) /\ Cardinality(ReadInside(t)) <= Limit
  <2>1. IsFiniteSet(admitted) /\ ReadInside(t) \subseteq admitted
    BY DEF IInv, TypeOK, ReadInside
  <2>2. QED
    BY <2>1, FS_Subset DEF IInv, SliceHoldsWindow
<1>2. IsFiniteSet(ReadBefore(t))
  BY OneBeforeACaller
<1>3. InWindow(t) \subseteq ReadInside(t) \cup ReadBefore(t)
  <2>1. \A e \in admitted : e.read \in Nat
    BY DEF IInv, TypeOK, Event, Times
  <2>2. t \in Nat /\ Window \in Nat
    BY SignRateAssumption DEF Times
  <2>3. QED
    BY <2>1, <2>2 DEF InWindow, ReadInside, ReadBefore
<1>4. /\ IsFiniteSet(ReadInside(t) \cup ReadBefore(t))
      /\ Cardinality(ReadInside(t) \cup ReadBefore(t))
           = Cardinality(ReadInside(t)) + Cardinality(ReadBefore(t))
             - Cardinality(ReadInside(t) \cap ReadBefore(t))
  BY <1>1, <1>2, FS_Union
<1>5. Cardinality(InWindow(t)) <= Cardinality(ReadInside(t) \cup ReadBefore(t))
  BY <1>3, <1>4, FS_Subset
<1>6. /\ Cardinality(ReadInside(t)) \in Nat /\ Cardinality(ReadBefore(t)) \in Nat
      /\ Cardinality(ReadInside(t) \cap ReadBefore(t)) \in Nat
      /\ Cardinality(InWindow(t)) \in Nat
  BY <1>1, <1>2, <1>3, <1>4, FS_Subset, FS_Intersection, FS_CardinalityType
<1>7. QED
  BY <1>1, <1>2, <1>4, <1>5, <1>6, SignRateAssumption

LEMMA WindowBound == IInv => AtMostLimitAndInFlight
<1> SUFFICES ASSUME IInv, NEW t \in Times
             PROVE  Cardinality(InWindow(t)) <= Limit + Cardinality(Callers)
  BY DEF AtMostLimitAndInFlight
<1>1. /\ Cardinality(InWindow(t)) \in Nat
      /\ Cardinality(InWindow(t)) <= Limit + Cardinality(ReadBefore(t))
  BY WindowSplit
<1>2. /\ IsFiniteSet(ReadBefore(t))
      /\ Cardinality(ReadBefore(t)) <= Cardinality(Callers)
  BY OneBeforeACaller
<1>3. Cardinality(ReadBefore(t)) \in Nat /\ Cardinality(Callers) \in Nat
  BY <1>2, FS_CardinalityType, SignRateAssumption
<1>4. QED
  BY <1>1, <1>2, <1>3, SignRateAssumption

-------------------------------------------------------------------------------
(* The theorems.                                                           *)

LEMMA InvariantHolds == Spec => []IInv
<1>1. QED
  BY InitIInv, NextIInv, PTL DEF Spec

(* The slice holds only calls that were allowed, and at most Limit of them. *)
THEOREM TypeCorrect == Spec => []TypeOK
<1>1. IInv => TypeOK
  BY DEF IInv
<1>2. QED
  BY <1>1, InvariantHolds, PTL

(* In whatever order concurrent calls take the mutex after reading the clock, a
   window sees at most Limit calls beyond those, one a caller, that had read the
   clock before it began. *)
THEOREM WindowIsBounded == Spec => []AtMostLimitAndInFlight
<1>1. QED
  BY WindowBound, InvariantHolds, PTL

(* And the excess is exactly theirs: a window none of whose calls had read the
   clock before it began holds at most Limit, as newRateLimiter says. *)
THEOREM ExcessIsInFlight ==
    Spec => [](\A t \in Times :
                  /\ Cardinality(InWindow(t)) <= Limit + Cardinality(ReadBefore(t))
                  /\ ReadBefore(t) = {} => Cardinality(InWindow(t)) <= Limit)
<1> DEFINE Excess ==
      \A t \in Times :
          /\ Cardinality(InWindow(t)) <= Limit + Cardinality(ReadBefore(t))
          /\ ReadBefore(t) = {} => Cardinality(InWindow(t)) <= Limit
<1>1. ASSUME IInv, NEW t \in Times
      PROVE  /\ Cardinality(InWindow(t)) <= Limit + Cardinality(ReadBefore(t))
             /\ ReadBefore(t) = {} => Cardinality(InWindow(t)) <= Limit
  <2>1. /\ Cardinality(InWindow(t)) \in Nat
        /\ Cardinality(InWindow(t)) <= Limit + Cardinality(ReadBefore(t))
    BY <1>1, WindowSplit
  <2>2. ReadBefore(t) = {} => Cardinality(ReadBefore(t)) = 0
    BY FS_EmptySet
  <2>3. QED
    BY <2>1, <2>2, SignRateAssumption
<1>2. IInv => Excess
  BY <1>1
<1>3. QED
  BY <1>2, InvariantHolds, PTL
==============================================================================
