------------------------------ MODULE EventFeed ------------------------------
(***************************************************************************)
(* GET /api/events: the poll loop that tells one connected client which    *)
(* items a reviewer has to look at.  Each connection keeps what it has     *)
(* already announced and compares it, every tick, with what the database   *)
(* lists; the frames travel in order and may be lost when the connection   *)
(* ends.                                                                   *)
(*                                                                         *)
(* An item is a staged diff, a grant request, or a warning that one grant  *)
(* expires at one time; it is known by its created_at, a number.  Items    *)
(* become visible in any order, because created_at is the time their       *)
(* transaction began.  The final "ready" frame only sets a status line of  *)
(* the client and is left out, as are the payloads.                        *)
(***************************************************************************)
EXTENDS Integers, Sequences, FiniteSets, FiniteSetsExt

CONSTANTS
    Diffs,
    Requests,
    Warnings,         \* (grant, expires_at) pairs
    PollLimit,        \* eventPollListLimit
    MaxFrames,        \* bound: frames between the server and the client
    MaxEnds           \* bound: how often a connection ends

Items == Diffs \cup Requests \cup Warnings

ASSUME EventFeedAssumption ==
    /\ Items \subseteq Nat
    /\ IsFiniteSet(Items)
    /\ Diffs \cap Requests = {}
    /\ Warnings \cap (Diffs \cup Requests) = {}
    /\ PollLimit \in Nat \ {0}
    /\ MaxFrames \in Nat \ {0}
    /\ MaxEnds \in Nat

VARIABLES
    status,           \* item -> "absent", "pending" or "resolved"
    displaced,        \* history: items called resolved while still pending
    stream,           \* the connection: "down" or "up"
    ends,             \* how often it has ended
    stage,            \* 0 between polls, else the kind of item being polled
    listed,           \* the list query of this stage has returned
    current,          \* currentDiffs or currentRequests
    todo,             \* listed items still to be announced
    missing,          \* announced before, no longer listed, still to be fetched
    seen,             \* seenDiffs, seenRequests and warnedGrants
    frames            \* sent and not yet handled by the client

feedVars == <<status, displaced, stream, ends, stage, listed, current, todo,
              missing, seen, frames>>
pollVars == <<stage, listed, current, todo, missing>>

\* The kinds, in the order poll goes through them.
KindAt == <<Diffs, Requests, Warnings>>
WarningStage == 3

FeedInit ==
    /\ status = [i \in Items |-> "absent"]
    /\ displaced = {}
    /\ stream = "down"
    /\ ends = 0
    /\ stage = 0
    /\ listed = FALSE
    /\ current = {}
    /\ todo = {}
    /\ missing = {}
    /\ seen = {}
    /\ frames = <<>>

-------------------------------------------------------------------------------
(* The database                                                            *)

\* A proposal or a request commits, or a grant enters the warning window.
Appear(i) ==
    /\ status[i] = "absent"
    /\ status' = [status EXCEPT ![i] = "pending"]
    /\ UNCHANGED <<displaced, stream, ends, pollVars, seen, frames>>

\* Decided on any surface; for a warning: renewed, revoked or expired.
Resolve(i) ==
    /\ status[i] = "pending"
    /\ status' = [status EXCEPT ![i] = "resolved"]
    /\ UNCHANGED <<displaced, stream, ends, pollVars, seen, frames>>

Pending(S) == {i \in S : status[i] = "pending"}

\* ORDER BY created_at ASC LIMIT.
Oldest(S) == {i \in S : Cardinality({j \in S : j < i}) < PollLimit}

\* What the list query of a stage returns; ListGrantsNearingExpiry has no limit.
Listing(k) ==
    IF k = WarningStage THEN Pending(Warnings) ELSE Oldest(Pending(KindAt[k]))

-------------------------------------------------------------------------------
(* One connection of streamEvents                                          *)

\* Seeded fault: what was announced on the last connection is taken as known.
FaultyBaseline == seen
Baseline == {}

Connect ==
    /\ stream = "down" /\ frames = <<>>
    /\ stream' = "up"
    /\ stage' = 1
    /\ seen' = Baseline
    /\ UNCHANGED <<status, displaced, ends, listed, current, todo, missing, frames>>

Tick ==
    /\ stream = "up" /\ stage = 0
    /\ stage' = 1
    /\ UNCHANGED <<status, displaced, stream, ends, listed, current, todo,
                   missing, seen, frames>>

List ==
    /\ stream = "up" /\ stage # 0 /\ ~listed
    /\ listed' = TRUE
    /\ current' = Listing(stage)
    /\ todo' = Listing(stage) \ seen
    /\ missing' = IF stage = WarningStage
                  THEN {}
                  ELSE (seen \cap KindAt[stage]) \ Listing(stage)
    /\ UNCHANGED <<status, displaced, stream, ends, stage, seen, frames>>

Send(type, i) ==
    /\ Len(frames) < MaxFrames
    /\ frames' = Append(frames, [type |-> type, item |-> i])

\* "_added", oldest first; a warning is marked as sent at once.
Announce ==
    /\ stream = "up" /\ listed /\ todo # {}
    /\ LET i == Min(todo)
       IN  /\ Send("added", i)
           /\ todo' = todo \ {i}
           /\ seen' = IF stage = WarningStage THEN seen \cup {i} ELSE seen
    /\ UNCHANGED <<status, displaced, stream, ends, stage, listed, current, missing>>

\* "_resolved" with the item as it is now, which may be pending still.
SendResolved(i) ==
    /\ stream = "up" /\ listed /\ todo = {} /\ i \in missing
    /\ Send("resolved", i)
    /\ missing' = missing \ {i}
    /\ displaced' = IF status[i] = "pending" THEN displaced \cup {i} ELSE displaced
    /\ UNCHANGED <<status, stream, ends, stage, listed, current, todo, seen>>

\* Seeded fault: the item whose fetch failed is forgotten.
FaultyKeepTracking(i) == current
KeepTracking(i) == current \cup {i}

\* The fetch failed: keep the item for the next poll.
FetchFails(i) ==
    /\ stream = "up" /\ listed /\ todo = {} /\ i \in missing
    /\ current' = KeepTracking(i)
    /\ missing' = missing \ {i}
    /\ UNCHANGED <<status, displaced, stream, ends, stage, listed, todo, seen, frames>>

EndStage ==
    /\ stream = "up" /\ listed /\ todo = {} /\ missing = {}
    /\ seen' = IF stage = WarningStage
               THEN seen
               ELSE (seen \ KindAt[stage]) \cup current
    /\ stage' = IF stage = WarningStage THEN 0 ELSE stage + 1
    /\ listed' = FALSE
    /\ current' = {}
    /\ UNCHANGED <<status, displaced, stream, ends, todo, missing, frames>>

\* A query or a write failed, or the network dropped: the client still reads
\* some of the frames that were sent.
StreamEnds ==
    /\ stream = "up" /\ ends < MaxEnds
    /\ stream' = "down"
    /\ ends' = ends + 1
    /\ \E n \in 0..Len(frames) : frames' = SubSeq(frames, 1, n)
    /\ stage' = 0
    /\ listed' = FALSE
    /\ current' = {}
    /\ todo' = {}
    /\ missing' = {}
    /\ UNCHANGED <<status, displaced, seen>>

ServerStep == Connect \/ Tick \/ List \/ Announce \/ EndStage

FeedNext ==
    \/ \E i \in Items : Appear(i) \/ Resolve(i)
    \/ ServerStep
    \/ \E i \in Items : SendResolved(i) \/ FetchFails(i)
    \/ StreamEnds

\* What the server takes the client to know: within a stage, what it has sent
\* so far counts.
TakenAsKnown ==
    IF listed /\ stage # WarningStage
    THEN (seen \ KindAt[stage]) \cup (current \ todo) \cup missing
    ELSE seen

FeedTypeOK ==
    /\ status \in [Items -> {"absent", "pending", "resolved"}]
    /\ displaced \subseteq Diffs \cup Requests
    /\ stream \in {"down", "up"}
    /\ ends \in 0..MaxEnds
    /\ stage \in 0..WarningStage
    /\ listed \in BOOLEAN
    /\ listed => stage # 0
    /\ current \subseteq Items
    /\ todo \subseteq current
    /\ missing \subseteq seen \ Warnings
    /\ seen \subseteq Items
    /\ frames \in Seq([type : {"added", "resolved"}, item : Items])
    /\ Len(frames) <= MaxFrames
===============================================================================
