-------------------------- MODULE ReviewFeed_proofs ---------------------------
(***************************************************************************)
(* Proofs about the event feed and its clients, for any items, any limit of*)
(* the list, any number of lost connections and either client.  The        *)
(* inductive invariant adds to the types how far a poll has come           *)
(* (PollInOrder), that only items that exist are told of (OnlyWhatExists), *)
(* that client and server agree (NothingFallsBetween), and that an item    *)
(* that was called resolved is announced no more (SaidOnce).               *)
(***************************************************************************)
EXTENDS ReviewFeed, SequenceTheorems, WellFoundedInduction, TLAPS

Frames == [type : {"added", "resolved"}, item : Items]

\* Between polls nothing is listed; within a stage, what is missing is of its
\* kind and was not listed.
PollInOrder ==
    /\ stream = "down" => ~listed
    /\ ~listed => current = {} /\ missing = {}
    /\ listed => current \cup missing \subseteq KindAt[stage]
    /\ current \cap missing = {}

OnlyWhatExists ==
    /\ \A i \in seen \cup current : status[i] # "absent"
    /\ \A n \in DOMAIN frames : status[frames[n].item] # "absent"

FeedInv == FeedTypeOK /\ PollInOrder /\ OnlyWhatExists

-------------------------------------------------------------------------------
(* Helpers                                                                 *)

LEMMA Kinds ==
  /\ \A k \in 1 .. WarningStage : KindAt[k] \subseteq Items
  /\ KindAt[WarningStage] = Warnings
  /\ \A k \in 1 .. WarningStage : k # WarningStage => KindAt[k] \subseteq Diffs \cup Requests
  /\ \A k \in 1 .. WarningStage : Listing(k) \subseteq Pending(KindAt[k])
<1>1. KindAt[1] = Diffs /\ KindAt[2] = Requests /\ KindAt[3] = Warnings
  BY DEF KindAt
<1>2. \A k \in 1 .. WarningStage : k = 1 \/ k = 2 \/ k = 3
  BY DEF WarningStage
<1> QED BY <1>1, <1>2 DEF Items, WarningStage, Listing, Oldest

\* The oldest item that is to be announced is one of them.
LEMMA MinIsMember ==
  ASSUME NEW S, S \subseteq Items, S # {}
  PROVE  Min(S) \in S
<1>1. S \subseteq Nat
  BY EventFeedAssumption
<1>2. PICK x \in S : \A y \in S : <<y, x>> \notin OpToRel(<, Nat)
  BY <1>1, NatLessThanWellFounded, WFMin, Zenon
<1>3. \A y \in S : ~(y < x)
  BY <1>1, <1>2 DEF OpToRel
<1>4. \A y \in S : x <= y
  BY <1>1, <1>3
<1> QED BY <1>4 DEF Min

LEMMA FeedStarts == FeedInit => FeedInv
<1> SUFFICES ASSUME FeedInit PROVE FeedInv
  OBVIOUS
<1> USE DEF FeedInit
<1>1. FeedTypeOK
  <2>1. status \in [Items -> {"absent", "pending", "resolved"}]
    OBVIOUS
  <2>2. frames \in Seq(Frames) /\ Len(frames) <= MaxFrames
    BY EventFeedAssumption
  <2>3. ends \in 0 .. MaxEnds
    BY EventFeedAssumption
  <2>4. /\ displaced \subseteq Diffs \cup Requests /\ stream \in {"down", "up"}
        /\ stage \in 0 .. WarningStage
    BY DEF WarningStage
  <2>5. listed \in BOOLEAN /\ ~listed
    OBVIOUS
  <2>6. /\ current \subseteq Items /\ todo \subseteq current
        /\ missing \subseteq seen \ Warnings /\ seen \subseteq Items
    OBVIOUS
  <2> HIDE DEF FeedInit
  <2> QED BY <2>1, <2>2, <2>3, <2>4, <2>5, <2>6 DEF FeedTypeOK, Frames
<1>2. PollInOrder /\ OnlyWhatExists
  BY DEF PollInOrder, OnlyWhatExists
<1> QED BY <1>1, <1>2 DEF FeedInv

\* Sending appends one frame.
LEMMA SendAppends ==
  ASSUME frames \in Seq(Frames), NEW type \in {"added", "resolved"}, NEW i \in Items,
         Send(type, i)
  PROVE  /\ frames' \in Seq(Frames)
         /\ Len(frames') = Len(frames) + 1
         /\ Len(frames') <= MaxFrames
         /\ DOMAIN frames' = DOMAIN frames \cup {Len(frames')}
         /\ frames'[Len(frames')] = [type |-> type, item |-> i]
         /\ \A n \in DOMAIN frames : frames'[n] = frames[n]
<1>1. [type |-> type, item |-> i] \in Frames
  BY DEF Frames
<1> QED BY <1>1, EventFeedAssumption DEF Send

\* Handling takes the first frame away.
LEMMA TakeShifts ==
  ASSUME frames \in Seq(Frames), NEW type, Take(type)
  PROVE  /\ frames' \in Seq(Frames)
         /\ Len(frames') = Len(frames) - 1
         /\ 1 \in DOMAIN frames /\ Head(frames) = frames[1] /\ frames[1] \in Frames
         /\ frames[1].type = type /\ frames[1].item \in Items
         /\ \A n \in DOMAIN frames' : n + 1 \in DOMAIN frames /\ frames'[n] = frames[n + 1]
         /\ \A n \in DOMAIN frames : n # 1 => n - 1 \in DOMAIN frames' /\ frames'[n - 1] = frames[n]
<1>1. Len(frames) > 0 /\ 1 \in DOMAIN frames
  BY DEF Take
<1>2. frames[1] \in Frames
  BY <1>1
<1> QED BY <1>1, <1>2 DEF Take, Frames

-------------------------------------------------------------------------------
(* The feed                                                                *)

LEMMA FeedNextInv == FeedInv /\ FeedNext => FeedInv'
<1> SUFFICES ASSUME FeedInv, FeedNext PROVE FeedInv'
  OBVIOUS
<1> USE DEF FeedInv, pollVars
<1>0. /\ frames \in Seq(Frames) /\ WarningStage = 3
      /\ stage # 0 => stage \in 1 .. WarningStage
  BY DEF FeedTypeOK, Frames, WarningStage
<1>f. \A n \in DOMAIN frames : frames[n] \in Frames
  BY <1>0
<1>1. ASSUME NEW i \in Items, Appear(i) \/ Resolve(i) PROVE FeedInv'
  <2> USE <1>1 DEF Appear, Resolve
  <2>1. FeedTypeOK'
    BY DEF FeedTypeOK
  <2>2. \A j \in Items : status[j] # "absent" => status'[j] # "absent"
    BY DEF FeedTypeOK
  <2>3. \A n \in DOMAIN frames : frames[n].item \in Items
    BY <1>f DEF Frames
  <2>4. OnlyWhatExists'
    BY <2>2, <2>3 DEF OnlyWhatExists, FeedTypeOK
  <2> QED BY <2>1, <2>4 DEF PollInOrder
<1>2. ASSUME Connect PROVE FeedInv'
  <2> USE <1>2 DEF Connect, Baseline
  <2>1. FeedTypeOK'
    BY <1>0 DEF FeedTypeOK, PollInOrder
  <2> QED BY <2>1 DEF PollInOrder, OnlyWhatExists
<1>3. ASSUME Tick PROVE FeedInv'
  <2> USE <1>3 DEF Tick
  <2>1. FeedTypeOK'
    BY <1>0 DEF FeedTypeOK
  <2> QED BY <2>1 DEF PollInOrder, OnlyWhatExists, FeedTypeOK
<1>4. ASSUME List PROVE FeedInv'
  <2> USE <1>4 DEF List
  <2>1. /\ Listing(stage) \subseteq Pending(KindAt[stage])
        /\ Pending(KindAt[stage]) \subseteq KindAt[stage]
        /\ KindAt[stage] \subseteq Items
        /\ stage # WarningStage => KindAt[stage] \cap Warnings = {}
    BY <1>0, Kinds, EventFeedAssumption DEF Pending
  <2>2. FeedTypeOK'
    BY <1>0, <2>1 DEF FeedTypeOK
  <2>3. PollInOrder'
    BY <1>0, <2>1 DEF PollInOrder
  <2>4. \A i \in current' : status[i] # "absent"
    BY <2>1 DEF Pending
  <2> QED BY <2>2, <2>3, <2>4 DEF OnlyWhatExists
<1>5. ASSUME Announce PROVE FeedInv'
  <2> DEFINE i == Min(todo)
  <2>1. i \in todo /\ i \in Items
    BY <1>5, MinIsMember DEF Announce, FeedTypeOK
  <2>2. Send("added", i)
    BY <1>5 DEF Announce
  <2> HIDE DEF i
  <2>3. /\ frames' \in Seq(Frames)
        /\ Len(frames') <= MaxFrames
        /\ DOMAIN frames' = DOMAIN frames \cup {Len(frames')}
        /\ frames'[Len(frames')] = [type |-> "added", item |-> i]
        /\ \A n \in DOMAIN frames : frames'[n] = frames[n]
    BY <1>0, <2>1, <2>2, SendAppends
  <2>4. /\ todo' = todo \ {i}
        /\ seen' = IF stage = WarningStage THEN seen \cup {i} ELSE seen
        /\ UNCHANGED <<status, displaced, stream, ends, stage, listed, current, missing>>
    BY <1>5 DEF Announce, i
  <2>5. FeedTypeOK'
    BY <2>1, <2>3, <2>4 DEF FeedTypeOK, Frames
  <2>6. PollInOrder'
    BY <2>4 DEF PollInOrder
  <2>7. OnlyWhatExists'
    <3>1. status[i] # "absent"
      BY <2>1 DEF OnlyWhatExists, FeedTypeOK
    <3>2. \A j \in seen' \cup current' : status'[j] # "absent"
      BY <2>4, <3>1 DEF OnlyWhatExists
    <3>3. \A n \in DOMAIN frames' : status'[frames'[n].item] # "absent"
      <4>1. ASSUME NEW n \in DOMAIN frames PROVE status'[frames'[n].item] # "absent"
        BY <2>3, <2>4 DEF OnlyWhatExists
      <4>2. status'[frames'[Len(frames')].item] # "absent"
        BY <2>3, <2>4, <3>1
      <4> QED BY <2>3, <4>1, <4>2
    <3> QED BY <3>2, <3>3 DEF OnlyWhatExists
  <2> QED BY <2>5, <2>6, <2>7
<1>6. ASSUME NEW i \in Items, SendResolved(i) PROVE FeedInv'
  <2> USE <1>6 DEF SendResolved
  <2>1. i \in seen \ Warnings
    BY DEF FeedTypeOK
  <2>2. /\ frames' \in Seq(Frames)
        /\ Len(frames') <= MaxFrames
        /\ DOMAIN frames' = DOMAIN frames \cup {Len(frames')}
        /\ frames'[Len(frames')] = [type |-> "resolved", item |-> i]
        /\ \A n \in DOMAIN frames : frames'[n] = frames[n]
    BY <1>0, SendAppends
  <2>3. FeedTypeOK'
    BY <2>1, <2>2 DEF FeedTypeOK, Frames, Items
  <2>4. \A n \in DOMAIN frames' : status'[frames'[n].item] # "absent"
    <3>1. ASSUME NEW n \in DOMAIN frames PROVE status'[frames'[n].item] # "absent"
      BY <2>2 DEF OnlyWhatExists
    <3>2. status'[frames'[Len(frames')].item] # "absent"
      BY <2>1, <2>2 DEF OnlyWhatExists
    <3> QED BY <2>2, <3>1, <3>2
  <2>5. OnlyWhatExists'
    BY <2>4 DEF OnlyWhatExists
  <2> QED BY <2>3, <2>5 DEF PollInOrder
<1>7. ASSUME NEW i \in Items, FetchFails(i) PROVE FeedInv'
  <2> USE <1>7 DEF FetchFails, KeepTracking
  <2>1. i \in seen
    BY DEF FeedTypeOK
  <2>2. FeedTypeOK'
    BY DEF FeedTypeOK
  <2> QED BY <2>1, <2>2 DEF PollInOrder, OnlyWhatExists
<1>8. ASSUME EndStage PROVE FeedInv'
  <2> USE <1>8 DEF EndStage
  <2>1. FeedTypeOK'
    <3>1. stage' \in 0 .. WarningStage
      BY <1>0 DEF FeedTypeOK
    <3>3. listed' \in BOOLEAN /\ ~listed'
      OBVIOUS
    <3>2. seen' \subseteq Items /\ current' = {} /\ todo' = {} /\ missing' = {}
      BY DEF FeedTypeOK
    <3> QED BY <3>1, <3>2, <3>3 DEF FeedTypeOK
  <2> QED BY <2>1 DEF PollInOrder, OnlyWhatExists
<1>9. ASSUME StreamEnds PROVE FeedInv'
  <2> USE <1>9 DEF StreamEnds
  <2>1. PICK n \in 0 .. Len(frames) : frames' = SubSeq(frames, 1, n)
    OBVIOUS
  <2>2. /\ frames' \in Seq(Frames) /\ Len(frames') <= MaxFrames
        /\ \A m \in DOMAIN frames' : m \in DOMAIN frames /\ frames'[m] = frames[m]
    BY <1>0, <2>1, EventFeedAssumption DEF FeedTypeOK
  <2>3. FeedTypeOK'
    <3>1. ends' \in 0 .. MaxEnds
      BY EventFeedAssumption DEF FeedTypeOK
    <3>2. stage' \in 0 .. WarningStage /\ stream' \in {"down", "up"}
      BY DEF WarningStage
    <3> QED BY <2>2, <3>1, <3>2 DEF FeedTypeOK, Frames
  <2>4. OnlyWhatExists'
    BY <2>2 DEF OnlyWhatExists
  <2> QED BY <2>3, <2>4 DEF PollInOrder
<1> QED BY <1>1, <1>2, <1>3, <1>4, <1>5, <1>6, <1>7, <1>8, <1>9 DEF FeedNext, ServerStep

LEMMA FrameInv ==
  ASSUME FeedInv, NEW type, Take(type), FrameUnchanged
  PROVE  FeedInv'
<1>1. /\ frames' \in Seq(Frames)
      /\ Len(frames') = Len(frames) - 1
      /\ \A n \in DOMAIN frames' : n + 1 \in DOMAIN frames /\ frames'[n] = frames[n + 1]
  BY TakeShifts DEF FeedInv, FeedTypeOK, Frames
<1>2. FeedTypeOK'
  BY <1>1, EventFeedAssumption DEF FeedInv, FeedTypeOK, FrameUnchanged, pollVars, Frames
<1>3. OnlyWhatExists'
  BY <1>1 DEF FeedInv, OnlyWhatExists, FrameUnchanged, pollVars
<1> QED BY <1>2, <1>3 DEF FeedInv, PollInOrder, FrameUnchanged, pollVars

-------------------------------------------------------------------------------
(* Types                                                                   *)

ClientTypeOK ==
    /\ client \in Clients
    /\ past \subseteq Warnings
    /\ notified \subseteq Items
    /\ pushed \in [Items -> Nat]
    /\ failed \subseteq Items \ notified
    /\ order \in Seq(Diffs \cup Requests)
    /\ IsInjective(order)
    /\ selected \in 1..(IF order = <<>> THEN 1 ELSE Len(order))
    /\ prompt \in Diffs \cup Requests \cup {None}

Typed == FeedInv /\ ClientTypeOK

LEMMA TypedGivesTypeOK == Typed => TypeOK
BY DEF Typed, FeedInv, ClientTypeOK, TypeOK

\* A queue with a new item at its end.
LEMMA AppendKeeps ==
  ASSUME NEW q \in Seq(Diffs \cup Requests), IsInjective(q),
         NEW i \in Diffs \cup Requests, i \notin ToSet(q)
  PROVE  /\ Append(q, i) \in Seq(Diffs \cup Requests)
         /\ IsInjective(Append(q, i))
         /\ Len(Append(q, i)) = Len(q) + 1
         /\ \A n \in DOMAIN q : Append(q, i)[n] = q[n]
         /\ ToSet(Append(q, i)) = ToSet(q) \cup {i}
<1> DEFINE r == Append(q, i)
<1>1. /\ r \in Seq(Diffs \cup Requests)
      /\ Len(r) = Len(q) + 1
      /\ DOMAIN r = DOMAIN q \cup {Len(r)}
      /\ r[Len(r)] = i
      /\ \A n \in DOMAIN q : r[n] = q[n]
  OBVIOUS
<1> HIDE DEF r
<1>2. \A n \in DOMAIN q : q[n] # i
  BY DEF ToSet
<1>3. IsInjective(r)
  <2> SUFFICES ASSUME NEW a \in DOMAIN r, NEW b \in DOMAIN r, r[a] = r[b] PROVE a = b
    BY DEF IsInjective
  <2> QED BY <1>1, <1>2 DEF IsInjective
<1>4. ToSet(r) = ToSet(q) \cup {i}
  BY <1>1 DEF ToSet
<1> QED BY <1>1, <1>3, <1>4 DEF r

\* A queue without the item at index "at": the ones behind it move up.
LEMMA RemoveAtKeeps ==
  ASSUME NEW q \in Seq(Diffs \cup Requests), IsInjective(q), NEW at \in DOMAIN q
  PROVE  LET r == RemoveAt(q, at)
         IN  /\ r \in Seq(Diffs \cup Requests)
             /\ IsInjective(r)
             /\ Len(r) = Len(q) - 1
             /\ \A n \in DOMAIN r : r[n] = IF n < at THEN q[n] ELSE q[n + 1]
             /\ ToSet(r) = ToSet(q) \ {q[at]}
<1> DEFINE r == RemoveAt(q, at)
           left == SubSeq(q, 1, at - 1)
           right == SubSeq(q, at + 1, Len(q))
<1>0. at \in 1 .. Len(q) /\ Len(q) \in Nat
  OBVIOUS
<1>1. /\ left \in Seq(Diffs \cup Requests) /\ Len(left) = at - 1
      /\ \A n \in 1 .. at - 1 : left[n] = q[n]
  BY <1>0
<1>2. /\ right \in Seq(Diffs \cup Requests) /\ Len(right) = Len(q) - at
      /\ \A n \in 1 .. Len(q) - at : right[n] = q[at + n]
  BY <1>0
<1>3. r = left \o right
  BY DEF RemoveAt
<1> HIDE DEF r, left, right
<1>c. /\ r \in Seq(Diffs \cup Requests) /\ Len(r) = Len(left) + Len(right)
      /\ \A n \in 1 .. Len(r) : r[n] = IF n <= Len(left) THEN left[n] ELSE right[n - Len(left)]
  <2>1. /\ left \o right \in Seq(Diffs \cup Requests)
        /\ Len(left \o right) = Len(left) + Len(right)
        /\ \A n \in 1 .. Len(left) + Len(right) :
              (left \o right)[n] = IF n <= Len(left) THEN left[n] ELSE right[n - Len(left)]
    BY <1>1, <1>2, ConcatProperties, Zenon
  <2> QED BY <1>3, <2>1
<1>4. /\ r \in Seq(Diffs \cup Requests) /\ Len(r) = Len(q) - 1
      /\ DOMAIN r = 1 .. Len(q) - 1
      /\ \A n \in 1 .. Len(q) - 1 : r[n] = IF n < at THEN q[n] ELSE q[n + 1]
  <2>1. r \in Seq(Diffs \cup Requests) /\ Len(r) = Len(q) - 1
    BY <1>0, <1>1, <1>2, <1>c
  <2>2. ASSUME NEW n \in 1 .. Len(q) - 1 PROVE r[n] = IF n < at THEN q[n] ELSE q[n + 1]
    <3>1. CASE n < at
      BY <1>0, <1>1, <1>c, <2>1, <3>1
    <3>2. CASE n >= at
      <4>1. r[n] = right[n - Len(left)]
        BY <1>0, <1>1, <1>c, <2>1, <3>2
      <4>2. n - Len(left) \in 1 .. Len(q) - at /\ at + (n - Len(left)) = n + 1
        BY <1>0, <1>1, <3>2
      <4>3. right[n - Len(left)] = q[at + (n - Len(left))]
        BY <1>2, <4>2
      <4> QED BY <3>2, <4>1, <4>2, <4>3, <1>0
    <3> QED BY <1>0, <3>1, <3>2
  <2> QED BY <1>0, <1>1, <1>2, <2>1, <2>2
<1>5. IsInjective(r)
  <2> SUFFICES ASSUME NEW a \in DOMAIN r, NEW b \in DOMAIN r, r[a] = r[b] PROVE a = b
    BY DEF IsInjective
  <2> DEFINE old(n) == IF n < at THEN n ELSE n + 1
  <2>1. old(a) \in DOMAIN q /\ old(b) \in DOMAIN q /\ q[old(a)] = q[old(b)]
    BY <1>0, <1>4
  <2>2. old(a) = old(b)
    BY <2>1 DEF IsInjective
  <2> QED BY <2>2, <1>0, <1>4
<1>6. ToSet(r) = ToSet(q) \ {q[at]}
  <2>1. ASSUME NEW n \in DOMAIN r PROVE r[n] \in ToSet(q) \ {q[at]}
    <3> DEFINE m == IF n < at THEN n ELSE n + 1
    <3>1. m \in DOMAIN q /\ m # at /\ r[n] = q[m]
      BY <1>0, <1>4
    <3> HIDE DEF m
    <3> QED BY <3>1 DEF ToSet, IsInjective
  <2>2. ASSUME NEW m \in DOMAIN q, m # at PROVE q[m] \in ToSet(r)
    <3> DEFINE n == IF m < at THEN m ELSE m - 1
    <3>1. n \in DOMAIN r /\ r[n] = q[m]
      BY <1>0, <1>4, <2>2
    <3> HIDE DEF n
    <3> QED BY <3>1 DEF ToSet
  <2> QED BY <2>1, <2>2 DEF ToSet
<1> QED BY <1>4, <1>5, <1>6 DEF r

\* Where the item that leaves the queue is.
LEMMA PlaceInQueue ==
  ASSUME NEW i \in Queue
  PROVE  LET at == CHOOSE n \in DOMAIN order : order[n] = i
         IN  at \in DOMAIN order /\ order[at] = i
BY DEF Queue, ToSet

LEMMA TypedInit == Init => Typed
<1> SUFFICES ASSUME Init PROVE Typed
  OBVIOUS
<1>1. FeedInv
  BY FeedStarts DEF Init
<1>2. order \in Seq(Diffs \cup Requests) /\ IsInjective(order)
  BY DEF Init, IsInjective
<1>3. pushed \in [Items -> Nat]
  BY DEF Init
<1> QED BY <1>1, <1>2, <1>3 DEF Init, ClientTypeOK, Typed

\* What the approver does with a frame, to its queue and its selection.
LEMMA UpsertKeeps ==
  ASSUME Typed, Upsert
  PROVE  ClientTypeOK'
<1>1. Head(frames).item \in Items
  BY TakeShifts DEF Upsert, Typed, FeedInv, FeedTypeOK, Frames
<1> DEFINE i == Head(frames).item
<1>2. UNCHANGED <<client, bridgeVars, selected, prompt>>
  BY DEF Upsert, FrameUnchanged
<1>3. CASE i \in Queue \/ i \in Warnings
  BY <1>2, <1>3 DEF Upsert, Typed, ClientTypeOK, bridgeVars, IsInjective
<1>4. CASE i \notin Queue /\ i \notin Warnings
  <2>1. i \in Diffs \cup Requests /\ i \notin ToSet(order) /\ order' = Append(order, i)
    BY <1>1, <1>4 DEF Upsert, Items, Queue
  <2> HIDE DEF i
  <2>2. /\ order' \in Seq(Diffs \cup Requests) /\ IsInjective(order')
        /\ Len(order') = Len(order) + 1
    BY <2>1, AppendKeeps DEF Typed, ClientTypeOK
  <2>3. selected' \in 1 .. (IF order' = <<>> THEN 1 ELSE Len(order'))
    BY <1>2, <2>2 DEF Typed, ClientTypeOK
  <2> QED BY <1>2, <2>2, <2>3 DEF Typed, ClientTypeOK, bridgeVars
<1> QED BY <1>3, <1>4

LEMMA RemoveItemDoes ==
  ASSUME Typed, RemoveItem, Head(frames).item \in Queue
  PROVE  LET i  == Head(frames).item
             at == CHOOSE n \in DOMAIN order : order[n] = i
         IN  /\ at \in DOMAIN order /\ order[at] = i
             /\ order' \in Seq(Diffs \cup Requests) /\ IsInjective(order')
             /\ Len(order') = Len(order) - 1
             /\ \A n \in DOMAIN order' :
                   order'[n] = IF n < at THEN order[n] ELSE order[n + 1]
             /\ ToSet(order') = Queue \ {i}
             /\ selected' = Shifted(at, Len(order) - 1)
             /\ prompt' = PromptAfter(i)
             /\ UNCHANGED <<client, bridgeVars>>
<1> DEFINE i  == Head(frames).item
           at == CHOOSE n \in DOMAIN order : order[n] = i
<1>1. at \in DOMAIN order /\ order[at] = i
  BY PlaceInQueue
<1>2. /\ order' = RemoveAt(order, at)
      /\ selected' = Shifted(at, Len(order) - 1)
      /\ prompt' = PromptAfter(i)
      /\ UNCHANGED <<client, bridgeVars>>
  BY DEF RemoveItem, FrameUnchanged
<1> HIDE DEF i, at
<1>3. order \in Seq(Diffs \cup Requests) /\ IsInjective(order)
  BY DEF Typed, ClientTypeOK
<1>4. /\ order' \in Seq(Diffs \cup Requests) /\ IsInjective(order')
      /\ Len(order') = Len(order) - 1
      /\ \A n \in DOMAIN order' :
            order'[n] = IF n < at THEN order[n] ELSE order[n + 1]
      /\ ToSet(order') = ToSet(order) \ {order[at]}
  BY <1>1, <1>2, <1>3, RemoveAtKeeps
<1> QED BY <1>1, <1>2, <1>4 DEF Queue, i, at

LEMMA RemoveItemKeeps ==
  ASSUME Typed, RemoveItem
  PROVE  ClientTypeOK'
<1> DEFINE i  == Head(frames).item
           at == CHOOSE n \in DOMAIN order : order[n] = i
<1>1. CASE i \notin Queue
  <2>1. UNCHANGED <<client, bridgeVars, approverVars>>
    BY <1>1 DEF RemoveItem, FrameUnchanged
  <2> QED BY <2>1 DEF Typed, ClientTypeOK, bridgeVars, approverVars, IsInjective
<1>2. CASE i \in Queue
  <2>1. /\ at \in DOMAIN order
        /\ order' \in Seq(Diffs \cup Requests) /\ IsInjective(order')
        /\ Len(order') = Len(order) - 1
        /\ selected' = Shifted(at, Len(order) - 1)
        /\ prompt' = PromptAfter(i)
        /\ UNCHANGED <<client, bridgeVars>>
    BY <1>2, RemoveItemDoes
  <2> HIDE DEF i, at
  <2>2. selected \in 1 .. Len(order) /\ Len(order) \in Nat /\ at \in 1 .. Len(order)
    BY <2>1 DEF Typed, ClientTypeOK
  <2>3. selected' \in 1 .. (IF Len(order') = 0 THEN 1 ELSE Len(order'))
    BY <2>1, <2>2 DEF Shifted
  <2>4. selected' \in 1 .. (IF order' = <<>> THEN 1 ELSE Len(order'))
    BY <2>1, <2>3
  <2>5. prompt' \in Diffs \cup Requests \cup {None}
    BY <2>1 DEF PromptAfter, Typed, ClientTypeOK
  <2> QED BY <2>1, <2>4, <2>5 DEF Typed, ClientTypeOK, bridgeVars
<1> QED BY <1>1, <1>2

LEMMA BridgeKeeps ==
  ASSUME Typed,
         BridgeSkips \/ (\E accepted \in BOOLEAN : BridgePushes(accepted)) \/ BridgeForgets
  PROVE  ClientTypeOK'
<1> USE DEF bridgeVars, approverVars, FrameUnchanged
<1> DEFINE i == Head(frames).item
<1>1. i \in Items
  BY TakeShifts DEF BridgeSkips, BridgePushes, BridgeForgets, Typed, FeedInv, FeedTypeOK, Frames
<1>2. UNCHANGED <<client, past, approverVars>>
  BY DEF BridgeSkips, BridgePushes, BridgeForgets
<1>3. /\ notified' \subseteq Items
      /\ pushed' \in [Items -> Nat]
      /\ failed' \subseteq Items \ notified'
  <2>0. Remembered(i) \subseteq notified
    BY DEF Remembered
  <2> HIDE DEF i
  <2>1. CASE BridgeSkips
    BY <2>1, <2>0 DEF BridgeSkips, Typed, ClientTypeOK, i
  <2>2. CASE BridgeForgets
    BY <2>2 DEF BridgeForgets, Typed, ClientTypeOK, i
  <2>3. CASE \E accepted \in BOOLEAN : BridgePushes(accepted)
    BY <2>3, <2>0, <1>1 DEF BridgePushes, Typed, ClientTypeOK, i
  <2> QED BY <2>1, <2>2, <2>3
<1> QED BY <1>2, <1>3 DEF Typed, ClientTypeOK, IsInjective

LEMMA TypedNext == Typed /\ [Next]_vars => Typed'
<1> SUFFICES ASSUME Typed, [Next]_vars PROVE Typed'
  OBVIOUS
<1>1. CASE FeedNext /\ UNCHANGED <<client, bridgeVars, approverVars>>
  <2>1. FeedInv'
    BY <1>1, FeedNextInv DEF Typed
  <2>2. ClientTypeOK'
    BY <1>1 DEF Typed, ClientTypeOK, bridgeVars, approverVars, IsInjective
  <2> QED BY <2>1, <2>2 DEF Typed
<1>2. CASE HandleFrame
  <2>1. FeedInv'
    <3>1. \E type : Take(type) /\ FrameUnchanged
      BY <1>2 DEF HandleFrame, BridgeSkips, BridgePushes, BridgeForgets, Upsert, RemoveItem
    <3> QED BY <3>1, FrameInv DEF Typed
  <2>2. ClientTypeOK'
    BY <1>2, BridgeKeeps, UpsertKeeps, RemoveItemKeeps DEF HandleFrame
  <2> QED BY <2>1, <2>2 DEF Typed
<1>3. CASE UNCHANGED feedVars
  <2>1. FeedInv'
    BY <1>3 DEF Typed, FeedInv, FeedTypeOK, PollInOrder, OnlyWhatExists, feedVars, pollVars
  <2>2. ASSUME NEW w \in Warnings, Expire(w) PROVE ClientTypeOK'
    BY <2>2 DEF Expire, Typed, ClientTypeOK, approverVars, IsInjective
  <2>3. ASSUME NEW n \in Int, Move(n) PROVE ClientTypeOK'
    <3>1. n \in 1 .. Len(order) /\ order # <<>>
      BY <2>3 DEF Move, Typed, ClientTypeOK
    <3> QED BY <2>3, <3>1 DEF Move, Typed, ClientTypeOK, bridgeVars, IsInjective
  <2>4. ASSUME OpenPrompt \/ ClosePrompt PROVE ClientTypeOK'
    <3>1. prompt' \in Diffs \cup Requests \cup {None}
      BY <2>4 DEF OpenPrompt, ClosePrompt, Typed, ClientTypeOK
    <3> QED BY <2>4, <3>1 DEF OpenPrompt, ClosePrompt, Typed, ClientTypeOK, bridgeVars, IsInjective
  <2>5. ASSUME UNCHANGED vars PROVE ClientTypeOK'
    BY <2>5 DEF vars, Typed, ClientTypeOK, bridgeVars, approverVars, IsInjective
  <2>6. ASSUME HandleFrame \/ (FeedNext /\ UNCHANGED <<client, bridgeVars, approverVars>>)
        PROVE  Typed'
    BY <2>6, <1>1, <1>2
  <2> QED BY <2>1, <2>2, <2>3, <2>4, <2>5, <2>6 DEF Next, Typed
<1>4. CASE ~HandleFrame /\ ~(FeedNext /\ UNCHANGED <<client, bridgeVars, approverVars>>)
  <2>1. UNCHANGED feedVars
    BY <1>4 DEF Next, Expire, Move, OpenPrompt, ClosePrompt, vars
  <2> QED BY <1>3, <2>1
<1> QED BY <1>1, <1>2, <1>4

LEMMA TypedInvariance == Spec => []Typed
BY TypedInit, TypedNext, PTL DEF Spec

\* Every variable keeps its type: the queue holds an item once, and the selection
\* stays inside it.
THEOREM TypeCorrect == Spec => []TypeOK
BY TypedInvariance, TypedGivesTypeOK, PTL

-------------------------------------------------------------------------------
(* The approver's selection and prompt                                     *)

\* model.go:100: a resolution that arrives between two keys leaves the selection on
\* its item, however many items and in whatever order.
THEOREM SelectionIsSteady == Spec => SelectionFollowsItem
<1> DEFINE Steady ==
        \/ selected \notin DOMAIN order
        \/ order[selected] \notin ToSet(order')
        \/ selected' \in DOMAIN order' /\ order'[selected'] = order[selected]
        \/ \E n \in 1..Cardinality(Items) : Move(n)
<1>1. Typed /\ [Next]_vars => [Steady]_vars
  <2> SUFFICES ASSUME Typed, Next, selected \in DOMAIN order,
                      order[selected] \in ToSet(order'),
                      ~ \E n \in 1..Cardinality(Items) : Move(n)
               PROVE  selected' \in DOMAIN order' /\ order'[selected'] = order[selected]
    OBVIOUS
  <2>0. /\ order \in Seq(Diffs \cup Requests) /\ IsInjective(order)
        /\ Len(order) \in Nat /\ selected \in 1 .. Len(order)
    BY DEF Typed, ClientTypeOK
  <2>1. CASE UNCHANGED <<order, selected>>
    BY <2>1
  <2>2. CASE Upsert
    <3> DEFINE i == Head(frames).item
    <3>1. CASE i \in Queue \/ i \in Warnings
      BY <2>1, <2>2, <3>1 DEF Upsert
    <3>2. CASE i \notin Queue /\ i \notin Warnings
      <4>1. i \in Diffs \cup Requests
        BY <2>2, <3>2, TakeShifts DEF Upsert, Typed, FeedInv, FeedTypeOK, Frames, Items
      <4>2. order' = Append(order, i) /\ selected' = selected
        BY <2>2, <3>2 DEF Upsert
      <4> HIDE DEF i
      <4> QED BY <2>0, <4>1, <4>2
    <3> QED BY <3>1, <3>2
  <2>3. CASE RemoveItem
    <3> DEFINE i  == Head(frames).item
               at == CHOOSE n \in DOMAIN order : order[n] = i
    <3>1. CASE i \notin Queue
      BY <2>1, <2>3, <3>1 DEF RemoveItem, approverVars
    <3>2. CASE i \in Queue
      <4>1. /\ at \in DOMAIN order /\ order[at] = i
            /\ order' \in Seq(Diffs \cup Requests)
            /\ Len(order') = Len(order) - 1
            /\ \A n \in DOMAIN order' :
                  order'[n] = IF n < at THEN order[n] ELSE order[n + 1]
            /\ ToSet(order') = Queue \ {i}
            /\ selected' = Shifted(at, Len(order) - 1)
        BY <2>3, <3>2, RemoveItemDoes
      <4> HIDE DEF i, at
      <4>2. at # selected
        BY <4>1
      <4>3. at \in 1 .. Len(order)
        BY <2>0, <4>1
      <4>4. selected' = IF at < selected THEN selected - 1 ELSE selected
        BY <2>0, <4>1, <4>2, <4>3 DEF Shifted
      <4>5. selected' \in 1 .. Len(order')
        BY <2>0, <4>1, <4>2, <4>3, <4>4
      <4> QED BY <2>0, <4>1, <4>2, <4>3, <4>4, <4>5
    <3> QED BY <3>1, <3>2
  <2>4. CASE \E n \in 1..Cardinality(Items) : Move(n)
    BY <2>4
  <2> QED BY <2>1, <2>2, <2>3, <2>4
          DEF Next, HandleFrame, BridgeSkips, BridgePushes, BridgeForgets, Expire,
              OpenPrompt, ClosePrompt, approverVars
<1>2. Spec => [][Next]_vars
  BY DEF Spec
<1> QED BY <1>1, <1>2, TypedInvariance, PTL DEF SelectionFollowsItem

\* model.go:89: the prompt is never open for an item that has left the queue.
THEOREM PromptIsForTheQueue == Spec => []PromptIsForAQueuedItem
<1>1. Init => PromptIsForAQueuedItem
  BY DEF Init, PromptIsForAQueuedItem
<1>2. Typed /\ PromptIsForAQueuedItem /\ [Next]_vars => PromptIsForAQueuedItem'
  <2> SUFFICES ASSUME Typed, PromptIsForAQueuedItem, [Next]_vars, prompt' # None
               PROVE  prompt' \in Queue'
    BY DEF PromptIsForAQueuedItem
  <2>1. CASE UNCHANGED <<order, prompt>>
    BY <2>1 DEF PromptIsForAQueuedItem, Queue
  <2>2. CASE Upsert
    <3> DEFINE i == Head(frames).item
    <3>1. CASE i \in Queue \/ i \in Warnings
      BY <2>1, <2>2, <3>1 DEF Upsert
    <3>2. CASE i \notin Queue /\ i \notin Warnings
      <4>1. i \in Diffs \cup Requests
        BY <2>2, <3>2, TakeShifts DEF Upsert, Typed, FeedInv, FeedTypeOK, Frames, Items
      <4>2. order' = Append(order, i) /\ prompt' = prompt
        BY <2>2, <3>2 DEF Upsert
      <4>3. prompt \in Queue
        BY <4>2 DEF PromptIsForAQueuedItem
      <4> HIDE DEF i
      <4>4. i \notin ToSet(order)
        BY <3>2 DEF Queue, i
      <4> QED BY <4>1, <4>2, <4>3, <4>4, AppendKeeps DEF Typed, ClientTypeOK, Queue
    <3> QED BY <3>1, <3>2
  <2>3. CASE RemoveItem
    <3> DEFINE i == Head(frames).item
    <3>1. CASE i \notin Queue
      BY <2>1, <2>3, <3>1 DEF RemoveItem, approverVars
    <3>2. CASE i \in Queue
      <4>1. ToSet(order') = Queue \ {i} /\ prompt' = PromptAfter(i)
        BY <2>3, <3>2, RemoveItemDoes
      <4> HIDE DEF i
      <4>2. prompt' = prompt /\ prompt # i
        BY <4>1 DEF PromptAfter
      <4>3. prompt \in Queue
        BY <4>2 DEF PromptIsForAQueuedItem
      <4> QED BY <4>1, <4>2, <4>3 DEF Queue
    <3> QED BY <3>1, <3>2
  <2>4. CASE OpenPrompt
    BY <2>4 DEF OpenPrompt, Queue, ToSet
  <2>5. CASE ClosePrompt
    BY <2>5 DEF ClosePrompt
  <2> QED BY <2>1, <2>2, <2>3, <2>4, <2>5
          DEF Next, HandleFrame, BridgeSkips, BridgePushes, BridgeForgets, Expire, Move,
              approverVars, vars
<1> QED BY <1>1, <1>2, TypedInvariance, PTL DEF Spec

-------------------------------------------------------------------------------
(* Server and client agree                                                 *)

About(i) == {n \in DOMAIN frames : frames[n].item = i}
LastIsAdded(i) ==
    \E n \in About(i) : frames[n].type = "added" /\ \A m \in About(i) : m <= n

LEMMA WillHoldMeans ==
  ASSUME NEW i
  PROVE  /\ WillHold(i) <=> (About(i) = {} /\ i \in Held) \/ LastIsAdded(i)
         /\ WillHold(i)' <=> (About(i)' = {} /\ i \in Held') \/ LastIsAdded(i)'
BY DEF WillHold, About, LastIsAdded

\* A frame that is sent is the last one about its item, and changes nothing for
\* the others.
LEMMA SendTells ==
  ASSUME Typed, NEW type \in {"added", "resolved"}, NEW i \in Items, Send(type, i),
         UNCHANGED <<client, bridgeVars, approverVars>>,
         NEW j, WillHold(j) \/ (j = i /\ type = "added"), j = i => type = "added"
  PROVE  WillHold(j)'
<1>1. /\ frames' \in Seq(Frames) /\ Len(frames') = Len(frames) + 1
      /\ DOMAIN frames' = DOMAIN frames \cup {Len(frames')}
      /\ frames'[Len(frames')] = [type |-> type, item |-> i]
      /\ \A n \in DOMAIN frames : frames'[n] = frames[n]
  BY SendAppends DEF Typed, FeedInv, FeedTypeOK, Frames
<1>2. Held' = Held
  BY DEF Held, Queue, bridgeVars, approverVars
<1>3. \A n \in DOMAIN frames : n \in Int /\ n <= Len(frames)
  BY DEF Typed, FeedInv, FeedTypeOK
<1>4. Len(frames) \in Nat
  BY DEF Typed, FeedInv, FeedTypeOK
<1>5. CASE j = i
  <2>1. About(j)' = About(j) \cup {Len(frames')} /\ frames'[Len(frames')].type = "added"
    BY <1>1, <1>5 DEF About
  <2>2. \A n \in About(j) : n \in Int /\ n <= Len(frames')
    BY <1>1, <1>3, <1>4 DEF About
  <2>3. \A m \in About(j)' : m <= Len(frames')
    BY <1>1, <1>4, <2>1, <2>2
  <2>4. LastIsAdded(j)'
    BY <2>1, <2>3 DEF LastIsAdded
  <2> QED BY <2>4, WillHoldMeans
<1>6. CASE j # i
  <2>1. About(j)' = About(j)
    BY <1>1, <1>6 DEF About
  <2>2. \A n \in About(j) : frames'[n] = frames[n]
    BY <1>1 DEF About
  <2>3. LastIsAdded(j) => LastIsAdded(j)'
    BY <2>1, <2>2 DEF LastIsAdded
  <2> QED BY <1>2, <1>6, <2>1, <2>3, WillHoldMeans
<1> QED BY <1>5, <1>6

\* Handling a frame keeps the promise of the frames behind it.
LEMMA TakeTells ==
  ASSUME Typed, NEW type, Take(type), FrameUnchanged,
         NEW j, WillHold(j),
         IF j = Head(frames).item THEN type = "added" => j \in Held'
                                  ELSE j \in Held => j \in Held'
  PROVE  WillHold(j)'
<1>1. /\ Len(frames') = Len(frames) - 1 /\ frames' \in Seq(Frames)
      /\ 1 \in DOMAIN frames /\ Head(frames) = frames[1] /\ frames[1].type = type
      /\ \A n \in DOMAIN frames' : n + 1 \in DOMAIN frames /\ frames'[n] = frames[n + 1]
      /\ \A n \in DOMAIN frames : n # 1 => n - 1 \in DOMAIN frames' /\ frames'[n - 1] = frames[n]
  BY TakeShifts DEF Typed, FeedInv, FeedTypeOK, Frames
<1>2. /\ \A n \in DOMAIN frames : n \in Int /\ 1 <= n
      /\ \A n \in DOMAIN frames' : n \in Int /\ 1 <= n
  BY <1>1 DEF Typed, FeedInv, FeedTypeOK
<1>3. /\ \A n \in About(j)' : n + 1 \in About(j)
      /\ \A n \in About(j) : n # 1 => n - 1 \in About(j)'
      /\ \A n \in About(j) : n \in DOMAIN frames
      /\ \A n \in About(j)' : n \in DOMAIN frames'
  BY <1>1 DEF About
<1>4. CASE \E n \in About(j) :
              n # 1 /\ frames[n].type = "added" /\ \A m \in About(j) : m <= n
  <2>1. PICK n \in About(j) :
              n # 1 /\ frames[n].type = "added" /\ \A m \in About(j) : m <= n
    BY <1>4
  <2>2. n - 1 \in About(j)' /\ frames'[n - 1].type = "added"
    BY <1>1, <1>3, <2>1
  <2>3. \A m \in About(j)' : m <= n - 1
    BY <1>2, <1>3, <2>1
  <2> QED BY <2>2, <2>3, WillHoldMeans DEF LastIsAdded
<1>5. CASE LastIsAdded(j) /\
           ~ \E n \in About(j) :
              n # 1 /\ frames[n].type = "added" /\ \A m \in About(j) : m <= n
  <2>1. 1 \in About(j) /\ frames[1].type = "added" /\ \A m \in About(j) : m <= 1
    BY <1>5 DEF LastIsAdded
  <2>2. j = Head(frames).item /\ type = "added"
    BY <1>1, <2>1 DEF About
  <2>3. About(j)' = {}
    BY <1>2, <1>3, <2>1
  <2> QED BY <2>2, <2>3, WillHoldMeans
<1>6. CASE ~LastIsAdded(j)
  <2>1. About(j) = {} /\ j \in Held
    BY <1>6, WillHoldMeans
  <2>2. j # Head(frames).item
    BY <1>1, <2>1 DEF About
  <2>3. About(j)' = {}
    BY <1>3, <2>1
  <2> QED BY <2>1, <2>2, <2>3, WillHoldMeans
<1> QED BY <1>4, <1>5, <1>6

Exempt(i) == i \in Warnings /\ (client = "approver" \/ i \in past)

\* NothingFallsBetween, one item at a time.
Agrees(i) == stream = "up" /\ i \in TakenAsKnown => Exempt(i) \/ WillHold(i)

LEMMA AgreementIsForAll == NothingFallsBetween <=> \A i \in TakenAsKnown : Agrees(i)
BY DEF NothingFallsBetween, Agrees, Exempt

\* What the server takes as known grows by what it announces only.
LEMMA KnownGrows ==
  ASSUME Typed, FeedNext, stream' = "up", NEW j \in TakenAsKnown'
  PROVE  /\ stream = "up"
         /\ j \in TakenAsKnown \/ (Announce /\ j = Min(todo))
         /\ \A i : SendResolved(i) => j # i
<1> USE DEF pollVars
<1>1. /\ todo \subseteq current
      /\ stream = "down" => ~listed
      /\ ~listed => current = {} /\ missing = {}
      /\ listed => current \cup missing \subseteq KindAt[stage]
      /\ current \cap missing = {}
      /\ listed => stage # 0
      /\ missing \subseteq seen
      /\ stream \in {"down", "up"}
      /\ stage \in 0 .. 3 /\ WarningStage = 3
      /\ missing \cap Warnings = {}
      /\ KindAt[WarningStage] = Warnings
  BY Kinds DEF Typed, FeedInv, FeedTypeOK, PollInOrder, WarningStage
<1>2. CASE \E i \in Items : Appear(i) \/ Resolve(i)
  <2>1. TakenAsKnown' = TakenAsKnown /\ stream' = stream /\ UNCHANGED <<stream, missing>>
    BY <1>2 DEF Appear, Resolve, TakenAsKnown
  <2> QED BY <1>2, <2>1 DEF SendResolved, Appear, Resolve
<1>3. CASE Connect
  <2>1. TakenAsKnown' = {}
    BY <1>1, <1>3 DEF Connect, Baseline, TakenAsKnown
  <2> QED BY <2>1
<1>4. CASE Tick
  <2>1. TakenAsKnown' = TakenAsKnown /\ stream' = stream /\ ~listed
    BY <1>1, <1>4 DEF Tick, TakenAsKnown
  <2> QED BY <2>1 DEF SendResolved
<1>5. CASE List
  <2>1. TakenAsKnown = seen /\ stream' = stream /\ ~listed
    BY <1>5 DEF List, TakenAsKnown
  <2>2. TakenAsKnown' \subseteq seen
    BY <1>5 DEF List, TakenAsKnown
  <2> QED BY <2>1, <2>2 DEF SendResolved
<1>6. CASE Announce
  <2> DEFINE i == Min(todo)
  <2>1. /\ todo # {} /\ todo' = todo \ {i} /\ stream' = stream
        /\ seen' = IF stage = WarningStage THEN seen \cup {i} ELSE seen
        /\ UNCHANGED <<stage, listed, current, missing>>
    BY <1>6 DEF Announce
  <2> HIDE DEF i
  <2>2. TakenAsKnown' \subseteq TakenAsKnown \cup {i}
    BY <2>1 DEF TakenAsKnown
  <2> QED BY <1>6, <2>1, <2>2 DEF SendResolved, i
<1>7. CASE \E i \in Items : SendResolved(i)
  <2>1. PICK i \in Items : SendResolved(i)
    BY <1>7
  <2>2. /\ stream' = stream /\ listed /\ todo = {} /\ i \in missing
        /\ missing' = missing \ {i}
        /\ UNCHANGED <<stage, listed, current, todo, seen>>
    BY <2>1 DEF SendResolved
  <2>3. i \notin current /\ i \in KindAt[stage] /\ stage # WarningStage
    BY <1>1, <2>2
  <2>4. TakenAsKnown' = TakenAsKnown \ {i}
    BY <2>2, <2>3 DEF TakenAsKnown
  <2>5. \A k : SendResolved(k) => k = i
    BY <2>2 DEF SendResolved
  <2> QED BY <2>2, <2>4, <2>5
<1>8. CASE \E i \in Items : FetchFails(i)
  <2>1. PICK i \in Items : FetchFails(i)
    BY <1>8
  <2>2. /\ stream' = stream /\ listed /\ todo = {} /\ i \in missing
        /\ missing' = missing \ {i} /\ current' = current \cup {i}
        /\ UNCHANGED <<stage, listed, todo, seen, frames>>
    BY <2>1 DEF FetchFails, KeepTracking
  <2>3. TakenAsKnown' \subseteq TakenAsKnown
    BY <2>2 DEF TakenAsKnown
  <2>4. \A k : ~SendResolved(k)
    BY <2>2, <1>1 DEF SendResolved, Typed, FeedInv, FeedTypeOK
  <2> QED BY <2>2, <2>3, <2>4
<1>9. CASE EndStage
  <2>1. /\ stream' = stream /\ listed /\ todo = {} /\ missing = {}
        /\ seen' = IF stage = WarningStage THEN seen ELSE (seen \ KindAt[stage]) \cup current
        /\ ~listed'
    BY <1>9 DEF EndStage
  <2>2. TakenAsKnown' \subseteq TakenAsKnown
    BY <2>1 DEF TakenAsKnown
  <2> QED BY <2>1, <2>2 DEF SendResolved
<1>10. CASE StreamEnds
  BY <1>10 DEF StreamEnds
<1> QED BY <1>2, <1>3, <1>4, <1>5, <1>6, <1>7, <1>8, <1>9, <1>10 DEF FeedNext, ServerStep

\* What a step of the feed appends to the frames, if the connection stays up.
LEMMA FeedSends ==
  ASSUME Typed, FeedNext, stream = "up", stream' = "up"
  PROVE  \/ UNCHANGED frames
         \/ Announce /\ Min(todo) \in Items /\ Send("added", Min(todo))
         \/ \E i \in Items : SendResolved(i) /\ Send("resolved", i)
<1>1. CASE Announce
  <2>1. todo # {} /\ todo \subseteq Items
    BY <1>1 DEF Announce, Typed, FeedInv, FeedTypeOK
  <2>2. Min(todo) \in Items
    BY <2>1, MinIsMember
  <2>3. Send("added", Min(todo))
    BY <1>1 DEF Announce
  <2> QED BY <1>1, <2>2, <2>3
<1>2. CASE \E i \in Items : SendResolved(i)
  BY <1>2 DEF SendResolved
<1>3. CASE ~Announce /\ ~ \E i \in Items : SendResolved(i)
  BY <1>3 DEF FeedNext, ServerStep, Appear, Resolve, Connect, Tick, List, FetchFails,
              EndStage, StreamEnds
<1> QED BY <1>1, <1>2, <1>3

LEMMA AgreementFeed ==
  ASSUME Typed, NothingFallsBetween, FeedNext,
         UNCHANGED <<client, bridgeVars, approverVars>>
  PROVE  NothingFallsBetween'
<1> SUFFICES ASSUME stream' = "up", NEW j \in TakenAsKnown', ~Exempt(j)'
             PROVE  WillHold(j)'
  BY DEF NothingFallsBetween, Exempt
<1>1. /\ stream = "up"
      /\ j \in TakenAsKnown \/ (Announce /\ j = Min(todo))
      /\ \A i : SendResolved(i) => j # i
  BY KnownGrows
<1>2. ~Exempt(j)
  BY DEF Exempt, bridgeVars
<1>3. j \in TakenAsKnown => WillHold(j)
  BY <1>1, <1>2 DEF NothingFallsBetween, Exempt
<1>4. CASE UNCHANGED frames
  <2>1. ~Announce
    <3> SUFFICES ASSUME Announce PROVE FALSE
      OBVIOUS
    <3>1. Send("added", Min(todo)) /\ todo # {} /\ todo \subseteq Items
      BY DEF Announce, Typed, FeedInv, FeedTypeOK
    <3>2. Len(frames') = Len(frames) + 1
      BY <3>1, MinIsMember, SendAppends DEF Typed, FeedInv, FeedTypeOK, Frames
    <3> QED BY <1>4, <3>2 DEF Typed, FeedInv, FeedTypeOK
  <2>2. WillHold(j)
    BY <1>1, <1>3, <2>1
  <2> QED BY <1>4, <2>2 DEF WillHold, Held, Queue, bridgeVars, approverVars
<1>5. CASE Announce /\ Min(todo) \in Items /\ Send("added", Min(todo))
  BY <1>1, <1>3, <1>5, SendTells
<1>6. ASSUME NEW i \in Items, SendResolved(i), Send("resolved", i) PROVE WillHold(j)'
  <2>1. j # i
    BY <1>1, <1>6
  <2>2. ~Announce
    BY <1>6 DEF SendResolved, Announce
  <2>3. WillHold(j)
    BY <1>1, <1>3, <2>2
  <2> QED BY <1>6, <2>1, <2>3, SendTells
<1> QED BY <1>1, <1>4, <1>5, <1>6, FeedSends

\* A frame that is handled leaves what it says with the client.
LEMMA HandlingHolds ==
  ASSUME Typed, HandleFrame, NEW j, ~Exempt(j)'
  PROVE  \E type :
            /\ Take(type) /\ FrameUnchanged
            /\ IF j = Head(frames).item THEN type = "added" => j \in Held'
                                        ELSE j \in Held => j \in Held'
<1> DEFINE i == Head(frames).item
<1> USE DEF bridgeVars, approverVars, FrameUnchanged
<1>0. past \subseteq Warnings
  BY DEF Typed, ClientTypeOK
<1>1. CASE BridgeSkips
  <2>1. /\ Take("added") /\ FrameUnchanged /\ client = "pushbridge"
        /\ notified' = Remembered(i) /\ i \in Remembered(i)
        /\ UNCHANGED <<past, failed, client>>
    BY <1>1 DEF BridgeSkips
  <2>2. j \in Held => j \in Held'
    BY <1>0, <2>1 DEF Held, Remembered, Exempt
  <2>3. i \in Held'
    BY <2>1 DEF Held
  <2> QED BY <2>1, <2>2, <2>3
<1>2. CASE \E accepted \in BOOLEAN : BridgePushes(accepted)
  <2>1. /\ Take("added") /\ FrameUnchanged /\ client = "pushbridge"
        /\ \/ notified' = Remembered(i) \cup {i} /\ failed' = failed \ {i}
           \/ notified' = Remembered(i) /\ failed' = failed \cup {i}
        /\ UNCHANGED <<past, client>>
    BY <1>2 DEF BridgePushes
  <2>2. j # i => (j \in Held => j \in Held')
    BY <1>0, <2>1 DEF Held, Remembered, Exempt
  <2>3. i \in Held'
    BY <2>1 DEF Held
  <2> QED BY <2>1, <2>2, <2>3
<1>3. CASE BridgeForgets
  <2>1. /\ Take("resolved") /\ FrameUnchanged /\ client = "pushbridge"
        /\ notified' = notified \ {i} /\ failed' = failed \ {i} /\ client' = client
    BY <1>3 DEF BridgeForgets
  <2>2. j # i => (j \in Held => j \in Held')
    BY <2>1 DEF Held
  <2> QED BY <2>1, <2>2
<1>4. CASE Upsert
  <2>1. /\ Take("added") /\ FrameUnchanged /\ client = "approver" /\ client' = client
        /\ order' = IF i \in Queue \/ i \in Warnings THEN order ELSE Append(order, i)
    BY <1>4 DEF Upsert
  <2>2. i \in Items
    BY <2>1, TakeShifts DEF Typed, FeedInv, FeedTypeOK, Frames
  <2>3. j \notin Warnings
    BY <2>1 DEF Exempt
  <2>4. CASE i \in Queue \/ i \in Warnings
    BY <2>1, <2>3, <2>4 DEF Held, Queue
  <2>5. CASE i \notin Queue /\ i \notin Warnings
    <3>1. ToSet(order') = Queue \cup {i}
      BY <2>1, <2>2, <2>5, AppendKeeps DEF Typed, ClientTypeOK, Queue, Items
    <3> QED BY <2>1, <3>1 DEF Held, Queue
  <2> QED BY <2>4, <2>5
<1>5. CASE RemoveItem
  <2>1. Take("resolved") /\ FrameUnchanged /\ client = "approver" /\ client' = client
    BY <1>5 DEF RemoveItem
  <2>2. Queue' = Queue \ {i}
    <3>1. CASE i \notin Queue
      BY <1>5, <3>1 DEF RemoveItem, Queue
    <3>2. CASE i \in Queue
      BY <1>5, <3>2, RemoveItemDoes DEF Queue
    <3> QED BY <3>1, <3>2
  <2> QED BY <2>1, <2>2 DEF Held
<1> QED BY <1>1, <1>2, <1>3, <1>4, <1>5 DEF HandleFrame

LEMMA AgreementFrames ==
  ASSUME Typed, NothingFallsBetween, HandleFrame
  PROVE  NothingFallsBetween'
<1> SUFFICES ASSUME stream' = "up", NEW j \in TakenAsKnown', ~Exempt(j)'
             PROVE  WillHold(j)'
  BY DEF NothingFallsBetween, Exempt
<1>1. UNCHANGED <<stream, pollVars, seen, client>>
  BY DEF HandleFrame, BridgeSkips, BridgePushes, BridgeForgets, Upsert, RemoveItem,
         FrameUnchanged
<1>2. UNCHANGED past
  BY DEF HandleFrame, BridgeSkips, BridgePushes, BridgeForgets, Upsert, RemoveItem,
         bridgeVars, approverVars
<1>3. j \in TakenAsKnown /\ ~Exempt(j) /\ stream = "up"
  BY <1>1, <1>2 DEF TakenAsKnown, Exempt, pollVars
<1>4. WillHold(j)
  BY <1>3 DEF NothingFallsBetween, Exempt
<1> QED BY <1>4, HandlingHolds, TakeTells

\* events.go:72: what the server will not announce again, the client has or is about
\* to get, on every connection.
THEOREM ServerAndClientAgree == Spec => []NothingFallsBetween
<1>1. Init => NothingFallsBetween
  BY DEF Init, FeedInit, NothingFallsBetween
<1>2. Typed /\ NothingFallsBetween /\ [Next]_vars => NothingFallsBetween'
  <2> SUFFICES ASSUME Typed, NothingFallsBetween, [Next]_vars PROVE NothingFallsBetween'
    OBVIOUS
  <2>1. CASE UNCHANGED <<feedVars, client, notified, failed, order>> /\ past \subseteq past'
    <3>1. \A i : Exempt(i) => Exempt(i)'
      BY <2>1 DEF Exempt
    <3>2. TakenAsKnown' = TakenAsKnown /\ stream' = stream
      BY <2>1 DEF TakenAsKnown, feedVars, pollVars
    <3>3. \A i : WillHold(i) => WillHold(i)'
      BY <2>1 DEF WillHold, Held, Queue, feedVars
    <3> QED BY <3>1, <3>2, <3>3 DEF NothingFallsBetween, Exempt
  <2> QED BY <2>1, AgreementFeed, AgreementFrames
          DEF Next, Expire, Move, OpenPrompt, ClosePrompt, vars, bridgeVars, approverVars
<1> QED BY <1>1, <1>2, TypedInvariance, PTL DEF Spec

-------------------------------------------------------------------------------
(* One push for an item                                                    *)

\* Decided, and about to be announced by nobody.
Closed(i) == status[i] = "resolved" /\ i \notin todo

SaidOnce == \A i \in Items :
    /\ pushed[i] > 0 /\ i \notin displaced \cup past \cup notified =>
           Closed(i) /\ \A n \in About(i) : frames[n].type # "added"
    /\ \A n \in About(i) : frames[n].type = "resolved" /\ i \notin displaced =>
           Closed(i) /\ \A m \in About(i) : m > n => frames[m].type # "added"

PushInv == PushedOnce /\ SaidOnce

\* Every frame was on its way before, or is what this step says.
LEMMA FramesGrow ==
  ASSUME Typed, FeedNext, NEW n \in DOMAIN frames'
  PROVE  \/ n \in DOMAIN frames /\ frames'[n] = frames[n]
         \/ /\ frames'[n] = [type |-> "added", item |-> Min(todo)] /\ Min(todo) \in todo
            /\ n = Len(frames')
         \/ \E i \in Items : /\ SendResolved(i) /\ n = Len(frames')
                             /\ frames'[n] = [type |-> "resolved", item |-> i]
<1>0. frames \in Seq(Frames)
  BY DEF Typed, FeedInv, FeedTypeOK, Frames
<1>1. CASE Announce
  <2>1. todo # {} /\ todo \subseteq Items /\ Send("added", Min(todo))
    BY <1>1 DEF Announce, Typed, FeedInv, FeedTypeOK
  <2>2. Min(todo) \in todo
    BY <2>1, MinIsMember
  <2> QED BY <1>0, <2>1, <2>2, SendAppends
<1>2. CASE \E i \in Items : SendResolved(i)
  BY <1>0, <1>2, SendAppends DEF SendResolved
<1>3. CASE StreamEnds
  <2>1. PICK k \in 0 .. Len(frames) : frames' = SubSeq(frames, 1, k)
    BY <1>3 DEF StreamEnds
  <2> QED BY <1>0, <2>1
<1>4. CASE UNCHANGED frames
  BY <1>4
<1> QED BY <1>1, <1>2, <1>3, <1>4
        DEF FeedNext, ServerStep, Appear, Resolve, Connect, Tick, List, FetchFails, EndStage

\* What is closed stays closed.
LEMMA ClosedStays ==
  ASSUME Typed, FeedNext, NEW i \in Items, Closed(i)
  PROVE  Closed(i)'
<1>1. status'[i] = "resolved"
  BY DEF Closed, FeedNext, ServerStep, Appear, Resolve, Connect, Tick, List, Announce,
         SendResolved, FetchFails, EndStage, StreamEnds, Typed, FeedInv, FeedTypeOK
<1>2. CASE List
  <2>1. todo' = Listing(stage) \ seen /\ stage \in 1 .. WarningStage
    BY <1>2 DEF List, Typed, FeedInv, FeedTypeOK, WarningStage
  <2>2. i \notin Listing(stage)
    BY <2>1, Kinds DEF Closed, Pending
  <2> QED BY <1>1, <2>1, <2>2 DEF Closed
<1>3. CASE ~List
  <2>1. todo' \subseteq todo
    BY <1>3 DEF FeedNext, ServerStep, Appear, Resolve, Connect, Tick, Announce,
                SendResolved, FetchFails, EndStage, StreamEnds, pollVars
  <2> QED BY <1>1, <2>1 DEF Closed
<1> QED BY <1>2, <1>3

LEMMA DisplacedGrows == FeedNext => displaced \subseteq displaced'
BY DEF FeedNext, ServerStep, Appear, Resolve, Connect, Tick, List, Announce, SendResolved,
       FetchFails, EndStage, StreamEnds

LEMMA PushFeed ==
  ASSUME Typed, PushInv, FeedNext, UNCHANGED <<client, bridgeVars, approverVars>>
  PROVE  PushInv'
<1>0. /\ UNCHANGED <<pushed, past, notified>>
      /\ displaced \subseteq displaced'
      /\ frames \in Seq(Frames) /\ frames' \in Seq(Frames)
      /\ \A n \in DOMAIN frames : frames[n].item \in Items
  <2>1. frames \in Seq(Frames) /\ frames' \in Seq(Frames)
    BY FeedNextInv DEF Typed, FeedInv, FeedTypeOK, Frames
  <2>2. \A n \in DOMAIN frames : frames[n] \in Frames
    BY <2>1
  <2> QED BY <2>1, <2>2, DisplacedGrows DEF bridgeVars, Frames
<1>1. PushedOnce'
  BY <1>0 DEF PushInv, PushedOnce
\* No announcement of a closed item is new.
<1>2. ASSUME NEW i \in Items, Closed(i), NEW n \in About(i)', frames'[n].type = "added"
      PROVE  n \in About(i) /\ frames[n].type = "added"
  <2>1. n \in DOMAIN frames' /\ frames'[n].item = i
    BY DEF About
  <2>2. n \in DOMAIN frames /\ frames'[n] = frames[n]
    BY <1>2, <2>1, FramesGrow DEF Closed
  <2> QED BY <1>2, <2>1, <2>2 DEF About
<1>3. ASSUME NEW i \in Items, pushed'[i] > 0, i \notin displaced' \cup past' \cup notified'
      PROVE  Closed(i)' /\ \A n \in About(i)' : frames'[n].type # "added"
  <2>1. Closed(i) /\ \A n \in About(i) : frames[n].type # "added"
    BY <1>0, <1>3 DEF PushInv, SaidOnce
  <2> QED BY <1>2, <2>1, ClosedStays
<1>4. ASSUME NEW i \in Items, NEW n \in About(i)', frames'[n].type = "resolved",
             i \notin displaced'
      PROVE  Closed(i)' /\ \A m \in About(i)' : m > n => frames'[m].type # "added"
  <2>0. n \in DOMAIN frames' /\ frames'[n].item = i
    BY DEF About
  <2>1. CASE n \in DOMAIN frames /\ frames'[n] = frames[n]
    <3>1. n \in About(i) /\ frames[n].type = "resolved" /\ i \notin displaced
      BY <1>0, <1>4, <2>0, <2>1 DEF About
    <3>2. /\ Closed(i)
          /\ \A m \in About(i) : m > n => frames[m].type # "added"
      BY <3>1 DEF PushInv, SaidOnce
    <3> QED BY <1>2, <3>2, ClosedStays
  <2>2. ASSUME NEW k \in Items, SendResolved(k), n = Len(frames'),
               frames'[n] = [type |-> "resolved", item |-> k]
        PROVE  Closed(i)' /\ \A m \in About(i)' : m > n => frames'[m].type # "added"
    <3>1. i = k
      BY <2>0, <2>2
    <3>2. k \in seen /\ todo' = {} /\ status' = status
      BY <2>2 DEF SendResolved, Typed, FeedInv, FeedTypeOK
    <3>3. status[k] = "resolved"
      BY <1>4, <2>2, <3>1, <3>2 DEF SendResolved, Typed, FeedInv, FeedTypeOK, OnlyWhatExists
    <3>4. \A m \in DOMAIN frames' : ~(m > n)
      <4>1. \A m \in 1 .. Len(frames') : ~(m > Len(frames'))
        BY <1>0
      <4> QED BY <1>0, <2>2, <4>1
    <3>5. \A m \in About(i)' : ~(m > n)
      BY <3>4 DEF About
    <3> QED BY <3>1, <3>2, <3>3, <3>5 DEF Closed
  <2> QED BY <1>4, <2>0, <2>1, <2>2, FramesGrow
<1>5. SaidOnce'
  BY <1>3, <1>4 DEF SaidOnce
<1> QED BY <1>1, <1>5 DEF PushInv

\* Handling a frame: nobody learns of an item again after its resolution.
LEMMA PushFrames ==
  ASSUME Typed, PushInv, HandleFrame
  PROVE  PushInv'
<1> DEFINE k == Head(frames).item
<1> USE DEF bridgeVars, approverVars, FrameUnchanged
<1>1. PICK type \in {"added", "resolved"} : Take(type) /\ FrameUnchanged
  BY DEF HandleFrame, BridgeSkips, BridgePushes, BridgeForgets, Upsert, RemoveItem
<1>2. /\ 1 \in DOMAIN frames /\ frames[1].type = type /\ frames[1].item = k /\ k \in Items
      /\ \A n \in DOMAIN frames' : /\ n + 1 \in DOMAIN frames /\ frames'[n] = frames[n + 1]
                                   /\ n \in Int /\ 1 <= n
  <2>1. frames \in Seq(Frames)
    BY DEF Typed, FeedInv, FeedTypeOK, Frames
  <2>2. frames' \in Seq(Frames)
    BY <1>1, <2>1, TakeShifts
  <2> QED BY <1>1, <2>1, <2>2, TakeShifts
<1>3. /\ 1 \in About(k)
      /\ \A i : \A n \in About(i)' :
            n + 1 \in About(i) /\ frames'[n] = frames[n + 1] /\ n \in Int /\ 1 <= n
  BY <1>2 DEF About
<1>4. UNCHANGED <<status, todo, displaced, past>>
  BY DEF HandleFrame, BridgeSkips, BridgePushes, BridgeForgets, Upsert, RemoveItem, pollVars
<1>5. ASSUME NEW i \in Items, Closed(i), \A n \in About(i) : n > 1 => frames[n].type # "added"
      PROVE  Closed(i)' /\ \A n \in About(i)' : frames'[n].type # "added"
  BY <1>3, <1>4, <1>5 DEF Closed
<1>6. /\ pushed \in [Items -> Nat] /\ past \subseteq Warnings
  BY DEF Typed, ClientTypeOK
\* What the step does to the books of pushbridge.
<1>7. \/ /\ UNCHANGED pushed /\ notified \ past \subseteq notified'
      \/ /\ type = "added" /\ k \notin notified \ past /\ k \in notified'
         /\ notified \ past \subseteq notified' /\ pushed' = [pushed EXCEPT ![k] = @ + 1]
      \/ /\ type = "resolved" /\ notified' = notified \ {k} /\ UNCHANGED pushed
  <2>1. CASE BridgeSkips
    BY <2>1 DEF BridgeSkips, Remembered
  <2>2. ASSUME NEW accepted \in BOOLEAN, BridgePushes(accepted)
        PROVE  \/ UNCHANGED pushed /\ notified \ past \subseteq notified'
               \/ /\ type = "added" /\ k \notin notified \ past /\ k \in notified'
                  /\ notified \ past \subseteq notified' /\ pushed' = [pushed EXCEPT ![k] = @ + 1]
    <3>1. type = "added"
      BY <1>1, <2>2 DEF BridgePushes, Take
    <3>2. notified \ past \subseteq Remembered(k) /\ k \notin Remembered(k)
      BY <2>2 DEF BridgePushes, Remembered
    <3> QED BY <2>2, <3>1, <3>2 DEF BridgePushes
  <2>3. CASE BridgeForgets
    BY <1>1, <2>3 DEF BridgeForgets, Take
  <2>4. CASE Upsert \/ RemoveItem
    BY <2>4 DEF Upsert, RemoveItem
  <2> QED BY <2>1, <2>2, <2>3, <2>4 DEF HandleFrame
<1> HIDE DEF k
<1>8. PushedOnce'
  <2> SUFFICES ASSUME NEW i \in Items, pushed'[i] > 1, i \notin displaced \cup past
               PROVE  FALSE
    BY <1>4 DEF PushedOnce
  <2>1. pushed[i] <= 1
    BY <1>6 DEF PushInv, PushedOnce
  <2>2. /\ type = "added" /\ k \notin notified \ past /\ pushed' = [pushed EXCEPT ![k] = @ + 1]
    BY <1>6, <1>7, <2>1
  <2>3. i = k /\ pushed[i] > 0 /\ i \notin notified
    BY <1>2, <1>6, <2>1, <2>2
  <2>4. \A n \in About(k) : frames[n].type # "added"
    BY <2>3 DEF PushInv, SaidOnce
  <2> QED BY <1>2, <1>3, <2>2, <2>4
<1>9. ASSUME NEW i \in Items, pushed'[i] > 0, i \notin displaced \cup past \cup notified'
      PROVE  Closed(i)' /\ \A n \in About(i)' : frames'[n].type # "added"
  <2>1. CASE type = "resolved" /\ i = k /\ i \in notified
    <3>1. Closed(i) /\ \A m \in About(i) : m > 1 => frames[m].type # "added"
      BY <1>2, <1>3, <1>9, <2>1 DEF PushInv, SaidOnce
    <3> QED BY <1>5, <3>1
  <2>2. CASE ~(type = "resolved" /\ i = k /\ i \in notified)
    <3>1. i \notin notified /\ pushed[i] > 0
      BY <1>6, <1>7, <1>9, <2>2
    <3>2. Closed(i) /\ \A n \in About(i) : frames[n].type # "added"
      BY <1>9, <3>1 DEF PushInv, SaidOnce
    <3> QED BY <1>5, <3>2
  <2> QED BY <2>1, <2>2
<1>10. ASSUME NEW i \in Items, NEW n \in About(i)', frames'[n].type = "resolved",
              i \notin displaced
       PROVE  Closed(i)' /\ \A m \in About(i)' : m > n => frames'[m].type # "added"
  <2>1. n + 1 \in About(i) /\ frames[n + 1].type = "resolved"
    BY <1>3, <1>10
  <2>2. Closed(i) /\ \A m \in About(i) : m > n + 1 => frames[m].type # "added"
    BY <1>10, <2>1 DEF PushInv, SaidOnce
  <2>3. \A m \in About(i)' : m > n => frames'[m].type # "added"
    BY <1>3, <2>2
  <2> QED BY <1>4, <2>2, <2>3 DEF Closed
<1>11. SaidOnce'
  BY <1>4, <1>9, <1>10 DEF SaidOnce
<1> QED BY <1>8, <1>11 DEF PushInv

\* main.go:153: pushbridge interrupts the operator once for an item, through every
\* reconnect, except for what the bounded list pushed out and what has expired.
THEOREM OnePushPerItem == Spec => []PushedOnce
<1>1. Init => PushInv
  <2> SUFFICES ASSUME Init PROVE PushInv
    OBVIOUS
  <2>1. \A i \in Items : pushed[i] = 0 /\ About(i) = {}
    BY DEF Init, FeedInit, About
  <2> QED BY <2>1 DEF PushInv, PushedOnce, SaidOnce
<1>2. Typed /\ PushInv /\ [Next]_vars => PushInv'
  <2> SUFFICES ASSUME Typed, PushInv, [Next]_vars PROVE PushInv'
    OBVIOUS
  <2>1. CASE UNCHANGED <<feedVars, pushed, notified>> /\ past \subseteq past'
    BY <2>1 DEF PushInv, PushedOnce, SaidOnce, Closed, About, feedVars, pollVars
  <2> QED BY <2>1, PushFeed, PushFrames
          DEF Next, Expire, Move, OpenPrompt, ClosePrompt, vars, bridgeVars, approverVars
<1>3. PushInv => PushedOnce
  BY DEF PushInv
<1> QED BY <1>1, <1>2, <1>3, TypedInvariance, PTL DEF Spec
===============================================================================
