-------------------------- MODULE AgentAccess_proofs --------------------------
(***************************************************************************)
(* Proofs about AgentAccess, for any scopes, grants, facts and calls.  What*)
(* Grants_proofs shows of reviewers' transactions holds beside the agent's *)
(* calls.  A call's snapshot is covered by the grants in force while it    *)
(* could be taken (SnapshotsAreCovered), and what the queries make of a    *)
(* snapshot is within what its scopes cover and its depths allow           *)
(* (FoundWithinSnapshot).                                                  *)
(***************************************************************************)
EXTENDS AgentAccess, Grants_proofs, FiniteSetTheorems

Depths == {"summary", "facts", "full"}

-------------------------------------------------------------------------------
(* Scopes and depths                                                       *)

\* depthRank on the three depths there are.
LEMMA Ranks ==
  /\ DepthRank("summary") = 1 /\ DepthRank("facts") = 2 /\ DepthRank("full") = 3
  /\ \A i \in 1 .. 3 : DepthOrder[i] \in Depths /\ DepthRank(DepthOrder[i]) = i
<1>1. /\ DepthOrder[1] = "summary" /\ DepthOrder[2] = "facts" /\ DepthOrder[3] = "full"
  BY DEF DepthOrder
<1>2. /\ \A i \in 1 .. 3 : DepthOrder[i] = "summary" <=> i = 1
      /\ \A i \in 1 .. 3 : DepthOrder[i] = "facts" <=> i = 2
      /\ \A i \in 1 .. 3 : DepthOrder[i] = "full" <=> i = 3
  BY <1>1
<1>3. DepthRank("summary") = 1
  BY <1>2 DEF DepthRank
<1>4. DepthRank("facts") = 2
  BY <1>2 DEF DepthRank
<1>5. DepthRank("full") = 3
  BY <1>2 DEF DepthRank
<1>6. ASSUME NEW i \in 1 .. 3 PROVE DepthOrder[i] \in Depths /\ DepthRank(DepthOrder[i]) = i
  <2>1. i = 1 \/ i = 2 \/ i = 3
    OBVIOUS
  <2> QED BY <1>1, <1>3, <1>4, <1>5, <2>1 DEF Depths
<1> QED BY <1>3, <1>4, <1>5, <1>6

\* A set of ranks that is not empty has a highest and a lowest.
LEMMA RankBounds ==
  ASSUME NEW S, S \subseteq 1 .. 3, S # {}
  PROVE  /\ Most(S) \in S /\ \A y \in S : y <= Most(S)
         /\ Least(S) \in S /\ \A y \in S : Least(S) <= y
<1>1. \E x \in S : \A y \in S : y <= x
  <2>1. CASE 3 \in S
    BY <2>1
  <2>2. CASE 3 \notin S /\ 2 \in S
    BY <2>2
  <2>3. CASE 3 \notin S /\ 2 \notin S
    <3>1. PICK x \in S : TRUE
      OBVIOUS
    <3>2. x = 1 /\ \A y \in S : y = 1
      BY <2>3
    <3> QED BY <3>2
  <2> QED BY <2>1, <2>2, <2>3
<1>2. \E x \in S : \A y \in S : x <= y
  <2>1. CASE 1 \in S
    BY <2>1
  <2>2. CASE 1 \notin S /\ 2 \in S
    BY <2>2
  <2>3. CASE 1 \notin S /\ 2 \notin S
    <3>1. PICK x \in S : TRUE
      OBVIOUS
    <3>2. x = 3 /\ \A y \in S : y = 3
      BY <2>3
    <3> QED BY <3>2
  <2> QED BY <2>1, <2>2, <2>3
<1>3. Most(S) \in S /\ \A y \in S : y <= Most(S)
  BY <1>1 DEF Most
<1>4. Least(S) \in S /\ \A y \in S : Least(S) <= y
  BY <1>2 DEF Least
<1> QED BY <1>3, <1>4

\* The depth a fact is disclosed at is allowed, for each of its tags, by a grant
\* that covers the tag.
LEMMA EffectiveDepthIsGranted ==
  ASSUME NEW tags, NEW granted, \A x \in granted : x.depth \in Depths,
         \A t \in tags : \E x \in granted : Covers(x.scope, t)
  PROVE  /\ EffectiveDepth(tags, granted) \in Depths
         /\ \A t \in tags : \E x \in granted :
               /\ Covers(x.scope, t)
               /\ DepthRank(EffectiveDepth(tags, granted)) <= DepthRank(x.depth)
<1> DEFINE d == EffectiveDepth(tags, granted)
           deepest == {Most(TagRanks(t, granted)) : t \in tags}
<1>1. ASSUME NEW t \in tags
      PROVE  TagRanks(t, granted) \subseteq 1 .. 3 /\ TagRanks(t, granted) # {}
  <2>1. \A x \in granted : DepthRank(x.depth) \in 1 .. 3
    BY Ranks DEF Depths
  <2> QED BY <2>1 DEF TagRanks
<1>2. ASSUME NEW t \in tags
      PROVE  /\ Most(TagRanks(t, granted)) \in 1 .. 3
             /\ \E x \in granted : Covers(x.scope, t) /\ Most(TagRanks(t, granted)) = DepthRank(x.depth)
  <2>1. Most(TagRanks(t, granted)) \in TagRanks(t, granted)
    BY <1>1, RankBounds
  <2> QED BY <1>1, <2>1 DEF TagRanks
<1>3. CASE tags = {}
  BY <1>3 DEF EffectiveDepth, Depths
<1>4. CASE tags # {}
  <2>1. d = DepthOrder[Least(deepest)]
    BY <1>1, <1>4 DEF EffectiveDepth
  <2>2. deepest \subseteq 1 .. 3 /\ deepest # {}
    BY <1>2, <1>4
  <2>3. Least(deepest) \in 1 .. 3 /\ \A y \in deepest : Least(deepest) <= y
    BY <2>2, RankBounds
  <2>4. d \in Depths /\ DepthRank(d) = Least(deepest)
    BY <2>1, <2>3, Ranks
  <2>5. ASSUME NEW t \in tags
        PROVE  \E x \in granted : Covers(x.scope, t) /\ DepthRank(d) <= DepthRank(x.depth)
    <3>1. Least(deepest) <= Most(TagRanks(t, granted))
      BY <2>3
    <3> QED BY <1>2, <2>4, <3>1
  <2> QED BY <2>4, <2>5
<1> QED BY <1>3, <1>4

\* What the query over facts takes for covered is covered.
LEMMA SqlCoversIsSound ==
  ASSUME NEW scopes, NEW r, Len(r.op) \in Nat, SqlCovers(scopes, r)
  PROVE  AnyCovers(scopes, r)
<1>1. Covers(r, r)
  BY DEF Covers, OpCovers
<1>2. ASSUME NEW g \in scopes, LikeDescendant(g, r) PROVE Covers(g, r)
  BY <1>2 DEF LikeDescendant, LikeSegment, Covers, OpCovers
<1> QED BY <1>1, <1>2 DEF SqlCovers, AnyCovers

(* A scope: the segments of its operation, and a target or NoTarget. *)
ScopeOver(Segment, Target) == [op : Seq(Segment), target : Target]

\* The LIKE pattern finds the strict descendants and the equality the scope
\* itself: between them, for a tag without a target, what Covers decides.
LEMMA SqlCoversIsComplete ==
  ASSUME NEW Segment, NEW Target, NEW scopes \in SUBSET ScopeOver(Segment, Target),
         NEW r \in ScopeOver(Segment, Target), r.target = NoTarget, AnyCovers(scopes, r)
  PROVE  SqlCovers(scopes, r)
<1>1. PICK g \in scopes : Covers(g, r)
  BY DEF AnyCovers
<1>2. /\ g \in ScopeOver(Segment, Target)
      /\ g.op \in Seq(Segment) /\ r.op \in Seq(Segment)
      /\ Len(g.op) \in Nat /\ Len(r.op) \in Nat
  BY DEF ScopeOver
<1>3. /\ g.target = r.target /\ Len(g.op) <= Len(r.op)
      /\ \A i \in 1 .. Len(g.op) : g.op[i] = r.op[i]
  BY <1>1 DEF Covers, OpCovers
<1>4. CASE Len(g.op) = Len(r.op)
  <2>1. g.op = r.op
    BY <1>2, <1>3, <1>4
  <2>2. g = r
    BY <1>2, <1>3, <2>1 DEF ScopeOver
  <2> QED BY <2>2 DEF SqlCovers
<1>5. CASE Len(g.op) < Len(r.op)
  BY <1>3, <1>5 DEF SqlCovers, LikeDescendant, LikeSegment
<1> QED BY <1>2, <1>3, <1>4, <1>5

\* scope.go and the queries over facts decide the same: a fact is a candidate
\* exactly when it has tags and scope.Missing finds none of them uncovered.
THEOREM QueryAgreesWithCovers ==
  ASSUME NEW Segment, NEW Target, NEW scopes \in SUBSET ScopeOver(Segment, Target),
         NEW tags \in SUBSET ScopeOver(Segment, Target),
         \A t \in tags : t.target = NoTarget
  PROVE  SqlVisible(tags, scopes) <=> tags # {} /\ Missing(tags, scopes) = {}
<1>1. ASSUME NEW t \in tags PROVE SqlCovers(scopes, t) <=> AnyCovers(scopes, t)
  <2>1. t \in ScopeOver(Segment, Target) /\ t.target = NoTarget
    OBVIOUS
  <2>2. Len(t.op) \in Nat
    BY <2>1 DEF ScopeOver
  <2> QED BY <2>1, <2>2, SqlCoversIsSound, SqlCoversIsComplete
<1> QED BY <1>1 DEF SqlVisible, Missing

\* The effective depth of a fact whose tags are covered is the deepest at which
\* every tag is granted: it is at least d exactly when a covering grant of each
\* tag is.
THEOREM DepthIsDeepestGranted ==
  ASSUME NEW tags, tags # {}, NEW granted, \A x \in granted : x.depth \in Depths,
         \A t \in tags : \E x \in granted : Covers(x.scope, t),
         NEW d \in Depths
  PROVE  DepthRank(d) <= DepthRank(EffectiveDepth(tags, granted))
           <=> \A t \in tags : \E x \in granted :
                  Covers(x.scope, t) /\ DepthRank(d) <= DepthRank(x.depth)
<1> DEFINE e == EffectiveDepth(tags, granted)
           deepest == {Most(TagRanks(t, granted)) : t \in tags}
<1>1. DepthRank(d) \in 1 .. 3 /\ \A x \in granted : DepthRank(x.depth) \in 1 .. 3
  BY Ranks DEF Depths
<1>2. ASSUME NEW t \in tags
      PROVE  /\ TagRanks(t, granted) \subseteq 1 .. 3 /\ TagRanks(t, granted) # {}
             /\ Most(TagRanks(t, granted)) \in 1 .. 3
             /\ \A y \in TagRanks(t, granted) : y <= Most(TagRanks(t, granted))
  <2>1. TagRanks(t, granted) \subseteq 1 .. 3 /\ TagRanks(t, granted) # {}
    BY <1>1 DEF TagRanks
  <2> QED BY <2>1, RankBounds
<1>3. /\ e \in Depths
      /\ \A t \in tags : \E x \in granted :
            Covers(x.scope, t) /\ DepthRank(e) <= DepthRank(x.depth)
  BY EffectiveDepthIsGranted
<1>4. DepthRank(e) \in 1 .. 3
  BY <1>3, Ranks DEF Depths
<1>5. ASSUME DepthRank(d) <= DepthRank(e), NEW t \in tags
      PROVE  \E x \in granted : Covers(x.scope, t) /\ DepthRank(d) <= DepthRank(x.depth)
  BY <1>1, <1>3, <1>4, <1>5
<1>6. ASSUME \A t \in tags : \E x \in granted :
                Covers(x.scope, t) /\ DepthRank(d) <= DepthRank(x.depth)
      PROVE  DepthRank(d) <= DepthRank(e)
  <2>1. deepest \subseteq 1 .. 3 /\ deepest # {}
    BY <1>2
  <2>2. Least(deepest) \in deepest /\ Least(deepest) \in 1 .. 3
    BY <2>1, RankBounds
  <2>3. e = DepthOrder[Least(deepest)]
    BY <1>2 DEF EffectiveDepth
  <2>4. DepthRank(e) = Least(deepest)
    BY <2>2, <2>3, Ranks
  <2>5. PICK t \in tags : Least(deepest) = Most(TagRanks(t, granted))
    BY <2>2
  <2>6. PICK x \in granted : Covers(x.scope, t) /\ DepthRank(d) <= DepthRank(x.depth)
    BY <1>6
  <2>7. DepthRank(x.depth) \in TagRanks(t, granted)
    BY <2>6 DEF TagRanks
  <2>8. DepthRank(x.depth) <= Most(TagRanks(t, granted))
    BY <1>2, <2>7
  <2> QED BY <1>1, <1>2, <2>4, <2>5, <2>6, <2>8
<1> QED BY <1>5, <1>6

-------------------------------------------------------------------------------
(* Windows                                                                 *)

\* An instant lies in a window of the table, and a stretch of a window's length
\* lies in the window of its first instant and the next.
LEMMA WindowOfTime ==
  ASSUME NEW t \in 0 .. MaxTime
  PROVE  t \div Window \in Windows
<1>1. MaxTime \in Nat /\ Window \in Nat \ {0}
  BY GrantsAssumption, AccessAssumption
<1>2. t \div Window \in Nat /\ t \div Window <= MaxTime \div Window /\ MaxTime \div Window \in Nat
  BY <1>1
<1> QED BY <1>2 DEF Windows

LEMMA StretchOfTwoWindows ==
  ASSUME NEW t \in Nat, NEW u \in Nat, t <= u, u < t + Window
  PROVE  u \div Window = t \div Window \/ u \div Window = t \div Window + 1
BY AccessAssumption

-------------------------------------------------------------------------------
(* The reviewers' side                                                     *)

\* Every step is one of the reviewers' or leaves their state alone.
LEMMA ConsentStep == [Next]_vars => [ConsentNext]_consentVars
BY DEF Next, vars

LEMMA Consents == Spec => ConsentSpec
<1>1. Init => ConsentInit
  BY DEF Init
<1> QED BY <1>1, ConsentStep, PTL DEF Spec, ConsentSpec

LEMMA ConsentHolds == Spec => []ConsentInv
BY Consents, ConsentInvariance, PTL

-------------------------------------------------------------------------------
(* Type correctness                                                        *)

LEMMA GrantedDepths ==
  ASSUME ConsentTypeOK
  PROVE  \A x \in GrantedScopeDepths : x.depth \in Depths
<1>1. ASSUME NEW g \in ActiveGrants PROVE terms[g] \in Terms
  BY <1>1, GrantsAssumption DEF ActiveGrants, Active, Exists, ConsentTypeOK
<1>2. \A x \in GrantedScopeDepths :
         \E g \in ActiveGrants : terms[g].kind = "memory" /\ x.depth = terms[g].depth
  BY DEF GrantedScopeDepths
<1> QED BY <1>1, <1>2, AccessAssumption DEF Depths

\* A call that ends leaves nothing behind.
LEMMA LeaveType ==
  ASSUME TypeOK, NEW c \in Calls, Leave(c)
  PROVE  /\ at' \in [Calls -> Stages]
         /\ want' \in [Calls -> Asks \cup {{}}]
         /\ target' \in [Calls -> Facts \cup {NoFact}]
         /\ DOMAIN snap' = Calls /\ DOMAIN found' = Calls
         /\ \A k \in Calls :
               /\ \A g \in snap'[k] : g.depth \in {"summary", "facts", "full"}
               /\ DOMAIN found'[k] \subseteq Facts
         /\ count' \in [Windows -> Nat]
         /\ admitted' \in SUBSET [time : 0 .. MaxTime, count : Nat]
<1>1. DOMAIN <<>> = {}
  OBVIOUS
<1> QED BY <1>1 DEF Leave, TypeOK, Stages, limitVars

LEMMA TypeInit == Init => TypeOK
<1>1. DOMAIN <<>> = {}
  OBVIOUS
<1> QED BY <1>1, ConsentTypeInit DEF Init, TypeOK, Stages, Windows

CallsTyped ==
    /\ at' \in [Calls -> Stages]
    /\ want' \in [Calls -> Asks \cup {{}}]
    /\ target' \in [Calls -> Facts \cup {NoFact}]
    /\ DOMAIN snap' = Calls /\ DOMAIN found' = Calls
    /\ \A k \in Calls :
          /\ \A g \in snap'[k] : g.depth \in {"summary", "facts", "full"}
          /\ DOMAIN found'[k] \subseteq Facts
    /\ count' \in [Windows -> Nat]
    /\ admitted' \in SUBSET [time : 0 .. MaxTime, count : Nat]

LEMMA CallsNext == TypeOK /\ CallStep => CallsTyped
<1> SUFFICES ASSUME TypeOK, CallStep PROVE CallsTyped
  OBVIOUS
<1> USE DEF CallsTyped, limitVars, Move
<1>0. \A x \in GrantedScopeDepths : x.depth \in {"summary", "facts", "full"}
  BY GrantedDepths DEF TypeOK, Depths
<1>1. ASSUME NEW c \in Calls, Leave(c) PROVE CallsTyped
  BY <1>1, LeaveType
<1>2. ASSUME NEW c \in Calls, NEW req \in Asks, CheckGrants(c, req) PROVE CallsTyped
  BY <1>0, <1>2 DEF CheckGrants, TypeOK, Stages
<1>3. ASSUME NEW c \in Calls, Embed(c) PROVE CallsTyped
  BY <1>3 DEF Embed, TypeOK, Stages
<1>4. ASSUME NEW c \in Calls, Recheck(c) PROVE CallsTyped
  <2>1. CASE Leave(c)
    BY <1>1, <2>1
  <2>2. CASE ~Leave(c)
    BY <1>0, <1>4, <2>2 DEF Recheck, TypeOK, Stages
  <2> QED BY <2>1, <2>2
<1>5. ASSUME NEW c \in Calls, SearchFacts(c) PROVE CallsTyped
  <2>1. PICK S \in SUBSET CandidateFacts(snap[c]) :
           found' = [found EXCEPT ![c] = [f \in S |-> EffectiveDepth(FactScopes[f], snap[c])]]
    BY <1>5 DEF SearchFacts
  <2>2. S \subseteq Facts
    BY DEF CandidateFacts
  <2>3. DOMAIN found' = Calls /\ \A k \in Calls : DOMAIN found'[k] \subseteq Facts
    BY <2>1, <2>2 DEF TypeOK
  <2> QED BY <1>5, <2>3 DEF SearchFacts, TypeOK, Stages
<1>6. ASSUME NEW c \in Calls, RecordRead(c) PROVE CallsTyped
  BY <1>6 DEF RecordRead, TypeOK, Stages
<1>7. ASSUME NEW c \in Calls, NEW f \in Facts \cup {NoFact}, ProposeWrite(c, f) PROVE CallsTyped
  <2>1. count' \in [Windows -> Nat]
    <3>1. count' = [count EXCEPT ![CurrentWindow] = count[CurrentWindow] + 1]
      BY <1>7 DEF ProposeWrite
    <3>2. \A w \in Windows : count[w] + 1 \in Nat
      BY DEF TypeOK
    <3> QED BY <3>1, <3>2 DEF TypeOK
  <2>2. admitted' \in SUBSET [time : 0 .. MaxTime, count : Nat]
    <3>1. [time |-> now, count |-> count[CurrentWindow] + 1] \in [time : 0 .. MaxTime, count : Nat]
      BY WindowOfTime DEF TypeOK, ConsentTypeOK, CurrentWindow
    <3> QED BY <1>7, <3>1 DEF ProposeWrite, TypeOK
  <2> QED BY <1>7, <2>1, <2>2 DEF ProposeWrite, TypeOK, Stages
<1>8. ASSUME NEW c \in Calls, LoadGrants(c) PROVE CallsTyped
  BY <1>0, <1>8 DEF LoadGrants, TypeOK, Stages
<1>9. ASSUME NEW c \in Calls, ProposeDiff(c) PROVE CallsTyped
  <2>1. CASE Leave(c)
    BY <1>1, <2>1
  <2>2. CASE ~Leave(c)
    <3>1. PICK f \in DedupeCandidates(snap[c]) :
             found' = [found EXCEPT ![c] =
                [x \in IF f = NoFact THEN {} ELSE Disclosure(f, snap[c]) |-> "facts"]]
      BY <1>9, <2>2 DEF ProposeDiff
    <3>2. (IF f = NoFact THEN {} ELSE Disclosure(f, snap[c])) \subseteq Facts
      BY DEF DedupeCandidates, CandidateFacts, Disclosure
    <3>3. DOMAIN found' = Calls /\ \A k \in Calls : DOMAIN found'[k] \subseteq Facts
      BY <3>1, <3>2 DEF TypeOK
    <3> QED BY <1>9, <2>2, <3>3 DEF ProposeDiff, TypeOK, Stages
  <2> QED BY <2>1, <2>2
<1>10. ASSUME NEW c \in Calls, Answer(c) \/ Fail(c) PROVE CallsTyped
  BY <1>1, <1>10 DEF Answer, Fail
<1> QED BY <1>2, <1>3, <1>4, <1>5, <1>6, <1>7, <1>8, <1>9, <1>10 DEF CallStep

LEMMA TypeNext == TypeOK /\ ConsentInv /\ [Next]_vars => TypeOK'
<1> SUFFICES ASSUME TypeOK, ConsentInv, [Next]_vars PROVE TypeOK'
  OBVIOUS
<1>1. ConsentTypeOK'
  BY ConsentStep, ConsentTypeNext DEF ConsentInv
<1>2. CallsTyped
  <2>1. CASE UNCHANGED <<callVars, limitVars>>
    BY <2>1 DEF CallsTyped, TypeOK, callVars, limitVars
  <2> QED BY <2>1, CallsNext DEF Next, vars
<1>3. since' \in [Calls -> SUBSET GrantIds]
  <2>1. CASE Observe
    <3>1. ActiveGrants' \subseteq GrantIds
      BY DEF ActiveGrants
    <3> QED BY <2>1, <3>1 DEF Observe, TypeOK
  <2>2. CASE UNCHANGED vars
    BY <2>2 DEF vars, TypeOK
  <2> QED BY <2>1, <2>2 DEF Next
<1> QED BY <1>1, <1>2, <1>3 DEF TypeOK, CallsTyped, Windows

-------------------------------------------------------------------------------
(* What a call reads and discloses                                         *)

\* What was read comes from the memory grants of a set.
Backed(granted, grants) ==
    \A x \in granted : \E g \in grants :
        terms[g].kind = "memory" /\ x.scope \in terms[g].scopes /\ x.depth = terms[g].depth

SnapshotsAreCovered ==
    /\ \A c \in Calls : \A g \in since[c] : Exists(g)
    /\ \A c \in Calls : at[c] \in AboutToRead => ActiveGrants \subseteq since[c]
    /\ \A c \in Calls : at[c] \in {"searching", "staging"} => Backed(snap[c], since[c])

AccessInv ==
    /\ TypeOK
    /\ SnapshotsAreCovered
    /\ DisclosedWithinGrants
    /\ ProposalsLearnWithinGrants

LEMMA FoundWithinSnapshot ==
  ASSUME NEW granted, NEW grants, NEW f \in Facts, SqlVisible(FactScopes[f], ScopesOf(granted)),
         Backed(granted, grants), \A x \in granted : x.depth \in Depths
  PROVE  /\ MayRead(f, EffectiveDepth(FactScopes[f], granted), grants)
         /\ MayRead(f, "summary", grants)
         /\ EffectiveDepth(FactScopes[f], granted) # "summary" => MayRead(f, "facts", grants)
<1> DEFINE d == EffectiveDepth(FactScopes[f], granted)
<1>1. ASSUME NEW t \in FactScopes[f] PROVE \E x \in granted : Covers(x.scope, t)
  <2>1. Len(t.op) \in Nat /\ SqlCovers(ScopesOf(granted), t)
    BY AccessAssumption DEF SqlVisible
  <2>2. AnyCovers(ScopesOf(granted), t)
    BY <2>1, SqlCoversIsSound
  <2> QED BY <2>2 DEF AnyCovers, ScopesOf
<1>2. /\ d \in Depths
      /\ \A t \in FactScopes[f] : \E x \in granted :
            Covers(x.scope, t) /\ DepthRank(d) <= DepthRank(x.depth)
  BY <1>1, EffectiveDepthIsGranted
<1>3. ASSUME NEW e \in Depths, DepthRank(e) <= DepthRank(d) PROVE MayRead(f, e, grants)
  <2> SUFFICES ASSUME NEW t \in FactScopes[f]
               PROVE  \E g \in grants :
                         /\ terms[g].kind = "memory"
                         /\ DepthRank(terms[g].depth) >= DepthRank(e)
                         /\ \E s \in terms[g].scopes : Covers(s, t)
    BY DEF MayRead
  <2>1. PICK x \in granted : Covers(x.scope, t) /\ DepthRank(d) <= DepthRank(x.depth)
    BY <1>2
  <2>2. PICK g \in grants :
           terms[g].kind = "memory" /\ x.scope \in terms[g].scopes /\ x.depth = terms[g].depth
    BY DEF Backed
  <2>3. DepthRank(e) \in 1 .. 3 /\ DepthRank(d) \in 1 .. 3 /\ DepthRank(x.depth) \in 1 .. 3
    BY <1>2, Ranks DEF Depths
  <2>4. DepthRank(terms[g].depth) >= DepthRank(e)
    BY <1>3, <2>1, <2>2, <2>3
  <2> QED BY <2>1, <2>2, <2>4
<1>4. MayRead(f, d, grants)
  <2>1. DepthRank(d) <= DepthRank(d)
    BY <1>2, Ranks DEF Depths
  <2> QED BY <1>2, <1>3, <2>1
<1>5. MayRead(f, "summary", grants)
  <2>1. "summary" \in Depths /\ DepthRank("summary") <= DepthRank(d)
    BY <1>2, Ranks DEF Depths
  <2> QED BY <1>3, <2>1
<1>6. d # "summary" => MayRead(f, "facts", grants)
  <2>1. "facts" \in Depths /\ (d # "summary" => DepthRank("facts") <= DepthRank(d))
    BY <1>2, Ranks DEF Depths
  <2> QED BY <1>3, <2>1
<1> QED BY <1>4, <1>5, <1>6

\* What a step makes of a call; at the step that reads the grants, nobody writes
\* them.
CallMoves(c) ==
    \/ at'[c] = at[c] /\ snap'[c] = snap[c] /\ found'[c] = found[c] /\ target'[c] = target[c]
    \/ at'[c] \in {"idle", "embedding", "embedded", "proposing", "proposed"}
    \/ /\ at[c] \in AboutToRead
       /\ at'[c] \in {"searching", "staging"}
       /\ snap'[c] = GrantedScopeDepths
       /\ UNCHANGED consentVars
    \/ /\ at[c] = "searching" /\ at'[c] = "searched"
       /\ \E S \in SUBSET CandidateFacts(snap[c]) :
             found'[c] = [f \in S |-> EffectiveDepth(FactScopes[f], snap[c])]
    \/ at[c] = "searched" /\ at'[c] = "recorded" /\ found'[c] = found[c]
    \/ /\ at[c] = "staging" /\ at'[c] = "staged" /\ target'[c] = target[c]
       /\ target[c] \in CandidateFacts(snap[c]) \cup {NoFact}
       /\ \E f \in DedupeCandidates(snap[c]) :
             found'[c] = [x \in IF f = NoFact THEN {} ELSE Disclosure(f, snap[c]) |-> "facts"]

LEMMA CallsMove ==
  ASSUME TypeOK, [Next]_vars, NEW c \in Calls
  PROVE  CallMoves(c)
<1>1. CASE UNCHANGED callVars
  BY <1>1 DEF CallMoves, callVars
<1>2. ASSUME NEW k \in Calls, UNCHANGED consentVars,
             \/ \E req \in Asks : CheckGrants(k, req)
             \/ Embed(k) \/ Recheck(k) \/ SearchFacts(k) \/ RecordRead(k)
             \/ \E f \in Facts \cup {NoFact} : ProposeWrite(k, f)
             \/ LoadGrants(k) \/ ProposeDiff(k) \/ Answer(k) \/ Fail(k)
      PROVE  CallMoves(c)
  <2> USE DEF Move, TypeOK
  <2>0. CASE k # c
    BY <1>2, <2>0
       DEF CallMoves, CheckGrants, Embed, Recheck, SearchFacts, RecordRead, ProposeWrite,
           LoadGrants, ProposeDiff, Answer, Fail, Leave
  <2>1. ASSUME Leave(c) PROVE CallMoves(c)
    BY <2>1 DEF Leave, CallMoves
  <2>2. ASSUME NEW req \in Asks, CheckGrants(c, req) PROVE CallMoves(c)
    BY <2>2 DEF CheckGrants, CallMoves
  <2>3. ASSUME Embed(c) PROVE CallMoves(c)
    BY <2>3 DEF Embed, CallMoves
  <2>4. ASSUME k = c, Recheck(c) PROVE CallMoves(c)
    <3>1. CASE Leave(c)
      BY <2>1, <3>1
    <3>2. CASE ~Leave(c)
      <4>1. /\ at[c] = "embedded" /\ at'[c] = "searching"
            /\ snap'[c] = GrantedScopeDepths
        BY <2>4, <3>2 DEF Recheck
      <4> QED BY <1>2, <4>1 DEF CallMoves, AboutToRead
    <3> QED BY <3>1, <3>2
  <2>5. ASSUME SearchFacts(c) PROVE CallMoves(c)
    <3>1. PICK S \in SUBSET CandidateFacts(snap[c]) :
             found' = [found EXCEPT ![c] = [f \in S |-> EffectiveDepth(FactScopes[f], snap[c])]]
      BY <2>5 DEF SearchFacts
    <3>2. found'[c] = [f \in S |-> EffectiveDepth(FactScopes[f], snap[c])]
      BY <3>1
    <3>3. at[c] = "searching" /\ at'[c] = "searched"
      BY <2>5 DEF SearchFacts
    <3> QED BY <3>2, <3>3 DEF CallMoves
  <2>6. ASSUME RecordRead(c) PROVE CallMoves(c)
    BY <2>6 DEF RecordRead, CallMoves
  <2>7. ASSUME NEW f \in Facts \cup {NoFact}, ProposeWrite(c, f) PROVE CallMoves(c)
    <3>1. CASE Admits(count[CurrentWindow])
      BY <2>7, <3>1 DEF ProposeWrite, CallMoves
    <3>2. CASE ~Admits(count[CurrentWindow])
      BY <2>7, <3>2 DEF ProposeWrite, CallMoves
    <3> QED BY <3>1, <3>2
  <2>8. ASSUME k = c, LoadGrants(c) PROVE CallMoves(c)
    BY <1>2, <2>8 DEF LoadGrants, CallMoves, AboutToRead
  <2>9. ASSUME ProposeDiff(c) PROVE CallMoves(c)
    <3>1. CASE Leave(c)
      BY <2>1, <3>1
    <3>2. CASE ~Leave(c)
      <4>1. /\ target[c] \in CandidateFacts(snap[c]) \cup {NoFact}
            /\ at[c] = "staging" /\ at'[c] = "staged" /\ target'[c] = target[c]
        BY <2>9, <3>2 DEF ProposeDiff
      <4>2. PICK f \in DedupeCandidates(snap[c]) :
               found' = [found EXCEPT ![c] =
                  [x \in IF f = NoFact THEN {} ELSE Disclosure(f, snap[c]) |-> "facts"]]
        BY <2>9, <3>2 DEF ProposeDiff
      <4>3. found'[c] = [x \in IF f = NoFact THEN {} ELSE Disclosure(f, snap[c]) |-> "facts"]
        BY <4>2
      <4> QED BY <4>1, <4>3 DEF CallMoves
    <3> QED BY <3>1, <3>2
  <2> QED BY <1>2, <2>0, <2>1, <2>2, <2>3, <2>4, <2>5, <2>6, <2>7, <2>8, <2>9 DEF Answer, Fail
<1> QED BY <1>1, <1>2 DEF Next, CallStep, vars

LEMMA AccessInit == Init => AccessInv
BY TypeInit
   DEF Init, AccessInv, SnapshotsAreCovered, DisclosedWithinGrants, ProposalsLearnWithinGrants,
       AboutToRead

\* What a set of existing grants let read, a larger one still does.
LEMMA MayReadStays ==
  ASSUME NEW f, NEW d, NEW old, NEW new, MayRead(f, d, old), old \subseteq new,
         \A g \in old : terms'[g] = terms[g]
  PROVE  MayRead(f, d, new)'
BY DEF MayRead

LEMMA AccessNext == AccessInv /\ ConsentInv /\ [Next]_vars => AccessInv'
<1> SUFFICES ASSUME AccessInv, ConsentInv, [Next]_vars PROVE AccessInv'
  OBVIOUS
<1>1. TypeOK' /\ TypeOK
  BY TypeNext DEF AccessInv
<1>2. RowsStayPut
  BY ConsentStep, RowsNext DEF ConsentInv
<1>3. ASSUME NEW c \in Calls
      PROVE  /\ at'[c] # "idle" => since[c] \subseteq since'[c]
             /\ at'[c] \in AboutToRead => ActiveGrants' \subseteq since'[c]
             /\ since'[c] \subseteq since[c] \cup ActiveGrants'
             /\ since[c] \subseteq GrantIds
  <2>1. CASE Observe
    BY <1>1, <2>1 DEF Observe, TypeOK
  <2>2. CASE UNCHANGED vars
    <3>1. ActiveGrants' = ActiveGrants
      BY <2>2 DEF vars, consentVars, grantVars, ActiveGrants, Active, Exists, Unexpired
    <3> QED BY <1>1, <2>2, <3>1 DEF vars, callVars, AccessInv, SnapshotsAreCovered, TypeOK
  <2> QED BY <2>1, <2>2 DEF Next
<1>4. ASSUME NEW c \in Calls
      PROVE  /\ \A g \in since[c] : terms'[g] = terms[g] /\ terms[g] # NoTerms
             /\ \A g \in since'[c] : terms'[g] # NoTerms
  <2>1. \A g \in since[c] : terms'[g] = terms[g] /\ terms[g] # NoTerms
    BY <1>2, <1>3 DEF AccessInv, SnapshotsAreCovered, RowsStayPut, Exists
  <2>2. \A g \in ActiveGrants' : terms'[g] # NoTerms
    BY DEF ActiveGrants, Active, Exists
  <2> QED BY <1>3, <2>1, <2>2
<1>5. ASSUME NEW c \in Calls, at'[c] \in {"searching", "staging"}
      PROVE  Backed(snap[c], since[c])' /\ since[c] \subseteq since'[c]
  <2>1. since[c] \subseteq since'[c]
    BY <1>3, <1>5
  <2>2. CASE at'[c] = at[c] /\ snap'[c] = snap[c]
    <3>1. Backed(snap[c], since[c])
      BY <1>5, <2>2 DEF AccessInv, SnapshotsAreCovered
    <3> QED BY <1>4, <2>1, <2>2, <3>1 DEF Backed
  <2>3. CASE at[c] \in AboutToRead /\ snap'[c] = GrantedScopeDepths /\ UNCHANGED consentVars
    <3>1. ActiveGrants \subseteq since[c]
      BY <2>3 DEF AccessInv, SnapshotsAreCovered
    <3>2. ASSUME NEW x \in GrantedScopeDepths
          PROVE  \E g \in since'[c] :
                    /\ terms'[g].kind = "memory" /\ x.scope \in terms'[g].scopes
                    /\ x.depth = terms'[g].depth
      <4>1. PICK g \in ActiveGrants :
               terms[g].kind = "memory" /\ x.scope \in terms[g].scopes /\ x.depth = terms[g].depth
        BY DEF GrantedScopeDepths
      <4>2. g \in since[c] /\ g \in since'[c]
        BY <2>1, <3>1
      <4> QED BY <1>4, <4>1, <4>2
    <3> QED BY <2>1, <2>3, <3>2 DEF Backed
  <2> QED BY <1>1, <1>5, <2>2, <2>3, CallsMove DEF CallMoves
<1>6. SnapshotsAreCovered'
  BY <1>3, <1>4, <1>5 DEF SnapshotsAreCovered, Exists
<1>7. ASSUME NEW c \in Calls, NEW f \in Facts,
             f \in CandidateFacts(snap[c]), at[c] \in {"searching", "staging"}
      PROVE  /\ MayRead(f, EffectiveDepth(FactScopes[f], snap[c]), since[c])
             /\ MayRead(f, "summary", since[c])
             /\ EffectiveDepth(FactScopes[f], snap[c]) # "summary" => MayRead(f, "facts", since[c])
  <2>1. Backed(snap[c], since[c]) /\ \A x \in snap[c] : x.depth \in Depths
    BY <1>1, <1>7 DEF AccessInv, SnapshotsAreCovered, TypeOK, Depths
  <2>2. SqlVisible(FactScopes[f], ScopesOf(snap[c]))
    BY <1>7 DEF CandidateFacts
  <2> QED BY <2>1, <2>2, FoundWithinSnapshot
<1>8. ASSUME NEW c \in Calls, at'[c] \in {"searched", "recorded"}, NEW f \in DOMAIN found'[c]
      PROVE  MayRead(f, found[c][f], since[c])'
  <2>1. /\ since[c] \subseteq since'[c]
        /\ \A g \in since[c] : terms'[g] = terms[g]
    BY <1>3, <1>4, <1>8
  <2>2. CASE at[c] \in {"searched", "recorded"} /\ found'[c] = found[c]
    <3>1. MayRead(f, found[c][f], since[c])
      BY <1>8, <2>2 DEF AccessInv, DisclosedWithinGrants
    <3> QED BY <2>1, <2>2, <3>1 DEF MayRead
  <2>3. CASE /\ at[c] = "searching"
             /\ \E S \in SUBSET CandidateFacts(snap[c]) :
                   found'[c] = [x \in S |-> EffectiveDepth(FactScopes[x], snap[c])]
    <3>1. PICK S \in SUBSET CandidateFacts(snap[c]) :
             found'[c] = [x \in S |-> EffectiveDepth(FactScopes[x], snap[c])]
      BY <2>3
    <3>2. /\ f \in CandidateFacts(snap[c]) /\ f \in Facts
          /\ found'[c][f] = EffectiveDepth(FactScopes[f], snap[c])
      BY <1>8, <3>1 DEF CandidateFacts
    <3>3. MayRead(f, found'[c][f], since[c])
      BY <1>7, <2>3, <3>2
    <3> QED BY <2>1, <3>3 DEF MayRead
  <2> QED BY <1>1, <1>8, <2>2, <2>3, CallsMove DEF CallMoves
<1>9. DisclosedWithinGrants'
  BY <1>8 DEF DisclosedWithinGrants
<1>10. ASSUME NEW c \in Calls, at'[c] = "staged"
       PROVE  /\ \A f \in DOMAIN found'[c] : MayRead(f, "facts", since[c])'
              /\ target'[c] # NoFact => MayRead(target[c], "summary", since[c])'
  <2>1. /\ since[c] \subseteq since'[c]
        /\ \A g \in since[c] : terms'[g] = terms[g]
    BY <1>3, <1>4, <1>10
  <2>2. CASE at[c] = "staged" /\ found'[c] = found[c] /\ target'[c] = target[c]
    <3>1. /\ \A f \in DOMAIN found[c] : MayRead(f, "facts", since[c])
          /\ target[c] # NoFact => MayRead(target[c], "summary", since[c])
      BY <2>2 DEF AccessInv, ProposalsLearnWithinGrants
    <3> QED BY <2>1, <2>2, <3>1 DEF MayRead
  <2>3. CASE /\ at[c] = "staging" /\ target'[c] = target[c]
             /\ target[c] \in CandidateFacts(snap[c]) \cup {NoFact}
             /\ \E f \in DedupeCandidates(snap[c]) :
                   found'[c] = [x \in IF f = NoFact THEN {} ELSE Disclosure(f, snap[c]) |-> "facts"]
    <3>1. PICK f \in DedupeCandidates(snap[c]) :
             found'[c] = [x \in IF f = NoFact THEN {} ELSE Disclosure(f, snap[c]) |-> "facts"]
      BY <2>3
    <3>2. ASSUME NEW x \in DOMAIN found'[c] PROVE MayRead(x, "facts", since[c])
      <4>1. f # NoFact /\ x = f /\ EffectiveDepth(FactScopes[f], snap[c]) # "summary"
        BY <3>1, <3>2 DEF Disclosure
      <4>2. f \in CandidateFacts(snap[c]) /\ f \in Facts
        BY <4>1 DEF DedupeCandidates, CandidateFacts
      <4> QED BY <1>7, <2>3, <4>1, <4>2
    <3>3. target[c] # NoFact => MayRead(target[c], "summary", since[c])
      <4>1. target[c] # NoFact => target[c] \in CandidateFacts(snap[c]) /\ target[c] \in Facts
        BY <2>3 DEF CandidateFacts
      <4> QED BY <1>7, <2>3, <4>1
    <3> QED BY <2>1, <2>3, <3>2, <3>3 DEF MayRead
  <2> QED BY <1>1, <1>10, <2>2, <2>3, CallsMove DEF CallMoves
<1>11. ProposalsLearnWithinGrants'
  BY <1>10 DEF ProposalsLearnWithinGrants
<1> QED BY <1>1, <1>6, <1>9, <1>11 DEF AccessInv

LEMMA AccessInvariance == Spec => []AccessInv
BY AccessInit, AccessNext, ConsentHolds, PTL DEF Spec

-------------------------------------------------------------------------------
(* The rate limit                                                          *)

\* A proposal let through was counted in the window it came in, within the limit,
\* and no other of that window got the same count.
AdmissionsAreCounted ==
    /\ \A a \in admitted :
          /\ a.count \in 1 .. Limit
          /\ a.count <= count[a.time \div Window]
    /\ \A a, b \in admitted :
          a.time \div Window = b.time \div Window /\ a.count = b.count => a = b

LEMMA CountedInit == Init => AdmissionsAreCounted
BY DEF Init, AdmissionsAreCounted

\* Only a proposal touches the counts.
LEMMA CountsMove ==
  ASSUME [Next]_vars
  PROVE  \/ UNCHANGED limitVars
         \/ \E c \in Calls : \E f \in Facts \cup {NoFact} : ProposeWrite(c, f) /\ now' = now
<1> USE DEF limitVars
<1>1. ASSUME NEW c \in Calls, Leave(c) PROVE UNCHANGED limitVars
  BY <1>1 DEF Leave
<1>2. ASSUME NEW c \in Calls, NEW req \in Asks, CheckGrants(c, req) PROVE UNCHANGED limitVars
  BY <1>2 DEF CheckGrants
<1>3. ASSUME NEW c \in Calls, Embed(c) \/ SearchFacts(c) \/ RecordRead(c) \/ LoadGrants(c)
      PROVE  UNCHANGED limitVars
  BY <1>3 DEF Embed, SearchFacts, RecordRead, LoadGrants
<1>4. ASSUME NEW c \in Calls, Recheck(c) PROVE UNCHANGED limitVars
  BY <1>1, <1>4 DEF Recheck
<1>5. ASSUME NEW c \in Calls, ProposeDiff(c) PROVE UNCHANGED limitVars
  BY <1>1, <1>5 DEF ProposeDiff
<1>6. ASSUME NEW c \in Calls, Answer(c) \/ Fail(c) PROVE UNCHANGED limitVars
  BY <1>1, <1>6 DEF Answer, Fail
<1>7. CASE UNCHANGED vars
  BY <1>7 DEF vars
<1>8. CASE CallStep /\ UNCHANGED consentVars
  <2>1. now' = now
    BY <1>8 DEF consentVars
  <2> QED BY <1>2, <1>3, <1>4, <1>5, <1>6, <1>8, <2>1 DEF CallStep
<1> QED BY <1>7, <1>8 DEF Next

LEMMA CountedNext == TypeOK /\ AdmissionsAreCounted /\ [Next]_vars => AdmissionsAreCounted'
<1> SUFFICES ASSUME TypeOK, AdmissionsAreCounted, [Next]_vars PROVE AdmissionsAreCounted'
  OBVIOUS
<1>1. CASE UNCHANGED limitVars
  BY <1>1 DEF limitVars, AdmissionsAreCounted
<1>2. ASSUME NEW c \in Calls, NEW f \in Facts \cup {NoFact}, ProposeWrite(c, f), now' = now
      PROVE  AdmissionsAreCounted'
  <2> DEFINE w == CurrentWindow
             n == count[w]
             new == [time |-> now, count |-> n + 1]
  <2>1. w \in Windows /\ w = now \div Window /\ n \in Nat
    BY WindowOfTime DEF TypeOK, ConsentTypeOK, CurrentWindow
  <2>2. count' = [count EXCEPT ![w] = n + 1]
    BY <1>2 DEF ProposeWrite
  <2>3. /\ count'[w] = n + 1
        /\ \A v \in Windows : v # w => count'[v] = count[v]
    BY <2>1, <2>2 DEF TypeOK
  <2>4. \A a \in admitted : /\ a.time \in 0 .. MaxTime /\ a.count \in Nat
                            /\ a.time \div Window \in Windows
    BY WindowOfTime DEF TypeOK
  <2>5. ASSUME NEW a \in admitted
        PROVE  a.count \in 1 .. Limit /\ a.count <= count'[a.time \div Window]
    <3>1. a.count \in 1 .. Limit /\ a.count <= count[a.time \div Window]
      BY DEF AdmissionsAreCounted
    <3> DEFINE v == a.time \div Window
    <3>2. v \in Windows /\ count[v] \in Nat
      BY <2>4 DEF TypeOK
    <3> HIDE DEF v, w, n
    <3>3. (count'[v] = n + 1 /\ n = count[v]) \/ count'[v] = count[v]
      BY <2>3, <3>2 DEF n
    <3>4. count[v] <= count'[v] /\ count'[v] \in Nat
      BY <2>1, <3>2, <3>3
    <3> QED BY <2>4, <3>1, <3>2, <3>4 DEF v
  <2>6. CASE Admits(n)
    <3>1. admitted' = admitted \cup {new}
      BY <1>2, <2>6 DEF ProposeWrite
    <3>2. new.time = now /\ new.count = n + 1
      OBVIOUS
    <3>3. new.count \in 1 .. Limit /\ new.count <= count'[new.time \div Window]
      BY <2>1, <2>3, <2>6, AccessAssumption DEF Admits
    <3>4. ASSUME NEW a \in admitted, a.time \div Window = new.time \div Window
          PROVE  a.count # new.count
      <4>1. a.count <= n
        BY <2>1, <3>4 DEF AdmissionsAreCounted
      <4> QED BY <2>1, <2>4, <4>1
    <3> HIDE DEF new
    <3>5. \A a \in admitted' : a.count \in 1 .. Limit /\ a.count <= count'[a.time \div Window]
      BY <2>5, <3>1, <3>3
    <3>6. \A a, b \in admitted' :
             a.time \div Window = b.time \div Window /\ a.count = b.count => a = b
      BY <3>1, <3>4 DEF AdmissionsAreCounted
    <3> QED BY <3>5, <3>6 DEF AdmissionsAreCounted
  <2>7. CASE ~Admits(n)
    <3>1. admitted' = admitted
      BY <1>2, <2>7 DEF ProposeWrite
    <3> QED BY <2>5, <3>1 DEF AdmissionsAreCounted
  <2> QED BY <2>6, <2>7
<1> QED BY <1>1, <1>2, CountsMove

\* The counts tell the proposals of a window apart, and there are Limit of them.
LEMMA WindowWithinLimit ==
  ASSUME TypeOK, AdmissionsAreCounted, NEW w, NEW T,
         T = {a \in admitted : a.time \div Window = w}
  PROVE  IsFiniteSet(T) /\ Cardinality(T) \in Nat /\ Cardinality(T) <= Limit
<1> DEFINE counts == [a \in T |-> a.count]
<1>1. counts \in [T -> 1 .. Limit]
  BY DEF AdmissionsAreCounted
<1>2. \A a, b \in T : counts[a] = counts[b] => a = b
  BY DEF AdmissionsAreCounted
<1>3. counts \in Injection(T, 1 .. Limit)
  BY <1>1, <1>2 DEF Injection, IsInjective
<1>4. IsFiniteSet(1 .. Limit) /\ Cardinality(1 .. Limit) = Limit
  BY FS_Interval, AccessAssumption
<1>5. IsFiniteSet(T) /\ Cardinality(T) <= Limit
  BY <1>3, <1>4, FS_Injection
<1> QED BY <1>5, FS_CardinalityType

LEMMA CountsBound == TypeOK /\ AdmissionsAreCounted => AdmittedWithinLimit
<1> SUFFICES ASSUME TypeOK, AdmissionsAreCounted PROVE AdmittedWithinLimit
  OBVIOUS
<1> DEFINE of(w) == {a \in admitted : a.time \div Window = w}
<1>0. /\ \A a \in admitted : a.time \in 0 .. MaxTime
      /\ Limit \in Nat /\ MaxTime \in Nat
  BY AccessAssumption, GrantsAssumption DEF TypeOK
<1>1. ASSUME NEW w
      PROVE  IsFiniteSet(of(w)) /\ Cardinality(of(w)) \in Nat /\ Cardinality(of(w)) <= Limit
  BY WindowWithinLimit
<1>2. ASSUME NEW w \in Windows
      PROVE  AdmittedDuring({t \in 0 .. MaxTime : t \div Window = w}) <= Limit
  <2>1. {a \in admitted : a.time \in {t \in 0 .. MaxTime : t \div Window = w}} = of(w)
    BY <1>0
  <2> QED BY <1>1, <2>1 DEF AdmittedDuring
<1>3. ASSUME NEW t \in 0 .. MaxTime
      PROVE  AdmittedDuring({u \in 0 .. MaxTime : t <= u /\ u < t + Window}) <= 2 * Limit
  <2> DEFINE S == {a \in admitted : a.time \in {u \in 0 .. MaxTime : t <= u /\ u < t + Window}}
             v == t \div Window
             both == of(v) \cup of(v + 1)
  <2>1. S \subseteq both
    BY <1>0, StretchOfTwoWindows
  <2>2. /\ IsFiniteSet(of(v)) /\ Cardinality(of(v)) \in Nat /\ Cardinality(of(v)) <= Limit
        /\ IsFiniteSet(of(v + 1)) /\ Cardinality(of(v + 1)) \in Nat
        /\ Cardinality(of(v + 1)) <= Limit
    BY <1>1
  <2> HIDE DEF of
  <2>3. /\ IsFiniteSet(both)
        /\ Cardinality(both)
             = Cardinality(of(v)) + Cardinality(of(v + 1)) - Cardinality(of(v) \cap of(v + 1))
    BY <2>2, FS_Union
  <2>4. Cardinality(of(v) \cap of(v + 1)) \in Nat
    BY <2>2, FS_Intersection, FS_CardinalityType
  <2>5. Cardinality(S) \in Nat /\ Cardinality(S) <= Cardinality(both)
    BY <2>1, <2>3, FS_Subset, FS_CardinalityType
  <2>6. Cardinality(S) <= 2 * Limit
    BY <1>0, <2>2, <2>3, <2>4, <2>5
  <2> QED BY <2>6 DEF AdmittedDuring
<1> QED BY <1>2, <1>3 DEF AdmittedWithinLimit

LEMMA CountedInvariance == Spec => []AdmissionsAreCounted
<1>1. AccessInv => TypeOK
  BY DEF AccessInv
<1> QED BY <1>1, CountedInit, CountedNext, AccessInvariance, PTL DEF Spec

-------------------------------------------------------------------------------
(* Theorems                                                                *)

\* The types of the reviewers' rows and of the agent's calls, for any bounds.
THEOREM TypeCorrect == Spec => []TypeOK
<1>1. AccessInv => TypeOK
  BY DEF AccessInv
<1> QED BY <1>1, AccessInvariance, PTL

\* A search answers within the grants in force after its embedding.
THEOREM DisclosureIsGranted == Spec => []DisclosedWithinGrants
<1>1. AccessInv => DisclosedWithinGrants
  BY DEF AccessInv
<1> QED BY <1>1, AccessInvariance, PTL

\* A proposal tells its agent of no fact, and replaces none, that its grants do not
\* let it read.
THEOREM ProposalsAreGranted == Spec => []ProposalsLearnWithinGrants
<1>1. AccessInv => ProposalsLearnWithinGrants
  BY DEF AccessInv
<1> QED BY <1>1, AccessInvariance, PTL

\* No window lets more proposals through than its limit, and no stretch of a
\* window's length more than twice that.
THEOREM RateIsLimited == Spec => []AdmittedWithinLimit
<1>1. AccessInv => TypeOK
  BY DEF AccessInv
<1> QED BY <1>1, CountsBound, CountedInvariance, AccessInvariance, PTL

\* The agent's calls leave the grants' contract as it is.
THEOREM AccessKeepsConsent == Spec => ImplementsContract
BY Consents, ConsentIsKept, PTL
===============================================================================
