-------------------------- MODULE GrantCache_proofs ---------------------------
(***************************************************************************)
(* Proofs about GrantCache, for any set of grants, any expiries and any    *)
(* MaxLoad <= TombstoneTTL.  The inductive invariant is the type invariant *)
(* with the three safety invariants: SnapshotsAreCovered says why an old   *)
(* snapshot can neither bring a grant back nor lose a live one.            *)
(***************************************************************************)
EXTENDS GrantCache, TLAPS

Inv ==
    /\ TypeOK
    /\ SnapshotsAreCovered
    /\ GoneStaysGone
    /\ OnlyTheDeadAreDropped

-------------------------------------------------------------------------------
(* Type correctness                                                        *)

LEMMA TypeInit == Init => TypeOK
<1> SUFFICES ASSUME Init PROVE TypeOK
  OBVIOUS
<1> USE DEF Init
<1>1. now \in Nat /\ cached \subseteq Grants /\ inbox \subseteq Grants /\ gone \subseteq Grants
  OBVIOUS
<1>2. row \in [Grants -> {"absent", "active", "revoked"}]
  OBVIOUS
<1>3. tombstones \in [Grants -> Nat \cup {NoStamp}] /\ snapAt \in [Loaders -> Nat \cup {NoStamp}]
  OBVIOUS
<1>4. snap \in [Loaders -> SUBSET Grants]
  OBVIOUS
<1>5. watcher \in {"boot", "listen", "wait", "backoff", "reload"}
  OBVIOUS
<1>6. linkUp \in BOOLEAN /\ reloaded \in BOOLEAN /\ (linkUp \/ inbox = {})
  OBVIOUS
<1> QED BY <1>1, <1>2, <1>3, <1>4, <1>5, <1>6 DEF TypeOK

LEMMA TypeNext == TypeOK /\ [Next]_vars => TypeOK'
<1> SUFFICES ASSUME TypeOK, [Next]_vars PROVE TypeOK'
  OBVIOUS
<1> USE DEF TypeOK, dbVars, cacheVars, loadVars, watchVars
<1>1. ASSUME NEW g \in Grants, Provision(g) PROVE TypeOK'
  BY <1>1 DEF Provision
<1>2. ASSUME NEW g \in Grants, Revoke(g) PROVE TypeOK'
  BY <1>2 DEF Revoke
<1>3. ASSUME NEW g \in Grants, Remove(g) PROVE TypeOK'
  BY <1>3 DEF Remove
<1>4. ASSUME NEW w \in Loaders, LoadQuery(w) PROVE TypeOK'
  BY <1>4 DEF LoadQuery, ActiveRows
<1>5. ASSUME NEW w \in Loaders, LoadApply(w) PROVE TypeOK'
  <2>1. watcher' \in {"boot", "listen", "wait", "backoff", "reload"}
    BY <1>5 DEF LoadApply, AfterLoad
  <2>2. /\ cached' \subseteq Grants
        /\ gone' \subseteq Grants
        /\ tombstones' \in [Grants -> Nat \cup {NoStamp}]
    BY <1>5 DEF LoadApply, Suppressed
  <2>3. reloaded' \in BOOLEAN
    BY <1>5 DEF LoadApply
  <2> QED BY <1>5, <2>1, <2>2, <2>3 DEF LoadApply
<1>6. ASSUME NEW w \in Loaders, LoadFail(w) PROVE TypeOK'
  BY <1>6 DEF LoadFail, AfterLoad
<1>7. CASE Tick
  BY <1>7 DEF Tick
<1>8. CASE Listen \/ ListenFail \/ Drop \/ NoticeDrop \/ BackoffOver
  BY <1>8 DEF Listen, ListenFail, Drop, NoticeDrop, BackoffOver
<1>9. CASE Crash
  BY <1>9 DEF Crash
<1>10. CASE UNCHANGED vars
  BY <1>10 DEF vars
<1> QED BY <1>1, <1>2, <1>3, <1>4, <1>5, <1>6, <1>7, <1>8, <1>9, <1>10 DEF Next

\* Every variable keeps its type, whatever the grants and the bounds.
THEOREM TypeCorrect == Spec => []TypeOK
<1>1. SafetySpec => []TypeOK
  BY TypeInit, TypeNext, PTL DEF SafetySpec
<1> QED BY <1>1, PTL DEF Spec

-------------------------------------------------------------------------------
(* The safety invariants                                                   *)

\* What dies stays dead: revoked_at is never cleared and the clock only moves
\* forward.
LEMMA DeadGrows ==
  ASSUME TypeOK, [Next]_vars
  PROVE  Dead \subseteq Dead'
<1> USE GrantsAssumption DEF TypeOK, Dead, Revoked, Expired, dbVars
<1>1. ASSUME NEW g \in Grants, Provision(g) \/ Revoke(g) PROVE Dead \subseteq Dead'
  BY <1>1 DEF Provision, Revoke
<1>2. CASE Tick
  BY <1>2 DEF Tick
<1>3. ASSUME UNCHANGED dbVars PROVE Dead \subseteq Dead'
  BY <1>3
<1>4. ASSUME NEW g \in Grants, Remove(g) PROVE UNCHANGED dbVars
  BY <1>4 DEF Remove
<1>5. ASSUME NEW w \in Loaders, LoadQuery(w) \/ LoadApply(w) \/ LoadFail(w)
      PROVE  UNCHANGED dbVars
  BY <1>5 DEF LoadQuery, LoadApply, LoadFail
<1>6. CASE Listen \/ ListenFail \/ Drop \/ NoticeDrop \/ BackoffOver \/ Crash
  BY <1>3, <1>6 DEF Listen, ListenFail, Drop, NoticeDrop, BackoffOver, Crash
<1>7. CASE UNCHANGED vars
  BY <1>3, <1>7 DEF vars
<1> QED BY <1>1, <1>2, <1>3, <1>4, <1>5, <1>6, <1>7 DEF Next

\* The one place where an old snapshot meets newer knowledge: what apply swaps
\* in is nothing this process has let go of, and what it drops is dead.
LEMMA SwapIsSafe ==
  ASSUME Inv, NEW w \in Loaders, LoadApply(w)
  PROVE  /\ cached' \cap gone = {}
         /\ cached \ cached' \subseteq Dead
<1> USE TimeAssumption DEF Inv, TypeOK, SnapshotsAreCovered, Loading, NoStamp
<1>1. cached' = (snap[w] \ Malformed) \ Suppressed
  BY DEF LoadApply
<1>2. snapAt[w] # -1 /\ snapAt[w] \in Nat
  BY DEF LoadApply
<1>3. ASSUME NEW g \in gone, g \in snap[w] PROVE g \in Suppressed
  <2>1. g \in Grants /\ tombstones[g] \in Nat \cup {-1} /\ tombstones[g] >= snapAt[w]
    BY <1>2, <1>3
  <2>2. tombstones[g] # -1 /\ now - tombstones[g] <= now - snapAt[w]
    BY <1>2, <2>1
  <2>3. now - snapAt[w] <= MaxLoad
    BY <1>2
  <2> QED BY <1>2, <2>1, <2>2, <2>3 DEF Suppressed
<1>4. ASSUME NEW g \in cached, g \notin cached' PROVE g \in Dead
  <2>1. CASE g \notin snap[w]
    BY <1>2, <2>1
  <2>2. CASE g \in Suppressed
    BY <2>2 DEF Suppressed, Dead
  <2>3. CASE g \in Malformed
    BY <1>4, <2>3
  <2> QED BY <1>1, <1>4, <2>1, <2>2, <2>3
<1> QED BY <1>1, <1>3, <1>4

LEMMA InvInit == Init => Inv
<1> SUFFICES ASSUME Init PROVE Inv
  OBVIOUS
<1>1. TypeOK
  BY TypeInit
<1>2. SnapshotsAreCovered
  BY DEF Init, SnapshotsAreCovered, Loading
<1>3. GoneStaysGone /\ OnlyTheDeadAreDropped
  BY DEF Init, GoneStaysGone, OnlyTheDeadAreDropped
<1> QED BY <1>1, <1>2, <1>3 DEF Inv

LEMMA ProvisionInv ==
  ASSUME Inv, NEW g \in Grants, Provision(g)
  PROVE  SnapshotsAreCovered' /\ GoneStaysGone'
<1> USE DEF Inv, Provision, TypeOK, cacheVars, loadVars, watchVars
<1>1. Dead \subseteq Dead' /\ Revoked \subseteq Revoked'
  BY DEF Dead, Revoked, Expired
<1> QED BY <1>1 DEF SnapshotsAreCovered, GoneStaysGone, Loading

LEMMA RevokeInv ==
  ASSUME Inv, NEW g \in Grants, Revoke(g)
  PROVE  SnapshotsAreCovered' /\ GoneStaysGone'
<1> USE DEF Inv, Revoke, TypeOK, cacheVars, loadVars
<1>1. Dead \subseteq Dead' /\ Revoked \subseteq Revoked' /\ g \in Revoked'
  BY DEF Dead, Revoked, Expired
<1>2. inbox' \subseteq Revoked'
  BY <1>1 DEF SnapshotsAreCovered
<1> QED BY <1>1, <1>2 DEF SnapshotsAreCovered, GoneStaysGone, Loading

LEMMA TickInv ==
  ASSUME Inv, Tick
  PROVE  SnapshotsAreCovered' /\ GoneStaysGone'
<1> USE GrantsAssumption, TimeAssumption
    DEF Inv, Tick, TypeOK, cacheVars, loadVars, watchVars
<1>1. Dead \subseteq Dead' /\ Revoked \subseteq Revoked'
  BY DEF Dead, Revoked, Expired
<1> QED BY <1>1 DEF SnapshotsAreCovered, GoneStaysGone, Loading

LEMMA LoadQueryInv ==
  ASSUME Inv, NEW w \in Loaders, LoadQuery(w)
  PROVE  SnapshotsAreCovered' /\ GoneStaysGone'
<1> USE TimeAssumption DEF Inv, LoadQuery, LoadMuFree, TypeOK, dbVars, cacheVars, watchVars
<1>1. \A v \in Loaders : v # w => ~Loading(v)' /\ snap'[v] = snap[v]
  BY DEF Loading
<1>2. Loading(w)' /\ snapAt'[w] = now /\ snap'[w] = ActiveRows
  BY DEF Loading, NoStamp
<1>3. Revoked' = Revoked /\ Dead' = Dead
  BY DEF Revoked, Dead, Expired
<1>4. gone \cap ActiveRows = {}
  BY DEF OnlyTheDeadAreDropped, ActiveRows, Dead, Revoked
<1>5. cached \ ActiveRows \subseteq Dead
  BY DEF SnapshotsAreCovered, ActiveRows, Dead, Revoked
<1>6. \A g \in ActiveRows : row[g] # "absent"
  BY DEF ActiveRows
<1>7. \A v \in Loaders : Loading(v)' =>
         /\ snapAt'[v] <= now'
         /\ now' - snapAt'[v] <= MaxLoad
         /\ \A g \in gone' \cap snap'[v] : tombstones'[g] >= snapAt'[v]
         /\ cached' \ snap'[v] \subseteq Dead'
  BY <1>1, <1>2, <1>3, <1>4, <1>5
<1>8. \A g \in cached' \cup UNION {snap'[v] : v \in Loaders} : row'[g] # "absent"
  BY <1>1, <1>2, <1>6 DEF SnapshotsAreCovered
<1> QED BY <1>1, <1>3, <1>7, <1>8 DEF SnapshotsAreCovered, GoneStaysGone

LEMMA LoadApplyInv ==
  ASSUME Inv, NEW w \in Loaders, LoadApply(w)
  PROVE  SnapshotsAreCovered' /\ GoneStaysGone'
<1> USE DEF Inv, LoadApply, TypeOK, dbVars
<1>1. \A v \in Loaders : ~Loading(v)'
  BY DEF SnapshotsAreCovered, Loading
<1>2. Revoked' = Revoked
  BY DEF Revoked
<1>3. \A g \in Grants : tombstones'[g] # NoStamp => g \in Revoked
  BY DEF SnapshotsAreCovered, Suppressed
<1>4. cached' \subseteq snap[w] /\ cached' \cap Malformed = {}
  OBVIOUS
<1>5. \A v \in Loaders : snap'[v] \subseteq snap[v]
  OBVIOUS
<1>6. \A g \in cached' \cup UNION {snap'[v] : v \in Loaders} : row'[g] # "absent"
  BY <1>4, <1>5 DEF SnapshotsAreCovered
<1>7. cached' \cap gone' = {}
  BY SwapIsSafe
<1> QED BY <1>1, <1>2, <1>3, <1>4, <1>6, <1>7 DEF SnapshotsAreCovered, GoneStaysGone

LEMMA LoadFailInv ==
  ASSUME Inv, NEW w \in Loaders, LoadFail(w)
  PROVE  SnapshotsAreCovered' /\ GoneStaysGone'
<1> USE DEF Inv, LoadFail, TypeOK, dbVars, cacheVars
<1>1. \A v \in Loaders : ~Loading(v)' /\ snap'[v] \subseteq snap[v]
  BY DEF SnapshotsAreCovered, Loading
<1>2. Revoked' = Revoked /\ Dead' = Dead
  BY DEF Revoked, Dead, Expired
<1> QED BY <1>1, <1>2 DEF SnapshotsAreCovered, GoneStaysGone

LEMMA RemoveInv ==
  ASSUME Inv, NEW g \in Grants, Remove(g)
  PROVE  SnapshotsAreCovered' /\ GoneStaysGone'
<1> USE DEF Inv, Remove, TypeOK, dbVars, loadVars
<1>1. Revoked' = Revoked /\ Dead' = Dead /\ g \in Revoked
  BY DEF Revoked, Dead, Expired, SnapshotsAreCovered
<1>2. \A w \in Loaders : Loading(w)' => Loading(w) /\ tombstones'[g] >= snapAt'[w]
  BY DEF Loading, SnapshotsAreCovered
<1>3. \A w \in Loaders : Loading(w)' =>
         \A h \in gone' \cap snap'[w] : tombstones'[h] >= snapAt'[w]
  BY <1>2 DEF SnapshotsAreCovered
<1> QED BY <1>1, <1>2, <1>3 DEF SnapshotsAreCovered, GoneStaysGone, Loading

\* Steps of the watch that leave the cache, the loads and the rows alone.
LEMMA WatchInv ==
  ASSUME Inv, UNCHANGED <<dbVars, cacheVars, loadVars>>, inbox' \subseteq inbox
  PROVE  SnapshotsAreCovered' /\ GoneStaysGone'
<1> USE DEF Inv, TypeOK, dbVars, cacheVars, loadVars
<1>1. Revoked' = Revoked /\ Dead' = Dead
  BY DEF Revoked, Dead, Expired
<1> QED BY <1>1 DEF SnapshotsAreCovered, GoneStaysGone, Loading

LEMMA CrashInv ==
  ASSUME Inv, Crash
  PROVE  SnapshotsAreCovered' /\ GoneStaysGone'
<1> USE DEF Inv, Crash, TypeOK, dbVars
<1>1. \A w \in Loaders : ~Loading(w)' /\ snap'[w] = {}
  BY DEF Loading
<1> QED BY <1>1 DEF SnapshotsAreCovered, GoneStaysGone

\* gone grows only by what a notification names or a snapshot shows dead.
LEMMA DroppedAreDead ==
  ASSUME Inv, [Next]_vars
  PROVE  OnlyTheDeadAreDropped'
<1> USE DEF Inv, OnlyTheDeadAreDropped
<1>1. Dead \subseteq Dead'
  BY DeadGrows
<1>2. ASSUME NEW w \in Loaders, LoadApply(w) PROVE gone' \subseteq Dead
  <2>1. gone' = gone \cup (cached \ cached')
    BY <1>2 DEF LoadApply
  <2> QED BY <1>2, <2>1, SwapIsSafe
<1>3. ASSUME NEW g \in Grants, Remove(g) PROVE gone' \subseteq Dead
  BY <1>3 DEF Remove, SnapshotsAreCovered, Dead
<1>4. ASSUME NEW g \in Grants, Provision(g) \/ Revoke(g) PROVE gone' = gone
  BY <1>4 DEF Provision, Revoke, cacheVars
<1>5. ASSUME NEW w \in Loaders, LoadQuery(w) \/ LoadFail(w) PROVE gone' = gone
  BY <1>5 DEF LoadQuery, LoadFail, cacheVars
<1>6. CASE Tick \/ Listen \/ ListenFail \/ Drop \/ NoticeDrop \/ BackoffOver \/ UNCHANGED vars
  BY <1>1, <1>6
     DEF Tick, Listen, ListenFail, Drop, NoticeDrop, BackoffOver, cacheVars, vars
<1>7. CASE Crash
  BY <1>7 DEF Crash
<1> QED BY <1>1, <1>2, <1>3, <1>4, <1>5, <1>6, <1>7 DEF Next

LEMMA InvNext == Inv /\ [Next]_vars => Inv'
<1> SUFFICES ASSUME Inv, [Next]_vars PROVE Inv'
  OBVIOUS
<1>1. TypeOK' /\ OnlyTheDeadAreDropped'
  BY TypeNext, DroppedAreDead DEF Inv
<1>2. SnapshotsAreCovered' /\ GoneStaysGone'
  <2>1. CASE \E g \in Grants : Provision(g) \/ Revoke(g) \/ Remove(g)
    BY <2>1, ProvisionInv, RevokeInv, RemoveInv
  <2>2. CASE \E w \in Loaders : LoadQuery(w) \/ LoadApply(w) \/ LoadFail(w)
    BY <2>2, LoadQueryInv, LoadApplyInv, LoadFailInv
  <2>3. CASE Tick \/ Crash
    BY <2>3, TickInv, CrashInv
  <2>4. CASE Listen \/ ListenFail \/ Drop \/ NoticeDrop \/ BackoffOver
    <3>1. UNCHANGED <<dbVars, cacheVars, loadVars>> /\ inbox' \subseteq inbox
      BY <2>4 DEF Listen, ListenFail, Drop, NoticeDrop, BackoffOver
    <3> QED BY <3>1, WatchInv
  <2>5. CASE UNCHANGED vars
    BY <2>5, WatchInv DEF vars, watchVars
  <2> QED BY <2>1, <2>2, <2>3, <2>4, <2>5 DEF Next
<1> QED BY <1>1, <1>2 DEF Inv

LEMMA Invariance == SafetySpec => []Inv
BY InvInit, InvNext, PTL DEF SafetySpec

\* A grant the broker has let go of never comes back into its cache, however
\* reloads, notifications and lost connections interleave.
THEOREM NeverResurrected == Spec => []GoneStaysGone
<1>1. Inv => GoneStaysGone
  BY DEF Inv
<1> QED BY <1>1, Invariance, PTL DEF Spec

\* The cache never lets go of a grant that is still good.
THEOREM NeverOverzealous == Spec => []OnlyTheDeadAreDropped
<1>1. Inv => OnlyTheDeadAreDropped
  BY DEF Inv
<1> QED BY <1>1, Invariance, PTL DEF Spec

\* What a load in flight could bring back has a tombstone that will stop it.
THEOREM LoadsAreCovered == Spec => []SnapshotsAreCovered
<1>1. Inv => SnapshotsAreCovered
  BY DEF Inv
<1> QED BY <1>1, Invariance, PTL DEF Spec

-------------------------------------------------------------------------------
(* The refinement                                                          *)

LEMMA ContractInit == Init => Contract!Init
BY DEF Init, Contract!Init, Dead, Revoked, Expired

\* Steps of the database and of the clock: the cache stands still.
LEMMA DieStep ==
  ASSUME Inv, [Next]_vars, UNCHANGED <<cached, gone>>
  PROVE  [Contract!Next]_(Contract!vars)
<1>1. Dead \subseteq Dead' /\ Dead' \subseteq Grants
  BY DeadGrows DEF Inv, Dead, Revoked, Expired
<1>2. PICK S : S = Dead' \ Dead
  OBVIOUS
<1>3. S \in SUBSET (Grants \ Dead) /\ Dead' = Dead \cup S
  BY <1>1, <1>2
<1>4. Contract!Die
  BY <1>3 DEF Contract!Die
<1> QED BY <1>4 DEF Contract!Next

LEMMA RefreshStep ==
  ASSUME Inv, NEW w \in Loaders, LoadApply(w)
  PROVE  Contract!Next
<1>1. Dead' = Dead
  BY DEF LoadApply, Dead, Revoked, Expired, dbVars
<1>2. cached' \in SUBSET (Grants \ gone) /\ cached \ cached' \subseteq Dead
  BY SwapIsSafe DEF LoadApply, Inv, TypeOK
<1>3. gone' = gone \cup (cached \ cached')
  BY DEF LoadApply
<1>4. Contract!Refresh
  BY <1>1, <1>2, <1>3 DEF Contract!Refresh
<1> QED BY <1>4 DEF Contract!Next

LEMMA ForgetStep ==
  ASSUME Inv, NEW g \in Grants, Remove(g)
  PROVE  Contract!Next
<1>1. Dead' = Dead /\ g \in Dead
  BY DEF Remove, Dead, Revoked, Expired, dbVars, Inv, SnapshotsAreCovered
<1>2. Contract!Forget(g)
  BY <1>1 DEF Remove, Contract!Forget
<1> QED BY <1>2 DEF Contract!Next

LEMMA RestartStep ==
  ASSUME Crash
  PROVE  Contract!Next
<1>1. Dead' = Dead
  BY DEF Crash, Dead, Revoked, Expired, dbVars
<1>2. Contract!Restart
  BY <1>1 DEF Crash, Contract!Restart
<1> QED BY <1>2 DEF Contract!Next

LEMMA ContractNext == Inv /\ [Next]_vars => [Contract!Next]_(Contract!vars)
<1> SUFFICES ASSUME Inv, [Next]_vars PROVE [Contract!Next]_(Contract!vars)
  OBVIOUS
<1>1. CASE UNCHANGED <<cached, gone>>
  BY <1>1, DieStep
<1>2. ASSUME NEW w \in Loaders, LoadApply(w) PROVE Contract!Next
  BY <1>2, RefreshStep
<1>3. ASSUME NEW g \in Grants, Remove(g) PROVE Contract!Next
  BY <1>3, ForgetStep
<1>4. CASE Crash
  BY <1>4, RestartStep
<1>5. ASSUME NEW g \in Grants, Provision(g) \/ Revoke(g) PROVE UNCHANGED <<cached, gone>>
  BY <1>5 DEF Provision, Revoke, cacheVars
<1>6. ASSUME NEW w \in Loaders, LoadQuery(w) \/ LoadFail(w) PROVE UNCHANGED <<cached, gone>>
  BY <1>6 DEF LoadQuery, LoadFail, cacheVars
<1>7. CASE Tick \/ Listen \/ ListenFail \/ Drop \/ NoticeDrop \/ BackoffOver \/ UNCHANGED vars
  <2>1. UNCHANGED <<cached, gone>>
    BY <1>7 DEF Tick, Listen, ListenFail, Drop, NoticeDrop, BackoffOver, cacheVars, vars
  <2> QED BY <1>1, <2>1
<1> QED BY <1>1, <1>2, <1>3, <1>4, <1>5, <1>6, <1>7 DEF Next

\* The cache keeps the contract its callers rely on: each of its steps is a step
\* of RevocationContract or changes nothing the contract can see.
THEOREM CacheKeepsContract == Spec => ImplementsContract
<1>1. Init => Contract!Init
  BY ContractInit
<1>2. Inv /\ [Next]_vars => [Contract!Next]_(Contract!vars)
  BY ContractNext
<1> QED BY <1>1, <1>2, Invariance, PTL
        DEF Spec, SafetySpec, ImplementsContract, Contract!Spec
===============================================================================
