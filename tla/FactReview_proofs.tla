-------------------------- MODULE FactReview_proofs ---------------------------
(***************************************************************************)
(* Proofs about FactReview, for any diffs, contents and handlers.  The     *)
(* inductive invariant adds to the safety invariants what the row locks    *)
(* guarantee while they are held (LocksHold), what stays true of rows once *)
(* they are seen (RowsStay), the order of transaction start times          *)
(* (TimesOrdered), and what an approval's duplicate check still means when *)
(* the approval commits (CheckStillMeans).                                 *)
(***************************************************************************)
EXTENDS FactReview, TLAPS

DiffLockers == {"locked", "inserted", "targetLocked"}

LocksHold ==
    /\ \A h \in Handlers : pc[h] \in DiffLockers => status[diff[h]] = "pending"
    /\ \A h, k \in Handlers :
          pc[h] \in DiffLockers /\ pc[k] \in DiffLockers /\ diff[h] = diff[k] => h = k
    /\ \A h, k \in Handlers :
          pc[h] = "targetLocked" /\ pc[k] = "targetLocked"
              /\ target[diff[h]] = target[diff[k]] => h = k
    /\ \A h \in Handlers :
          pc[h] = "targetLocked" => /\ target[diff[h]] # NoFact
                                    /\ successor[target[diff[h]]] = NoFact

RowsStay ==
    /\ \A d \in Diffs : status[d] = "none" => target[d] = NoFact
    /\ \A d \in Diffs : target[d] # NoFact => status[target[d]] = "committed"
    /\ \A h \in Handlers : pc[h] # "idle" => status[diff[h]] \notin {"none", "visible"}

TimesOrdered ==
    /\ \A d \in Diffs : validAt[d] <= clock
    /\ \A h \in Handlers : startAt[h] <= clock
    /\ \A h \in Handlers :
          pc[h] \in InTransaction /\ target[diff[h]] # NoFact
              => validAt[target[diff[h]]] <= startAt[h]

\* A fact that was replaced ends no earlier than it begins.
IntervalsOrdered ==
    \A f \in Diffs : successor[f] # NoFact => validAt[f] <= validAt[successor[f]]

CheckStillMeans ==
    \A h \in Handlers : pc[h] \in {"inserted", "targetLocked"} =>
        \A f \in Facts :
            Current(f) /\ content[f] = content[diff[h]] /\ f # target[diff[h]]
                => {f, diff[h]} \in overlapped

Inv ==
    /\ TypeOK
    /\ LocksHold
    /\ RowsStay
    /\ TimesOrdered
    /\ IntervalsOrdered
    /\ CheckStillMeans
    /\ NoLostSupersession
    /\ DuplicatesOnlyIfConcurrent

-------------------------------------------------------------------------------
(* Type correctness                                                        *)

LEMMA TypeInit == Init => TypeOK
BY FactReviewAssumption DEF Init, TypeOK, PCs

\* What Finish does to the handlers' variables is well typed.
LEMMA FinishType ==
  ASSUME TypeOK, NEW h \in Handlers, Finish(h)
  PROVE  /\ pc' \in [Handlers -> PCs]
         /\ diff' \in [Handlers -> Diffs \cup {NoDiff}]
         /\ startAt' \in [Handlers -> Nat]
         /\ clock' \in Nat
         /\ \A k \in Handlers : pc'[k] # "idle" <=> diff'[k] # NoDiff
BY DEF TypeOK, Finish, Goto, PCs

\* A handler that only moves on, inside its transaction, stays well typed.
LEMMA GotoType ==
  ASSUME TypeOK, NEW h \in Handlers, NEW l \in InTransaction, pc[h] # "idle",
         Goto(h, l), UNCHANGED <<diff, startAt, clock>>
  PROVE  /\ pc' \in [Handlers -> PCs]
         /\ diff' \in [Handlers -> Diffs \cup {NoDiff}]
         /\ startAt' \in [Handlers -> Nat]
         /\ clock' \in Nat
         /\ \A k \in Handlers : pc'[k] # "idle" <=> diff'[k] # NoDiff
BY DEF TypeOK, Goto, PCs, InTransaction

LEMMA TypeNext == TypeOK /\ [Next]_vars => TypeOK'
<1> SUFFICES ASSUME TypeOK, [Next]_vars PROVE TypeOK'
  OBVIOUS
<1> USE FactReviewAssumption
<1> DEFINE Rows == <<status, content, target, factVars>>
<1>1. ASSUME NEW d \in Diffs,
             \/ \E t \in Diffs \cup {NoFact} : CheckTarget(d, t)
             \/ InsertStagedDiff(d) \/ Smuggle(d) \/ RejectDiff(d)
      PROVE  TypeOK'
  BY <1>1 DEF TypeOK, CheckTarget, InsertStagedDiff, Smuggle, RejectDiff,
              factVars, handlerVars
<1>2. ASSUME NEW h \in Handlers, NEW d \in Diffs, GetStagedDiff(h, d) PROVE TypeOK'
  BY <1>2 DEF TypeOK, GetStagedDiff, Goto, PCs, factVars
<1>3. ASSUME NEW h \in Handlers, Begin(h) PROVE TypeOK'
  BY <1>3 DEF TypeOK, Begin, Goto, PCs, InTransaction, factVars
<1>4. ASSUME NEW h \in Handlers,
             \/ Finish(h)
             \/ /\ pc[h] # "idle"
                /\ \E l \in InTransaction : Goto(h, l)
                /\ UNCHANGED <<diff, startAt, clock>>,
             UNCHANGED Rows
      PROVE  TypeOK'
  BY <1>4, FinishType, GotoType DEF TypeOK, factVars
<1>5. ASSUME NEW h \in Handlers, LockDiff(h) PROVE TypeOK'
  BY <1>4, <1>5 DEF LockDiff, InTransaction
<1>6. ASSUME NEW h \in Handlers, InsertFact(h) PROVE TypeOK'
  BY <1>4, <1>6 DEF InsertFact, InTransaction
<1>7. ASSUME NEW h \in Handlers, LockTargetFact(h) PROVE TypeOK'
  BY <1>4, <1>7 DEF LockTargetFact, InTransaction
<1>8. ASSUME NEW h \in Handlers, Fail(h) PROVE TypeOK'
  BY <1>4, <1>8 DEF Fail
<1>9. ASSUME NEW h \in Handlers, Commit(h) PROVE TypeOK'
  <2>1. diff[h] \in Diffs /\ startAt[h] \in Nat /\ Finish(h)
    BY <1>9 DEF Commit, TypeOK
  <2>2. /\ status' \in [Diffs -> {"none", "visible", "pending", "rejected", "committed"}]
        /\ validAt' \in [Diffs -> Nat]
        /\ successor' \in [Diffs -> Diffs \cup {NoFact}]
        /\ UNCHANGED <<content, target>>
    BY <1>9, <2>1 DEF Commit, TypeOK
  <2>3. overlapped' \subseteq SUBSET Diffs
    <3>1. \A k \in Handlers : pc[k] \in InTransaction => diff[k] \in Diffs
      BY DEF TypeOK, InTransaction
    <3> QED BY <1>9, <2>1, <3>1 DEF Commit, TypeOK
  <2> QED BY <2>1, <2>2, <2>3, FinishType DEF TypeOK
<1>10. CASE UNCHANGED vars
  BY <1>10 DEF TypeOK, vars, factVars, handlerVars
<1> QED BY <1>1, <1>2, <1>3, <1>5, <1>6, <1>7, <1>8, <1>9, <1>10 DEF Next

\* Every variable keeps its type, whatever the diffs, contents and handlers.
THEOREM TypeCorrect == Spec => []TypeOK
<1>1. SafetySpec => []TypeOK
  BY TypeInit, TypeNext, PTL DEF SafetySpec
<1> QED BY <1>1, PTL DEF Spec

-------------------------------------------------------------------------------
(* The safety invariants                                                   *)

LEMMA InvInit == Init => Inv
<1> SUFFICES ASSUME Init PROVE Inv
  OBVIOUS
<1>1. TypeOK
  BY TypeInit
<1>2. LocksHold /\ CheckStillMeans
  BY DEF Init, LocksHold, CheckStillMeans, DiffLockers
<1>3. RowsStay /\ TimesOrdered
  BY DEF Init, RowsStay, TimesOrdered, InTransaction
<1>4. NoLostSupersession /\ DuplicatesOnlyIfConcurrent /\ IntervalsOrdered
  BY FactReviewAssumption
     DEF Init, NoLostSupersession, DuplicatesOnlyIfConcurrent, IntervalsOrdered, Facts
<1> QED BY <1>1, <1>2, <1>3, <1>4 DEF Inv

\* The steps of Next, sorted by what they may disturb: one diff's row, one
\* handler's place, or both and the fact table.
RowStep(d) ==
    \/ \E t \in Diffs \cup {NoFact} : CheckTarget(d, t)
    \/ InsertStagedDiff(d)
    \/ Smuggle(d)
    \/ RejectDiff(d)

HandlerStep(h) ==
    \/ \E d \in Diffs : GetStagedDiff(h, d)
    \/ Begin(h)
    \/ LockDiff(h)
    \/ InsertFact(h)
    \/ LockTargetFact(h)
    \/ Fail(h)

LEMMA NextCases ==
  ASSUME [Next]_vars
  PROVE  \/ \E d \in Diffs : RowStep(d)
         \/ \E h \in Handlers : HandlerStep(h) \/ Commit(h)
         \/ UNCHANGED vars
BY DEF Next, RowStep, HandlerStep

\* What a row step leaves alone, and what it may do to its own row.
LEMMA RowStepFrame ==
  ASSUME TypeOK, NEW d \in Diffs, RowStep(d)
  PROVE  /\ UNCHANGED <<content, successor, validAt, overlapped, pc, diff, startAt, clock>>
         /\ \A e \in Diffs \ {d} : status'[e] = status[e] /\ target'[e] = target[e]
         /\ status[d] \in {"none", "visible", "pending"}
         /\ status'[d] \in {"visible", "pending", "rejected"}
         /\ status[d] # "none" => target'[d] = target[d]
         /\ status[d] = "pending" => status'[d] = "rejected" /\ ~DiffLocked(d)
         /\ status'[d] = "rejected" => status[d] = "pending"
         /\ target'[d] # target[d] => target'[d] = NoFact \/ Current(target'[d])
BY DEF TypeOK, RowStep, CheckTarget, InsertStagedDiff, Smuggle, RejectDiff,
       factVars, handlerVars, Current

\* What a handler step leaves alone: all rows, and every other handler.
LEMMA HandlerStepFrame ==
  ASSUME TypeOK, NEW h \in Handlers, HandlerStep(h)
  PROVE  /\ UNCHANGED <<status, content, target, successor, validAt, overlapped>>
         /\ \A k \in Handlers \ {h} :
               pc'[k] = pc[k] /\ diff'[k] = diff[k] /\ startAt'[k] = startAt[k]
         /\ clock' \in Nat /\ clock <= clock'
         /\ \/ pc'[h] = "idle" /\ startAt'[h] = 0
            \/ /\ pc'[h] = "read" /\ startAt'[h] = startAt[h]
               /\ status[diff'[h]] \notin {"none", "visible"}
            \/ pc[h] = "read" /\ pc'[h] = "begun" /\ diff'[h] = diff[h] /\ startAt'[h] = clock'
            \/ /\ pc[h] \in InTransaction /\ diff'[h] = diff[h] /\ startAt'[h] = startAt[h]
               /\ \/ LockDiff(h) /\ pc'[h] = "locked"
                  \/ InsertFact(h) /\ pc'[h] = "inserted"
                  \/ LockTargetFact(h) /\ pc'[h] = "targetLocked"
<1> USE DEF TypeOK, Goto, factVars
<1>0. ASSUME Finish(h), UNCHANGED <<status, content, target, factVars>>
      PROVE  /\ UNCHANGED <<status, content, target, successor, validAt, overlapped>>
             /\ \A k \in Handlers \ {h} :
                   pc'[k] = pc[k] /\ diff'[k] = diff[k] /\ startAt'[k] = startAt[k]
             /\ clock' \in Nat /\ clock <= clock'
             /\ pc'[h] = "idle" /\ startAt'[h] = 0
  BY <1>0 DEF Finish
<1>1. CASE \E d \in Diffs : GetStagedDiff(h, d)
  BY <1>1 DEF GetStagedDiff
<1>2. CASE Begin(h)
  BY <1>2 DEF Begin
<1>3. CASE LockDiff(h)
  BY <1>0, <1>3 DEF LockDiff, InTransaction
<1>4. CASE InsertFact(h)
  BY <1>0, <1>4 DEF InsertFact, InTransaction
<1>5. CASE LockTargetFact(h)
  BY <1>0, <1>5 DEF LockTargetFact, InTransaction
<1>6. CASE Fail(h)
  BY <1>0, <1>6 DEF Fail
<1> QED BY <1>1, <1>2, <1>3, <1>4, <1>5, <1>6 DEF HandlerStep

\* What Commit does, given what the locks have kept true for it.
LEMMA CommitFrame ==
  ASSUME Inv, NEW h \in Handlers, Commit(h)
  PROVE  /\ diff[h] \in Diffs /\ status[diff[h]] = "pending"
         /\ pc[h] \in {"inserted", "targetLocked"}
         /\ status' = [status EXCEPT ![diff[h]] = "committed"]
         /\ validAt' = [validAt EXCEPT ![diff[h]] = startAt[h]]
         /\ \/ target[diff[h]] = NoFact /\ successor' = successor
            \/ /\ pc[h] = "targetLocked"
               /\ target[diff[h]] \in Diffs /\ successor[target[diff[h]]] = NoFact
               /\ successor' = [successor EXCEPT ![target[diff[h]]] = diff[h]]
         /\ pc' = [pc EXCEPT ![h] = "idle"]
         /\ diff' = [diff EXCEPT ![h] = NoDiff]
         /\ startAt' = [startAt EXCEPT ![h] = 0]
         /\ UNCHANGED <<content, target, clock>>
         /\ overlapped \subseteq overlapped'
         /\ \A k \in Handlers \ {h} :
               pc[k] \in InTransaction => {diff[h], diff[k]} \in overlapped'
<1> USE DEF Inv, TypeOK, Commit, Finish, Goto
<1>1. diff[h] \in Diffs /\ pc[h] \in {"inserted", "targetLocked"}
  OBVIOUS
<1>2. status[diff[h]] = "pending"
  BY <1>1 DEF LocksHold, DiffLockers
<1>3. \/ target[diff[h]] = NoFact /\ successor' = successor
      \/ /\ pc[h] = "targetLocked"
         /\ target[diff[h]] \in Diffs /\ successor[target[diff[h]]] = NoFact
         /\ successor' = [successor EXCEPT ![target[diff[h]]] = diff[h]]
  BY <1>1 DEF LocksHold
<1>4. /\ overlapped \subseteq overlapped'
      /\ \A k \in Handlers \ {h} :
            pc[k] \in InTransaction => {diff[h], diff[k]} \in overlapped'
  OBVIOUS
<1> QED BY <1>1, <1>2, <1>3, <1>4

\* Handlers in a place that holds something are handlers of some diff.
LEMMA Placed ==
  ASSUME TypeOK, NEW h \in Handlers, pc[h] # "idle"
  PROVE  diff[h] \in Diffs
BY DEF TypeOK

LEMMA LocksNext == Inv /\ TypeOK' /\ [Next]_vars => LocksHold'
<1> SUFFICES ASSUME Inv, TypeOK', [Next]_vars PROVE LocksHold'
  OBVIOUS
<1> USE FactReviewAssumption DEF LocksHold
<1>1. ASSUME NEW d \in Diffs, RowStep(d) PROVE LocksHold'
  <2>1. \A h \in Handlers : pc[h] \in DiffLockers => diff[h] \in Diffs \ {d}
    <3> SUFFICES ASSUME NEW h \in Handlers, pc[h] \in DiffLockers PROVE diff[h] # d
      BY Placed DEF Inv, DiffLockers
    <3>1. CASE status[d] # "pending"
      BY <3>1 DEF Inv
    <3>2. CASE status[d] = "pending"
      BY <1>1, <3>2, RowStepFrame DEF Inv, DiffLocked, DiffLockers
    <3> QED BY <3>1, <3>2
  <2>2. \A h \in Handlers : pc[h] \in DiffLockers =>
           status'[diff[h]] = status[diff[h]] /\ target'[diff[h]] = target[diff[h]]
    BY <1>1, <2>1, RowStepFrame DEF Inv
  <2>3. UNCHANGED <<pc, diff, successor>>
    BY <1>1, RowStepFrame DEF Inv
  <2> QED BY <2>2, <2>3 DEF Inv, DiffLockers
<1>2. ASSUME NEW h \in Handlers, HandlerStep(h) PROVE LocksHold'
  <2> DEFINE Others == \A k \in Handlers \ {h} :
                          pc'[k] = pc[k] /\ diff'[k] = diff[k]
  <2>1. Others /\ UNCHANGED <<status, target, successor>>
    BY <1>2, HandlerStepFrame DEF Inv
  <2>2. CASE pc'[h] \notin DiffLockers
    BY <2>1, <2>2 DEF Inv, DiffLockers
  <2>3. CASE LockDiff(h) /\ pc'[h] = "locked" /\ diff'[h] = diff[h]
    <3>1. status[diff[h]] = "pending" /\ ~DiffLocked(diff[h])
      BY <2>3 DEF LockDiff, Finish, Goto, Inv, TypeOK
    <3>2. \A k \in Handlers : pc[k] \in DiffLockers => diff[k] # diff[h]
      BY <3>1 DEF DiffLocked, DiffLockers
    <3> QED BY <2>1, <2>3, <3>1, <3>2 DEF Inv, DiffLockers
  <2>4. CASE InsertFact(h) /\ pc'[h] = "inserted" /\ diff'[h] = diff[h]
    <3>1. pc[h] = "locked"
      BY <2>4 DEF InsertFact
    <3> QED BY <2>1, <2>4, <3>1 DEF Inv, DiffLockers
  <2>5. CASE LockTargetFact(h) /\ pc'[h] = "targetLocked" /\ diff'[h] = diff[h]
    <3>1. /\ pc[h] = "inserted"
          /\ target[diff[h]] # NoFact
          /\ ~FactLocked(target[diff[h]])
          /\ successor[target[diff[h]]] = NoFact
      BY <2>5 DEF LockTargetFact, Finish, Goto, Inv, TypeOK
    <3>2. \A k \in Handlers : pc[k] = "targetLocked" => target[diff[k]] # target[diff[h]]
      BY <3>1 DEF FactLocked
    <3> QED BY <2>1, <2>5, <3>1, <3>2 DEF Inv, DiffLockers
  <2> QED BY <1>2, <2>2, <2>3, <2>4, <2>5, HandlerStepFrame DEF Inv, DiffLockers
<1>3. ASSUME NEW h \in Handlers, Commit(h) PROVE LocksHold'
  <2>1. \A k \in Handlers \ {h} : /\ pc'[k] = pc[k] /\ diff'[k] = diff[k]
                                  /\ pc[k] \in DiffLockers => diff[k] \in Diffs \ {diff[h]}
    BY <1>3, CommitFrame, Placed DEF Inv, TypeOK, DiffLockers
  <2>2. pc'[h] = "idle" /\ target' = target
    BY <1>3, CommitFrame DEF Inv, TypeOK
  <2>3. \A k \in Handlers \ {h} : pc[k] \in DiffLockers => status'[diff[k]] = status[diff[k]]
    BY <1>3, <2>1, CommitFrame DEF Inv, TypeOK
  <2>4. \A k \in Handlers \ {h} : pc[k] = "targetLocked" =>
           successor'[target[diff[k]]] = successor[target[diff[k]]]
    <3> SUFFICES ASSUME NEW k \in Handlers \ {h}, pc[k] = "targetLocked"
                 PROVE  successor'[target[diff[k]]] = successor[target[diff[k]]]
      OBVIOUS
    <3>1. pc[h] = "targetLocked" => target[diff[k]] # target[diff[h]]
      BY DEF Inv
    <3>2. target[diff[k]] \in Diffs
      BY <2>1 DEF Inv, TypeOK, DiffLockers
    <3> QED BY <1>3, <3>1, <3>2, CommitFrame DEF Inv, TypeOK
  <2> QED BY <2>1, <2>2, <2>3, <2>4 DEF Inv, DiffLockers
<1>4. CASE UNCHANGED vars
  BY <1>4 DEF Inv, DiffLockers, vars, factVars, handlerVars
<1> QED BY <1>1, <1>2, <1>3, <1>4, NextCases

LEMMA RowsNext == Inv /\ TypeOK' /\ [Next]_vars => RowsStay'
<1> SUFFICES ASSUME Inv, TypeOK', [Next]_vars PROVE RowsStay'
  OBVIOUS
<1> USE FactReviewAssumption DEF Inv, RowsStay
<1>1. ASSUME NEW d \in Diffs, RowStep(d) PROVE RowsStay'
  <2>1. \A e \in Diffs : status[e] = "committed" => status'[e] = "committed"
    BY <1>1, RowStepFrame
  <2>2. \A e \in Diffs : target'[e] # NoFact => status'[target'[e]] = "committed"
    <3> SUFFICES ASSUME NEW e \in Diffs, target'[e] # NoFact
                 PROVE  target'[e] \in Diffs /\ status[target'[e]] = "committed"
      BY <2>1
    <3>1. CASE target'[e] = target[e]
      BY <3>1 DEF TypeOK
    <3>2. CASE target'[e] # target[e]
      BY <1>1, <3>2, RowStepFrame DEF Current, Facts
    <3> QED BY <3>1, <3>2
  <2>3. \A e \in Diffs : status'[e] = "none" => target'[e] = NoFact
    BY <1>1, RowStepFrame
  <2>4. \A h \in Handlers : pc'[h] # "idle" => status'[diff'[h]] \notin {"none", "visible"}
    <3> SUFFICES ASSUME NEW h \in Handlers, pc[h] # "idle"
                 PROVE  status'[diff[h]] \notin {"none", "visible"}
      BY <1>1, RowStepFrame
    <3> QED BY <1>1, RowStepFrame, Placed
  <2> QED BY <2>2, <2>3, <2>4
<1>2. ASSUME NEW h \in Handlers, HandlerStep(h) PROVE RowsStay'
  <2>1. UNCHANGED <<status, target>>
    BY <1>2, HandlerStepFrame
  <2>2. \A k \in Handlers : pc'[k] # "idle" => status[diff'[k]] \notin {"none", "visible"}
    BY <1>2, HandlerStepFrame DEF InTransaction
  <2> QED BY <2>1, <2>2
<1>3. ASSUME NEW h \in Handlers, Commit(h) PROVE RowsStay'
  <2>1. target' = target /\ \A e \in Diffs : status'[e] \in {status[e], "committed"}
    BY <1>3, CommitFrame DEF TypeOK
  <2>2. \A k \in Handlers : pc'[k] # "idle" =>
           pc[k] # "idle" /\ diff'[k] = diff[k] /\ diff[k] \in Diffs
    BY <1>3, CommitFrame, Placed DEF TypeOK
  <2> QED BY <2>1, <2>2 DEF TypeOK
<1>4. CASE UNCHANGED vars
  BY <1>4 DEF vars, handlerVars
<1> QED BY <1>1, <1>2, <1>3, <1>4, NextCases

LEMMA TimesNext == Inv /\ TypeOK' /\ [Next]_vars => TimesOrdered'
<1> SUFFICES ASSUME Inv, TypeOK', [Next]_vars PROVE TimesOrdered'
  OBVIOUS
<1> USE FactReviewAssumption DEF Inv, TimesOrdered
\* Once its handler has seen a diff, the fact it corrects is settled.
<1>0. \A h \in Handlers : pc[h] # "idle" =>
         diff[h] \in Diffs /\ status[diff[h]] \notin {"none", "visible"}
  BY Placed DEF RowsStay
<1>1. ASSUME NEW d \in Diffs, RowStep(d) PROVE TimesOrdered'
  <2>1. UNCHANGED <<validAt, startAt, clock, pc, diff>>
    BY <1>1, RowStepFrame
  <2>2. \A h \in Handlers : pc[h] \in InTransaction => target'[diff[h]] = target[diff[h]]
    BY <1>0, <1>1, RowStepFrame DEF InTransaction
  <2> QED BY <2>1, <2>2
<1>2. ASSUME NEW h \in Handlers, HandlerStep(h) PROVE TimesOrdered'
  <2>1. UNCHANGED <<target, validAt>> /\ clock \in Nat /\ clock' \in Nat /\ clock <= clock'
    BY <1>2, HandlerStepFrame DEF TypeOK
  <2>2. (\A d \in Diffs : validAt'[d] <= clock') /\ (\A k \in Handlers : startAt[k] <= clock')
    BY <2>1 DEF TypeOK
  <2>3. \A k \in Handlers : startAt'[k] <= clock'
    BY <1>2, <2>1, <2>2, HandlerStepFrame
  <2>4. ASSUME NEW k \in Handlers, pc'[k] \in InTransaction, target[diff'[k]] # NoFact
        PROVE  validAt[target[diff'[k]]] <= startAt'[k]
    <3>1. CASE k # h
      BY <1>2, <2>4, <3>1, HandlerStepFrame
    <3>2. CASE k = h /\ pc[h] = "read" /\ diff'[h] = diff[h] /\ startAt'[h] = clock'
      <4>1. target[diff[h]] \in Diffs
        BY <1>0, <2>4, <3>2 DEF TypeOK
      <4> QED BY <2>1, <2>2, <3>2, <4>1
    <3>3. CASE /\ k = h /\ pc[h] \in InTransaction
               /\ diff'[h] = diff[h] /\ startAt'[h] = startAt[h]
      BY <2>4, <3>3
    <3> QED BY <1>2, <2>4, <3>1, <3>2, <3>3, HandlerStepFrame DEF InTransaction
  <2> QED BY <2>1, <2>2, <2>3, <2>4
<1>3. ASSUME NEW h \in Handlers, Commit(h) PROVE TimesOrdered'
  <2>1. UNCHANGED <<clock, target>>
    BY <1>3, CommitFrame
  <2>2. /\ validAt' = [validAt EXCEPT ![diff[h]] = startAt[h]]
        /\ startAt' = [startAt EXCEPT ![h] = 0]
        /\ status[diff[h]] = "pending"
    BY <1>3, CommitFrame
  <2>3. \A k \in Handlers : pc'[k] \in InTransaction =>
           k # h /\ pc'[k] = pc[k] /\ diff'[k] = diff[k] /\ diff[k] \in Diffs
    BY <1>0, <1>3, CommitFrame DEF TypeOK, InTransaction
  <2>4. ASSUME NEW k \in Handlers, pc'[k] \in InTransaction, target[diff[k]] # NoFact
        PROVE  validAt'[target[diff[k]]] <= startAt'[k]
    <3>1. target[diff[k]] \in Diffs /\ status[target[diff[k]]] = "committed"
      BY <2>3, <2>4 DEF RowsStay, TypeOK
    <3>2. validAt'[target[diff[k]]] = validAt[target[diff[k]]]
      BY <2>2, <3>1 DEF TypeOK
    <3> QED BY <2>2, <2>3, <2>4, <3>2 DEF TypeOK
  <2>5. (\A d \in Diffs : validAt'[d] <= clock) /\ (\A k \in Handlers : startAt'[k] <= clock)
    BY <2>2 DEF TypeOK
  <2> QED BY <2>1, <2>3, <2>4, <2>5
<1>4. CASE UNCHANGED vars
  BY <1>4 DEF vars, factVars, handlerVars
<1> QED BY <1>1, <1>2, <1>3, <1>4, NextCases

LEMMA CheckNext == Inv /\ TypeOK' /\ [Next]_vars => CheckStillMeans'
<1> SUFFICES ASSUME Inv, TypeOK', [Next]_vars PROVE CheckStillMeans'
  OBVIOUS
<1> USE FactReviewAssumption DEF Inv, CheckStillMeans
<1>1. ASSUME NEW d \in Diffs, RowStep(d) PROVE CheckStillMeans'
  <2>1. Facts' = Facts /\ UNCHANGED <<content, successor, overlapped, pc, diff>>
    BY <1>1, RowStepFrame DEF Facts
  <2>2. \A h \in Handlers : pc[h] \in {"inserted", "targetLocked"} =>
           target'[diff[h]] = target[diff[h]]
    BY <1>1, RowStepFrame, Placed DEF RowsStay
  <2> QED BY <2>1, <2>2 DEF Current
<1>2. ASSUME NEW h \in Handlers, HandlerStep(h) PROVE CheckStillMeans'
  <2>1. Facts' = Facts /\ UNCHANGED <<content, successor, overlapped, target>>
    BY <1>2, HandlerStepFrame DEF Facts
  <2>2. ASSUME NEW k \in Handlers, pc'[k] \in {"inserted", "targetLocked"},
               NEW f \in Facts, Current(f),
               content[f] = content[diff'[k]], f # target[diff'[k]]
        PROVE  {f, diff'[k]} \in overlapped
    <3>1. CASE k # h
      BY <1>2, <2>2, <3>1, HandlerStepFrame
    <3>2. CASE k = h /\ InsertFact(h) /\ pc'[h] = "inserted" /\ diff'[h] = diff[h]
      <4>1. ~HasActiveDuplicateContent(diff[h])
        BY <3>2 DEF InsertFact, Finish, Goto, TypeOK
      <4> QED BY <2>2, <3>2, <4>1 DEF HasActiveDuplicateContent
    <3>3. CASE k = h /\ LockTargetFact(h) /\ pc'[h] = "targetLocked" /\ diff'[h] = diff[h]
      BY <2>2, <3>3 DEF LockTargetFact
    <3> QED BY <1>2, <2>2, <3>1, <3>2, <3>3, HandlerStepFrame
  <2> QED BY <2>1, <2>2 DEF Current
<1>3. ASSUME NEW h \in Handlers, Commit(h) PROVE CheckStillMeans'
  <2>1. ASSUME NEW k \in Handlers, pc'[k] \in {"inserted", "targetLocked"},
               NEW f \in Facts', Current(f)',
               content[f] = content[diff'[k]], f # target[diff'[k]]
        PROVE  {f, diff'[k]} \in overlapped'
    <3>1. k # h /\ pc'[k] = pc[k] /\ diff'[k] = diff[k] /\ pc[k] \in InTransaction
      BY <1>3, <2>1, CommitFrame DEF TypeOK, InTransaction
    <3>2. CASE f = diff[h]
      BY <1>3, <3>1, <3>2, CommitFrame
    <3>3. CASE f # diff[h]
      <4>1. f \in Facts /\ Current(f)
        BY <1>3, <2>1, <3>3, CommitFrame DEF Facts, Current, TypeOK
      <4>2. {f, diff[k]} \in overlapped
        BY <2>1, <3>1, <4>1
      <4> QED BY <1>3, <3>1, <4>2, CommitFrame
    <3> QED BY <3>2, <3>3
  <2>2. UNCHANGED <<content, target>>
    BY <1>3, CommitFrame
  <2> QED BY <2>1, <2>2
<1>4. CASE UNCHANGED vars
  BY <1>4 DEF vars, factVars, handlerVars, Facts, Current
<1> QED BY <1>1, <1>2, <1>3, <1>4, NextCases

LEMMA SupersessionNext == Inv /\ TypeOK' /\ [Next]_vars => NoLostSupersession'
<1> SUFFICES ASSUME Inv, TypeOK', [Next]_vars PROVE NoLostSupersession'
  OBVIOUS
<1> USE FactReviewAssumption DEF Inv, NoLostSupersession, Facts
<1>1. ASSUME NEW d \in Diffs, RowStep(d) PROVE NoLostSupersession'
  <2>1. /\ successor' = successor
        /\ \A e \in Diffs : e # d => status'[e] = status[e] /\ target'[e] = target[e]
        /\ status[d] # "committed" /\ status'[d] # "committed"
    BY <1>1, RowStepFrame
  <2> QED BY <2>1
<1>2. ASSUME NEW h \in Handlers, HandlerStep(h) PROVE NoLostSupersession'
  BY <1>2, HandlerStepFrame
<1>3. ASSUME NEW h \in Handlers, Commit(h) PROVE NoLostSupersession'
  <2> SUFFICES ASSUME NEW f \in Diffs, NEW d \in Diffs
               PROVE  successor'[f] = d <=> status'[d] = "committed" /\ target[d] = f
    BY <1>3, CommitFrame
  <2>1. /\ diff[h] \in Diffs /\ status[diff[h]] = "pending"
        /\ status'[d] = IF d = diff[h] THEN "committed" ELSE status[d]
    BY <1>3, CommitFrame DEF TypeOK
  <2>2. CASE target[diff[h]] = NoFact /\ successor' = successor
    BY <2>1, <2>2
  <2>3. CASE /\ target[diff[h]] \in Diffs /\ successor[target[diff[h]]] = NoFact
             /\ successor' = [successor EXCEPT ![target[diff[h]]] = diff[h]]
    <3>1. successor'[f] = IF f = target[diff[h]] THEN diff[h] ELSE successor[f]
      BY <2>3 DEF TypeOK
    <3> QED BY <2>1, <2>3, <3>1
  <2> QED BY <1>3, <2>2, <2>3, CommitFrame
<1>4. CASE UNCHANGED vars
  BY <1>4 DEF vars, factVars
<1> QED BY <1>1, <1>2, <1>3, <1>4, NextCases

LEMMA IntervalsNext == Inv /\ TypeOK' /\ [Next]_vars => IntervalsOrdered'
<1> SUFFICES ASSUME Inv, TypeOK', [Next]_vars PROVE IntervalsOrdered'
  OBVIOUS
<1> USE FactReviewAssumption DEF Inv, IntervalsOrdered
<1>1. ASSUME NEW d \in Diffs, RowStep(d) PROVE IntervalsOrdered'
  BY <1>1, RowStepFrame
<1>2. ASSUME NEW h \in Handlers, HandlerStep(h) PROVE IntervalsOrdered'
  BY <1>2, HandlerStepFrame
<1>3. ASSUME NEW h \in Handlers, Commit(h) PROVE IntervalsOrdered'
  <2> DEFINE d == diff[h]
  <2>1. /\ d \in Diffs /\ status[d] = "pending"
        /\ validAt' = [validAt EXCEPT ![d] = startAt[h]]
    BY <1>3, CommitFrame
  \* A fact that was replaced, and its successor, are committed: neither is d.
  <2>2. ASSUME NEW f \in Diffs, successor[f] # NoFact
        PROVE  f # d /\ successor[f] \in Diffs /\ successor[f] # d
    <3>1. successor[f] \in Diffs
      BY <2>2 DEF TypeOK
    <3>2. status[successor[f]] = "committed" /\ target[successor[f]] = f
      BY <3>1 DEF NoLostSupersession, Facts
    <3>3. status[f] = "committed"
      BY <3>1, <3>2 DEF RowsStay
    <3> QED BY <2>1, <3>1, <3>2, <3>3
  <2>3. ASSUME NEW f \in Diffs, successor[f] # NoFact
        PROVE  validAt'[f] <= validAt'[successor[f]]
    BY <2>1, <2>2, <2>3 DEF TypeOK
  <2>4. CASE target[d] = NoFact /\ successor' = successor
    BY <2>3, <2>4
  <2>5. CASE /\ target[d] \in Diffs /\ successor[target[d]] = NoFact
             /\ successor' = [successor EXCEPT ![target[d]] = d]
    <3>1. target[d] # d
      BY <2>1, <2>5 DEF RowsStay
    <3>2. validAt[target[d]] <= startAt[h]
      BY <1>3, <2>1, <2>5, CommitFrame DEF TimesOrdered, InTransaction
    <3>3. validAt'[target[d]] <= validAt'[d]
      BY <2>1, <2>5, <3>1, <3>2 DEF TypeOK
    <3>4. \A f \in Diffs : successor'[f] = IF f = target[d] THEN d ELSE successor[f]
      BY <2>5 DEF TypeOK
    <3> QED BY <2>3, <3>3, <3>4
  <2> QED BY <1>3, <2>4, <2>5, CommitFrame
<1>4. CASE UNCHANGED vars
  BY <1>4 DEF vars, factVars
<1> QED BY <1>1, <1>2, <1>3, <1>4, NextCases

LEMMA DuplicatesNext == Inv /\ TypeOK' /\ [Next]_vars => DuplicatesOnlyIfConcurrent'
<1> SUFFICES ASSUME Inv, TypeOK', [Next]_vars PROVE DuplicatesOnlyIfConcurrent'
  OBVIOUS
<1> USE FactReviewAssumption DEF Inv, DuplicatesOnlyIfConcurrent, Facts, Current
<1>1. ASSUME NEW d \in Diffs, RowStep(d) PROVE DuplicatesOnlyIfConcurrent'
  BY <1>1, RowStepFrame
<1>2. ASSUME NEW h \in Handlers, HandlerStep(h) PROVE DuplicatesOnlyIfConcurrent'
  BY <1>2, HandlerStepFrame
<1>3. ASSUME NEW h \in Handlers, Commit(h) PROVE DuplicatesOnlyIfConcurrent'
  <2>1. ASSUME NEW f \in Facts', Current(f)', f # diff[h]
        PROVE  f \in Facts /\ Current(f)
    BY <1>3, <2>1, CommitFrame DEF TypeOK
  \* The new fact beside one of its content: its duplicate check still means
  \* something at its commit.
  <2>2. ASSUME NEW f \in Facts', Current(f)', f # diff[h], content[f] = content[diff[h]]
        PROVE  {f, diff[h]} \in overlapped'
    <3>1. f # target[diff[h]]
      BY <1>3, <2>2, CommitFrame DEF TypeOK
    <3>2. {f, diff[h]} \in overlapped
      BY <1>3, <2>1, <2>2, <3>1, CommitFrame DEF CheckStillMeans
    <3> QED BY <1>3, <3>2, CommitFrame
  <2>3. ASSUME NEW f \in Facts', NEW g \in Facts', f # g, Current(f)', Current(g)',
               content[f] = content[g]
        PROVE  {f, g} \in overlapped'
    <3>1. CASE f = diff[h]
      <4>1. {g, diff[h]} = {f, g}
        BY <3>1
      <4> QED BY <2>2, <2>3, <3>1, <4>1
    <3>2. CASE g = diff[h]
      BY <2>2, <2>3, <3>2
    <3>3. CASE f # diff[h] /\ g # diff[h]
      <4>1. {f, g} \in overlapped
        BY <2>1, <2>3, <3>3
      <4> QED BY <1>3, <4>1, CommitFrame
    <3> QED BY <3>1, <3>2, <3>3
  <2> QED BY <1>3, <2>3, CommitFrame
<1>4. CASE UNCHANGED vars
  BY <1>4 DEF vars, factVars
<1> QED BY <1>1, <1>2, <1>3, <1>4, NextCases

LEMMA InvNext == Inv /\ [Next]_vars => Inv'
BY TypeNext, LocksNext, RowsNext, TimesNext, IntervalsNext, CheckNext, SupersessionNext,
   DuplicatesNext
   DEF Inv

LEMMA Invariance == SafetySpec => []Inv
BY InvInit, InvNext, PTL DEF SafetySpec

\* However approvals interleave, a committed correction is the successor of the
\* fact it corrects, and only it is.
THEOREM NoSupersessionIsLost == Spec => []NoLostSupersession
<1>1. Inv => NoLostSupersession
  BY DEF Inv
<1>2. QED BY <1>1, Invariance, PTL DEF Spec

\* Two current facts of one content come from approvals that overlapped.
THEOREM DuplicatesAreConcurrent == Spec => []DuplicatesOnlyIfConcurrent
<1>1. Inv => DuplicatesOnlyIfConcurrent
  BY DEF Inv
<1>2. QED BY <1>1, Invariance, PTL DEF Spec

\* The CHECK on invalid_at never refuses an approval.
THEOREM ValidityIsOrdered == Spec => []ValidityNeverRunsBackwards
<1>1. Inv => ValidityNeverRunsBackwards
  BY DEF Inv, TimesOrdered, IntervalsOrdered, LocksHold, ValidityNeverRunsBackwards,
         InTransaction
<1>2. QED BY <1>1, Invariance, PTL DEF Spec

-------------------------------------------------------------------------------
(* The refinement                                                          *)

LEMMA ContractInit == Init => Contract!Init
BY DEF Init, Contract!Init, Stage, StagedTarget

\* A decision's effect on the contract's state, and everything else's lack of one.
LEMMA ContractNext == Inv /\ TypeOK' /\ [Next]_vars => [Contract!Next]_(Contract!vars)
<1> SUFFICES ASSUME Inv, TypeOK', [Next]_vars PROVE [Contract!Next]_(Contract!vars)
  OBVIOUS
<1> USE FactReviewAssumption DEF Inv
<1> DEFINE Stutter == UNCHANGED <<Stage, StagedTarget, successor>>
<1>0. Stutter => [Contract!Next]_(Contract!vars)
  BY DEF Contract!vars
<1>1. ASSUME NEW d \in Diffs, NEW t \in Diffs \cup {NoFact}, CheckTarget(d, t) PROVE Stutter
  <2>1. /\ status[d] = "none" /\ status' = [status EXCEPT ![d] = "visible"]
        /\ target' = [target EXCEPT ![d] = t] /\ successor' = successor
    BY <1>1 DEF CheckTarget, factVars
  <2>2. Stage' = Stage
    BY <2>1 DEF Stage, TypeOK
  <2>3. StagedTarget' = StagedTarget
    BY <2>1, <2>2 DEF StagedTarget, Stage, TypeOK
  <2> QED BY <2>1, <2>2, <2>3
<1>2. ASSUME NEW d \in Diffs, InsertStagedDiff(d) \/ Smuggle(d)
      PROVE  Contract!Stage(d, target[d])
  <2>1. /\ status[d] \in {"none", "visible"} /\ status' = [status EXCEPT ![d] = "pending"]
        /\ target' = target /\ successor' = successor
    BY <1>2 DEF InsertStagedDiff, Smuggle, factVars
  <2>2. Stage[d] = "none" /\ Stage' = [Stage EXCEPT ![d] = "pending"]
    BY <2>1 DEF Stage, TypeOK
  <2>3. StagedTarget' = [StagedTarget EXCEPT ![d] = target[d]]
    BY <2>1, <2>2 DEF StagedTarget, Stage, TypeOK
  <2>4. target[d] \in Contract!Facts \cup {NoFact}
    BY DEF RowsStay, Contract!Facts, Stage, TypeOK
  <2> QED BY <2>1, <2>2, <2>3, <2>4 DEF Contract!Stage
<1>3. ASSUME NEW d \in Diffs, RejectDiff(d) PROVE Contract!Reject(d)
  <2>1. /\ status[d] = "pending" /\ status' = [status EXCEPT ![d] = "rejected"]
        /\ target' = target /\ successor' = successor
    BY <1>3 DEF RejectDiff, factVars
  <2>2. Stage[d] = "pending" /\ Stage' = [Stage EXCEPT ![d] = "rejected"]
    BY <2>1 DEF Stage, TypeOK
  <2>3. StagedTarget' = StagedTarget
    BY <2>1, <2>2 DEF StagedTarget, Stage, TypeOK
  <2> QED BY <2>1, <2>2, <2>3 DEF Contract!Reject
<1>4. ASSUME NEW h \in Handlers, HandlerStep(h) PROVE Stutter
  BY <1>4, HandlerStepFrame DEF Stage, StagedTarget
<1>5. ASSUME NEW h \in Handlers, Commit(h) PROVE Contract!Approve(diff[h])
  <2> DEFINE d == diff[h]
  <2>1. /\ d \in Diffs /\ status[d] = "pending"
        /\ status' = [status EXCEPT ![d] = "committed"] /\ target' = target
    BY <1>5, CommitFrame
  <2>2. Stage[d] = "pending" /\ Stage' = [Stage EXCEPT ![d] = "committed"]
    BY <2>1 DEF Stage, TypeOK
  <2>3. StagedTarget' = StagedTarget /\ StagedTarget[d] = target[d]
    BY <2>1, <2>2 DEF StagedTarget, Stage, TypeOK
  <2>4. CASE target[d] = NoFact /\ successor' = successor
    BY <2>1, <2>2, <2>3, <2>4 DEF Contract!Approve
  <2>5. CASE /\ target[d] \in Diffs /\ successor[target[d]] = NoFact
             /\ successor' = [successor EXCEPT ![target[d]] = d]
    <3>1. status[target[d]] = "committed" /\ target[d] # NoFact
      BY <2>1, <2>5 DEF RowsStay
    <3>2. Contract!Current(target[d])
      BY <2>5, <3>1 DEF Contract!Current, Contract!Facts, Stage
    <3> QED BY <2>1, <2>2, <2>3, <2>5, <3>1, <3>2 DEF Contract!Approve
  <2> QED BY <1>5, <2>4, <2>5, CommitFrame
<1>6. ASSUME NEW d \in Diffs, RowStep(d) PROVE [Contract!Next]_(Contract!vars)
  <2>1. CASE \E t \in Diffs \cup {NoFact} : CheckTarget(d, t)
    BY <1>0, <1>1, <2>1
  <2>2. CASE InsertStagedDiff(d) \/ Smuggle(d)
    <3>1. Contract!Stage(d, target[d]) /\ target[d] \in Diffs \cup {NoFact}
      BY <1>2, <2>2 DEF TypeOK
    <3> QED BY <3>1 DEF Contract!Next
  <2>3. CASE RejectDiff(d)
    BY <1>3, <2>3 DEF Contract!Next
  <2> QED BY <1>6, <2>1, <2>2, <2>3 DEF RowStep
<1>7. ASSUME NEW h \in Handlers, Commit(h) PROVE Contract!Next
  BY <1>5, <1>7, CommitFrame DEF Contract!Next
<1>8. CASE UNCHANGED vars
  BY <1>0, <1>8 DEF vars, factVars, Stage, StagedTarget
<1> QED BY <1>0, <1>4, <1>6, <1>7, <1>8, NextCases

\* FactReview's concurrent transactions implement the one-step decisions of
\* ReviewContract.
THEOREM ReviewKeepsContract == Spec => ImplementsContract
<1>1. Init => Contract!Init
  BY ContractInit
<1>2. Inv /\ Inv' /\ [Next]_vars => [Contract!Next]_(Contract!vars)
  BY ContractNext DEF Inv
<1> QED BY <1>1, <1>2, Invariance, PTL
        DEF Spec, SafetySpec, ImplementsContract, Contract!Spec
===============================================================================
