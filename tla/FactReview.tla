------------------------------ MODULE FactReview ------------------------------
(***************************************************************************)
(* The only way into the fact table: agents stage diffs, reviewers reject  *)
(* or approve them, and an approval is a transaction (CommitDiff) that     *)
(* runs among others at READ COMMITTED, with row locks on the diff and on  *)
(* the fact it corrects.                                                   *)
(*                                                                         *)
(* A transaction's writes appear together at its commit, and all of them   *)
(* are gone if it fails, so a handler is the place it has reached and the  *)
(* locks it holds there.  A fact is named by the diff it comes from.       *)
(***************************************************************************)
EXTENDS Integers, FiniteSets

CONSTANTS
    Diffs,            \* staged diffs
    Smuggled,         \* rows put there without ProposeDiff, with a targeted scope
    Contents,
    Handlers,         \* approve requests being served, by any reviewer
    NoFact,
    NoDiff,
    MaxBegins         \* bound on the transactions begun, for model checking

ASSUME FactReviewAssumption ==
    /\ Smuggled \subseteq Diffs
    /\ NoFact \notin Diffs
    /\ NoDiff \notin Diffs
    /\ MaxBegins \in Nat

VARIABLES
    status,           \* staged_diffs.status; "none": no row, "visible": ProposeDiff
                      \* has checked the target and not yet inserted the row
    content,
    target,           \* target_fact_id
    successor,        \* facts.superseded_by; set together with invalid_at
    validAt,          \* facts.valid_at
    pc,               \* how far a handler has come
    diff,             \* the diff it approves
    startAt,          \* now() in its transaction: when the transaction began
    clock,
    overlapped        \* history: pairs of diffs of which one was committed while
                      \* the other's transaction was open

factVars == <<successor, validAt, overlapped>>
handlerVars == <<pc, diff, startAt, clock>>
vars == <<status, content, target, factVars, handlerVars>>

InTransaction == {"begun", "locked", "inserted", "targetLocked"}
PCs == {"idle", "read"} \cup InTransaction

-------------------------------------------------------------------------------
Facts == {d \in Diffs : status[d] = "committed"}
Current(f) == f \in Facts /\ successor[f] = NoFact

\* SELECT ... FOR UPDATE on the diff, by LoadStagedDiffForUpdate.
DiffLocked(d) ==
    \E h \in Handlers : pc[h] \in {"locked", "inserted", "targetLocked"} /\ diff[h] = d

\* Seeded fault: the target row is read without FOR UPDATE.
FaultyFactLocked(f) == FALSE

\* SELECT ... FOR UPDATE on the fact, by LockTargetFact.
FactLocked(f) ==
    \E h \in Handlers : pc[h] = "targetLocked" /\ target[diff[h]] = f

\* Seeded fault: duplicates are looked for when the diff is staged only.
FaultyHasActiveDuplicateContent(d) == FALSE

\* As committed so far: the fact this diff replaces does not count.
HasActiveDuplicateContent(d) ==
    \E f \in Facts : Current(f) /\ content[f] = content[d] /\ f # target[d]

Init ==
    /\ status = [d \in Diffs |-> "none"]
    /\ content \in [Diffs -> Contents]
    /\ target = [d \in Diffs |-> NoFact]
    /\ successor = [d \in Diffs |-> NoFact]
    /\ validAt = [d \in Diffs |-> 0]
    /\ pc = [h \in Handlers |-> "idle"]
    /\ diff = [h \in Handlers |-> NoDiff]
    /\ startAt = [h \in Handlers |-> 0]
    /\ clock = 0
    /\ overlapped = {}

-------------------------------------------------------------------------------
(* ProposeDiff and RejectDiff                                              *)

\* FactVisibleToScopes: the fact to correct is current, and the proposer's
\* grants cover it (which facts those are is left open).
CheckTarget(d, t) ==
    /\ d \notin Smuggled
    /\ status[d] = "none"
    /\ t = NoFact \/ Current(t)
    /\ target' = [target EXCEPT ![d] = t]
    /\ status' = [status EXCEPT ![d] = "visible"]
    /\ UNCHANGED <<content, factVars, handlerVars>>

\* InsertStagedDiff, a statement of its own: the target may be superseded by now.
InsertStagedDiff(d) ==
    /\ status[d] = "visible"
    /\ status' = [status EXCEPT ![d] = "pending"]
    /\ UNCHANGED <<content, target, factVars, handlerVars>>

\* A row that reached the table some other way.
Smuggle(d) ==
    /\ d \in Smuggled
    /\ status[d] = "none"
    /\ status' = [status EXCEPT ![d] = "pending"]
    /\ UNCHANGED <<content, target, factVars, handlerVars>>

\* One UPDATE ... WHERE status = 'pending' and its audit row: it waits for the
\* row lock and then sees what the holder left.
RejectDiff(d) ==
    /\ status[d] = "pending"
    /\ ~DiffLocked(d)
    /\ status' = [status EXCEPT ![d] = "rejected"]
    /\ UNCHANGED <<content, target, factVars, handlerVars>>

-------------------------------------------------------------------------------
(* approveStagedDiff and CommitDiff                                        *)

Goto(h, l) == pc' = [pc EXCEPT ![h] = l]

\* Seeded fault: the request is answered and its diff kept.
FaultyFinish(h) ==
    /\ Goto(h, "idle")
    /\ startAt' = [startAt EXCEPT ![h] = 0]
    /\ UNCHANGED <<diff, clock>>

\* Rollback, or a commit: the locks are released and the request is answered.
Finish(h) ==
    /\ Goto(h, "idle")
    /\ diff' = [diff EXCEPT ![h] = NoDiff]
    /\ startAt' = [startAt EXCEPT ![h] = 0]
    /\ UNCHANGED clock

\* Seeded fault: the handler does not look the diff up first.
FaultyGetStagedDiff(h, d) ==
    /\ pc[h] = "idle"
    /\ diff' = [diff EXCEPT ![h] = d]
    /\ Goto(h, "read")
    /\ UNCHANGED <<status, content, target, factVars, startAt, clock>>

\* The handler looks the diff up, in whatever status: no row is a 404.
GetStagedDiff(h, d) ==
    /\ pc[h] = "idle"
    /\ status[d] \notin {"none", "visible"}
    /\ diff' = [diff EXCEPT ![h] = d]
    /\ Goto(h, "read")
    /\ UNCHANGED <<status, content, target, factVars, startAt, clock>>

\* Embedding and summary done, outside any transaction; BEGIN fixes now().
Begin(h) ==
    /\ pc[h] = "read"
    /\ clock < MaxBegins
    /\ clock' = clock + 1
    /\ startAt' = [startAt EXCEPT ![h] = clock']
    /\ Goto(h, "begun")
    /\ UNCHANGED <<status, content, target, factVars, diff>>

\* Seeded fault: the status is not looked at again under the lock.
FaultyLockDiff(h) ==
    /\ pc[h] = "begun"
    /\ status[diff[h]] \notin {"none", "visible"}
    /\ ~DiffLocked(diff[h])
    /\ Goto(h, "locked")
    /\ UNCHANGED <<diff, startAt, clock>>
    /\ UNCHANGED <<status, content, target, factVars>>

\* LoadStagedDiffForUpdate, after waiting for the row: still pending, or no more.
LockDiff(h) ==
    /\ pc[h] = "begun"
    /\ ~DiffLocked(diff[h])
    /\ status[diff[h]] \notin {"none", "visible"}
    /\ IF status[diff[h]] = "pending"
       THEN Goto(h, "locked") /\ UNCHANGED <<diff, startAt, clock>>
       ELSE Finish(h)
    /\ UNCHANGED <<status, content, target, factVars>>

\* The content check sees what is committed when it runs; then the scope check,
\* and InsertFact with its scopes, invisible to the others until the commit.
InsertFact(h) ==
    /\ pc[h] = "locked"
    /\ IF HasActiveDuplicateContent(diff[h]) \/ diff[h] \in Smuggled
       THEN Finish(h)
       ELSE Goto(h, "inserted") /\ UNCHANGED <<diff, startAt, clock>>
    /\ UNCHANGED <<status, content, target, factVars>>

\* Seeded fault: a target that was superseded meanwhile is not an error.
FaultyLockTargetFact(h) ==
    /\ pc[h] = "inserted"
    /\ target[diff[h]] # NoFact
    /\ ~FactLocked(target[diff[h]])
    /\ successor[target[diff[h]]] = NoFact
    /\ Goto(h, "targetLocked")
    /\ UNCHANGED <<diff, startAt, clock>>
    /\ UNCHANGED <<status, content, target, factVars>>

\* LockTargetFact, after waiting for the row: already superseded is an error.
LockTargetFact(h) ==
    /\ pc[h] = "inserted"
    /\ target[diff[h]] # NoFact
    /\ ~FactLocked(target[diff[h]])
    /\ IF successor[target[diff[h]]] = NoFact
       THEN Goto(h, "targetLocked") /\ UNCHANGED <<diff, startAt, clock>>
       ELSE Finish(h)
    /\ UNCHANGED <<status, content, target, factVars>>

\* SupersedeFact, MarkDiffCommitted, the audit row and COMMIT.  invalid_at of
\* the old fact is valid_at of the new one, the start of the transaction.
Commit(h) ==
    LET d == diff[h]
    IN  /\ \/ pc[h] = "inserted" /\ target[d] = NoFact
           \/ pc[h] = "targetLocked"
        /\ status' = [status EXCEPT ![d] = "committed"]
        /\ validAt' = [validAt EXCEPT ![d] = startAt[h]]
        /\ successor' = IF target[d] = NoFact THEN successor
                        ELSE [successor EXCEPT ![target[d]] = d]
        /\ overlapped' = overlapped \cup
              {{d, diff[k]} : k \in {k \in Handlers \ {h} : pc[k] \in InTransaction}}
        /\ Finish(h)
        /\ UNCHANGED <<content, target>>

\* An embedder or database error, a lost client or connection, a crash: the
\* transaction, if begun, rolls back.
Fail(h) ==
    /\ pc[h] # "idle"
    /\ Finish(h)
    /\ UNCHANGED <<status, content, target, factVars>>

Next ==
    \/ \E d \in Diffs :
          \/ \E t \in Diffs \cup {NoFact} : CheckTarget(d, t)
          \/ InsertStagedDiff(d)
          \/ Smuggle(d)
          \/ RejectDiff(d)
    \/ \E h \in Handlers :
          \/ \E d \in Diffs : GetStagedDiff(h, d)
          \/ Begin(h)
          \/ LockDiff(h)
          \/ InsertFact(h)
          \/ LockTargetFact(h)
          \/ Commit(h)
          \/ Fail(h)

\* A transaction that has begun goes on, and Postgres hands a contended row to
\* its waiters in turn.  Failures are not assumed to happen.
Fairness ==
    \A h \in Handlers :
        /\ SF_vars(LockDiff(h))
        /\ WF_vars(InsertFact(h))
        /\ SF_vars(LockTargetFact(h))
        /\ WF_vars(Commit(h))

SafetySpec == Init /\ [][Next]_vars
Spec == SafetySpec /\ Fairness

-------------------------------------------------------------------------------
(* Properties                                                              *)

TypeOK ==
    /\ status \in [Diffs -> {"none", "visible", "pending", "rejected", "committed"}]
    /\ content \in [Diffs -> Contents]
    /\ target \in [Diffs -> Diffs \cup {NoFact}]
    /\ successor \in [Diffs -> Diffs \cup {NoFact}]
    /\ validAt \in [Diffs -> Nat]
    /\ pc \in [Handlers -> PCs]
    /\ diff \in [Handlers -> Diffs \cup {NoDiff}]
    /\ startAt \in [Handlers -> Nat]
    /\ clock \in Nat
    /\ overlapped \subseteq SUBSET Diffs
    /\ \A h \in Handlers : pc[h] # "idle" <=> diff[h] # NoDiff

\* Two approvals may race to correct one fact.  Whoever is committed is the
\* fact's successor, and no one else is: no supersession is lost or made up, and
\* history does not fork.
NoLostSupersession ==
    \A f, d \in Diffs : successor[f] = d <=> d \in Facts /\ target[d] = f

\* "Two identical proposals can both be staged as novel": the check inside the
\* transaction leaves only approvals that really ran at the same time able to
\* create two current facts of one content.
DuplicatesOnlyIfConcurrent ==
    \A f, g \in Facts :
        f # g /\ Current(f) /\ Current(g) /\ content[f] = content[g]
            => {f, g} \in overlapped

\* facts_supersession_consistency demands invalid_at >= valid_at, and both are
\* transaction start times that may lie well before the commits: the check can
\* nevertheless never refuse an approval, and what is stored keeps to it.
ValidityNeverRunsBackwards ==
    /\ \A h \in Handlers :
          pc[h] = "targetLocked" => validAt[target[diff[h]]] <= startAt[h]
    /\ \A f \in Diffs : successor[f] # NoFact => validAt[f] <= validAt[successor[f]]

\* No row locks are waited for in a circle, and no error path keeps one: an
\* approval that has begun is answered.
ApprovalsEnd ==
    \A h \in Handlers : pc[h] \in InTransaction ~> pc[h] = "idle"

\* The refinement: every decision takes effect in one step.
Stage == [d \in Diffs |-> IF status[d] = "visible" THEN "none" ELSE status[d]]
StagedTarget == [d \in Diffs |-> IF Stage[d] = "none" THEN NoFact ELSE target[d]]
Contract == INSTANCE ReviewContract WITH stage <- Stage, target <- StagedTarget
ImplementsContract == Contract!Spec
===============================================================================
