---------------------------- MODULE ReviewContract ----------------------------
(***************************************************************************)
(* What the review queue promises, each decision one step: a fact comes    *)
(* from a pending diff and a human's approval, a decision is final, and a  *)
(* correction replaces a fact that is still current, leaving a successor   *)
(* behind it.  FactReview implements it with concurrent transactions.      *)
(***************************************************************************)
CONSTANTS
    Diffs,            \* staged diffs; the fact a diff becomes has its name
    NoFact

VARIABLES
    stage,            \* where each diff stands
    target,           \* the fact a diff corrects, or NoFact
    successor         \* the fact that superseded a fact, or NoFact

vars == <<stage, target, successor>>

Init ==
    /\ stage = [d \in Diffs |-> "none"]
    /\ target = [d \in Diffs |-> NoFact]
    /\ successor = [d \in Diffs |-> NoFact]

Facts == {d \in Diffs : stage[d] = "committed"}
Current(f) == f \in Facts /\ successor[f] = NoFact

\* The target was current when the proposer's grants were checked, and may no
\* longer be.
Stage(d, t) ==
    /\ stage[d] = "none"
    /\ t \in Facts \cup {NoFact}
    /\ stage' = [stage EXCEPT ![d] = "pending"]
    /\ target' = [target EXCEPT ![d] = t]
    /\ UNCHANGED successor

Reject(d) ==
    /\ stage[d] = "pending"
    /\ stage' = [stage EXCEPT ![d] = "rejected"]
    /\ UNCHANGED <<target, successor>>

Approve(d) ==
    /\ stage[d] = "pending"
    /\ target[d] # NoFact => Current(target[d])
    /\ stage' = [stage EXCEPT ![d] = "committed"]
    /\ successor' = IF target[d] = NoFact THEN successor
                    ELSE [successor EXCEPT ![target[d]] = d]
    /\ UNCHANGED target

Next ==
    \E d \in Diffs :
        \/ \E t \in Diffs \cup {NoFact} : Stage(d, t)
        \/ Reject(d)
        \/ Approve(d)

Spec == Init /\ [][Next]_vars
===============================================================================
