----------------------------- MODULE MCFactReview -----------------------------
(***************************************************************************)
(* Three diffs are enough for one fact and two rival corrections of it, or *)
(* for three equal contents; a fourth reached the table some other way; two*)
(* approvals run at a time.  Diffs and contents are interchangeable; as the*)
(* run checks liveness too, that is not said with a symmetry but by taking *)
(* the diffs in their order.                                               *)
(***************************************************************************)
EXTENDS FactReview

Staged(d) == status[d] # "none"

MCBound ==
    /\ Staged("d2") => Staged("d1")
    /\ Staged("d3") => Staged("d2")
    /\ ~(Staged("d3") /\ Staged("d4"))
    /\ content["d1"] = "c1"
    /\ \A d \in {"d3", "d4"} : ~Staged(d) => content[d] = "c1"
===============================================================================
