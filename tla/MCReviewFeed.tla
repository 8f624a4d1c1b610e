----------------------------- MODULE MCReviewFeed -----------------------------
(***************************************************************************)
(* Two diffs over a poll that lists one of them, so that an item can be    *)
(* pushed out of the list; a request, so that the queue can hold items on  *)
(* both sides of the selection; one expiring grant; one lost connection.   *)
(* The warning is met by pushbridge and the request by the approver, each  *)
(* either with one diff or with no connection lost.                        *)
(***************************************************************************)
EXTENDS ReviewFeed

Seen(S) == \E i \in S : status[i] # "absent"

Sparing == ends = 0 \/ status[2] = "absent"

MCBound ==
    /\ Seen(Warnings) => client = "pushbridge" /\ Sparing
    /\ Seen(Requests) => client = "approver" /\ Sparing
===============================================================================
