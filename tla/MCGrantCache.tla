----------------------------- MODULE MCGrantCache -----------------------------
(***************************************************************************)
(* A small broker: two grants, one of them expiring while the clock runs,  *)
(* and one whose stored scopes do not parse.                               *)
(***************************************************************************)
EXTENDS GrantCache, TLC

CONSTANTS g1, g2, bad

MCExpiry == [g \in Grants |-> IF g = g2 THEN MaxTime ELSE MaxTime + 1]
===============================================================================
