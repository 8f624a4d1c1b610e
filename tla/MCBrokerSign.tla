----------------------------- MODULE MCBrokerSign -----------------------------
(***************************************************************************)
(* Two connections and two grants, each allowed one signature a window: a  *)
(* slow request beside another one, a revocation, a reload and a shutdown. *)
(***************************************************************************)
EXTENDS BrokerSign, TLC
===============================================================================
