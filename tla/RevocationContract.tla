-------------------------- MODULE RevocationContract --------------------------
(***************************************************************************)
(* What brokerd's grant cache promises the code that consults it, with no  *)
(* database, notification or clock in sight: which capability grants the   *)
(* cache may hold, given the grants that have died (been revoked or        *)
(* expired).  GrantCache implements it; BrokerSign is built on top of it.  *)
(***************************************************************************)
CONSTANT Grants       \* the capability grants ever provisioned

VARIABLES
    dead,             \* grants revoked or past their expiry: never undone
    held,             \* grants the cache answers for
    gone              \* grants this process has held or refused, and let go

vars == <<dead, held, gone>>

Init ==
    /\ dead \in SUBSET Grants
    /\ held = {}
    /\ gone = {}

\* A reviewer revokes grants, or their expiry passes: the cache need not know.
Die ==
    /\ \E S \in SUBSET (Grants \ dead) : dead' = dead \cup S
    /\ UNCHANGED <<held, gone>>

\* A reload may bring in anything it has not let go of, and may only let go of
\* what is dead.
Refresh ==
    /\ \E S \in SUBSET (Grants \ gone) :
          /\ held \ S \subseteq dead
          /\ held' = S
          /\ gone' = gone \cup (held \ S)
    /\ UNCHANGED dead

\* A revocation notice: held or not, the grant is let go.
Forget(g) ==
    /\ g \in dead
    /\ held' = held \ {g}
    /\ gone' = gone \cup {g}
    /\ UNCHANGED dead

\* The process is restarted with an empty cache and no memory.
Restart ==
    /\ held' = {}
    /\ gone' = {}
    /\ UNCHANGED dead

Next ==
    \/ Die
    \/ Refresh
    \/ \E g \in Grants : Forget(g)
    \/ Restart

Spec == Init /\ [][Next]_vars
===============================================================================
