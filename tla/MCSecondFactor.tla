---------------------------- MODULE MCSecondFactor ----------------------------
(***************************************************************************)
(* The bounds TLC checks SecondFactor in: processes boot, crash and rotate *)
(* keys around one request for a token; requests run beside one another,   *)
(* and passkeys are used, while one process serves.                        *)
(***************************************************************************)
EXTENDS SecondFactor, FiniteSets, TLC

Busy == {h \in Handlers : pc[h] # "idle"}
Used == {t \in Tokens : tok[t] # "none"}

Deleted == {t \in Tokens : tok[t] = "deleted"}

\* Nobody changes the keys, or is about to.
AtRest ==
    /\ file = Created /\ wrapped.under = Created
    /\ \A o \in Rotators : rotation[o] = NoRow

\* One process serves, and there is no other.
Settled == AtRest /\ \E p \in Serving : \A q \in Procs \ {p} : boot[q] = "down"

MCBound ==
    /\ Cardinality(Busy) > 1 \/ nonce > 0 => Settled
    /\ (\E h \in Busy : act[h] # "mint") => Settled
    /\ Cardinality(Used) > 2 \/ Deleted # {} => AtRest
    /\ Busy # {} => \A o \in Rotators : rotation[o] = NoRow
    /\ nonce > 0 => Cardinality(Busy) <= 1 \/ (Used # Tokens /\ Deleted = {})
    /\ (\E k \in Passkeys : owner[k] # NoToken) =>
          \A h \in Busy : act[h] = "mint" /\ who[h] # Bootstrap

Symmetry == Permutations(Procs) \cup Permutations(Handlers)
                \cup Permutations(Tokens \ {Bootstrap})
===============================================================================
