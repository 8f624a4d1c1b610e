---------------------------- MODULE MCAgentAccess ----------------------------
(***************************************************************************)
(* The values TLC checks AgentAccess with: scopes that are ancestors of one*)
(* another, one that only an unescaped _ matches, and terms of both kinds. *)
(***************************************************************************)
EXTENDS AgentAccess, TLC

Scope(op, on) == [op |-> op, target |-> on]
Home == Scope(<<"a_b">>, NoTarget)
HomePlan == Scope(<<"a_b", "plan">>, NoTarget)
OtherPlan == Scope(<<"axb", "plan">>, NoTarget)
Money == Scope(<<"money">>, NoTarget)

MCLookAlikes == {<<"a_b", "axb">>}

Grant(kind, scopes, depth) == [kind |-> kind, scopes |-> scopes, depth |-> depth]
Reading == Grant("memory", {Home}, "full")
Glancing == Grant("memory", {HomePlan, Money}, "summary")
Signing == Grant("capability", {Scope(<<"git", "sign">>, "repo")}, "")
Unscoped == Grant("capability", {HomePlan}, "")

MCTerms == {Reading, Glancing, Signing, Unscoped}
MCMalformed == {Unscoped}

MCFactScopes ==
    [f \in Facts |-> CASE f = "plan" -> {HomePlan}
                       [] f = "budget" -> {HomePlan, Money}
                       [] f = "other" -> {OtherPlan}]
MCAsks == {{HomePlan}, {}}

Busy == {h \in Handlers : pc[h] # "idle"}
Calling == {c \in Calls : at[c] # "idle"}

Counted == count[0] + count[1]

MCBound ==
    /\ \A h, k \in Busy : arg[h] = arg[k]
    /\ \A r \in Requests : asked[r] \in {NoTerms, Reading, Unscoped}
    /\ (\E r \in Requests : status[r] # "none") =>
          \A g \in GrantIds : terms[g] \in {NoTerms, Reading}
    /\ Calling # {} \/ Counted > 0 =>
          /\ Cardinality(Busy) <= 1
          /\ \A h \in Busy : pc[h] \in {"renewing", "renewed"}
          /\ \A r \in Requests : status[r] = "none"
          /\ \E g \in GrantIds : ~Exists(g) \/ terms[g].kind = "memory"
    /\ Counted > 0 => Busy = {}
    /\ Counted > 1 =>
          /\ \A g \in GrantIds : ~Exists(g)
          /\ \A c \in Calling : at[c] = "proposing"

Symmetry == Permutations(GrantIds) \cup Permutations(Handlers)
===============================================================================
