----------------------------- MODULE AgentAccess -----------------------------
(***************************************************************************)
(* What an agent gets with its grants: searches and proposals, served while*)
(* reviewers create, renew, revoke and decide.  Each call embeds its text  *)
(* between checks, and reads the grants in a statement of their own, so    *)
(* what it answers with may be older than the answer.  The facts stand     *)
(* still here; FactReview is about how they change.                        *)
(***************************************************************************)
EXTENDS Grants, Scopes

CONSTANTS
    Calls,            \* calls of the agent being served
    Facts,
    FactScopes,       \* fact -> its scope tags
    Asks,             \* the scopes a search may ask for
    Limit,            \* RateLimit
    Window,           \* RateLimitWindow
    NoFact

\* ValidateMemory on the tags, validateKindAndDepth on the grants.
ASSUME AccessAssumption ==
    /\ \A f \in Facts : \A t \in FactScopes[f] : t.target = NoTarget /\ Len(t.op) \in Nat
    /\ \A t \in Terms : t.kind = "memory" => t.depth \in {"summary", "facts", "full"}
    /\ Limit \in Nat \ {0}
    /\ Window \in Nat \ {0}
    /\ NoFact \notin Facts

VARIABLES
    at,               \* how far a call has come
    want,             \* the scopes a search asks for
    target,           \* the fact a proposal is to replace, or NoFact
    snap,             \* the granted scopes and depths it has read
    found,            \* fact -> the depth it is disclosed at
    since,            \* history: grants in force while it could read them
    count,            \* propose_write_rate_limits: window -> count
    admitted          \* history: the proposals let through

callVars == <<at, want, target, snap, found>>
limitVars == <<count, admitted>>
vars == <<consentVars, callVars, since, limitVars>>

Stages == {"idle", "embedding", "embedded", "searching", "searched", "recorded",
           "proposing", "proposed", "staging", "staged"}

\* The calls that have embedded and not read the grants yet.
AboutToRead == {"embedded", "proposed"}

Windows == 0 .. MaxTime \div Window
CurrentWindow == now \div Window

-------------------------------------------------------------------------------
\* Seeded fault: grants of every kind.
FaultyGrantedScopeDepths ==
    UNION {{[scope |-> s, depth |-> terms[g].depth] : s \in terms[g].scopes} :
              g \in ActiveGrants}

\* GrantedScopeDepths: active memory grants only.
GrantedScopeDepths ==
    UNION {{[scope |-> s, depth |-> terms[g].depth] : s \in terms[g].scopes} :
              g \in {x \in ActiveGrants : terms[x].kind = "memory"}}

\* candidate_facts, before any ranking.
CandidateFacts(granted) == {f \in Facts : SqlVisible(FactScopes[f], ScopesOf(granted))}

Init ==
    /\ ConsentInit
    /\ at = [c \in Calls |-> "idle"]
    /\ want = [c \in Calls |-> {}]
    /\ target = [c \in Calls |-> NoFact]
    /\ snap = [c \in Calls |-> {}]
    /\ found = [c \in Calls |-> <<>>]
    /\ since = [c \in Calls |-> {}]
    /\ count = [w \in Windows |-> 0]
    /\ admitted = {}

Move(c, from, to) == at[c] = from /\ at' = [at EXCEPT ![c] = to]

\* The call ends, answered or refused, and its handler is gone.
Leave(c) ==
    /\ at' = [at EXCEPT ![c] = "idle"]
    /\ want' = [want EXCEPT ![c] = {}]
    /\ target' = [target EXCEPT ![c] = NoFact]
    /\ snap' = [snap EXCEPT ![c] = {}]
    /\ found' = [found EXCEPT ![c] = <<>>]
    /\ UNCHANGED limitVars

-------------------------------------------------------------------------------
(* agentSearch                                                             *)

\* The first check.  A search that is refused here changes nothing.
CheckGrants(c, req) ==
    /\ Move(c, "idle", "embedding")
    /\ Missing(req, ScopesOf(GrantedScopeDepths)) = {}
    /\ want' = [want EXCEPT ![c] = req]
    /\ snap' = [snap EXCEPT ![c] = GrantedScopeDepths]
    /\ UNCHANGED <<target, found, limitVars>>

Embed(c) ==
    /\ \/ Move(c, "embedding", "embedded")
       \/ Move(c, "proposing", "proposed")
    /\ UNCHANGED <<want, target, snap, found, limitVars>>

\* Seeded fault: what was read before the embedding is used after it.
FaultyRecheck(c) ==
    /\ Move(c, "embedded", "searching")
    /\ UNCHANGED <<want, target, snap, found, limitVars>>

Recheck(c) ==
    /\ at[c] = "embedded"
    /\ IF Missing(want[c], ScopesOf(GrantedScopeDepths)) = {}
       THEN /\ Move(c, "embedded", "searching")
            /\ snap' = [snap EXCEPT ![c] = GrantedScopeDepths]
            /\ UNCHANGED <<want, target, found, limitVars>>
       ELSE Leave(c)

\* SearchFacts: any of the candidates may be ranked among the first, each at
\* its effective depth.
SearchFacts(c) ==
    /\ Move(c, "searching", "searched")
    /\ \E S \in SUBSET CandidateFacts(snap[c]) :
          found' = [found EXCEPT ![c] =
                       [f \in S |-> EffectiveDepth(FactScopes[f], snap[c])]]
    /\ UNCHANGED <<want, target, snap, limitVars>>

\* LogAudit "read", before the response is written.
RecordRead(c) ==
    /\ Move(c, "searched", "recorded")
    /\ UNCHANGED <<want, target, snap, found, limitVars>>

-------------------------------------------------------------------------------
(* agentProposeWrite, Bouncer.ProposeWrite, ProposeDiff                    *)

\* Seeded fault: the count is compared before it is incremented.
FaultyAdmits(n) == n <= Limit

\* count > limit is refused; count is the one the upsert returned.
Admits(n) == n + 1 <= Limit

\* CheckProposeWriteRateLimit, one upsert: a refused call counts too.
\* Bound: once a window is over its limit, more calls change nothing.
ProposeWrite(c, f) ==
    LET n == count[CurrentWindow]
    IN  /\ at[c] = "idle"
        /\ n <= Limit
        /\ count' = [count EXCEPT ![CurrentWindow] = n + 1]
        /\ IF Admits(n)
           THEN /\ Move(c, "idle", "proposing")
                /\ target' = [target EXCEPT ![c] = f]
                /\ admitted' = admitted \cup {[time |-> now, count |-> n + 1]}
           ELSE UNCHANGED <<at, target, admitted>>
        /\ UNCHANGED <<want, snap, found>>

LoadGrants(c) ==
    /\ Move(c, "proposed", "staging")
    /\ snap' = [snap EXCEPT ![c] = GrantedScopeDepths]
    /\ UNCHANGED <<want, target, found, limitVars>>

\* Seeded fault: the verdict the reviewer gets is the agent's answer too.
FaultyDisclosure(f, granted) == {f}

\* disclosureForProposer: "duplicate" or "contradiction" with the fact they are
\* about, when its content may be read; otherwise "needs_review" and no fact.
Disclosure(f, granted) ==
    {x \in {f} : EffectiveDepth(FactScopes[x], granted) # "summary"}

\* findDedupeCandidate may come up with any visible fact, or none.
DedupeCandidates(granted) == CandidateFacts(granted) \cup {NoFact}

\* ProposeDiff: the target is visible or nothing is staged.
ProposeDiff(c) ==
    /\ at[c] = "staging"
    /\ IF target[c] \in CandidateFacts(snap[c]) \cup {NoFact}
       THEN /\ Move(c, "staging", "staged")
            /\ \E f \in DedupeCandidates(snap[c]) :
                  LET told == IF f = NoFact THEN {} ELSE Disclosure(f, snap[c])
                  IN  found' = [found EXCEPT ![c] = [x \in told |-> "facts"]]
            /\ UNCHANGED <<want, target, snap, limitVars>>
       ELSE Leave(c)

\* The answer is written.
Answer(c) == at[c] \in {"recorded", "staged"} /\ Leave(c)

\* The embedder, a statement or the connection fails.
Fail(c) == at[c] \notin {"idle", "recorded", "staged"} /\ Leave(c)

-------------------------------------------------------------------------------
CallStep ==
    \E c \in Calls :
        \/ \E req \in Asks : CheckGrants(c, req)
        \/ Embed(c)
        \/ Recheck(c)
        \/ SearchFacts(c)
        \/ RecordRead(c)
        \/ \E f \in Facts \cup {NoFact} : ProposeWrite(c, f)
        \/ LoadGrants(c)
        \/ ProposeDiff(c)
        \/ Answer(c)
        \/ Fail(c)

\* History: the grants in force at some instant between the end of the embedding
\* and the reading of the grants.
Observe ==
    since' = [c \in Calls |->
                 CASE at'[c] = "idle" -> {}
                   [] at'[c] \in AboutToRead -> since[c] \cup ActiveGrants'
                   [] OTHER -> since[c]]

Next ==
    /\ \/ ConsentNext /\ UNCHANGED <<callVars, limitVars>>
       \/ CallStep /\ UNCHANGED consentVars
    /\ Observe

Spec == Init /\ [][Next]_vars

-------------------------------------------------------------------------------
(* Properties                                                              *)

TypeOK ==
    /\ ConsentTypeOK
    /\ at \in [Calls -> Stages]
    /\ want \in [Calls -> Asks \cup {{}}]
    /\ target \in [Calls -> Facts \cup {NoFact}]
    /\ DOMAIN snap = Calls /\ DOMAIN found = Calls
    /\ \A c \in Calls :
          /\ \A g \in snap[c] : g.depth \in {"summary", "facts", "full"}
          /\ DOMAIN found[c] \subseteq Facts
    /\ since \in [Calls -> SUBSET GrantIds]
    /\ count \in [Windows -> Nat]
    /\ admitted \in SUBSET [time : 0 .. MaxTime, count : Nat]

\* Every tag of the fact is covered by one of the grants, at that depth or deeper.
MayRead(f, depth, grants) ==
    \A t \in FactScopes[f] : \E g \in grants :
        /\ terms[g].kind = "memory"
        /\ DepthRank(terms[g].depth) >= DepthRank(depth)
        /\ \E s \in terms[g].scopes : Covers(s, t)

\* agent_routes.go:212: no fact is disclosed, and none deeper, than the memory
\* grants in force after the embedding allow, whatever is revoked or lapses while
\* the query is embedded, and however the query's LIKE reads a scope.
DisclosedWithinGrants ==
    \A c \in Calls : at[c] \in {"searched", "recorded"} =>
        \A f \in DOMAIN found[c] : MayRead(f, found[c][f], since[c])

\* staged_diffs.go:80: a proposal tells its agent which fact it duplicates or
\* contradicts, or replaces one, only if its grants let it read that fact: the
\* content for the verdict, a summary for the target.
ProposalsLearnWithinGrants ==
    \A c \in Calls : at[c] = "staged" =>
        /\ \A f \in DOMAIN found[c] : MayRead(f, "facts", since[c])
        /\ target[c] # NoFact => MayRead(target[c], "summary", since[c])

\* The proposals let through at the instants of T; the count the upsert returned
\* tells those of a window apart.
AdmittedDuring(T) == Cardinality({a \in admitted : a.time \in T})

\* rate_limit.go:31: a window lets its limit through, and the boundary between
\* two windows at most twice that in any stretch of a window's length.
AdmittedWithinLimit ==
    /\ \A w \in Windows :
          AdmittedDuring({t \in 0 .. MaxTime : t \div Window = w}) <= Limit
    /\ \A t \in 0 .. MaxTime :
          AdmittedDuring({u \in 0 .. MaxTime : t <= u /\ u < t + Window}) <= 2 * Limit
===============================================================================
