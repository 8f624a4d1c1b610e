------------------------------ MODULE BrokerSign ------------------------------
(***************************************************************************)
(* brokerd serving its Unix socket: one request a connection, answered by  *)
(* Preflight or Sign, over a grant cache of which only the contract is     *)
(* used, and the shutdown that drains the connections before it destroys   *)
(* the signing key.                                                        *)
(*                                                                         *)
(* Each connection is a goroutine.  It takes its grant from the cache once *)
(* and goes on with that entry while notices, reloads, other connections   *)
(* and the shutdown run.                                                   *)
(***************************************************************************)
EXTENDS Integers, FiniteSets

CONSTANTS
    Grants,           \* capability grants, each standing for its token too
    Conns,            \* connections handled at a time
    Limit,            \* signRateLimit, per grant and window; 0 disables it
    NoGrant

ASSUME BrokerAssumption ==
    /\ NoGrant \notin Grants
    /\ Limit \in Nat

VARIABLES
    dead, held, gone, \* the grant cache: see RevocationContract
    phase,            \* of the process
    at,               \* how far a connection's goroutine has come
    op,               \* its request: "preflight" or "sign",
    grant,            \* the grant the token authenticated,
    shape,            \* and what checkScope and commit.Parse will say of it
    code,             \* the result to write
    row,              \* an audit row of this request is in the database
    used,             \* sign requests of a grant that count in the current window
    since,            \* history: the grants let go of when it was accepted
    vouched           \* history: grants Preflight said OK for, while still held

cacheVars == <<dead, held, gone>>
connVars == <<at, op, grant, shape, code, row, since>>
vars == <<cacheVars, phase, connVars, used, vouched>>

Cache == INSTANCE RevocationContract

Phases == {"boot", "up", "stopping", "draining", "served", "destroyed"}
Places == {"idle", "open", "found", "admitted", "checked", "signing", "signed", "reply"}
Shapes == {"good", "badScope", "badPayload"}
Codes == {"none", "OK", "NO_GRANT", "SCOPE_DENIED", "RATE_LIMITED", "BACKEND_UNREACHABLE"}

Init ==
    /\ Cache!Init
    /\ phase = "boot"
    /\ at = [c \in Conns |-> "idle"]
    /\ op = [c \in Conns |-> "none"]
    /\ grant = [c \in Conns |-> NoGrant]
    /\ shape = [c \in Conns |-> "good"]
    /\ code = [c \in Conns |-> "none"]
    /\ row = [c \in Conns |-> FALSE]
    /\ since = [c \in Conns |-> {}]
    /\ used = [g \in Grants |-> 0]
    /\ vouched = {}

-------------------------------------------------------------------------------
(* The cache and the clock, which run on whatever the connections do.      *)

\* A revocation or expiry, a reload, a notice.
CacheStep ==
    /\ phase # "boot"
    /\ Cache!Die \/ Cache!Refresh \/ \E g \in Grants : Cache!Forget(g)
    /\ vouched' = (vouched \cap held') \ dead'
    /\ UNCHANGED <<phase, connVars, used>>

\* The oldest event of a grant leaves the rate limiter's window.
WindowSlides(g) ==
    /\ used[g] > 0
    /\ used' = [used EXCEPT ![g] = @ - 1]
    /\ UNCHANGED <<cacheVars, phase, connVars, vouched>>

-------------------------------------------------------------------------------
(* The process: main and Serve                                             *)

\* Key unsealed, first Load done, socket bound.
Boot ==
    /\ phase = "boot"
    /\ Cache!Refresh
    /\ phase' = "up"
    /\ UNCHANGED <<connVars, used, vouched>>

\* SIGTERM cancels the context; the goroutine that closes the listener runs
\* later, and Accept may win against it.
Signal ==
    /\ phase = "up"
    /\ phase' = "stopping"
    /\ UNCHANGED <<cacheVars, connVars, used, vouched>>

CloseListener ==
    /\ phase = "stopping"
    /\ phase' = "draining"
    /\ UNCHANGED <<cacheVars, connVars, used, vouched>>

\* Seeded fault: Serve does not wait for its connections.
FaultyServeReturns ==
    /\ phase = "draining"
    /\ phase' = "served"
    /\ UNCHANGED <<cacheVars, connVars, used, vouched>>

\* wg.Wait in Serve.
ServeReturns ==
    /\ phase = "draining"
    /\ \A c \in Conns : at[c] = "idle"
    /\ phase' = "served"
    /\ UNCHANGED <<cacheVars, connVars, used, vouched>>

\* The deferred key.Destroy, then the exit.
Destroy ==
    /\ phase = "served"
    /\ phase' = "destroyed"
    /\ UNCHANGED <<cacheVars, connVars, used, vouched>>

\* The process is started anew, after its exit or after a crash.
Restart ==
    /\ phase # "boot"
    /\ phase' = "boot"
    /\ Cache!Restart
    /\ at' = [c \in Conns |-> "idle"]
    /\ op' = [c \in Conns |-> "none"]
    /\ grant' = [c \in Conns |-> NoGrant]
    /\ shape' = [c \in Conns |-> "good"]
    /\ code' = [c \in Conns |-> "none"]
    /\ row' = [c \in Conns |-> FALSE]
    /\ since' = [c \in Conns |-> {}]
    /\ used' = [g \in Grants |-> 0]
    /\ vouched' = {}

-------------------------------------------------------------------------------
(* handleConn                                                              *)

Goto(c, l) ==
    /\ at' = [at EXCEPT ![c] = l]
    /\ UNCHANGED <<op, grant, shape, code, row, since>>

\* A result that Handle returned; the entry it looked up is forgotten.
Answer(c, o, g, k) ==
    /\ at' = [at EXCEPT ![c] = "reply"]
    /\ op' = [op EXCEPT ![c] = o]
    /\ grant' = [grant EXCEPT ![c] = g]
    /\ code' = [code EXCEPT ![c] = k]

Refuse(c, k) ==
    /\ Answer(c, op[c], grant[c], k)
    /\ UNCHANGED <<shape, row, since, vouched>>

\* Seeded fault: the next connection starts from this one's result.
FaultyClose(c) ==
    /\ at' = [at EXCEPT ![c] = "idle"]
    /\ op' = [op EXCEPT ![c] = "none"]
    /\ since' = [since EXCEPT ![c] = {}]
    /\ UNCHANGED <<grant, shape, code, row>>

\* The connection is closed, with or without its result having been written.
Close(c) ==
    /\ at' = [at EXCEPT ![c] = "idle"]
    /\ op' = [op EXCEPT ![c] = "none"]
    /\ grant' = [grant EXCEPT ![c] = NoGrant]
    /\ shape' = [shape EXCEPT ![c] = "good"]
    /\ code' = [code EXCEPT ![c] = "none"]
    /\ row' = [row EXCEPT ![c] = FALSE]
    /\ since' = [since EXCEPT ![c] = {}]

Accept(c) ==
    /\ phase \in {"up", "stopping"}
    /\ at[c] = "idle"
    /\ at' = [at EXCEPT ![c] = "open"]
    /\ since' = [since EXCEPT ![c] = gone]
    /\ UNCHANGED <<cacheVars, phase, op, grant, shape, code, row, used, vouched>>

\* Seeded fault: a client that never writes is waited for.
FaultyGiveUp(c) == FALSE /\ UNCHANGED vars

\* Another user's peer, an early EOF, or connDeadline: closed without a word.
GiveUp(c) ==
    /\ at[c] = "open"
    /\ Close(c)
    /\ UNCHANGED <<cacheVars, phase, used, vouched>>

\* Too long, not JSON, or an op that is neither of the two.
Malformed(c) ==
    /\ at[c] = "open"
    /\ Answer(c, "none", NoGrant, "SCOPE_DENIED")
    /\ UNCHANGED <<cacheVars, phase, used, shape, row, since, vouched>>

\* Seeded faults: a token that was accepted once stays accepted; whether a grant
\* is live is looked up somewhere else than in the cache.
FaultyFinds(g) == g \in held \cup gone
ElsewhereFinds(g) == g \notin dead

\* Lookup: what the cache holds, unless it is past the expiry it carries (which
\* of the dead grants have expired is the cache's business).
Finds(g) == g \in held
Misses(g) == g \notin held \/ g \in dead

\* Lookup, then checkScope; no side effects.
Preflight(c, g, s) ==
    /\ at[c] = "open"
    /\ \/ Misses(g) /\ Answer(c, "preflight", g, "NO_GRANT") /\ UNCHANGED vouched
       \/ Finds(g) /\ s = "badScope" /\ Answer(c, "preflight", g, "SCOPE_DENIED")
                   /\ UNCHANGED vouched
       \/ Finds(g) /\ s # "badScope" /\ Answer(c, "preflight", g, "OK")
                   /\ vouched' = vouched \cup ({g} \ dead)
    /\ UNCHANGED <<cacheVars, phase, shape, row, since, used>>

\* Sign's own Lookup.
Lookup(c, g, s) ==
    /\ at[c] = "open"
    /\ \/ /\ Misses(g)
          /\ Answer(c, "sign", g, "NO_GRANT")
          /\ UNCHANGED shape
       \/ /\ Finds(g)
          /\ at' = [at EXCEPT ![c] = "found"]
          /\ op' = [op EXCEPT ![c] = "sign"]
          /\ grant' = [grant EXCEPT ![c] = g]
          /\ shape' = [shape EXCEPT ![c] = s]
          /\ UNCHANGED code
    /\ UNCHANGED <<cacheVars, phase, row, since, used, vouched>>

\* rate.Allow, before anything else is looked at: refused requests count too.
Allow(c) ==
    /\ at[c] = "found"
    /\ IF Limit = 0 \/ used[grant[c]] < Limit
       THEN /\ Goto(c, "admitted")
            /\ used' = IF Limit = 0 THEN used ELSE [used EXCEPT ![grant[c]] = @ + 1]
            /\ UNCHANGED vouched
       ELSE Refuse(c, "RATE_LIMITED") /\ UNCHANGED used
    /\ UNCHANGED <<cacheVars, phase>>

\* checkScope, commit.Parse and the committer, all of them functions of the
\* request and the entry.
Check(c) ==
    /\ at[c] = "admitted"
    /\ IF shape[c] = "good"
       THEN Goto(c, "checked") /\ UNCHANGED vouched
       ELSE Refuse(c, "SCOPE_DENIED")
    /\ UNCHANGED <<cacheVars, phase, used>>

\* key.Signer: the reference is taken here and used by the next step.
TakeSigner(c) ==
    /\ at[c] = "checked"
    /\ IF phase = "destroyed"
       THEN Refuse(c, "BACKEND_UNREACHABLE")
       ELSE Goto(c, "signing") /\ UNCHANGED vouched
    /\ UNCHANGED <<cacheVars, phase, used>>

\* sshsig.Sign; its only failure is the crypto library's.
SignPayload(c) ==
    /\ at[c] = "signing"
    /\ \/ Goto(c, "signed") /\ UNCHANGED vouched
       \/ Refuse(c, "BACKEND_UNREACHABLE")
    /\ UNCHANGED <<cacheVars, phase, used>>

\* Seeded fault: a failed audit write is only logged.
FaultyAudit(c) ==
    /\ at[c] = "signed"
    /\ \E inserted \in BOOLEAN :
          /\ Answer(c, op[c], grant[c], "OK")
          /\ row' = [row EXCEPT ![c] = inserted]
    /\ UNCHANGED <<cacheVars, phase, used, shape, since, vouched>>

\* insertSignAuditLog under the connection's deadline and the daemon's context:
\* an error leaves open whether the row was committed.
Audit(c) ==
    /\ at[c] = "signed"
    /\ \/ /\ Answer(c, op[c], grant[c], "OK")
          /\ row' = [row EXCEPT ![c] = TRUE]
       \/ \E inserted \in BOOLEAN :
             /\ Answer(c, op[c], grant[c], "BACKEND_UNREACHABLE")
             /\ row' = [row EXCEPT ![c] = inserted]
    /\ UNCHANGED <<cacheVars, phase, used, shape, since, vouched>>

\* writeResult, which may fail, and the deferred Close.
Reply(c) ==
    /\ at[c] = "reply"
    /\ Close(c)
    /\ UNCHANGED <<cacheVars, phase, used, vouched>>

Next ==
    \/ CacheStep
    \/ \E g \in Grants : WindowSlides(g)
    \/ Boot \/ Signal \/ CloseListener \/ ServeReturns \/ Destroy \/ Restart
    \/ \E c \in Conns :
          \/ Accept(c) \/ GiveUp(c) \/ Malformed(c)
          \/ \E g \in Grants, s \in Shapes : Preflight(c, g, s) \/ Lookup(c, g, s)
          \/ Allow(c) \/ Check(c) \/ TakeSigner(c) \/ SignPayload(c) \/ Audit(c)
          \/ Reply(c)

\* Goroutines are scheduled, connDeadline bounds every read, write and query,
\* and main goes on once Serve returns.
Fairness ==
    /\ \A c \in Conns :
          /\ WF_vars(GiveUp(c)) /\ WF_vars(Allow(c)) /\ WF_vars(Check(c))
          /\ WF_vars(TakeSigner(c)) /\ WF_vars(SignPayload(c))
          /\ WF_vars(Audit(c)) /\ WF_vars(Reply(c))
    /\ WF_vars(CloseListener) /\ WF_vars(ServeReturns) /\ WF_vars(Destroy)

SafetySpec == Init /\ [][Next]_vars
Spec == SafetySpec /\ Fairness

-------------------------------------------------------------------------------
(* Properties                                                              *)

TypeOK ==
    /\ dead \subseteq Grants /\ held \subseteq Grants /\ gone \subseteq Grants
    /\ phase \in Phases
    /\ at \in [Conns -> Places]
    /\ op \in [Conns -> {"none", "preflight", "sign"}]
    /\ grant \in [Conns -> Grants \cup {NoGrant}]
    /\ shape \in [Conns -> Shapes]
    /\ code \in [Conns -> Codes]
    /\ row \in [Conns -> BOOLEAN]
    /\ since \in [Conns -> SUBSET Grants]
    /\ used \in [Grants -> Nat]
    /\ vouched \subseteq Grants
    /\ \A c \in Conns :
          /\ at[c] \notin {"idle", "open", "reply"} => grant[c] \in Grants /\ op[c] = "sign"
          /\ at[c] = "reply" <=> code[c] # "none"

\* Past this point a goroutine holds, or has used, the signing key.
UsesKey(c) == at[c] \in {"signing", "signed"}

\* "A lingering reference into a destroyed memguard buffer is an unrecoverable
\* SIGSEGV": nothing is in flight once Serve returned, however late the
\* connection was accepted, so no goroutine meets a destroyed key.
KeyOutlivesItsUsers ==
    phase \in {"served", "destroyed", "boot"} => \A c \in Conns : at[c] = "idle"

\* A grant the cache had let go of before the connection was accepted (its
\* revocation was notified, or a reload missed it) gets no signature from it,
\* whatever reloads ran while the request was being handled.
RevokedBeforeAskedIsRefused ==
    \A c \in Conns :
        UsesKey(c) \/ (op[c] = "sign" /\ code[c] = "OK") => grant[c] \notin since[c]

\* No signature leaves the process without its audit row, and a refusal that
\* did not reach the audit write leaves none.
AuditMatchesSignatures ==
    \A c \in Conns :
        /\ op[c] = "sign" /\ code[c] = "OK" => row[c]
        /\ row[c] => code[c] \in {"OK", "BACKEND_UNREACHABLE"}

\* A shutdown ends: clients that never write do not hold it up.
ShutdownEnds == phase = "stopping" ~> phase \in {"destroyed", "boot"}

\* In this step Sign does not refuse, for one of these reasons, a well-formed
\* request of a grant that Preflight has vouched for and the cache has held alive
\* ever since.
NotRefusedFor(codes) ==
    \A c \in Conns :
        op'[c] = "sign" /\ shape'[c] = "good" /\ grant'[c] \in vouched /\ code[c] = "none"
            => code'[c] \notin codes

\* checkScope's doc comment: "preflight can never say OK to a request Sign would
\* then refuse".
PreflightIsNoFalsePositive ==
    [][NotRefusedFor({"NO_GRANT", "SCOPE_DENIED", "RATE_LIMITED"})]_vars

\* What does hold of it, whatever notices, reloads and other connections come
\* between: only the tripwire, the key or the audit log can still say no.
VouchedIsAuthorized == [][NotRefusedFor({"NO_GRANT", "SCOPE_DENIED"})]_vars
===============================================================================
