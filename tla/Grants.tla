-------------------------------- MODULE Grants --------------------------------
(***************************************************************************)
(* The grants of one subject and the requests it makes for more.  Reviewers*)
(* create, renew and revoke grants and decide requests, each in a          *)
(* transaction at READ COMMITTED.  A transaction's writes appear together  *)
(* at its commit; until then a handler is the place it has reached and the *)
(* row lock it holds there.  A statement that waits for a row looks at it  *)
(* again once it has it, but now() stays the start of the transaction.     *)
(* The database and apiserver share one clock.                             *)
(***************************************************************************)
EXTENDS Integers, FiniteSets

CONSTANTS
    Requests,
    GrantIds,
    Handlers,         \* reviewers' requests being served
    Terms,            \* [kind, scopes, depth] of a grant
    Malformed,        \* terms whose scopes are malformed for their kind
    Ttls,             \* time to live, as the client sends it
    MaxGrantTtl,      \* maxGrantTTLSeconds
    Int4Range,        \* 2^32: requested_ttl_seconds is a Postgres INT
    NoTerms, NoGrant, NoArg,
    Never,            \* the expiry of an open-ended grant
    MaxTime           \* bound on the clock, for model checking

ASSUME GrantsAssumption ==
    /\ Malformed \subseteq Terms
    /\ NoTerms \notin Terms
    /\ NoGrant \notin GrantIds
    /\ Ttls \subseteq Nat \ {0}
    /\ MaxGrantTtl \in Nat
    /\ Int4Range \in Nat \ {0}
    /\ Never \notin Int
    /\ MaxTime \in Nat

VARIABLES
    now,
    terms,            \* grant -> terms, or NoTerms: no row yet
    expiresAt,        \* grant -> grants.expires_at
    revoked,          \* grants with a revoked_at
    status,           \* grant_requests.status, "none": no row yet
    asked,            \* kind, scopes and depth of a request
    ttl,              \* requested_ttl_seconds, or Never: NULL
    wanted,           \* history: the time to live the agent sent
    result,           \* resulting_grant_id
    pc,               \* how far a handler has come
    arg,              \* the request, grant or terms it works on
    txNow,            \* now() in its transaction
    newExpiry         \* the expires_at it is going to write

grantVars == <<terms, expiresAt, revoked>>
requestVars == <<status, asked, ttl, wanted, result>>
handlerVars == <<pc, arg, txNow, newExpiry>>
consentVars == <<now, grantVars, requestVars, handlerVars>>

PCs == {"idle", "creating", "approving", "approved", "renewing", "renewed"}

-------------------------------------------------------------------------------
Exists(g) == terms[g] # NoTerms
Unexpired(e, t) == e = Never \/ e > t

\* revoked_at IS NULL AND (expires_at IS NULL OR expires_at > now()): what a
\* query that starts now finds.
Active(g) ==
    /\ Exists(g)
    /\ g \notin revoked
    /\ Unexpired(expiresAt[g], now)

ActiveGrants == {g \in GrantIds : Active(g)}

\* int32(ttl), Go's conversion: the low bits, as a signed number.
ToInt4(n) ==
    LET low == n % Int4Range
    IN  IF 2 * low < Int4Range THEN low ELSE low - Int4Range

\* validateScopesForKind, and the primary key that refuses a repeated scope.
ValidScopes(t) == t \notin Malformed

\* FOR UPDATE on the request, by LoadGrantRequestForUpdate.
RequestLocked(r) == \E h \in Handlers : pc[h] = "approved" /\ arg[h] = r

\* The row lock of an UPDATE that has not been committed.
GrantLocked(g) == \E h \in Handlers : pc[h] = "renewed" /\ arg[h] = g

ConsentInit ==
    /\ now = 0
    /\ terms = [g \in GrantIds |-> NoTerms]
    /\ expiresAt = [g \in GrantIds |-> Never]
    /\ revoked = {}
    /\ status = [r \in Requests |-> "none"]
    /\ asked = [r \in Requests |-> NoTerms]
    /\ ttl = [r \in Requests |-> Never]
    /\ wanted = [r \in Requests |-> Never]
    /\ result = [r \in Requests |-> NoGrant]
    /\ pc = [h \in Handlers |-> "idle"]
    /\ arg = [h \in Handlers |-> NoArg]
    /\ txNow = [h \in Handlers |-> 0]
    /\ newExpiry = [h \in Handlers |-> Never]

Tick ==
    /\ now < MaxTime
    /\ now' = now + 1
    /\ UNCHANGED <<grantVars, requestVars, handlerVars>>

-------------------------------------------------------------------------------
(* Requests                                                                *)

InsertGrantRequest(r, t, stored, sent) ==
    /\ status[r] = "none"
    /\ status' = [status EXCEPT ![r] = "pending"]
    /\ asked' = [asked EXCEPT ![r] = t]
    /\ ttl' = [ttl EXCEPT ![r] = stored]
    /\ wanted' = [wanted EXCEPT ![r] = sent]
    /\ UNCHANGED <<now, grantVars, result, handlerVars>>

\* Seeded fault: a time to live that does not fit counts as none.
FaultyRequestGrant(r, t, sent) ==
    /\ ValidScopes(t)
    /\ IF sent = Never \/ ToInt4(sent) <= 0
       THEN InsertGrantRequest(r, t, Never, sent)
       ELSE InsertGrantRequest(r, t, ToInt4(sent), sent)

\* agentRequestGrant and RequestGrant.  The column is an INT with a CHECK that it
\* is positive; no time to live asked for is no time to live.
RequestGrant(r, t, sent) ==
    /\ ValidScopes(t)
    /\ IF sent = Never
       THEN InsertGrantRequest(r, t, Never, Never)
       ELSE ToInt4(sent) > 0 /\ InsertGrantRequest(r, t, ToInt4(sent), sent)

\* A row that reached the table some other way.
SmuggleRequest(r, t) ==
    /\ ~ValidScopes(t)
    /\ InsertGrantRequest(r, t, Never, Never)

\* DenyGrantRequest: one UPDATE ... WHERE status = 'pending' with its audit row;
\* it waits for the row and then sees what the holder left.
DenyGrantRequest(r) ==
    /\ status[r] = "pending"
    /\ ~RequestLocked(r)
    /\ status' = [status EXCEPT ![r] = "denied"]
    /\ UNCHANGED <<now, grantVars, asked, ttl, wanted, result, handlerVars>>

-------------------------------------------------------------------------------
(* The handlers                                                            *)

\* Commit or rollback: the locks are released and the request is answered.
Finish(h) ==
    /\ pc' = [pc EXCEPT ![h] = "idle"]
    /\ arg' = [arg EXCEPT ![h] = NoArg]
    /\ txNow' = [txNow EXCEPT ![h] = 0]
    /\ newExpiry' = [newExpiry EXCEPT ![h] = Never]

Begin(h, label, a, expiry) ==
    /\ pc[h] = "idle"
    /\ pc' = [pc EXCEPT ![h] = label]
    /\ arg' = [arg EXCEPT ![h] = a]
    /\ txNow' = [txNow EXCEPT ![h] = now]
    /\ newExpiry' = [newExpiry EXCEPT ![h] = expiry]
    /\ UNCHANGED <<now, grantVars, requestVars>>

\* InsertGrant and InsertGrantScope, visible from the commit on.
InsertGrant(g, t, expiry) ==
    /\ ~Exists(g)
    /\ terms' = [terms EXCEPT ![g] = t]
    /\ expiresAt' = [expiresAt EXCEPT ![g] = expiry]
    /\ UNCHANGED revoked

After(n) == IF n = Never THEN Never ELSE now + n

\* createGrant and CreateGrant up to the transaction: the expiry is reckoned
\* before it begins.  The route gives memory grants, CreateGrant both kinds.
BeginCreate(h, t, n) ==
    /\ ValidScopes(t)
    /\ n # Never => n <= MaxGrantTtl
    /\ Begin(h, "creating", t, After(n))

CommitCreate(h, g) ==
    /\ pc[h] = "creating"
    /\ InsertGrant(g, arg[h], newExpiry[h])
    /\ Finish(h)
    /\ UNCHANGED <<now, requestVars>>

\* approveGrantRequest: the request exists, and ApproveGrantRequest begins.
BeginApprove(h, r) ==
    /\ status[r] # "none"
    /\ Begin(h, "approving", r, Never)

\* Seeded fault: what matters is that the request was pending when it was shown.
FaultyLockRequest(h) ==
    /\ pc[h] = "approving"
    /\ pc' = [pc EXCEPT ![h] = "approved"]
    /\ newExpiry' = [newExpiry EXCEPT ![h] = After(ttl[arg[h]])]
    /\ UNCHANGED <<arg, txNow, now, grantVars, requestVars>>

\* LoadGrantRequestForUpdate, after waiting for the row: still pending and well
\* formed, or no grant.  The expiry is reckoned under the lock.
LockRequest(h) ==
    /\ pc[h] = "approving"
    /\ ~RequestLocked(arg[h])
    /\ IF status[arg[h]] = "pending" /\ ValidScopes(asked[arg[h]])
       THEN /\ pc' = [pc EXCEPT ![h] = "approved"]
            /\ newExpiry' = [newExpiry EXCEPT ![h] = After(ttl[arg[h]])]
            /\ UNCHANGED <<arg, txNow>>
       ELSE Finish(h)
    /\ UNCHANGED <<now, grantVars, requestVars>>

CommitApprove(h, g) ==
    LET r == arg[h]
    IN  /\ pc[h] = "approved"
        /\ InsertGrant(g, asked[r], newExpiry[h])
        /\ status' = [status EXCEPT ![r] = "approved"]
        /\ result' = [result EXCEPT ![r] = g]
        /\ Finish(h)
        /\ UNCHANGED <<now, asked, ttl, wanted>>

\* RenewGrant: BEGIN fixes now(), and the new expiry is reckoned right after it.
BeginRenew(h, g, n) ==
    /\ n <= MaxGrantTtl
    /\ Exists(g)
    /\ Begin(h, "renewing", g, now + n)

\* Seeded fault: the kind is not asked for and the expiry is not looked at.
FaultyRenewable(h, g) == g \notin revoked

\* WHERE revoked_at IS NULL AND (expires_at IS NULL OR expires_at > now()) AND
\* kind = 'memory'
Renewable(h, g) ==
    /\ g \notin revoked
    /\ Unexpired(expiresAt[g], txNow[h])
    /\ terms[g].kind = "memory"

\* UPDATE grants SET expires_at, after waiting for the row.
LockGrant(h) ==
    /\ pc[h] = "renewing"
    /\ ~GrantLocked(arg[h])
    /\ IF Renewable(h, arg[h])
       THEN pc' = [pc EXCEPT ![h] = "renewed"] /\ UNCHANGED <<arg, txNow, newExpiry>>
       ELSE Finish(h)
    /\ UNCHANGED <<now, grantVars, requestVars>>

CommitRenew(h) ==
    /\ pc[h] = "renewed"
    /\ expiresAt' = [expiresAt EXCEPT ![arg[h]] = newExpiry[h]]
    /\ Finish(h)
    /\ UNCHANGED <<now, terms, revoked, requestVars>>

\* RevokeGrant: one UPDATE ... WHERE revoked_at IS NULL with its audit row.
RevokeGrant(g) ==
    /\ Exists(g)
    /\ g \notin revoked
    /\ ~GrantLocked(g)
    /\ revoked' = revoked \cup {g}
    /\ UNCHANGED <<now, terms, expiresAt, requestVars, handlerVars>>

\* A statement fails, the client or the connection is gone, or the process dies.
Rollback(h) ==
    /\ pc[h] # "idle"
    /\ Finish(h)
    /\ UNCHANGED <<now, grantVars, requestVars>>

RequestStep ==
    \E r \in Requests :
        \/ \E t \in Terms, n \in Ttls \cup {Never} : RequestGrant(r, t, n)
        \/ \E t \in Terms : SmuggleRequest(r, t)
        \/ DenyGrantRequest(r)

HandlerStep ==
    \E h \in Handlers :
        \/ \E t \in Terms, n \in Ttls \cup {Never} : BeginCreate(h, t, n)
        \/ \E g \in GrantIds : CommitCreate(h, g)
        \/ \E r \in Requests : BeginApprove(h, r)
        \/ LockRequest(h)
        \/ \E g \in GrantIds : CommitApprove(h, g)
        \/ \E g \in GrantIds, n \in Ttls : BeginRenew(h, g, n)
        \/ LockGrant(h)
        \/ CommitRenew(h)
        \/ Rollback(h)

ConsentNext ==
    \/ Tick
    \/ RequestStep
    \/ HandlerStep
    \/ \E g \in GrantIds : RevokeGrant(g)

ConsentSpec == ConsentInit /\ [][ConsentNext]_consentVars

-------------------------------------------------------------------------------
(* Properties                                                              *)

Expiries == Int \cup {Never}

ConsentTypeOK ==
    /\ now \in 0 .. MaxTime
    /\ terms \in [GrantIds -> Terms \cup {NoTerms}]
    /\ expiresAt \in [GrantIds -> Expiries]
    /\ revoked \subseteq GrantIds
    /\ status \in [Requests -> {"none", "pending", "approved", "denied"}]
    /\ asked \in [Requests -> Terms \cup {NoTerms}]
    /\ ttl \in [Requests -> Expiries]
    /\ wanted \in [Requests -> Expiries]
    /\ result \in [Requests -> GrantIds \cup {NoGrant}]
    /\ pc \in [Handlers -> PCs]
    /\ arg \in [Handlers -> Requests \cup GrantIds \cup Terms \cup {NoArg}]
    /\ txNow \in [Handlers -> Nat]
    /\ newExpiry \in [Handlers -> Expiries]

\* grant_requests.go:196: a grant that an agent asked to have for a limited time is
\* one that ends, no later than that time after it was given, though the number
\* went through a conversion to int32 and the approval through a row lock.
NeverLongerThanAsked ==
    [][\A r \in Requests :
          (result[r] = NoGrant /\ result'[r] # NoGrant /\ wanted[r] # Never) =>
              /\ expiresAt'[result'[r]] # Never
              /\ expiresAt'[result'[r]] <= now + wanted[r]]_consentVars

\* grants.go:401: an expiry changes only on a memory grant nobody has revoked, that
\* had not lapsed when the renewal's transaction began; so a lapse or a revocation
\* is final for everyone who comes after it.
ProlongedOnlyWhileOpen ==
    [][\A g \in GrantIds :
          (Exists(g) /\ expiresAt'[g] # expiresAt[g]) =>
              /\ terms[g].kind = "memory"
              /\ g \notin revoked'
              /\ \E h \in Handlers :
                    arg[h] = g /\ Unexpired(expiresAt[g], txNow[h])]_consentVars

\* grants.go:403: renewal is "a lightweight continuation of an already-live
\* authorization, not a way to reinstate one that already lapsed": a grant that
\* has lapsed is never in force again.
LapsedStaysLapsed ==
    [][\A g \in GrantIds :
          (Exists(g) /\ ~Unexpired(expiresAt[g], now)) =>
              ~Unexpired(expiresAt'[g], now')]_consentVars

\* The refinement: every decision takes effect at its commit, whatever happens
\* between, and a renewal changes nothing but the expiry.
Contract == INSTANCE ConsentContract
ImplementsContract == Contract!Spec
===============================================================================
