---------------------------- MODULE Grants_proofs -----------------------------
(***************************************************************************)
(* Proofs about Grants, for any requests, grants and handlers.  The        *)
(* inductive invariant adds to the types what a handler works on           *)
(* (ArgsKnown), what the row locks guarantee while they are held           *)
(* (RequestLocksHold, GrantLocksHold), and that a time to live only ever   *)
(* gets shorter on its way to the grant (TtlsShrink).                      *)
(***************************************************************************)
EXTENDS Grants, TLAPS

Approving == {"approving", "approved"}
Renewing == {"renewing", "renewed"}

ArgsKnown ==
    /\ \A r \in Requests : status[r] # "none" => asked[r] \in Terms
    /\ \A h \in Handlers :
          /\ pc[h] = "creating" => arg[h] \in Terms
          /\ pc[h] \in Approving => arg[h] \in Requests /\ status[arg[h]] # "none"
          /\ pc[h] \in Renewing => arg[h] \in GrantIds /\ Exists(arg[h])

RequestLocksHold ==
    /\ \A h \in Handlers : pc[h] = "approved" => status[arg[h]] = "pending"
    /\ \A h, k \in Handlers :
          pc[h] = "approved" /\ pc[k] = "approved" /\ arg[h] = arg[k] => h = k

GrantLocksHold ==
    /\ \A h \in Handlers : pc[h] = "renewed" => Renewable(h, arg[h])
    /\ \A h, k \in Handlers :
          pc[h] = "renewed" /\ pc[k] = "renewed" /\ arg[h] = arg[k] => h = k

TtlsShrink ==
    /\ \A r \in Requests :
          status[r] # "none" /\ wanted[r] # Never =>
              wanted[r] \in Nat /\ ttl[r] \in Int /\ ttl[r] <= wanted[r]
    /\ \A h \in Handlers :
          pc[h] = "approved" /\ wanted[arg[h]] # Never =>
              newExpiry[h] \in Int /\ newExpiry[h] <= now + wanted[arg[h]]

ConsentInv ==
    /\ ConsentTypeOK
    /\ ArgsKnown
    /\ RequestLocksHold
    /\ GrantLocksHold
    /\ TtlsShrink

-------------------------------------------------------------------------------
(* Helpers                                                                 *)

\* The conversion to int32 yields a number, and none above the one it is given.
LEMMA ToInt4Bounds == \A n \in Nat : ToInt4(n) \in Int /\ ToInt4(n) <= n
<1> USE GrantsAssumption
<1> TAKE n \in Nat
<1> DEFINE low == n % Int4Range
<1>1. low \in 0 .. Int4Range - 1
  OBVIOUS
<1>2. low <= n
  <2>1. n = Int4Range * (n \div Int4Range) + low
    OBVIOUS
  <2>2. n \div Int4Range \in Nat
    OBVIOUS
  <2>3. Int4Range * (n \div Int4Range) \in Nat
    BY <2>2
  <2> QED BY <1>1, <2>1, <2>3
<1> QED BY <1>1, <1>2 DEF ToInt4

\* What Finish leaves is well typed, and it ends one handler only.
LEMMA FinishFrame ==
  ASSUME ConsentTypeOK, NEW h \in Handlers, Finish(h)
  PROVE  /\ pc' \in [Handlers -> PCs]
         /\ arg' \in [Handlers -> Requests \cup GrantIds \cup Terms \cup {NoArg}]
         /\ txNow' \in [Handlers -> Nat]
         /\ newExpiry' \in [Handlers -> Expiries]
         /\ pc'[h] = "idle"
         /\ \A k \in Handlers \ {h} :
               /\ pc'[k] = pc[k] /\ arg'[k] = arg[k]
               /\ txNow'[k] = txNow[k] /\ newExpiry'[k] = newExpiry[k]
BY DEF Finish, ConsentTypeOK, PCs, Expiries

\* What a handler does next, and what the steps that are nobody's do.
LEMMA ConsentCases ==
  ASSUME [ConsentNext]_consentVars
  PROVE  \/ Tick
         \/ \E r \in Requests :
               \/ \E t \in Terms, n \in Ttls \cup {Never} : RequestGrant(r, t, n)
               \/ \E t \in Terms : SmuggleRequest(r, t)
               \/ DenyGrantRequest(r)
         \/ \E h \in Handlers : 
               \/ \E t \in Terms, n \in Ttls \cup {Never} : BeginCreate(h, t, n)
               \/ \E g \in GrantIds : CommitCreate(h, g)
               \/ \E r \in Requests : BeginApprove(h, r)
               \/ LockRequest(h)
               \/ \E g \in GrantIds : CommitApprove(h, g)
               \/ \E g \in GrantIds, n \in Ttls : BeginRenew(h, g, n)
               \/ LockGrant(h)
               \/ CommitRenew(h)
               \/ Rollback(h)
         \/ \E g \in GrantIds : RevokeGrant(g)
         \/ UNCHANGED consentVars
BY DEF ConsentNext, RequestStep, HandlerStep

\* A request is inserted with a time to live that is no longer than the one sent.
LEMMA RequestCases ==
  ASSUME NEW r \in Requests, NEW t \in Terms,
         \/ \E n \in Ttls \cup {Never} : RequestGrant(r, t, n)
         \/ SmuggleRequest(r, t)
  PROVE  \E sent \in Nat \cup {Never}, stored \in Expiries :
            /\ InsertGrantRequest(r, t, stored, sent)
            /\ sent # Never => sent \in Nat /\ stored \in Int /\ stored <= sent
<1> USE GrantsAssumption DEF Expiries
<1>1. CASE SmuggleRequest(r, t)
  <2>1. InsertGrantRequest(r, t, Never, Never)
    BY <1>1 DEF SmuggleRequest
  <2> QED BY <2>1
<1>2. CASE \E n \in Ttls \cup {Never} : RequestGrant(r, t, n)
  <2>1. PICK n \in Ttls \cup {Never} : RequestGrant(r, t, n)
    BY <1>2
  <2>2. CASE n = Never
    <3>1. InsertGrantRequest(r, t, Never, Never)
      BY <2>1, <2>2 DEF RequestGrant
    <3> QED BY <3>1
  <2>3. CASE n # Never
    <3>1. n \in Nat /\ InsertGrantRequest(r, t, ToInt4(n), n)
      BY <2>1, <2>3 DEF RequestGrant
    <3> QED BY <3>1, ToInt4Bounds
  <2> QED BY <2>2, <2>3
<1> QED BY <1>1, <1>2

-------------------------------------------------------------------------------
(* Type correctness                                                        *)

LEMMA ConsentTypeInit == ConsentInit => ConsentTypeOK
BY GrantsAssumption DEF ConsentInit, ConsentTypeOK, PCs, Expiries

LEMMA AfterType ==
  ASSUME ConsentTypeOK, NEW n \in Expiries
  PROVE  After(n) \in Expiries
BY DEF ConsentTypeOK, After, Expiries

LEMMA BeginType ==
  ASSUME ConsentTypeOK, NEW h \in Handlers, NEW l \in PCs,
         NEW a \in Requests \cup GrantIds \cup Terms, NEW e \in Expiries, Begin(h, l, a, e)
  PROVE  ConsentTypeOK'
BY DEF ConsentTypeOK, Begin, grantVars, requestVars

LEMMA ConsentTypeNext == ConsentTypeOK /\ ArgsKnown /\ [ConsentNext]_consentVars => ConsentTypeOK'
<1> SUFFICES ASSUME ConsentTypeOK, ArgsKnown, [ConsentNext]_consentVars PROVE ConsentTypeOK'
  OBVIOUS
<1> USE GrantsAssumption
<1>1. CASE Tick
  BY <1>1 DEF Tick, ConsentTypeOK, grantVars, requestVars, handlerVars
<1>2. ASSUME NEW r \in Requests, NEW t \in Terms, NEW sent \in Nat \cup {Never},
             NEW stored \in Expiries, InsertGrantRequest(r, t, stored, sent)
      PROVE  ConsentTypeOK'
  BY <1>2 DEF InsertGrantRequest, ConsentTypeOK, grantVars, handlerVars, Expiries
<1>3. ASSUME NEW r \in Requests, DenyGrantRequest(r) PROVE ConsentTypeOK'
  BY <1>3 DEF DenyGrantRequest, ConsentTypeOK, grantVars, handlerVars
<1>4. ASSUME NEW h \in Handlers, NEW t \in Terms, NEW n \in Ttls \cup {Never},
             BeginCreate(h, t, n)
      PROVE  ConsentTypeOK'
  <2>1. After(n) \in Expiries
    BY AfterType DEF Expiries
  <2> QED BY <1>4, <2>1, BeginType DEF BeginCreate, PCs
<1>5. ASSUME NEW h \in Handlers, NEW r \in Requests, BeginApprove(h, r) PROVE ConsentTypeOK'
  BY <1>5, BeginType DEF BeginApprove, PCs, Expiries
<1>6. ASSUME NEW h \in Handlers, NEW g \in GrantIds, NEW n \in Ttls, BeginRenew(h, g, n)
      PROVE  ConsentTypeOK'
  <2>1. now + n \in Expiries
    BY DEF ConsentTypeOK, Expiries
  <2> QED BY <1>6, <2>1, BeginType DEF BeginRenew, PCs
<1>7. ASSUME NEW h \in Handlers, NEW g \in GrantIds, CommitCreate(h, g) PROVE ConsentTypeOK'
  <2>1. arg[h] \in Terms /\ newExpiry[h] \in Expiries
    BY <1>7 DEF CommitCreate, ArgsKnown, ConsentTypeOK
  <2>2. Finish(h) /\ UNCHANGED <<now, revoked, requestVars>>
    BY <1>7 DEF CommitCreate, InsertGrant
  <2>3. /\ terms' \in [GrantIds -> Terms \cup {NoTerms}]
        /\ expiresAt' \in [GrantIds -> Expiries]
    BY <1>7, <2>1 DEF CommitCreate, InsertGrant, ConsentTypeOK
  <2> QED BY <2>2, <2>3, FinishFrame DEF ConsentTypeOK, requestVars
<1>8. ASSUME NEW h \in Handlers, LockRequest(h) PROVE ConsentTypeOK'
  <2>1. UNCHANGED <<now, grantVars, requestVars>>
    BY <1>8 DEF LockRequest
  <2>2. CASE Finish(h)
    BY <2>1, <2>2, FinishFrame DEF ConsentTypeOK, grantVars, requestVars
  <2>3. CASE ~Finish(h)
    <3>1. /\ pc' = [pc EXCEPT ![h] = "approved"]
          /\ newExpiry' = [newExpiry EXCEPT ![h] = After(ttl[arg[h]])]
          /\ UNCHANGED <<arg, txNow>>
      BY <1>8, <2>3 DEF LockRequest
    <3>2. arg[h] \in Requests
      BY <1>8 DEF LockRequest, ArgsKnown, Approving
    <3>3. After(ttl[arg[h]]) \in Expiries
      BY <3>2, AfterType DEF ConsentTypeOK
    <3> QED BY <2>1, <3>1, <3>3 DEF ConsentTypeOK, PCs, grantVars, requestVars
  <2> QED BY <2>2, <2>3
<1>9. ASSUME NEW h \in Handlers, NEW g \in GrantIds, CommitApprove(h, g) PROVE ConsentTypeOK'
  <2>1. arg[h] \in Requests /\ asked[arg[h]] \in Terms /\ newExpiry[h] \in Expiries
    BY <1>9 DEF CommitApprove, ArgsKnown, Approving, ConsentTypeOK
  <2>2. Finish(h) /\ UNCHANGED <<now, revoked, asked, ttl, wanted>>
    BY <1>9 DEF CommitApprove, InsertGrant
  <2>3. /\ terms' \in [GrantIds -> Terms \cup {NoTerms}]
        /\ expiresAt' \in [GrantIds -> Expiries]
        /\ status' \in [Requests -> {"none", "pending", "approved", "denied"}]
        /\ result' \in [Requests -> GrantIds \cup {NoGrant}]
    BY <1>9, <2>1 DEF CommitApprove, InsertGrant, ConsentTypeOK
  <2> QED BY <2>2, <2>3, FinishFrame DEF ConsentTypeOK
<1>10. ASSUME NEW h \in Handlers, LockGrant(h) PROVE ConsentTypeOK'
  <2>1. UNCHANGED <<now, grantVars, requestVars>>
    BY <1>10 DEF LockGrant
  <2>2. CASE Finish(h)
    BY <2>1, <2>2, FinishFrame DEF ConsentTypeOK, grantVars, requestVars
  <2>3. CASE pc' = [pc EXCEPT ![h] = "renewed"] /\ UNCHANGED <<arg, txNow, newExpiry>>
    BY <2>1, <2>3 DEF ConsentTypeOK, PCs, grantVars, requestVars
  <2> QED BY <1>10, <2>2, <2>3 DEF LockGrant
<1>11. ASSUME NEW h \in Handlers, CommitRenew(h) PROVE ConsentTypeOK'
  <2>1. expiresAt' \in [GrantIds -> Expiries]
    BY <1>11 DEF CommitRenew, ConsentTypeOK
  <2> QED BY <1>11, <2>1, FinishFrame DEF CommitRenew, ConsentTypeOK, requestVars
<1>12. ASSUME NEW h \in Handlers, Rollback(h) PROVE ConsentTypeOK'
  BY <1>12, FinishFrame DEF Rollback, ConsentTypeOK, grantVars, requestVars
<1>13. ASSUME NEW g \in GrantIds, RevokeGrant(g) PROVE ConsentTypeOK'
  BY <1>13 DEF RevokeGrant, ConsentTypeOK, requestVars, handlerVars
<1>14. CASE UNCHANGED consentVars
  BY <1>14 DEF ConsentTypeOK, consentVars, grantVars, requestVars, handlerVars
<1>15. ASSUME NEW r \in Requests, NEW t \in Terms,
              \/ \E n \in Ttls \cup {Never} : RequestGrant(r, t, n)
              \/ SmuggleRequest(r, t)
       PROVE  ConsentTypeOK'
  BY <1>2, <1>15, RequestCases
<1> QED BY <1>1, <1>3, <1>4, <1>5, <1>6, <1>7, <1>8, <1>9, <1>10, <1>11, <1>12, <1>13,
           <1>14, <1>15, ConsentCases

-------------------------------------------------------------------------------
(* Rows that are there stay as they are                                    *)

RowsStayPut ==
    /\ \A r \in Requests : status[r] # "none" =>
          status'[r] # "none" /\ asked'[r] = asked[r] /\ ttl'[r] = ttl[r] /\ wanted'[r] = wanted[r]
    /\ \A g \in GrantIds : Exists(g) => terms'[g] = terms[g]
    /\ revoked \subseteq revoked'
    /\ now' >= now

LEMMA RowsNext == ConsentTypeOK /\ ArgsKnown /\ [ConsentNext]_consentVars => RowsStayPut
<1> SUFFICES ASSUME ConsentTypeOK, ArgsKnown, [ConsentNext]_consentVars PROVE RowsStayPut
  OBVIOUS
<1> USE GrantsAssumption DEF RowsStayPut, ConsentTypeOK, Exists
<1>1. CASE Tick
  BY <1>1 DEF Tick, grantVars, requestVars
<1>2. ASSUME NEW r \in Requests, NEW t \in Terms, NEW sent \in Nat \cup {Never},
             NEW stored \in Expiries, InsertGrantRequest(r, t, stored, sent)
      PROVE  RowsStayPut
  BY <1>2 DEF InsertGrantRequest, grantVars
<1>3. ASSUME NEW r \in Requests, NEW t \in Terms,
             \/ \E n \in Ttls \cup {Never} : RequestGrant(r, t, n)
             \/ SmuggleRequest(r, t)
      PROVE  RowsStayPut
  BY <1>2, <1>3, RequestCases
<1>4. ASSUME NEW r \in Requests, DenyGrantRequest(r) PROVE RowsStayPut
  BY <1>4 DEF DenyGrantRequest, grantVars
<1>5. ASSUME UNCHANGED <<now, grantVars, requestVars>> PROVE RowsStayPut
  BY <1>5 DEF grantVars, requestVars
<1>6. ASSUME NEW h \in Handlers,
             \/ \E t \in Terms, n \in Ttls \cup {Never} : BeginCreate(h, t, n)
             \/ \E r \in Requests : BeginApprove(h, r)
             \/ \E g \in GrantIds, n \in Ttls : BeginRenew(h, g, n)
             \/ LockRequest(h) \/ LockGrant(h) \/ Rollback(h)
      PROVE  RowsStayPut
  BY <1>5, <1>6 DEF BeginCreate, BeginApprove, BeginRenew, Begin, LockRequest, LockGrant,
                    Rollback
<1>7. ASSUME NEW h \in Handlers, NEW g \in GrantIds, CommitCreate(h, g) PROVE RowsStayPut
  BY <1>7 DEF CommitCreate, InsertGrant, requestVars
<1>8. ASSUME NEW h \in Handlers, NEW g \in GrantIds, CommitApprove(h, g) PROVE RowsStayPut
  BY <1>8 DEF CommitApprove, InsertGrant
<1>9. ASSUME NEW h \in Handlers, CommitRenew(h) PROVE RowsStayPut
  BY <1>9 DEF CommitRenew, requestVars
<1>10. ASSUME NEW g \in GrantIds, RevokeGrant(g) PROVE RowsStayPut
  BY <1>10 DEF RevokeGrant, requestVars
<1>11. CASE UNCHANGED consentVars
  BY <1>5, <1>11 DEF consentVars
<1> QED BY <1>1, <1>3, <1>4, <1>6, <1>7, <1>8, <1>9, <1>10, <1>11, ConsentCases

-------------------------------------------------------------------------------
(* What handlers work on                                                   *)

\* Every step leaves a handler alone, ends it, begins it or moves it one place on.
HandlerMoves(k) ==
    \/ UNCHANGED <<pc[k], arg[k], txNow[k], newExpiry[k]>>
    \/ pc'[k] = "idle"
    \/ /\ pc'[k] = "creating"
       /\ arg'[k] \in Terms
    \/ /\ pc'[k] = "approving"
       /\ arg'[k] \in Requests /\ status[arg'[k]] # "none"
    \/ /\ pc'[k] = "renewing"
       /\ arg'[k] \in GrantIds /\ Exists(arg'[k])
    \/ /\ pc[k] = "approving" /\ pc'[k] = "approved" /\ arg'[k] = arg[k]
       /\ LockRequest(k)
       /\ newExpiry'[k] = After(ttl[arg[k]])
       /\ status[arg[k]] = "pending"
    \/ /\ pc[k] = "renewing" /\ pc'[k] = "renewed" /\ arg'[k] = arg[k] /\ txNow'[k] = txNow[k]
       /\ LockGrant(k)
       /\ Renewable(k, arg[k])

LEMMA HandlersNext ==
  ConsentTypeOK /\ [ConsentNext]_consentVars => \A k \in Handlers : HandlerMoves(k)
<1> SUFFICES ASSUME ConsentTypeOK, [ConsentNext]_consentVars, NEW k \in Handlers
             PROVE  HandlerMoves(k)
  OBVIOUS
<1> USE GrantsAssumption
<1>1. ASSUME UNCHANGED handlerVars PROVE HandlerMoves(k)
  BY <1>1 DEF handlerVars, HandlerMoves
<1>2. ASSUME NEW h \in Handlers, Finish(h) PROVE HandlerMoves(k)
  BY <1>2, FinishFrame DEF HandlerMoves
<1>3. ASSUME NEW h \in Handlers, NEW l \in PCs, NEW a, NEW e, Begin(h, l, a, e), k # h
      PROVE  HandlerMoves(k)
  BY <1>3 DEF Begin, HandlerMoves, ConsentTypeOK
<1>4. ASSUME NEW l \in PCs, NEW a, NEW e, Begin(k, l, a, e) PROVE pc'[k] = l /\ arg'[k] = a
  BY <1>4 DEF Begin, ConsentTypeOK
<1>5. ASSUME NEW h \in Handlers, NEW t \in Terms, NEW n \in Ttls \cup {Never}, BeginCreate(h, t, n)
      PROVE  HandlerMoves(k)
  <2>1. "creating" \in PCs /\ Begin(h, "creating", t, After(n))
    BY <1>5 DEF BeginCreate, PCs
  <2>2. CASE h = k
    BY <1>4, <2>1, <2>2 DEF HandlerMoves
  <2> QED BY <1>3, <2>1, <2>2
<1>6. ASSUME NEW h \in Handlers, NEW r \in Requests, BeginApprove(h, r) PROVE HandlerMoves(k)
  <2>1. "approving" \in PCs /\ status[r] # "none" /\ Begin(h, "approving", r, Never)
    BY <1>6 DEF BeginApprove, PCs
  <2>2. CASE h = k
    BY <1>4, <2>1, <2>2 DEF HandlerMoves
  <2> QED BY <1>3, <2>1, <2>2
<1>7. ASSUME NEW h \in Handlers, NEW g \in GrantIds, NEW n \in Ttls, BeginRenew(h, g, n)
      PROVE  HandlerMoves(k)
  <2>1. "renewing" \in PCs /\ Exists(g) /\ Begin(h, "renewing", g, now + n)
    BY <1>7 DEF BeginRenew, PCs
  <2>2. CASE h = k
    BY <1>4, <2>1, <2>2 DEF HandlerMoves
  <2> QED BY <1>3, <2>1, <2>2
<1>8. ASSUME NEW h \in Handlers, LockRequest(h) PROVE HandlerMoves(k)
  <2>1. CASE Finish(h)
    BY <1>2, <2>1
  <2>2. CASE ~Finish(h)
    <3>1. /\ pc[h] = "approving" /\ status[arg[h]] = "pending"
          /\ pc' = [pc EXCEPT ![h] = "approved"]
          /\ newExpiry' = [newExpiry EXCEPT ![h] = After(ttl[arg[h]])]
          /\ UNCHANGED <<arg, txNow>>
      BY <1>8, <2>2 DEF LockRequest
    <3>2. CASE h = k
      <4>1. /\ pc'[k] = "approved" /\ arg'[k] = arg[k]
            /\ newExpiry'[k] = After(ttl[arg[k]])
        BY <3>1, <3>2 DEF ConsentTypeOK
      <4> QED BY <1>8, <3>1, <3>2, <4>1 DEF HandlerMoves
    <3>3. CASE h # k
      BY <3>1, <3>3 DEF HandlerMoves, ConsentTypeOK
    <3> QED BY <3>2, <3>3
  <2> QED BY <2>1, <2>2
<1>9. ASSUME NEW h \in Handlers, LockGrant(h) PROVE HandlerMoves(k)
  <2>1. CASE Finish(h)
    BY <1>2, <2>1
  <2>2. CASE ~Finish(h)
    <3>1. /\ pc[h] = "renewing" /\ Renewable(h, arg[h])
          /\ pc' = [pc EXCEPT ![h] = "renewed"]
          /\ UNCHANGED <<arg, txNow, newExpiry>>
      BY <1>9, <2>2 DEF LockGrant
    <3>2. CASE h = k
      <4>1. pc'[k] = "renewed" /\ arg'[k] = arg[k] /\ txNow'[k] = txNow[k]
        BY <3>1, <3>2 DEF ConsentTypeOK
      <4> QED BY <1>9, <3>1, <3>2, <4>1 DEF HandlerMoves
    <3>3. CASE h # k
      BY <3>1, <3>3 DEF HandlerMoves, ConsentTypeOK
    <3> QED BY <3>2, <3>3
  <2> QED BY <2>1, <2>2
<1>10. ASSUME NEW h \in Handlers,
              \/ \E g \in GrantIds : CommitCreate(h, g) \/ CommitApprove(h, g)
              \/ CommitRenew(h) \/ Rollback(h)
       PROVE  HandlerMoves(k)
  BY <1>2, <1>10 DEF CommitCreate, CommitApprove, CommitRenew, Rollback
<1>11. ASSUME NEW r \in Requests, NEW t \in Terms,
              \/ \E n \in Ttls \cup {Never} : RequestGrant(r, t, n)
              \/ SmuggleRequest(r, t)
       PROVE  HandlerMoves(k)
  BY <1>1, <1>11, RequestCases DEF InsertGrantRequest
<1>12. ASSUME \/ Tick
              \/ \E r \in Requests : DenyGrantRequest(r)
              \/ \E g \in GrantIds : RevokeGrant(g)
              \/ UNCHANGED consentVars
       PROVE  HandlerMoves(k)
  BY <1>1, <1>12 DEF Tick, DenyGrantRequest, RevokeGrant, consentVars
<1> QED BY <1>5, <1>6, <1>7, <1>8, <1>9, <1>10, <1>11, <1>12, ConsentCases

-------------------------------------------------------------------------------
(* Who changes what                                                        *)

\* The steps that leave the requests alone.
Quiet ==
    \/ Tick
    \/ \E h \in Handlers :
          \/ \E t \in Terms, n \in Ttls \cup {Never} : BeginCreate(h, t, n)
          \/ \E g \in GrantIds : CommitCreate(h, g)
          \/ \E r \in Requests : BeginApprove(h, r)
          \/ LockRequest(h)
          \/ \E g \in GrantIds, n \in Ttls : BeginRenew(h, g, n)
          \/ LockGrant(h) \/ CommitRenew(h) \/ Rollback(h)
    \/ \E g \in GrantIds : RevokeGrant(g)
    \/ UNCHANGED consentVars

ShortEnough(sent, stored) == sent # Never => sent \in Nat /\ stored \in Int /\ stored <= sent

\* A request appears pending and well formed.
LEMMA RequestAppears ==
  ASSUME ConsentTypeOK, ArgsKnown, [ConsentNext]_consentVars,
         NEW r \in Requests, status[r] = "none", status'[r] # "none"
  PROVE  asked'[r] \in Terms /\ ShortEnough(wanted'[r], ttl'[r])
<1> USE GrantsAssumption DEF ConsentTypeOK
<1> DEFINE Fine == asked'[r] \in Terms /\ ShortEnough(wanted'[r], ttl'[r])
<1>1. ASSUME NEW q \in Requests, NEW t \in Terms,
             \/ \E n \in Ttls \cup {Never} : RequestGrant(q, t, n)
             \/ SmuggleRequest(q, t)
      PROVE  Fine
  <2>1. PICK sent \in Nat \cup {Never}, stored \in Expiries :
            /\ InsertGrantRequest(q, t, stored, sent)
            /\ ShortEnough(sent, stored)
    BY <1>1, RequestCases DEF ShortEnough
  <2> QED BY <2>1 DEF InsertGrantRequest
<1>2. ASSUME NEW q \in Requests, DenyGrantRequest(q) PROVE FALSE
  BY <1>2 DEF DenyGrantRequest
<1>3. ASSUME NEW h \in Handlers, NEW g \in GrantIds, CommitApprove(h, g) PROVE FALSE
  <2>1. arg[h] \in Requests /\ status[arg[h]] # "none"
    BY <1>3 DEF CommitApprove, ArgsKnown, Approving
  <2>2. status' = [status EXCEPT ![arg[h]] = "approved"]
    BY <1>3 DEF CommitApprove
  <2> QED BY <2>1, <2>2
<1>4. status' # status
  OBVIOUS
<1>5. Quiet => status' = status
  BY DEF Quiet, Tick, BeginCreate, CommitCreate, BeginApprove, LockRequest, BeginRenew, Begin,
         LockGrant, CommitRenew, Rollback, RevokeGrant, consentVars, requestVars
<1>6. Fine
  BY <1>1, <1>2, <1>3, <1>4, <1>5, ConsentCases DEF Quiet
<1> QED BY <1>6

\* A request is decided by the one who holds its lock, or while nobody does.
LEMMA RequestDecided ==
  ASSUME ConsentTypeOK, [ConsentNext]_consentVars,
         NEW r \in Requests, status[r] # "none", status'[r] # status[r]
  PROVE  \/ ~RequestLocked(r)
         \/ \E h \in Handlers : pc[h] = "approved" /\ arg[h] = r /\ pc'[h] = "idle"
<1> USE GrantsAssumption DEF ConsentTypeOK
<1>1. ASSUME NEW q \in Requests, NEW t \in Terms,
             \/ \E n \in Ttls \cup {Never} : RequestGrant(q, t, n)
             \/ SmuggleRequest(q, t)
      PROVE  FALSE
  <2>1. PICK sent \in Nat \cup {Never}, stored \in Expiries :
            InsertGrantRequest(q, t, stored, sent)
    BY <1>1, RequestCases
  <2> QED BY <2>1 DEF InsertGrantRequest
<1>2. ASSUME NEW q \in Requests, DenyGrantRequest(q) PROVE ~RequestLocked(r)
  BY <1>2 DEF DenyGrantRequest
<1>3. ASSUME NEW h \in Handlers, NEW g \in GrantIds, CommitApprove(h, g)
      PROVE  pc[h] = "approved" /\ arg[h] = r /\ pc'[h] = "idle"
  <2>1. status' = [status EXCEPT ![arg[h]] = "approved"] /\ Finish(h) /\ pc[h] = "approved"
    BY <1>3 DEF CommitApprove
  <2> QED BY <2>1, FinishFrame
<1>4. status' # status
  OBVIOUS
<1>5. Quiet => status' = status
  BY DEF Quiet, Tick, BeginCreate, CommitCreate, BeginApprove, LockRequest, BeginRenew, Begin,
         LockGrant, CommitRenew, Rollback, RevokeGrant, consentVars, requestVars
<1> QED BY <1>1, <1>2, <1>3, <1>4, <1>5, ConsentCases DEF Quiet

\* An expiry is changed by a renewal only, and a grant is revoked unlocked.
LEMMA GrantChanges ==
  ASSUME ConsentTypeOK, [ConsentNext]_consentVars, NEW g \in GrantIds, Exists(g)
  PROVE  /\ expiresAt'[g] # expiresAt[g] =>
               \E h \in Handlers : CommitRenew(h) /\ arg[h] = g
         /\ g \in revoked' \ revoked => ~GrantLocked(g)
<1> DEFINE Fine == /\ expiresAt'[g] # expiresAt[g] =>
                        \E h \in Handlers : CommitRenew(h) /\ arg[h] = g
                   /\ g \in revoked' \ revoked => ~GrantLocked(g)
<1> USE GrantsAssumption DEF ConsentTypeOK
<1>1. ASSUME UNCHANGED grantVars PROVE Fine
  BY <1>1 DEF grantVars
<1>2. ASSUME NEW h \in Handlers, NEW f \in GrantIds, CommitCreate(h, f) \/ CommitApprove(h, f)
      PROVE  Fine
  BY <1>2 DEF CommitCreate, CommitApprove, InsertGrant
<1>3. ASSUME NEW h \in Handlers, CommitRenew(h) PROVE Fine
  BY <1>3 DEF CommitRenew
<1>4. ASSUME NEW f \in GrantIds, RevokeGrant(f) PROVE Fine
  BY <1>4 DEF RevokeGrant
<1>5. ASSUME NEW r \in Requests, NEW t \in Terms,
             \/ \E n \in Ttls \cup {Never} : RequestGrant(r, t, n)
             \/ SmuggleRequest(r, t)
      PROVE  Fine
  BY <1>1, <1>5, RequestCases DEF InsertGrantRequest
<1>6. ASSUME \/ Tick \/ UNCHANGED consentVars
             \/ \E r \in Requests : DenyGrantRequest(r)
             \/ \E h \in Handlers :
                   \/ \E t \in Terms, n \in Ttls \cup {Never} : BeginCreate(h, t, n)
                   \/ \E q \in Requests : BeginApprove(h, q)
                   \/ LockRequest(h)
                   \/ \E f \in GrantIds, n \in Ttls : BeginRenew(h, f, n)
                   \/ LockGrant(h) \/ Rollback(h)
      PROVE  Fine
  BY <1>1, <1>6 DEF Tick, DenyGrantRequest, BeginCreate, BeginApprove, LockRequest, BeginRenew,
                    Begin, LockGrant, Rollback, consentVars
<1>7. Fine
  BY <1>2, <1>3, <1>4, <1>5, <1>6, ConsentCases
<1> QED BY <1>7

-------------------------------------------------------------------------------
(* The invariant                                                           *)

LEMMA ConsentInvInit == ConsentInit => ConsentInv
BY ConsentTypeInit
   DEF ConsentInit, ConsentInv, ArgsKnown, RequestLocksHold, GrantLocksHold, TtlsShrink,
       Approving, Renewing

LEMMA ArgsNext == ConsentInv /\ [ConsentNext]_consentVars => ArgsKnown'
<1> SUFFICES ASSUME ConsentInv, [ConsentNext]_consentVars PROVE ArgsKnown'
  OBVIOUS
<1> USE DEF ConsentInv
<1>1. RowsStayPut
  BY RowsNext
<1>2. ASSUME NEW r \in Requests, status'[r] # "none" PROVE asked'[r] \in Terms
  <2>1. CASE status[r] # "none"
    BY <1>1, <2>1 DEF RowsStayPut, ArgsKnown
  <2>2. CASE status[r] = "none"
    BY <1>2, <2>2, RequestAppears
  <2> QED BY <2>1, <2>2
<1>3. ASSUME NEW h \in Handlers
      PROVE  /\ pc'[h] = "creating" => arg'[h] \in Terms
             /\ pc'[h] \in Approving => arg'[h] \in Requests /\ status'[arg'[h]] # "none"
             /\ pc'[h] \in Renewing => arg'[h] \in GrantIds /\ terms'[arg'[h]] # NoTerms
  <2>1. HandlerMoves(h)
    BY HandlersNext
  <2> QED BY <1>1, <2>1 DEF HandlerMoves, RowsStayPut, ArgsKnown, Approving, Renewing, Exists
<1> QED BY <1>2, <1>3 DEF ArgsKnown, Exists

LEMMA RequestLocksNext == ConsentInv /\ [ConsentNext]_consentVars => RequestLocksHold'
<1> SUFFICES ASSUME ConsentInv, [ConsentNext]_consentVars PROVE RequestLocksHold'
  OBVIOUS
<1> USE DEF ConsentInv
\* Who has locked a request had it locked before, or has just locked it.
<1>1. ASSUME NEW h \in Handlers, pc'[h] = "approved"
      PROVE  /\ arg'[h] = arg[h] /\ arg[h] \in Requests /\ status[arg[h]] = "pending"
             /\ \/ pc[h] = "approved"
                \/ ~RequestLocked(arg[h]) /\ LockRequest(h) /\ ~Finish(h)
  <2>1. HandlerMoves(h)
    BY HandlersNext
  <2>2. LockRequest(h) => ~RequestLocked(arg[h])
    BY DEF LockRequest
  <2>3. Finish(h) => pc'[h] = "idle"
    BY FinishFrame
  <2> QED BY <1>1, <2>1, <2>2, <2>3 DEF HandlerMoves, RequestLocksHold, ArgsKnown, Approving
<1>2. ASSUME NEW h \in Handlers, LockRequest(h), ~Finish(h)
      PROVE  status' = status /\ \A k \in Handlers \ {h} : pc'[k] = pc[k]
  BY <1>2 DEF LockRequest, requestVars, ConsentTypeOK
<1>3. ASSUME NEW h \in Handlers, pc'[h] = "approved" PROVE status'[arg'[h]] = "pending"
  <2>1. CASE LockRequest(h) /\ ~Finish(h)
    BY <1>1, <1>2, <1>3, <2>1
  <2>2. CASE pc[h] = "approved"
    <3>1. /\ arg'[h] = arg[h] /\ arg[h] \in Requests /\ status[arg[h]] = "pending"
          /\ RequestLocked(arg[h])
      BY <1>1, <1>3, <2>2 DEF RequestLocked
    <3>2. ~ \E k \in Handlers : pc[k] = "approved" /\ arg[k] = arg[h] /\ pc'[k] = "idle"
      BY <1>3, <2>2 DEF RequestLocksHold
    <3>3. status'[arg[h]] = status[arg[h]]
      BY <3>1, <3>2, RequestDecided
    <3> QED BY <3>1, <3>3
  <2> QED BY <1>1, <1>3, <2>1, <2>2
<1>4. ASSUME NEW h \in Handlers, NEW k \in Handlers,
             pc'[h] = "approved", pc'[k] = "approved", arg'[h] = arg'[k]
      PROVE  h = k
  <2>1. CASE pc[h] = "approved" /\ pc[k] = "approved"
    BY <1>1, <1>4, <2>1 DEF RequestLocksHold
  <2>2. ASSUME NEW i \in Handlers, NEW j \in Handlers, i # j, pc'[i] = "approved",
               pc'[j] = "approved", arg'[i] = arg'[j], pc[i] # "approved"
        PROVE  FALSE
    <3>1. ~RequestLocked(arg[i]) /\ LockRequest(i) /\ ~Finish(i)
      BY <1>1, <2>2
    <3>2. pc[j] = "approved" /\ arg[j] = arg[i]
      BY <1>1, <1>2, <2>2, <3>1
    <3> QED BY <3>1, <3>2 DEF RequestLocked
  <2> QED BY <1>4, <2>1, <2>2
<1> QED BY <1>3, <1>4 DEF RequestLocksHold

LEMMA GrantLocksNext == ConsentInv /\ [ConsentNext]_consentVars => GrantLocksHold'
<1> SUFFICES ASSUME ConsentInv, [ConsentNext]_consentVars PROVE GrantLocksHold'
  OBVIOUS
<1> USE DEF ConsentInv
<1>0. RowsStayPut
  BY RowsNext
<1>1. ASSUME NEW h \in Handlers, pc'[h] = "renewed"
      PROVE  /\ arg'[h] = arg[h] /\ txNow'[h] = txNow[h]
             /\ arg[h] \in GrantIds /\ Exists(arg[h]) /\ Renewable(h, arg[h])
             /\ \/ pc[h] = "renewed"
                \/ ~GrantLocked(arg[h]) /\ LockGrant(h) /\ ~Finish(h)
  <2>1. HandlerMoves(h)
    BY HandlersNext
  <2>2. LockGrant(h) => ~GrantLocked(arg[h])
    BY DEF LockGrant
  <2>3. Finish(h) => pc'[h] = "idle"
    BY FinishFrame
  <2> QED BY <1>1, <2>1, <2>2, <2>3 DEF HandlerMoves, GrantLocksHold, ArgsKnown, Renewing
<1>2. ASSUME NEW h \in Handlers, LockGrant(h), ~Finish(h)
      PROVE  UNCHANGED grantVars /\ \A k \in Handlers \ {h} : pc'[k] = pc[k]
  BY <1>2 DEF LockGrant, ConsentTypeOK
<1>3. ASSUME NEW h \in Handlers, pc'[h] = "renewed"
      PROVE  expiresAt'[arg[h]] = expiresAt[arg[h]] /\ arg[h] \notin revoked'
  <2>1. CASE LockGrant(h) /\ ~Finish(h)
    BY <1>1, <1>2, <1>3, <2>1 DEF grantVars, Renewable
  <2>2. CASE pc[h] = "renewed"
    <3>1. GrantLocked(arg[h])
      BY <2>2 DEF GrantLocked
    <3>2. ASSUME NEW k \in Handlers, CommitRenew(k), arg[k] = arg[h] PROVE FALSE
      <4>1. pc[k] = "renewed" /\ pc'[k] = "idle"
        BY <3>2, FinishFrame DEF CommitRenew
      <4>2. k = h
        BY <2>2, <3>2, <4>1 DEF GrantLocksHold
      <4> QED BY <1>3, <4>1, <4>2
    <3> QED BY <1>1, <1>3, <3>1, <3>2, GrantChanges DEF Renewable
  <2> QED BY <1>1, <1>3, <2>1, <2>2
<1>4. ASSUME NEW h \in Handlers, pc'[h] = "renewed"
      PROVE  /\ arg'[h] \notin revoked'
             /\ Unexpired(expiresAt'[arg'[h]], txNow'[h])
             /\ terms'[arg'[h]].kind = "memory"
  <2>1. terms'[arg[h]] = terms[arg[h]]
    BY <1>0, <1>1, <1>4 DEF RowsStayPut
  <2> QED BY <1>1, <1>3, <1>4, <2>1 DEF Renewable
<1>5. ASSUME NEW h \in Handlers, NEW k \in Handlers,
             pc'[h] = "renewed", pc'[k] = "renewed", arg'[h] = arg'[k]
      PROVE  h = k
  <2>1. CASE pc[h] = "renewed" /\ pc[k] = "renewed"
    BY <1>1, <1>5, <2>1 DEF GrantLocksHold
  <2>2. ASSUME NEW i \in Handlers, NEW j \in Handlers, i # j, pc'[i] = "renewed",
               pc'[j] = "renewed", arg'[i] = arg'[j], pc[i] # "renewed"
        PROVE  FALSE
    <3>1. ~GrantLocked(arg[i]) /\ LockGrant(i) /\ ~Finish(i)
      BY <1>1, <2>2
    <3>2. pc[j] = "renewed" /\ arg[j] = arg[i]
      BY <1>1, <1>2, <2>2, <3>1
    <3> QED BY <3>1, <3>2 DEF GrantLocked
  <2> QED BY <1>5, <2>1, <2>2
<1> QED BY <1>4, <1>5 DEF GrantLocksHold, Renewable, Unexpired

LEMMA TtlsNext == ConsentInv /\ [ConsentNext]_consentVars => TtlsShrink'
<1> SUFFICES ASSUME ConsentInv, [ConsentNext]_consentVars PROVE TtlsShrink'
  OBVIOUS
<1> USE DEF ConsentInv
<1>0. RowsStayPut
  BY RowsNext
<1>1. ASSUME NEW r \in Requests, status'[r] # "none" PROVE ShortEnough(wanted'[r], ttl'[r])
  <2>1. CASE status[r] # "none"
    BY <1>0, <2>1 DEF RowsStayPut, TtlsShrink, ShortEnough
  <2>2. CASE status[r] = "none"
    BY <1>1, <2>2, RequestAppears
  <2> QED BY <2>1, <2>2
<1>2. ASSUME NEW h \in Handlers, pc'[h] = "approved", wanted'[arg'[h]] # Never
      PROVE  newExpiry'[h] \in Int /\ newExpiry'[h] <= now' + wanted'[arg'[h]]
  <2>1. HandlerMoves(h)
    BY HandlersNext
  <2>2. arg'[h] = arg[h] /\ arg[h] \in Requests /\ status[arg[h]] # "none"
    BY <1>2, <2>1 DEF HandlerMoves, ArgsKnown, Approving
  <2>3. wanted'[arg[h]] = wanted[arg[h]] /\ now' >= now /\ now' \in Nat /\ now \in Nat
    BY <1>0, <2>2, ConsentTypeNext DEF RowsStayPut, ConsentTypeOK
  <2>4. wanted[arg[h]] \in Nat /\ ttl[arg[h]] \in Int /\ ttl[arg[h]] <= wanted[arg[h]]
    BY <1>2, <2>2, <2>3 DEF TtlsShrink
  <2>5. CASE pc[h] = "approved" /\ newExpiry'[h] = newExpiry[h]
    BY <1>2, <2>2, <2>3, <2>4, <2>5 DEF TtlsShrink
  <2>6. CASE newExpiry'[h] = After(ttl[arg[h]])
    <3>1. ttl[arg[h]] # Never
      BY <2>4, GrantsAssumption
    <3> QED BY <2>2, <2>3, <2>4, <2>6, <3>1 DEF After
  <2> QED BY <1>2, <2>1, <2>5, <2>6 DEF HandlerMoves
<1> QED BY <1>1, <1>2 DEF TtlsShrink, ShortEnough

LEMMA ConsentInvNext == ConsentInv /\ [ConsentNext]_consentVars => ConsentInv'
BY ConsentTypeNext, ArgsNext, RequestLocksNext, GrantLocksNext, TtlsNext DEF ConsentInv

LEMMA ConsentInvariance == ConsentSpec => []ConsentInv
BY ConsentInvInit, ConsentInvNext, PTL DEF ConsentSpec

-------------------------------------------------------------------------------
(* What a step may do                                                      *)

ShorterThanAsked ==
    \A r \in Requests :
        (result[r] = NoGrant /\ result'[r] # NoGrant /\ wanted[r] # Never) =>
            /\ expiresAt'[result'[r]] # Never
            /\ expiresAt'[result'[r]] <= now + wanted[r]

\* The only step that gives a request its grant is the approval that holds its
\* lock, and the expiry was reckoned under it.
LEMMA ShorterStep == ConsentInv /\ [ConsentNext]_consentVars => ShorterThanAsked
<1> SUFFICES ASSUME ConsentInv, [ConsentNext]_consentVars PROVE ShorterThanAsked
  OBVIOUS
<1> USE GrantsAssumption DEF ConsentInv
<1>1. ASSUME result' = result PROVE ShorterThanAsked
  BY <1>1 DEF ShorterThanAsked
<1>2. ASSUME NEW h \in Handlers, NEW g \in GrantIds, CommitApprove(h, g)
      PROVE  ShorterThanAsked
  <2>1. /\ result' = [result EXCEPT ![arg[h]] = g]
        /\ expiresAt' = [expiresAt EXCEPT ![g] = newExpiry[h]]
        /\ pc[h] = "approved"
    BY <1>2 DEF CommitApprove, InsertGrant
  <2>2. arg[h] \in Requests /\ expiresAt'[g] = newExpiry[h] /\ result'[arg[h]] = g
    BY <2>1 DEF ArgsKnown, Approving, ConsentTypeOK
  <2>3. wanted[arg[h]] # Never =>
            newExpiry[h] \in Int /\ newExpiry[h] <= now + wanted[arg[h]]
    BY <2>1 DEF TtlsShrink
  <2>4. \A r \in Requests : r # arg[h] => result'[r] = result[r]
    BY <2>1 DEF ConsentTypeOK
  <2> QED BY <2>2, <2>3, <2>4 DEF ShorterThanAsked
<1>3. ASSUME NEW r \in Requests, NEW t \in Terms,
             \/ \E n \in Ttls \cup {Never} : RequestGrant(r, t, n)
             \/ SmuggleRequest(r, t)
      PROVE  result' = result
  BY <1>3, RequestCases DEF InsertGrantRequest
<1>4. ASSUME NEW r \in Requests, DenyGrantRequest(r) PROVE result' = result
  BY <1>4 DEF DenyGrantRequest
<1>5. Quiet => result' = result
  BY DEF Quiet, Tick, BeginCreate, CommitCreate, BeginApprove, LockRequest, BeginRenew, Begin,
         LockGrant, CommitRenew, Rollback, RevokeGrant, consentVars, requestVars
<1> QED BY <1>1, <1>2, <1>3, <1>4, <1>5, ConsentCases DEF Quiet

ProlongedWhileOpen ==
    \A g \in GrantIds :
        (Exists(g) /\ expiresAt'[g] # expiresAt[g]) =>
            /\ terms[g].kind = "memory"
            /\ g \notin revoked'
            /\ \E h \in Handlers : arg[h] = g /\ Unexpired(expiresAt[g], txNow[h])

LEMMA ProlongedStep == ConsentInv /\ [ConsentNext]_consentVars => ProlongedWhileOpen
<1> SUFFICES ASSUME ConsentInv, [ConsentNext]_consentVars,
                    NEW g \in GrantIds, Exists(g), expiresAt'[g] # expiresAt[g]
             PROVE  /\ terms[g].kind = "memory"
                    /\ g \notin revoked'
                    /\ \E h \in Handlers : arg[h] = g /\ Unexpired(expiresAt[g], txNow[h])
  BY DEF ProlongedWhileOpen
<1> USE DEF ConsentInv
<1>1. PICK h \in Handlers : CommitRenew(h) /\ arg[h] = g
  BY GrantChanges
<1>2. Renewable(h, g) /\ revoked' = revoked
  BY <1>1 DEF CommitRenew, GrantLocksHold
<1> QED BY <1>1, <1>2 DEF Renewable

-------------------------------------------------------------------------------
(* Theorems                                                                *)

\* The types of the rows and of the handlers, for any bounds.
THEOREM ConsentTypeCorrect == ConsentSpec => []ConsentTypeOK
<1>1. ConsentInv => ConsentTypeOK
  BY DEF ConsentInv
<1> QED BY <1>1, ConsentInvariance, PTL

\* A grant given on request ends within the time asked for.
THEOREM GrantsEndInTime == ConsentSpec => NeverLongerThanAsked
<1>1. ConsentInv /\ [ConsentNext]_consentVars => [ShorterThanAsked]_consentVars
  BY ShorterStep
<1> QED BY <1>1, ConsentInvariance, PTL
        DEF ConsentSpec, NeverLongerThanAsked, ShorterThanAsked

\* Only an open memory grant is ever prolonged.
THEOREM OpenGrantsAreProlonged == ConsentSpec => ProlongedOnlyWhileOpen
<1>1. ConsentInv /\ [ConsentNext]_consentVars => [ProlongedWhileOpen]_consentVars
  BY ProlongedStep
<1> QED BY <1>1, ConsentInvariance, PTL
        DEF ConsentSpec, ProlongedOnlyWhileOpen, ProlongedWhileOpen

-------------------------------------------------------------------------------
(* The refinement                                                          *)

LEMMA ContractNext == ConsentInv /\ [ConsentNext]_consentVars => [Contract!Next]_(Contract!vars)
<1> SUFFICES ASSUME ConsentInv, [ConsentNext]_consentVars
             PROVE  [Contract!Next]_(Contract!vars)
  OBVIOUS
<1> USE GrantsAssumption DEF ConsentInv
<1> DEFINE Stutter == UNCHANGED <<terms, revoked, status, asked, result>>
<1>1. Stutter => [Contract!Next]_(Contract!vars)
  BY DEF Contract!vars
<1>2. ASSUME NEW r \in Requests, NEW t \in Terms,
             \/ \E n \in Ttls \cup {Never} : RequestGrant(r, t, n)
             \/ SmuggleRequest(r, t)
      PROVE  Contract!Next
  <2>1. Contract!Ask(r, t)
    BY <1>2, RequestCases DEF InsertGrantRequest, grantVars, Contract!Ask
  <2> QED BY <2>1 DEF Contract!Next
<1>3. ASSUME NEW r \in Requests, DenyGrantRequest(r) PROVE Contract!Next
  <2>1. Contract!Deny(r)
    BY <1>3 DEF DenyGrantRequest, grantVars, Contract!Deny
  <2> QED BY <2>1 DEF Contract!Next
<1>4. ASSUME NEW h \in Handlers, NEW g \in GrantIds, CommitCreate(h, g) PROVE Contract!Next
  <2>1. Contract!Create(g, arg[h]) /\ arg[h] \in Terms
    BY <1>4 DEF CommitCreate, InsertGrant, Exists, ArgsKnown, requestVars, Contract!Create
  <2> QED BY <2>1 DEF Contract!Next
<1>5. ASSUME NEW h \in Handlers, NEW g \in GrantIds, CommitApprove(h, g) PROVE Contract!Next
  <2>1. arg[h] \in Requests /\ status[arg[h]] = "pending"
    BY <1>5 DEF CommitApprove, ArgsKnown, Approving, RequestLocksHold
  <2>2. Contract!Approve(arg[h], g)
    BY <1>5, <2>1 DEF CommitApprove, InsertGrant, Exists, Contract!Approve
  <2> QED BY <2>1, <2>2 DEF Contract!Next
<1>6. ASSUME NEW g \in GrantIds, RevokeGrant(g) PROVE Contract!Next
  <2>1. Contract!Revoke(g)
    BY <1>6 DEF RevokeGrant, Exists, requestVars, Contract!Revoke
  <2> QED BY <2>1 DEF Contract!Next
<1>7. ASSUME \/ Tick \/ UNCHANGED consentVars
             \/ \E h \in Handlers :
                   \/ \E t \in Terms, n \in Ttls \cup {Never} : BeginCreate(h, t, n)
                   \/ \E r \in Requests : BeginApprove(h, r)
                   \/ LockRequest(h)
                   \/ \E g \in GrantIds, n \in Ttls : BeginRenew(h, g, n)
                   \/ LockGrant(h) \/ CommitRenew(h) \/ Rollback(h)
      PROVE  Stutter
  BY <1>7 DEF Tick, BeginCreate, BeginApprove, LockRequest, BeginRenew, Begin, LockGrant,
              CommitRenew, Rollback, consentVars, grantVars, requestVars
<1> QED BY <1>1, <1>2, <1>3, <1>4, <1>5, <1>6, <1>7, ConsentCases

\* Grants' concurrent transactions implement the one-step decisions of
\* ConsentContract.
THEOREM ConsentIsKept == ConsentSpec => ImplementsContract
<1>1. ConsentInit => Contract!Init
  BY DEF ConsentInit, Contract!Init
<1> QED BY <1>1, ContractNext, ConsentInvariance, PTL
        DEF ConsentSpec, ImplementsContract, Contract!Spec

-------------------------------------------------------------------------------
(* What the contract comes to                                              *)

ContractInv ==
    /\ terms \in [GrantIds -> Terms \cup {NoTerms}]
    /\ status \in [Requests -> {"none", "pending", "approved", "denied"}]
    /\ asked \in [Requests -> Terms \cup {NoTerms}]
    /\ result \in [Requests -> GrantIds \cup {NoGrant}]
    /\ Contract!OneGrantARequest

LEMMA ContractInvInit == Contract!Init => ContractInv
BY DEF Contract!Init, ContractInv, Contract!OneGrantARequest

LEMMA ContractInvNext == ContractInv /\ [Contract!Next]_(Contract!vars) => ContractInv'
<1> SUFFICES ASSUME ContractInv, [Contract!Next]_(Contract!vars) PROVE ContractInv'
  OBVIOUS
<1> USE GrantsAssumption DEF ContractInv, Contract!OneGrantARequest
<1>1. ASSUME NEW r \in Requests, NEW t \in Terms, Contract!Ask(r, t) PROVE ContractInv'
  BY <1>1 DEF Contract!Ask
<1>2. ASSUME NEW r \in Requests, Contract!Deny(r) PROVE ContractInv'
  BY <1>2 DEF Contract!Deny
<1>3. ASSUME NEW r \in Requests, NEW g \in GrantIds, Contract!Approve(r, g) PROVE ContractInv'
  <2>1. /\ status[r] = "pending" /\ terms[g] = NoTerms
        /\ terms' = [terms EXCEPT ![g] = asked[r]]
        /\ status' = [status EXCEPT ![r] = "approved"]
        /\ result' = [result EXCEPT ![r] = g]
        /\ asked' = asked
    BY <1>3 DEF Contract!Approve
  \* The name of the new grant is no earlier request's.
  <2>2. \A s \in Requests : result[s] # g
    BY <2>1
  <2> QED BY <2>1, <2>2
<1>4. ASSUME NEW g \in GrantIds, NEW t \in Terms, Contract!Create(g, t) PROVE ContractInv'
  <2>1. \A s \in Requests : result[s] # g
    BY <1>4 DEF Contract!Create
  <2> QED BY <1>4, <2>1 DEF Contract!Create
<1>5. ASSUME NEW g \in GrantIds, Contract!Revoke(g) PROVE ContractInv'
  BY <1>5 DEF Contract!Revoke
<1>6. CASE UNCHANGED Contract!vars
  BY <1>6 DEF Contract!vars
<1> QED BY <1>1, <1>2, <1>3, <1>4, <1>5, <1>6 DEF Contract!Next

Final ==
    /\ \A r \in Requests : status[r] \in {"approved", "denied"} =>
          status'[r] = status[r] /\ result'[r] = result[r]
    /\ \A g \in GrantIds : terms[g] # NoTerms => terms'[g] = terms[g]
    /\ revoked \subseteq revoked'

LEMMA ContractIsFinal == [Contract!Next]_(Contract!vars) => Final
<1> SUFFICES ASSUME [Contract!Next]_(Contract!vars) PROVE Final
  OBVIOUS
<1> USE DEF Final
<1>1. ASSUME NEW r \in Requests, NEW t \in Terms, Contract!Ask(r, t) PROVE Final
  BY <1>1 DEF Contract!Ask
<1>2. ASSUME NEW r \in Requests, Contract!Deny(r) PROVE Final
  BY <1>2 DEF Contract!Deny
<1>3. ASSUME NEW r \in Requests, NEW g \in GrantIds, Contract!Approve(r, g) PROVE Final
  BY <1>3 DEF Contract!Approve
<1>4. ASSUME NEW g \in GrantIds, NEW t \in Terms, Contract!Create(g, t) PROVE Final
  BY <1>4 DEF Contract!Create
<1>5. ASSUME NEW g \in GrantIds, Contract!Revoke(g) PROVE Final
  BY <1>5 DEF Contract!Revoke
<1>6. CASE UNCHANGED Contract!vars
  BY <1>6 DEF Contract!vars
<1> QED BY <1>1, <1>2, <1>3, <1>4, <1>5, <1>6 DEF Contract!Next

\* Through all interleavings of their transactions, a request leads to one grant at
\* most, with the terms it asked for.
THEOREM OneGrantForARequest == ConsentSpec => []Contract!OneGrantARequest
<1>1. ContractInv => Contract!OneGrantARequest
  BY DEF ContractInv
<1> QED BY <1>1, ContractInvInit, ContractInvNext, ConsentIsKept, PTL
        DEF ImplementsContract, Contract!Spec

\* Through all interleavings of their transactions, no decision is taken twice.
THEOREM NothingIsDecidedTwice == ConsentSpec => Contract!DecisionsAreFinal
<1>1. [Contract!Next]_(Contract!vars) => [Final]_(Contract!vars)
  BY ContractIsFinal
<1> QED BY <1>1, ConsentIsKept, PTL
        DEF ImplementsContract, Contract!Spec, Contract!DecisionsAreFinal, Final
===============================================================================
