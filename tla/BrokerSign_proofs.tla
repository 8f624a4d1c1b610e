-------------------------- MODULE BrokerSign_proofs ---------------------------
(***************************************************************************)
(* Proofs about BrokerSign, for any grants, connections and limit.  Of the *)
(* grant cache they use RevocationContract only: what GrantCache_proofs    *)
(* proves of the real cache is what is assumed of it here.                 *)
(***************************************************************************)
EXTENDS BrokerSign, TLAPS

\* A connection's entry was still held after everything in since was let go.
EntryIsNewer ==
    /\ held \cap gone = {}
    /\ \A c \in Conns : since[c] \subseteq gone
    /\ \A c \in Conns : at[c] \in {"idle", "open"} => op[c] = "none"
    /\ \A c \in Conns :
          op[c] = "sign" /\ code[c] # "NO_GRANT" => grant[c] \notin since[c]

Inv ==
    /\ TypeOK
    /\ KeyOutlivesItsUsers
    /\ EntryIsNewer
    /\ AuditMatchesSignatures

-------------------------------------------------------------------------------
LEMMA InvInit == Init => Inv
<1> SUFFICES ASSUME Init PROVE Inv
  OBVIOUS
<1> USE BrokerAssumption DEF Init, Cache!Init
<1>1. TypeOK
  BY DEF TypeOK, Phases, Places, Shapes, Codes
<1>2. KeyOutlivesItsUsers /\ EntryIsNewer /\ AuditMatchesSignatures
  BY DEF KeyOutlivesItsUsers, EntryIsNewer, AuditMatchesSignatures
<1> QED BY <1>1, <1>2 DEF Inv

\* The cache's own steps, of which Restart is the process's.
LEMMA CacheFrame ==
  ASSUME TypeOK, held \cap gone = {},
         Cache!Die \/ Cache!Refresh \/ \E g \in Grants : Cache!Forget(g)
  PROVE  /\ dead' \subseteq Grants /\ held' \subseteq Grants /\ gone' \subseteq Grants
         /\ held' \cap gone' = {}
         /\ gone \subseteq gone'
<1> USE DEF TypeOK
<1>1. CASE Cache!Die
  BY <1>1 DEF Cache!Die
<1>2. CASE Cache!Refresh
  BY <1>2 DEF Cache!Refresh
<1>3. CASE \E g \in Grants : Cache!Forget(g)
  BY <1>3 DEF Cache!Forget
<1> QED BY <1>1, <1>2, <1>3

\* A step of the connections: it leaves the cache and the process alone.
ConnStep(c) ==
    \/ Accept(c) \/ GiveUp(c) \/ Malformed(c)
    \/ \E g \in Grants, s \in Shapes : Preflight(c, g, s) \/ Lookup(c, g, s)
    \/ Allow(c) \/ Check(c) \/ TakeSigner(c) \/ SignPayload(c) \/ Audit(c)
    \/ Reply(c)

LEMMA ConnTypes ==
  ASSUME TypeOK, NEW c \in Conns, ConnStep(c)
  PROVE  TypeOK' /\ UNCHANGED <<cacheVars, phase>>
<1> USE BrokerAssumption
<1>1. CASE Accept(c)
  BY <1>1 DEF TypeOK, Accept, Places, Codes, cacheVars
<1>2. CASE GiveUp(c) \/ Reply(c)
  <2>1. Close(c) /\ UNCHANGED <<cacheVars, phase, used, vouched>>
    BY <1>2 DEF GiveUp, Reply
  <2> QED BY <2>1 DEF TypeOK, Close, Places, Codes, Shapes, cacheVars
<1>3. CASE Malformed(c)
  BY <1>3 DEF TypeOK, Malformed, Answer, Places, Codes, cacheVars
<1>4. ASSUME NEW g \in Grants, NEW s \in Shapes, Preflight(c, g, s)
      PROVE  TypeOK' /\ UNCHANGED <<cacheVars, phase>>
  <2>1. \E k \in {"NO_GRANT", "SCOPE_DENIED", "OK"} : Answer(c, "preflight", g, k)
    BY <1>4 DEF Preflight
  <2>2. vouched' \subseteq Grants /\ UNCHANGED <<cacheVars, phase, shape, row, since, used>>
    BY <1>4 DEF Preflight, TypeOK
  <2> QED BY <2>1, <2>2 DEF TypeOK, Answer, Places, Codes, cacheVars
<1>5. ASSUME NEW g \in Grants, NEW s \in Shapes, Lookup(c, g, s)
      PROVE  TypeOK' /\ UNCHANGED <<cacheVars, phase>>
  <2>1. CASE Misses(g) /\ Answer(c, "sign", g, "NO_GRANT") /\ UNCHANGED shape
    BY <1>5, <2>1 DEF TypeOK, Lookup, Answer, Places, Codes, cacheVars
  <2>2. CASE /\ at' = [at EXCEPT ![c] = "found"]
             /\ op' = [op EXCEPT ![c] = "sign"]
             /\ grant' = [grant EXCEPT ![c] = g]
             /\ shape' = [shape EXCEPT ![c] = s]
             /\ UNCHANGED code
    BY <1>5, <2>2 DEF TypeOK, Lookup, Places, Codes, cacheVars
  <2> QED BY <1>5, <2>1, <2>2 DEF Lookup
\* The steps of Sign after the lookup: to the next place, or to an answer.
<1>6. ASSUME at[c] \notin {"idle", "open", "reply"},
             \/ \E l \in {"admitted", "checked", "signing", "signed"} : Goto(c, l)
             \/ \E k \in Codes \ {"none"} : Answer(c, op[c], grant[c], k),
             shape' = shape, since' = since, row' \in [Conns -> BOOLEAN],
             used' \in [Grants -> Nat], vouched' = vouched, UNCHANGED <<cacheVars, phase>>
      PROVE  TypeOK'
  BY <1>6 DEF TypeOK, Goto, Answer, Places, Codes, cacheVars
<1>7. CASE Allow(c)
  <2>1. grant[c] \in Grants /\ used' \in [Grants -> Nat]
    BY <1>7 DEF Allow, TypeOK
  <2> QED BY <1>6, <1>7, <2>1 DEF Allow, Goto, Refuse, Codes, TypeOK
<1>8. CASE Check(c)
  BY <1>6, <1>8 DEF Check, Goto, Refuse, Codes, TypeOK
<1>9. CASE TakeSigner(c) \/ SignPayload(c)
  BY <1>6, <1>9 DEF TakeSigner, SignPayload, Goto, Refuse, Codes, TypeOK
<1>10. CASE Audit(c)
  BY <1>6, <1>10 DEF Audit, Codes, TypeOK
<1> QED BY <1>1, <1>2, <1>3, <1>4, <1>5, <1>7, <1>8, <1>9, <1>10 DEF ConnStep

\* What a connection's step does to its own variables; the others' stay.
LEMMA ConnFrame ==
  ASSUME Inv, NEW c \in Conns, ConnStep(c)
  PROVE  /\ \A k \in Conns \ {c} :
               /\ at'[k] = at[k] /\ op'[k] = op[k] /\ grant'[k] = grant[k]
               /\ code'[k] = code[k] /\ row'[k] = row[k] /\ since'[k] = since[k]
         /\ at[c] # "idle" \/ phase \in {"up", "stopping"}
         /\ since'[c] \in {since[c], {}, gone}
         /\ at'[c] \in {"idle", "open"} => op'[c] = "none"
         /\ op'[c] = "sign" /\ code'[c] # "NO_GRANT" => grant'[c] \notin since'[c]
         /\ op'[c] = "sign" /\ code'[c] = "OK" => row'[c]
         /\ row'[c] => code'[c] \in {"OK", "BACKEND_UNREACHABLE"}
<1> USE DEF Inv, TypeOK, EntryIsNewer, AuditMatchesSignatures
<1>0. at[c] # "reply" => code[c] = "none" /\ ~row[c]
  OBVIOUS
<1>1. CASE Accept(c)
  BY <1>0, <1>1 DEF Accept
<1>2. CASE GiveUp(c) \/ Reply(c)
  BY <1>2 DEF GiveUp, Reply, Close
<1>3. CASE Malformed(c)
  BY <1>0, <1>3 DEF Malformed, Answer
<1>4. CASE \E g \in Grants, s \in Shapes : Preflight(c, g, s)
  BY <1>0, <1>4 DEF Preflight, Answer
<1>5. CASE \E g \in Grants, s \in Shapes : Lookup(c, g, s)
  <2>1. PICK g \in Grants, s \in Shapes : Lookup(c, g, s)
    BY <1>5
  <2>2. CASE Misses(g) /\ Answer(c, "sign", g, "NO_GRANT")
    BY <1>0, <2>1, <2>2 DEF Lookup, Answer
  <2>3. CASE /\ Finds(g)
             /\ at' = [at EXCEPT ![c] = "found"]
             /\ op' = [op EXCEPT ![c] = "sign"]
             /\ grant' = [grant EXCEPT ![c] = g]
             /\ UNCHANGED code
    <3>1. g \notin since[c]
      BY <2>3 DEF Finds
    <3> QED BY <1>0, <2>1, <2>3, <3>1 DEF Lookup
  <2> QED BY <2>1, <2>2, <2>3 DEF Lookup
<1>6. CASE Allow(c) \/ Check(c) \/ TakeSigner(c) \/ SignPayload(c)
  <2>1. /\ at[c] \in {"found", "admitted", "checked", "signing"}
        /\ UNCHANGED <<row, since>>
        /\ \/ Goto(c, "admitted") \/ Goto(c, "checked") \/ Goto(c, "signing") \/ Goto(c, "signed")
           \/ \E k \in {"RATE_LIMITED", "SCOPE_DENIED", "BACKEND_UNREACHABLE"} :
                 Answer(c, op[c], grant[c], k)
    BY <1>6 DEF Allow, Check, TakeSigner, SignPayload, Goto, Refuse
  <2>2. CASE \/ Goto(c, "admitted") \/ Goto(c, "checked")
             \/ Goto(c, "signing") \/ Goto(c, "signed")
    BY <1>0, <2>1, <2>2 DEF Goto
  <2>3. CASE \E k \in {"RATE_LIMITED", "SCOPE_DENIED", "BACKEND_UNREACHABLE"} :
                Answer(c, op[c], grant[c], k)
    BY <1>0, <2>1, <2>3 DEF Answer
  <2> QED BY <2>1, <2>2, <2>3
<1>7. CASE Audit(c)
  BY <1>0, <1>7 DEF Audit, Answer
<1> QED BY <1>1, <1>2, <1>3, <1>4, <1>5, <1>6, <1>7 DEF ConnStep

LEMMA InvNext == Inv /\ [Next]_vars => Inv'
<1> SUFFICES ASSUME Inv, [Next]_vars PROVE Inv'
  OBVIOUS
<1> USE BrokerAssumption DEF Inv
<1>1. CASE CacheStep
  <2>1. TypeOK'
    BY <1>1, CacheFrame DEF CacheStep, TypeOK, EntryIsNewer, connVars
  <2>2. EntryIsNewer'
    BY <1>1, CacheFrame DEF CacheStep, EntryIsNewer, connVars
  <2>3. KeyOutlivesItsUsers' /\ AuditMatchesSignatures'
    BY <1>1 DEF CacheStep, KeyOutlivesItsUsers, AuditMatchesSignatures, connVars
  <2> QED BY <2>1, <2>2, <2>3
<1>2. CASE Boot
  <2>1. TypeOK'
    BY <1>2, CacheFrame DEF Boot, TypeOK, EntryIsNewer, connVars, Phases
  <2>2. EntryIsNewer'
    BY <1>2, CacheFrame DEF Boot, EntryIsNewer, connVars
  <2>3. KeyOutlivesItsUsers' /\ AuditMatchesSignatures'
    BY <1>2 DEF Boot, KeyOutlivesItsUsers, AuditMatchesSignatures, connVars
  <2> QED BY <2>1, <2>2, <2>3
<1>3. CASE Signal \/ CloseListener \/ ServeReturns \/ Destroy
  <2>1. phase' \in Phases /\ UNCHANGED <<cacheVars, connVars, used, vouched>>
    BY <1>3 DEF Signal, CloseListener, ServeReturns, Destroy, Phases
  <2>2. TypeOK' /\ EntryIsNewer' /\ AuditMatchesSignatures'
    BY <2>1 DEF TypeOK, EntryIsNewer, AuditMatchesSignatures, cacheVars, connVars
  <2>3. KeyOutlivesItsUsers'
    BY <1>3 DEF Signal, CloseListener, ServeReturns, Destroy, KeyOutlivesItsUsers, connVars
  <2> QED BY <2>2, <2>3
<1>4. CASE Restart
  <2>1. TypeOK'
    BY <1>4 DEF Restart, TypeOK, Cache!Restart, Phases, Places, Shapes, Codes
  <2>2. EntryIsNewer' /\ KeyOutlivesItsUsers' /\ AuditMatchesSignatures'
    BY <1>4 DEF Restart, Cache!Restart, EntryIsNewer, KeyOutlivesItsUsers,
                AuditMatchesSignatures
  <2> QED BY <2>1, <2>2
<1>5. ASSUME NEW g \in Grants, WindowSlides(g) PROVE Inv'
  <2>1. TypeOK'
    BY <1>5 DEF WindowSlides, TypeOK, cacheVars, connVars
  <2>2. EntryIsNewer' /\ KeyOutlivesItsUsers' /\ AuditMatchesSignatures'
    BY <1>5 DEF WindowSlides, EntryIsNewer, KeyOutlivesItsUsers, AuditMatchesSignatures,
                cacheVars, connVars
  <2> QED BY <2>1, <2>2
<1>6. ASSUME NEW c \in Conns, ConnStep(c) PROVE Inv'
  <2>1. TypeOK' /\ UNCHANGED <<cacheVars, phase>>
    BY <1>6, ConnTypes
  <2>2. EntryIsNewer'
    BY <1>6, <2>1, ConnFrame DEF EntryIsNewer, cacheVars
  <2>3. KeyOutlivesItsUsers'
    BY <1>6, <2>1, ConnFrame DEF KeyOutlivesItsUsers
  <2>4. AuditMatchesSignatures'
    BY <1>6, ConnFrame DEF AuditMatchesSignatures
  <2> QED BY <2>1, <2>2, <2>3, <2>4
<1>7. CASE UNCHANGED vars
  BY <1>7 DEF vars, cacheVars, connVars, TypeOK, EntryIsNewer, KeyOutlivesItsUsers,
              AuditMatchesSignatures
<1> QED BY <1>1, <1>2, <1>3, <1>4, <1>5, <1>6, <1>7 DEF Next, ConnStep

LEMMA Invariance == SafetySpec => []Inv
BY InvInit, InvNext, PTL DEF SafetySpec

-------------------------------------------------------------------------------
(* What Preflight vouches for                                              *)

\* A vouched grant is in the cache and alive, and a process that boots has
\* vouched for none.
VouchedIsLive ==
    /\ vouched \subseteq held \ dead
    /\ phase = "boot" => vouched = {}

LEMMA VouchedInit == Init => VouchedIsLive
BY DEF Init, VouchedIsLive

\* A connection vouches for what it found alive, or leaves vouched alone.
LEMMA ConnVouches ==
  ASSUME NEW c \in Conns, ConnStep(c)
  PROVE  \/ vouched' = vouched
         \/ at[c] = "open" /\ \E g \in held : vouched' = vouched \cup ({g} \ dead)
<1>1. CASE Accept(c)
  BY <1>1 DEF Accept
<1>2. CASE GiveUp(c) \/ Reply(c) \/ Malformed(c)
  BY <1>2 DEF GiveUp, Reply, Malformed
<1>3. ASSUME NEW g \in Grants, NEW s \in Shapes, Preflight(c, g, s)
      PROVE  \/ vouched' = vouched
             \/ at[c] = "open" /\ \E x \in held : vouched' = vouched \cup ({x} \ dead)
  BY <1>3 DEF Preflight, Finds
<1>4. ASSUME NEW g \in Grants, NEW s \in Shapes, Lookup(c, g, s) PROVE vouched' = vouched
  BY <1>4 DEF Lookup
<1>5. CASE Allow(c) \/ Check(c) \/ TakeSigner(c)
  BY <1>5 DEF Allow, Check, TakeSigner, Refuse
<1>6. CASE SignPayload(c) \/ Audit(c)
  BY <1>6 DEF SignPayload, Audit, Refuse
<1> QED BY <1>1, <1>2, <1>3, <1>4, <1>5, <1>6 DEF ConnStep

LEMMA VouchedNext == Inv /\ VouchedIsLive /\ [Next]_vars => VouchedIsLive'
<1> SUFFICES ASSUME Inv, VouchedIsLive, [Next]_vars PROVE VouchedIsLive'
  OBVIOUS
<1>1. CASE CacheStep
  BY <1>1 DEF CacheStep, VouchedIsLive
<1>2. CASE Boot
  BY <1>2 DEF Boot, VouchedIsLive
<1>3. CASE Signal \/ CloseListener \/ ServeReturns \/ Destroy
  BY <1>3 DEF Signal, CloseListener, ServeReturns, Destroy, VouchedIsLive, cacheVars
<1>4. CASE Restart
  BY <1>4 DEF Restart, VouchedIsLive
<1>5. ASSUME NEW g \in Grants, WindowSlides(g) PROVE VouchedIsLive'
  BY <1>5 DEF WindowSlides, VouchedIsLive, cacheVars
<1>6. ASSUME NEW c \in Conns, ConnStep(c) PROVE VouchedIsLive'
  <2>1. UNCHANGED <<cacheVars, phase>>
    BY <1>6, ConnTypes DEF Inv
  <2>2. at[c] = "open" => phase # "boot"
    BY DEF Inv, KeyOutlivesItsUsers
  <2> QED BY <1>6, <2>1, <2>2, ConnVouches DEF VouchedIsLive, cacheVars
<1>7. CASE UNCHANGED vars
  BY <1>7 DEF vars, cacheVars, VouchedIsLive
<1> QED BY <1>1, <1>2, <1>3, <1>4, <1>5, <1>6, <1>7 DEF Next, ConnStep

\* The two refusals about authority: of the lookup, for a grant that is not live,
\* and of the check, for a request that is not well formed.
LEMMA AuthorizedStep ==
  Inv /\ VouchedIsLive /\ [Next]_vars => NotRefusedFor({"NO_GRANT", "SCOPE_DENIED"})
<1> SUFFICES ASSUME Inv, VouchedIsLive, [Next]_vars, NEW c \in Conns,
                    op'[c] = "sign", shape'[c] = "good", grant'[c] \in vouched,
                    code[c] = "none"
             PROVE  code'[c] \notin {"NO_GRANT", "SCOPE_DENIED"}
  BY DEF NotRefusedFor
<1> USE DEF Inv, TypeOK
<1>1. CASE code'[c] = code[c]
  BY <1>1
<1>2. CASE Restart
  BY <1>2 DEF Restart
<1>3. ASSUME NEW k \in Conns, ConnStep(k), code'[c] # code[c]
      PROVE  code'[c] \notin {"NO_GRANT", "SCOPE_DENIED"}
  <2>1. k = c
    BY <1>3, ConnFrame
  <2>2. CASE Accept(c)
    BY <2>2, <1>3 DEF Accept
  <2>3. CASE GiveUp(c) \/ Reply(c)
    BY <2>3 DEF GiveUp, Reply, Close
  <2>4. CASE Malformed(c)
    BY <2>4 DEF Malformed, Answer
  <2>5. ASSUME NEW g \in Grants, NEW s \in Shapes, Preflight(c, g, s) PROVE FALSE
    BY <2>5 DEF Preflight, Answer
  <2>6. ASSUME NEW g \in Grants, NEW s \in Shapes, Lookup(c, g, s)
        PROVE  code'[c] \notin {"NO_GRANT", "SCOPE_DENIED"}
    <3>1. CASE Misses(g) /\ Answer(c, "sign", g, "NO_GRANT")
      <4>1. grant'[c] = g
        BY <3>1 DEF Answer
      <4> QED BY <3>1, <4>1 DEF Misses, VouchedIsLive
    <3>2. CASE code' = code
      BY <3>2
    <3> QED BY <2>6, <3>1, <3>2 DEF Lookup
  <2>7. CASE Allow(c)
    BY <2>7 DEF Allow, Goto, Refuse, Answer
  <2>8. CASE Check(c)
    BY <2>8 DEF Check, Goto, Refuse, Answer
  <2>9. CASE TakeSigner(c) \/ SignPayload(c) \/ Audit(c)
    BY <2>9 DEF TakeSigner, SignPayload, Audit, Goto, Refuse, Answer
  <2> QED BY <1>3, <2>1, <2>2, <2>3, <2>4, <2>5, <2>6, <2>7, <2>8, <2>9 DEF ConnStep
<1>4. CASE CacheStep \/ Boot \/ Signal \/ CloseListener \/ ServeReturns \/ Destroy
  BY <1>1, <1>4 DEF CacheStep, Boot, Signal, CloseListener, ServeReturns, Destroy, connVars
<1>5. ASSUME NEW g \in Grants, WindowSlides(g) PROVE code'[c] = code[c]
  BY <1>5 DEF WindowSlides, connVars
<1>6. CASE UNCHANGED vars
  BY <1>1, <1>6 DEF vars, connVars
<1> QED BY <1>1, <1>2, <1>3, <1>4, <1>5, <1>6 DEF Next, ConnStep

LEMMA VouchedInvariance == SafetySpec => []VouchedIsLive
BY VouchedInit, VouchedNext, Invariance, PTL DEF SafetySpec

-------------------------------------------------------------------------------
\* Every variable keeps its type, however many grants and connections.
THEOREM TypeCorrect == Spec => []TypeOK
<1>1. Inv => TypeOK
  BY DEF Inv
<1>2. QED BY <1>1, Invariance, PTL DEF Spec

\* The signing key is destroyed only after the last connection is done with it.
THEOREM KeyIsDestroyedLast == Spec => []KeyOutlivesItsUsers
<1>1. Inv => KeyOutlivesItsUsers
  BY DEF Inv
<1>2. QED BY <1>1, Invariance, PTL DEF Spec

\* A connection accepted after the cache let a grant go gets no signature of it.
THEOREM RevokedIsRefused == Spec => []RevokedBeforeAskedIsRefused
<1>1. Inv => RevokedBeforeAskedIsRefused
  BY DEF Inv, TypeOK, EntryIsNewer, RevokedBeforeAskedIsRefused, UsesKey
<1>2. QED BY <1>1, Invariance, PTL DEF Spec

\* A signature handed out has its audit row.
THEOREM SignaturesAreAudited == Spec => []AuditMatchesSignatures
<1>1. Inv => AuditMatchesSignatures
  BY DEF Inv
<1>2. QED BY <1>1, Invariance, PTL DEF Spec

\* Between Preflight's OK and Sign's answer nothing but the rate, the key and the
\* audit log can come in, as long as the grant is held alive.
THEOREM PreflightIsRightOnAuthority == Spec => VouchedIsAuthorized
<1>1. Inv /\ VouchedIsLive /\ [Next]_vars => [NotRefusedFor({"NO_GRANT", "SCOPE_DENIED"})]_vars
  BY AuthorizedStep
<1> QED BY <1>1, Invariance, VouchedInvariance, PTL DEF Spec, SafetySpec, VouchedIsAuthorized
===============================================================================
