----------------------------- MODULE SecondFactor -----------------------------
(***************************************************************************)
(* Reviewers' tokens and their second factors: TOTP secrets sealed under   *)
(* the data key, passkeys with their challenges and counters, and the gate *)
(* on new tokens.  A handler serves one request; each of its statements is *)
(* a step, so that requests, revocations, boots and the operator's recovery*)
(* come between them.  A response or a code that does not verify is Refuse.*)
(***************************************************************************)
EXTENDS Custody, Integers

CONSTANTS
    Tokens,           \* reviewer_tokens
    Bootstrap,        \* the one made from REVIEWER_BOOTSTRAP_TOKEN
    Passkeys,
    Handlers,
    NoToken,
    Gone,             \* the owner of a passkey whose row was deleted
    MaxNonce          \* bound on the challenges issued, for model checking

ASSUME FactorAssumption ==
    /\ Bootstrap \in Tokens
    /\ NoToken \notin Tokens /\ Gone \notin Tokens /\ Gone # NoToken
    /\ MaxNonce \in Nat

VARIABLES
    tok,              \* "none", "active", "revoked" or "deleted"
    sealed,           \* totp_secret_enc: the data key it is sealed under
    latch,            \* enrollment_latch
    owner,            \* passkey -> the token it is registered with
    live,             \* passkeys without a revoked_at
    flagged,          \* passkeys with a clone_warning_at
    stored,           \* sign_count
    pending,          \* webauthn_challenges: token, purpose -> challenge, or 0
    nonce,            \* challenges issued
    device,           \* the counter in the authenticator
    signed,           \* the assertions authenticators have made
    pc, who, act,     \* a handler: its place, its token, what it is asked for
    proof,            \* the assertion it is presented
    seen,             \* the count it loaded
    gate,             \* createToken: a factor is required
    enrolled,         \* history: a factor was enrolled, enrolment not reopened since
    mustProve,        \* history: enrolled was so when the request came in
    proved,           \* history: it has verified a factor
    overtaken         \* history: another use of its passkey was recorded since it
                      \* consumed its challenge

tokenVars == <<tok, sealed, latch>>
passkeyVars == <<owner, live, flagged, stored>>
challengeVars == <<pending, nonce>>
deviceVars == <<device, signed>>
handlerVars == <<pc, who, act, proof, seen, gate>>
historyVars == <<enrolled, mustProve, proved, overtaken>>
vars == <<custodyVars, tokenVars, passkeyVars, challengeVars, deviceVars,
          handlerVars, historyVars>>

Purposes == {"registration", "assertion"}
NoProof == [key |-> NoToken, nonce |-> 0, count |-> 0]
PCs == {"idle", "begun", "totpCounted", "counted", "proving", "validating",
        "recording", "admitted", "registering"}

-------------------------------------------------------------------------------
OwnedBy(t) == {k \in Passkeys : owner[k] = t}
HasTotp(t) == sealed[t] # NoKey
HasPasskey(t) == OwnedBy(t) \cap live # {}
Serving == {p \in Procs : boot[p] = "up"}

Init ==
    /\ CustodyInit
    /\ tok = [t \in Tokens |-> "none"]
    /\ sealed = [t \in Tokens |-> NoKey]
    /\ latch = FALSE
    /\ owner = [k \in Passkeys |-> NoToken]
    /\ live = {}
    /\ flagged = {}
    /\ stored = [k \in Passkeys |-> 0]
    /\ pending = [c \in Tokens \X Purposes |-> 0]
    /\ nonce = 0
    /\ device = [k \in Passkeys |-> 0]
    /\ signed = {}
    /\ pc = [h \in Handlers |-> "idle"]
    /\ who = [h \in Handlers |-> NoToken]
    /\ act = [h \in Handlers |-> "none"]
    /\ proof = [h \in Handlers |-> NoProof]
    /\ seen = [h \in Handlers |-> 0]
    /\ gate = [h \in Handlers |-> FALSE]
    /\ enrolled = FALSE
    /\ mustProve = [h \in Handlers |-> FALSE]
    /\ proved = [h \in Handlers |-> FALSE]
    /\ overtaken = [h \in Handlers |-> FALSE]

-------------------------------------------------------------------------------
(* Boot, after the data key: bootstrapReviewerToken                        *)

CountActiveTokens(p) ==
    /\ Boot(p, "keyed", IF \E t \in Tokens : tok[t] = "active" THEN "up" ELSE "counted")
    /\ UNCHANGED <<file, wrapped, master, dek, rotation, tokenVars, passkeyVars,
                   challengeVars, deviceVars, handlerVars, historyVars>>

\* The hash is unique among active tokens: whoever comes second ends.  A new row
\* takes the place of a revoked one, and has no secret either.
InsertBootstrap(p) ==
    /\ boot[p] = "counted"
    /\ IF tok[Bootstrap] = "active"
       THEN Down(p) /\ UNCHANGED tok
       ELSE /\ Boot(p, "counted", "up")
            /\ tok' = [tok EXCEPT ![Bootstrap] = "active"]
            /\ UNCHANGED <<master, dek>>
    /\ UNCHANGED <<file, wrapped, rotation, sealed, latch, passkeyVars,
                   challengeVars, deviceVars, handlerVars, historyVars>>

-------------------------------------------------------------------------------
(* Requests                                                                *)

\* The handler goes on to a step, or ends.
Step(h, from, to) == pc[h] = from /\ pc' = [pc EXCEPT ![h] = to]

End(h) ==
    /\ pc' = [pc EXCEPT ![h] = "idle"]
    /\ who' = [who EXCEPT ![h] = NoToken]
    /\ act' = [act EXCEPT ![h] = "none"]
    /\ proof' = [proof EXCEPT ![h] = NoProof]
    /\ seen' = [seen EXCEPT ![h] = 0]
    /\ gate' = [gate EXCEPT ![h] = FALSE]
    /\ mustProve' = [mustProve EXCEPT ![h] = FALSE]
    /\ proved' = [proved EXCEPT ![h] = FALSE]
    /\ overtaken' = [overtaken EXCEPT ![h] = FALSE]

\* requireAuth: the bearer token is an active one.
BeginRequest(h, t, a) ==
    /\ Serving # {}
    /\ tok[t] = "active"
    /\ Step(h, "idle", "begun")
    /\ who' = [who EXCEPT ![h] = t]
    /\ act' = [act EXCEPT ![h] = a]
    /\ mustProve' = [mustProve EXCEPT ![h] = enrolled]
    /\ UNCHANGED <<custodyVars, tokenVars, passkeyVars, challengeVars, deviceVars,
                   proof, seen, gate, enrolled, proved, overtaken>>

\* The answer is an error, the client is gone or the process ends.
Refuse(h) ==
    /\ pc[h] # "idle"
    /\ End(h)
    /\ UNCHANGED <<custodyVars, tokenVars, passkeyVars, challengeVars, deviceVars, enrolled>>

OnlyHandler == UNCHANGED <<custodyVars, tokenVars, passkeyVars, challengeVars,
                           deviceVars, historyVars>>

\* createToken, three reads: the secrets, the passkeys (revoked ones count) ...
CountTotp(h) ==
    /\ act[h] = "mint"
    /\ Step(h, "begun", "totpCounted")
    /\ gate' = [gate EXCEPT ![h] = \E t \in Tokens : HasTotp(t)]
    /\ UNCHANGED <<who, act, proof, seen>>
    /\ OnlyHandler

CountPasskeys(h) ==
    /\ Step(h, "totpCounted", "counted")
    /\ gate' = [gate EXCEPT ![h] = @ \/ \E t \in Tokens : OwnedBy(t) # {}]
    /\ UNCHANGED <<who, act, proof, seen>>
    /\ OnlyHandler

\* ... and the latch.
ReadLatch(h) ==
    /\ Step(h, "counted", IF gate[h] \/ latch THEN "proving" ELSE "admitted")
    /\ UNCHANGED <<who, act, proof, seen, gate>>
    /\ OnlyHandler

\* Seeded fault: who has no factor passes with the bearer token alone.
FaultyRequireExisting(h) ==
    /\ act[h] = "register"
    /\ Step(h, "begun", IF HasTotp(who[h]) \/ HasPasskey(who[h]) THEN "proving" ELSE "admitted")
    /\ UNCHANGED <<who, act, proof, seen, gate>>
    /\ OnlyHandler

\* requireExistingSecondFactor: a factor of the caller's own, or no.
RequireExisting(h) ==
    /\ act[h] = "register"
    /\ HasTotp(who[h]) \/ HasPasskey(who[h])
    /\ Step(h, "begun", "proving")
    /\ UNCHANGED <<who, act, proof, seen, gate>>
    /\ OnlyHandler

-------------------------------------------------------------------------------
(* verifySecondFactor                                                      *)

\* VerifyReviewerTOTP: the secret opens, and the code is right.
VerifyTotp(h) ==
    /\ pc[h] = "proving"
    /\ HasTotp(who[h])
    /\ \E p \in Serving : dek[p] = sealed[who[h]]
    /\ Step(h, "proving", "admitted")
    /\ proved' = [proved EXCEPT ![h] = TRUE]
    /\ UNCHANGED <<custodyVars, tokenVars, passkeyVars, challengeVars, deviceVars,
                   who, act, proof, seen, gate, enrolled, mustProve, overtaken>>

\* Seeded fault: the challenge is read and stays.
FaultyConsume(c) == UNCHANGED pending

\* DELETE ... RETURNING: whoever comes second finds nothing.
Consume(c) == pending' = [pending EXCEPT ![c] = 0]

\* ConsumeWebAuthnChallenge.  The assertion counts if it is for this challenge.
ConsumeChallenge(h, a) ==
    LET c == <<who[h], "assertion">>
    IN  /\ pc[h] = "proving"
        /\ pending[c] = a.nonce
        /\ Step(h, "proving", "validating")
        /\ Consume(c)
        /\ proof' = [proof EXCEPT ![h] = a]
        /\ UNCHANGED <<custodyVars, tokenVars, passkeyVars, nonce, deviceVars,
                       who, act, seen, gate, historyVars>>

\* One for another challenge spends the challenge all the same.
WasteChallenge(h) ==
    /\ pc[h] = "proving"
    /\ pending[<<who[h], "assertion">>] # 0
    /\ pending' = [pending EXCEPT ![<<who[h], "assertion">>] = 0]
    /\ End(h)
    /\ UNCHANGED <<custodyVars, tokenVars, passkeyVars, nonce, deviceVars, enrolled>>

\* loadWebAuthnUser and ValidateLogin: the caller's own passkey, not revoked.
LoadPasskeys(h) ==
    LET k == proof[h].key
    IN  /\ pc[h] = "validating"
        /\ k \in OwnedBy(who[h]) \cap live
        /\ Step(h, "validating", "recording")
        /\ seen' = [seen EXCEPT ![h] = stored[k]]
        /\ UNCHANGED <<who, act, proof, gate>>
        /\ OnlyHandler

\* The library's UpdateCounter: not above the count loaded, unless neither counts.
CloneSuspected(h) ==
    /\ proof[h].count <= seen[h]
    /\ proof[h].count # 0 \/ seen[h] # 0

\* Seeded fault: the passkey is flagged and stays in use.
FaultyFlagClone(h) ==
    /\ pc[h] = "recording"
    /\ CloneSuspected(h)
    /\ flagged' = flagged \cup ({proof[h].key} \ OwnedBy(Gone))
    /\ End(h)
    /\ UNCHANGED <<custodyVars, tokenVars, owner, live, stored, challengeVars, deviceVars, enrolled>>

\* FlagWebAuthnCredentialCloneWarningAudited revokes it in the same statement.
FlagClone(h) ==
    /\ pc[h] = "recording"
    /\ CloneSuspected(h)
    /\ flagged' = flagged \cup ({proof[h].key} \ OwnedBy(Gone))
    /\ live' = live \ {proof[h].key}
    /\ End(h)
    /\ UNCHANGED <<custodyVars, tokenVars, owner, stored, challengeVars, deviceVars, enrolled>>

\* RecordWebAuthnAssertionUse: an UPDATE of the row, whatever it has become.
RecordUse(h) ==
    LET k == proof[h].key
    IN  /\ ~CloneSuspected(h)
        /\ Step(h, "recording", "admitted")
        /\ stored' = [stored EXCEPT ![k] = IF owner[k] = Gone THEN @ ELSE proof[h].count]
        /\ proved' = [proved EXCEPT ![h] = TRUE]
        /\ overtaken' = [g \in Handlers |->
                            overtaken[g] \/ (g # h /\ proof[g].key = k)]
        /\ UNCHANGED <<custodyVars, tokenVars, owner, live, flagged, challengeVars,
                       deviceVars, who, act, proof, seen, gate, enrolled, mustProve>>

-------------------------------------------------------------------------------
(* What is admitted                                                        *)

\* Seeded fault: the latch is left to the passkeys.
FaultySetLatch(l) == l

SetLatch(l) == TRUE

\* CreateReviewerToken, one transaction; the secret is sealed by a process that
\* serves, before it begins.
MintToken(h, t) ==
    /\ pc[h] = "admitted"
    /\ act[h] = "mint"
    /\ t # Bootstrap /\ tok[t] = "none"
    /\ tok' = [tok EXCEPT ![t] = "active"]
    /\ \E p \in Serving : sealed' = [sealed EXCEPT ![t] = dek[p]]
    /\ latch' = SetLatch(latch)
    /\ enrolled' = TRUE
    /\ End(h)
    /\ UNCHANGED <<custodyVars, passkeyVars, challengeVars, deviceVars>>

\* PutWebAuthnChallenge: a new challenge takes the place of the last.  Its token
\* is a foreign key.
PutChallenge(t, purpose) ==
    /\ tok[t] # "deleted"
    /\ nonce < MaxNonce
    /\ nonce' = nonce + 1
    /\ pending' = [pending EXCEPT ![<<t, purpose>>] = nonce + 1]

IssueRegistration(h) ==
    /\ pc[h] = "admitted"
    /\ act[h] = "register"
    /\ PutChallenge(who[h], "registration")
    /\ End(h)
    /\ UNCHANGED <<custodyVars, tokenVars, passkeyVars, deviceVars, enrolled>>

\* webauthnAssertBegin.
AssertBegin(t) ==
    /\ Serving # {}
    /\ tok[t] = "active"
    /\ HasPasskey(t)
    /\ PutChallenge(t, "assertion")
    /\ UNCHANGED <<custodyVars, tokenVars, passkeyVars, deviceVars, handlerVars, historyVars>>

\* webauthnRegisterFinish consumes the challenge ...
FinishRegistration(h) ==
    /\ act[h] = "finish"
    /\ pending[<<who[h], "registration">>] # 0
    /\ Step(h, "begun", "registering")
    /\ pending' = [pending EXCEPT ![<<who[h], "registration">>] = 0]
    /\ UNCHANGED <<custodyVars, tokenVars, passkeyVars, nonce, deviceVars,
                   who, act, proof, seen, gate, historyVars>>

\* ... and CreateWebAuthnCredential inserts a credential no row has had, of a
\* token that is still there.
CreateCredential(h, k) ==
    /\ pc[h] = "registering"
    /\ owner[k] = NoToken
    /\ tok[who[h]] # "deleted"
    /\ owner' = [owner EXCEPT ![k] = who[h]]
    /\ live' = live \cup {k}
    /\ stored' = [stored EXCEPT ![k] = device[k]]
    /\ latch' = TRUE
    /\ enrolled' = TRUE
    /\ End(h)
    /\ UNCHANGED <<custodyVars, tok, sealed, flagged, challengeVars, deviceVars>>

RevokeToken(t) ==
    /\ tok[t] = "active"
    /\ tok' = [tok EXCEPT ![t] = "revoked"]
    /\ UNCHANGED <<custodyVars, sealed, latch, passkeyVars, challengeVars, deviceVars,
                   handlerVars, historyVars>>

RevokePasskey(k) ==
    /\ k \in live
    /\ live' = live \ {k}
    /\ UNCHANGED <<custodyVars, tokenVars, owner, flagged, stored, challengeVars,
                   deviceVars, handlerVars, historyVars>>

ExpireChallenge(c) ==
    /\ pending[c] # 0
    /\ pending' = [pending EXCEPT ![c] = 0]
    /\ UNCHANGED <<custodyVars, tokenVars, passkeyVars, nonce, deviceVars,
                   handlerVars, historyVars>>

-------------------------------------------------------------------------------
(* Around the program                                                      *)

\* The reviewer touches the authenticator for the challenge on the screen.
SignChallenge(k) ==
    \E t \in Tokens :
        LET n == pending[<<t, "assertion">>]
        IN  /\ owner[k] = t
            /\ n # 0
            /\ \A a \in signed : a.nonce # n
            /\ device' = [device EXCEPT ![k] = @ + 1]
            /\ signed' = signed \cup {[key |-> k, nonce |-> n, count |-> device[k] + 1]}
            /\ UNCHANGED <<custodyVars, tokenVars, passkeyVars, challengeVars,
                           handlerVars, historyVars>>

\* Recovery, step 1: DELETE FROM reviewer_tokens takes the passkeys and the
\* challenges with the tokens.
ClearFactors ==
    /\ tok' = [t \in Tokens |-> IF tok[t] = "none" THEN "none" ELSE "deleted"]
    /\ sealed' = [t \in Tokens |-> NoKey]
    /\ owner' = [k \in Passkeys |-> IF owner[k] = NoToken THEN NoToken ELSE Gone]
    /\ live' = {}
    /\ pending' = [c \in Tokens \X Purposes |-> 0]
    /\ UNCHANGED <<custodyVars, latch, flagged, stored, nonce, deviceVars,
                   handlerVars, historyVars>>

\* Recovery, step 2, when nothing is left of what step 1 clears: enrolment is open
\* again, on purpose.
ResetLatch ==
    /\ \A t \in Tokens : ~HasTotp(t) /\ OwnedBy(t) = {}
    /\ latch
    /\ latch' = FALSE
    /\ enrolled' = FALSE
    /\ mustProve' = [h \in Handlers |-> FALSE]
    /\ UNCHANGED <<custodyVars, tok, sealed, passkeyVars, challengeVars, deviceVars,
                   handlerVars, proved, overtaken>>

HandlerStep(h) ==
    \/ \E t \in Tokens, a \in {"mint", "register", "finish"} : BeginRequest(h, t, a)
    \/ Refuse(h)
    \/ CountTotp(h)
    \/ CountPasskeys(h)
    \/ ReadLatch(h)
    \/ RequireExisting(h)
    \/ VerifyTotp(h)
    \/ \E a \in signed : ConsumeChallenge(h, a)
    \/ WasteChallenge(h)
    \/ LoadPasskeys(h)
    \/ FlagClone(h)
    \/ RecordUse(h)
    \/ \E t \in Tokens : MintToken(h, t)
    \/ IssueRegistration(h)
    \/ FinishRegistration(h)
    \/ \E k \in Passkeys : CreateCredential(h, k)

FactorStep ==
    \/ \E h \in Handlers : HandlerStep(h)
    \/ \E t \in Tokens : AssertBegin(t) \/ RevokeToken(t)
    \/ \E k \in Passkeys : RevokePasskey(k) \/ SignChallenge(k)
    \/ \E c \in Tokens \X Purposes : ExpireChallenge(c)
    \/ ClearFactors
    \/ ResetLatch

Next ==
    \/ /\ CustodyNext
       /\ UNCHANGED <<tokenVars, passkeyVars, challengeVars, deviceVars,
                      handlerVars, historyVars>>
    \/ \E p \in Procs : CountActiveTokens(p) \/ InsertBootstrap(p)
    \/ FactorStep

Spec == Init /\ [][Next]_vars

-------------------------------------------------------------------------------
(* Properties                                                              *)

TypeOK ==
    /\ CustodyTypeOK
    /\ tok \in [Tokens -> {"none", "active", "revoked", "deleted"}]
    /\ sealed \in [Tokens -> Procs \cup {NoKey}]
    /\ latch \in BOOLEAN
    /\ owner \in [Passkeys -> Tokens \cup {NoToken, Gone}]
    /\ live \subseteq {k \in Passkeys : owner[k] \in Tokens}
    /\ flagged \subseteq {k \in Passkeys : owner[k] # NoToken} \ live
    /\ stored \in [Passkeys -> Nat]
    /\ pending \in [Tokens \X Purposes -> Nat]
    /\ nonce \in Nat
    /\ device \in [Passkeys -> Nat]
    /\ signed \subseteq [key : Passkeys, nonce : Nat, count : Nat]
    /\ pc \in [Handlers -> PCs]
    /\ who \in [Handlers -> Tokens \cup {NoToken}]
    /\ act \in [Handlers -> {"none", "mint", "register", "finish"}]
    /\ proof \in [Handlers -> [key : Passkeys \cup {NoToken}, nonce : Nat, count : Nat]]
    /\ seen \in [Handlers -> Nat]
    /\ gate \in [Handlers -> BOOLEAN]
    /\ enrolled \in BOOLEAN
    /\ mustProve \in [Handlers -> BOOLEAN]
    /\ proved \in [Handlers -> BOOLEAN]
    /\ overtaken \in [Handlers -> BOOLEAN]

\* data_keys.go:64: every secret ever sealed opens in every process that serves,
\* whichever of them made the data key, and across crashes and rotations.
EnrolledSecretsOpen ==
    \A t \in Tokens, p \in Procs :
        HasTotp(t) /\ HasKey(p) => dek[p] = sealed[t]

\* api.go:338: the bootstrap token has no second factor, and never gets one.
BootstrapStaysFactorless == ~HasTotp(Bootstrap) /\ OwnedBy(Bootstrap) = {}

\* tokens.go:127: "Once that first device is enrolled the gate is permanently
\* closed": a request for a token that comes in after the enrolment goes through
\* only with a factor proved, whatever is revoked or cleared meanwhile, until the
\* operator resets the latch as well.
MintsAreProved ==
    \A h \in Handlers :
        pc[h] = "admitted" /\ act[h] = "mint" /\ mustProve[h] => proved[h]

\* webauthn.go:367: a passkey's count goes back, or the passkey is revoked as a
\* clone though there is one authenticator, only in a request that another use of
\* the passkey has overtaken.
OutOfOrderOnlyIfOvertaken ==
    [][\A k \in Passkeys :
          (stored'[k] < stored[k] \/ k \in flagged' \ flagged) =>
              \E h \in Handlers : proof[h].key = k /\ overtaken[h]]_vars
===============================================================================
