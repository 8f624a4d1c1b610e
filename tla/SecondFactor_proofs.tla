-------------------------- MODULE SecondFactor_proofs --------------------------
(***************************************************************************)
(* Proofs about SecondFactor, for any processes, tokens, passkeys and      *)
(* handlers.  From its insertion on there is one data key, and who has one *)
(* has that one (OneDataKey).  On this and the types (Typed) rest four     *)
(* separate arguments: what secrets are sealed under (SealedUnderIt), the  *)
(* gate on new tokens (GateHolds), the bootstrap token                     *)
(* (BootstrapGoesNowhere), and the order of a passkey's uses (OrderInv).   *)
(***************************************************************************)
EXTENDS SecondFactor, TLAPS

-------------------------------------------------------------------------------
(* Steps                                                                   *)

LEMMA NextCases ==
  ASSUME [Next]_vars
  PROVE  \/ /\ CustodyNext
            /\ UNCHANGED <<tokenVars, passkeyVars, challengeVars, deviceVars,
                           handlerVars, historyVars>>
         \/ \E p \in Procs : CountActiveTokens(p) \/ InsertBootstrap(p)
         \/ \E h \in Handlers : HandlerStep(h)
         \/ \E t \in Tokens : AssertBegin(t) \/ RevokeToken(t)
         \/ \E k \in Passkeys : RevokePasskey(k) \/ SignChallenge(k)
         \/ \E c \in Tokens \X Purposes : ExpireChallenge(c)
         \/ ClearFactors
         \/ ResetLatch
         \/ UNCHANGED vars
BY DEF Next, FactorStep

\* The request's own steps leave the keys alone.
LEMMA HandlerFrame ==
  ASSUME NEW h \in Handlers, HandlerStep(h)
  PROVE  UNCHANGED custodyVars
BY DEF HandlerStep, BeginRequest, Refuse, CountTotp, CountPasskeys, ReadLatch, RequireExisting,
       VerifyTotp, ConsumeChallenge, WasteChallenge, LoadPasskeys, FlagClone, RecordUse,
       MintToken, IssueRegistration, FinishRegistration, CreateCredential, OnlyHandler

-------------------------------------------------------------------------------
(* The data key                                                            *)

OneDataKey ==
    /\ CustodyTypeOK
    /\ wrapped # NoRow => wrapped.key \in Procs
    /\ \A p \in Procs :
          /\ boot[p] = "writing" => master[p] \in Masters
          /\ boot[p] = "minting" => dek[p] = p
          /\ HasKey(p) => wrapped # NoRow /\ dek[p] = wrapped.key
    /\ \A o \in Rotators :
          rotation[o] # NoRow => wrapped # NoRow /\ rotation[o].key = wrapped.key

\* A data key that is in the row stays the one in the row.
KeyStays == wrapped # NoRow => wrapped' # NoRow /\ wrapped'.key = wrapped.key

CustodyKept == OneDataKey' /\ KeyStays

LEMMA DownKeeps ==
  ASSUME OneDataKey, NEW p \in Procs, Down(p), UNCHANGED <<file, wrapped, rotation>>
  PROVE  CustodyKept
BY DEF CustodyKept, OneDataKey, CustodyTypeOK, KeyStays, Down, HasKey, Boots

LEMMA TakeKeeps ==
  ASSUME OneDataKey, NEW p \in Procs, TakeDataKey(p), wrapped # NoRow,
         UNCHANGED <<file, wrapped, rotation>>
  PROVE  CustodyKept
<1>1. CASE Down(p)
  BY <1>1, DownKeeps
<1>2. CASE ~Down(p)
  BY <1>2 DEF TakeDataKey, CustodyKept, OneDataKey, CustodyTypeOK, KeyStays, HasKey, Boots
<1> QED BY <1>1, <1>2

LEMMA CustodyKeeps == OneDataKey /\ CustodyNext => CustodyKept
<1> SUFFICES ASSUME OneDataKey, CustodyNext PROVE CustodyKept
  OBVIOUS
<1> USE CustodyAssumption DEF Boot
<1>1. ASSUME NEW p \in Procs, CreateKeyFile(p) PROVE CustodyKept
  BY <1>1 DEF CreateKeyFile, CustodyKept, OneDataKey, CustodyTypeOK, KeyStays, HasKey, Boots
<1>2. ASSUME NEW p \in Procs, WriteKeyFile(p) PROVE CustodyKept
  BY <1>2 DEF WriteKeyFile, CustodyKept, OneDataKey, CustodyTypeOK, KeyStays, HasKey, Boots
<1>3. ASSUME NEW p \in Procs, Unseal(p) PROVE CustodyKept
  BY <1>3 DEF Unseal, CustodyKept, OneDataKey, CustodyTypeOK, KeyStays, HasKey, Boots
<1>4. ASSUME NEW p \in Procs, LoadDataKey(p) PROVE CustodyKept
  <2>1. CASE wrapped # NoRow
    BY <1>4, <2>1, TakeKeeps DEF LoadDataKey
  <2>2. CASE wrapped = NoRow
    BY <1>4, <2>2
       DEF LoadDataKey, CustodyKept, OneDataKey, CustodyTypeOK, KeyStays, HasKey, Boots
  <2> QED BY <2>1, <2>2
<1>5. ASSUME NEW p \in Procs, InsertDataKey(p) PROVE CustodyKept
  <2>1. CASE wrapped # NoRow
    BY <1>5, <2>1, TakeKeeps DEF InsertDataKey
  <2>2. CASE wrapped = NoRow
    <3>1. /\ boot[p] = "minting" /\ boot' = [boot EXCEPT ![p] = "keyed"]
          /\ wrapped' = [key |-> p, under |-> master[p]]
          /\ UNCHANGED <<file, master, dek, rotation>> /\ dek[p] = p
      BY <1>5, <2>2 DEF InsertDataKey, OneDataKey
    <3>2. CustodyTypeOK'
      BY <3>1 DEF OneDataKey, CustodyTypeOK, Boots
    <3> QED BY <2>2, <3>1, <3>2
            DEF CustodyKept, OneDataKey, CustodyTypeOK, KeyStays, HasKey, Boots, NoRow
  <2> QED BY <2>1, <2>2
<1>6. ASSUME NEW p \in Procs, Crash(p) PROVE CustodyKept
  BY <1>6, DownKeeps DEF Crash
<1>7. ASSUME NEW o \in Rotators, NEW m \in Masters, BeginRewrap(o, m) PROVE CustodyKept
  BY <1>7 DEF BeginRewrap, bootVars, CustodyKept, OneDataKey, CustodyTypeOK, KeyStays, HasKey
<1>8. ASSUME NEW o \in Rotators, FinishRewrap(o) PROVE CustodyKept
  BY <1>8 DEF FinishRewrap, bootVars, CustodyKept, OneDataKey, CustodyTypeOK, KeyStays, HasKey,
              NoRow
<1>9. ASSUME NEW o \in Rotators, AbandonRewrap(o) PROVE CustodyKept
  BY <1>9 DEF AbandonRewrap, bootVars, CustodyKept, OneDataKey, CustodyTypeOK, KeyStays, HasKey,
              NoRow
<1>10. ASSUME NEW m \in Masters, InstallKeyFile(m) PROVE CustodyKept
  BY <1>10 DEF InstallKeyFile, bootVars, CustodyKept, OneDataKey, CustodyTypeOK, KeyStays, HasKey
<1> QED BY <1>1, <1>2, <1>3, <1>4, <1>5, <1>6, <1>7, <1>8, <1>9, <1>10 DEF CustodyNext

LEMMA KeyInit == Init => OneDataKey
BY DEF Init, CustodyInit, OneDataKey, CustodyTypeOK, HasKey, Boots, NoRow

LEMMA KeyNext == OneDataKey /\ [Next]_vars => CustodyKept
<1> SUFFICES ASSUME OneDataKey, [Next]_vars PROVE CustodyKept
  OBVIOUS
<1>1. ASSUME UNCHANGED custodyVars PROVE CustodyKept
  BY <1>1 DEF custodyVars, CustodyKept, OneDataKey, CustodyTypeOK, KeyStays, HasKey
<1>2. ASSUME NEW p \in Procs, CountActiveTokens(p) PROVE CustodyKept
  BY <1>2 DEF CountActiveTokens, Boot, CustodyKept, OneDataKey, CustodyTypeOK, KeyStays, HasKey,
              Boots
<1>3. ASSUME NEW p \in Procs, InsertBootstrap(p) PROVE CustodyKept
  <2>1. CASE Down(p)
    BY <1>3, <2>1, DownKeeps DEF InsertBootstrap
  <2>2. CASE ~Down(p)
    BY <1>3, <2>2 DEF InsertBootstrap, Boot, CustodyKept, OneDataKey, CustodyTypeOK, KeyStays,
                      HasKey, Boots
  <2> QED BY <2>1, <2>2
<1>4. ASSUME NEW t \in Tokens, AssertBegin(t) \/ RevokeToken(t) PROVE UNCHANGED custodyVars
  BY <1>4 DEF AssertBegin, RevokeToken
<1>5. ASSUME NEW k \in Passkeys, RevokePasskey(k) \/ SignChallenge(k) PROVE UNCHANGED custodyVars
  BY <1>5 DEF RevokePasskey, SignChallenge
<1>6. ASSUME NEW c \in Tokens \X Purposes, ExpireChallenge(c) PROVE UNCHANGED custodyVars
  BY <1>6 DEF ExpireChallenge
<1>7. ClearFactors \/ ResetLatch \/ UNCHANGED vars => UNCHANGED custodyVars
  BY DEF ClearFactors, ResetLatch, vars
<1> QED BY <1>1, <1>2, <1>3, <1>4, <1>5, <1>6, <1>7, CustodyKeeps, HandlerFrame, NextCases

LEMMA KeyInvariance == Spec => []OneDataKey
BY KeyInit, KeyNext, PTL DEF Spec, CustodyKept

\* LoadOrCreateDataKey and RewrapDataKey: whoever made the data key, and whatever
\* boots, crashes or rotates, the row names the same key for ever, and every
\* process that has one has that.
THEOREM DataKeyIsForever ==
  Spec => /\ [][KeyStays]_vars
          /\ [](\A p \in Procs : HasKey(p) => wrapped # NoRow /\ dek[p] = wrapped.key)
<1> DEFINE Shared == \A p \in Procs : HasKey(p) => wrapped # NoRow /\ dek[p] = wrapped.key
<1>1. OneDataKey => Shared
  BY DEF OneDataKey
<1>2. OneDataKey /\ [Next]_vars => [KeyStays]_vars
  BY KeyNext DEF CustodyKept
<1> QED BY <1>1, <1>2, KeyInvariance, PTL DEF Spec

-------------------------------------------------------------------------------
(* Type correctness                                                        *)

\* The types of the handlers, and what those in the middle of a request have.
HandlerTypes ==
    /\ pc \in [Handlers -> PCs]
    /\ who \in [Handlers -> Tokens \cup {NoToken}]
    /\ act \in [Handlers -> {"none", "mint", "register", "finish"}]
    /\ proof \in [Handlers -> [key : Passkeys \cup {NoToken}, nonce : Nat, count : Nat]]
    /\ seen \in [Handlers -> Nat]
    /\ gate \in [Handlers -> BOOLEAN]
    /\ mustProve \in [Handlers -> BOOLEAN]
    /\ proved \in [Handlers -> BOOLEAN]
    /\ overtaken \in [Handlers -> BOOLEAN]

InTheMiddle ==
    \A h \in Handlers :
        /\ pc[h] # "idle" => who[h] \in Tokens
        /\ pc[h] \in {"validating", "recording"} => proof[h] \in signed
        /\ pc[h] = "recording" => owner[proof[h].key] # NoToken

RowTypes ==
    /\ tok \in [Tokens -> {"none", "active", "revoked", "deleted"}]
    /\ sealed \in [Tokens -> Procs \cup {NoKey}]
    /\ latch \in BOOLEAN
    /\ owner \in [Passkeys -> Tokens \cup {NoToken, Gone}]
    /\ live \subseteq {k \in Passkeys : owner[k] \in Tokens}
    /\ flagged \subseteq {k \in Passkeys : owner[k] # NoToken} \ live
    /\ stored \in [Passkeys -> Nat]
    /\ pending \in [Tokens \X Purposes -> Nat]
    /\ nonce \in Nat
    /\ device \in [Passkeys -> Nat]
    /\ signed \subseteq [key : Passkeys, nonce : Nat, count : Nat]
    /\ enrolled \in BOOLEAN

Typed == RowTypes /\ HandlerTypes /\ InTheMiddle

\* A passkey that was registered is never as if it had not been.
OwnersStay ==
    /\ signed \subseteq signed'
    /\ \A k \in Passkeys : owner[k] # NoToken => owner'[k] # NoToken

LEMMA TypedInit == Init => Typed
<1> USE FactorAssumption
<1>1. Init => RowTypes
  <2>1. Init => /\ tok \in [Tokens -> {"none", "active", "revoked", "deleted"}]
                /\ sealed \in [Tokens -> Procs \cup {NoKey}]
                /\ pending \in [Tokens \X Purposes -> Nat]
    BY DEF Init
  <2>2. Init => /\ owner \in [Passkeys -> Tokens \cup {NoToken, Gone}]
                /\ stored \in [Passkeys -> Nat] /\ device \in [Passkeys -> Nat]
    BY DEF Init
  <2>3. Init => latch \in BOOLEAN /\ enrolled \in BOOLEAN
    BY DEF Init
  <2>4. Init => live = {} /\ flagged = {} /\ signed = {} /\ nonce = 0
    BY DEF Init
  <2> QED BY <2>1, <2>2, <2>3, <2>4 DEF RowTypes
<1>2. Init => HandlerTypes /\ InTheMiddle
  BY DEF Init, HandlerTypes, InTheMiddle, PCs, NoProof
<1> QED BY <1>1, <1>2 DEF Typed

\* The request is answered; the others go on.
LEMMA EndTyped ==
  ASSUME Typed, NEW h \in Handlers, End(h), OwnersStay
  PROVE  HandlerTypes' /\ InTheMiddle'
<1>1. HandlerTypes'
  BY DEF End, Typed, HandlerTypes, PCs, NoProof
<1>2. /\ pc'[h] = "idle"
      /\ \A g \in Handlers \ {h} : pc'[g] = pc[g] /\ who'[g] = who[g] /\ proof'[g] = proof[g]
  BY DEF End, Typed, HandlerTypes
<1>3. \A g \in Handlers : pc[g] = "recording" => proof[g].key \in Passkeys
  BY DEF Typed, InTheMiddle, RowTypes
<1> QED BY <1>1, <1>2, <1>3 DEF Typed, InTheMiddle, OwnersStay

\* Nothing happens to the requests being served.
LEMMA WaitTyped ==
  ASSUME Typed, UNCHANGED <<pc, who, act, proof, seen, gate>>, OwnersStay,
         mustProve' \in [Handlers -> BOOLEAN], UNCHANGED <<proved, overtaken>>
  PROVE  HandlerTypes' /\ InTheMiddle'
<1>1. \A g \in Handlers : pc[g] = "recording" => proof[g].key \in Passkeys
  BY DEF Typed, InTheMiddle, RowTypes
<1> QED BY <1>1 DEF Typed, HandlerTypes, InTheMiddle, OwnersStay

\* The steps of a request that write no row.
LEMMA ReadingTyped ==
  ASSUME Typed, NEW h \in Handlers,
         \/ \E t \in Tokens, a \in {"mint", "register", "finish"} : BeginRequest(h, t, a)
         \/ CountTotp(h) \/ CountPasskeys(h) \/ ReadLatch(h) \/ RequireExisting(h)
         \/ VerifyTotp(h) \/ LoadPasskeys(h)
  PROVE  Typed'
<1> USE DEF Step, OnlyHandler, historyVars
<1>1. UNCHANGED <<tokenVars, passkeyVars, challengeVars, deviceVars, enrolled>>
  BY DEF BeginRequest, CountTotp, CountPasskeys, ReadLatch, RequireExisting, VerifyTotp,
         LoadPasskeys
<1>2. RowTypes'
  BY <1>1 DEF tokenVars, passkeyVars, challengeVars, deviceVars, Typed, RowTypes
<1>3. HandlerTypes'
  <2>1. ASSUME NEW t \in Tokens, NEW a \in {"mint", "register", "finish"}, BeginRequest(h, t, a)
        PROVE  HandlerTypes'
    BY <2>1 DEF BeginRequest, Typed, HandlerTypes, RowTypes, PCs
  <2>2. CASE CountTotp(h) \/ CountPasskeys(h) \/ ReadLatch(h) \/ RequireExisting(h)
    BY <2>2 DEF CountTotp, CountPasskeys, ReadLatch, RequireExisting, Typed, HandlerTypes, PCs
  <2>3. CASE VerifyTotp(h)
    BY <2>3 DEF VerifyTotp, Typed, HandlerTypes, PCs
  <2>4. CASE LoadPasskeys(h)
    <3>1. stored[proof[h].key] \in Nat
      BY <2>4 DEF LoadPasskeys, OwnedBy, Typed, RowTypes
    <3> QED BY <2>4, <3>1 DEF LoadPasskeys, Typed, HandlerTypes, PCs
  <2> QED BY <2>1, <2>2, <2>3, <2>4
<1>4. InTheMiddle'
  <2>0. signed' = signed /\ owner' = owner
    BY <1>1 DEF deviceVars, passkeyVars
  <2>1. ASSUME NEW t \in Tokens, NEW a \in {"mint", "register", "finish"}, BeginRequest(h, t, a)
        PROVE  InTheMiddle'
    BY <2>0, <2>1 DEF BeginRequest, Typed, HandlerTypes, InTheMiddle
  <2>2. CASE CountTotp(h) \/ CountPasskeys(h) \/ ReadLatch(h) \/ RequireExisting(h) \/ VerifyTotp(h)
    BY <2>0, <2>2 DEF CountTotp, CountPasskeys, ReadLatch, RequireExisting, VerifyTotp, Typed,
                      HandlerTypes, InTheMiddle
  <2>3. CASE LoadPasskeys(h)
    <3>1. owner[proof[h].key] # NoToken
      BY <2>3, FactorAssumption DEF LoadPasskeys, OwnedBy, Typed, RowTypes
    <3> QED BY <2>0, <2>3, <3>1 DEF LoadPasskeys, Typed, HandlerTypes, InTheMiddle
  <2> QED BY <2>1, <2>2, <2>3
<1> QED BY <1>2, <1>3, <1>4 DEF Typed

\* The statements that write rows and go on.
LEMMA WritingTyped ==
  ASSUME Typed, NEW h \in Handlers,
         \/ \E a \in signed : ConsumeChallenge(h, a)
         \/ RecordUse(h) \/ FinishRegistration(h)
  PROVE  Typed'
<1> USE DEF Step
<1>1. ASSUME NEW a \in signed, ConsumeChallenge(h, a) PROVE Typed'
  <2>1. RowTypes'
    BY <1>1 DEF ConsumeChallenge, Consume, tokenVars, passkeyVars, deviceVars, historyVars,
                Typed, RowTypes
  <2>2. HandlerTypes'
    BY <1>1 DEF ConsumeChallenge, historyVars, Typed, RowTypes, HandlerTypes, PCs
  <2>3. InTheMiddle'
    BY <1>1 DEF ConsumeChallenge, passkeyVars, deviceVars, Typed, HandlerTypes, InTheMiddle
  <2> QED BY <2>1, <2>2, <2>3 DEF Typed
<1>2. ASSUME RecordUse(h) PROVE Typed'
  <2>1. proof[h].count \in Nat /\ proof[h].key \in Passkeys
    BY <1>2 DEF RecordUse, Typed, InTheMiddle, RowTypes
  <2>2. RowTypes'
    <3>1. stored' \in [Passkeys -> Nat]
      BY <1>2, <2>1 DEF RecordUse, Typed, RowTypes
    <3> QED BY <1>2, <3>1 DEF RecordUse, tokenVars, challengeVars, deviceVars, Typed, RowTypes
  <2>3. HandlerTypes'
    BY <1>2 DEF RecordUse, Typed, HandlerTypes, PCs
  <2>4. InTheMiddle'
    BY <1>2 DEF RecordUse, deviceVars, Typed, HandlerTypes, InTheMiddle
  <2> QED BY <2>2, <2>3, <2>4 DEF Typed
<1>3. ASSUME FinishRegistration(h) PROVE Typed'
  <2>1. RowTypes'
    BY <1>3 DEF FinishRegistration, tokenVars, passkeyVars, deviceVars, historyVars, Typed, RowTypes
  <2>2. HandlerTypes'
    BY <1>3 DEF FinishRegistration, historyVars, Typed, HandlerTypes, PCs
  <2>3. InTheMiddle'
    BY <1>3 DEF FinishRegistration, passkeyVars, deviceVars, Typed, HandlerTypes, InTheMiddle
  <2> QED BY <2>1, <2>2, <2>3 DEF Typed
<1> QED BY <1>1, <1>2, <1>3

\* A new challenge is well typed, in whose place it may be put.
LEMMA ChallengeTyped ==
  ASSUME Typed, NEW t \in Tokens, NEW purpose \in Purposes, PutChallenge(t, purpose)
  PROVE  pending' \in [Tokens \X Purposes -> Nat] /\ nonce' \in Nat
BY DEF PutChallenge, Typed, RowTypes

\* The steps a request ends with.
LEMMA EndingTyped ==
  ASSUME Typed, CustodyTypeOK, NEW h \in Handlers,
         \/ Refuse(h) \/ WasteChallenge(h) \/ FlagClone(h) \/ IssueRegistration(h)
         \/ \E t \in Tokens : MintToken(h, t)
         \/ \E k \in Passkeys : CreateCredential(h, k)
  PROVE  Typed'
<1>1. End(h)
  BY DEF Refuse, WasteChallenge, FlagClone, IssueRegistration, MintToken, CreateCredential
<1>2. OwnersStay
  <2>1. ASSUME NEW k \in Passkeys, CreateCredential(h, k) PROVE OwnersStay
    BY <2>1 DEF CreateCredential, deviceVars, Typed, RowTypes, OwnersStay
  <2>2. ASSUME NEW t \in Tokens, MintToken(h, t) PROVE OwnersStay
    BY <2>2 DEF MintToken, deviceVars, passkeyVars, OwnersStay
  <2>3. CASE Refuse(h) \/ WasteChallenge(h) \/ FlagClone(h) \/ IssueRegistration(h)
    BY <2>3 DEF Refuse, WasteChallenge, FlagClone, IssueRegistration, deviceVars, passkeyVars,
                OwnersStay
  <2> QED BY <2>1, <2>2, <2>3
<1>3. RowTypes'
  <2> USE DEF tokenVars, passkeyVars, challengeVars, deviceVars, Typed, RowTypes
  <2>1. CASE Refuse(h) \/ WasteChallenge(h)
    BY <2>1 DEF Refuse, WasteChallenge
  <2>2. CASE FlagClone(h)
    <3>1. proof[h].key \in Passkeys /\ owner[proof[h].key] # NoToken
      BY <2>2 DEF FlagClone, InTheMiddle
    <3> QED BY <2>2, <3>1 DEF FlagClone
  <2>3. CASE IssueRegistration(h)
    <3>1. who[h] \in Tokens
      BY <2>3 DEF IssueRegistration, InTheMiddle
    <3>2. pending' \in [Tokens \X Purposes -> Nat] /\ nonce' \in Nat
      BY <2>3, <3>1, ChallengeTyped DEF IssueRegistration, Purposes
    <3> QED BY <2>3, <3>2 DEF IssueRegistration
  <2>4. ASSUME NEW t \in Tokens, MintToken(h, t) PROVE RowTypes'
    <3>1. \A p \in Procs : dek[p] \in Procs \cup {NoKey}
      BY DEF CustodyTypeOK
    <3>2. sealed' \in [Tokens -> Procs \cup {NoKey}]
      BY <2>4, <3>1 DEF MintToken, Serving
    <3> QED BY <2>4, <3>2 DEF MintToken, SetLatch
  <2>5. ASSUME NEW k \in Passkeys, CreateCredential(h, k) PROVE RowTypes'
    <3>1. who[h] \in Tokens
      BY <2>5 DEF CreateCredential, InTheMiddle
    <3> QED BY <2>5, <3>1, FactorAssumption DEF CreateCredential
  <2> QED BY <2>1, <2>2, <2>3, <2>4, <2>5
<1> QED BY <1>1, <1>2, <1>3, EndTyped DEF Typed

LEMMA TypedNext == Typed /\ OneDataKey /\ [Next]_vars => Typed'
<1> SUFFICES ASSUME Typed, OneDataKey, [Next]_vars PROVE Typed'
  OBVIOUS
<1> USE DEF tokenVars, passkeyVars, challengeVars, deviceVars, handlerVars, historyVars
<1>0. mustProve \in [Handlers -> BOOLEAN] /\ CustodyTypeOK
  BY DEF Typed, HandlerTypes, OneDataKey
<1>1. ASSUME UNCHANGED <<tokenVars, passkeyVars, challengeVars, deviceVars, handlerVars, historyVars>>
      PROVE  Typed'
  BY <1>1 DEF Typed, RowTypes, HandlerTypes, InTheMiddle
<1>2. ASSUME NEW p \in Procs, CountActiveTokens(p) PROVE Typed'
  BY <1>1, <1>2 DEF CountActiveTokens
<1>3. ASSUME NEW p \in Procs, InsertBootstrap(p) PROVE Typed'
  <2>1. RowTypes' /\ OwnersStay
    BY <1>3 DEF InsertBootstrap, Typed, RowTypes, OwnersStay
  <2> QED BY <1>0, <1>3, <2>1, WaitTyped DEF InsertBootstrap, Typed
<1>4. ASSUME NEW h \in Handlers, HandlerStep(h) PROVE Typed'
  BY <1>0, <1>4, ReadingTyped, WritingTyped, EndingTyped DEF HandlerStep
<1>5. ASSUME NEW t \in Tokens, AssertBegin(t) PROVE Typed'
  <2>1. pending' \in [Tokens \X Purposes -> Nat] /\ nonce' \in Nat
    BY <1>5, ChallengeTyped DEF AssertBegin, Purposes
  <2>2. RowTypes' /\ OwnersStay
    BY <1>5, <2>1 DEF AssertBegin, Typed, RowTypes, OwnersStay
  <2> QED BY <1>0, <1>5, <2>2, WaitTyped DEF AssertBegin, Typed
<1>6. ASSUME NEW t \in Tokens, RevokeToken(t) PROVE Typed'
  <2>1. RowTypes' /\ OwnersStay
    BY <1>6 DEF RevokeToken, Typed, RowTypes, OwnersStay
  <2> QED BY <1>0, <1>6, <2>1, WaitTyped DEF RevokeToken, Typed
<1>7. ASSUME NEW k \in Passkeys, RevokePasskey(k) PROVE Typed'
  <2>1. RowTypes' /\ OwnersStay
    BY <1>7 DEF RevokePasskey, Typed, RowTypes, OwnersStay
  <2> QED BY <1>0, <1>7, <2>1, WaitTyped DEF RevokePasskey, Typed
<1>8. ASSUME NEW k \in Passkeys, SignChallenge(k) PROVE Typed'
  <2>1. PICK t \in Tokens :
           /\ device' = [device EXCEPT ![k] = @ + 1]
           /\ signed' = signed \cup {[key |-> k, nonce |-> pending[<<t, "assertion">>],
                                      count |-> device[k] + 1]}
    BY <1>8 DEF SignChallenge
  <2>2. pending[<<t, "assertion">>] \in Nat /\ device[k] \in Nat
    BY DEF Typed, RowTypes, Purposes
  <2>3. UNCHANGED <<tokenVars, passkeyVars, challengeVars, handlerVars, historyVars>>
    BY <1>8 DEF SignChallenge
  <2>4. RowTypes' /\ OwnersStay
    BY <2>1, <2>2, <2>3 DEF Typed, RowTypes, OwnersStay
  <2> QED BY <1>0, <2>3, <2>4, WaitTyped DEF Typed
<1>9. ASSUME NEW c \in Tokens \X Purposes, ExpireChallenge(c) PROVE Typed'
  <2>1. RowTypes' /\ OwnersStay
    BY <1>9 DEF ExpireChallenge, Typed, RowTypes, OwnersStay
  <2> QED BY <1>0, <1>9, <2>1, WaitTyped DEF ExpireChallenge, Typed
<1>10. ASSUME ClearFactors PROVE Typed'
  <2>1. OwnersStay
    BY <1>10, FactorAssumption DEF ClearFactors, Typed, RowTypes, OwnersStay
  <2>2. RowTypes'
    BY <1>10, FactorAssumption DEF ClearFactors, Typed, RowTypes
  <2> QED BY <1>0, <1>10, <2>1, <2>2, WaitTyped DEF ClearFactors, Typed
<1>11. ASSUME ResetLatch PROVE Typed'
  <2>1. RowTypes' /\ OwnersStay
    BY <1>11 DEF ResetLatch, Typed, RowTypes, OwnersStay
  <2>2. mustProve' \in [Handlers -> BOOLEAN]
    BY <1>11 DEF ResetLatch
  <2> QED BY <1>11, <2>1, <2>2, WaitTyped DEF ResetLatch, Typed
<1> QED BY <1>1, <1>2, <1>3, <1>4, <1>5, <1>6, <1>7, <1>8, <1>9, <1>10, <1>11, NextCases DEF vars

LEMMA TypedInvariance == Spec => []Typed
BY TypedInit, TypedNext, KeyInvariance, PTL DEF Spec

\* The types of the keys, the rows and the requests, for any bounds.
THEOREM TypeCorrect == Spec => []TypeOK
<1>1. Typed /\ OneDataKey => TypeOK
  BY DEF Typed, RowTypes, HandlerTypes, OneDataKey, TypeOK
<1> QED BY <1>1, TypedInvariance, KeyInvariance, PTL

-------------------------------------------------------------------------------
(* Secrets                                                                 *)

\* Whatever is sealed is sealed under the data key of the row.
SealedUnderIt ==
    \A t \in Tokens : HasTotp(t) => wrapped # NoRow /\ sealed[t] = wrapped.key

LEMMA SealedNext == SealedUnderIt /\ Typed /\ OneDataKey /\ [Next]_vars => SealedUnderIt'
<1> SUFFICES ASSUME SealedUnderIt, Typed, OneDataKey, [Next]_vars PROVE SealedUnderIt'
  OBVIOUS
<1>1. KeyStays
  BY KeyNext DEF CustodyKept
<1>2. ASSUME \A t \in Tokens : sealed'[t] \in {sealed[t], NoKey} PROVE SealedUnderIt'
  BY <1>1, <1>2 DEF SealedUnderIt, HasTotp, KeyStays
<1>3. ASSUME NEW h \in Handlers, NEW t \in Tokens, MintToken(h, t) PROVE SealedUnderIt'
  <2>1. PICK p \in Serving : sealed' = [sealed EXCEPT ![t] = dek[p]]
    BY <1>3 DEF MintToken
  <2>2. wrapped # NoRow /\ dek[p] = wrapped.key
    BY DEF Serving, OneDataKey, HasKey
  <2>3. wrapped' = wrapped
    BY <1>3 DEF MintToken, custodyVars
  <2> QED BY <2>1, <2>2, <2>3 DEF Typed, RowTypes, SealedUnderIt, HasTotp
<1>4. ASSUME ClearFactors PROVE SealedUnderIt'
  BY <1>2, <1>4 DEF ClearFactors
<1>5. \/ sealed' = sealed
      \/ \E h \in Handlers, t \in Tokens : MintToken(h, t)
      \/ ClearFactors
  <2> USE DEF tokenVars
  <2>1. ASSUME NEW h \in Handlers, HandlerStep(h)
        PROVE  sealed' = sealed \/ \E t \in Tokens : MintToken(h, t)
    BY <2>1 DEF HandlerStep, BeginRequest, Refuse, CountTotp, CountPasskeys, ReadLatch,
                RequireExisting, VerifyTotp, ConsumeChallenge, WasteChallenge, LoadPasskeys,
                FlagClone, RecordUse, IssueRegistration, FinishRegistration, CreateCredential,
                OnlyHandler
  <2>2. ASSUME NEW p \in Procs, CountActiveTokens(p) \/ InsertBootstrap(p) PROVE sealed' = sealed
    BY <2>2 DEF CountActiveTokens, InsertBootstrap
  <2>3. ASSUME NEW t \in Tokens, AssertBegin(t) \/ RevokeToken(t) PROVE sealed' = sealed
    BY <2>3 DEF AssertBegin, RevokeToken
  <2>4. ASSUME NEW k \in Passkeys, RevokePasskey(k) \/ SignChallenge(k) PROVE sealed' = sealed
    BY <2>4 DEF RevokePasskey, SignChallenge
  <2>5. ASSUME NEW c \in Tokens \X Purposes, ExpireChallenge(c) PROVE sealed' = sealed
    BY <2>5 DEF ExpireChallenge
  <2>6. ResetLatch \/ UNCHANGED vars => sealed' = sealed
    BY DEF ResetLatch, vars
  <2> QED BY <2>1, <2>2, <2>3, <2>4, <2>5, <2>6, NextCases
<1> QED BY <1>2, <1>3, <1>4, <1>5

\* A secret, once sealed, opens wherever the program serves.
THEOREM SecretsOpen == Spec => []EnrolledSecretsOpen
<1>1. Init => SealedUnderIt
  BY DEF Init, SealedUnderIt, HasTotp
<1>2. SealedUnderIt /\ OneDataKey => EnrolledSecretsOpen
  BY DEF SealedUnderIt, OneDataKey, EnrolledSecretsOpen
<1> QED BY <1>1, <1>2, SealedNext, TypedInvariance, KeyInvariance, PTL DEF Spec

-------------------------------------------------------------------------------
(* The gate on new tokens                                                  *)

\* From the first enrolment to the reset the latch is set, so that no request that
\* came in between reaches "admitted" but by a factor.
GateHolds ==
    /\ enrolled => latch
    /\ \A h \in Handlers : mustProve[h] => enrolled
    /\ MintsAreProved

\* What a step does to the gate, seen from one request.
GateMoves ==
    /\ enrolled' => latch'
    /\ \A h \in Handlers :
          \/ mustProve'[h] = FALSE
          \/ mustProve'[h] = enrolled /\ enrolled' = enrolled /\ pc'[h] = "begun"
          \/ /\ mustProve'[h] = mustProve[h] /\ (enrolled => enrolled')
             /\ \/ pc'[h] # "admitted"
                \/ act'[h] = "register"
                \/ proved'[h]
                \/ ~latch
                \/ pc'[h] = pc[h] /\ act'[h] = act[h] /\ proved'[h] = proved[h]

LEMMA GateMovesHandler ==
  ASSUME GateHolds, Typed, NEW h \in Handlers, HandlerStep(h)
  PROVE  GateMoves
<1> USE DEF Typed, RowTypes, HandlerTypes, GateHolds, Step, OnlyHandler, tokenVars, historyVars
<1>1. ASSUME End(h), enrolled' = enrolled, latch' = latch PROVE GateMoves
  BY <1>1 DEF End, GateMoves
<1>2. ASSUME End(h), enrolled' = TRUE, latch' = TRUE PROVE GateMoves
  BY <1>2 DEF End, GateMoves
<1>3. ASSUME NEW t \in Tokens, NEW a \in {"mint", "register", "finish"}, BeginRequest(h, t, a)
      PROVE  GateMoves
  BY <1>3 DEF BeginRequest, GateMoves
<1>4. CASE CountTotp(h) \/ CountPasskeys(h) \/ RequireExisting(h) \/ LoadPasskeys(h)
  BY <1>4 DEF CountTotp, CountPasskeys, RequireExisting, LoadPasskeys, GateMoves
<1>5. CASE ReadLatch(h)
  <2>1. pc'[h] = "admitted" => ~latch
    BY <1>5 DEF ReadLatch
  <2> QED BY <1>5, <2>1 DEF ReadLatch, GateMoves
<1>6. CASE VerifyTotp(h)
  BY <1>6 DEF VerifyTotp, GateMoves
<1>7. ASSUME NEW a \in signed, ConsumeChallenge(h, a) PROVE GateMoves
  BY <1>7 DEF ConsumeChallenge, GateMoves
<1>8. CASE RecordUse(h)
  BY <1>8 DEF RecordUse, GateMoves
<1>9. CASE FinishRegistration(h)
  BY <1>9 DEF FinishRegistration, GateMoves
<1>10. CASE Refuse(h) \/ WasteChallenge(h) \/ FlagClone(h) \/ IssueRegistration(h)
  BY <1>1, <1>10 DEF Refuse, WasteChallenge, FlagClone, IssueRegistration
<1>11. ASSUME NEW t \in Tokens, MintToken(h, t) PROVE GateMoves
  BY <1>2, <1>11 DEF MintToken, SetLatch
<1>12. ASSUME NEW k \in Passkeys, CreateCredential(h, k) PROVE GateMoves
  BY <1>2, <1>12 DEF CreateCredential
<1> QED BY <1>3, <1>4, <1>5, <1>6, <1>7, <1>8, <1>9, <1>10, <1>11, <1>12 DEF HandlerStep

LEMMA GateNext == GateHolds /\ Typed /\ [Next]_vars => GateHolds'
<1> SUFFICES ASSUME GateHolds, Typed, [Next]_vars PROVE GateHolds'
  OBVIOUS
<1>1. GateMoves
  <2> USE DEF tokenVars, handlerVars, historyVars
  <2>1. ASSUME UNCHANGED <<latch, pc, act, historyVars>> PROVE GateMoves
    BY <2>1 DEF GateMoves, GateHolds
  <2>2. ASSUME NEW p \in Procs, CountActiveTokens(p) \/ InsertBootstrap(p) PROVE GateMoves
    BY <2>1, <2>2 DEF CountActiveTokens, InsertBootstrap
  <2>3. ASSUME NEW t \in Tokens, AssertBegin(t) \/ RevokeToken(t) PROVE GateMoves
    BY <2>1, <2>3 DEF AssertBegin, RevokeToken
  <2>4. ASSUME NEW k \in Passkeys, RevokePasskey(k) \/ SignChallenge(k) PROVE GateMoves
    BY <2>1, <2>4 DEF RevokePasskey, SignChallenge
  <2>5. ASSUME NEW c \in Tokens \X Purposes, ExpireChallenge(c) PROVE GateMoves
    BY <2>1, <2>5 DEF ExpireChallenge
  <2>6. CASE ClearFactors
    BY <2>1, <2>6 DEF ClearFactors
  <2>7. CASE ResetLatch
    BY <2>7 DEF ResetLatch, GateMoves
  <2> QED BY <2>1, <2>2, <2>3, <2>4, <2>5, <2>6, <2>7, GateMovesHandler, NextCases DEF vars
<1>2. enrolled' => latch'
  BY <1>1 DEF GateMoves
<1>3. ASSUME NEW h \in Handlers
      PROVE  /\ mustProve'[h] => enrolled'
             /\ pc'[h] = "admitted" /\ act'[h] = "mint" /\ mustProve'[h] => proved'[h]
  BY <1>1 DEF GateMoves, GateHolds, MintsAreProved
<1> QED BY <1>2, <1>3 DEF GateHolds, MintsAreProved

\* From the first enrolment on, new tokens are minted with a factor proved.
THEOREM MintsArePaidFor == Spec => []MintsAreProved
<1>1. Init => GateHolds
  BY DEF Init, GateHolds, MintsAreProved
<1>2. GateHolds => MintsAreProved
  BY DEF GateHolds
<1> QED BY <1>1, <1>2, GateNext, TypedInvariance, PTL DEF Spec

-------------------------------------------------------------------------------
(* The bootstrap token                                                     *)

\* Nobody gets further with it than a factor it does not have.
BootstrapGoesNowhere ==
    /\ BootstrapStaysFactorless
    /\ pending[<<Bootstrap, "registration">>] = 0
    /\ \A h \in Handlers :
          /\ pc[h] \in {"totpCounted", "counted"} => act[h] = "mint"
          /\ who[h] = Bootstrap /\ act[h] = "register" => pc[h] = "begun"
          /\ who[h] = Bootstrap => pc[h] # "registering"

\* What a step does to it.
BootstrapMoves ==
    /\ sealed'[Bootstrap] \in {sealed[Bootstrap], NoKey}
    /\ OwnedBy(Bootstrap)' \subseteq OwnedBy(Bootstrap)
    /\ pending'[<<Bootstrap, "registration">>] \in {0, pending[<<Bootstrap, "registration">>]}
    /\ \A h \in Handlers :
          \/ pc'[h] = pc[h] /\ who'[h] = who[h] /\ act'[h] = act[h]
          \/ pc'[h] = "idle" /\ who'[h] = NoToken
          \/ pc'[h] = "begun"
          \/ pc'[h] = "totpCounted" /\ act'[h] = "mint"
          \/ /\ who'[h] = who[h] /\ act'[h] = act[h]
             /\ pc'[h] = "counted" /\ pc[h] = "totpCounted"
          \/ /\ who'[h] = who[h] /\ act'[h] = act[h] /\ pc[h] # "begun"
             /\ pc'[h] \in {"proving", "admitted", "validating", "recording"}
          \/ /\ who'[h] = who[h] /\ who[h] # Bootstrap
             /\ pc'[h] \in {"proving", "registering"}

LEMMA BootstrapMovesHandler ==
  ASSUME BootstrapGoesNowhere, Typed, NEW h \in Handlers, HandlerStep(h)
  PROVE  BootstrapMoves
<1> USE FactorAssumption
    DEF Typed, RowTypes, HandlerTypes, Step, OnlyHandler, tokenVars, passkeyVars, challengeVars,
        historyVars
<1>1. ASSUME End(h), sealed' = sealed, owner' = owner, pending' = pending PROVE BootstrapMoves
  BY <1>1 DEF End, OwnedBy, BootstrapMoves
<1>2. ASSUME UNCHANGED <<tokenVars, passkeyVars, challengeVars>>,
             \/ \E t \in Tokens, a \in {"mint", "register", "finish"} : BeginRequest(h, t, a)
             \/ CountTotp(h) \/ CountPasskeys(h)
      PROVE  BootstrapMoves
  BY <1>2 DEF BeginRequest, CountTotp, CountPasskeys, OwnedBy, BootstrapMoves
<1>3. CASE ReadLatch(h) \/ VerifyTotp(h) \/ LoadPasskeys(h)
  BY <1>3 DEF ReadLatch, VerifyTotp, LoadPasskeys, OwnedBy, BootstrapMoves
<1>4. CASE RequireExisting(h)
  <2>1. who[h] # Bootstrap
    BY <1>4 DEF RequireExisting, HasPasskey, BootstrapGoesNowhere, BootstrapStaysFactorless
  <2> QED BY <1>4, <2>1 DEF RequireExisting, OwnedBy, BootstrapMoves
<1>5. ASSUME NEW a \in signed, ConsumeChallenge(h, a) PROVE BootstrapMoves
  <2>1. pending'[<<Bootstrap, "registration">>] = pending[<<Bootstrap, "registration">>]
    BY <1>5 DEF ConsumeChallenge, Consume, Purposes
  <2>2. pc[h] = "proving" /\ pc' = [pc EXCEPT ![h] = "validating"]
        /\ UNCHANGED <<who, act, sealed, owner>>
    BY <1>5 DEF ConsumeChallenge
  <2> QED BY <2>1, <2>2 DEF OwnedBy, BootstrapMoves
<1>6. CASE RecordUse(h)
  BY <1>6 DEF RecordUse, OwnedBy, BootstrapMoves
<1>7. CASE FinishRegistration(h)
  <2>1. who[h] # Bootstrap
    BY <1>7 DEF FinishRegistration, BootstrapGoesNowhere
  <2>2. pending'[<<Bootstrap, "registration">>] = pending[<<Bootstrap, "registration">>]
    BY <1>7, <2>1 DEF FinishRegistration, Purposes
  <2> QED BY <1>7, <2>1, <2>2 DEF FinishRegistration, OwnedBy, BootstrapMoves
<1>8. CASE Refuse(h) \/ FlagClone(h)
  BY <1>1, <1>8 DEF Refuse, FlagClone
<1>9. CASE WasteChallenge(h)
  <2>1. pending'[<<Bootstrap, "registration">>] = pending[<<Bootstrap, "registration">>]
    BY <1>9 DEF WasteChallenge, Purposes
  <2> QED BY <1>9, <2>1 DEF WasteChallenge, End, OwnedBy, BootstrapMoves
<1>10. CASE IssueRegistration(h)
  <2>1. who[h] # Bootstrap
    BY <1>10 DEF IssueRegistration, BootstrapGoesNowhere
  <2>2. pending'[<<Bootstrap, "registration">>] = pending[<<Bootstrap, "registration">>]
    BY <1>10, <2>1 DEF IssueRegistration, PutChallenge, Purposes
  <2> QED BY <1>10, <2>2 DEF IssueRegistration, End, OwnedBy, BootstrapMoves
<1>11. ASSUME NEW t \in Tokens, MintToken(h, t) PROVE BootstrapMoves
  <2>1. sealed'[Bootstrap] = sealed[Bootstrap]
    BY <1>11 DEF MintToken
  <2> QED BY <1>11, <2>1 DEF MintToken, End, OwnedBy, BootstrapMoves
<1>12. ASSUME NEW k \in Passkeys, CreateCredential(h, k) PROVE BootstrapMoves
  <2>1. who[h] # Bootstrap
    BY <1>12 DEF CreateCredential, BootstrapGoesNowhere
  <2>2. OwnedBy(Bootstrap)' \subseteq OwnedBy(Bootstrap)
    BY <1>12, <2>1 DEF CreateCredential, OwnedBy
  <2> QED BY <1>12, <2>2 DEF CreateCredential, End, BootstrapMoves
<1>13. (\E t \in Tokens, a \in {"mint", "register", "finish"} : BeginRequest(h, t, a))
       \/ CountTotp(h) \/ CountPasskeys(h)
       => UNCHANGED <<tokenVars, passkeyVars, challengeVars>>
  BY DEF BeginRequest, CountTotp, CountPasskeys
<1> QED BY <1>2, <1>3, <1>4, <1>5, <1>6, <1>7, <1>8, <1>9, <1>10, <1>11, <1>12, <1>13
        DEF HandlerStep

LEMMA BootstrapNext == BootstrapGoesNowhere /\ Typed /\ [Next]_vars => BootstrapGoesNowhere'
<1> SUFFICES ASSUME BootstrapGoesNowhere, Typed, [Next]_vars PROVE BootstrapGoesNowhere'
  OBVIOUS
<1>1. BootstrapMoves
  <2> USE DEF tokenVars, passkeyVars, challengeVars, handlerVars, Typed, RowTypes
  <2>1. ASSUME UNCHANGED <<sealed, owner, pending, pc, who, act>> PROVE BootstrapMoves
    BY <2>1 DEF OwnedBy, BootstrapMoves
  <2>2. ASSUME NEW p \in Procs, CountActiveTokens(p) \/ InsertBootstrap(p) PROVE BootstrapMoves
    BY <2>1, <2>2 DEF CountActiveTokens, InsertBootstrap
  <2>3. ASSUME NEW t \in Tokens, AssertBegin(t) PROVE BootstrapMoves
    <3>1. pending'[<<Bootstrap, "registration">>] = pending[<<Bootstrap, "registration">>]
      BY <2>3, FactorAssumption DEF AssertBegin, PutChallenge, Purposes
    <3> QED BY <2>3, <3>1 DEF AssertBegin, OwnedBy, BootstrapMoves
  <2>4. ASSUME NEW t \in Tokens, RevokeToken(t) PROVE BootstrapMoves
    BY <2>1, <2>4 DEF RevokeToken
  <2>5. ASSUME NEW k \in Passkeys, RevokePasskey(k) \/ SignChallenge(k) PROVE BootstrapMoves
    BY <2>1, <2>5 DEF RevokePasskey, SignChallenge
  <2>6. ASSUME NEW c \in Tokens \X Purposes, ExpireChallenge(c) PROVE BootstrapMoves
    <3>1. pending'[<<Bootstrap, "registration">>] \in {0, pending[<<Bootstrap, "registration">>]}
      BY <2>6, FactorAssumption DEF ExpireChallenge, Purposes
    <3> QED BY <2>6, <3>1 DEF ExpireChallenge, OwnedBy, BootstrapMoves
  <2>7. CASE ClearFactors
    <3>1. OwnedBy(Bootstrap)' \subseteq OwnedBy(Bootstrap)
      BY <2>7, FactorAssumption DEF ClearFactors, OwnedBy
    <3>2. pending'[<<Bootstrap, "registration">>] = 0
      BY <2>7, FactorAssumption DEF ClearFactors, Purposes
    <3> QED BY <2>7, <3>1, <3>2, FactorAssumption DEF ClearFactors, BootstrapMoves
  <2>8. CASE ResetLatch
    BY <2>1, <2>8 DEF ResetLatch
  <2> QED BY <2>1, <2>2, <2>3, <2>4, <2>5, <2>6, <2>7, <2>8, BootstrapMovesHandler, NextCases
          DEF vars, CustodyNext
<1>2. BootstrapStaysFactorless' /\ pending'[<<Bootstrap, "registration">>] = 0
  BY <1>1 DEF BootstrapMoves, BootstrapGoesNowhere, BootstrapStaysFactorless, HasTotp
<1>3. ASSUME NEW h \in Handlers
      PROVE  /\ pc'[h] \in {"totpCounted", "counted"} => act'[h] = "mint"
             /\ who'[h] = Bootstrap /\ act'[h] = "register" => pc'[h] = "begun"
             /\ who'[h] = Bootstrap => pc'[h] # "registering"
  BY <1>1, FactorAssumption DEF BootstrapMoves, BootstrapGoesNowhere
<1> QED BY <1>2, <1>3 DEF BootstrapGoesNowhere

\* The bootstrap token never gets a factor.
THEOREM BootstrapHasNoFactor == Spec => []BootstrapStaysFactorless
<1>1. Init => BootstrapGoesNowhere
  BY FactorAssumption
     DEF Init, BootstrapGoesNowhere, BootstrapStaysFactorless, HasTotp, OwnedBy, Purposes
<1>2. BootstrapGoesNowhere => BootstrapStaysFactorless
  BY DEF BootstrapGoesNowhere
<1> QED BY <1>1, <1>2, BootstrapNext, TypedInvariance, PTL DEF Spec

-------------------------------------------------------------------------------
(* The order of a passkey's uses                                           *)

\* Counts and challenges are the authenticator's and the database's so far, each
\* challenge is for one token and one purpose, and signed once.
Counted ==
    /\ \A a \in signed : 0 < a.nonce /\ a.nonce <= nonce /\ a.count <= device[a.key]
    /\ \A k \in Passkeys : stored[k] <= device[k]
    /\ \A c \in Tokens \X Purposes : pending[c] <= nonce
    /\ \A c, d \in Tokens \X Purposes : pending[c] = pending[d] /\ pending[c] # 0 => c = d
    /\ \A a, b \in signed : a.nonce = b.nonce => a = b

Presented(h) == pc[h] \in {"validating", "recording"}

\* An assertion whose challenge is still there is above every count before it.
AwaitedIsNewest ==
    \A a \in signed : \A t \in Tokens :
        pending[<<t, "assertion">>] = a.nonce =>
            /\ owner[a.key] = t
            /\ stored[a.key] < a.count
            /\ \A g \in Handlers :
                  Presented(g) /\ proof[g].key = a.key => proof[g].count < a.count

\* A request nobody has overtaken has a count above the one in the row, and above
\* the one it loaded.
InOrder ==
    \A h \in Handlers : Presented(h) =>
        LET k == proof[h].key
        IN  /\ owner[k] \in {who[h], Gone}
            /\ owner[k] # Gone /\ ~overtaken[h] =>
                  /\ stored[k] < proof[h].count
                  /\ pc[h] = "recording" => seen[h] < proof[h].count

OrderInv == Counted /\ AwaitedIsNewest /\ InOrder

\* A step that signs, counts and challenges nothing.
Quiet ==
    /\ UNCHANGED <<signed, device, nonce, stored>>
    /\ \A c \in Tokens \X Purposes : pending'[c] \in {0, pending[c]}
    /\ \/ owner' = owner
       \/ /\ \A k \in Passkeys : owner'[k] \in {owner[k], Gone}
          /\ \A c \in Tokens \X Purposes : pending'[c] = 0
    /\ \A h \in Handlers :
          \/ pc'[h] \notin {"validating", "recording"}
          \/ /\ pc'[h] = pc[h] /\ who'[h] = who[h] /\ proof'[h] = proof[h]
             /\ seen'[h] = seen[h] /\ overtaken'[h] = overtaken[h]

LEMMA QuietKeepsOrder ==
  ASSUME OrderInv, Typed, Quiet
  PROVE  OrderInv'
<1> USE DEF Typed, RowTypes
<1>1. \A a \in signed : a.key \in Passkeys
  OBVIOUS
<1>2. \A h \in Handlers : Presented(h) => proof[h] \in signed /\ proof[h].key \in Passkeys
  BY DEF InTheMiddle, Presented
<1>3. Counted'
  BY DEF OrderInv, Counted, Quiet
<1>4. AwaitedIsNewest'
  <2> SUFFICES ASSUME NEW a \in signed, NEW t \in Tokens, pending'[<<t, "assertion">>] = a.nonce
               PROVE  /\ owner'[a.key] = t
                      /\ stored[a.key] < a.count
                      /\ \A g \in Handlers :
                            Presented(g)' /\ proof'[g].key = a.key => proof'[g].count < a.count
    BY DEF AwaitedIsNewest, Quiet
  <2>1. pending[<<t, "assertion">>] = a.nonce /\ pending'[<<t, "assertion">>] # 0
    BY DEF OrderInv, Counted, Quiet, Purposes
  <2>2. owner' = owner
    BY <2>1 DEF Quiet, Purposes
  <2> QED BY <2>1, <2>2 DEF OrderInv, AwaitedIsNewest, Quiet, Presented
<1>5. InOrder'
  <2> SUFFICES ASSUME NEW h \in Handlers, Presented(h)'
               PROVE  LET k == proof'[h].key
                      IN  /\ owner'[k] \in {who'[h], Gone}
                          /\ owner'[k] # Gone /\ ~overtaken'[h] =>
                                /\ stored'[k] < proof'[h].count
                                /\ pc'[h] = "recording" => seen'[h] < proof'[h].count
    BY DEF InOrder
  <2>1. /\ pc'[h] = pc[h] /\ who'[h] = who[h] /\ proof'[h] = proof[h]
        /\ seen'[h] = seen[h] /\ overtaken'[h] = overtaken[h] /\ stored' = stored
    BY DEF Quiet, Presented
  <2>2. Presented(h)
    BY <2>1 DEF Presented
  <2>3. owner'[proof[h].key] \in {owner[proof[h].key], Gone}
    BY <1>2, <2>2 DEF Quiet
  <2> QED BY <2>1, <2>2, <2>3 DEF OrderInv, InOrder
<1> QED BY <1>3, <1>4, <1>5 DEF OrderInv

\* A new challenge is nobody's yet.
LEMMA ChallengeKeepsOrder ==
  ASSUME OrderInv, Typed, NEW t \in Tokens, NEW purpose \in Purposes, PutChallenge(t, purpose),
         UNCHANGED <<signed, device, stored, owner>>,
         \A h \in Handlers :
            \/ pc'[h] \notin {"validating", "recording"}
            \/ /\ pc'[h] = pc[h] /\ who'[h] = who[h] /\ proof'[h] = proof[h]
               /\ seen'[h] = seen[h] /\ overtaken'[h] = overtaken[h]
  PROVE  OrderInv'
<1> USE DEF Typed, RowTypes
<1>1. /\ nonce' = nonce + 1 /\ nonce \in Nat
      /\ pending' = [pending EXCEPT ![<<t, purpose>>] = nonce + 1]
  BY DEF PutChallenge
<1>2. Counted'
  <2>1. \A c \in Tokens \X Purposes :
           pending'[c] = IF c = <<t, purpose>> THEN nonce + 1 ELSE pending[c]
    BY <1>1
  <2>2. \A c \in Tokens \X Purposes : pending[c] <= nonce /\ pending[c] \in Nat
    BY DEF OrderInv, Counted
  <2>3. \A c \in Tokens \X Purposes : pending'[c] <= nonce'
    BY <1>1, <2>1, <2>2
  <2>4. \A c, d \in Tokens \X Purposes : pending'[c] = pending'[d] /\ pending'[c] # 0 => c = d
    BY <1>1, <2>1, <2>2 DEF OrderInv, Counted
  <2>5. \A a \in signed : 0 < a.nonce /\ a.nonce <= nonce' /\ a.count <= device[a.key]
    BY <1>1 DEF OrderInv, Counted
  <2> QED BY <2>3, <2>4, <2>5 DEF OrderInv, Counted
<1>3. AwaitedIsNewest'
  <2> SUFFICES ASSUME NEW a \in signed, NEW u \in Tokens, pending'[<<u, "assertion">>] = a.nonce
               PROVE  /\ owner[a.key] = u
                      /\ stored[a.key] < a.count
                      /\ \A g \in Handlers :
                            Presented(g)' /\ proof'[g].key = a.key => proof'[g].count < a.count
    BY DEF AwaitedIsNewest
  <2>1. a.nonce # nonce + 1
    BY <1>1 DEF OrderInv, Counted
  <2>2. pending[<<u, "assertion">>] = a.nonce
    BY <1>1, <2>1 DEF Purposes
  <2> QED BY <2>2 DEF OrderInv, AwaitedIsNewest, Presented
<1>4. InOrder'
  BY DEF OrderInv, InOrder, Presented
<1> QED BY <1>2, <1>3, <1>4 DEF OrderInv

\* Whoever consumes the challenge has the newest assertion of its passkey.
LEMMA ConsumeKeepsOrder ==
  ASSUME OrderInv, Typed, NEW h \in Handlers, NEW a \in signed, ConsumeChallenge(h, a)
  PROVE  OrderInv'
<1> USE DEF Typed, RowTypes
<1>1. /\ pending' = [pending EXCEPT ![<<who[h], "assertion">>] = 0]
      /\ pc[h] = "proving" /\ pc' = [pc EXCEPT ![h] = "validating"]
      /\ proof' = [proof EXCEPT ![h] = a]
      /\ pending[<<who[h], "assertion">>] = a.nonce
      /\ UNCHANGED <<signed, device, nonce, stored, owner, who, seen, overtaken>>
  BY DEF ConsumeChallenge, Consume, Step, passkeyVars, deviceVars, historyVars
<1>2. who[h] \in Tokens /\ a.key \in Passkeys
  BY <1>1 DEF InTheMiddle
<1>3. /\ owner[a.key] = who[h] /\ stored[a.key] < a.count
      /\ 0 < a.nonce
  BY <1>1, <1>2 DEF OrderInv, AwaitedIsNewest, Counted
<1>4. \A c \in Tokens \X Purposes :
         pending'[c] = IF c = <<who[h], "assertion">> THEN 0 ELSE pending[c]
  BY <1>1
<1>5. Counted'
  BY <1>1, <1>4 DEF OrderInv, Counted
<1>6. \A g \in Handlers \ {h} : pc'[g] = pc[g] /\ proof'[g] = proof[g]
  BY <1>1 DEF HandlerTypes
<1>7. pc'[h] = "validating" /\ proof'[h] = a
  BY <1>1 DEF HandlerTypes
<1>8. AwaitedIsNewest'
  <2> SUFFICES ASSUME NEW b \in signed, NEW u \in Tokens, pending'[<<u, "assertion">>] = b.nonce
               PROVE  /\ owner[b.key] = u
                      /\ stored[b.key] < b.count
                      /\ \A g \in Handlers :
                            Presented(g)' /\ proof'[g].key = b.key => proof'[g].count < b.count
    BY <1>1 DEF AwaitedIsNewest
  <2>1. 0 < b.nonce
    BY DEF OrderInv, Counted
  <2>2. u # who[h] /\ pending[<<u, "assertion">>] = b.nonce
    BY <1>4, <2>1 DEF Purposes
  <2>3. /\ owner[b.key] = u /\ stored[b.key] < b.count
        /\ \A g \in Handlers : Presented(g) /\ proof[g].key = b.key => proof[g].count < b.count
    BY <2>2 DEF OrderInv, AwaitedIsNewest
  <2>4. b.key # a.key
    BY <1>3, <2>2, <2>3
  <2> QED BY <1>6, <1>7, <2>3, <2>4 DEF Presented
<1>9. InOrder'
  <2> SUFFICES ASSUME NEW g \in Handlers, Presented(g)'
               PROVE  LET k == proof'[g].key
                      IN  /\ owner[k] \in {who[g], Gone}
                          /\ owner[k] # Gone /\ ~overtaken[g] =>
                                /\ stored[k] < proof'[g].count
                                /\ pc'[g] = "recording" => seen[g] < proof'[g].count
    BY <1>1 DEF InOrder
  <2>1. CASE g = h
    BY <1>3, <1>7, <2>1
  <2>2. CASE g # h
    BY <1>6, <2>2 DEF OrderInv, InOrder, Presented
  <2> QED BY <2>1, <2>2
<1> QED BY <1>1, <1>5, <1>8, <1>9 DEF OrderInv

\* Nothing is lost between a request's loading and its recording but by others'
\* recordings.
LEMMA LoadKeepsOrder ==
  ASSUME OrderInv, Typed, NEW h \in Handlers, LoadPasskeys(h)
  PROVE  OrderInv'
<1> USE DEF Typed, RowTypes
<1>1. /\ pc[h] = "validating" /\ pc' = [pc EXCEPT ![h] = "recording"]
      /\ seen' = [seen EXCEPT ![h] = stored[proof[h].key]]
      /\ UNCHANGED <<pending, nonce, signed, device, stored, owner, who, proof, overtaken>>
  BY DEF LoadPasskeys, Step, OnlyHandler, passkeyVars, challengeVars, deviceVars, historyVars
<1>2. Counted'
  BY <1>1 DEF OrderInv, Counted
<1>3. \A g \in Handlers : Presented(g)' => Presented(g)
  BY <1>1 DEF HandlerTypes, Presented
<1>4. AwaitedIsNewest'
  BY <1>1, <1>3 DEF OrderInv, AwaitedIsNewest
<1>5. InOrder'
  BY <1>1, <1>3 DEF HandlerTypes, OrderInv, InOrder
<1> QED BY <1>2, <1>4, <1>5 DEF OrderInv

\* A recorded count overtakes every other request with the passkey.
LEMMA RecordKeepsOrder ==
  ASSUME OrderInv, Typed, NEW h \in Handlers, RecordUse(h)
  PROVE  OrderInv'
<1> USE DEF Typed, RowTypes
<1> DEFINE k == proof[h].key
<1>1. /\ pc[h] = "recording" /\ pc' = [pc EXCEPT ![h] = "admitted"]
      /\ stored' = [stored EXCEPT ![k] = IF owner[k] = Gone THEN stored[k] ELSE proof[h].count]
      /\ overtaken' = [g \in Handlers |-> overtaken[g] \/ (g # h /\ proof[g].key = k)]
      /\ UNCHANGED <<pending, nonce, signed, device, owner, who, proof, seen>>
  BY DEF RecordUse, Step, passkeyVars, challengeVars, deviceVars
<1>2. Presented(h) /\ proof[h] \in signed /\ k \in Passkeys
  BY <1>1 DEF InTheMiddle, Presented
<1>3. stored'[k] = (IF owner[k] = Gone THEN stored[k] ELSE proof[h].count)
      /\ \A j \in Passkeys \ {k} : stored'[j] = stored[j]
  BY <1>1, <1>2
<1>4. Counted'
  <2>1. \A j \in Passkeys : stored'[j] <= device[j]
    BY <1>2, <1>3 DEF OrderInv, Counted
  <2> QED BY <1>1, <2>1 DEF OrderInv, Counted
<1>5. \A g \in Handlers : Presented(g)' => g # h /\ Presented(g) /\ pc'[g] = pc[g]
  BY <1>1 DEF HandlerTypes, Presented
<1>6. AwaitedIsNewest'
  <2> SUFFICES ASSUME NEW a \in signed, NEW t \in Tokens, pending[<<t, "assertion">>] = a.nonce
               PROVE  /\ owner[a.key] = t
                      /\ stored'[a.key] < a.count
                      /\ \A g \in Handlers :
                            Presented(g)' /\ proof[g].key = a.key => proof[g].count < a.count
    BY <1>1 DEF AwaitedIsNewest
  <2>1. /\ owner[a.key] = t /\ stored[a.key] < a.count
        /\ \A g \in Handlers : Presented(g) /\ proof[g].key = a.key => proof[g].count < a.count
    BY DEF OrderInv, AwaitedIsNewest
  <2>2. stored'[a.key] < a.count
    BY <1>2, <1>3, <2>1
  <2> QED BY <1>5, <2>1, <2>2
<1>7. InOrder'
  <2> SUFFICES ASSUME NEW g \in Handlers, Presented(g)'
               PROVE  /\ owner[proof[g].key] \in {who[g], Gone}
                      /\ owner[proof[g].key] # Gone /\ ~overtaken'[g] =>
                            /\ stored'[proof[g].key] < proof[g].count
                            /\ pc'[g] = "recording" => seen[g] < proof[g].count
    BY <1>1 DEF InOrder
  <2>1. g # h /\ Presented(g) /\ pc'[g] = pc[g] /\ proof[g].key \in Passkeys
    BY <1>5 DEF InTheMiddle, Presented
  <2>2. ~overtaken'[g] => ~overtaken[g] /\ proof[g].key # k
    BY <1>1, <2>1
  <2>3. ~overtaken'[g] => stored'[proof[g].key] = stored[proof[g].key]
    BY <1>3, <2>1, <2>2
  <2> QED BY <2>1, <2>2, <2>3 DEF OrderInv, InOrder
<1> QED BY <1>4, <1>6, <1>7 DEF OrderInv

\* A credential that is new has no assertion that counts.
LEMMA CreateKeepsOrder ==
  ASSUME OrderInv, Typed, NEW h \in Handlers, NEW k \in Passkeys, CreateCredential(h, k)
  PROVE  OrderInv'
<1> USE FactorAssumption DEF Typed, RowTypes
<1>1. /\ owner[k] = NoToken /\ owner' = [owner EXCEPT ![k] = who[h]]
      /\ stored' = [stored EXCEPT ![k] = device[k]]
      /\ UNCHANGED <<pending, nonce, signed, device>>
      /\ End(h)
  BY DEF CreateCredential, challengeVars, deviceVars
<1>2. /\ pc'[h] = "idle"
      /\ \A g \in Handlers \ {h} :
            /\ pc'[g] = pc[g] /\ who'[g] = who[g] /\ proof'[g] = proof[g] /\ seen'[g] = seen[g]
            /\ overtaken'[g] = overtaken[g]
  BY <1>1 DEF End, HandlerTypes
<1>3. Counted'
  BY <1>1 DEF OrderInv, Counted
<1>4. \A g \in Handlers : Presented(g)' => g # h /\ Presented(g)
  BY <1>2 DEF Presented
<1>5. \A g \in Handlers : Presented(g) => proof[g].key \in Passkeys \ {k}
  <2>1. \A g \in Handlers : Presented(g) => proof[g] \in signed /\ who[g] \in Tokens
    BY DEF InTheMiddle, Presented
  <2> QED BY <1>1, <2>1 DEF OrderInv, InOrder
<1>6. AwaitedIsNewest'
  <2> SUFFICES ASSUME NEW a \in signed, NEW t \in Tokens, pending[<<t, "assertion">>] = a.nonce
               PROVE  /\ owner'[a.key] = t
                      /\ stored'[a.key] < a.count
                      /\ \A g \in Handlers :
                            Presented(g)' /\ proof'[g].key = a.key => proof'[g].count < a.count
    BY <1>1 DEF AwaitedIsNewest
  <2>1. /\ owner[a.key] = t /\ stored[a.key] < a.count
        /\ \A g \in Handlers : Presented(g) /\ proof[g].key = a.key => proof[g].count < a.count
    BY DEF OrderInv, AwaitedIsNewest
  <2>2. a.key # k
    BY <1>1, <2>1
  <2> QED BY <1>1, <1>2, <1>4, <2>1, <2>2
<1>7. InOrder'
  <2> SUFFICES ASSUME NEW g \in Handlers, Presented(g)'
               PROVE  LET j == proof'[g].key
                      IN  /\ owner'[j] \in {who'[g], Gone}
                          /\ owner'[j] # Gone /\ ~overtaken'[g] =>
                                /\ stored'[j] < proof'[g].count
                                /\ pc'[g] = "recording" => seen'[g] < proof'[g].count
    BY DEF InOrder
  <2>1. g # h /\ Presented(g) /\ proof[g].key \in Passkeys \ {k}
    BY <1>4, <1>5
  <2>2. owner'[proof[g].key] = owner[proof[g].key] /\ stored'[proof[g].key] = stored[proof[g].key]
    BY <1>1, <2>1
  <2> QED BY <1>2, <2>1, <2>2 DEF OrderInv, InOrder
<1> QED BY <1>3, <1>6, <1>7 DEF OrderInv

\* The authenticator counts on.
LEMMA SignKeepsOrder ==
  ASSUME OrderInv, Typed, NEW k \in Passkeys, SignChallenge(k)
  PROVE  OrderInv'
<1> USE DEF Typed, RowTypes
<1>1. PICK t \in Tokens :
         /\ owner[k] = t /\ pending[<<t, "assertion">>] # 0
         /\ \A a \in signed : a.nonce # pending[<<t, "assertion">>]
         /\ device' = [device EXCEPT ![k] = device[k] + 1]
         /\ signed' = signed \cup {[key |-> k, nonce |-> pending[<<t, "assertion">>],
                                    count |-> device[k] + 1]}
  BY DEF SignChallenge
<1> DEFINE new == [key |-> k, nonce |-> pending[<<t, "assertion">>], count |-> device[k] + 1]
<1>2. UNCHANGED <<pending, nonce, stored, owner, pc, who, proof, seen, overtaken>>
  BY DEF SignChallenge, passkeyVars, challengeVars, handlerVars, historyVars
<1>3. /\ pending[<<t, "assertion">>] \in Nat /\ pending[<<t, "assertion">>] <= nonce
      /\ nonce \in Nat /\ device[k] \in Nat
  BY DEF OrderInv, Counted, Purposes
<1>4. \A j \in Passkeys : device[j] <= device'[j] /\ device'[j] \in Nat
  BY <1>1
<1>5. device'[k] = device[k] + 1
  BY <1>1
<1>6. Counted'
  <2>1. ASSUME NEW a \in signed'
        PROVE  0 < a.nonce /\ a.nonce <= nonce /\ a.count <= device'[a.key]
    <3>1. CASE a \in signed
      BY <1>3, <1>4, <3>1 DEF OrderInv, Counted
    <3>2. CASE a = new
      BY <1>1, <1>3, <1>5, <3>2
    <3> QED BY <1>1, <3>1, <3>2
  <2>2. \A j \in Passkeys : stored[j] <= device'[j]
    BY <1>4 DEF OrderInv, Counted
  <2>3. \A a, b \in signed' : a.nonce = b.nonce => a = b
    BY <1>1 DEF OrderInv, Counted
  <2> QED BY <1>2, <2>1, <2>2, <2>3 DEF OrderInv, Counted
<1>7. \A g \in Handlers : Presented(g) => proof[g] \in signed
  BY DEF InTheMiddle, Presented
<1>8. AwaitedIsNewest'
  <2> SUFFICES ASSUME NEW a \in signed', NEW u \in Tokens, pending[<<u, "assertion">>] = a.nonce
               PROVE  /\ owner[a.key] = u
                      /\ stored[a.key] < a.count
                      /\ \A g \in Handlers :
                            Presented(g) /\ proof[g].key = a.key => proof[g].count < a.count
    BY <1>2 DEF AwaitedIsNewest, Presented
  <2>1. CASE a \in signed
    BY <2>1 DEF OrderInv, AwaitedIsNewest
  <2>2. CASE a = new
    <3>1. u = t
      BY <1>1, <2>2 DEF OrderInv, Counted, Purposes
    <3>2. stored[k] < device[k] + 1
      BY <1>3 DEF OrderInv, Counted
    <3>3. \A g \in Handlers : Presented(g) /\ proof[g].key = k => proof[g].count < device[k] + 1
      BY <1>3, <1>7 DEF OrderInv, Counted
    <3> QED BY <1>1, <2>2, <3>1, <3>2, <3>3
  <2> QED BY <1>1, <2>1, <2>2
<1>9. InOrder'
  BY <1>2 DEF OrderInv, InOrder, Presented
<1> QED BY <1>6, <1>8, <1>9 DEF OrderInv

LEMMA OrderNext == OrderInv /\ Typed /\ [Next]_vars => OrderInv'
<1> SUFFICES ASSUME OrderInv, Typed, [Next]_vars PROVE OrderInv'
  OBVIOUS
<1> USE DEF tokenVars, passkeyVars, challengeVars, deviceVars, handlerVars, historyVars
<1>0. ASSUME UNCHANGED <<owner, stored, challengeVars, deviceVars, pc, who, proof, seen, overtaken>>
      PROVE  OrderInv'
  BY <1>0, QuietKeepsOrder DEF Quiet
<1>1. ASSUME NEW p \in Procs, CountActiveTokens(p) \/ InsertBootstrap(p) PROVE OrderInv'
  BY <1>0, <1>1 DEF CountActiveTokens, InsertBootstrap
<1>2. ASSUME NEW t \in Tokens, AssertBegin(t) PROVE OrderInv'
  <2>1. PutChallenge(t, "assertion") /\ "assertion" \in Purposes
    BY <1>2 DEF AssertBegin, Purposes
  <2> QED BY <1>2, <2>1, ChallengeKeepsOrder DEF AssertBegin
<1>3. ASSUME NEW t \in Tokens, RevokeToken(t) PROVE OrderInv'
  BY <1>0, <1>3 DEF RevokeToken
<1>4. ASSUME NEW k \in Passkeys, RevokePasskey(k) PROVE OrderInv'
  BY <1>0, <1>4 DEF RevokePasskey
<1>5. ASSUME NEW k \in Passkeys, SignChallenge(k) PROVE OrderInv'
  BY <1>5, SignKeepsOrder
<1>6. ASSUME NEW c \in Tokens \X Purposes, ExpireChallenge(c) PROVE OrderInv'
  <2>1. \A d \in Tokens \X Purposes : pending'[d] \in {0, pending[d]}
    BY <1>6 DEF ExpireChallenge, Typed, RowTypes
  <2> QED BY <1>6, <2>1, QuietKeepsOrder DEF ExpireChallenge, Quiet
<1>7. CASE ClearFactors
  <2>1. \A c \in Tokens \X Purposes : pending'[c] = 0
    BY <1>7 DEF ClearFactors
  <2>2. \A k \in Passkeys : owner'[k] \in {owner[k], Gone}
    BY <1>7 DEF ClearFactors
  <2> QED BY <1>7, <2>1, <2>2, QuietKeepsOrder DEF ClearFactors, Quiet
<1>8. CASE ResetLatch \/ UNCHANGED vars
  BY <1>0, <1>8 DEF ResetLatch, vars
<1>9. ASSUME NEW h \in Handlers, HandlerStep(h) PROVE OrderInv'
  <2> USE DEF Step, OnlyHandler, Typed, HandlerTypes
  <2>1. ASSUME End(h), UNCHANGED <<owner, stored, nonce, deviceVars>>,
               \A c \in Tokens \X Purposes : pending'[c] \in {0, pending[c]}
        PROVE  OrderInv'
    <3>1. \A g \in Handlers :
             \/ pc'[g] \notin {"validating", "recording"}
             \/ /\ pc'[g] = pc[g] /\ who'[g] = who[g] /\ proof'[g] = proof[g]
                /\ seen'[g] = seen[g] /\ overtaken'[g] = overtaken[g]
      BY <2>1 DEF End
    <3> QED BY <2>1, <3>1, QuietKeepsOrder DEF Quiet
  <2>2. ASSUME UNCHANGED <<owner, stored, challengeVars, deviceVars, proof, seen, overtaken>>,
               \A g \in Handlers \ {h} : pc'[g] = pc[g] /\ who'[g] = who[g],
               pc'[h] \notin {"validating", "recording"}
        PROVE  OrderInv'
    BY <2>2, QuietKeepsOrder DEF Quiet
  <2>3. ASSUME NEW t \in Tokens, NEW a \in {"mint", "register", "finish"}, BeginRequest(h, t, a)
        PROVE  OrderInv'
    BY <2>2, <2>3 DEF BeginRequest
  <2>4. CASE CountTotp(h) \/ CountPasskeys(h) \/ ReadLatch(h) \/ RequireExisting(h) \/ VerifyTotp(h)
    BY <2>2, <2>4 DEF CountTotp, CountPasskeys, ReadLatch, RequireExisting, VerifyTotp
  <2>5. CASE Refuse(h) \/ FlagClone(h)
    BY <2>1, <2>5 DEF Refuse, FlagClone
  <2>6. CASE WasteChallenge(h)
    <3>1. \A c \in Tokens \X Purposes : pending'[c] \in {0, pending[c]}
      BY <2>6 DEF WasteChallenge, RowTypes
    <3> QED BY <2>1, <2>6, <3>1 DEF WasteChallenge
  <2>7. ASSUME NEW t \in Tokens, MintToken(h, t) PROVE OrderInv'
    BY <2>1, <2>7 DEF MintToken
  <2>8. CASE FinishRegistration(h)
    <3>1. \A c \in Tokens \X Purposes : pending'[c] \in {0, pending[c]}
      BY <2>8 DEF FinishRegistration, RowTypes
    <3> QED BY <2>8, <3>1, QuietKeepsOrder DEF FinishRegistration, Quiet
  <2>9. CASE IssueRegistration(h)
    <3>1. who[h] \in Tokens /\ PutChallenge(who[h], "registration") /\ "registration" \in Purposes
      BY <2>9 DEF IssueRegistration, InTheMiddle, Purposes
    <3>2. \A g \in Handlers :
             \/ pc'[g] \notin {"validating", "recording"}
             \/ /\ pc'[g] = pc[g] /\ who'[g] = who[g] /\ proof'[g] = proof[g]
                /\ seen'[g] = seen[g] /\ overtaken'[g] = overtaken[g]
      BY <2>9 DEF IssueRegistration, End
    <3> QED BY <2>9, <3>1, <3>2, ChallengeKeepsOrder DEF IssueRegistration
  <2> QED BY <1>9, <2>3, <2>4, <2>5, <2>6, <2>7, <2>8, <2>9, ConsumeKeepsOrder, LoadKeepsOrder,
             RecordKeepsOrder, CreateKeepsOrder DEF HandlerStep
<1> QED BY <1>0, <1>1, <1>2, <1>3, <1>4, <1>5, <1>6, <1>7, <1>8, <1>9, NextCases

LEMMA OrderInvariance == Spec => []OrderInv
<1>1. Init => OrderInv
  <2>1. Init => Counted
    BY DEF Init, Counted
  <2>2. Init => AwaitedIsNewest /\ InOrder
    BY DEF Init, AwaitedIsNewest, InOrder, Presented
  <2> QED BY <2>1, <2>2 DEF OrderInv
<1> QED BY <1>1, OrderNext, TypedInvariance, PTL DEF Spec

BackOnlyIfOvertaken ==
    \A k \in Passkeys :
        (stored'[k] < stored[k] \/ k \in flagged' \ flagged) =>
            \E h \in Handlers : proof[h].key = k /\ overtaken[h]

\* Only a recording and a creation write a count, and only a recording flags.
LEMMA CountWriters ==
  ASSUME [Next]_vars
  PROVE  \/ UNCHANGED <<stored, flagged>>
         \/ \E h \in Handlers : RecordUse(h) \/ FlagClone(h)
         \/ \E h \in Handlers, k \in Passkeys : CreateCredential(h, k)
<1> USE DEF passkeyVars
<1>1. ASSUME NEW h \in Handlers, HandlerStep(h)
      PROVE  \/ UNCHANGED <<stored, flagged>>
             \/ RecordUse(h) \/ FlagClone(h)
             \/ \E k \in Passkeys : CreateCredential(h, k)
  BY <1>1 DEF HandlerStep, BeginRequest, Refuse, CountTotp, CountPasskeys, ReadLatch,
              RequireExisting, VerifyTotp, ConsumeChallenge, WasteChallenge, LoadPasskeys,
              MintToken, IssueRegistration, FinishRegistration, OnlyHandler
<1>2. ASSUME NEW p \in Procs, CountActiveTokens(p) \/ InsertBootstrap(p)
      PROVE  UNCHANGED <<stored, flagged>>
  BY <1>2 DEF CountActiveTokens, InsertBootstrap
<1>3. ASSUME NEW t \in Tokens, AssertBegin(t) \/ RevokeToken(t) PROVE UNCHANGED <<stored, flagged>>
  BY <1>3 DEF AssertBegin, RevokeToken
<1>4. ASSUME NEW k \in Passkeys, RevokePasskey(k) \/ SignChallenge(k)
      PROVE  UNCHANGED <<stored, flagged>>
  BY <1>4 DEF RevokePasskey, SignChallenge
<1>5. ASSUME NEW c \in Tokens \X Purposes, ExpireChallenge(c) PROVE UNCHANGED <<stored, flagged>>
  BY <1>5 DEF ExpireChallenge
<1>6. ClearFactors \/ ResetLatch \/ UNCHANGED vars => UNCHANGED <<stored, flagged>>
  BY DEF ClearFactors, ResetLatch, vars
<1> QED BY <1>1, <1>2, <1>3, <1>4, <1>5, <1>6, NextCases

LEMMA BackStep == OrderInv /\ Typed /\ [Next]_vars => BackOnlyIfOvertaken
<1> SUFFICES ASSUME OrderInv, Typed, [Next]_vars, NEW k \in Passkeys,
                    stored'[k] < stored[k] \/ k \in flagged' \ flagged
             PROVE  \E h \in Handlers : proof[h].key = k /\ overtaken[h]
  BY DEF BackOnlyIfOvertaken
<1> USE DEF Typed, RowTypes
<1>0. ~UNCHANGED <<stored, flagged>>
  OBVIOUS
<1>1. ASSUME NEW h \in Handlers, NEW j \in Passkeys, CreateCredential(h, j) PROVE FALSE
  <2>1. flagged' = flagged /\ stored' = [stored EXCEPT ![j] = device[j]]
    BY <1>1 DEF CreateCredential
  <2>2. stored[j] <= device[j]
    BY DEF OrderInv, Counted
  <2> QED BY <2>1, <2>2
<1>2. ASSUME NEW h \in Handlers, RecordUse(h) PROVE proof[h].key = k /\ overtaken[h]
  <2>1. /\ flagged' = flagged /\ pc[h] = "recording"
        /\ stored' = [stored EXCEPT ![proof[h].key] =
                         IF owner[proof[h].key] = Gone THEN @ ELSE proof[h].count]
    BY <1>2 DEF RecordUse, Step
  <2>2. /\ proof[h].key = k /\ owner[k] # Gone /\ proof[h].count < stored[k]
    BY <2>1
  <2>3. proof[h].count \in Nat /\ stored[k] \in Nat
    BY <2>1 DEF InTheMiddle
  <2> QED BY <2>1, <2>2, <2>3 DEF OrderInv, InOrder, Presented
<1>3. ASSUME NEW h \in Handlers, FlagClone(h) PROVE proof[h].key = k /\ overtaken[h]
  <2>1. /\ stored' = stored /\ pc[h] = "recording" /\ proof[h].count <= seen[h]
        /\ flagged' = flagged \cup ({proof[h].key} \ OwnedBy(Gone))
    BY <1>3 DEF FlagClone, CloneSuspected
  <2>2. proof[h].key = k /\ owner[k] # Gone
    BY <2>1 DEF OwnedBy
  <2>3. proof[h].count \in Nat /\ seen[h] \in Nat
    BY <2>1 DEF InTheMiddle, HandlerTypes
  <2> QED BY <2>1, <2>2, <2>3 DEF OrderInv, InOrder, Presented
<1> QED BY <1>0, <1>1, <1>2, <1>3, CountWriters

\* A passkey's count goes back, or it is flagged, in an overtaken request only.
THEOREM CountsGoOn == Spec => OutOfOrderOnlyIfOvertaken
<1>1. OrderInv /\ Typed /\ [Next]_vars => [BackOnlyIfOvertaken]_vars
  BY BackStep
<1> QED BY <1>1, OrderInvariance, TypedInvariance, PTL
        DEF Spec, OutOfOrderOnlyIfOvertaken, BackOnlyIfOvertaken
===============================================================================
