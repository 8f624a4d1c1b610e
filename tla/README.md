# A TLA+ model of Chuvar

Chuvar keeps facts about a person for AI agents. Agents read what a reviewer
granted them, and everything they write is only a proposal until the reviewer
approves it. A second capability, signing git commits, is exercised by a broker
on grants of the same kind. This directory models the parts where concurrency,
failure and ordering decide whether those promises hold, checks them with TLC on
small instances, and proves the most important ones with TLAPS for every value
of the constants.

Contents: [the system](#1-the-system) · [plan](#2-plan) ·
[modules](#3-modules-and-the-code) · [runs](#4-runs-and-bounds) ·
[fairness](#5-fairness) · [proofs](#6-proofs) · [findings](#7-findings) ·
[limits](#8-what-is-not-covered).

Source paths are relative to `src/backend/internal/` unless they begin with
`cmd/` (`src/backend/cmd/`).

## 1. The system

Five programs share one Postgres database: `apiserver` (REST for reviewers, agent
routes, an event stream), `mcpserver` (an adapter from MCP to the agent routes),
`brokerd` (the signing broker), `approver` (a terminal review queue), and
`pushbridge` (push notifications). Each component below lists its state, its
operations, what is hard about it and what makes it correct.

**Grant cache** (`broker/cache.go`, `broker/store.go`). State: `byToken`,
`tokenOf`, `tombstones`; a mutex for the maps and one, `loadMu`, for loads.
Operations: `Load` (query, then `apply`), `Remove` on a notification, `Lookup`,
`Watch` (ticker) and `watchNotify` (LISTEN, reconnect, reload). Hard: a reload's
snapshot is older than the map it replaces; notifications are lost with the
connection; tombstones expire. Correct: a revoked grant leaves for good and soon;
an active one is never dropped.

**Signing path** (`broker/broker.go`, `socket.go`, `keyring/`, `cmd/brokerd`).
State: connections in flight, the key, the phase of the process. Operations:
`Serve`, `handleConn`, `Preflight`, `Sign`, shutdown. Hard: shutdown destroys the
key under running connections; the audit row is committed or not while the client
times out. Correct: the key outlives its users; no signature without an audit
row; a revoked grant is refused; shutdown ends.

**Sign-rate tripwire** (`broker/ratelimit.go`). State: event times per grant.
Hard: the clock is read before the mutex is taken. Correct: at most `limit`
events in a window.

**Staged diffs and facts** (`store/staged_diffs.go`, `api/staged_diffs.go`).
State: `staged_diffs` rows and their status, `facts` with `superseded_by` and the
validity interval. Operations: `ProposeDiff`, `RejectDiff`, `CommitDiff`. Hard:
approvals run concurrently under READ COMMITTED with row locks, and `now()` is
the start of the transaction. Correct: a diff is decided once, a fact is replaced
at most once, duplicates need concurrency, intervals do not invert, approvals do
not block each other for ever.

**Event feed** (`api/events.go`, `sseclient/`). State per connection: what it has
announced. Operations: a poll over diffs, requests and expiring grants, frames
`_added`, `_resolved`, `grant_expiring`. Hard: dropped connections, failed
fetches, a list bound. Correct: what the server will not repeat, the client has.

**Clients of the feed** (`cmd/pushbridge`, `cmd/approver`). State: `notified`
and `grantExpiryNotified`; the queue, its selection and the open prompt. Hard:
state survives reconnects that the server's does not. Correct: one push per item;
the selection and the prompt stay with their item; the queue is what is pending.

**Grants and grant requests** (`store/grants.go`, `store/grant_requests.go`, the
grant routes of `api/`). State: grant rows with terms, expiry and revocation;
requests with a status and the grant they became. Operations: create, renew and
revoke a grant; ask for, approve and deny a request. Hard: decisions race under
row locks, expiries are reckoned at one instant and written at another, and a time
to live passes through a 32-bit column. Correct: authority only follows a
reviewer's decision, one grant per approved request, as long as was asked and no
longer; what is closed stays closed.

**Agent reads and proposals** (`bouncer/`, `scope/`, `store/facts.go`,
`api/agent_routes.go`, `store/rate_limit.go`). State per call: the grants it has
read and what it found; a counter per window. Operations: `agentSearch` and
`agentProposeWrite`, which check the grants, embed the text and check again. Hard:
grants change during the embedding; scope cover is decided in Go and in SQL; a
fact has several tags under several grants. Correct: an agent sees a fact, and
learns of one through a proposal, only as deep as its grants allow.

**Data keys and custody** (`custody/`, `store/data_keys.go`). State: a key file
with the master key, one data key wrapped under it in a row. Operations: create or
unseal the master, load or create the data key, rewrap. Hard: processes boot at
the same time, crash half-way, and keys are rotated meanwhile. Correct: what was
sealed can always be opened.

**Second factor and tokens** (`api/webauthn.go`, `api/tokens.go`,
`store/webauthn.go`, `store/reviewer_tokens.go`, `store/enrollment_latch.go`).
State: tokens with sealed TOTP secrets, passkeys with sign counts, challenges, the
latch. Operations: bootstrap, mint and revoke a token, the registration and
assertion ceremonies, the recovery in `docs/operations.md`. Hard: a request is
several statements, and two requests, a revocation or a recovery come between
them. Correct: after the first enrolment a factor is always asked for; a
challenge is used once; counts move backwards only for a named reason.

**The rest**: agent tokens and signing policies are single-statement records; the
MCP adapter and the agent client translate requests; the web frontend is a view of
the REST API; configuration, migrations, embedding and summaries are I/O.

How they interact: reviewers (frontend, approver) call the API, which writes rows;
a trigger on `grants` notifies `brokerd`; the event feed polls the rows and tells
`approver` and `pushbridge`; agents call the agent routes, whose proposals become
staged diffs. Postgres is the only shared state.

## 2. Plan

| step | module | what | state |
|---|---|---|---|
| 1 | `RevocationContract`, `GrantCache` | the cache under reloads, notices, crashes; refinement | done, proved |
| 2 | `ReviewContract`, `FactReview` | approvals under row locks; refinement | done, proved |
| 3 | `BrokerSign` | the signing path over the cache's contract | done, proved |
| 4 | `SignRate` | the tripwire | done, proved |
| 5 | `EventFeed`, `ReviewFeed` | the feed composed with its clients | done, proved |
| 6 | `ConsentContract`, `Grants` | grants and requests as transactions; refinement | done, proved |
| 7 | `Scopes`, `AgentAccess` | cover and depth in Go and in SQL; agents' calls composed with changing grants | done, proved |
| 8 | `Custody`, `SecondFactor` | boots, keys and rotations composed with tokens, passkeys and challenges | done, proved |

Abstract specifications: `RevocationContract` (what callers may assume of the
cache; `GrantCache` implements it and `BrokerSign` is built on it),
`ReviewContract` (every decision is one step; `FactReview` implements it),
`ConsentContract` (every grant comes from one decision, a revocation is final;
`Grants`, and with it `AgentAccess`, implements it).

What is left: facts that are superseded while an agent reads them (`FactReview`
beside `AgentAccess`), several subjects, the age and 1Password backends of
`Custody`, and the choice of a backend at start-up.

Compositions: `BrokerSign` runs over the cache's contract, `ReviewFeed` over
`EventFeed`, `AgentAccess` over `Grants` and `Scopes`, `SecondFactor` over
`Custody`.

## 3. Modules and the code

`PROJECT.json` maps every definition to its lines. In outline:

**`RevocationContract`** is abstract: grants die, the cache drops dead ones
(`Refresh`, `Forget`), and what it has dropped (`gone`) stays out until the
process restarts. Loading, notices and time are hidden.

**`GrantCache`**: `cached` stands for `byToken`/`tokenOf`, `snapAt`/`snap` for a
load between its query and its swap. `LoadQuery` is the SELECT, `LoadApply` the
whole of `apply` including parsing, tombstone filtering (`Suppressed`) and
pruning; `Remove` is one notification. `watcher` walks through boot, LISTEN, wait,
back-off and reload as `watchNotify` does. `Crash` restarts the process at any
step. `MaxLoad` is how long a load may take between snapshot and swap; the
assumption `MaxLoad <= TombstoneTTL` is the one the code states for its constant.

**`BrokerSign`** has one action per step of `handleConn` and `Sign` at which
another goroutine can be observed: lookup, tripwire, checks, taking the signer,
signing, audit, reply. The cache is an instance of `RevocationContract`, which
`GrantCache` is proved to implement. The tripwire is a count that may slide down
at any time. What `checkScope`, `commit.Parse` and the committer comparison decide
is a choice of the request's `shape`. An audit write that returns an error may
have committed.

**`SignRate`** separates reading the clock (`ReadClock`) from the critical
section (`Allow`). The slice of a key is the set `events` of its calls, each with
the reading the code records and, as history, its number, its caller and the time
it was decided; `admitted` is every call that was ever allowed. It models an
enabled limiter; a limit of zero is in `BrokerSign`.

**`ReviewContract`** is abstract: stage, reject, approve, each one step.

**`FactReview`**: handlers run `approveStagedDiff` and `CommitDiff` step by step:
`GetStagedDiff`, `Begin` (which fixes `now()`), `LockDiff`, `InsertFact` with the
duplicate and scope checks, `LockTargetFact`, `Commit`. A lock is held by the
handler whose `pc` is past it; a rollback (`Finish`, `Fail`) releases it. A
proposal is two statements, `CheckTarget` and `InsertStagedDiff`. `Smuggled` rows
stand for rows "inserted some other way", which `CommitDiff` guards against.
The history variable `overlapped` remembers which transactions ran together.

**`EventFeed`**: one connection. `stage` and `listed` walk `poll` through the
three kinds; `seen` is the baseline the next poll compares with; `frames` is what
is between the server and the handling of a frame. A connection that ends keeps a
prefix of the frames. Items are their `created_at`, and become visible in any
order, since that is when their transaction began and not when it committed.

**`ReviewFeed`** adds the program at the other end, one of the two in each
behaviour: `handleEvent` with both of its maps and a push that is accepted or not,
or the approver's `apply`, `remove`, selection and prompt. An approval typed
there is a `Resolve` in the database like anyone else's.

**`ConsentContract`** is abstract: ask, deny, approve, create and revoke, each one
step. Expiry, row locks and renewals are hidden.

**`Grants`** has one action per statement at which another transaction can be
observed. `BeginCreate` is `createGrant` up to the transaction, with the expiry
reckoned there, `CommitCreate` the inserts. `LockRequest` is
`LoadGrantRequestForUpdate` after the wait, with its tests for pending and for
well-formed scopes; `CommitApprove` writes the grant and the request. `BeginRenew`
fixes `now()` and the new expiry, `LockGrant` is the UPDATE, which waits for the
row and looks at it again under `Renewable`, and `CommitRenew` makes it seen. A
handler's `pc` and `arg` say which row it has locked. Denying and revoking are one
statement with their audit row. `ToInt4` is Go's `int32(ttl)`, and a row that does
not satisfy the column's CHECK is refused. `SmuggleRequest` stands for rows that
reached the table some other way, which approval guards against. `wanted` is
history: what the agent sent.

**`Scopes`** holds pure operators: `Covers` as `scope.Covers` decides it,
`SqlCovers` as the queries with `= ANY` and `LIKE ANY` do, and `EffectiveDepth`
(union over the grants of a tag, intersection over the tags). `LookAlikes` are the
pairs of segments an unescaped `_` would confuse.

**`AgentAccess`** composes them with calls. A search is `CheckGrants`, `Embed`,
`Recheck`, `SearchFacts`, `RecordRead`, `Answer`; a proposal is `ProposeWrite`
(the rate limit's upsert), `Embed`, `LoadGrants`, `ProposeDiff`, `Answer`. `snap`
is what a call has read of the grants and `found` what it will tell. Ranking is a
choice of any of the candidates. `since` is history: the grants in force at some
instant between the end of the embedding and the reading of the grants, which is
as fresh as the code can promise. `admitted`, history too, is the proposals let
through, each with its time and the count its upsert returned.

**`Custody`**: `file` and `wrapped` are the key file and the row; `boot` walks
through the start of `apiserver`. `CreateKeyFile` and `WriteKeyFile` are the two
halves of the O_EXCL create; `InsertDataKey` is ON CONFLICT DO NOTHING followed by
the read of the winner's row; `BeginRewrap` and `FinishRewrap` are the two
statements of `RewrapDataKey`.

**`SecondFactor`**: handlers serve requests, one action per statement: the three
reads of `createToken`'s gate, `verifySecondFactor` by code or by assertion
(`ConsumeChallenge`, `LoadPasskeys`, then `RecordUse` or `FlagClone`), and what an
admitted request does (`MintToken`, `IssueRegistration`). `FinishRegistration` and
`CreateCredential` are the second half of a registration. `SignChallenge` is the
authenticator, whose counter is `device`. `ClearFactors` and `ResetLatch` are the
two steps of the documented recovery; the second is taken when nothing of what the
first clears is left, as `docs/operations.md` has the operator do. `enrolled`,
`mustProve`, `proved` and `overtaken` are history.

`MC*` modules hold what only a TLC instance needs. Operators named `Faulty...` (and
`EarlyPrunedSuppressed`, `UnclampedShifted`) are deliberate mistakes: replacing
the definition after them by one must break the property `PROJECT.json` pairs it
with. Nothing else refers to them.

## 4. Runs and bounds

| run | instance | what it shows |
|---|---|---|
| `GrantCache` | 2 good grants, 1 whose scopes do not parse, one expiring, TTL and load time 1, clock to 3 | no resurrection, no overzealous drop, revocation takes effect, refinement |
| `GrantCacheReconnect` | the same | fails: [finding 1](#7-findings) |
| `FactReview` | 4 diffs (1 smuggled), 2 contents, 2 handlers, 3 transactions | no lost supersession, duplicates only between overlapping transactions, ordered validity, refinement, approvals end |
| `BrokerSign` | 2 grants, 2 connections, limit 1 | key, revocation, audit, what preflight is right about, shutdown |
| `BrokerSignPreflight` | 1 grant, 1 connection | fails: finding 2 |
| `SignRate` | 2 callers, limit 2, window 2, clock to 5 | the excess is bounded by the calls in flight |
| `SignRateWindow` | the same kind | fails: finding 3 |
| `ReviewFeed` | 2 diffs, 1 request, 1 expiring grant, poll limit 1, 1 lost connection | server and client agree, one push per item, selection and prompt, pending items and resolutions arrive |
| `ReviewFeedGhosts` | 1 diff, 1 request, 1 lost connection | fails: finding 4 |
| `AgentAccess` | 1 request, 2 grants, 2 reviewers, terms of both kinds; 1 agent call over 3 facts; clock to 2, limit 1, window 2, `Int4Range` 8 | disclosure within grants, rate limit, expiries, refinement of `ConsentContract` |
| `GrantLapse` | the same without agent calls | fails: finding 5 |
| `SecondFactor` | 2 processes, 1 rotation, 2 masters, 3 tokens, 1 passkey, 2 handlers, 3 challenges | secrets open everywhere, the gate, the bootstrap token, sign counts |

Why these bounds are enough to be interesting. Two loaders race already with one
grant; the second grant shows that one's fate leaves the other's alone, and a
clock of 3 lets a tombstone be set, outlive a load, and be pruned. Three diffs are
one fact and two rival corrections of it, or three equal contents; the fourth is
the smuggled row. Three transactions let a later one meet two earlier ones. Two
connections are one that is slow and one that shuts down or revokes around it. The
poll limit of 1 over two diffs makes the list overflow; three queued items leave
one on each side of the selection. Two reviewers are enough for a renewal to wait
for another's row and for two decisions of one request; a second grant lets one be
revoked while the other is still read. Times to live of 2 and 5 against an
`Int4Range` of 8 are one that fits and one that turns negative, and the clock
passes the expiry of the first. The three facts have one tag, two tags and a tag
that only an unescaped `_` reaches. Two processes race for the key file and for
the data key; two masters and a rotation give a stale wrap; three challenges are
one registration and two assertions in flight, which is what it takes for one use
of a passkey to overtake another; three tokens are the bootstrap token, one that
was minted and one being minted.

Some instances are cut further by a state constraint, `MCBound`, which leaves out
combinations whose parts are each explored:

- `MCFactReview` takes interchangeable diffs in their order.
- `MCReviewFeed` meets the warning with `pushbridge` and the request with the
  approver, each either with one diff or without a lost connection.
- `MCAgentAccess` lets two reviewers' transactions overlap only when they work on
  the same row or terms, and only while no agent call has been made; during a
  call one renewal, and any
  revocation or lapse, may happen.
- `MCSecondFactor` lets processes boot, crash and rotate around one request for a
  token, and lets requests overlap, and passkeys be used, while one process
  serves.

`AgentAccess`, `GrantLapse` and `SecondFactor` use symmetry, over model values no
property tells apart; they check no liveness. The runs that check liveness use
none.

Bounds in the guards: `MaxTime` (clock), `MaxLoad` (a real assumption, see above),
`MaxBegins` (transactions begun), `MaxFrames` (frames on their way), `MaxEnds`
(connections lost), `MaxNonce` (challenges issued); a window of the rate limit is
not counted past the first refusal. `CHECK_DEADLOCK FALSE` is set where a bounded
instance runs out: every item decided and no connection left to lose, the clock at
its end, no token left to mint.

## 5. Fairness

- `GrantCache`: the ticker keeps firing, `loadMu` is handed on, and the database is
  reachable again and again (strong fairness on the periodic load, weak on a load
  ending). Nothing is assumed of LISTEN: `RevocationTakesEffect` holds on the
  periodic reload alone.
- `FactReview`: a transaction that has begun continues, and Postgres gives a
  contended row to each waiter in turn (strong fairness on taking a lock).
  Failures are possible, never assumed.
- `BrokerSign`: goroutines are scheduled; `connDeadline` bounds every read, write
  and query, so giving up on a silent client is fair; `main` continues after
  `Serve`. No client is assumed to write.
- `EventFeed`/`ReviewFeed`: the poll loop, the reconnect loop and the client's loop
  keep running; a fetch that is retried at every poll succeeds at last (strong
  fairness). Nobody is assumed to decide an item, and ntfy may refuse for ever.
- `SignRate`, `Grants`, `AgentAccess` and `SecondFactor` need none: their properties
  are safety.

## 6. Proofs

All theorems are of the specification for arbitrary constants, from the named
assumptions of the module (`GrantsAssumption`, `TimeAssumption`,
`FactReviewAssumption`, `BrokerSignAssumption`, `SignRateAssumption`,
`AccessAssumption`, `CustodyAssumption`, `FactorAssumption`, `EventFeedAssumption`,
`ReviewFeedAssumption`).

**`GrantCache_proofs`**: `TypeCorrect`, `NeverResurrected`, `NeverOverzealous`,
`LoadsAreCovered`, `CacheKeepsContract`. "What is gone is not cached" is not inductive: a load in
flight may hold the grant in its snapshot. `SnapshotsAreCovered` closes the gap:
loads exclude each other, and whatever is gone and still in a snapshot has a
tombstone no older than the snapshot. `TimeAssumption` is used in one place, to
show that such a tombstone is not pruned before the load is applied. The invariant
also says that notices and tombstones are of revoked grants, which gives
`OnlyTheDeadAreDropped`. The refinement maps each step to one of the contract's or
to a stutter: `LoadApply` to `Refresh`, `Remove` to `Forget`, the clock and a
revocation to `Die`, `Crash` to `Restart`.

**`FactReview_proofs`**: `TypeCorrect`, `NoSupersessionIsLost`,
`DuplicatesAreConcurrent`, `ValidityIsOrdered`, `ReviewKeepsContract`. The
invariant says what holding a lock guarantees (`LocksHold`: the diff is pending,
no one else holds it, the target has no successor), that rows once seen stay
(`RowsStay`), that a fact's start time is not after that of a transaction that
targets it (`TimesOrdered`), which orders the stored intervals
(`IntervalsOrdered`), and that a duplicate check made earlier still means
something at the commit: any duplicate that appeared since ran at the same time
(`CheckStillMeans`).

**`BrokerSign_proofs`**: `TypeCorrect`, `KeyIsDestroyedLast`, `RevokedIsRefused`,
`SignaturesAreAudited`, `PreflightIsRightOnAuthority`. The invariant relates each
connection's place to the phase of the process and keeps what was gone when it was
accepted within what is gone now. The last theorem is an action property: a grant
preflight said OK to stays findable while it is alive and cached
(`VouchedIsLive`), so only the tripwire, the key or the audit log can still say no
to a sign call; one lemma goes through every step that gives a code
(`AuthorizedStep`).

**`SignRate_proofs`**: `TypeCorrect`, `WindowIsBounded`, `ExcessIsInFlight`. That a
window holds few calls is not inductive, since a decision late in a window must not
forget what earlier decisions of it recorded. `SliceHoldsWindow` says what the slice
remembers: the calls of a window that has not ended which were also read inside it,
because only a reading a whole window later drops them. So at most `Limit` calls of
any window were read inside it. The others were read before it began and decided
in it, and a caller has at most one such call, since it reads the clock for its
next call after its last is decided (`OneAtATime`): the map from those calls to
their callers is an injection. `ExcessIsInFlight` is the finer bound, with those
calls themselves in place of all callers.

**`Grants_proofs`**: `ConsentTypeCorrect`, `GrantsEndInTime`,
`OpenGrantsAreProlonged`, `ConsentIsKept`, `OneGrantForARequest`,
`NothingIsDecidedTwice`. The invariant `ConsentInv` says what a
handler knows at each place: under the request's lock it is still pending
(`RequestLocksHold`); under the grant's lock the grant is unrevoked, of kind memory,
and had not lapsed at the transaction's `now()` (`GrantLocksHold`); and the number
that bounds a grant's life only gets smaller from the agent's call through the
column to the expiry (`TtlsShrink`, with `ToInt4Bounds`). That only one handler
holds a row is part of both lock invariants, and is what keeps them true while the
others move. The last two theorems are drawn from the refinement: they are proved
of the contract, in a few lines because each of its decisions is one step, and hold
of the transactions because these implement it.

**`AgentAccess_proofs`**: `TypeCorrect`, `DisclosureIsGranted`,
`ProposalsAreGranted`, `RateIsLimited`, `AccessKeepsConsent`,
`QueryAgreesWithCovers`, `DepthIsDeepestGranted`. Everything in a call's snapshot
comes from a memory grant that is in `since`, and terms never change. Two lemmas
about `Scopes` do the rest: what SQL covers, Go covers (`SqlCoversIsSound`), and an
effective depth is granted for every tag of a fact all of whose tags are covered
(`EffectiveDepthIsGranted`). That agents do not get less than they were granted
either is in two theorems about the operators alone: on tags without a target,
which is all that `ValidateMemory` lets a fact have, the query and `scope.Missing`
decide the same (a scope whose operation is no longer than the tag's and agrees
with it is the tag itself or one the LIKE pattern matches), and the effective depth
reaches a depth exactly when every tag is granted at it.

For the rate limit, `AdmissionsAreCounted` says that a proposal that was let
through has a count from 1 to `Limit`, not above the counter of its window, and
that no other of its window has the same: the upsert hands each count out once. The
counts map a window's proposals one to one into `1 .. Limit`, and a stretch of a
window's length lies in two windows.

**`SecondFactor_proofs`**: `TypeCorrect`, `SecretsOpen`, `MintsArePaidFor`,
`BootstrapHasNoFactor`, `CountsGoOn`, `DataKeyIsForever`. `OneDataKey` says that the
row, every process past it and every rotation name one data key, whoever made it;
the row never names another (`DataKeyIsForever`), and secrets are sealed under that
key. `BootstrapGoesNowhere` follows a request with the bootstrap
token through the gates it cannot pass. `GateHolds` says that once a factor is enrolled the latch
stays set until it is reset, so a request that came in later has found a reason to
ask for a factor or is still about to. `OrderInv` orders the assertions of one
passkey by their challenges: a challenge is awaited only while it is the newest,
so a count that is not above the stored one belongs to a request another has
overtaken.

**`ReviewFeed_proofs`**: `TypeCorrect`, `SelectionIsSteady`, `PromptIsForTheQueue`,
`ServerAndClientAgree`, `OnePushPerItem`. `PollInOrder` says what a poll has in
hand between its steps, `OnlyWhatExists` that nobody is told of an item that is
not there. `NothingFallsBetween` is then inductive, because what the server takes
as known grows only by the frame it sends (`KnownGrows`) and a frame that is
handled leaves what it says with the client (`HandlingHolds`). One push per item
rests on `SaidOnce`: an item that was called resolved, and was, is announced no
more. What the approver's queue becomes is a pair of lemmas about sequences
(`AppendKeeps`, `RemoveAtKeeps`).

Not proved, only model-checked: every liveness property
(`RevocationTakesEffect`, `ApprovalsEnd`, `ShutdownEnds`, `ListedItemsArrive`,
`ResolutionsArrive`), which is beyond the prover. Every invariant and every action
property of a passing run is proved.

## 7. Findings

Each is a run that TLC refutes.

1. `GrantCacheReconnect`. On reconnect `watchNotify` reloads first and issues LISTEN
   afterwards. A revocation between the two is neither loaded nor notified and waits
   for the periodic reload, 30 s by default; `cache.go:294-296` says the reload
   closes that gap "rather than waiting out the rest of the current reconcile
   interval". The revocation still takes effect (`RevocationTakesEffect`).
2. `BrokerSignPreflight`. `broker.go:202-205` promises that preflight "can never say
   OK to a request Sign would then refuse". `Sign` also asks the tripwire, which
   `Preflight` does not. What does hold is `VouchedIsAuthorized`: the refusal is
   never for want of a grant or of scope.
3. `SignRateWindow`. `ratelimit.go:27-28` allows "at most limit events per window".
   A caller that read the clock earlier and is decided later can exceed it, by at
   most one event for each call in flight (`AtMostLimitAndInFlight`); only calls that
   had read the clock before the window began make the excess (`ExcessIsInFlight`).
4. `ReviewFeedGhosts`. `model.go:124-125` says the approver's queue "always reflects
   what's actually still pending". An item resolved while the connection was down
   stays: the new connection starts from an empty baseline and never mentions it.
   `pushbridge` keeps such an item in `notified` for the same reason, although
   `cmd/pushbridge/main.go:258-259` calls that map bounded by what is pending.

5. `GrantLapse`. `grants.go:403-404` says renewal is "a lightweight continuation of
   an already-live authorization, not a way to reinstate one that already lapsed".
   The UPDATE (`grants.go:425`) compares the expiry with `now()`, the start of its
   transaction, and may wait for the row, or simply run, past that expiry. What
   does hold is `ProlongedOnlyWhileOpen`: the grant had not lapsed when the
   renewal's transaction began.

`store/webauthn.go:312-313` asks its callers to "have already established
authDataCount > the stored value". They establish it for the count they loaded;
`OutOfOrderOnlyIfOvertaken` states when that is not the stored one at the update:
only in a request that another use of the same passkey has overtaken.

Seen while reading, without a run: `ratelimit.go:37-40` says memory is bounded by
the active grants, but a key that is never asked again is never pruned.

## 8. What is not covered

Abstracted: cryptography, parsing and formats (commit objects, SSHSIG, JSON, TOTP
digits); a code or a response that does not verify is a refusal, wrapping is a pair
of names. Audit rows appear only where they share a transaction or an outcome with
a modelled step. Clocks of different hosts are taken as one.

Simplified, by module:

- `FactReview`: embeddings and the dedupe verdict, which inform the reviewer and
  guard nothing; what of the verdict reaches the agent is in `AgentAccess`.
- `Grants`, `AgentAccess`: one subject. Facts stand still while agents read; a
  proposal's answer is the facts it gives away, so the difference between "novel"
  and "needs_review" is not seen. Ranking, tallies and summaries are left out.
- `Custody`: the file backend. Keys are not reused: the first boot makes
  `Created`, and a process's data key has its name.
- `SecondFactor`: `RequireExisting` reads TOTP and passkeys in one step. Expiry of a
  challenge may come at any time. Names, labels and listings are left out.
- `ReviewFeed`: rendering, raw terminal input and the digits of a code.

Not modelled, because nothing in them interleaves or decides: agent tokens and
signing policies (single-statement records), the age and 1Password backends and
the choice of a backend, the MCP adapter and agent client (request translation),
commit parsing and SSHSIG (formats), configuration, migrations, embedding and
summaries (I/O), and the web frontend (a view of the REST API).
