------------------------------ MODULE GrantCache ------------------------------
(***************************************************************************)
(* brokerd's in-memory index of active capability grants and the three     *)
(* things that keep it current: the load at boot, the periodic reload, and *)
(* the LISTEN/NOTIFY watch with its reload after a dropped connection.     *)
(*                                                                         *)
(* A reload is two steps, the query that takes a database snapshot and the *)
(* swap that applies it, with notifications, other reloads and reviewers'  *)
(* revocations free to run in between.  byToken and tokenOf are inverse to *)
(* each other (a token hash is unique over all grants), so the pair is one *)
(* set of grants here.                                                     *)
(***************************************************************************)
EXTENDS Integers, FiniteSets

CONSTANTS
    Grants,           \* capability grants with an identity and a token row
    Malformed,        \* those with a stored scope the broker refuses to parse
    Expiry,           \* expires_at of each grant; a time never reached is "none"
    TombstoneTTL,     \* tombstoneTTL
    MaxLoad,          \* longest time from a load's snapshot to its map swap
    MaxTime           \* bound on the clock, for model checking

ASSUME GrantsAssumption ==
    /\ IsFiniteSet(Grants)
    /\ Malformed \subseteq Grants
    /\ Expiry \in [Grants -> Nat]
ASSUME TimeAssumption ==
    /\ TombstoneTTL \in Nat
    /\ MaxLoad \in Nat
    /\ MaxTime \in Nat
    \* "It only needs to outlive the longest plausible gap between a reload's
    \* database snapshot and its map swap."
    /\ MaxLoad <= TombstoneTTL

\* Who calls Load: Watch's ticker loop, or the boot sequence and then
\* watchNotify (never both: main starts the watch once its own load is done).
Loaders == {"ticker", "watcher"}

NoStamp == -1

VARIABLES
    now,              \* the clock, brokerd's and Postgres's
    row,              \* the grant's row in the database
    cached,           \* the grants in byToken / tokenOf
    tombstones,       \* when Remove evicted a grant, or NoStamp
    snapAt,           \* when a loader took its snapshot, or NoStamp: not in Load
    snap,             \* the rows of that snapshot
    watcher,          \* where the boot sequence, then watchNotify, stands
    linkUp,           \* the server has a LISTEN registered for this process
    inbox,            \* notifications sent to that connection, not yet handled
    reloaded,         \* history: this process reloaded after losing its LISTEN
    gone              \* history: grants this process has let go of

dbVars == <<now, row>>
cacheVars == <<cached, tombstones, gone>>
loadVars == <<snapAt, snap>>
watchVars == <<watcher, linkUp, inbox, reloaded>>
vars == <<dbVars, cacheVars, loadVars, watchVars>>

-------------------------------------------------------------------------------
Revoked == {g \in Grants : row[g] = "revoked"}
Expired == {g \in Grants : now >= Expiry[g]}
Dead == Revoked \cup Expired

\* Seeded fault: the query forgets revoked_at IS NULL.
FaultyActiveRows == {g \in Grants : row[g] # "absent"} \ Expired

\* loadCapabilityGrants: neither revoked nor expired when the query runs.
ActiveRows == {g \in Grants : row[g] = "active"} \ Expired

\* Lookup: present, and not past the expiry the entry carries.
Usable == cached \ Expired

Loading(w) == snapAt[w] # NoStamp

Init ==
    /\ now = 0
    /\ row = [g \in Grants |-> "absent"]
    /\ cached = {}
    /\ tombstones = [g \in Grants |-> NoStamp]
    /\ snapAt = [w \in Loaders |-> NoStamp]
    /\ snap = [w \in Loaders |-> {}]
    /\ watcher = "boot"
    /\ linkUp = FALSE
    /\ inbox = {}
    /\ reloaded = FALSE
    /\ gone = {}

-------------------------------------------------------------------------------
(* The database, as reviewers and operators change it.                     *)

\* Identity and token rows are inserted directly: the code has no other way.
Provision(g) ==
    /\ row[g] = "absent"
    /\ row' = [row EXCEPT ![g] = "active"]
    /\ UNCHANGED <<now, cacheVars, loadVars, watchVars>>

\* RevokeGrant, and the trigger's NOTIFY that its commit delivers to whoever
\* is listening at that moment.
Revoke(g) ==
    /\ row[g] = "active"
    /\ row' = [row EXCEPT ![g] = "revoked"]
    /\ inbox' = IF linkUp THEN inbox \cup {g} ELSE inbox
    /\ UNCHANGED <<now, cacheVars, loadVars, watcher, linkUp, reloaded>>

\* No load is older than MaxLoad when its swap happens.
Tick ==
    /\ now < MaxTime
    /\ \A w \in Loaders : Loading(w) => now + 1 - snapAt[w] <= MaxLoad
    /\ now' = now + 1
    /\ UNCHANGED <<row, cacheVars, loadVars, watchVars>>

-------------------------------------------------------------------------------
(* Load                                                                    *)

MayLoad(w) ==
    CASE w = "ticker"  -> watcher # "boot"
      [] w = "watcher" -> watcher \in {"boot", "reload"}

\* Where the caller goes on once Load returned without an error: the watch is
\* started after the first load, and listens again after a later one.
AfterLoad(w) == IF w = "watcher" THEN "listen" ELSE watcher

\* Seeded fault: reloads are not serialized.
FaultyLoadMuFree == TRUE

\* loadMu, taken before the query and held until the swap is done.
LoadMuFree == \A v \in Loaders : ~Loading(v)

\* Load takes loadMu and queries.
LoadQuery(w) ==
    /\ MayLoad(w)
    /\ ~Loading(w)
    /\ LoadMuFree
    /\ snapAt' = [snapAt EXCEPT ![w] = now]
    /\ snap' = [snap EXCEPT ![w] = ActiveRows]
    /\ UNCHANGED <<dbVars, cacheVars, watchVars>>

\* Seeded faults: no tombstone pass; tombstones pruned one tick early.
FaultySuppressed == {}
EarlyPrunedSuppressed ==
    {g \in Grants : tombstones[g] # NoStamp /\ now - tombstones[g] < TombstoneTTL}

\* The tombstones young enough to filter a snapshot; apply prunes the others.
Suppressed ==
    {g \in Grants : tombstones[g] # NoStamp /\ now - tombstones[g] <= TombstoneTTL}

\* apply: prune old tombstones, drop the tombstoned grants and the rows that do
\* not parse from the snapshot, swap it in.
LoadApply(w) ==
    /\ Loading(w)
    /\ LET fresh == (snap[w] \ Malformed) \ Suppressed
       IN  /\ tombstones' = [g \in Grants |-> IF g \in Suppressed
                                              THEN tombstones[g] ELSE NoStamp]
           /\ cached' = fresh
           /\ gone' = gone \cup (cached \ fresh)
    /\ snapAt' = [snapAt EXCEPT ![w] = NoStamp]
    /\ snap' = [snap EXCEPT ![w] = {}]
    /\ watcher' = AfterLoad(w)
    /\ reloaded' = (reloaded \/ (w = "watcher" /\ watcher = "reload"))
    /\ UNCHANGED <<dbVars, linkUp, inbox>>

\* The query fails, before its snapshot or while reading the rows.  At boot
\* that ends the process, which is started again; later it is only logged.
LoadFail(w) ==
    /\ Loading(w)
    /\ snapAt' = [snapAt EXCEPT ![w] = NoStamp]
    /\ snap' = [snap EXCEPT ![w] = {}]
    /\ watcher' = IF watcher = "boot" THEN "boot" ELSE AfterLoad(w)
    /\ UNCHANGED <<dbVars, cacheVars, linkUp, inbox, reloaded>>

-------------------------------------------------------------------------------
(* watchNotify and listenOnce                                              *)

\* LISTEN is registered: only what commits from here on is delivered.
Listen ==
    /\ watcher = "listen"
    /\ watcher' = "wait"
    /\ linkUp' = TRUE
    /\ UNCHANGED <<dbVars, cacheVars, loadVars, inbox, reloaded>>

ListenFail ==
    /\ watcher = "listen"
    /\ watcher' = "backoff"
    /\ UNCHANGED <<dbVars, cacheVars, loadVars, linkUp, inbox, reloaded>>

\* Seeded fault: a tombstone is left only for a grant the cache holds.
FaultyRemove(g) ==
    /\ watcher = "wait"
    /\ g \in inbox
    /\ inbox' = inbox \ {g}
    /\ tombstones' = IF g \in cached THEN [tombstones EXCEPT ![g] = now] ELSE tombstones
    /\ cached' = cached \ {g}
    /\ gone' = gone \cup {g}
    /\ UNCHANGED <<dbVars, loadVars, watcher, linkUp, reloaded>>

\* WaitForNotification returns a payload and Remove handles it.  Removals
\* commute, so the order of the inbox does not matter.
Remove(g) ==
    /\ watcher = "wait"
    /\ g \in inbox
    /\ inbox' = inbox \ {g}
    /\ tombstones' = [tombstones EXCEPT ![g] = now]
    /\ cached' = cached \ {g}
    /\ gone' = gone \cup {g}
    /\ UNCHANGED <<dbVars, loadVars, watcher, linkUp, reloaded>>

\* Seeded fault: what was queued on the broken connection is delivered later.
FaultyDrop ==
    /\ linkUp
    /\ linkUp' = FALSE
    /\ UNCHANGED <<dbVars, cacheVars, loadVars, watcher, inbox, reloaded>>

\* The connection breaks: what was queued on it is lost, and nothing tells
\* brokerd yet.
Drop ==
    /\ linkUp
    /\ linkUp' = FALSE
    /\ inbox' = {}
    /\ UNCHANGED <<dbVars, cacheVars, loadVars, watcher, reloaded>>

\* WaitForNotification fails at last.
NoticeDrop ==
    /\ watcher = "wait"
    /\ ~linkUp
    /\ watcher' = "backoff"
    /\ UNCHANGED <<dbVars, cacheVars, loadVars, linkUp, inbox, reloaded>>

BackoffOver ==
    /\ watcher = "backoff"
    /\ watcher' = "reload"
    /\ UNCHANGED <<dbVars, cacheVars, loadVars, linkUp, inbox, reloaded>>

\* The process dies or is stopped, and starts again with an empty cache.
Crash ==
    /\ cached' = {}
    /\ tombstones' = [g \in Grants |-> NoStamp]
    /\ gone' = {}
    /\ snapAt' = [w \in Loaders |-> NoStamp]
    /\ snap' = [w \in Loaders |-> {}]
    /\ watcher' = "boot"
    /\ linkUp' = FALSE
    /\ inbox' = {}
    /\ reloaded' = FALSE
    /\ UNCHANGED dbVars

Next ==
    \/ \E g \in Grants : Provision(g) \/ Revoke(g) \/ Remove(g)
    \/ \E w \in Loaders : LoadQuery(w) \/ LoadApply(w) \/ LoadFail(w)
    \/ Tick
    \/ Listen \/ ListenFail \/ Drop \/ NoticeDrop \/ BackoffOver
    \/ Crash

\* The ticker keeps firing and loadMu is handed out fairly, a query ends one
\* way or the other, and the database is not unreachable for ever.  Nothing is
\* assumed of the LISTEN connection.
Fairness ==
    /\ \A w \in Loaders : WF_vars(LoadApply(w) \/ LoadFail(w))
    /\ SF_vars(LoadQuery("ticker"))
    /\ SF_vars(LoadApply("ticker"))

SafetySpec == Init /\ [][Next]_vars
Spec == SafetySpec /\ Fairness

-------------------------------------------------------------------------------
(* Properties                                                              *)

TypeOK ==
    /\ now \in Nat
    /\ row \in [Grants -> {"absent", "active", "revoked"}]
    /\ cached \subseteq Grants
    /\ tombstones \in [Grants -> Nat \cup {NoStamp}]
    /\ snapAt \in [Loaders -> Nat \cup {NoStamp}]
    /\ snap \in [Loaders -> SUBSET Grants]
    /\ watcher \in {"boot", "listen", "wait", "backoff", "reload"}
    /\ linkUp \in BOOLEAN
    /\ inbox \subseteq Grants
    /\ reloaded \in BOOLEAN
    /\ gone \subseteq Grants
    /\ linkUp \/ inbox = {}

\* The hazard tombstones and loadMu exist for: a grant this process has let go
\* of, on a notification or on a newer snapshot, never becomes usable again,
\* whatever snapshot lands late.
GoneStaysGone == gone \cap cached = {}

\* The other side of tombstones: "suppressing a tombstoned grant id can never
\* suppress a legitimately active grant".  What the cache lets go of is dead.
OnlyTheDeadAreDropped == gone \subseteq Dead

\* No snapshot is applied over a newer one, tombstones outlive the snapshots
\* they must filter, and only a revocation leaves one: why the two invariants
\* above are preserved.
SnapshotsAreCovered ==
    /\ \A v, w \in Loaders : Loading(v) /\ Loading(w) => v = w
    /\ \A w \in Loaders : Loading(w) =>
          /\ snapAt[w] <= now
          /\ now - snapAt[w] <= MaxLoad
          /\ \A g \in gone \cap snap[w] : tombstones[g] >= snapAt[w]
          /\ cached \ snap[w] \subseteq Dead
    /\ \A g \in Grants : tombstones[g] # NoStamp => g \in Revoked
    /\ inbox \subseteq Revoked
    /\ cached \cap Malformed = {}
    /\ \A g \in cached \cup UNION {snap[w] : w \in Loaders} : row[g] # "absent"

\* Once revoked or expired a grant is eventually out of the cache for good,
\* LISTEN connection or not: the periodic reload's promise.
RevocationTakesEffect ==
    \A g \in Grants : (g \in Dead) ~> [](g \notin cached)

\* The refinement: the cache as its callers may think of it.
Contract == INSTANCE RevocationContract WITH dead <- Dead, held <- cached, gone <- gone
ImplementsContract == Contract!Spec

\* Watch's doc comment: the reload on reconnect closes the gap the drop opened,
\* "rather than waiting out the rest of the current reconcile interval".  If it
\* did, every revoked grant still cached while LISTENing again would have its
\* notification on the way.
ReconnectClosesGap ==
    reloaded /\ watcher = "wait" /\ linkUp => cached \cap Revoked \subseteq inbox
===============================================================================
