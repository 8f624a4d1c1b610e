------------------------------ MODULE ReviewFeed ------------------------------
(***************************************************************************)
(* The two programs that read the event feed: pushbridge, which sends a    *)
(* push notification for every item once, and the approver, a terminal     *)
(* queue with a selection and a prompt for the second factor.  Each runs   *)
(* on a connection of its own, so a behaviour follows one of the two.      *)
(* pushbridge drains its buffered events before it reconnects; the         *)
(* approver's stay in order with those of the next connection, so here too *)
(* a connection starts when the frames of the last one are handled.        *)
(* An action of the approver reaches the database as a Resolve, or not.    *)
(***************************************************************************)
EXTENDS EventFeed, SequencesExt

CONSTANT Clients

ASSUME ReviewFeedAssumption == Clients \subseteq {"pushbridge", "approver"}

None == -1

VARIABLES
    client,           \* the program on the connection
    past,             \* warnings whose expires_at, cut to seconds, has passed
    notified,         \* pushbridge: notified and grantExpiryNotified
    pushed,           \* history: notifications ntfy accepted, by item
    failed,           \* history: announced, and the notification failed
    order,            \* approver: the queue, in order of display
    selected,         \* approver: index into order, from 1
    prompt            \* approver: the item a code is being typed for, or None

bridgeVars == <<past, notified, pushed, failed>>
approverVars == <<order, selected, prompt>>
vars == <<feedVars, client, bridgeVars, approverVars>>

Init ==
    /\ FeedInit
    /\ client \in Clients
    /\ past = {}
    /\ notified = {}
    /\ pushed = [i \in Items |-> 0]
    /\ failed = {}
    /\ order = <<>>
    /\ selected = 1
    /\ prompt = None

Take(type) ==
    /\ frames # <<>>
    /\ Head(frames).type = type
    /\ frames' = Tail(frames)

FrameUnchanged ==
    UNCHANGED <<status, displaced, stream, ends, pollVars, seen, client>>

-------------------------------------------------------------------------------
(* pushbridge: handleEvent                                                 *)

Expire(w) ==
    /\ client = "pushbridge"
    /\ w \notin past /\ status[w] # "absent"
    /\ past' = past \cup {w}
    /\ UNCHANGED <<feedVars, client, notified, pushed, failed, approverVars>>

\* Seeded fault: grant_expiring deduplicates nothing.
FaultyRemembered(i) == IF i \in Warnings THEN {} ELSE notified
\* A warning first evicts every expired key.
Remembered(i) == IF i \in Warnings THEN notified \ past ELSE notified

BridgeSkips ==
    /\ client = "pushbridge"
    /\ Take("added")
    /\ Head(frames).item \in Remembered(Head(frames).item)
    /\ notified' = Remembered(Head(frames).item)
    /\ FrameUnchanged
    /\ UNCHANGED <<past, pushed, failed, approverVars>>

BridgePushes(accepted) ==
    LET i == Head(frames).item
    IN  /\ client = "pushbridge"
        /\ Take("added")
        /\ i \notin Remembered(i)
        /\ IF accepted
           THEN /\ notified' = Remembered(i) \cup {i}
                /\ pushed' = [pushed EXCEPT ![i] = @ + 1]
                /\ failed' = failed \ {i}
           ELSE /\ notified' = Remembered(i)
                /\ failed' = failed \cup {i}
                /\ UNCHANGED pushed
        /\ FrameUnchanged
        /\ UNCHANGED <<past, approverVars>>

BridgeForgets ==
    /\ client = "pushbridge"
    /\ Take("resolved")
    /\ notified' = notified \ {Head(frames).item}
    /\ failed' = failed \ {Head(frames).item}
    /\ FrameUnchanged
    /\ UNCHANGED <<past, pushed, approverVars>>

-------------------------------------------------------------------------------
(* approver: model.apply and the keys                                      *)

Queue == ToSet(order)

Upsert ==
    LET i == Head(frames).item
    IN  /\ client = "approver"
        /\ Take("added")
        /\ order' = IF i \in Queue \/ i \in Warnings THEN order ELSE Append(order, i)
        /\ FrameUnchanged
        /\ UNCHANGED <<bridgeVars, selected, prompt>>

\* Seeded fault: the selection is only kept inside the queue.
FaultyShifted(at, n) == IF selected > n /\ selected > 1 THEN n ELSE selected
\* Seeded fault: the selection may be left past the end.
UnclampedShifted(at, n) == IF at < selected THEN selected - 1 ELSE selected
\* The selected index after the item at index "at" goes and n items remain.
Shifted(at, n) ==
    LET s == IF at < selected THEN selected - 1 ELSE selected
    IN  IF s > n /\ s > 1 THEN n ELSE s

\* Seeded fault: the prompt stays open for an item that is gone.
FaultyPromptAfter(i) == prompt
PromptAfter(i) == IF prompt = i THEN None ELSE prompt

RemoveItem ==
    LET i  == Head(frames).item
        at == CHOOSE n \in DOMAIN order : order[n] = i
    IN  /\ client = "approver"
        /\ Take("resolved")
        /\ IF i \in Queue
           THEN /\ order' = RemoveAt(order, at)
                /\ selected' = Shifted(at, Len(order) - 1)
                /\ prompt' = PromptAfter(i)
           ELSE UNCHANGED approverVars
        /\ FrameUnchanged
        /\ UNCHANGED bridgeVars

\* Up and down, when no prompt is open.
Move(n) ==
    /\ client = "approver" /\ prompt = None
    /\ n \in DOMAIN order /\ n \in {selected - 1, selected + 1}
    /\ selected' = n
    /\ UNCHANGED <<feedVars, client, bridgeVars, order, prompt>>

\* 'a' on the selected item; 'r' acts at once and leaves the model as it is.
OpenPrompt ==
    /\ client = "approver" /\ prompt = None
    /\ selected \in DOMAIN order
    /\ prompt' = order[selected]
    /\ UNCHANGED <<feedVars, client, bridgeVars, order, selected>>

\* Enter submits the code, any other key cancels; the item stays in the queue.
ClosePrompt ==
    /\ client = "approver" /\ prompt # None
    /\ prompt' = None
    /\ UNCHANGED <<feedVars, client, bridgeVars, order, selected>>

-------------------------------------------------------------------------------
HandleFrame ==
    \/ BridgeSkips
    \/ \E accepted \in BOOLEAN : BridgePushes(accepted)
    \/ BridgeForgets
    \/ Upsert
    \/ RemoveItem

Next ==
    \/ FeedNext /\ UNCHANGED <<client, bridgeVars, approverVars>>
    \/ HandleFrame
    \/ \E w \in Warnings : Expire(w)
    \/ \E n \in 1..Cardinality(Items) : Move(n)
    \/ OpenPrompt
    \/ ClosePrompt

\* The poll loop and the client's loop keep running; a fetch that is retried at
\* every poll succeeds in the end.  Nobody has to decide an item.
Fairness ==
    /\ WF_vars(ServerStep /\ UNCHANGED <<client, bridgeVars, approverVars>>)
    /\ WF_vars(HandleFrame)
    /\ \A i \in Items :
         SF_vars(SendResolved(i) /\ UNCHANGED <<client, bridgeVars, approverVars>>)

Spec == Init /\ [][Next]_vars /\ Fairness

-------------------------------------------------------------------------------
(* Properties                                                              *)

TypeOK ==
    /\ FeedTypeOK
    /\ client \in Clients
    /\ past \subseteq Warnings
    /\ notified \subseteq Items
    /\ pushed \in [Items -> Nat]
    /\ failed \subseteq Items \ notified
    /\ order \in Seq(Diffs \cup Requests)
    /\ IsInjective(order)
    /\ selected \in 1..(IF order = <<>> THEN 1 ELSE Len(order))
    /\ prompt \in Diffs \cup Requests \cup {None}

\* The items the client keeps: shown in the queue, or pushed or tried to.
Held == IF client = "approver" THEN Queue ELSE notified \cup failed

\* Whether the client holds i once it has handled every frame on its way: the last
\* one about i announces it, or it holds i and none is about i.
WillHold(i) ==
    LET about == {n \in DOMAIN frames : frames[n].item = i}
    IN  \/ about = {} /\ i \in Held
        \/ \E n \in about :
              frames[n].type = "added" /\ \A m \in about : m <= n

\* What the server will not announce again, the client has or is about to get:
\* no reconnect, failed fetch or overflowing list leaves an item that one side
\* thinks told and the other never heard of (events.go: "a fresh full snapshot,
\* not a gap in history").  Expiry warnings are exempt where the client drops
\* them: on the approver's status line, and once their expiry has passed.
NothingFallsBetween ==
    stream = "up" =>
        \A i \in TakenAsKnown :
            \/ i \in Warnings /\ (client = "approver" \/ i \in past)
            \/ WillHold(i)

\* pushbridge interrupts the operator once for an item, however often it
\* reconnects (handleEvent: a flapping connection must not notify again).  The
\* exceptions are an item the server called resolved while it was pushed out of
\* the bounded list, and a warning whose expiry has passed.
PushedOnce ==
    \A i \in Items : pushed[i] > 1 => i \in displaced \cup past

\* A code is only ever typed for an item that is still in the queue (remove: the
\* prompt closes when its item is settled elsewhere).
PromptIsForAQueuedItem == prompt # None => prompt \in Queue

\* While the selected item stays in the queue, nothing that arrives moves the
\* selection to another item (remove: the next 'a' or 'r' must not act on the
\* wrong one); only a key does.
SelectionFollowsItem ==
    [][ \/ selected \notin DOMAIN order
        \/ order[selected] \notin ToSet(order')
        \/ selected' \in DOMAIN order' /\ order'[selected'] = order[selected]
        \/ \E n \in 1..Cardinality(Items) : Move(n) ]_vars

\* An item that stays pending, and stays among the oldest PollLimit of its kind,
\* reaches the client in the end, across reconnects.
Listable(i) == \E k \in 1..WarningStage : i \in KindAt[k] /\ i \in Listing(k)
ListedItemsArrive ==
    \A i \in Diffs \cup Requests : <>[]Listable(i) => <>(i \in Held)

\* On a connection that lasts, the client is told of every resolution, even if
\* the server fails to fetch the item at first.
ResolutionsArrive ==
    \A i \in Diffs \cup Requests :
        (status[i] = "resolved" /\ stream = "up" /\ i \in TakenAsKnown)
            ~> (stream = "down" \/ i \notin Held)

\* approver, model.apply: "the queue always reflects what's actually still
\* pending".  It does not: an item that is resolved while the connection is down
\* is never mentioned on the next one.
ResolvedItemsLeave ==
    \A i \in Diffs \cup Requests : status[i] = "resolved" ~> i \notin Held
===============================================================================
