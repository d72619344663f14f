---------------------------- MODULE BrowserRelay ----------------------------
(***************************************************************************)
(* The helper relays what one owner generation published to browser tabs.  *)
(*                                                                         *)
(* Helper side: OwnerRelayStore (the last checkpoint and a bounded replay  *)
(* of the events after it), BrowserGatewayRelayRoutes (connections and     *)
(* their subscriptions) and RelaySseClientQueue (per-connection back       *)
(* pressure, compacted to a checkpoint when it overflows).  Browser side:  *)
(* RelayConnectionManager and RelayOwnerStore.  The owner is what          *)
(* OwnerPublication shows of it: its records reach the store in order, and *)
(* a checkpoint it was made to publish gets there.  Whether it was made to *)
(* is part of this module: the owner hears the helper over the command     *)
(* stream, which breaks.                                                   *)
(*                                                                         *)
(* A record is named by its owner sequence number.  The helper numbers the *)
(* records it relays itself; with one owner the two numbers grow together, *)
(* so one stands for both.  Tabs keep the same owner selected.             *)
(***************************************************************************)
EXTENDS Integers, Sequences, Selection

CONSTANTS
    Tabs,          \* browser tabs
    ReplayLimit,   \* retainedReplayEventsPerOwnerGeneration
    QueueLimit,    \* frames that fit in browserQueuedSseBytes
    WireLimit,     \* frames the socket takes before write returns false
    MaxSequence,   \* bound: the owner acts on its own below this sequence
    MaxAnswer,     \* bound: the owner answers requests below this sequence
    MaxFaults,     \* bound: broken connections and streams, lapses, refusals, evictions
    MaxLingering   \* bound: broken connections the helper has not noticed

ASSUME LimitsAssumption ==
    /\ ReplayLimit \in Nat \ {0}
    /\ QueueLimit \in Nat \ {0}
    /\ WireLimit \in Nat \ {0}

VARIABLES
    sequence,   \* the last record the owner published to the helper
    command,    \* what the helper recorded for the owner, and what the owner heard
    store,      \* the helper's relay state of the owner generation
    link,       \* the helper's end of each tab's connection
    tab,        \* the browser's end
    lingering,  \* subscribed connections whose browser is gone
    faults      \* faults so far

vars == <<sequence, command, store, link, tab, lingering, faults>>

-----------------------------------------------------------------------------
(* The store.  checkpoint 0 stands for null.                               *)

EmptyStore == [checkpoint |-> 0, replay |-> <<>>, floor |-> 0]

\* pruneGeneration: the records past their age are a prefix of the replay,
\* and the oldest goes while there are too many.
Dropped(s, count) ==
    IF count = 0 THEN s
    ELSE [s EXCEPT !.replay = SubSeq(@, count + 1, Len(@)), !.floor = s.replay[count]]

Pruned(s, expired) ==
    LET over == Len(s.replay) - ReplayLimit
    IN  Dropped(s, IF over > expired THEN over ELSE expired)

\* ingestPublication of one record: a checkpoint supersedes the replay.
Ingested(s, record) ==
    IF record.kind = "checkpoint"
    THEN [checkpoint |-> record.number, replay |-> <<>>, floor |-> record.number]
    ELSE [s EXCEPT !.replay = Append(@, record.number)]

Events(numbers) == [i \in 1 .. Len(numbers) |-> [kind |-> "event", number |-> numbers[i]]]

\* replay, and the frames selectOwner makes of it.  Cursor 0 is null; the
\* retained records go out as they are, whether they continue the
\* checkpoint or not.
ReplayFrames(s, cursor) ==
    LET reset == <<[kind |-> "reset", number |-> 0]>>
    IN  IF s.checkpoint = 0 THEN reset
        ELSE IF cursor < s.floor
        THEN reset \o <<[kind |-> "checkpoint", number |-> s.checkpoint]>> \o Events(s.replay)
        ELSE Events(Selected(s.replay, {i \in 1 .. Len(s.replay) : s.replay[i] > cursor}))

-----------------------------------------------------------------------------
(* One connection at the helper: its queue, the frames written to the      *)
(* socket, and the highest sequence a compaction waits for (0: none).      *)

NoLink == [open |-> FALSE, subscribed |-> FALSE, blocked |-> FALSE,
           queued |-> <<>>, awaiting |-> 0, wire |-> <<>>]

Larger(a, b) == IF a > b THEN a ELSE b

\* flush: write until the socket pushes back.
Flush(l) ==
    LET room == WireLimit - Len(l.wire)
        n == IF Len(l.queued) < room THEN Len(l.queued) ELSE room
    IN  IF l.blocked \/ n = 0 THEN l
        ELSE [l EXCEPT !.wire = @ \o SubSeq(l.queued, 1, n),
                       !.queued = SubSeq(@, n + 1, Len(@)),
                       !.blocked = (n = room)]

\* send: into the socket, the queue, or the compaction that is pending; an
\* overflow begins one.  Frames are queued in order, so the last one
\* carries the maximum.
SendDroppingNewest(l, frame) ==
    IF l.open /\ (~l.blocked \/ Len(l.queued) < QueueLimit)
    THEN Flush([l EXCEPT !.queued = Append(@, frame)])
    ELSE l

Send(l, frame) ==
    IF ~l.open THEN l
    ELSE IF l.awaiting # 0 THEN [l EXCEPT !.awaiting = Larger(@, frame.number)]
    ELSE IF ~l.blocked \/ Len(l.queued) < QueueLimit
    THEN Flush([l EXCEPT !.queued = Append(@, frame)])
    ELSE [l EXCEPT !.queued = <<>>, !.awaiting = frame.number]

SendAll(l, frames) ==
    LET sent[n \in 0 .. Len(frames)] ==
            IF n = 0 THEN l ELSE Send(sent[n - 1], frames[n])
    IN  sent[Len(frames)]

\* installCompaction: only a checkpoint that covers the dropped frames.
Install(l, frame) ==
    IF frame.number < l.awaiting THEN l
    ELSE Flush([l EXCEPT !.awaiting = 0, !.queued = <<frame>>])

BroadcastWithoutInstall(l, frame) == IF l.subscribed THEN Send(l, frame) ELSE l

\* broadcastPublication, for one connection.
Broadcast(l, frame) ==
    IF ~l.subscribed THEN l
    ELSE IF frame.kind = "checkpoint" /\ l.awaiting # 0 THEN Install(l, frame)
    ELSE Send(l, frame)

\* requestCompaction: a connection past its checkpoint request rate is
\* closed, the others wait for the owner's checkpoint.
Began(before, after) == before.awaiting = 0 /\ after.awaiting # 0
Limited(before, after, refused) == IF refused /\ Began(before, after) THEN NoLink ELSE after

-----------------------------------------------------------------------------
(* One tab.  copy is the sequence of the owner state it shows, 0 if none;  *)
(* exact is history: no event was ever applied across a gap.               *)

NoTab == [subscribed |-> FALSE, request |-> "none", buffered |-> <<>>,
          resync |-> FALSE, copy |-> 0, exact |-> TRUE]

\* The record cannot be applied: subscribe again, unless a subscription
\* made for that reason is still being completed.
Resync(b) ==
    IF b.resync THEN b
    ELSE [b EXCEPT !.resync = TRUE, !.subscribed = FALSE,
                   !.buffered = <<>>, !.request = "posted"]

\* applyOwnerFrame, with applyCheckpoint and applyEvent of the store.
Shows(b, frame) ==
    [b EXCEPT !.copy = frame.number,
              !.exact = \/ frame.kind = "checkpoint"
                        \/ @ /\ frame.number = b.copy + 1]

ApplyWithoutGapCheck(b, frame) == IF frame.number <= b.copy THEN b ELSE Shows(b, frame)

Apply(b, frame) ==
    IF frame.kind = "event" /\ (b.copy = 0 \/ frame.number > b.copy + 1) THEN Resync(b)
    ELSE IF frame.number <= b.copy THEN b
    ELSE Shows(b, frame)

ApplyBuffered(b, frames) ==
    LET applied[n \in 0 .. Len(frames)] ==
            IF n = 0 THEN b
            ELSE IF applied[n - 1].subscribed THEN Apply(applied[n - 1], frames[n])
            ELSE applied[n - 1]
    IN  applied[Len(frames)]

\* handleHello, handleReset and handleOwnerFrame.
Handled(b, frame) ==
    IF frame.kind = "hello" THEN [b EXCEPT !.request = "posted"]
    ELSE IF frame.kind = "reset"
    THEN IF b.subscribed THEN [b EXCEPT !.copy = 0] ELSE b
    ELSE IF b.subscribed THEN Apply(b, frame)
    ELSE [b EXCEPT !.buffered = Append(@, frame)]

-----------------------------------------------------------------------------
(* The owner's ear.  The helper records counted (some subscription is      *)
(* counted) and asked (an outstanding checkpoint.requested).  While the    *)
(* owner is hearing, the command stream carries what is written; a control *)
(* lost with the stream counts as written after the break.  The owner      *)
(* keeps demanded, and owes a checkpoint that it published or is about to. *)
(* unheard is history: an occasion for a checkpoint passed the owner by,   *)
(* and no checkpoint has reached the tabs since.                           *)

NoCommand == [hearing |-> FALSE, demanded |-> FALSE, counted |-> FALSE,
              asked |-> FALSE, owes |-> FALSE, unheard |-> FALSE]

\* demand.changed, and setDemanded, which publishes a checkpoint only if the
\* owner was not demanded before.
Counts(c, some) ==
    [c EXCEPT !.counted = some,
              !.demanded = IF c.hearing THEN some ELSE @,
              !.owes = IF c.hearing /\ some /\ ~c.demanded THEN TRUE ELSE @]

\* checkpoint.requested.
Asks(c) == [c EXCEPT !.asked = TRUE, !.owes = IF c.hearing THEN TRUE ELSE @]

\* A checkpoint is on its way to the owner's next broadcast, or will be as
\* soon as the owner hears again.
Owed == command.owes \/ command.asked \/ (command.counted /\ ~command.demanded)

\* Somebody but t is subscribed.
Others(t) == lingering > 0 \/ \E u \in Tabs \ {t} : link[u].subscribed

\* releaseSubscription of t's connection, then acquireSubscription.
Released(t) == IF link[t].subscribed THEN Counts(command, Others(t)) ELSE command

AcquiredFirst(t) == Counts(command, TRUE)

Reacquired(t) == Counts(Released(t), TRUE)

-----------------------------------------------------------------------------
Init ==
    /\ sequence = 0 /\ command = NoCommand /\ lingering = 0 /\ faults = 0
    /\ store = EmptyStore
    /\ link = [t \in Tabs |-> NoLink]
    /\ tab = [t \in Tabs |-> NoTab]

Fault == faults < MaxFaults /\ faults' = faults + 1

\* A record reaches the store and is broadcast, all in one turn.
Publish(kind, refused) ==
    LET record == [kind |-> kind, number |-> sequence + 1]
        after == [t \in Tabs |-> Broadcast(link[t], record)]
    IN  /\ refused \subseteq {t \in Tabs : Began(link[t], after[t])}
        /\ IF refused = {} THEN UNCHANGED faults ELSE Fault
        /\ sequence' = sequence + 1
        /\ \E expired \in 0 .. Len(Ingested(store, record).replay) :
               store' = Pruned(Ingested(store, record), expired)
        /\ link' = [t \in Tabs |-> Limited(link[t], after[t], t \in refused)]
        /\ UNCHANGED <<tab, lingering>>

Compacting == \E t \in Tabs : Began(link[t], link'[t])

\* What the relay has for the owner c during a broadcast: closed connections
\* are no longer counted, compactions ask for a checkpoint.
Relayed(c, refused) ==
    LET released ==
            IF refused = {} THEN c
            ELSE Counts(c, lingering > 0 \/ \E t \in Tabs : link'[t].subscribed)
    IN  IF Compacting THEN Asks(released) ELSE released

\* ingest of a batch with a checkpoint ends by erasing the recorded request,
\* also one that this broadcast made.
Erased(c) == [c EXCEPT !.asked = FALSE, !.unheard = Compacting /\ ~c.hearing]

\* The same for the event of a batch whose checkpoint is broadcast next: what
\* this event's compactions asked for is gone by then.
ErasedLater(c) ==
    [c EXCEPT !.asked = command.asked, !.unheard = IF c.hearing THEN @ ELSE TRUE]

\* The owner changes: one event, perhaps in one batch with the checkpoint, or
\* a checkpoint if the session switched.
OwnerEvent ==
    /\ sequence > 0 /\ sequence < MaxSequence
    /\ \E refused \in SUBSET Tabs :
           /\ Publish("event", refused)
           /\ LET c == Relayed(command, refused) IN
              \/ command' = c
              \/ store.checkpoint # 0 /\ Compacting /\ command' = ErasedLater(c)

OwnerCheckpoint ==
    /\ sequence > 0 /\ sequence < MaxSequence
    /\ \E refused \in SUBSET Tabs :
           /\ Publish("checkpoint", refused)
           /\ command' = Erased(Relayed(command, refused))

\* The checkpoint that the owner owes.
OwnerAnswers ==
    /\ command.owes /\ sequence < MaxAnswer
    /\ \E refused \in SUBSET Tabs :
           /\ Publish("checkpoint", refused)
           /\ command' = Erased(Relayed([command EXCEPT !.owes = FALSE], refused))

\* The owner's command stream ends, perhaps unnoticed by the helper.
StreamBreaks ==
    /\ command.hearing /\ Fault
    /\ command' = [command EXCEPT !.hearing = FALSE]
    /\ UNCHANGED <<sequence, store, link, tab, lingering>>

\* The stream is opened (again): hello repeats the count on record, and the
\* request on record follows.
StreamOpens ==
    /\ ~command.hearing
    /\ LET greeted == Counts([command EXCEPT !.hearing = TRUE], command.counted)
       IN  command' = IF command.asked THEN Asks(greeted) ELSE greeted
    /\ UNCHANGED <<sequence, store, link, tab, lingering, faults>>

\* pruneAggregateReplay, under the load of other owners.
Evict ==
    /\ store.checkpoint # 0 /\ Fault
    /\ store' = EmptyStore
    /\ UNCHANGED <<sequence, command, link, tab, lingering>>

-----------------------------------------------------------------------------
(* Connections and subscriptions.                                          *)

\* selectOwner on a connection that holds the frames given: whatever its
\* old subscription still has queued is dropped.  It runs only for a connected
\* owner, so its controls are recorded.  An owner that is still demanded when
\* the first subscription is acquired did not hear that the last one had
\* gone: it takes the acquisition for no change.
SelectOwner(t, l, cursor) ==
    \E expired \in 0 .. Len(store.replay), refused \in BOOLEAN :
        LET kept == IF store.checkpoint = 0 THEN store ELSE Pruned(store, expired)
            fresh == [l EXCEPT !.subscribed = TRUE, !.queued = <<>>, !.awaiting = 0]
            after == SendAll(fresh, ReplayFrames(kept, cursor))
            acquired == [Reacquired(t) EXCEPT
                            !.unheard = IF ~Others(t) /\ Released(t).demanded
                                        THEN TRUE ELSE @]
        IN  /\ refused => Began(fresh, after) \/ kept.checkpoint = 0
            /\ IF refused THEN Fault ELSE UNCHANGED faults
            /\ store' = kept
            /\ link' = [link EXCEPT ![t] = IF refused THEN NoLink ELSE after]
            /\ command' =
                  IF refused THEN Counts(Reacquired(t), Others(t))
                  ELSE IF kept.checkpoint = 0 \/ Began(fresh, link'[t]) THEN Asks(acquired)
                  ELSE acquired

\* reconnect and connect, then handleEvents: a tab with a copy presents its
\* cursor and is subscribed at once.
Connect(t) ==
    /\ ~link[t].open
    /\ tab' = [tab EXCEPT ![t] = 
                [NoTab EXCEPT !.copy = tab[t].copy, !.exact = tab[t].exact]]
    /\ LET opened == Flush([NoLink EXCEPT !.open = TRUE,
                                !.queued = <<[kind |-> "hello", number |-> 0]>>])
       IN  IF tab[t].copy = 0
           THEN /\ link' = [link EXCEPT ![t] = opened]
                /\ UNCHANGED <<command, store, faults>>
           ELSE SelectOwner(t, opened, tab[t].copy)
    /\ UNCHANGED <<sequence, lingering>>

\* handleSubscription.  Frames of the old subscription still on their way
\* are never applied (isCurrentSubscription), so they are left out.
HandleSubscription(t) ==
    /\ tab[t].request = "posted" /\ link[t].open
    /\ SelectOwner(t, [link[t] EXCEPT !.wire = <<>>], 0)
    /\ tab' = [tab EXCEPT ![t].request = "granted", ![t].buffered = <<>>]
    /\ UNCHANGED <<sequence, lingering>>

\* subscribeCurrentOwner goes on: the answer names the subscription.
SubscriptionGranted(t) ==
    /\ tab[t].request = "granted"
    /\ tab' = [tab EXCEPT ![t] =
           ApplyBuffered(
               [tab[t] EXCEPT !.subscribed = TRUE, !.request = "none", !.buffered = <<>>],
               tab[t].buffered)]
    /\ UNCHANGED <<sequence, command, store, link, lingering, faults>>

\* reconcilePendingOperations returned.
ResyncCompleted(t) ==
    /\ tab[t].resync /\ tab[t].subscribed
    /\ tab' = [tab EXCEPT ![t].resync = FALSE]
    /\ UNCHANGED <<sequence, command, store, link, lingering, faults>>

Receive(t) ==
    /\ link[t].wire # <<>>
    /\ link' = [link EXCEPT ![t].wire = Tail(@)]
    /\ tab' = [tab EXCEPT ![t] = Handled(@, Head(link[t].wire))]
    /\ UNCHANGED <<sequence, command, store, lingering, faults>>

DrainWithoutFlush(t) ==
    /\ link[t].blocked /\ Len(link[t].wire) < WireLimit
    /\ link' = [link EXCEPT ![t].blocked = FALSE]
    /\ UNCHANGED <<sequence, command, store, tab, lingering, faults>>

\* handleDrain.
Drain(t) ==
    /\ link[t].blocked /\ Len(link[t].wire) < WireLimit
    /\ link' = [link EXCEPT ![t] = Flush([@ EXCEPT !.blocked = FALSE])]
    /\ UNCHANGED <<sequence, command, store, tab, lingering, faults>>

\* A transport error, a stall, a timeout or a refused subscription ends the
\* connection; the helper may not notice for a while.  The owner's lease may
\* have lapsed when it does: then the release goes unrecorded.
Disconnect(t) ==
    /\ link[t].open /\ Fault
    /\ link' = [link EXCEPT ![t] = NoLink]
    /\ \/ UNCHANGED lingering /\ command' \in {command, Released(t)}
       \/ /\ link[t].subscribed /\ lingering < MaxLingering
          /\ lingering' = lingering + 1
          /\ UNCHANGED command
    /\ UNCHANGED <<sequence, store, tab>>

\* removeConnection of a connection whose browser is gone.
LingeringCloses ==
    /\ lingering > 0
    /\ lingering' = lingering - 1
    /\ \/ /\ command' = Counts(command, lingering' > 0 \/ \E t \in Tabs : link[t].subscribed)
          /\ UNCHANGED faults
       \/ Fault /\ UNCHANGED command
    /\ UNCHANGED <<sequence, store, link, tab>>

-----------------------------------------------------------------------------
Next ==
    \/ OwnerEvent \/ OwnerCheckpoint \/ OwnerAnswers \/ Evict
    \/ StreamBreaks \/ StreamOpens
    \/ \E t \in Tabs :
           \/ Connect(t) \/ HandleSubscription(t) \/ SubscriptionGranted(t)
           \/ ResyncCompleted(t) \/ Receive(t) \/ Drain(t) \/ Disconnect(t)
    \/ LingeringCloses

Spec == Init /\ [][Next]_vars

\* Timers, event loops and the owner keep running; nothing is fair about
\* the owner's own changes, evictions or broken connections.
TabFairness(t) ==
    /\ WF_vars(Connect(t)) /\ WF_vars(HandleSubscription(t))
    /\ WF_vars(SubscriptionGranted(t)) /\ WF_vars(ResyncCompleted(t))
    /\ WF_vars(Receive(t)) /\ WF_vars(Drain(t))

FairSpec ==
    /\ Spec /\ WF_vars(OwnerAnswers) /\ WF_vars(StreamOpens)
    /\ \A t \in Tabs : TabFairness(t)

-----------------------------------------------------------------------------
(* Properties.                                                             *)

\* The state each tab shows; after an event across a gap it is none the
\* owner was in.
Shown == [t \in DOMAIN tab |-> IF tab[t].exact THEN tab[t].copy ELSE -1]

Published == INSTANCE PublishedViews WITH published <- sequence, shown <- Shown

\* Tabs only ever show states the owner was in, and one after the other:
\* what pruning, compaction and broken connections leave out is never
\* patched over, and no late frame takes a tab back to an older state.
\* (applyEvent, applyCheckpoint, applyOwnerFrame)
ShowsPublishedStates == Published!Spec

\* Nothing is on its way to the tab, and it waits for nothing.
Quiet(t) ==
    /\ tab[t].subscribed /\ link[t].open /\ ~Owed
    /\ link[t].wire = <<>> /\ link[t].queued = <<>> /\ link[t].awaiting = 0

\* A tab that is connected, subscribed and waits for nothing shows the
\* state the owner published last, whatever its connection, the replay or
\* back pressure did before.
QuietMeansCurrent == \A t \in Tabs : Quiet(t) => tab[t].copy = sequence

\* A single tab, none of whose connections outlives it, needs no more than an
\* owner that heard it come: what was pruned is asked for again.  The exception
\* is an owner that did not hear the tab's last subscription go, because its
\* command stream was broken or its lease had lapsed: it stays demanded, takes
\* the new subscription for no change, and the tab keeps the pruned replay it
\* was given until the owner's next checkpoint.
\* (selectOwner, setDemanded, applyOwnerFrame)
OneTabCurrent ==
    MaxLingering = 0 /\ (\A t, u \in DOMAIN tab : t = u) /\ ~command.unheard
        => QuietMeansCurrent

\* The retained replay continues the checkpoint up to the last record.
ReplayWhole ==
    /\ store.checkpoint # 0
    /\ store.replay = [i \in 1 .. sequence - store.checkpoint |-> store.checkpoint + i]

\* The same for several tabs on one owner, as long as the retained replay
\* still reaches back to the checkpoint.
WholeReplayMeansCurrent == ReplayWhole => QuietMeansCurrent

\* Frames dropped by a compaction are covered: the owner owes a checkpoint to
\* every connection that waits for one, or will as soon as it hears again.
\* The exception is a compaction begun by the broadcast of a batch with a
\* checkpoint while the command stream is broken: ingest erases its request.
CompactionIsOwed == \A t \in Tabs : link[t].awaiting # 0 => Owed \/ command.unheard

\* Once the owner stops changing and the faults stop, every tab ends up
\* showing the last published state and stays there, but for what went
\* unheard before.
TabsConverge == <>[](command.unheard \/ \A t \in Tabs : tab[t].copy = sequence)
=============================================================================
