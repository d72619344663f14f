-------------------------- MODULE OwnerPublication --------------------------
(***************************************************************************)
(* One owner generation (a VS Code window) publishes its state to the      *)
(* browser-gateway helper.                                                 *)
(*                                                                         *)
(* The owner side is HttpBrowserGatewayOwnerTransport, the part of         *)
(* BrowserGatewayOwnerProjectionAdapter that numbers publications, and the *)
(* control handler of BrowserGatewayOwnerRuntime.  The helper side is the  *)
(* ingest, control and command-stream part of BrowserGatewayDataPlaneRoutes.*)
(* Between them are two channels: POSTed publication batches, which the    *)
(* client times out and retries (so a request may be lost, may arrive      *)
(* after its retry, and its answer may be lost), and the owner command     *)
(* stream, an ordered SSE stream that breaks and is reopened.              *)
(*                                                                         *)
(* A state of the owner is named by its owner sequence number: checkpoint  *)
(* n carries state n whole, event n turns state n-1 into state n.  The     *)
(* owner record has one history field, published: the last number that     *)
(* entered the publication queue.                                          *)
(***************************************************************************)
EXTENDS Integers, Sequences

CONSTANTS
    RetryAttempts,  \* options.retryAttempts: how often one batch is posted
    QueueLimit,     \* events that fit in ownerPublicationQueueBytes
    MaxSequence,    \* bound: the environment acts only below this sequence
    MaxFaults,      \* bound: losses, lease lapses and stream breaks of a behaviour
    MaxControls,    \* bound: environment controls queued on the stream
    MaxSubscribers  \* bound: browser tabs subscribed to the owner

ASSUME RetryAttemptsAssumption == RetryAttempts \in Nat \ {0}
ASSUME QueueLimitAssumption == QueueLimit \in Nat \ {0}
ASSUME MaxSubscribersAssumption == MaxSubscribers \in Nat

VARIABLES
    owner,   \* adapter and transport state of the owner process
    helper,  \* state the helper keeps for the owner generation: tabs is the
             \* relay's count of subscriptions, subscribers the count that
             \* publishControl recorded
    net,     \* publication requests on their way to the helper
    reply,   \* the answer to the request the owner waits for
    stream,  \* the owner command stream
    faults   \* faults so far

vars == <<owner, helper, net, reply, stream, faults>>

-----------------------------------------------------------------------------
(* Batches.  checkpoint 0 stands for null: a published checkpoint advances *)
(* the sequence first, so its number is at least 1.                        *)

NoBatch == [checkpoint |-> 0, events |-> <<>>]
NoFlight == [checkpoint |-> 0, events |-> <<>>, attempt |-> 0]
NoReply == [status |-> 0, cursor |-> 0]

IsEmpty(batch) == batch.checkpoint = 0 /\ batch.events = <<>>

FirstSequence(batch) ==
    IF batch.events = <<>> THEN batch.checkpoint ELSE Head(batch.events)

LastSequence(batch) ==
    IF batch.events = <<>> THEN batch.checkpoint
                           ELSE batch.events[Len(batch.events)]

\* What parseBrowserGatewayOwnerPublicationBatch demands of a batch.
WellFormed(batch) ==
    /\ \A i \in 1 .. Len(batch.events) :
           batch.events[i] = batch.events[1] + i - 1
    /\ batch.checkpoint # 0 /\ batch.events # <<>> =>
           batch.events[1] = batch.checkpoint + 1

-----------------------------------------------------------------------------
(* The owner's transport, as functions of the owner record.                *)

\* compactQueuedToCheckpoint: the queue becomes one recovery checkpoint,
\* which takes a fresh sequence number.
Compact(o) ==
    [o EXCEPT !.sequence = @ + 1, !.published = o.sequence + 1,
              !.queued = [checkpoint |-> o.sequence + 1, events |-> <<>>]]

FlushIgnoringFlight(o) ==
    IF IsEmpty(o.queued)
    THEN o
    ELSE [o EXCEPT !.inFlight = [checkpoint |-> o.queued.checkpoint,
                                 events |-> o.queued.events,
                                 attempt |-> 0],
                   !.queued = NoBatch]

\* flushQueued: single flight; the whole queue becomes the batch in flight.
Flush(o) ==
    IF o.inFlight # NoFlight \/ IsEmpty(o.queued)
    THEN o
    ELSE [o EXCEPT !.inFlight = [checkpoint |-> o.queued.checkpoint,
                                 events |-> o.queued.events,
                                 attempt |-> 0],
                   !.queued = NoBatch]

\* enqueue of a checkpoint that was created with advanceSequence: it
\* replaces the queue.
EnqueueCheckpoint(o) ==
    [Compact(o) EXCEPT !.publicationError = FALSE, !.flushTimer = TRUE]

\* enqueue of an event: append it, compact a queue that outgrew its limit,
\* then flush at once (interactions, operations, final messages) or arm the
\* 50 ms batch window.
EnqueueEvent(o, immediate) ==
    LET appended == [o EXCEPT !.sequence = @ + 1, !.published = o.sequence + 1,
                              !.publicationError = FALSE,
                              !.queued.events = Append(@, o.sequence + 1)]
        bounded == IF Len(appended.queued.events) > QueueLimit
                   THEN Compact(appended) ELSE appended
    IN  IF immediate THEN Flush(bounded) ELSE [bounded EXCEPT !.flushTimer = TRUE]

\* The adapter numbered a publication, but enqueue of a draining transport
\* threw before it touched the queue: the number is spent.
Rejected(o) == [o EXCEPT !.sequence = @ + 1]

FailDroppingBatch(o) == [o EXCEPT !.inFlight = NoFlight, !.publicationError = TRUE]

\* The publication failed for good: remember the error and replace the
\* queue by a recovery checkpoint, without flushing it.  Once the runtime is
\* closing the projection is gone and compactQueuedToCheckpoint throws.
Fail(o) ==
    LET failed == [o EXCEPT !.inFlight = NoFlight, !.publicationError = TRUE]
    IN  IF o.closing THEN failed ELSE Compact(failed)

\* The batch was acknowledged: whatever was queued meanwhile goes out next.
Succeed(o, cursor) ==
    Flush([o EXCEPT !.inFlight = NoFlight, !.acknowledgedCursor = cursor])

\* setDemanded.
SetDemanded(o, demanded) ==
    IF o.demanded = demanded THEN o
    ELSE IF demanded THEN EnqueueCheckpoint([o EXCEPT !.demanded = TRUE])
         ELSE [o EXCEPT !.demanded = FALSE]

ResumeWithoutFlush(o) == [o EXCEPT !.publicationError = FALSE]

\* A reconnect retries a parked publication.
Resume(o) ==
    IF o.publicationError THEN Flush([o EXCEPT !.publicationError = FALSE]) ELSE o

HelloKeepingDemand(o, subscribers) == Resume(o)

\* hello: resume, then apply the demand it reports.
Hello(o, subscribers) == SetDemanded(Resume(o), subscribers > 0)

CloseWithoutFlush(o) ==
    [o EXCEPT !.closing = TRUE, !.acceptingPublications = FALSE,
              !.flushTimer = FALSE, !.demanded = FALSE]

\* close: the projection is disposed, the batch window is cancelled and the
\* rest of the queue is flushed.
Close(o) ==
    Flush([o EXCEPT !.closing = TRUE, !.acceptingPublications = FALSE,
                    !.flushTimer = FALSE, !.demanded = FALSE])

-----------------------------------------------------------------------------
(* The helper.                                                             *)

VerdictReinstalling(h, batch) ==
    IF ~h.known /\ batch.checkpoint = 0 THEN "checkpoint_required"
    ELSE IF batch.checkpoint = 0 /\ FirstSequence(batch) > h.cursor + 1
         THEN "sequence_gap"
    ELSE "install"

\* The checks of ingest, in their order.
Verdict(h, batch) ==
    IF h.known /\ LastSequence(batch) <= h.cursor THEN "duplicate"
    ELSE IF h.known /\ FirstSequence(batch) <= h.cursor THEN "sequence_overlap"
    ELSE IF ~h.known /\ batch.checkpoint = 0 THEN "checkpoint_required"
    ELSE IF batch.checkpoint = 0 /\ FirstSequence(batch) # h.cursor + 1
         THEN "sequence_gap"
    ELSE IF batch.checkpoint # 0 /\ batch.checkpoint < h.cursor
         THEN "stale_checkpoint"
    ELSE "install"

Install(h, batch) ==
    [h EXCEPT !.cursor = LastSequence(batch), !.known = TRUE,
              !.checkpointRequested = @ /\ batch.checkpoint = 0]

\* publishControl: written only if the owner's stream is up.
Write(s, control) ==
    IF s.up THEN [s EXCEPT !.controls = Append(@, control)] ELSE s

Control(kind, subscribers) == [kind |-> kind, subscribers |-> subscribers]

HelloFrames(h) == <<Control("hello", h.subscribers)>>

\* What handleCommandStream writes first: hello, then the checkpoint request
\* that is still outstanding.
StreamPrefix(h) ==
    IF h.checkpointRequested
    THEN <<Control("hello", h.subscribers), Control("checkpoint.requested", 0)>>
    ELSE <<Control("hello", h.subscribers)>>

-----------------------------------------------------------------------------
(* The state after register(): nothing published, the stream not yet open. *)

Init ==
    /\ owner = [sequence |-> 0, published |-> 0, demanded |-> FALSE, queued |-> NoBatch,
                inFlight |-> NoFlight, publicationError |-> FALSE,
                acknowledgedCursor |-> 0, flushTimer |-> FALSE,
                acceptingPublications |-> TRUE, closing |-> FALSE]
    /\ helper = [cursor |-> 0, known |-> FALSE, checkpointRequested |-> FALSE,
                 tabs |-> 0, subscribers |-> 0, accepting |-> TRUE]
    /\ net = {}
    /\ reply = NoReply
    /\ stream = [up |-> FALSE, controls |-> <<>>]
    /\ faults = 0

Fault == faults < MaxFaults /\ faults' = faults + 1

\* The bounds on what the rest of the helper asks of the owner.
Bounded ==
    /\ ~owner.closing
    /\ owner.sequence < MaxSequence /\ Len(stream.controls) < MaxControls

\* handleSourceChange while demanded: an event, or a full checkpoint when the
\* session switched.  Once the transport drains the publication is rejected.
SourceChange ==
    /\ ~owner.closing /\ owner.demanded /\ owner.sequence < MaxSequence
    /\ \/ /\ owner.acceptingPublications
          /\ \/ owner' = EnqueueCheckpoint(owner)
             \/ \E immediate \in BOOLEAN : owner' = EnqueueEvent(owner, immediate)
       \/ ~owner.acceptingPublications /\ owner' = Rejected(owner)
    /\ UNCHANGED <<helper, net, reply, stream, faults>>

\* A command loads older messages: publishTranscriptHistory publishes an event
\* whether or not the owner is demanded.
TranscriptHistory ==
    /\ ~owner.closing /\ owner.sequence < MaxSequence
    /\ owner' = IF owner.acceptingPublications
                THEN EnqueueEvent(owner, FALSE) ELSE Rejected(owner)
    /\ UNCHANGED <<helper, net, reply, stream, faults>>

FlushTimer ==
    /\ owner.flushTimer
    /\ owner' = Flush([owner EXCEPT !.flushTimer = FALSE])
    /\ UNCHANGED <<helper, net, reply, stream, faults>>

\* The details of the batch are uploaded: post the batch.
Post ==
    /\ owner.inFlight # NoFlight /\ owner.inFlight.attempt = 0
    /\ owner' = [owner EXCEPT !.inFlight.attempt = 1]
    /\ net' = net \cup {owner'.inFlight}
    /\ UNCHANGED <<helper, reply, stream, faults>>

\* Uploading a detail failed: the batch is never posted.
DetailUploadFails ==
    /\ owner.inFlight # NoFlight /\ owner.inFlight.attempt = 0
    /\ Fault
    /\ owner' = Fail(owner)
    /\ UNCHANGED <<helper, net, reply, stream>>

\* The outcome of an attempt that the owner may retry: the same batch again,
\* or failure after the last attempt.  The delay between attempts is not
\* distinguished from waiting for the answer.
RetryOrFail ==
    IF owner.inFlight.attempt < RetryAttempts
    THEN /\ owner' = [owner EXCEPT !.inFlight.attempt = @ + 1]
         /\ net' = net \cup {owner'.inFlight}
    ELSE /\ owner' = Fail(owner)
         /\ net' = net

\* The request timed out.  Its answer, if there is one, is discarded; the
\* request itself may still be on its way, which costs a fault.
Timeout ==
    /\ owner.inFlight.attempt > 0
    /\ IF owner.inFlight \in net \/ reply # NoReply
       THEN Fault ELSE UNCHANGED faults
    /\ reply' = NoReply
    /\ RetryOrFail
    /\ UNCHANGED <<helper, stream>>

LoseRequest(request) ==
    /\ Fault
    /\ net' = net \ {request}
    /\ UNCHANGED <<owner, helper, reply, stream>>

\* A slow tab's queue begins its compaction while ingest broadcasts a
\* checkpoint.  The request is recorded and written, but ingest goes on to
\* erase the record (:471): it survives only on the stream.
BroadcastCompacts(batch) ==
    Bounded /\ helper.tabs > 0 /\ batch.checkpoint # 0

\* The answer reaches only a client that still waits for this attempt.
Answer(request, status, cursor) ==
    reply' = IF request = owner.inFlight
             THEN [status |-> status, cursor |-> cursor] ELSE reply

\* handlePublication and ingest of one request; ingests of one generation
\* are serialized, so the cursor cannot move between the checks and the
\* commit.
Ingest(request) ==
    /\ helper.accepting
    /\ net' = net \ {request}
    /\ LET verdict == Verdict(helper, request) IN
       \/ /\ verdict = "duplicate"
          /\ Answer(request, 200, helper.cursor)
          /\ UNCHANGED <<helper, stream>>
       \/ /\ verdict = "install"
          /\ helper' = Install(helper, request)
          /\ Answer(request, 200, LastSequence(request))
          /\ \/ UNCHANGED stream
             \/ /\ BroadcastCompacts(request)
                /\ stream' = Write(stream, Control("checkpoint.requested", 0))
       \/ /\ verdict \in {"sequence_overlap", "stale_checkpoint"}
          /\ Answer(request, 409, 0)
          /\ UNCHANGED <<helper, stream>>
       \/ /\ verdict \in {"checkpoint_required", "sequence_gap"}
          /\ Answer(request, 409, 0)
          /\ helper' = [helper EXCEPT !.checkpointRequested = TRUE]
          /\ stream' = IF helper.checkpointRequested THEN stream
                       ELSE Write(stream, Control("checkpoint.requested", 0))
    /\ UNCHANGED <<owner, faults>>

\* The publication is turned away before ingest: the helper drains (503), its
\* consumer failed (500), or the owner's lease has lapsed (409).
TurnAway(request) ==
    /\ net' = net \ {request}
    /\ \/ ~helper.accepting /\ Answer(request, 503, 0) /\ UNCHANGED faults
       \/ helper.accepting /\ Fault
          /\ \E status \in {409, 500} : Answer(request, status, 0)
    /\ UNCHANGED <<owner, helper, stream>>

\* publishWithRetry on an answer.  A cursor below the acknowledged one is an
\* error, and so is every status below 500.
ReceiveReply ==
    /\ reply # NoReply
    /\ reply' = NoReply
    /\ IF reply.status = 200
       THEN /\ owner' = IF reply.cursor < owner.acknowledgedCursor
                        THEN Fail(owner) ELSE Succeed(owner, reply.cursor)
            /\ net' = net
       ELSE IF reply.status < 500
            THEN owner' = Fail(owner) /\ net' = net
            ELSE RetryOrFail
    /\ UNCHANGED <<helper, stream, faults>>

-----------------------------------------------------------------------------
(* The command stream.                                                     *)

\* The owner's loop (re)connects; the helper answers with its prefix.  A
\* draining helper is gone soon: the bound stands for that.
StreamOpen ==
    /\ ~stream.up /\ ~owner.closing
    /\ helper.accepting \/ owner.sequence < MaxSequence
    /\ stream' = [up |-> TRUE, controls |-> StreamPrefix(helper)]
    /\ UNCHANGED <<owner, helper, net, reply, faults>>

\* The stream ends with whatever was not read yet.
StreamBreak ==
    /\ stream.up /\ Fault
    /\ stream' = [up |-> FALSE, controls |-> <<>>]
    /\ UNCHANGED <<owner, helper, net, reply>>

Publishes(o, control) ==
    \/ control.kind = "checkpoint.requested"
    \/ control.kind \in {"hello", "demand.changed"}
       /\ control.subscribers > 0 /\ ~o.demanded

\* runCommandLoop and dispatchInbound on the next control.  A handler that
\* has to publish while the transport drains throws and ends the stream; its
\* checkpoint has been numbered and, for demand, the owner counts as demanded.
ReceiveControl ==
    /\ stream.up /\ stream.controls # <<>> /\ ~owner.closing
    /\ LET control == Head(stream.controls) IN
       \/ /\ Publishes(owner, control) /\ ~owner.acceptingPublications
          /\ LET resumed == IF control.kind = "hello" THEN Resume(owner) ELSE owner
             IN  owner' = [Rejected(resumed) EXCEPT
                              !.demanded = @ \/ control.kind # "checkpoint.requested"]
          /\ stream' = [up |-> FALSE, controls |-> <<>>]
       \/ /\ ~Publishes(owner, control) \/ owner.acceptingPublications
          /\ stream' = [stream EXCEPT !.controls = Tail(@)]
          /\ \/ /\ control.kind = "hello"
                /\ owner' = Hello(owner, control.subscribers)
             \/ /\ control.kind = "demand.changed"
                /\ owner' = SetDemanded(owner, control.subscribers > 0)
             \/ /\ control.kind = "checkpoint.requested"
                /\ owner' = EnqueueCheckpoint(owner)
             \/ /\ control.kind = "drain"
                /\ owner' = [owner EXCEPT !.acceptingPublications = FALSE]
    /\ UNCHANGED <<helper, net, reply, faults>>

-----------------------------------------------------------------------------
(* The helper's other parts and the owner's end.                           *)

\* relayRoutes counts subscriptions and tells the owner.  Between a lapse of
\* the owner's lease and its next heartbeat publishControl throws before it
\* records anything, and the helper drops the error.
DemandChanged ==
    /\ Bounded
    /\ \E n \in 0 .. MaxSubscribers \ {helper.tabs} :
           \/ /\ helper' = [helper EXCEPT !.tabs = n, !.subscribers = n]
              /\ stream' = Write(stream, Control("demand.changed", n))
              /\ UNCHANGED faults
           \/ /\ Fault
              /\ helper' = [helper EXCEPT !.tabs = n]
              /\ UNCHANGED stream
    /\ UNCHANGED <<owner, net, reply>>

\* A browser subscription finds no checkpoint, or a slow one compacts.  A
\* request made while the lease has lapsed is gone, record and control.
CheckpointNeeded ==
    /\ Bounded /\ helper.tabs > 0
    /\ \/ /\ helper' = [helper EXCEPT !.checkpointRequested = TRUE]
          /\ stream' = Write(stream, Control("checkpoint.requested", 0))
          /\ UNCHANGED faults
       \/ Fault /\ UNCHANGED <<helper, stream>>
    /\ UNCHANGED <<owner, net, reply>>

BeginDrain ==
    /\ helper.accepting
    /\ helper' = [helper EXCEPT !.accepting = FALSE]
    /\ stream' = Write(stream, Control("drain", 0))
    /\ UNCHANGED <<owner, net, reply, faults>>

CloseOwner ==
    /\ ~owner.closing
    /\ owner' = Close(owner)
    /\ UNCHANGED <<helper, net, reply, stream, faults>>

Next ==
    \/ SourceChange \/ TranscriptHistory \/ FlushTimer \/ Post \/ DetailUploadFails \/ Timeout
    \/ ReceiveReply \/ StreamOpen \/ StreamBreak \/ ReceiveControl
    \/ DemandChanged \/ CheckpointNeeded \/ BeginDrain \/ CloseOwner
    \/ \E request \in net :
           LoseRequest(request) \/ Ingest(request) \/ TurnAway(request)

Spec == Init /\ [][Next]_vars

-----------------------------------------------------------------------------
(* Fairness: the runtime's timers fire, its network callbacks run and the   *)
(* command loop reconnects for as long as it is not closed.  Nothing makes  *)
(* a stream break or a source change.                                       *)

Fairness ==
    /\ WF_vars(FlushTimer) /\ WF_vars(Post) /\ WF_vars(Timeout)
    /\ WF_vars(ReceiveReply) /\ WF_vars(StreamOpen) /\ WF_vars(ReceiveControl)
    /\ WF_vars(\E request \in net : Ingest(request) \/ TurnAway(request))

FairSpec == Spec /\ Fairness

-----------------------------------------------------------------------------
(* Properties.                                                             *)

Batches == [checkpoint : Nat, events : Seq(Nat)]
Requests == [checkpoint : Nat, events : Seq(Nat), attempt : 0 .. RetryAttempts]
Controls ==
    [kind : {"hello", "demand.changed", "checkpoint.requested", "drain"},
     subscribers : Nat]

OwnerRecords ==
    [sequence : Nat, published : Nat, demanded : BOOLEAN, queued : Batches, inFlight : Requests,
     publicationError : BOOLEAN, acknowledgedCursor : Nat, flushTimer : BOOLEAN,
     acceptingPublications : BOOLEAN, closing : BOOLEAN]
HelperRecords ==
    [cursor : Nat, known : BOOLEAN, checkpointRequested : BOOLEAN,
     tabs : Nat, subscribers : Nat, accepting : BOOLEAN]

\* The type of every variable.
TypeOK ==
    /\ owner \in OwnerRecords
    /\ helper \in HelperRecords
    /\ net \subseteq Requests
    /\ reply \in [status : {0, 200, 409, 500, 503}, cursor : Nat]
    /\ stream \in [up : BOOLEAN, controls : Seq(Controls)]
    /\ faults \in Nat

\* Whichever of the retried, timed-out and superseded requests arrive and in
\* whatever order, ingest would install each or find it a duplicate; only an
\* event published before the first checkpoint is refused, with a request for
\* one.  So the sequence_gap, sequence_overlap and stale_checkpoint answers of
\* dataPlaneRoutes are defensive only.
NeverRefused ==
    \A request \in net :
        \/ Verdict(helper, request) \in {"install", "duplicate"}
        \/ Verdict(helper, request) = "checkpoint_required"
           /\ FirstSequence(request) = 1

\* What the transport posts passes the helper's parser, although events are
\* appended and queues compacted while another batch is in flight.
BatchesWellFormed ==
    /\ WellFormed(owner.queued)
    /\ \A request \in net \cup {owner.inFlight} : WellFormed(request)

\* An open transport with nothing queued and nothing in flight has handed over
\* everything it took: the helper stands at the last published number, after
\* any number of failed batches, lost answers and compactions.
IdleMeansCaughtUp ==
    ~owner.closing /\ IsEmpty(owner.queued) /\ owner.inFlight = NoFlight
        => helper.cursor = owner.published

\* The acknowledged cursor never overtakes the helper's, nor that the owner's
\* sequence, and no answer on its way regresses it: publishWithRetry's
\* cursor_regression and compactQueuedToCheckpoint's stale_recovery_checkpoint
\* errors cannot happen.
AcknowledgedIsIngested ==
    /\ owner.acknowledgedCursor <= helper.cursor
    /\ helper.cursor <= owner.published /\ owner.published <= owner.sequence
    /\ reply.status = 200 => owner.acknowledgedCursor <= reply.cursor

\* drain() resolves without an error only if everything enqueued before it
\* was ingested.
CleanCloseDeliversAll ==
    owner.closing /\ owner.inFlight = NoFlight /\ ~owner.publicationError
        => helper.cursor = owner.published

\* A failed publication waits in the queue as a recovery checkpoint; neither
\* a batch window nor a batch in flight will send it.
Parked ==
    /\ owner.publicationError /\ owner.inFlight = NoFlight
    /\ ~owner.flushTimer /\ ~IsEmpty(owner.queued)

Converged ==
    /\ owner.inFlight = NoFlight /\ IsEmpty(owner.queued)
    /\ helper.cursor = owner.published

\* Once faults and source changes stop, the helper catches up with the owner,
\* unless the last publication failed: then the recovery checkpoint stays
\* parked until the next hello or publication.  There is no other way to
\* stay behind.
ConvergesOrParks == <>[](Converged \/ Parked \/ owner.closing)

\* A checkpoint request of the helper is answered by an ingested checkpoint,
\* also if the stream that carried it broke, unless the owner closes, the helper
\* drains or the answer is parked.
CheckpointRequestsAnswered ==
    helper.checkpointRequested ~>
        \/ ~helper.checkpointRequested \/ Parked
        \/ owner.closing \/ ~helper.accepting

\* When subscriptions stop changing, the owner's demand flag ends up agreeing
\* with the tabs that are open, although demand.changed controls are lost with
\* a broken stream.  The exception is a last change made while the owner's
\* lease had lapsed: it was never recorded, so also the next hello repeats the
\* count before it, and the owner goes by that.
DemandConverges ==
    <>[][UNCHANGED helper.tabs]_vars =>
        <>[](\/ owner.demanded = (helper.tabs > 0)
             \/ /\ helper.subscribers # helper.tabs
                /\ owner.demanded = (helper.subscribers > 0)
             \/ owner.closing \/ ~helper.accepting)
=============================================================================
