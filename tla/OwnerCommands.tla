---------------------------- MODULE OwnerCommands ----------------------------
(***************************************************************************)
(* Commands from a browser to one owner (a VS Code window), through the    *)
(* helper.                                                                 *)
(*                                                                         *)
(* Helper side: BrowserGatewayCommandRoutes, which keeps a record of every *)
(* operation and its deadline timer, and the command half of               *)
(* BrowserGatewayDataPlaneRoutes, which keeps the commands not yet judged  *)
(* and replays them on every new owner stream.  Owner side: the command    *)
(* loop and deduplication table of HttpBrowserGatewayOwnerTransport and    *)
(* handleCommand of BrowserGatewayOwnerRuntime.  The loop awaits the whole *)
(* handler before it reads the next frame, so at most one command is       *)
(* handled at a time and a stream is not reopened before its handler ends. *)
(*                                                                         *)
(* Both processes run on one host and read one clock: due is the set of    *)
(* commands whose deadline has passed.  An operation id is posted again    *)
(* only while its record lives (ids are random UUIDs).                     *)
(***************************************************************************)
EXTENDS Integers, Sequences, FiniteSets, Selection

CONSTANTS
    Operations,      \* the operation ids browsers use
    Idempotent,      \* those whose command kind is idempotent
    RetryAttempts,   \* options.retryAttempts: how often an answer is posted
    PendingLimit,    \* pendingCommandsPerOwner
    HelperRecords,   \* operationDedupeRecords, in the helper
    OwnerRecords,    \* operationDedupeRecords, in the owner
    MaxGenerations,  \* bound: owner processes, one after the other
    MaxFaults        \* bound: losses, timeouts, lapses and stream breaks

ASSUME IdempotentAssumption == Idempotent \subseteq Operations
ASSUME RetryAttemptsAssumption == RetryAttempts \in Nat \ {0}
ASSUME LimitsAssumption ==
    /\ PendingLimit \in Nat \ {0}
    /\ HelperRecords \in Nat \ {0}
    /\ OwnerRecords \in Nat \ {0}
ASSUME BoundsAssumption == MaxGenerations \in Nat \ {0} /\ MaxFaults \in Nat

VARIABLES
    operations,  \* the helper's operation records, in Map order
    pending,     \* the commands the helper would replay, in Map order
    registry,    \* the owner's registration and whether the helper drains
    stream,      \* the owner command stream
    owner,       \* the owner process
    wire,        \* acknowledgements on their way to the helper
    due,         \* operations whose deadline has passed
    posted,      \* history: operations the helper accepted
    starts,      \* history: how often each operation was started
    faults       \* faults so far

vars == <<operations, pending, registry, stream, owner, wire, due, posted, starts, faults>>

-----------------------------------------------------------------------------
(* Helper.                                                                 *)

Ids(records) == {records[i].operation : i \in 1 .. Len(records)}
Without(records, ids) ==
    Selected(records, {i \in DOMAIN records : records[i].operation \notin ids})
RecordOf(records, o) == records[CHOOSE i \in 1 .. Len(records) : records[i].operation = o]

Accepted(records) == Selected(records, {i \in DOMAIN records : records[i].state = "accepted"})
Terminal(records) == Selected(records, {i \in DOMAIN records : records[i].state # "accepted"})

\* assertCurrentIdentity: requests of a lapsed or replaced owner get a 409.
Current(generation) == registry.connected /\ registry.generation = generation

Write(s, frames) == IF s.open THEN [s EXCEPT !.frames = @ \o frames] ELSE s

\* pruneOperations: the Map is ordered by updatedAt, so the records past
\* operationDedupeAgeMs are a prefix; all their deadlines are long over.
Pruned(records, age) ==
    LET old == {records[i].operation : i \in 1 .. age}
    IN  Without(records, Ids(Terminal(records)) \cap old)

Ages(records) == {age \in 0 .. Len(records) : \A i \in 1 .. age : records[i].operation \in due}

\* makeOperationCapacity: a full table loses its oldest terminal record, and
\* has no room if it has none.
HasRoom(records) == Len(records) < HelperRecords \/ Terminal(records) # <<>>

WithRoom(records) ==
    IF Len(records) < HelperRecords \/ Terminal(records) = <<>> THEN records
    ELSE Without(records, {Head(Terminal(records)).operation})

\* The limits handle checks.
Admits(records) == Len(Accepted(records)) < PendingLimit /\ HasRoom(records)

\* updateOperation moves the record to the end of the Map.
Judged(record, state, byHelper) ==
    [record EXCEPT !.state = state, !.helperTerminal = byHelper]

\* The helper's own verdict says no more than it knows.
GiveUp(record) ==
    Judged(record, IF record.operation \in Idempotent THEN "failed" ELSE "uncertain", TRUE)

\* failPending of some records, which updateOperation moves to the end.
GivenUp(failing) ==
    Without(operations, Ids(failing)) \o [i \in 1 .. Len(failing) |-> GiveUp(failing[i])]

\* cancelCommand of each: it throws, and leaves the pending command, unless
\* the owner's registration is current.
Cancel(failing) ==
    IF registry.connected
    THEN /\ pending' = Without(pending, Ids(failing))
         /\ stream' = Write(stream, [i \in 1 .. Len(failing) |->
                [kind |-> "command.cancelled", operation |-> failing[i].operation]])
    ELSE UNCHANGED <<pending, stream>>

-----------------------------------------------------------------------------
(* Owner process.                                                          *)

Idle == [phase |-> "idle", operation |-> "", attempt |-> 0, answer |-> "none"]
Posting == {"accepting", "completing", "failing", "reposting"}

NewProcess == [alive |-> TRUE, records |-> <<>>, task |-> Idle]

PrunedExecutedByAge(records, age) ==
    Without(records, {records[i].operation : i \in 1 .. age})

\* pruneExecutedCommands: records past their age whose deadline is over.
PrunedExecuted(records, age) ==
    Without(records, {records[i].operation : i \in 1 .. age} \cap due)

\* makeExecutedCommandCapacity: every record has an acknowledgement by the
\* time the next command is dispatched, so the oldest one goes.
ExecutedWithCapacity(records) ==
    IF Len(records) >= OwnerRecords THEN Tail(records) ELSE records

\* acknowledge: remember the answer at the end of the Map, then post it.
Acknowledgement(o, state) ==
    [operation |-> o, state |-> state, generation |-> registry.generation]

Acknowledge(phase, o, state, records) ==
    /\ owner' = [owner EXCEPT
           !.records = Append(Without(records, {o}), [operation |-> o, state |-> state]),
           !.task = [phase |-> phase, operation |-> o, attempt |-> 1, answer |-> "none"]]
    /\ wire' = wire \cup {Acknowledgement(o, state)}

-----------------------------------------------------------------------------
Init ==
    /\ operations = <<>> /\ pending = <<>>
    /\ registry = [connected |-> TRUE, generation |-> 1, accepting |-> TRUE]
    /\ stream = [open |-> FALSE, frames |-> <<>>]
    /\ owner = NewProcess
    /\ wire = {} /\ due = {} /\ posted = {} /\ faults = 0
    /\ starts = [o \in Operations |-> 0]

Fault == faults < MaxFaults /\ faults' = faults + 1

\* handle of a new operation whose command is published.
HandleCommand(o) ==
    /\ registry.accepting /\ registry.connected
    /\ o \notin posted
    /\ \E age \in Ages(operations) :
           LET recent == Pruned(operations, age)
           IN  /\ Admits(recent)
               /\ operations' = Append(WithRoom(recent),
                      [operation |-> o, state |-> "accepted", helperTerminal |-> FALSE,
                       generation |-> registry.generation])
    /\ pending' = Append(pending, [operation |-> o])
    /\ stream' = Write(stream, <<[kind |-> "command", operation |-> o]>>)
    /\ posted' = posted \cup {o}
    /\ UNCHANGED <<registry, owner, wire, due, starts, faults>>

\* lookupOperation, and handle of a repeated or a refused request.
LookupOperation ==
    /\ \E age \in Ages(operations) : operations' = Pruned(operations, age)
    /\ UNCHANGED <<pending, registry, stream, owner, wire, due, posted, starts, faults>>

DeadlinePasses(o) ==
    /\ o \in posted \ due
    /\ due' = due \cup {o}
    /\ UNCHANGED <<operations, pending, registry, stream, owner, wire, posted, starts, faults>>

ExpireOperationOfConnected(o) ==
    /\ o \in due /\ o \in Ids(Accepted(operations)) /\ registry.connected
    /\ operations' = GivenUp(<<RecordOf(operations, o)>>)
    /\ Cancel(<<RecordOf(operations, o)>>)
    /\ UNCHANGED <<registry, owner, wire, due, posted, starts, faults>>

\* The deadline timer.
ExpireOperation(o) ==
    /\ o \in due /\ o \in Ids(Accepted(operations))
    /\ operations' = GivenUp(<<RecordOf(operations, o)>>)
    /\ Cancel(<<RecordOf(operations, o)>>)
    /\ UNCHANGED <<registry, owner, wire, due, posted, starts, faults>>

BeginDrain ==
    /\ registry.accepting
    /\ registry' = [registry EXCEPT !.accepting = FALSE]
    /\ operations' = GivenUp(Accepted(operations))
    /\ Cancel(Accepted(operations))
    /\ UNCHANGED <<owner, wire, due, posted, starts, faults>>

-----------------------------------------------------------------------------
(* The owner command stream.                                               *)

OpenStreamWithoutReplay ==
    /\ owner.alive /\ owner.task = Idle
    /\ ~stream.open /\ registry.connected
    /\ pending' = Without(pending, due)
    /\ stream' = [open |-> TRUE, frames |-> <<>>]
    /\ UNCHANGED <<operations, registry, owner, wire, due, posted, starts, faults>>

\* handleCommandStream: drop the commands that are due, replay the others.
OpenStream ==
    /\ owner.alive /\ owner.task = Idle
    /\ ~stream.open /\ registry.connected
    /\ pending' = Without(pending, due)
    /\ stream' = [open |-> TRUE,
                  frames |-> [i \in 1 .. Len(pending') |->
                                 [kind |-> "command", operation |-> pending'[i].operation]]]
    /\ UNCHANGED <<operations, registry, owner, wire, due, posted, starts, faults>>

Closed == [open |-> FALSE, frames |-> <<>>]

StreamBreaks ==
    /\ stream.open /\ Fault
    /\ stream' = Closed
    /\ UNCHANGED <<operations, pending, registry, owner, wire, due, posted, starts>>

ReadFrame(kind) ==
    /\ owner.alive /\ owner.task = Idle
    /\ stream.frames # <<>> /\ Head(stream.frames).kind = kind
    /\ stream' = [stream EXCEPT !.frames = Tail(@)]
    /\ UNCHANGED <<operations, pending, registry, due, posted, starts, faults>>

\* A command.cancelled is read when no handler runs: commandControllers has
\* no controller left to abort.
ReadCancelled == ReadFrame("command.cancelled") /\ UNCHANGED <<owner, wire>>

\* A command that arrives past its deadline is dropped.
ReadLateCommand ==
    /\ ReadFrame("command") /\ Head(stream.frames).operation \in due
    /\ UNCHANGED <<owner, wire>>

\* dispatchCommand: a known command gets its answer again, a new one is
\* recorded and its handler acknowledges it as accepted.
DispatchCommand ==
    /\ ReadFrame("command")
    /\ LET o == Head(stream.frames).operation IN
       /\ o \notin due
       /\ \E age \in 0 .. Len(owner.records) :
              LET known == PrunedExecuted(owner.records, age) IN
              IF o \in Ids(known)
              THEN /\ owner' = [owner EXCEPT !.records = known,
                          !.task = [phase |-> "reposting", operation |-> o,
                                    attempt |-> 1, answer |-> "none"]]
                   /\ wire' = wire \cup {Acknowledgement(o, RecordOf(known, o).state)}
              ELSE Acknowledge("accepting", o, "accepted", ExecutedWithCapacity(known))

-----------------------------------------------------------------------------
(* The handler of a command and its acknowledgements.                      *)

Posted == Acknowledgement(owner.task.operation,
                          RecordOf(owner.records, owner.task.operation).state)

AwaitsAnswer == owner.alive /\ owner.task.phase \in Posting /\ owner.task.answer = "none"

ReconciledAlways(ack) ==
    LET decided == Selected(operations, {i \in DOMAIN operations :
                       /\ operations[i].operation = ack.operation
                       /\ operations[i].generation = ack.generation})
    IN  IF ack.state = "accepted" THEN operations
        ELSE Without(operations, Ids(decided))
             \o [i \in 1 .. Len(decided) |-> Judged(decided[i], ack.state, FALSE)]

\* onAcknowledgement: the owner's verdict replaces "accepted" and a verdict
\* of the helper, once.
Reconciled(ack) ==
    LET decided == Selected(operations, {i \in DOMAIN operations :
                       /\ operations[i].operation = ack.operation
                       /\ operations[i].generation = ack.generation
                       /\ operations[i].state = "accepted" \/ operations[i].helperTerminal})
    IN  IF ack.state = "accepted" THEN operations
        ELSE Without(operations, Ids(decided))
             \o [i \in 1 .. Len(decided) |-> Judged(decided[i], ack.state, FALSE)]

PendingAfterAny(ack) == Without(pending, {ack.operation})

\* Only a verdict ends the replay of a command.
PendingAfter(ack) ==
    IF ack.state = "accepted" THEN pending ELSE Without(pending, {ack.operation})

\* handleAcknowledgement.  A copy of the request may still follow (its
\* sender timed out and retried), and the answer may be lost.
AcknowledgementArrives(ack, copy, answered) ==
    /\ ack \in wire
    /\ answered => AwaitsAnswer /\ Posted = ack
    /\ IF copy \/ (~answered /\ AwaitsAnswer /\ Posted = ack) THEN Fault ELSE UNCHANGED faults
    /\ wire' = IF copy THEN wire ELSE wire \ {ack}
    /\ IF Current(ack.generation)
       THEN /\ operations' = Reconciled(ack)
            /\ pending' = PendingAfter(ack)
       ELSE UNCHANGED <<operations, pending>>
    /\ owner' = IF answered
                THEN [owner EXCEPT !.task.answer =
                         IF Current(ack.generation) THEN "ok" ELSE "rejected"]
                ELSE owner
    /\ UNCHANGED <<registry, stream, due, posted, starts>>

AcknowledgementLost(ack) ==
    /\ ack \in wire /\ Fault
    /\ wire' = wire \ {ack}
    /\ UNCHANGED <<operations, pending, registry, stream, owner, due, posted, starts>>

\* The request timed out: early, or because nothing is left to arrive.
PostAgain ==
    /\ AwaitsAnswer /\ owner.task.attempt < RetryAttempts
    /\ IF Posted \in wire THEN Fault ELSE UNCHANGED faults
    /\ owner' = [owner EXCEPT !.task.attempt = @ + 1]
    /\ wire' = wire \cup {Posted}
    /\ UNCHANGED <<operations, pending, registry, stream, due, posted, starts>>

PostSucceeded == owner.alive /\ owner.task.answer = "ok"

PostFailed ==
    /\ owner.alive
    /\ \/ owner.task.answer = "rejected" /\ UNCHANGED faults
       \/ /\ AwaitsAnswer /\ owner.task.attempt = RetryAttempts
          /\ IF Posted \in wire THEN Fault ELSE UNCHANGED faults

Execute ==
    /\ PostSucceeded /\ owner.task.phase = "accepting"
    /\ owner' = [owner EXCEPT !.task = [Idle EXCEPT !.phase = "executing", !.operation = owner.task.operation]]
    /\ starts' = [starts EXCEPT ![owner.task.operation] = @ + 1]
    /\ UNCHANGED <<operations, pending, registry, stream, wire, due, posted, faults>>

\* The executor returned and the command's details are uploaded, or one of
\* them threw.
ExecutionEnds ==
    /\ owner.alive /\ owner.task.phase = "executing"
    /\ \/ Acknowledge("completing", owner.task.operation, "completed", owner.records)
       \/ Acknowledge("failing", owner.task.operation, "failed", owner.records)
    /\ UNCHANGED <<operations, pending, registry, stream, due, posted, starts, faults>>

HandlerEnds ==
    /\ PostSucceeded /\ owner.task.phase # "accepting"
    /\ owner' = [owner EXCEPT !.task = Idle]
    /\ UNCHANGED <<operations, pending, registry, stream, wire, due, posted, starts, faults>>

\* The catch clause of handleCommand: whatever could not be acknowledged,
\* a completion too, is acknowledged as failed.
AcknowledgeFailed ==
    /\ PostFailed /\ owner.task.phase \in {"accepting", "completing"}
    /\ Acknowledge("failing", owner.task.operation, "failed", owner.records)
    /\ UNCHANGED <<operations, pending, registry, stream, due, posted, starts>>

\* The handler threw, and with it the command loop: the stream is closed.
LoopFails ==
    /\ PostFailed /\ owner.task.phase \in {"failing", "reposting"}
    /\ owner' = [owner EXCEPT !.task = Idle]
    /\ stream' = Closed
    /\ UNCHANGED <<operations, pending, registry, wire, due, posted, starts>>

-----------------------------------------------------------------------------
(* The owner's lease and its process.                                      *)

Lapse ==
    /\ registry.connected /\ Fault
    /\ registry' = [registry EXCEPT !.connected = FALSE]
    /\ UNCHANGED <<operations, pending, stream, owner, wire, due, posted, starts>>

Heartbeat ==
    /\ owner.alive /\ ~registry.connected
    /\ registry' = [registry EXCEPT !.connected = TRUE]
    /\ UNCHANGED <<operations, pending, stream, owner, wire, due, posted, starts, faults>>

\* The window closes or crashes.
OwnerStops ==
    /\ owner.alive /\ registry.generation < MaxGenerations
    /\ owner' = [NewProcess EXCEPT !.alive = FALSE]
    /\ stream' = Closed
    /\ UNCHANGED <<operations, pending, registry, wire, due, posted, starts, faults>>

\* A new process registers under the same owner id: what the old one had
\* pending is dropped and given up.
OwnerRegisters ==
    /\ ~owner.alive
    /\ owner' = NewProcess
    /\ registry' = [registry EXCEPT !.connected = TRUE, !.generation = @ + 1]
    /\ pending' = <<>>
    /\ operations' = GivenUp(Accepted(operations))
    /\ UNCHANGED <<stream, wire, due, posted, starts, faults>>

-----------------------------------------------------------------------------
OwnerNext ==
    \/ OpenStream
    \/ ReadCancelled
    \/ ReadLateCommand
    \/ DispatchCommand
    \/ Execute
    \/ ExecutionEnds
    \/ HandlerEnds
    \/ AcknowledgeFailed
    \/ LoopFails
    \/ Heartbeat

HelperNext ==
    \/ \E o \in Operations : HandleCommand(o) \/ ExpireOperation(o)
    \/ LookupOperation
    \/ BeginDrain
    \/ \E ack \in wire, copy, answered \in BOOLEAN :
           AcknowledgementArrives(ack, copy, answered)

Environment ==
    \/ \E o \in Operations : DeadlinePasses(o)
    \/ \E ack \in wire : AcknowledgementLost(ack)
    \/ PostAgain
    \/ StreamBreaks
    \/ Lapse
    \/ OwnerStops
    \/ OwnerRegisters

Next == OwnerNext \/ HelperNext \/ Environment

Spec == Init /\ [][Next]_vars

-----------------------------------------------------------------------------
(* Properties.                                                             *)

AckType == [operation : Operations, state : {"accepted", "completed", "failed"},
            generation : 1 .. MaxGenerations]

\* Shapes of the state: the helper never holds more records or accepted
\* operations, nor the owner more records, than their limits allow.
TypeOK ==
    /\ operations \in Seq([operation : Operations,
                           state : {"accepted", "completed", "failed", "uncertain"},
                           helperTerminal : BOOLEAN, generation : 1 .. MaxGenerations])
    /\ Len(operations) <= HelperRecords /\ Len(Accepted(operations)) <= PendingLimit
    /\ Cardinality(Ids(operations)) = Len(operations)
    /\ pending \in Seq([operation : Operations])
    /\ registry \in [connected : BOOLEAN, generation : 1 .. MaxGenerations, accepting : BOOLEAN]
    /\ stream.open \in BOOLEAN
    /\ stream.frames \in Seq([kind : {"command", "command.cancelled"}, operation : Operations])
    /\ owner.alive \in BOOLEAN
    /\ owner.records \in Seq([operation : Operations, state : {"accepted", "completed", "failed"}])
    /\ Len(owner.records) <= OwnerRecords
    /\ owner.task.phase \in Posting \cup {"idle", "executing"}
    /\ owner.task.attempt \in 0 .. RetryAttempts
    /\ wire \subseteq AckType
    /\ due \subseteq posted /\ posted \subseteq Operations
    /\ starts \in [Operations -> Nat]
    /\ faults \in 0 .. MaxFaults

\* No command is executed twice: not when it is replayed on a new stream
\* after its acknowledgement was lost, and not when the owner's
\* deduplication table evicts records to stay within its limit.
AtMostOnce == \A o \in Operations : starts[o] <= 1

\* While an operation is reported as accepted and its deadline has not
\* passed, the helper still holds its command and replays it on the next
\* stream: no break, lapse or acknowledgement loses it.
AcceptedIsReplayable ==
    \A i \in 1 .. Len(operations) :
        operations[i].state = "accepted" /\ operations[i].operation \notin due =>
            operations[i].operation \in Ids(pending)

\* What the helper reports, seen as the abstract lifecycle of operations.
Reported(o) ==
    IF o \notin posted THEN "unknown"
    ELSE IF o \in Ids(operations) THEN RecordOf(operations, o).state
    ELSE "forgotten"

Judge(o) ==
    IF Reported(o) \notin {"completed", "failed", "uncertain"} THEN "none"
    ELSE IF RecordOf(operations, o).helperTerminal THEN "helper" ELSE "owner"

Lifecycle == INSTANCE OperationLifecycle
    WITH report <- [o \in Operations |-> Reported(o)],
         judge <- [o \in Operations |-> Judge(o)]

\* The command path implements OperationLifecycle: reports are completed
\* only for started operations, the helper gives up at most once and says
\* "uncertain" of what may not be repeated, and the owner's verdict stands.
ReportsTruthfully == Lifecycle!Spec

-----------------------------------------------------------------------------
(* For the fairness of MCOwnerCommands: every request is eventually        *)
(* delivered, lost or timed out.                                           *)

Deliver ==
    \E ack \in wire : \/ AcknowledgementArrives(ack, FALSE, TRUE)
                      \/ /\ ~(AwaitsAnswer /\ Posted = ack)
                         /\ AcknowledgementArrives(ack, FALSE, FALSE)
=============================================================================
