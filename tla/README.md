# AgentLink in TLA+

AgentLink is a VS Code extension: coding agents run in the extension host, change the files of a
workspace with tools, and can be watched and driven from browsers through a local gateway. This
directory holds TLA+ specifications of the parts of it that are distributed or concurrent, the TLC
runs that check them on small instances, and TLAPS proofs of what holds for every instance.
Paths below are relative to the repository's `src/` directory.

- [The system](#the-system)
- [Modules](#modules)
- [OwnerPublication](#ownerpublication), [OwnerCommands](#ownercommands),
  [BrowserRelay](#browserrelay), [WorkspaceMutation](#workspacemutation),
  [locks and queues](#locks-and-queues), [CodeIndexPublication](#codeindexpublication),
  [SessionPersistence](#sessionpersistence)
- [What the code does not keep](#what-the-code-does-not-keep)
- [Runs](#runs)
- [Proofs](#proofs)
- [Not modelled](#not-modelled)
- [Plan](#plan)

## The system

| Part | State it keeps | Operations | What is hard |
| --- | --- | --- | --- |
| **Owner transport** (`browser-gateway/dataPlane/OwnerTransport.ts`, `BrowserGatewayOwnerRuntime.ts`, `ownerProjectionAdapter.ts`): one per VS Code window | owner sequence, publication queue, batch in flight, acknowledged cursor, error of the last publication, table of executed commands | number and enqueue, batch, post with retries, recover with a checkpoint, read the command stream, execute, acknowledge, drain, close | timeouts race late requests; queue limits while a batch is in flight; one loop reads controls and commands |
| **Data plane of the helper** (`helper/dataPlaneRoutes.ts`) | per owner generation: cursor, command stream, pending commands | ingest, duplicate and gap detection, stream open and replay, acknowledgement | lost, late and repeated requests; leases that lapse in between |
| **Command routes of the helper** (`helper/commandRoutes.ts`) | operation records with deadline timers | accept, deduplicate, expire, reconcile, drain | timer against acknowledgement; bounded tables |
| **Relay** (`helper/OwnerRelayStore.ts`, `relayRoutes.ts`, `RelaySseClientQueue.ts`) | last checkpoint and a bounded replay per owner generation; connections, subscriptions, queues | ingest, prune, evict, select an owner, broadcast, compact under back pressure | slow and vanished tabs; a replay that no longer continues the checkpoint |
| **Browser relay client** (`webview/relay/RelayConnectionManager.ts`, `RelayOwnerStore.ts`) | copy of the owner's state, subscription, buffered frames | connect, subscribe, apply, detect gaps, resubscribe | frames that overtake the answer of the request that caused them |
| **Workspace mutation** (`agent/WorkspaceMutationCoordinator.ts`, `AgentSessionManager.ts`) | lease queue, mutation generations per session, persisted epoch; turns, checkpoints | acquire, release, abort, mark, capture, revert, stop, restart | writers that run side by side; stops that leave tools running; questions between agents |
| Owner registry, helper life cycle | registrations, leases, helper generation | register, heartbeat, lapse, take over | modelled only as far as the command path sees it |
| Agent engine, background agents | conversation, runs, budgets | stream, call tools, condense, spawn | modelled only as the phases of a turn |
| **Session persistence** (`agent/AgentSessionManager.ts`, `agent/SessionStore.ts`) | revision expected of each session, waiting and deferred saves; write queues, index and its flush; transcript, metadata and index files | change, save on two tiers, save as captured, rename, restore; write, sync, flush the index | requests that share a save; three files and no transaction; what was not synced is lost with the power |
| **Store lock** (`storage/retrieval/retrievalStoreLock.ts`): between processes | lock directory with one owner file | make, write the owner, inspect, reclaim, operate, time out, remove | a process dies, or is slow, between any two file system calls |
| **File locks** (`util/fileLock.ts`) | one promise per path | chain, wait, time out, release; several paths in order | a waiter that gives up; circles |
| **Model request scheduler** (`core/modelRequestScheduler.ts`) | permits, queues by priority | acquire, release, abort, resize | lost wake-ups; starvation |
| **Terminal pool** (`terminal/native/NativeAgentTerminalCoordinator.ts`, `terminal/terminalAdmissionQueue.ts`) | terminals of a session, admission queue, tickets | reserve, run, detach, trim, close, wait, cancel | an answered waiter that is cancelled; room that nobody is offered |
| **Code index worker** (`indexer/worker.ts`, `indexer/workerLib.ts`, `indexer/journaledStagedRepositoryPublication.ts`, `storage/retrieval/LanceDbCodeIndex*.ts`) | tables, two caches, journal, reset state, writer lease | full, forced and incremental jobs, recovery, publication, removal, reset | no transaction spans the four places; a crash between any two writes; a lease that lapses |
| Index manager, memory, process control and sandbox, approvals, MCP, user interface, language tools, telemetry | | | not modelled, see [below](#not-modelled) |

A change in a chat session becomes an owner event or checkpoint (*owner transport*), is posted to
the helper (*data plane*), is retained and broadcast (*relay*) and applied in the browser (*relay
client*). Demand travels the other way: the first subscriber of an owner makes the helper send
`demand.changed`, a gap or a compaction makes it send `checkpoint.requested`, both on the owner's
command stream. A command of a browser goes through the *command routes* into the pending table of
the data plane, is written to the command stream and replayed on each new one, executed by the
owner, and acknowledged by a POST. Independently of all that, every tool that changes files does so
under a lease of the *workspace mutation coordinator*, which also decides whether a revert to a
checkpoint would undo what another session wrote. Below the tools lie small shared resources: an edit
takes the locks of its *files*, a command a *terminal*, a model call a *permit*. A worker process per
window keeps the *code index* in step with the workspace; every session of its retrieval store runs under
the *store lock*, and a fenced lease in the store keeps the workers of other windows off.

`PROJECT.json` lists the hazards of this code, each with its line and the properties that would
catch it.

## Modules

| Module | Models | Role |
| --- | --- | --- |
| `OwnerPublication` | owner transport and data plane, publication half | specification |
| `OwnerPublicationProofs` | | its safety theorems |
| `OwnerCommands`, `MCOwnerCommands` | command routes, data plane and owner transport, command half | specification, two instances for TLC |
| `OwnerCommandsProofs` | | its safety theorems, and that it implements `OperationLifecycle` |
| `OperationLifecycle` | what a browser may rely on about an operation | abstract specification, refined by `OwnerCommands` |
| `BrowserRelay`, `MCBrowserRelay` | relay and browser relay client | specification, two instances for TLC |
| `PublishedViews` | what a relay promises its viewers | abstract specification, refined by `BrowserRelay` |
| `BrowserRelayProofs` | | its safety theorems, and that it implements `PublishedViews` |
| `WorkspaceMutation`, `MCWorkspaceMutation` | lease coordinator and the turns that use it | specification, owned paths and budgets for TLC |
| `WorkspaceMutationProofs` | | its safety theorems: leases, and reverts |
| `StoreLock` | store lock between processes | specification |
| `ExclusiveUse` | what a lock promises its callers | abstract specification, refined by `StoreLock` with two callers |
| `FileLock`, `ModelRequestScheduler`, `TerminalPool` | what their names say | specifications |
| `Coordination` | | the three side by side, with what is asked of each |
| `CoordinationProofs` | | the safety theorems of all four, and that two callers of the store lock implement `ExclusiveUse` |
| `MCCoordination` | | `Coordination` and `StoreLock` for TLC, one machine at a time |
| `Selection`, `SelectionProofs` | choosing elements of a sequence by position, as filtering an array does | operators, and what they compute |
| `CodeIndexPublication`, `MCCodeIndex` | the indexer worker with the store, caches, journal and lease | specification, three instances for TLC |
| `CodeIndexProofs` | | its safety theorems |
| `SessionPersistence`, `MCSessionPersistence` | saves of chat sessions | specification, sessions for TLC |
| `SessionPersistenceProofs` | | its safety theorems |

The modules meet at narrow interfaces instead of being composed into one: `BrowserRelay` takes from
`OwnerPublication` that records reach the store in order and that a checkpoint the owner was made to
publish is published (`NeverRefused`, `CheckpointRequestsAnswered`), but not that it was made to: what the owner
hears of the helper is in both; `OwnerCommands` and `OwnerPublication` share
the command stream of one transport, and each keeps the half the other leaves out;
`CodeIndexPublication` takes from `StoreLock` that a session of the store is not interleaved with another
one: the first step of a session checks the lease, and nobody takes the lease before the session's last (`InSession`).

Several MC modules hold instances side by side: a variable says which one a behaviour is
in, no step changes it, and the fairness of the specification names the instances it is for. The state graphs are
disjoint, so that each is explored as if it were alone.

Names follow the source. An operator that no other definition uses and that stands before the one
it varies (`MakeDirectoryAnyway` before `MakeDirectory`) is a faulty variant: `PROJECT.json` pairs each checked
property with such a variant that breaks it, so that no property holds by construction.

## OwnerPublication

One owner generation and the helper. `owner` and `helper` are records of the fields of the two
objects; `net` is the set of publication requests on their way, `reply` the answer the owner waits
for, `stream` the ordered command stream. A published record is its sequence number; whether a
batch continues the helper's cursor is all that matters of its content.

- `SourceChange`, `TranscriptHistory`: the projection adapter numbers a publication and enqueues it.
  `EnqueueEvent` compacts a queue past its limit to a checkpoint with a fresh number.
- `FlushTimer`, `Post`, `Timeout`, `RetryOrFail`, `ReceiveReply`: single flight, `RetryAttempts`
  attempts. A timed-out request stays in `net`, so it may arrive after its retry; any request may be
  lost or its answer may. `Fail` leaves a *parked* recovery checkpoint.
- `Ingest`, `TurnAway`: `Verdict` is the helper's decision; a refusal asks for a checkpoint.
- `StreamOpen`, `StreamBreak`, `ReceiveControl`: hello and controls. A draining transport still
  numbers publications (`Rejected`).
- `DemandChanged`, `CheckpointNeeded`: the relay's callbacks. `tabs` is the relay's own count of
  subscriptions, `subscribers` the one that publishControl recorded: while the owner's lease has lapsed it throws
  before it records anything, and the callback drops the error although the command stream stays open.
- `BeginDrain`, `CloseOwner`.

Fairness (`FairSpec`): timers, callbacks and requests on their way. Each stands for an event the
runtime delivers; losses, breaks and source changes have none.

`ConvergesOrParks` says that after finitely many faults and changes the owner either has handed
everything over, or has its recovery checkpoint parked: flushQueued remembers the error and leaves
the checkpoint for the next hello or publication. `CleanCloseDeliversAll` says that a drain without
an error lost nothing. `DemandConverges` and `CheckpointRequestsAnswered` are about controls that die
with a stream. `DemandConverges` compares the owner with the tabs that are really open; its exception is a last change
that a lapse swallowed, which no hello repeats (see below). A checkpoint request that a lapse swallowed, or that
ingest erased (`BroadcastCompacts`), is none of which the owner could know.

## OwnerCommands

Two JavaScript Maps (operation records, pending commands) in insertion order, the command stream,
the owner process with its own table, acknowledgements on their way, and the deadlines that passed.
The owner's loop awaits the whole handler, so one `task` is enough and a `command.cancelled` is read
only when there is nothing left to abort.

Assumptions: both processes run on one host and read one clock; an operation id (a random UUID)
is not posted again after its record was evicted; records leave a table by age only when their
deadline has passed (`operationDedupeAgeMs` is 15 minutes, deadlines are at most one).

`AtMostOnce` and `AcceptedIsReplayable` are the two halves of delivery: nothing is executed twice,
nothing accepted is lost before its deadline. `ReportsTruthfully` is refinement: `OwnerCommands` implements
`OperationLifecycle` with `report` read off the helper's table; the helper gives an operation up at
most once, says *uncertain* of what is not idempotent, and the owner's own verdict stands.

`TimersSettle` (in the instance with small tables and a second owner process) holds with no fairness
but that of the deadline timers, so it does not depend on a live owner. `EveryCommandStarts` (in the
instance with one owner and room for both commands) assumes that executors return, requests end and the heartbeat
runs: the loop awaits its handler, and one that never returned would stop it. That the tables stay
within their limits is part of `TypeOK`, which is proved and not run.

## BrowserRelay

`store` is the retained state of one owner generation; `link[t]` the helper's end of a tab's
connection (queue, socket, compaction it awaits); `tab[t]` the browser's (subscription request, buffered
frames, copy). `exact` is history: whether the copy is a state the owner really was in. `command` is the owner's ear: what the
helper has on record for it (`counted`, `asked`), whether the command stream is open (`hearing`), the demand the
owner goes by (`demanded`) and the checkpoint it is about to publish (`owes`). `unheard` is history: an occasion for a checkpoint
passed the owner by, and none has come since.

- `OwnerEvent`, `OwnerCheckpoint`, `OwnerAnswers`: records arrive in order and are broadcast;
  `Pruned` nondeterministically drops an expired prefix of the replay, `Evict` is the aggregate
  limit.
- `SelectOwner` inside `HandleSubscription`: reset, checkpoint and replay frames are sent before the
  POST is answered.
- `Send`, `Flush`, `Drain`, `Began`, `Install`: back pressure; an overfull queue becomes a request
  for a checkpoint.
- `Counts` is `demand.changed` and what setDemanded makes of it: nothing, unless the demand is new to
  the owner. `Asks` is `checkpoint.requested`. Neither is heard while the stream is broken (`StreamBreaks`); `StreamOpens` repeats
  what is on record. `Erased`: a batch with a checkpoint erases the recorded request, also one that its own broadcast
  has just made; the owner may not have heard it.
- `Receive`, `Resync`, `SubscriptionGranted`, `ResyncCompleted`: the tab's gap detection.
- `Disconnect` stands for stall timeouts, transport errors, refused requests and lost answers;
  with `MaxLingering` the helper may go on counting a connection whose browser is gone. A release may go
  unrecorded, if the owner's lease has lapsed then.

Abstractions: one owner generation that every tab keeps selected, so the helper's own sequence and
the owner's coincide; frames of a subscription that ended are dropped when the owner is selected again. A control
written to an open stream is heard at once: one that is lost with the stream counts as written after it broke. selectOwner
and ingest check in the same turn that the owner is connected, so that no lease lapses within them.

Fairness: connections, subscription requests, sockets, the owner's answers and the reopening of its command stream, for a single tab. Changes,
evictions and disconnections have none.

`OneTabCurrent` and `OneTabConverges` say of one tab that it shows the last published state whenever it waits
for nothing, and comes to show it, unless `unheard`: an owner that did not hear the tab's last subscription go, and is
demanded still, takes the next one for no change and publishes nothing for it. With two tabs that is false (see below); what then still holds is that
every tab moves forward through whole published states (`ShowsPublishedStates`: the relay implements `PublishedViews`, with
a copy that was put together across a gap shown as a state nobody published), that a dropped queue is owed a checkpoint
(`CompactionIsOwed`; not so if its request was erased unheard) and that only a replay that pruning has cut off leaves a tab behind (`WholeReplayMeansCurrent`).

## WorkspaceMutation

One agent tree: a foreground session `Root` and background writers. Trees coordinate independently
(every domain carries the tree's scope) and a domain covers all project roots, so there is one root.

- The coordinator: `Grantable`, `Drain`, `Acquire`, `Release`, `Abort`. Exclusive leases (captures and
  reverts) exclude all, unrestricted ones each other, delegated ones those with overlapping paths.
  One pass of the grant loop grants exactly `Grantable`, because an earlier request that is granted
  in the same pass still blocks as an active lease.
- Marks: `Bump`, `Marks`, `PrepareMutation`, `BeginWrite`. A mark is made before the awaited save and the
  write after it.
- A foreground turn: `queued`, `opening` (first capture), `running`, `marking`, `writing`,
  `interjected` (capture after an interjection), `closing` (last capture), `closed`. A mode without
  tools that change files owns no lease and captures under an exclusive one.
- Background writers: `Spawn`, `Launch`, `Ask`, `Complete`.
- `RequestRevert`, `JudgeRevert`, `EndRevert`; `Stop` of one session or the whole tree, which leaves running
  tools behind as `orphans`; `Restart` of the extension host, with what the store has.

`checkpoint.missed` (whose writes the captured files may lack), `clean` (nobody was changing files
while they were captured) and `touched` (who marked since) are history.

Abstractions: a child is a slot that later spawns reuse; children's own checkpoints, manual captures, the
capture before a first write in a new root, failed saves, ACP agents, a lease first taken in the
middle of a run after a mode switch and the overlap check at spawn are left out; the human who
answers for a stopped coordinator does so at once; the coordinator answers what it heard before it finishes; a session's
checkpoints are saved with it. `EndCapture` may leave the checkpoint as it was: the capture failed, or
the user reverts to an older one. Each engine loop makes a new controller, which `revert.live`
does not follow.

Fairness: what the program does on its own. A run makes finitely many tool calls, so it ends
(strong fairness of `Finish` and `Complete`); nobody has to send, spawn, ask, write, revert or stop. The
liveness run has no questions and no stops, because of the two waits described below.

## Locks and queues

Four machines in one run. None of them knows the others; each is a few hundred lines of code in
which a forgotten wake-up or a wrong order would show only under load.

- **StoreLock**: `mkdir`, write of the owner file, inspection (`readdir`, `stat`, `readFile`), judgement,
  removal of the token and of the directory are steps of their own, since a process may die
  between any two (`Crash`), and any of them may fail while its process lives (`CallFails`: a full disk, no descriptor left). A failed write
  of the owner file leaves the directory empty, with a file that names nobody (`blank`) or with a whole one; a
  failed removal leaves any part. Cleanup is `FindOwnFile` and `RemoveAll`. Tokens are random, so a caller
  stands for its token; clocks are left out, except the age of a directory without an owner
  (`EmptyStale`) or with a blank one. `SlowWrites` lets a live owner be slower than that age; the run says FALSE, and so do the
  theorems. `disowned` is history: a process that lives has left the directory without its file. Until then
  two callers implement `ExclusiveUse` (`StoreLockIsExclusive`) whoever dies and whatever fails, and three exclude each other until
  somebody dies (`OneOperationWhileAllLive`); after it neither is true, see below. `NobodyWaits`: what the dead and
  the failed left is removed by those who wait, but for the whole file of a living process. Fairness: steps of a call, and strong fairness for an inspection
  that finds what names nobody stale, since its age grows while somebody keeps looking.
- **FileLock**: `Ask` chains a promise and `Proceed` goes on when the one ahead is resolved; several
  paths are taken in sorted order, one inside the other, so that an edit with the set `held` asks for the
  smallest path it lacks and gives back the largest first. `OneEditPerPath` is stated for
  paths on which no waiter gave up. `EveryEditEnds` assumes that edits end and that nobody has to give up;
  without the sorting it fails.
- **ModelRequestScheduler**: `Drain` is the whole loop of drain, in one step as in the code: whoever has only takable requests
  ahead of it (`Ahead`) is `Taken`. An abort is two steps (`Abort`,
  `OnAbort`), because another listener of the signal may run in between. `WaitingMeansBusy` is the absence of lost
  wake-ups, over releases, resizes and aborts; `InteractiveServed` needs only that permits are returned.
- **TerminalPool**: a waiter is granted a ticket (`Pump`) and looks again in a later microtask (`Admitted`,
  `WaitsAgain`); between the two others may take what it was offered, and it may be cancelled.
  `CommandEnds` is finishActive, which wakes the queue before it trims the pool. Directories and environments, which decide
  whether an idle terminal is reused or replaced, are left out. `RoomIsOffered`: whoever heads the queue and could
  be admitted has its ticket.

## CodeIndexPublication

How files get into the retrieval store and out of it. Of a file there are a visible row of the
sources table (`source`), rows of generations (`rows`), an entry of the vector cache with its visibility, one
of the structural cache, and journal operations; a `job` holds what a worker knows, its copies of the caches
included. A step is one write that lasts, or a decision between two.

- `StartFull`, `StartUpdate` read the caches and the journal *before* `Acquire` takes the lease, as the code does; `Busy`.
- Recovery: `RecoverReplacement` decides by the manifest and the two caches (`RecoverStaged`,
  `RecoverActivated`, `Abort`, `LeavePending`) and `ClearVector`, `ClearStructural`, `ClearJournal` clean up.
- Removal: `IntendRemoval` to `ReleaseJournal`: journal, sources, rows, structural and vector cache, journal.
- A forced job: `BeginReset` to `CompleteReset`; while `resetting`, nothing is claimed of the store.
- `Scan` compares the workspace with the cache. `Prepare` mints generations and `Intend`,
  `Stage`, `Complete`, `PendingVector`, `PendingStructural` stage a batch; `Activate`, `AppendRest`, `Flip`,
  `Receipt` make one publication visible after the other; `Confirm`, `Forget`, `Finalize` close the batch.
- `Fenced`: the first step of each session checks the lease. `Flush`, `Drained`, `Release` end a job;
  `Drained` writes the cache without the fence, as the code does.
- `Cancel` where the code looks at its signal, `Crash` anywhere, `Acquire` of a lapsed lease by another window.

Abstractions: a text and its hash are one value; the ids of records are those of their generation; an id
that nothing refers to any more may be minted again, which the code's random ids make unlikely and which
only adds behaviours; a generation is two batches of rows; revisions of a source are ordered by a clock that
does not run backwards, and equal times and sizes mean equal contents; a batch is activated in any order;
contents are indexable. The fingerprint and the granularity of the caches, the backfill of structural entries, fences inside manifests,
compaction and snapshots are left out.

`VisibleIsWhole`: what a search finds of a file is all of it, once, with any number of workers, crashes and
lapses. `OneWorkerCurrent` is the other half, on which every later scan relies: an entry called *current* is what the store
shows. `OneFaultConverges`: with full jobs asked for again and again, the index comes to show the workspace
after one crash or cancellation. Fairness: the steps of a live worker and full jobs. The last two are claimed
for one worker, and the last for one fault, because they fail beyond that (see below).

## SessionPersistence

A session is saved by two layers. The manager runs one save of a session at a time: `SaveAtOnce`, or behind
another `Defer`, whose save writes the session as it is when its turn comes (`Due`) and serves every request until then
(`Coalesce`); `saveSessionNow` captures the record when it is asked (`CaptureBehind`). `Rename` does not queue with
the saves. The store runs one operation of a session at a time (`ops`), in steps that a crash may separate: the revision is
compared (`Begin`, `Refuse`), then `WriteMessages` or, if the transcript is there but was written without a sync and
this save is durable, `SyncMessages`, then `WriteMetadata`, then the wait for a flush of the index, which all
sessions share (`StartFlush`, `WriteIndex`, `FailFlush`); `Settle` is what the manager makes of the result.

A file is the pair of what it holds and what a power loss cannot undo; a write on the lower tier changes the first
only. `Crash` keeps what the files hold, `PowerLoss` takes of every file either; both are followed by `Restart`. A
transcript and a state are the number of the change that made them, so that *newer* is *greater*. `promised` and `owed` are
history: what `saveSessionNow` answered *true* for, and what has a save to expect.

Abstractions: a rename reads the revision of a session that was never saved, and asks, in one step; the sessions are
read at once after a restart, and the index file exists, so it is not rebuilt; no file is torn, since each is renamed into place.
Left out: deletion and pruning, reverts and handoffs, the tail snapshot (best effort), attachments, the legacy save.
There is no liveness, so no fairness.

`AcknowledgedSurvives` is the promise of `saveSessionNow`; `DurableReferencesFlushed` the comment of writeSessionRecord
(*a durable metadata revision never references transcript bytes that have not already been flushed*); `RevisionKnown`
that a conflict leaves a session that can be saved again; `SavedUnlessOvertaken` that no coalesced request and no tier
is lost: its name says what it leaves out, see below.

## What the code does not keep

Four runs show a disagreement between the code and what its comments or tests say; each is a finding in
`PROJECT.json` with the quotation.

- **Stale tab** (`browser_relay_stale`): selectOwner sends the retained checkpoint and replay even if
  pruning has cut the one off from the other, and requests a checkpoint only if there is none. A
  second tab that joins late shows the old checkpoint and waits for nothing. With one tab, an owner that heard
  the last subscription go sends a checkpoint for the next: `OneTabCurrent`.
  `WholeReplayMeansCurrent` says that the cut is the only cause.
- **Stopped waiter** (`workspace_mutation_abort`): a request that is aborted in the queue is removed
  without a drain; the one behind it waits for some other release.
- **Lost epoch** (`workspace_mutation_epoch`): the persisted state of scoped roots does not pass the check
  of restore, so that after a restart every earlier checkpoint is refused.
- **Orphaned index entry** (`code_index_orphan`): checkpointPending writes the vector cache and then the structural one. A
  worker that dies in between leaves a publication that recovery aborts, dropping the cache entry although the
  store still shows the former revision. If the file is deleted meanwhile, no later full job finds it
  to remove, since removed files are sought among the cached ones.

More were met while modelling. Those are in the models unless stated otherwise, but no run is spent on them:

- **Torn capture** (`AgentSessionManager.ts:4177`): a turn that already owns its unrestricted lease captures under
  it, beside delegated writers, against the comment at `:4181`. `RevertKeepsOthersWork` is therefore stated for
  checkpoints that were captured while nobody was writing.
- **Truncation before the wait** (`AgentSessionManager.ts:7984`, not modelled): a revert cuts the session at a place computed before
  it waited for its lease.
- **Acknowledgement that cannot be posted** (`BrowserGatewayOwnerRuntime.ts:284`, not modelled): the catch block
  acknowledges a command that succeeded as failed.
- **Impatient edit** (`fileLock.ts:42`): a waiter that times out and is last in the chain deletes the key while
  the first holder still edits; the next caller edits beside it.
- **Late reclaimer** (`retrievalStoreLock.ts:200`): a caller that decided to reclaim a dead owner's directory may remove the one
  a successor has made since and not yet written its file into. Two operations then run together; it takes three
  callers and a death, or (`:74`) a live owner that is slow to write. The death need not be an owner's: a caller that has
  given the lock back may die while another one, which looked at its file, has yet to judge it. So *until anybody
  dies* in `OneOperationWhileAllLive` cannot be weakened to *until an owner dies*.
- **Failed owner write** (`retrievalStoreLock.ts:58`): nothing removes the directory that mkdir has just made. Once it is
  stale, two callers that both judged it so remove it one after the other, the second taking the new directory of the
  first, and both operate: nobody has died and nobody is slow (TLC: `OneOperationWhileAllLive` without `~disowned` fails). A
  removal that fails after it has taken the owner's own file (`:121`) ends the same way. If the file is
  whole and only closing or removing it failed, everyone waits for the living process that has forgotten it.
- **Demand that is not recorded** (`browserGatewayHelper.ts:1091`): between a lapse of the owner's lease and its next heartbeat
  publishControl throws (`dataPlaneRoutes.ts:138`) before it records the count, and the error is dropped. The owner goes by
  the old count until the next change, and no hello corrects it.
- **Return that is not heard** (`ownerProjectionAdapter.ts:176`): if the last subscription went while the command stream was broken or
  the lease had lapsed, a tab that comes back changes nothing for the owner; with a retained checkpoint and a cut replay it stays
  behind until the owner's next checkpoint (`OneTabCurrent` without `~unheard` fails).
- **Erased request** (`dataPlaneRoutes.ts:471`): ingest erases the recorded checkpoint request also when the broadcast of the
  same batch made it; a compacted tab then waits for a checkpoint of which a broken stream carried nothing.
- **Queue of terminals**: finishActive notifies before it trims (`NativeAgentTerminalCoordinator.ts:1034`), so a waiter is
  granted a terminal that is closed at once and goes to the end of the queue; and a background command at the head that waits for the limit of detached terminals
  holds up foreground ones behind it (`:818`). Order of arrival is not kept.
- **Stuck index entry**: after two crashes the vector cache may call a file *pending* with nothing staged, and scans skip it
  for good (`journaledStagedRepositoryPublication.test.ts:203` covers the first step); convergence fails.
- **Two indexers**: the caches are read before the lease (`worker.ts:1421`) and a drained cache is written without
  the fence (`worker.ts:1799`), so a second window may write back what it read before the first one's job; an activated publication
  whose cache differs then stays pending for good (`journaledStagedRepositoryPublication.ts:248`).
- **File that stops being indexable** (`workerLib.ts:548`, not modelled): empty, binary or too large, it is skipped
  by the scan and its old revision stays searchable.
- **Circular wait** (`AgentSessionManager.ts:6725`): a coordinator whose mode owns no lease queues for an
  exclusive capture after it was handed a question, and the writer that asked keeps its lease
  until it is answered. Only a stop resolves this; hence a behaviour with questions may stop, and one of `workspace_mutation_live`, which has none, may not.
- **Lost question** (`:9568`): asked while the coordinator gives its last answer, a question becomes an
  interjection that no turn reads.
- **Stop, then revert** (`:7861`): the revert passes the stopped turn's aborted signal and is refused at once.
- **Orphaned tools** (`AgentEngine.ts:2946`): the lease of a stopped turn is returned while its tool
  still runs, so a revert may restore files under it. `RestoresAlone` is therefore about the tools of turns; what
  such a tool cannot break is `RevertKeepsOthersWork`.
- **Overtaken request** (`AgentSessionManager.ts:5106`): *one deferred save covers all later requests*, says the comment. A
  record that saveSessionNow captured may be queued behind that save; a request that comes after it joins the
  save before it, and the captured, older state is what the disk has in the end, until the next save.
- **Session on no list** (`SessionStore.ts:442`, `:1046`): the index *can be rebuilt from metadata*, but loadIndex does so only if
  `sessions.json` is missing or corrupt. A session whose metadata was written before a crash and whose first flush was not
  stays on disk and is never listed (TLC: six states; nothing had been reported as saved).
- **Save that is not retried**: a save that conflicts, after a rename or a flush that failed, teaches the manager the
  revision and is dropped; the change waits for the next request. `RevisionKnown` says that this one can succeed.
- **Counter that starts again** (`AgentSessionManager.ts:8557`, not modelled): a background session that was pruned from memory and
  is read again counts its transcript from 0, while the store remembers the count it wrote; the first save after may
  take a changed transcript for the one on disk.
- **Deleted session** (not modelled): a captured save that waits behind a deletion writes the session again.

A stop during the opening capture of a turn (`:6660`) does not keep the turn from running, which the model
shows too.

## Runs

| Run | Instance | Properties |
| --- | --- | --- |
| `owner_publication` | 2 attempts, 1 queued event, changes below number 2, 2 faults (losses, lapses, stream breaks), 1 control, 1 subscriber; 395 000 states | `NeverRefused`, `IdleMeansCaughtUp`, `AcknowledgedIsIngested`, `CleanCloseDeliversAll`; live: `ConvergesOrParks`, `CheckpointRequestsAnswered`, `DemandConverges` |
| `owner_commands` | *small tables*: 2 operations (one idempotent), tables of 1, 2 attempts, 2 owner processes, 2 faults, only timers fair; *one owner*: room for both, 1 fault, owner fair; 260 000 states | `AtMostOnce`, `AcceptedIsReplayable`, `ReportsTruthfully`, `TimersSettle`, `EveryCommandStarts` |
| `browser_relay` | *one tab*: replay of 2, queue and socket of 1, changes below 4, 2 faults (connections, streams, lapses, evictions), fair; *several tabs*: 2, limits of 1, changes and answers below 3, 1 fault, 1 lingering connection; 502 000 states | `OneTabCurrent`, `ShowsPublishedStates`, `CompactionIsOwed`, `WholeReplayMeansCurrent`, `OneTabConverges` |
| `workspace_mutation` | *stop*: a delegated and an unrestricted writer, 2 marks, 1 revert, 1 stop; *restart*: a delegated writer, 2 marks, a revert, a question, a restart; 2.4 million states | `LeasesApart`, `RevertKeepsOthersWork`, `NoOvertaking`, `RefusalsHaveReason`, `RestoresAlone` |
| `workspace_mutation_live` | 2 delegated writers with overlapping paths, 1 mark, 1 revert; 34 000 states | `WaitersServed` |
| `coordination` | store lock with 2 callers in 2 processes, 1 death and 1 failed call, and with 3 until somebody dies or disowns the directory; 4 edits of overlapping files, 2 of them impatient; 5 model requests of all priorities, limits 1 and 2, 2 abortable; 4 commands on a pool of 1 with 1 detached terminal, 2 waiters, 1 closing; 51 500 states | `OneOperationWhileAllLive`, `StoreLockIsExclusive`, `NobodyWaits`; `OneEditPerPath`, `NothingLeftLocked`, `EveryEditEnds`; `WaitingMeansBusy`, `AdmittedInOrder`, `InteractiveServed`; `RoomIsOffered` |
| `code_index` | *one fault*: 1 worker, 2 files, 3 edits, 1 update, 1 rebuild; *two faults*: 1 file, 2 edits; *two workers*: 1 file, 2 edits, 1 lapse, 1 touch; 1.04 million states | `VisibleIsWhole`, `OneWorkerCurrent`, `OneFaultConverges` |
| `session_persistence` | 2 sessions, 1 change, 4 requests, 1 failure, crash or power loss; 1.9 million states up to symmetry | `AcknowledgedSurvives`, `RevisionKnown`, `SavedUnlessOvertaken`, `DurableReferencesFlushed` |
| `browser_relay_stale`, `workspace_mutation_abort`, `workspace_mutation_epoch`, `code_index_orphan` | the smallest instance that shows each | violated: `QuietMeansCurrent`, `NoGrantableWaiter`, `RestartsKeepReverts`, `AbsentFilesLeave` |

Bounds and why they are enough:

- *Faults.* With two, a request can time out and its answer be lost, or a stream break twice: the
  smallest histories in which a retry, a late original and a replay meet. Two faults also use up two
  attempts and so park a recovery checkpoint.
- *Limits of one or two* for queues, replays and tables make every overflow, eviction and compaction
  happen; the code's own limits (32 pending commands, 1000 records, 64 retained events, byte
  budgets) are only larger.
- *Sequence bounds* stop the environment, not the answers: compactions, recovery and requested
  checkpoints still get numbers. `MaxAnswer` bounds those of the relay, where two blocked tabs could ask for checkpoints in turn;
  the single tab, of which convergence is asked, never reaches it.
- *Two operations* are enough for one to evict the other and for one to wait behind the other.
- *One revert and two marks* are the smallest history in which a mark is older than a checkpoint and a
  write younger.
- *Two or three callers of the store lock*: its theorem needs two, and the failure beyond it three. *Four edits* of two paths
  contain two that name the paths in opposite orders and, for each path, a holder, a waiter that gives up and a newcomer.
- *Two files, three edits, six generations* of the code index: a batch of two, so that a crash separates its members; a file
  that is written, changed and deleted; and an id for each publication that can be alive at once.

- *Two sessions, one change, four requests*: two sessions share one flush; a save that runs, one that waits deferred, one captured and
  a rename meet; one fault falls between any two steps. With one session, 3 changes and 5 requests (4.1 million states) or two
  faults give nothing new; the two sessions are alike, so they may be exchanged.

`CHECK_DEADLOCK FALSE` stands where the environment is bounded or the owner closes, where the
dead do not return, and where only a user could go on (an interrupted reset, the circular wait above).

## Proofs

`tlapm` checks all obligations of eight modules. Every safety property that a passing run checks is stated by
a theorem for all values of the constants; `StoreLockIsExclusive`, a property of an instance, has its theorem about the
specification that is instantiated. The types of the variables are proved of every specification and run of none that is
proved: an inductive invariant needs them, and a run would say no more.

**OwnerPublicationProofs.** `TypeCorrect`, `RequestsNeverRefused`, `PostedBatchesWellFormed`,
`IdleTransportCaughtUp` and `AcknowledgedIngested` state `TypeOK`, `NeverRefused`,
`BatchesWellFormed`, `IdleMeansCaughtUp` and `AcknowledgedIsIngested`, and `CleanCloseDelivers` states
`CleanCloseDeliversAll`, for every queue limit, number of attempts
and bound, under `RetryAttemptsAssumption`, `QueueLimitAssumption` and `MaxSubscribersAssumption`.
None of them is inductive. `IInv` orders the numbers: what is queued continues what is in flight or
was last published, a request that is still on its way has the shape of the batch in flight or lies at or below the
helper's cursor, and the acknowledged cursor is at most the helper's. It is a predicate of the owner record, the helper record and the set of requests, so
that each function a handler is composed of (`Compact`, `Flush`, `EnqueueEvent`, `SetDemanded`, `Hello`,
...) has its own preservation lemma, and a step of the specification only combines them.

**OwnerCommandsProofs.** `StartedAtMostOnce`, `AcceptedReplayable` and `TypeCorrect` for any number of operations, owner
processes, faults and retries and any size of the tables, under `IdempotentAssumption`, `RetryAttemptsAssumption`,
`LimitsAssumption` and `BoundsAssumption`. `TypeOK` includes the limits of the tables. Nothing in the code records for good that a command was started, so execution at most once is an
argument about order: the pending commands of the helper and the frames of the stream form one queue, which the owner
reads from its front (`Queue`, `Covered`, `InOrder`), and what the owner's table loses, it loses to a later
command of that queue. So a command it forgot is due, and then never dispatched, or no longer in the queue
(`First`). `Tables` says what the records of the helper may claim; with `Revised` (a step keeps the order of the records, drops
some, decides others) it makes every step one of `OperationLifecycle` or a stutter: `ReportsAreTruthful`.

**SelectionProofs.** `Selected`, with which several tables drop entries, is a recursive function over positions.
Its facts (length, members, order) need induction; the induction theorems of the library take an
operator as a parameter, so they are replaced by the least number of a set (`LeastNumber`, from the
well-foundedness of the naturals).

**BrowserRelayProofs.** `CompactionsOwed` and `WholeReplaysCurrent` for any number of tabs, faults and lingering connections
and any limit of replay, queue and socket (`LimitsAssumption`); `Invariance` states the invariant itself. Neither end of a
connection knows whether the other is behind, so the invariant reads the frames that the tab buffers, those on the wire and those queued as one
sequence. Unless it is excused, that sequence ends in a checkpoint and the events up to the
last record, or consists of the events that continue the copy (`Delivers`). `PairOK` says this of one tab and its connection,
and each action is a composition of functions that keep it. Where a new subscription is served from a replay,
it needs the replay to continue the checkpoint (`Whole`). If the replay was cut the tab is `Excused`, a single one without
lingering connections only while something is `Pending`: a checkpoint that the owner owes, or will owe as soon as it
hears again, or an occasion that it missed for good (`unheard`). The first subscription always finds one of these (`ReacquiredOK`), and only
a release of the last takes one back (`ReleasedOK`). Hence `OneTabIsCurrent`.
`RefinesPublishedViews` is the refinement of `PublishedViews` (`ShowsPublishedStates`): an action of the relay that is not a publication
moves at most one copy, and what it applies is a checkpoint or continues the copy and lies at or below the last record (`OneTabMoves`).

**WorkspaceMutationProofs.** Every step of the system is one of six moves of the lease queue
(`LeaseMove`: nothing, acquire, release, abort, mark, reset). `LeaseInv` (types, `Ordered`: of two waiting requests one
was there first, `Apart`) is kept by each. From it `LeasesAreApart`, `ServedInOrder` (an action property)
and `TypeCorrect`, for any number of writers and any owned paths. `RevertsKeepOthersWork`: a revert to a cleanly captured checkpoint never
undoes another session's write, over stops that leave tools behind and over restarts. The gate counts
marks, not writes, so the invariant `RevertInv` says why marks are enough: `ToolsMarked` (a running tool has marked),
`CapturesOwn` and `RestoresLeased` (who holds which lease meanwhile), and `GateInv`: every
write a clean checkpoint may lack is by a session whose latest mark is younger, every child that may write has
marked, and (`StoreInv`) nothing is written before its mark is in the store, so that a restart that keeps
the epoch forgets nothing. `RevertsRestoreAlone` states
`RestoresAlone`, also after stops. `RefusalsHaveReasons` states
`RefusalsHaveReason`: by `ReasonInv` no session's latest mark is beyond its generation, what a checkpoint captured is accounted for, and a
queued revert has its target, so that a refusal points to a mark that was really made.

**CoordinationProofs.** Under `EditsAssumption` and `SchedulerAssumption`, for any number of edits, requests and commands.
`OneAtATime` (`OneEditPerPath`) and `MapEmpties` (`NothingLeftLocked`): the edits concerned with a path form a line (`Lined`) in which
everybody waits for another one, two never for the same, and nobody waits in a circle, which is stated over sets of waiters; so the map
loses a path only when the line is empty. `WaitersSeeBusy` (`WaitingMeansBusy`) and `PermitsInOrder` (`AdmittedInOrder`): whom one drain
takes is a recursive idea, but it has a first-order description (`FirstOf`, `TakenFirst`, `TakenStops`): whoever is taken preceded
all that stay, and drain stops at one that cannot be admitted and that nobody precedes.
`RoomOffered` (`RoomIsOffered`): every action that makes room ends in a pump (`Offered`).
Of the store lock `OperationsExclusive` states `OneOperationWhileAllLive` for any number of callers, processes and failed calls, until one leaves
the directory without its file: the invariant
`NobodyReclaims` (contenders never find a reason to remove anything) and `OneOwner` (one caller between mkdir and removal, and its file is there) are
needed together, since a wrongful reclaim is what would make a second owner. `TwoCallersExclusive`
keeps exclusion, and the owner's file, over deaths and failures until the directory is disowned, for two callers that are not slow to write:
beside a dead caller the other one is alone (`Orderly`). Both rest on `CallersAssumption` and `SeenAssumption`.
`TypeCorrect` includes that there are no owner files without a directory. `TwoCallersImplementExclusiveUse` is the refinement of
`ExclusiveUse` by two callers, `~SlowWrites`, as long as the directory is not disowned: a step that starts to operate finds nobody operating, and all
others map to a return, a death or a stutter. `StoreLockIsExclusive` is this property of the run's pair of callers.

**CodeIndexProofs.** `VisibleWhole` states `VisibleIsWhole` for any number of files, workers, crashes,
cancellations and lapses, under `IndexAssumption`. It is not inductive: the invariant adds `SessionsHeld` (a
fenced session belongs to the holder of the lease), `Shape` (of a job by itself: a batch names a file once and what is done is part of
it) and `Claims` (what the *holder* of the lease may rely on at each stage: the members of its batch that are not
activated have no rows, the one that is copied has its batches counted and is not visible, what
is done is visible). A worker that lost its lease claims nothing, which is why the fence at the first step of a session is
enough. `Unseen` and `Apart` are the arguments behind a copy: the rows of a generation that is not shown may change
unseen, and the members of a batch have no file in common. Of most actions only a few fields of one job change (`OneActs`, `Quiet`), so a lemma per group of actions is enough.

`OneWorkerShown` states `OneWorkerCurrent`: with a single worker (`Single`), an entry of the vector cache that is called current is
what the store shows. Journal, cache and store change in different steps, so the invariant `Coherent` says for each stage of a job
how far they have come: the batch is in the journal from its staging on, in the cache from the
structural write on, and visible when it is confirmed; the files a removal releases have no entry any more; a reset that empties the
caches is marked (`Knows`). The job's own copy of the cache is the cache, unless it is about to be emptied (`Synced`). The journal is of one kind, has a file once, and where
the source shows an operation's generation it shows its content (`JournalSound`), which is what lets recovery judge
by the manifest. `IndexAssumption` says that the mark for *no entry* is not an entry.

**SessionPersistenceProofs.** `AcknowledgedStays`, `RevisionsKnown`, `SavesReachTheDisk` and `DurableIsFlushed` state
`AcknowledgedSurvives`, `RevisionKnown`, `SavedUnlessOvertaken` and `DurableReferencesFlushed` for any sessions, changes, requests, failures,
crashes and power losses, under `BoundsAssumption`; `InductiveInvariant` states `IInv`, which TLC checked before, and `TypeCorrect` the types.
What was promised stays because saves reach the disk in the order of their age: one save of a session runs at a time
(`RunningInv`), captured records wait in the order they were captured (`CapturedInv`), of the others at most one waits and writes
the session as it is (`WaitingInv`), and no number is ahead of the clock (`Clocked`). How far the running operation has got is
`KnownInv` (what the store believes of the transcript is so), `WriteInv` (past the transcript, the metadata's is on its tier)
and `ListedInv` (past the metadata, the session is in the index and in the flush it waits for, on its tier). `RevisionInv` says
that an expected revision is one the disk has had, so that the store never says *not found*; `OwedInv` says which save will write what is
owed: the last one that waits, or the one that runs, or one that has ended. The invariant speaks of one session at a
time, so a step of one session keeps that of the others unless it flushes the index.

Only model-checked: the liveness properties (`ConvergesOrParks`, `CheckpointRequestsAnswered`, `DemandConverges`,
`TimersSettle`, `EveryCommandStarts`, `OneTabConverges`, `WaitersServed`, `NobodyWaits`, `EveryEditEnds`,
`InteractiveServed`, `OneFaultConverges`), since fairness and ENABLED are beyond the prover. No theorem is claimed of the four
properties that fail.

## Not modelled

- *Routing, authentication, pairing, discovery, HTTP*: I/O and parsing.
- *Contents*: what an event, a checkpoint, a transcript or a memory holds; chunking, embedding, search.
- *Owner and helper generations*: takeover of an owner id, replacement of the helper, a tab that changes
  owner; `OwnerCommands` has owner restarts and lapses, the others one generation.
- *Around the index worker*: the manager's queue and watchdog, compaction, native indexes, snapshots, migrations.
- *Sessions*: deletion, pruning, reverts and handoffs of saved ones. *Fleets*: admission of background agents.
- *Overlapping resynchronisations* of one tab, whose flags are shared.
- *Engine*: providers, retries, condensing, budgets. *Processes and sandbox*: operating system interfaces. *Approvals*: sequential analysis
  of command lines. *MCP, plugins, user interface, telemetry*: connections and rendering.

`PROJECT.json` gives the reason for each component.

## Plan

1. Done: `OwnerPublication`; `OwnerCommands` refining `OperationLifecycle`; `BrowserRelay` refining
   `PublishedViews`; `WorkspaceMutation`; `StoreLock` refining `ExclusiveUse`; `FileLock`, `ModelRequestScheduler` and `TerminalPool`;
   `CodeIndexPublication`; `SessionPersistence`; proofs of their safety properties and refinements.
2. Generations: owner takeover and helper replacement across `OwnerCommands` and `BrowserRelay`.
3. The queue and watchdog of the index manager above `CodeIndexPublication`, and compaction beside it.
4. Deletion, pruning and reverts of saved sessions, the snapshot queue of Ask Agent, the admission policy of `FleetScheduler`.
5. Proofs: what a second worker may still rely on in the caches
   (`OneWorkerCurrent` for files that only one of them touches).

The number of runs is kept to about a dozen: a new instance joins the MC module of its component, and a new module takes one
run for its passing properties and, where the code disagrees with its documentation, one more.
