------------------------- MODULE SessionPersistence -------------------------
(***************************************************************************)
(* How chat sessions are saved (AgentSessionManager.ts, SessionStore.ts).  *)
(*                                                                         *)
(* The manager runs one save of a session at a time; a further one waits   *)
(* and saves what the session is when its turn comes, unless its caller    *)
(* wanted the session as it was.  The store checks the revision, writes    *)
(* messages.json, then metadata.json, then the index of all sessions, each *)
(* by renaming a temporary file; only durable writes are synced, and what  *)
(* was not synced a power loss may undo.                                   *)
(*                                                                         *)
(* A transcript and a state of a session are the number of the change that *)
(* made them; numbers are never used twice and 0 is none.                  *)
(***************************************************************************)
EXTENDS Integers, Sequences

CONSTANTS
    Sessions,
    MaxChanges, MaxRequests, MaxFaults   \* bounds of the environment

ASSUME BoundsAssumption ==
    MaxChanges \in Nat /\ MaxRequests \in Nat /\ MaxFaults \in Nat

VARIABLES
    \* the manager, for every session
    clock,       \* the last change of any session
    live,        \* the session in memory
    open,        \* the sessions that are in memory
    revision,    \* the revision expected on disk (sessionRevisions)
    queue,       \* saves that wait for the running one (sessionSaveQueues)
    deferred,    \* tier of the one that will save the session as it is then
                 \* (pendingDeferredSaves)
    \* the store
    ops,         \* for every session what runs or waits (sessionWriteQueues)
    step,        \* how far the first of them is
    outcome,     \* how the last of them ended
    known,       \* what messages.json holds (lastTranscriptRevision,
                 \* lastMessagesDigest, messagesFileDurability)
    index,       \* the sessions listed in memory
    flush,       \* tier of the flush that waits (pendingIndexFlush)
    flight,      \* the flush under way (indexWriteChain)
    \* the disk: what a file holds, and what of it a power loss cannot undo
    messages, metadata, listing,
    \* history
    promised,    \* what saveSessionNow reported as saved
    owed,        \* what has a save of its own to expect
    requests, faults

managerVars == <<clock, live, open, revision, queue, deferred>>
storeVars == <<ops, step, outcome, known, index, flush, flight>>
diskVars == <<messages, metadata, listing>>
historyVars == <<promised, owed, requests, faults>>
vars == <<managerVars, storeVars, diskVars, historyVars>>

Tiers == {"checkpoint", "durable"}
NoTier == "none"
NoFlight == [tier |-> NoTier, listed |-> {}]
NoMetadata == [revision |-> 0, text |-> 0, state |-> 0]
NothingKnown == [counter |-> 0, digest |-> 0, tier |-> NoTier]
NothingOwed == [file |-> 0, synced |-> 0]

Both(x) == [file |-> x, synced |-> x]

\* A file written on a tier.
Written(old, new, tier) ==
    [file |-> new, synced |-> IF tier = "durable" THEN new ELSE old.synced]

\* A durable request upgrades a waiting one, never the reverse.
Upgraded(tier, requested) ==
    IF requested = "durable" THEN "durable" ELSE tier

Init ==
    /\ clock = 1 /\ live = [s \in Sessions |-> [text |-> 1, state |-> 1]]
    /\ open = Sessions
    /\ revision = [s \in Sessions |-> 0]
    /\ queue = [s \in Sessions |-> <<>>]
    /\ deferred = [s \in Sessions |-> NoTier]
    /\ ops = [s \in Sessions |-> <<>>]
    /\ step = [s \in Sessions |-> "idle"]
    /\ outcome = [s \in Sessions |-> "ok"]
    /\ known = [s \in Sessions |-> NothingKnown]
    /\ index = {} /\ flush = NoTier /\ flight = NoFlight
    /\ messages = [s \in Sessions |-> Both(0)]
    /\ metadata = [s \in Sessions |-> Both(NoMetadata)]
    /\ listing = Both({})
    /\ promised = [s \in Sessions |-> [text |-> 0, state |-> 0]]
    /\ owed = [s \in Sessions |-> NothingOwed]
    /\ requests = 0 /\ faults = 0

-----------------------------------------------------------------------------
\* The manager

\* The transcript of a session changes, or only its state.
Change(s) ==
    /\ s \in open /\ clock < MaxChanges
    /\ clock' = clock + 1
    /\ \E text \in {live[s].text, clock'} :
        live' = [live EXCEPT ![s] = [text |-> text, state |-> clock']]
    /\ UNCHANGED <<open, revision, queue, deferred, storeVars, diskVars, historyVars>>

Saving(s) == \E i \in DOMAIN ops[s] : ops[s][i].kind = "save"

Busy(s) == Saving(s) \/ queue[s] # <<>>

\* A save of a record, on a tier, against the revision expected by now.
Save(s, captured, record, tier) ==
    [kind |-> "save", captured |-> captured, expected |-> revision[s],
     text |-> record.text, state |-> record.state, tier |-> tier]

Asked(s) == s \in open /\ requests < MaxRequests /\ requests' = requests + 1

Owe(s, tier) ==
    owed' = [owed EXCEPT ![s] =
        [file |-> live[s].state,
         synced |-> IF tier = "durable" THEN live[s].state ELSE @.synced]]

\* A deferred save that waits serves a further request as well.
Coalesce(s, tier) ==
    /\ Asked(s) /\ deferred[s] # NoTier
    /\ deferred' = [deferred EXCEPT ![s] = Upgraded(@, tier)]
    /\ IF queue[s][Len(queue[s])].captured THEN UNCHANGED owed ELSE Owe(s, tier)
    /\ UNCHANGED <<clock, live, open, revision, queue, storeVars, diskVars, promised, faults>>

SaveAtOnce(s, captured, tier) ==
    /\ Asked(s) /\ ~Busy(s) /\ Owe(s, tier)
    /\ ops' = [ops EXCEPT ![s] = Append(@, Save(s, captured, live[s], tier))]
    /\ UNCHANGED <<managerVars, step, outcome, known, index, flush, flight, diskVars, promised, faults>>

Defer(s, tier) ==
    /\ Asked(s) /\ Busy(s) /\ deferred[s] = NoTier /\ Owe(s, tier)
    /\ deferred' = [deferred EXCEPT ![s] = tier]
    /\ queue' = [queue EXCEPT ![s] =
        Append(@, [captured |-> FALSE, text |-> live[s].text, state |-> live[s].state])]
    /\ UNCHANGED <<clock, live, open, revision, storeVars, diskVars, promised, faults>>

\* saveSession
SaveSession(s, tier) ==
    Coalesce(s, tier) \/ SaveAtOnce(s, FALSE, tier) \/ Defer(s, tier)

CaptureBehind(s) ==
    /\ Asked(s) /\ Busy(s) /\ Owe(s, "durable")
    /\ queue' = [queue EXCEPT ![s] =
        Append(@, [captured |-> TRUE, text |-> live[s].text, state |-> live[s].state])]
    /\ UNCHANGED <<clock, live, open, revision, deferred, storeVars, diskVars, promised, faults>>

\* saveSessionNow
SaveSessionNow(s) == SaveAtOnce(s, TRUE, "durable") \/ CaptureBehind(s)

\* What the first waiting save will write: a captured record, or the session
\* as it is now.
DueAsAsked(s) ==
    LET e == Head(queue[s])
    IN Save(s, e.captured, e, IF e.captured THEN "durable" ELSE deferred[s])

Due(s) ==
    LET e == Head(queue[s])
    IN IF e.captured THEN Save(s, TRUE, e, "durable")
       ELSE Save(s, FALSE, live[s], deferred[s])

Start(s) ==
    /\ ~Saving(s) /\ queue[s] # <<>>
    /\ ops' = [ops EXCEPT ![s] = Append(@, Due(s))]
    /\ queue' = [queue EXCEPT ![s] = Tail(@)]
    /\ deferred' = [deferred EXCEPT ![s] = IF Head(queue[s]).captured THEN @ ELSE NoTier]
    /\ UNCHANGED <<clock, live, open, revision, step, outcome, known, index, flush, flight,
                   diskVars, historyVars>>

\* A rename does not queue with the saves; of a session that was not saved
\* before it reads the revision.
Rename(s) ==
    /\ Asked(s) /\ (revision[s] # 0 \/ s \in index)
    /\ LET expected == IF revision[s] # 0 THEN revision[s] ELSE metadata[s].file.revision
       IN /\ revision' = [revision EXCEPT ![s] = expected]
          /\ ops' = [ops EXCEPT ![s] = Append(@,
                [kind |-> "rename", captured |-> FALSE, expected |-> expected,
                 text |-> 0, state |-> 0, tier |-> "durable"])]
    /\ UNCHANGED <<clock, live, open, queue, deferred, step, outcome, known, index, flush,
                   flight, diskVars, promised, owed, faults>>

-----------------------------------------------------------------------------
\* The store: one operation of a session at a time

Op(s) == Head(ops[s])

At(s, stage) == step[s] = stage

Goto(s, stage) == step' = [step EXCEPT ![s] = stage]

\* A rename writes back what it read.
TextOf(s) == IF Op(s).kind = "save" THEN Op(s).text ELSE messages[s].file
StateOf(s) == IF Op(s).kind = "save" THEN Op(s).state ELSE metadata[s].file.state

\* The transcript on disk is the one to be written, as far as the store knows:
\* by its counter or, of a record that was read back, by its digest.
Unchanged(s) ==
    /\ messages[s].file # 0
    /\ IF Op(s).kind = "save" THEN known[s].counter = Op(s).text
       ELSE known[s].digest = messages[s].file

Readable(s) == s \in index /\ messages[s].file # 0 /\ metadata[s].file.revision # 0

\* Nobody else wrote the session since the operation was asked for.
Expected(s) ==
    /\ Op(s).expected = metadata[s].file.revision
    /\ Op(s).kind = "rename" => Readable(s)

BeginWithoutSync(s) ==
    /\ At(s, "idle") /\ ops[s] # <<>> /\ Expected(s)
    /\ Goto(s, IF Unchanged(s) THEN "metadata" ELSE "messages")
    /\ UNCHANGED <<managerVars, ops, outcome, known, index, flush, flight, diskVars, historyVars>>

Begin(s) ==
    /\ At(s, "idle") /\ ops[s] # <<>> /\ Expected(s)
    /\ Goto(s, CASE ~Unchanged(s) -> "messages"
                 [] Unchanged(s) /\ Op(s).tier = "durable" /\ known[s].tier = "checkpoint" -> "sync"
                 [] OTHER -> "metadata")
    /\ UNCHANGED <<managerVars, ops, outcome, known, index, flush, flight, diskVars, historyVars>>

Refuse(s) ==
    /\ At(s, "idle") /\ ops[s] # <<>> /\ ~Expected(s)
    /\ Goto(s, "settled")
    /\ outcome' = [outcome EXCEPT ![s] =
        IF metadata[s].file.revision = 0 \/ (Op(s).kind = "rename" /\ ~Readable(s))
        THEN "not_found" ELSE "conflict"]
    /\ UNCHANGED <<managerVars, ops, known, index, flush, flight, diskVars, historyVars>>

\* The record of a save refers to the messages of the session, which may have
\* grown since; its counter does not.
WriteMessages(s) ==
    /\ At(s, "messages")
    /\ \E text \in TextOf(s) .. IF Op(s).kind = "save" THEN live[s].text ELSE TextOf(s) :
        messages' = [messages EXCEPT ![s] = Written(@, text, Op(s).tier)]
    /\ known' = [known EXCEPT ![s] =
        IF Op(s).kind = "save" THEN [counter |-> Op(s).text, digest |-> 0, tier |-> Op(s).tier]
        ELSE [counter |-> 0, digest |-> TextOf(s), tier |-> Op(s).tier]]
    /\ Goto(s, "metadata")
    /\ UNCHANGED <<managerVars, ops, outcome, index, flush, flight, metadata, listing, historyVars>>

\* The transcript was written on the lower tier and is made durable now.
SyncMessages(s) ==
    /\ At(s, "sync")
    /\ messages' = [messages EXCEPT ![s] = Both(@.file)]
    /\ known' = [known EXCEPT ![s].tier = "durable"]
    /\ Goto(s, "metadata")
    /\ UNCHANGED <<managerVars, ops, outcome, index, flush, flight, metadata, listing, historyVars>>

\* scheduleIndexFlush: a flush that waits serves this one as well.
ScheduledWithoutUpgrade(tier) == IF flush = NoTier THEN tier ELSE flush

Scheduled(tier) == IF flush = NoTier THEN tier ELSE Upgraded(flush, tier)

WriteMetadata(s) ==
    /\ At(s, "metadata")
    /\ metadata' = [metadata EXCEPT ![s] =
        Written(@, [revision |-> @.file.revision + 1, text |-> TextOf(s), state |-> StateOf(s)],
                Op(s).tier)]
    /\ index' = index \cup {s}
    /\ flush' = Scheduled(Op(s).tier)
    /\ Goto(s, "waiting")
    /\ UNCHANGED <<managerVars, ops, outcome, known, flight, messages, listing, historyVars>>

Fault == faults < MaxFaults /\ faults' = faults + 1

\* A file cannot be written or synced; what it held stays.
Fail(s) ==
    /\ \E stage \in {"messages", "sync", "metadata"} : At(s, stage)
    /\ Fault /\ Goto(s, "settled")
    /\ outcome' = [outcome EXCEPT ![s] = "io_error"]
    /\ UNCHANGED <<managerVars, ops, known, index, flush, flight, diskVars, promised, owed, requests>>

Moved(from, to) == [s \in Sessions |-> IF At(s, from) THEN to ELSE step[s]]

\* The index is written as it is when the flush starts.
StartFlush ==
    /\ flush # NoTier /\ flight = NoFlight
    /\ flight' = [tier |-> flush, listed |-> index]
    /\ flush' = NoTier
    /\ step' = Moved("waiting", "flushing")
    /\ UNCHANGED <<managerVars, ops, outcome, known, index, diskVars, historyVars>>

\* Everybody who waits for the flush learns how it ended.
FlushEnds(ending) ==
    /\ flight # NoFlight /\ flight' = NoFlight
    /\ step' = Moved("flushing", "settled")
    /\ outcome' = [s \in Sessions |-> IF At(s, "flushing") THEN ending ELSE outcome[s]]
    /\ UNCHANGED <<managerVars, ops, known, index, flush, messages, metadata, promised, owed, requests>>

WriteIndex ==
    /\ FlushEnds("ok")
    /\ listing' = Written(listing, flight.listed, flight.tier)
    /\ UNCHANGED faults

FailFlush == Fault /\ FlushEnds("io_error") /\ UNCHANGED listing

DurableWaits(s) ==
    deferred[s] = "durable" \/ \E i \in DOMAIN queue[s] : queue[s][i].captured

\* The manager learns the result: the new revision, or the one on disk.
\* A save that did not succeed is not tried again.
LearnedFromSuccess(s) ==
    IF outcome[s] = "ok" THEN metadata[s].file.revision ELSE revision[s]

Learned(s) ==
    IF outcome[s] \in {"ok", "conflict"} THEN metadata[s].file.revision ELSE revision[s]

Settle(s) ==
    /\ At(s, "settled") /\ Goto(s, "idle")
    /\ ops' = [ops EXCEPT ![s] = Tail(@)]
    /\ revision' = [revision EXCEPT ![s] = Learned(s)]
    /\ promised' = IF outcome[s] = "ok" /\ Op(s).captured
                   THEN [promised EXCEPT ![s] = [text |-> Op(s).text, state |-> Op(s).state]]
                   ELSE promised
    /\ owed' = IF outcome[s] = "ok" \/ Op(s).kind = "rename" THEN owed
               ELSE [owed EXCEPT ![s] =
                        [file |-> IF queue[s] = <<>> THEN 0 ELSE @.file,
                         synced |-> IF DurableWaits(s) THEN @.synced ELSE 0]]
    /\ UNCHANGED <<clock, live, open, queue, deferred, outcome, known, index, flush, flight,
                   diskVars, requests, faults>>

-----------------------------------------------------------------------------
\* The extension host dies and comes back with what the disk has.  Listed
\* sessions are read; the index is there, so it is not rebuilt.
Restart ==
    /\ Fault
    /\ index' = listing'.file
    /\ open' = {s \in index' : messages'[s].file # 0 /\ metadata'[s].file.revision # 0}
    /\ live' = [s \in Sessions |->
        [text |-> messages'[s].file, state |-> metadata'[s].file.state]]
    /\ revision' = [s \in Sessions |-> IF s \in open' THEN metadata'[s].file.revision ELSE 0]
    /\ queue' = [s \in Sessions |-> <<>>]
    /\ deferred' = [s \in Sessions |-> NoTier]
    /\ ops' = [s \in Sessions |-> <<>>]
    /\ step' = [s \in Sessions |-> "idle"]
    /\ outcome' = [s \in Sessions |-> "ok"]
    /\ known' = [s \in Sessions |-> NothingKnown]
    /\ flush' = NoTier /\ flight' = NoFlight
    /\ owed' = [s \in Sessions |-> NothingOwed]
    /\ UNCHANGED <<clock, promised, requests>>

Crash == UNCHANGED diskVars /\ Restart

\* The files of sessions that hold what was not synced.
Unsynced(files) == {s \in Sessions : files[s].file # files[s].synced}

\* What the files hold if some of them lose what was not synced.
After(files, lost) ==
    [s \in Sessions |-> Both(IF s \in lost THEN files[s].synced ELSE files[s].file)]

\* Of every file what was renamed into place last is there, or what was synced last.
PowerLoss ==
    /\ \E lost \in SUBSET Unsynced(messages) : messages' = After(messages, lost)
    /\ \E lost \in SUBSET Unsynced(metadata) : metadata' = After(metadata, lost)
    /\ \E listed \in {listing.file, listing.synced} : listing' = Both(listed)
    /\ Restart

Next ==
    \/ \E s \in Sessions :
        \/ Change(s) \/ \E tier \in Tiers : SaveSession(s, tier)
        \/ SaveSessionNow(s) \/ Rename(s) \/ Start(s)
        \/ Begin(s) \/ Refuse(s) \/ WriteMessages(s) \/ SyncMessages(s) \/ WriteMetadata(s)
        \/ Fail(s) \/ Settle(s)
    \/ StartFlush \/ WriteIndex \/ FailFlush \/ Crash \/ PowerLoss

Spec == Init /\ [][Next]_vars

-----------------------------------------------------------------------------
Versions == [text : Nat, state : Nat]
Records == [revision : Nat, text : Nat, state : Nat]
Files(contents) == [file : contents, synced : contents]
Entries == [captured : BOOLEAN, text : Nat, state : Nat]
Operations == [kind : {"save", "rename"}, captured : BOOLEAN, expected : Nat,
               text : Nat, state : Nat, tier : Tiers]
Steps == {"idle", "messages", "sync", "metadata", "waiting", "flushing", "settled"}
Outcomes == {"ok", "conflict", "not_found", "io_error"}

\* The types of the variables.
TypeOK ==
    /\ clock \in Nat /\ live \in [Sessions -> Versions]
    /\ open \subseteq Sessions /\ revision \in [Sessions -> Nat]
    /\ queue \in [Sessions -> Seq(Entries)] /\ deferred \in [Sessions -> Tiers \cup {NoTier}]
    /\ ops \in [Sessions -> Seq(Operations)] /\ step \in [Sessions -> Steps]
    /\ outcome \in [Sessions -> Outcomes]
    /\ known \in [Sessions -> [counter : Nat, digest : Nat, tier : Tiers \cup {NoTier}]]
    /\ index \subseteq Sessions /\ flush \in Tiers \cup {NoTier}
    /\ flight \in [tier : Tiers, listed : SUBSET Sessions] \cup {NoFlight}
    /\ messages \in [Sessions -> Files(Nat)] /\ metadata \in [Sessions -> Files(Records)]
    /\ listing \in Files(SUBSET Sessions)
    /\ promised \in [Sessions -> Versions] /\ owed \in [Sessions -> Files(Nat)]
    /\ requests \in 0 .. MaxRequests /\ faults \in 0 .. MaxFaults

\* A durable version of a session's metadata appears only when the transcript
\* it refers to, or a later one, is safe from a power loss.  (writeSessionRecord)
DurableReferencesFlushed ==
    [][\A s \in Sessions :
        \/ metadata'[s].synced \in {metadata[s].synced, metadata[s].file}
        \/ metadata'[s].synced.text <= messages[s].synced]_vars

\* What saveSessionNow reported as saved is on disk, is listed, and stays so
\* whatever crashes or is written later, unless by something newer.
AcknowledgedSurvives ==
    \A s \in Sessions : promised[s].state # 0 =>
        /\ promised[s].text <= messages[s].file /\ promised[s].text <= messages[s].synced
        /\ promised[s].state <= metadata[s].file.state
        /\ promised[s].state <= metadata[s].synced.state
        /\ s \in listing.file /\ s \in listing.synced

\* Between operations the manager expects the revision that is on disk, unless
\* the last operation could not write: no session is left unable to save.
RevisionKnown ==
    \A s \in open :
        ops[s] = <<>> /\ outcome[s] # "io_error" => revision[s] = metadata[s].file.revision

\* When no save waits or runs, the last change that was to be saved is on disk
\* on the tier that was asked for, unless its save failed or the request was
\* put together with an older one that a captured save had overtaken.
SavedUnlessOvertaken ==
    \A s \in Sessions : ~Busy(s) =>
        /\ owed[s].file <= metadata[s].file.state
        /\ owed[s].synced <= metadata[s].synced.state
=============================================================================
