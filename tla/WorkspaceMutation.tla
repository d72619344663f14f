------------------------- MODULE WorkspaceMutation -------------------------
(***************************************************************************)
(* Who may change the files of a workspace, and when.                      *)
(*                                                                         *)
(* WorkspaceMutationCoordinator hands out leases first come, first served: *)
(* unrestricted ones (a foreground turn, a background writer without owned *)
(* paths), path-delegated ones (a background writer that owns paths) and   *)
(* exclusive ones (checkpoint capture, revert).  It also counts mutations  *)
(* per session, so that a revert can tell whether somebody else changed    *)
(* the workspace since a checkpoint was captured.  AgentSessionManager     *)
(* takes and returns the leases: a turn prepares, captures a checkpoint,   *)
(* runs its tools, captures again and ends.                                *)
(*                                                                         *)
(* One agent tree: a foreground session Root and the background writers it *)
(* spawned.  Trees coordinate independently, and every domain covers all   *)
(* the project roots, so there is one root.                                *)
(***************************************************************************)
EXTENDS Integers, FiniteSets

CONSTANTS
    Root,            \* the foreground session, coordinator of the tree
    Children,        \* its background writers
    Files,           \* what owned paths cover
    Owned,           \* the files a child's ownedPaths cover; {}: unrestricted
    MaxGeneration,   \* bound: writers mark no mutation past this generation
    Budgets          \* bounds: what a behaviour may have of the user and the host

Sessions == {Root} \cup Children
Uses == {"turn", "capture", "revert"}
Holders == Sessions \X Uses

ASSUME SessionsAssumption ==
    /\ Root \notin Children
    /\ Owned \in [Sessions -> SUBSET Files] /\ Owned[Root] = {}

\* How many reverts, questions of background writers, stops and restarts of
\* the extension host, and which children are spawned.
BudgetSet ==
    [reverts : Nat, asks : Nat, stops : Nat, restarts : Nat, writers : SUBSET Children]

ASSUME BoundsAssumption == MaxGeneration \in Nat /\ Budgets \subseteq BudgetSet

VARIABLES
    waiting,      \* the pending requests
    ahead,        \* for each of them, those that were there before it
    active,       \* the active leases
    marked,       \* the leases that have mutation snapshots
    epoch, generation, latest,   \* the coordinator's mutation state
    saved,        \* what its store holds: the epoch, and if any root is in it
    phase,        \* where each session's turn is
    begun,        \* whether Root has had its first turn
    sent,         \* the child whose question a coordinator turn waits for; Root: none
    coordinating, \* the child whose question Root's turn is for; Root: none
    heard,        \* the children whose question Root's model has seen
    capture,      \* the checkpoint being captured
    checkpoint,   \* Root's checkpoint
    revert,       \* the revert the user asked for
    signal,       \* Root's abort signal: none, live or aborted
    orphans,      \* tools that outlive their stopped turn, and how far they are
    budget        \* what is left of the bounds

leases == <<waiting, ahead, active, marked>>
counts == <<epoch, generation, latest, saved>>
user == <<checkpoint, revert, signal>>
turns == <<begun, sent, coordinating>>
vars == <<leases, counts, phase, turns, heard, capture, user, orphans, budget>>

-----------------------------------------------------------------------------
(* The coordinator.                                                        *)

Exclusive(h) == h[2] # "turn"
Delegated(h) == ~Exclusive(h) /\ Owned[h[1]] # {}

IntersectsUnlessDelegated(h, k) ==
    IF Delegated(h) \/ Delegated(k)
    THEN Delegated(h) /\ Delegated(k) /\ Owned[h[1]] \cap Owned[k[1]] # {}
    ELSE TRUE

\* domainsIntersect, within one scope and root.
Intersects(h, k) ==
    \/ Exclusive(h) \/ Exclusive(k)
    \/ Delegated(h) /\ Delegated(k) /\ Owned[h[1]] \cap Owned[k[1]] # {}
    \/ ~Delegated(h) /\ ~Delegated(k)

GrantableOutOfTurn(w, before, held) ==
    {h \in w : (\A k \in held : ~Intersects(h, k))
               /\ \A k \in before[h] : Intersects(h, k) => \E j \in held : Intersects(j, k)}

\* drain: a request is granted if no active lease and no earlier request
\* intersects it.  An earlier one that is granted in the same pass has
\* become active, so one pass grants exactly these.
Grantable(w, before, held) ==
    {h \in w : (\A k \in held : ~Intersects(h, k))
               /\ \A k \in before[h] : ~Intersects(h, k)}

\* The leases after a drain of the queue (w, before) under the leases held.
Drain(w, before, held) ==
    LET granted == Grantable(w, before, held)
    IN  /\ waiting' = w \ granted
        /\ ahead' = [h \in Holders |-> IF h \in w \ granted THEN before[h] \ granted ELSE {}]
        /\ active' = held \cup granted
        /\ marked' = marked \cap held

Acquire(h) == Drain(waiting \cup {h}, [ahead EXCEPT ![h] = waiting], active)

ReleaseWithoutDrain(hs) ==
    /\ active' = active \ hs /\ marked' = marked \ hs
    /\ UNCHANGED <<waiting, ahead>>

\* release: of a lease that is not active it does nothing.
Release(hs) ==
    IF hs \cap active = {} THEN UNCHANGED leases ELSE Drain(waiting, ahead, active \ hs)

\* onAbort: the requests leave the queue, and nothing is drained.
Abort(hs) ==
    /\ waiting' = waiting \ hs
    /\ ahead' = [h \in Holders |-> IF h \in hs THEN {} ELSE ahead[h] \ hs]
    /\ UNCHANGED <<active, marked>>

\* sessionOwnsMutationLease: a revert's lease is in no lease holder.
Owns(s) == {<<s, "turn">>, <<s, "capture">>} \cap active # {}

-----------------------------------------------------------------------------
(* Checkpoints.  missed and clean are history: the sessions with a write   *)
(* the captured files may lack, and whether nothing was being changed      *)
(* while they were captured; touched: who marked a mutation since.         *)

NoCheckpoint == [exists |-> FALSE, epoch |-> 0, generation |-> 0,
                 clean |-> TRUE, missed |-> {}, touched |-> {}]
Checkpoints == [exists : BOOLEAN, epoch : Nat, generation : Nat, clean : BOOLEAN,
                missed : SUBSET Sessions, touched : SUBSET Sessions]
NoCapture == [stage |-> "none", missed |-> {}]
NoRevert == [stage |-> "none", live |-> FALSE, target |-> NoCheckpoint]

ToolStages == {"marking", "writing"}
InProgress == {s \in Sessions : phase[s] \in ToolStages \/ \E g \in ToolStages : <<s, g>> \in orphans}

Missing(c, ss) == [c EXCEPT !.missed = @ \cup ss]
Touched(c, ss) == [c EXCEPT !.touched = @ \cup ss]

\* A write of s begins, or goes on: nothing captured until now holds it.
Writes(s) ==
    /\ checkpoint' = Missing(checkpoint, {s})
    /\ revert' = [revert EXCEPT !.target = Missing(@, {s})]
    /\ capture' = IF capture.stage = "reading" THEN Missing(capture, {s}) ELSE capture

ConflictsAtGeneration(c) ==
    \/ c.epoch # epoch
    \/ \E s \in Children : latest[s] >= c.generation

\* findConflict.
Conflicts(c) ==
    \/ c.epoch # epoch
    \/ \E s \in Children : latest[s] > c.generation

\* markMutation of a lease of s, its synchronous part.
Bump(s) ==
    /\ generation' = generation + 1
    /\ latest' = [latest EXCEPT ![s] = generation + 1]

Spend(what) == budget[what] > 0 /\ budget' = [budget EXCEPT ![what] = @ - 1]

-----------------------------------------------------------------------------
Init ==
    /\ waiting = {} /\ ahead = [h \in Holders |-> {}] /\ active = {} /\ marked = {}
    /\ epoch = 0 /\ generation = 0 /\ latest = [s \in Sessions |-> 0]
    /\ saved = [epoch |-> 0, roots |-> FALSE]
    /\ phase = [s \in Sessions |-> "idle"] /\ heard = {}
    /\ begun = FALSE /\ sent = Root /\ coordinating = Root
    /\ capture = NoCapture /\ checkpoint = NoCheckpoint /\ revert = NoRevert
    /\ signal = "none" /\ orphans = {}
    /\ budget \in Budgets

Move(s, to) == phase' = [phase EXCEPT ![s] = to]

\* sendMessage: a live controller, then the turn lease if the mode has
\* tools that may change the workspace.
StartTurn(for) ==
    /\ phase[Root] = "idle"
    /\ signal' = "live" /\ revert' = [revert EXCEPT !.live = FALSE]
    /\ sent' = Root /\ coordinating' = for /\ heard' = {for} \cap Children
    /\ \/ Acquire(<<Root, "turn">>) /\ Move(Root, "queued")
       \/ Move(Root, "opening") /\ UNCHANGED leases
    /\ UNCHANGED <<counts, begun, capture, checkpoint, orphans, budget>>

\* Messages to one session queue: the coordinator turn that waits goes first.
UserTurn == sent = Root /\ StartTurn(Root)

CoordinatorTurn == sent \in Children /\ StartTurn(sent)

\* ensureWorkspaceMutationLease goes on with its lease.
TurnLeased(s) ==
    /\ phase[s] = "queued" /\ <<s, "turn">> \in active
    /\ Move(s, IF s = Root THEN "opening" ELSE "running")
    /\ UNCHANGED <<leases, counts, turns, heard, capture, user, orphans, budget>>

\* Where Root captures a checkpoint: at the start of a turn, except for the
\* session's first one, after an interjection and at the end.
Capturing ==
    \/ phase[Root] \in {"interjected", "closing"}
    \/ phase[Root] = "opening" /\ begun

\* ensureCheckpointForTurn without a lease of its own takes an exclusive
\* one; with one, of whatever kind, it captures right away.
RequestCapture ==
    /\ Capturing /\ capture.stage = "none" /\ ~Owns(Root)
    /\ Acquire(<<Root, "capture">>)
    /\ capture' = [capture EXCEPT !.stage = "queued"]
    /\ UNCHANGED <<counts, phase, turns, heard, user, orphans, budget>>

BeginCapture ==
    /\ Capturing /\ Owns(Root) /\ capture.stage # "reading"
    /\ capture' = [stage |-> "reading", missed |-> InProgress]
    /\ UNCHANGED <<leases, counts, phase, turns, heard, user, orphans, budget>>

\* run: a new controller, whatever became of the one of the turn's start.
Run ==
    /\ Move(Root, "running") /\ signal' = "live"
    /\ revert' = [revert EXCEPT !.live = FALSE] /\ begun' = TRUE

\* The turn goes on after its capture; a stopped run comes to its end.
GoOn ==
    IF phase[Root] = "opening" THEN Run
    ELSE /\ Move(Root, IF signal = "aborted" \/ phase[Root] = "closing" THEN "closed"
                       ELSE "running")
         /\ UNCHANGED <<signal, revert, begun>>

\* createCheckpoint returned; getSnapshot is taken now.  It may have failed,
\* or the user has an older checkpoint in mind.
EndCapture ==
    /\ capture.stage = "reading"
    /\ Release({<<Root, "capture">>})
    /\ capture' = NoCapture /\ GoOn
    /\ \/ LET missed == capture.missed \cup InProgress
          IN  checkpoint' = [exists |-> TRUE, epoch |-> epoch, generation |-> generation,
                             clean |-> missed = {}, missed |-> missed, touched |-> {}]
       \/ UNCHANGED checkpoint
    /\ UNCHANGED <<counts, sent, coordinating, heard, orphans, budget>>

\* The first message of a session has nothing before it to capture.
FirstTurn ==
    /\ phase[Root] = "opening" /\ ~begun /\ Run
    /\ UNCHANGED <<leases, counts, sent, coordinating, heard, capture, checkpoint, orphans,
                   budget>>

\* The engine hands the model a question that waits for it.
Interject(c) ==
    /\ phase[Root] = "running" /\ phase[c] = "asking" /\ c \notin heard
    /\ heard' = heard \cup {c} /\ Move(Root, "interjected")
    /\ UNCHANGED <<leases, counts, turns, capture, user, orphans, budget>>

\* respondToBackgroundQuestion.
Answer(c) ==
    /\ phase[Root] = "running" /\ c \in heard /\ phase[c] = "asking"
    /\ Move(c, "running") /\ heard' = heard \ {c}
    /\ UNCHANGED <<leases, counts, turns, capture, user, orphans, budget>>

\* The run is done.  A coordinator answers what it was asked before that.
Finish ==
    /\ phase[Root] = "running" /\ \A c \in heard : phase[c] # "asking"
    /\ Move(Root, "closing")
    /\ UNCHANGED <<leases, counts, turns, heard, capture, user, orphans, budget>>

\* releasePreparedTurnMutationLease.
EndTurn(s) ==
    /\ phase[s] = "closed"
    /\ Release({<<s, "turn">>}) /\ Move(s, "idle")
    /\ coordinating' = IF s = Root THEN Root ELSE coordinating
    /\ UNCHANGED <<counts, begun, sent, heard, capture, user, orphans, budget>>

-----------------------------------------------------------------------------
(* Background writers.                                                     *)

\* spawnBackground: a writer that owns no paths is refused while Root holds
\* a lease.
Spawn(c) ==
    /\ phase[Root] = "running" /\ phase[c] = "idle" /\ c \in budget.writers
    /\ Owned[c] # {} \/ ~Owns(Root)
    /\ Move(c, "spawned")
    /\ UNCHANGED <<leases, counts, turns, heard, capture, user, orphans, budget>>

\* The run begins by taking its lease, or fails with workspace_conflict.
Launch(c) ==
    /\ phase[c] = "spawned"
    /\ IF Owned[c] = {} /\ Owns(Root)
       THEN Move(c, "idle") /\ UNCHANGED leases
       ELSE Acquire(<<c, "turn">>) /\ Move(c, "queued")
    /\ UNCHANGED <<counts, turns, heard, capture, user, orphans, budget>>

\* ask_user of a background writer goes to the coordinator: as an
\* interjection while it is active, else with a turn of its own.
CoordinatorActive ==
    \/ phase[Root] \in {"running", "interjected", "marking", "writing"}
    \/ sent # Root \/ coordinating # Root

Ask(c) ==
    /\ phase[c] = "running" /\ Spend("asks") /\ Move(c, "asking")
    /\ sent' = IF CoordinatorActive THEN sent ELSE c
    /\ UNCHANGED <<leases, counts, begun, coordinating, heard, capture, user, orphans>>

Complete(c) ==
    /\ phase[c] = "running" /\ Move(c, "closed")
    /\ UNCHANGED <<leases, counts, turns, heard, capture, user, orphans, budget>>

-----------------------------------------------------------------------------
(* Writes.                                                                 *)

MarksOncePerLease(s) == <<s, "turn">> \notin marked

\* Whether markMutation counts: always for a delegated lease, once for the
\* others.
Marks(s) == <<s, "turn">> \notin marked \/ Owned[s] # {}

MayWriteUnchecked(s) == phase[s] = "running"

\* A tool that changes files needs the turn's lease.
MayWrite(s) == phase[s] = "running" /\ <<s, "turn">> \in active

\* prepareSessionProjectMutation, up to the awaited save.
PrepareMutation(s) ==
    /\ MayWrite(s)
    /\ IF Marks(s)
       THEN /\ generation < MaxGeneration /\ Bump(s)
            /\ marked' = marked \cup {<<s, "turn">>}
            /\ checkpoint' = Touched(checkpoint, {s})
            /\ revert' = [revert EXCEPT !.target = Touched(@, {s})]
            /\ Move(s, "marking") /\ UNCHANGED capture
       ELSE /\ Writes(s) /\ Move(s, "writing")
            /\ UNCHANGED <<generation, latest, marked>>
    /\ UNCHANGED <<waiting, ahead, active, epoch, saved, turns, heard,
                   signal, orphans, budget>>

\* The store has the mutation state; the tool begins to write.
BeginWrite(s) ==
    /\ phase[s] = "marking" /\ Move(s, "writing")
    /\ saved' = [epoch |-> epoch, roots |-> TRUE]
    /\ Writes(s)
    /\ UNCHANGED <<leases, epoch, generation, latest, turns, heard, signal,
                   orphans, budget>>

EndWrite(s) ==
    /\ phase[s] = "writing" /\ Move(s, "running")
    /\ UNCHANGED <<leases, counts, turns, heard, capture, user, orphans, budget>>

\* The tool of a stopped turn goes on, and comes to its end on its own.
OrphanWrites(s) ==
    /\ <<s, "marking">> \in orphans
    /\ orphans' = (orphans \ {<<s, "marking">>}) \cup {<<s, "writing">>}
    /\ saved' = [epoch |-> epoch, roots |-> TRUE]
    /\ Writes(s)
    /\ UNCHANGED <<leases, epoch, generation, latest, phase, turns, heard, signal, budget>>

OrphanEnds(s) ==
    /\ <<s, "writing">> \in orphans /\ orphans' = orphans \ {<<s, "writing">>}
    /\ UNCHANGED <<leases, counts, phase, turns, heard, capture, user, budget>>

-----------------------------------------------------------------------------
(* Reverts.                                                                *)

\* revertWorkspaceToCheckpoint passes the signal as it is: acquire rejects
\* an aborted one.
RequestRevert ==
    /\ revert.stage \in {"none", "refused"} /\ checkpoint.exists /\ Spend("reverts")
    /\ IF signal = "aborted"
       THEN revert' = [NoRevert EXCEPT !.stage = "refused"] /\ UNCHANGED leases
       ELSE /\ Acquire(<<Root, "revert">>)
            /\ revert' = [stage |-> "queued", live |-> signal = "live", target |-> checkpoint]
    /\ UNCHANGED <<counts, phase, turns, heard, capture, checkpoint, signal, orphans>>

\* The lease is granted.  The revert is refused on a conflict, or if there
\* is no checkpoint manager or the workspace is not what was previewed; else
\* it is marked and saved.
JudgeRevert ==
    /\ revert.stage = "queued" /\ <<Root, "revert">> \in active
    /\ \/ /\ Release({<<Root, "revert">>}) /\ revert' = NoRevert
          /\ UNCHANGED <<counts, checkpoint>>
       \/ /\ ~Conflicts(revert.target)
          /\ Bump(Root) /\ saved' = [epoch |-> epoch, roots |-> TRUE]
          /\ revert' = [revert EXCEPT !.stage = "restoring"]
          /\ checkpoint' = Touched(checkpoint, {Root})
          /\ UNCHANGED <<leases, epoch>>
    /\ UNCHANGED <<phase, turns, heard, capture, signal, orphans, budget>>

EndRevert ==
    /\ revert.stage = "restoring" /\ revert' = NoRevert
    /\ Release({<<Root, "revert">>})
    /\ UNCHANGED <<counts, phase, turns, heard, capture, checkpoint, signal, orphans,
                   budget>>

-----------------------------------------------------------------------------
(* Stop and restart.                                                       *)

\* A request that was granted a moment ago goes on before anything else.
Settled == \A s \in Sessions :
    /\ phase[s] = "queued" => <<s, "turn">> \in waiting
    /\ s = Root /\ Capturing /\ capture.stage # "reading" =>
           <<Root, "turn">> \in active \/ <<Root, "capture">> \in waiting

\* The requests that listen to the signals of the sessions ss.
Listening(ss) == {h \in waiting : h[1] \in ss /\ (h[2] = "revert" => revert.live)}

\* Where a stopped turn is afterwards.  A capture is read to its end, an
\* opening turn that waits for no lease goes on, and the engine does not
\* wait for the tool that is running.
Stopped(s) ==
    CASE s = Root /\ Capturing /\ capture.stage # "queued" -> phase[s]
      [] phase[s] = "opening" /\ ~begun                    -> phase[s]
      [] phase[s] = "spawned"                              -> "idle"
      [] OTHER                                             -> "closed"

\* stopSession, of the tree or of a child, and interruptSession of Root.  A
\* coordinator turn that did not get its lease leaves the question to the
\* human, who answers it.
Stop(stopping) ==
    LET ss == {s \in stopping : phase[s] \notin {"idle", "closed"}}
        rejected == Listening(ss)
        freed == IF rejected \cap {<<Root, "turn">>, <<Root, "capture">>} = {} THEN {}
                 ELSE {coordinating} \cap {c \in Children \ ss : phase[c] = "asking"}
    IN  /\ ss # {} /\ Settled /\ Spend("stops")
        /\ Abort(rejected)
        /\ phase' = [s \in Sessions |-> IF s \in ss THEN Stopped(s)
                                        ELSE IF s \in freed THEN "running" ELSE phase[s]]
        /\ capture' = IF <<Root, "capture">> \in rejected THEN NoCapture ELSE capture
        /\ revert' = IF <<Root, "revert">> \in rejected THEN NoRevert ELSE revert
        /\ signal' = IF Root \in ss THEN "aborted" ELSE signal
        /\ orphans' = orphans \cup {<<s, phase[s]>> : s \in {s \in ss : phase[s] \in ToolStages}}
        /\ heard' = heard \ ss
        /\ UNCHANGED <<counts, turns, checkpoint>>

\* The extension host restarts.  The session and its checkpoint are on disk.
\* restore rejects the state of a scoped root: it keeps the epoch only if
\* nothing was marked, and else begins one, whose first save may come late.
Restart ==
    /\ Spend("restarts")
    /\ waiting' = {} /\ ahead' = [h \in Holders |-> {}] /\ active' = {} /\ marked' = {}
    /\ generation' = 0 /\ latest' = [s \in Sessions |-> 0]
    /\ IF saved.roots
       THEN /\ epoch' = epoch + 1
            /\ saved' \in {saved, [epoch |-> epoch + 1, roots |-> FALSE]}
       ELSE UNCHANGED <<epoch, saved>>
    /\ phase' = [s \in Sessions |-> "idle"] /\ heard' = {}
    /\ sent' = Root /\ coordinating' = Root
    /\ capture' = NoCapture /\ revert' = NoRevert /\ signal' = "none" /\ orphans' = {}
    /\ UNCHANGED <<begun, checkpoint>>

-----------------------------------------------------------------------------
RootStep ==
    \/ UserTurn \/ CoordinatorTurn \/ RequestCapture \/ BeginCapture \/ EndCapture
    \/ FirstTurn \/ Finish \/ RequestRevert \/ JudgeRevert \/ EndRevert
ChildStep(c) ==
    Interject(c) \/ Answer(c) \/ Spawn(c) \/ Launch(c) \/ Ask(c) \/ Complete(c)
SessionStep(s) ==
    TurnLeased(s) \/ EndTurn(s) \/ PrepareMutation(s) \/ BeginWrite(s) \/ EndWrite(s)
    \/ OrphanWrites(s) \/ OrphanEnds(s)

Next ==
    \/ RootStep \/ Restart
    \/ \E c \in Children : ChildStep(c)
    \/ \E s \in Sessions : SessionStep(s) \/ Stop({s})
    \/ Stop(Sessions)

Spec == Init /\ [][Next]_vars

\* What the programs do on their own; a run makes finitely many tool calls,
\* so it ends.  Nobody has to send a message, spawn, ask, write or revert.
FairSpec ==
    /\ Spec
    /\ WF_vars(CoordinatorTurn) /\ WF_vars(RequestCapture) /\ WF_vars(BeginCapture)
    /\ WF_vars(EndCapture) /\ WF_vars(FirstTurn) /\ SF_vars(Finish)
    /\ WF_vars(JudgeRevert) /\ WF_vars(EndRevert)
    /\ \A c \in Children :
           WF_vars(Interject(c)) /\ WF_vars(Answer(c)) /\ WF_vars(Launch(c)) /\ SF_vars(Complete(c))
    /\ \A s \in Sessions :
           WF_vars(TurnLeased(s)) /\ WF_vars(EndTurn(s)) /\ WF_vars(BeginWrite(s))
           /\ WF_vars(EndWrite(s)) /\ WF_vars(OrphanWrites(s))
           /\ WF_vars(OrphanEnds(s))

-----------------------------------------------------------------------------
(* Properties.                                                             *)

TypeOK ==
    /\ waiting \subseteq Holders /\ ahead \in [Holders -> SUBSET Holders]
    /\ active \subseteq Holders /\ marked \subseteq active
    /\ epoch \in Nat /\ generation \in Nat /\ latest \in [Sessions -> Nat]
    /\ saved \in [epoch : Nat, roots : BOOLEAN]
    /\ phase \in [Sessions -> {"idle", "spawned", "queued", "opening", "running", "interjected",
                               "asking", "marking", "writing", "closing", "closed"}]
    /\ begun \in BOOLEAN /\ sent \in Sessions /\ coordinating \in Sessions
    /\ heard \subseteq Children /\ orphans \subseteq Sessions \X ToolStages
    /\ capture \in [stage : {"none", "queued", "reading"}, missed : SUBSET Sessions]
    /\ checkpoint \in Checkpoints
    /\ revert \in [stage : {"none", "refused", "queued", "restoring"}, live : BOOLEAN,
                   target : Checkpoints]
    /\ signal \in {"none", "live", "aborted"}
    /\ budget \in BudgetSet

\* No two active leases let their holders change the same files: none is
\* exclusive, at most one is unrestricted, and owned paths are disjoint.
\* (WorkspaceMutationCoordinator.drain, domainsIntersect)
LeasesApart ==
    \A h, k \in active : h # k =>
        /\ ~Exclusive(h) /\ ~Exclusive(k)
        /\ Delegated(h) \/ Delegated(k)
        /\ Owned[h[1]] \cap Owned[k[1]] = {}

\* First come, first served: no lease is granted while an earlier request
\* that intersects it still waits, so that a capture or a revert is not
\* starved by writers that keep coming.  (drain)
NoOvertaking ==
    [][\A h \in active' \ active : \A k \in (waiting \cap waiting') \ {h} :
           (h \in waiting => k \in ahead[h]) => ~Intersects(h, k)]_vars

\* A revert to a checkpoint that was captured while nobody was writing does
\* not undo what another session wrote since: the conflict gate sees every
\* such write, even one of a lease that was there before the capture.
\* (findConflict, markMutation, revertWorkspaceToCheckpoint)
RevertKeepsOthersWork ==
    revert.stage = "restoring" /\ revert.target.clean => revert.target.missed \subseteq {Root}

\* The gate refuses a revert only if another session marked a mutation
\* since the checkpoint, as long as the coordinator's epoch is the same.
RefusalsHaveReason ==
    revert.stage = "queued" /\ Conflicts(revert.target) /\ revert.target.epoch = epoch =>
        revert.target.touched \ {Root} # {}

\* While a revert restores files, no turn has a tool that changes any.
\* (revertWorkspaceToCheckpoint: "a revert must not run while any
\* path-delegated writer holds a lease, or it could restore files out from
\* under an in-flight write".  Only a tool that a stop left behind may.)
RestoresAlone == revert.stage = "restoring" => \A s \in Sessions : phase[s] \notin ToolStages

\* A session that queues for a lease gets it or stops waiting.
WaitersServed == \A h \in Holders : h \in waiting ~> h \notin waiting

-----------------------------------------------------------------------------
(* What the repository says and the code does not keep.                    *)

\* A request that nothing blocks does not wait.  (onAbort)
NoGrantableWaiter == Grantable(waiting, ahead, active) = {}

\* A restart of the extension host does not make the gate refuse a revert
\* that no other session's mutation stands against.  (restore)
RestartsKeepReverts ==
    revert.stage = "queued" /\ Conflicts(revert.target) => revert.target.touched \ {Root} # {}
=============================================================================
