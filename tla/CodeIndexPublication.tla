------------------------ MODULE CodeIndexPublication ------------------------
(***************************************************************************)
(* The indexer worker: how the files of a workspace get into the retrieval *)
(* store and out of it.  What a job must keep in step lies in four places  *)
(* that no transaction spans: the tables of the store, the vector cache,   *)
(* the structural cache and the journal of intended changes.  A worker may *)
(* die between any two writes; the next job recovers from the journal.     *)
(* A lease on the store fences workers of other windows off.               *)
(*                                                                         *)
(* A step is one write that lasts (a table commit, a cache or journal      *)
(* file), or a decision between two of them.  A batch is published as the  *)
(* code does it: journal, stage all, both caches, activate one by one,     *)
(* clean up, cache, journal, manifests.  A generation's chunk and relation *)
(* rows are appended in two batches.  Texts and their hashes are one       *)
(* value, record ids are those of their generation, and a file's source    *)
(* revisions are ordered by a clock that never runs backwards.  Contents   *)
(* are indexable: a file that turns empty, binary or too large is skipped  *)
(* by every scan and not modelled.                                         *)
(*                                                                         *)
(* Left out: chunking and embedding, compaction, native indexes, the       *)
(* fingerprint and granularity of the cache (Init is an index that an      *)
(* earlier job built over an empty workspace), and the backfill of         *)
(* structural entries, which writes none that names a generation.          *)
(***************************************************************************)
EXTENDS Naturals, FiniteSets

CONSTANTS
  Files, Contents,
  Workers,        \* indexer processes, one per window
  Generations,    \* ids for publications; an unreferenced one is minted again
  Nothing,        \* no content, no entry, no worker
  Edits, Updates, Rebuilds, Touches,  \* how often the outside world acts
  Faults,         \* crashes and cancellations
  Lapses          \* heartbeats of a live worker that came too late

ASSUME IndexAssumption ==
  /\ IsFiniteSet(Files) /\ IsFiniteSet(Generations)
  /\ Nothing \notin Contents \cup Workers \cup Generations
  /\ Nothing \notin [gen : Generations, hash : Contents]
  /\ Nothing \notin [gen : Generations, hash : Contents, visibility : {"pending", "current"}]
  /\ {Edits, Updates, Rebuilds, Touches, Faults, Lapses} \subseteq Nat

VARIABLES
  tree,        \* the workspace: the content of each file, or Nothing
  source,      \* sources table: the visible publication of a file
  rows,        \* chunk and relation rows: batches per file and generation
  staged,      \* staged publications: the state of their manifests
  vector,      \* the vector cache file
  structural,  \* the structural cache file
  journal,     \* the journal file: a set of operations, one per file
  resetting,   \* the reset state file says in-progress
  holder,      \* who holds the writer lease
  job,         \* what each worker is doing, with its copies of the caches
  spent        \* what the outside world has done so far

store == <<source, rows, staged>>
caches == <<vector, structural, journal, resetting>>
vars == <<tree, store, caches, holder, job, spent>>

Whole == 2  \* batches that make a generation

Kinds == {"edits", "updates", "rebuilds", "touches", "faults", "lapses"}
Limit(kind) ==
  CASE kind = "edits" -> Edits     [] kind = "updates" -> Updates
    [] kind = "rebuilds" -> Rebuilds [] kind = "touches" -> Touches
    [] kind = "faults" -> Faults   [] kind = "lapses" -> Lapses
May(kind) == spent[kind] < Limit(kind)
Spend(kind) == spent' = [spent EXCEPT ![kind] = @ + 1]

Publication == [file : Files, gen : Generations, hash : Contents]
Shown == [gen : Generations, hash : Contents]
Cached == [gen : Generations, hash : Contents, visibility : {"pending", "current"}]
Replacement == [kind : {"replace"}, file : Files, gen : Generations,
                hash : Contents, old : Generations \cup {Nothing}]
Removal == [kind : {"remove"}, file : Files, old : Generations \cup {Nothing}]

\* Operators of Files, so that instances may differ in it.
NoEntries(files) == [f \in files |-> Nothing]
Idle(files) ==
       [at |-> "idle", mode |-> "full", listed |-> {}, removed |-> {},
         scanned |-> FALSE, toIndex |-> {}, vector |-> NoEntries(files),
         structural |-> NoEntries(files), dirty |-> FALSE, batch |-> {}, done |-> {},
         one |-> Nothing, gone |-> {}]

\* One fenced session of the store or of the caches: its first step checks
\* the lease and the others follow under the same store lock.
InSession == {"complete", "append", "flip", "receipt", "deleteRows",
              "deleteRest", "pendingStructural", "clearStructural",
              "clearJournal", "forget", "releaseVector", "releaseJournal",
              "resetVector", "resetStructural", "completeReset"}
Stages == InSession \cup
  {"idle", "loaded", "beginReset", "deletePrefix", "resetJournal",
   "replacements", "clearVector", "deletions", "releaseStructural", "scan",
   "intendRemoval", "publish", "intend", "stage", "activate", "confirm",
   "finalize", "finish", "release"}

\* An operator of Files, for the same reason.
Job(files) ==
  [at : Stages, mode : {"full", "force", "update"}, listed : SUBSET files,
   removed : SUBSET files, scanned : BOOLEAN, toIndex : SUBSET files,
   vector : [files -> Cached \cup {Nothing}],
   structural : [files -> Shown \cup {Nothing}], dirty : BOOLEAN,
   batch : SUBSET Publication, done : SUBSET Publication,
   one : Publication \cup {Nothing}, gone : SUBSET files]

TypeOK ==
  /\ tree \in [Files -> Contents \cup {Nothing}]
  /\ source \in [Files -> Shown \cup {Nothing}]
  /\ rows \in [Files -> [Generations -> Nat]]
  /\ staged \in [Generations -> {"none", "staging", "staged", "activated"}]
  /\ vector \in [Files -> Cached \cup {Nothing}]
  /\ structural \in [Files -> Shown \cup {Nothing}]
  /\ journal \subseteq (Replacement \cup Removal)
  /\ resetting \in BOOLEAN
  /\ holder \in Workers \cup {Nothing}
  /\ job \in [Workers -> Job(Files)]
  /\ spent \in [Kinds -> Nat]

Init ==
  /\ tree = NoEntries(Files)
  /\ source = NoEntries(Files)
  /\ rows = [f \in Files |-> [g \in Generations |-> 0]]
  /\ staged = [g \in Generations |-> "none"]
  /\ vector = NoEntries(Files)
  /\ structural = NoEntries(Files)
  /\ journal = {}
  /\ resetting = FALSE
  /\ holder = Nothing
  /\ job = [w \in Workers |-> Idle(Files)]
  /\ spent = [kind \in Kinds |-> 0]

At(w, stage) == job[w].at = stage
Become(w, j) == job' = [job EXCEPT ![w] = j]
Goto(w, stage) == Become(w, [job[w] EXCEPT !.at = stage])
Holds(w) == holder = w

Replacements == {op \in journal : op.kind = "replace"}
Removals == {op \in journal : op.kind = "remove"}
Present == {f \in Files : tree[f] # Nothing}
GenOf(entry) == IF entry = Nothing THEN Nothing ELSE entry.gen
HashOf(entry) == IF entry = Nothing THEN Nothing ELSE entry.hash

\* (A bug: only the ownership an operation started from is accepted.)
JournalFitsOldCache ==
  \A op \in journal : vector[op.file] # Nothing => vector[op.file].gen = op.old

\* validateJournalCacheOwnership: a cached entry is what an operation of the
\* journal found or what it wanted.
JournalFitsCache ==
  \A op \in journal :
    LET entry == vector[op.file] IN
      entry # Nothing =>
        \/ entry.gen = op.old
        \/ op.kind = "replace" /\ entry.gen = op.gen /\ entry.hash = op.hash

-----------------------------------------------------------------------------
(* The start of a job: the caches are read before the lease is taken.      *)

\* handleStart: the listed files are those found when the job was asked for.
\* Ownership that cannot be recovered needs a forced job, which starts from
\* an empty cache.
StartFull(w, force) ==
  LET intact == ~resetting /\ JournalFitsCache IN
  /\ At(w, "idle")
  /\ force \/ intact
  /\ IF force THEN May("rebuilds") /\ Spend("rebuilds") ELSE UNCHANGED spent
  /\ Become(w, [Idle(Files) EXCEPT !.at = "loaded",
                    !.mode = IF force THEN "force" ELSE "full",
                    !.listed = Present,
                    !.vector = IF intact THEN vector ELSE NoEntries(Files),
                    !.structural = structural])
  /\ UNCHANGED <<tree, store, caches, holder>>

\* handleIncrementalUpdate, for the change of one file.
StartUpdate(w, f) ==
  /\ At(w, "idle")
  /\ ~resetting /\ JournalFitsCache
  /\ May("updates") /\ Spend("updates")
  /\ Become(w, [Idle(Files) EXCEPT !.at = "loaded", !.mode = "update",
                    !.listed = {f} \cap Present, !.removed = {f} \ Present,
                    !.vector = vector, !.structural = structural])
  /\ UNCHANGED <<tree, store, caches, holder>>

\* acquireCodeIndexWriterLease, under the store lock.  The lease is free, or
\* its holder's process is gone, or its heartbeat is older than staleMs.
Gone(w) == job[w].at \in {"idle", "loaded"}
Acquire(w) ==
  /\ At(w, "loaded")
  /\ \/ (IF holder = Nothing THEN TRUE ELSE Gone(holder)) /\ UNCHANGED spent
     \/ /\ holder # Nothing /\ ~Gone(holder) /\ job[holder].at \notin InSession
        /\ May("lapses") /\ Spend("lapses")
  /\ holder' = w
  /\ Goto(w, IF job[w].mode = "force" THEN "beginReset" ELSE "replacements")
  /\ UNCHANGED <<tree, store, caches>>

\* The lease is held: the job fails before it has a checkpoint coordinator.
Busy(w) ==
  /\ At(w, "loaded")
  /\ holder # Nothing /\ ~Gone(holder)
  /\ Become(w, Idle(Files))
  /\ UNCHANGED <<tree, store, caches, holder, spent>>

-----------------------------------------------------------------------------
(* The caches are written from the worker's copies, a whole file at once.  *)

WriteVector(w, mine, next) ==
  /\ vector' = mine
  /\ Become(w, [job[w] EXCEPT !.vector = mine, !.dirty = FALSE, !.at = next])

WriteStructural(w, mine, next) ==
  /\ structural' = mine
  /\ Become(w, [job[w] EXCEPT !.structural = mine, !.at = next])

\* (A bug: what is staged is entered as if it were visible.)
EnteredCurrent(cache, ps, visibility) ==
  [f \in Files |->
    IF \E p \in ps : p.file = f
    THEN LET p == CHOOSE q \in ps : q.file = f IN
           [gen |-> p.gen, hash |-> p.hash, visibility |-> "current"]
    ELSE cache[f]]

\* A cache with the entries of some publications put in.
Entered(cache, ps, visibility) ==
  [f \in Files |->
    IF \E p \in ps : p.file = f
    THEN LET p == CHOOSE q \in ps : q.file = f IN
           [gen |-> p.gen, hash |-> p.hash, visibility |-> visibility]
    ELSE cache[f]]
EnteredShown(cache, ps) ==
  [f \in Files |->
    IF \E p \in ps : p.file = f
    THEN LET p == CHOOSE q \in ps : q.file = f IN [gen |-> p.gen, hash |-> p.hash]
    ELSE cache[f]]
Without(cache, gone) == [f \in Files |-> IF f \in gone THEN Nothing ELSE cache[f]]

-----------------------------------------------------------------------------
(* Activation of a staged publication.                                     *)

Append(p) == rows' = [rows EXCEPT ![p.file][p.gen] = @ + 1]

\* (A bug: a replay trusts the copy as a fresh publication does.)
BeginCopyTrusting(w, p, fresh) ==
  /\ staged[p.gen] = "staged"
  /\ Become(w, [job[w] EXCEPT !.one = p,
       !.at = IF GenOf(source[p.file]) = p.gen THEN "receipt" ELSE "append"])
  /\ IF GenOf(source[p.file]) = p.gen THEN UNCHANGED rows ELSE Append(p)
  /\ UNCHANGED <<tree, source, staged, caches, holder, spent>>

\* The batches' rows are appended; a replay (not fresh) clears what an
\* interrupted copy left first.  A source that shows the generation already
\* needs no copy.
BeginCopy(w, p, fresh) ==
  /\ staged[p.gen] = "staged"
  /\ Become(w, [job[w] EXCEPT !.one = p,
       !.at = IF GenOf(source[p.file]) = p.gen THEN "receipt" ELSE "append"])
  /\ IF GenOf(source[p.file]) = p.gen THEN UNCHANGED rows
     ELSE IF fresh THEN Append(p)
     ELSE rows' = [rows EXCEPT ![p.file][p.gen] = 1]
  /\ UNCHANGED <<tree, source, staged, caches, holder, spent>>

AppendRest(w) ==
  /\ At(w, "append")
  /\ Append(job[w].one)
  /\ Goto(w, "flip")
  /\ UNCHANGED <<tree, source, staged, caches, holder, spent>>

Flip(w) ==
  LET p == job[w].one IN
  /\ At(w, "flip")
  /\ source' = [source EXCEPT ![p.file] = [gen |-> p.gen, hash |-> p.hash]]
  /\ Goto(w, "receipt")
  /\ UNCHANGED <<tree, rows, staged, caches, holder, spent>>

\* deleteSupersededGenerations and cleanupSupersededGenerations
OnlyRowsOf(ps) ==
  [f \in Files |-> [g \in Generations |->
    IF \E p \in ps : p.file = f /\ p.gen # g THEN 0 ELSE rows[f][g]]]

\* The manifest says activated.  A replay removes superseded rows here; a
\* batch defers that to Cleanup.
Receipt(w) ==
  LET p == job[w].one
      replay == job[w].batch = {} IN
  /\ At(w, "receipt")
  /\ staged' = [staged EXCEPT ![p.gen] = "activated"]
  /\ rows' = IF replay THEN OnlyRowsOf({p}) ELSE rows
  /\ Become(w, [job[w] EXCEPT !.one = Nothing, !.done = @ \cup {p},
                        !.at = IF replay THEN "confirm" ELSE "activate"])
  /\ UNCHANGED <<tree, source, caches, holder, spent>>

\* The cached entries of what was activated become current.
Confirm(w) ==
  /\ At(w, "confirm") /\ Holds(w)
  /\ WriteVector(w, Entered(job[w].vector, job[w].done, "current"), "forget")
  /\ UNCHANGED <<tree, store, structural, journal, resetting, holder, spent>>

Forget(w) ==
  /\ At(w, "forget")
  /\ journal' = {op \in journal : op.kind = "replace" =>
                    \A p \in job[w].done : p.gen # op.gen}
  /\ Goto(w, "finalize")
  /\ UNCHANGED <<tree, store, vector, structural, resetting, holder, spent>>

\* finalizeActivations
Finalize(w) ==
  /\ At(w, "finalize") /\ Holds(w)
  /\ staged' = [g \in Generations |->
       IF \E p \in job[w].done : p.gen = g THEN "none" ELSE staged[g]]
  /\ Become(w, [job[w] EXCEPT !.done = {},
       !.at = IF job[w].batch = {} THEN "replacements" ELSE "finish"])
  /\ UNCHANGED <<tree, source, rows, caches, holder, spent>>
-----------------------------------------------------------------------------
(* Recovery of interrupted publications, one operation at a time.          *)

PublicationOf(op) == [file |-> op.file, gen |-> op.gen, hash |-> op.hash]

CacheMatches(w, op) ==
  LET entry == job[w].vector[op.file]
      shape == job[w].structural[op.file] IN
    /\ GenOf(entry) = op.gen /\ HashOf(entry) = op.hash
    /\ GenOf(shape) = op.gen /\ HashOf(shape) = op.hash

\* removeUnstagedOperation: the caches are left as they are.
DropUnstaged(w, op) ==
  /\ staged[op.gen] = "none"
  /\ journal' = journal \ {op}
  /\ UNCHANGED <<tree, store, vector, structural, resetting, holder, job, spent>>

\* Both caches own what was staged: it is activated.
RecoverStaged(w, op) ==
  CacheMatches(w, op) /\ BeginCopy(w, PublicationOf(op), FALSE)

\* It was activated already, and the receipt agrees with the source.
RecoverActivated(w, op) ==
  /\ CacheMatches(w, op)
  /\ staged[op.gen] = "activated" /\ GenOf(source[op.file]) = op.gen
  /\ Become(w, [job[w] EXCEPT !.done = {PublicationOf(op)}, !.at = "confirm"])
  /\ UNCHANGED <<tree, store, caches, holder, spent>>

\* The caches and what was staged disagree: it is adopted and aborted.
Abort(w, op) ==
  /\ ~CacheMatches(w, op)
  /\ staged[op.gen] \in {"staging", "staged"}
  /\ staged' = [staged EXCEPT ![op.gen] = "none"]
  /\ Become(w, [job[w] EXCEPT !.one = PublicationOf(op), !.at = "clearVector"])
  /\ UNCHANGED <<tree, source, rows, caches, holder, spent>>

\* An activated publication that the caches do not own is left pending, and
\* the job ends.
LeavePending(w, op) ==
  /\ ~CacheMatches(w, op) /\ staged[op.gen] = "activated"
  /\ Goto(w, "release")
  /\ UNCHANGED <<tree, store, caches, holder, spent>>

RecoverReplacement(w) ==
  /\ At(w, "replacements") /\ Holds(w)
  /\ \E op \in Replacements :
       \/ DropUnstaged(w, op) \/ RecoverStaged(w, op) \/ RecoverActivated(w, op)
       \/ Abort(w, op) \/ LeavePending(w, op)

\* clearUnrecoverableOperation: vector cache, structural cache, journal.
ClearVector(w) ==
  LET p == job[w].one IN
  /\ At(w, "clearVector") /\ Holds(w)
  /\ IF GenOf(job[w].vector[p.file]) = p.gen
     THEN WriteVector(w, Without(job[w].vector, {p.file}), "clearStructural")
     ELSE UNCHANGED vector /\ Goto(w, "clearStructural")
  /\ UNCHANGED <<tree, store, structural, journal, resetting, holder, spent>>

ClearStructural(w) ==
  LET p == job[w].one IN
  /\ At(w, "clearStructural")
  /\ IF GenOf(job[w].structural[p.file]) = p.gen
     THEN WriteStructural(w, Without(job[w].structural, {p.file}), "clearJournal")
     ELSE UNCHANGED structural /\ Goto(w, "clearJournal")
  /\ UNCHANGED <<tree, store, vector, journal, resetting, holder, spent>>

ClearJournal(w) ==
  /\ At(w, "clearJournal")
  /\ journal' = {op \in journal : op.kind = "replace" => op.gen # job[w].one.gen}
  /\ Become(w, [job[w] EXCEPT !.one = Nothing, !.at = "replacements"])
  /\ UNCHANGED <<tree, store, vector, structural, resetting, holder, spent>>

ReplacementsDone(w) ==
  /\ At(w, "replacements")
  /\ Replacements = {}
  /\ Goto(w, "deletions")
  /\ UNCHANGED <<tree, store, caches, holder, spent>>

-----------------------------------------------------------------------------
(* Deletion of sources, for the operations the journal holds.              *)

\* removeFilesFromIndex: intended removals, once the journal is empty
IntendRemoval(w) ==
  /\ At(w, "intendRemoval") /\ Holds(w)
  /\ journal = {}
  /\ journal' = {[kind |-> "remove", file |-> f,
                  old |-> GenOf(job[w].vector[f])] : f \in job[w].removed}
  /\ Become(w, [job[w] EXCEPT !.removed = {}, !.at = "deletions"])
  /\ UNCHANGED <<tree, store, vector, structural, resetting, holder, spent>>

\* stale_source: the store shows another revision than the cache expects.
Stale(w, f) ==
  /\ source[f] # Nothing /\ job[w].vector[f] # Nothing
  /\ source[f].hash # job[w].vector[f].hash

\* deleteSources: tombstones first, then the rows.
DeleteSources(w) ==
  LET deletable == {op.file : op \in {r \in Removals :
                      source[r.file] # Nothing /\ ~Stale(w, r.file)}} IN
  /\ At(w, "deletions") /\ Holds(w)
  /\ Removals # {}
  /\ source' = Without(source, deletable)
  /\ Become(w, [job[w] EXCEPT !.gone = deletable, !.at = "deleteRows"])
  /\ UNCHANGED <<tree, rows, staged, caches, holder, spent>>

\* The outcomes up to the first stale one count as completed.
DeleteRows(w) ==
  LET absent == {op.file : op \in {r \in Removals : source[r.file] = Nothing}}
      stale == {op.file : op \in Removals} \ absent IN
  /\ At(w, "deleteRows")
  /\ rows' = [f \in Files |->
       IF f \in job[w].gone THEN [g \in Generations |-> 0] ELSE rows[f]]
  /\ \E completed \in SUBSET absent :
       /\ stale = {} => completed = absent
       /\ Become(w, [job[w] EXCEPT !.gone = completed,
            !.at = IF completed = {} THEN "release" ELSE "releaseStructural"])
  /\ UNCHANGED <<tree, source, staged, caches, holder, spent>>

\* checkpointCompleted: structural cache, vector cache, journal.
ReleaseStructural(w) ==
  /\ At(w, "releaseStructural") /\ Holds(w)
  /\ WriteStructural(w, Without(job[w].structural, job[w].gone), "releaseVector")
  /\ UNCHANGED <<tree, store, vector, journal, resetting, holder, spent>>

ReleaseVector(w) ==
  /\ At(w, "releaseVector")
  /\ WriteVector(w, Without(job[w].vector, job[w].gone), "releaseJournal")
  /\ UNCHANGED <<tree, store, structural, journal, resetting, holder, spent>>

\* What a stale source leaves in the journal ends the job.
ReleaseJournal(w) ==
  /\ At(w, "releaseJournal")
  /\ journal' = {op \in journal : op.file \notin job[w].gone}
  /\ Become(w, [job[w] EXCEPT !.gone = {},
       !.at = IF journal' = {} THEN "deletions" ELSE "release"])
  /\ UNCHANGED <<tree, store, vector, structural, resetting, holder, spent>>

\* A full job scans before it removes, an update removes what it was told.
DeletionsDone(w) ==
  /\ At(w, "deletions")
  /\ Removals = {}
  /\ Goto(w, IF job[w].removed # {} THEN "intendRemoval"
             ELSE IF job[w].scanned THEN "publish" ELSE "scan")
  /\ UNCHANGED <<tree, store, caches, holder, spent>>
-----------------------------------------------------------------------------
(* resetIndexOwnership: a forced job empties the index first.              *)

BeginReset(w) ==
  /\ At(w, "beginReset") /\ Holds(w)
  /\ resetting' = TRUE
  /\ Goto(w, "deletePrefix")
  /\ UNCHANGED <<tree, store, vector, structural, journal, holder, spent>>

\* deleteSourceIdPrefix: the tables are emptied in parallel.
DeleteSomeTables(w) ==
  /\ At(w, "deletePrefix") /\ Holds(w)
  /\ \/ source' = NoEntries(Files) /\ UNCHANGED rows
     \/ rows' = [f \in Files |-> [g \in Generations |-> 0]] /\ UNCHANGED source
  /\ Goto(w, "deleteRest")
  /\ UNCHANGED <<tree, staged, caches, holder, spent>>

DeleteRest(w) ==
  /\ At(w, "deleteRest")
  /\ source' = NoEntries(Files)
  /\ rows' = [f \in Files |-> [g \in Generations |-> 0]]
  /\ Goto(w, "resetJournal")
  /\ UNCHANGED <<tree, staged, caches, holder, spent>>

ResetJournal(w) ==
  /\ At(w, "resetJournal") /\ Holds(w)
  /\ journal' = {}
  /\ Goto(w, "resetVector")
  /\ UNCHANGED <<tree, store, vector, structural, resetting, holder, spent>>

ResetVector(w) ==
  /\ At(w, "resetVector")
  /\ WriteVector(w, NoEntries(Files), "resetStructural")
  /\ UNCHANGED <<tree, store, structural, journal, resetting, holder, spent>>

ResetStructural(w) ==
  /\ At(w, "resetStructural")
  /\ WriteStructural(w, NoEntries(Files), "completeReset")
  /\ UNCHANGED <<tree, store, vector, journal, resetting, holder, spent>>

CompleteReset(w) ==
  /\ At(w, "completeReset")
  /\ resetting' = FALSE
  /\ Goto(w, "scan")
  /\ UNCHANGED <<tree, store, vector, structural, journal, holder, spent>>

-----------------------------------------------------------------------------
(* What a job finds, and how it publishes it.                              *)

\* scanFiles compares what the listed files hold now.  Only a full job
\* concludes that a cached file is gone.  A file that was touched but holds
\* the same content changes its cached times: that dirties the cache.
Scan(w) ==
  LET cache == job[w].vector
      current == {f \in job[w].listed \cap Present : HashOf(cache[f]) = tree[f]}
      removed == IF job[w].mode = "update" THEN {}
                 ELSE {f \in Files : cache[f] # Nothing} \ job[w].listed IN
  /\ At(w, "scan")
  /\ \E touched \in BOOLEAN :
       /\ IF touched THEN current # {} /\ May("touches") /\ Spend("touches")
          ELSE UNCHANGED spent
       /\ Become(w, [job[w] EXCEPT
            !.removed = removed, !.scanned = TRUE,
            !.toIndex = (job[w].listed \cap Present) \ current,
            !.dirty = touched,
            !.at = IF removed = {} THEN "publish" ELSE "intendRemoval"])
  /\ UNCHANGED <<tree, store, caches, holder>>

\* randomUUID: an id that nothing refers to
Unused ==
  {g \in Generations :
    /\ staged[g] = "none"
    /\ \A f \in Files :
         /\ rows[f][g] = 0
         /\ g \notin {GenOf(source[f]), GenOf(vector[f]), GenOf(structural[f])}
    /\ \A op \in journal : g # op.old /\ (op.kind = "replace" => g # op.gen)
    /\ \A w \in Workers :
         /\ \A f \in Files : g \notin {GenOf(job[w].vector[f]), GenOf(job[w].structural[f])}
         /\ \A p \in job[w].batch \cup job[w].done : p.gen # g
         /\ job[w].one # Nothing => job[w].one.gen # g}

\* processFileBatch reads the files again, and one that is gone or came back
\* to what the cache has is left out.
Prepare(w) ==
  LET changed == {f \in job[w].toIndex \cap Present :
                    HashOf(job[w].vector[f]) # tree[f]}
      minted == CHOOSE m \in [changed -> Unused] :
                  \A f, other \in changed : f # other => m[f] # m[other] IN
  /\ At(w, "publish")
  /\ Cardinality(changed) <= Cardinality(Unused)
  /\ Become(w, [job[w] EXCEPT
       !.batch = {[file |-> f, gen |-> minted[f], hash |-> tree[f]] : f \in changed},
       !.toIndex = {},
       !.at = IF changed = {} THEN "finish" ELSE "intend"])
  /\ UNCHANGED <<tree, store, caches, holder, spent>>

Intend(w) ==
  /\ At(w, "intend") /\ Holds(w)
  /\ journal = {}
  /\ journal' = {[kind |-> "replace", file |-> p.file, gen |-> p.gen, hash |-> p.hash,
                  old |-> GenOf(job[w].vector[p.file])] : p \in job[w].batch}
  /\ Goto(w, "stage")
  /\ UNCHANGED <<tree, store, vector, structural, resetting, holder, spent>>

\* stagePublication: the manifest, the staged rows, and their verification
Stage(w) ==
  /\ At(w, "stage") /\ Holds(w)
  /\ \E p \in job[w].batch \ job[w].done :
       /\ staged' = [staged EXCEPT ![p.gen] = "staging"]
       /\ Become(w, [job[w] EXCEPT !.one = p, !.at = "complete"])
  /\ UNCHANGED <<tree, source, rows, caches, holder, spent>>

Complete(w) ==
  LET p == job[w].one IN
  /\ At(w, "complete")
  /\ staged' = [staged EXCEPT ![p.gen] = "staged"]
  /\ Become(w, [job[w] EXCEPT !.one = Nothing, !.done = @ \cup {p}, !.at = "stage"])
  /\ UNCHANGED <<tree, source, rows, caches, holder, spent>>

\* Either all is done, or the job is cancelled with some of it done.
AllOrCancelled(w) ==
  /\ job[w].done # {}
  /\ \/ job[w].done = job[w].batch /\ UNCHANGED spent
     \/ job[w].done # job[w].batch /\ May("faults") /\ Spend("faults")

\* checkpointPending: the caches own what was staged, the vector cache first.
PendingVector(w) ==
  /\ At(w, "stage") /\ Holds(w)
  /\ AllOrCancelled(w)
  /\ WriteVector(w, Entered(job[w].vector, job[w].done, "pending"), "pendingStructural")
  /\ UNCHANGED <<tree, store, structural, journal, resetting, holder>>

PendingStructural(w) ==
  LET all == job[w].done = job[w].batch
      mine == EnteredShown(job[w].structural, job[w].done) IN
  /\ At(w, "pendingStructural")
  /\ structural' = mine
  /\ Become(w, [job[w] EXCEPT !.structural = mine, !.done = {},
                        !.at = IF all THEN "activate" ELSE "finish"])
  /\ UNCHANGED <<tree, store, vector, journal, resetting, holder, spent>>

Activate(w) ==
  /\ At(w, "activate") /\ Holds(w)
  /\ \E p \in job[w].batch \ job[w].done : BeginCopy(w, p, TRUE)

\* flushActivated: superseded rows of what was activated
Cleanup(w) ==
  /\ At(w, "activate") /\ Holds(w)
  /\ AllOrCancelled(w)
  /\ rows' = OnlyRowsOf(job[w].done)
  /\ Goto(w, "confirm")
  /\ UNCHANGED <<tree, source, staged, caches, holder>>

-----------------------------------------------------------------------------
(* How a job ends.                                                         *)

\* The coordinator's timer, or drain: a dirty cache is written, unfenced.
Flush(w) ==
  /\ job[w].dirty
  /\ WriteVector(w, job[w].vector, job[w].at)
  /\ UNCHANGED <<tree, store, structural, journal, resetting, holder, spent>>

Drained(w) ==
  /\ At(w, "finish")
  /\ ~job[w].dirty
  /\ Goto(w, "release")
  /\ UNCHANGED <<tree, store, caches, holder, spent>>

\* A release by one who no longer holds the lease fails, and is logged.
Release(w) ==
  /\ At(w, "release")
  /\ holder' = IF Holds(w) THEN Nothing ELSE holder
  /\ Become(w, Idle(Files))
  /\ UNCHANGED <<tree, store, caches, spent>>

\* code_index_writer_fenced: the next fenced step throws.
Fenced(w) ==
  /\ ~Holds(w)
  /\ job[w].at \in {"beginReset", "deletePrefix", "resetJournal", "replacements",
       "clearVector", "deletions", "releaseStructural", "intendRemoval", "intend",
       "stage", "activate", "confirm", "finalize"}
  /\ Goto(w, "finish")
  /\ UNCHANGED <<tree, store, caches, holder, spent>>

\* isCancelled is asked where a loop begins.  Recovery and removal return
\* without writing a dirty cache.
Cancel(w) ==
  /\ job[w].at \in {"replacements", "deletions", "publish", "stage", "activate"}
  /\ job[w].at \in {"stage", "activate"} => job[w].done = {}
  /\ May("faults") /\ Spend("faults")
  /\ Goto(w, IF job[w].at \in {"replacements", "deletions"} THEN "release" ELSE "finish")
  /\ UNCHANGED <<tree, store, caches, holder>>

\* The worker process dies; what it held in memory is gone.
Crash(w) ==
  /\ ~At(w, "idle")
  /\ May("faults") /\ Spend("faults")
  /\ Become(w, Idle(Files))
  /\ UNCHANGED <<tree, store, caches, holder>>

Edit(f, content) ==
  /\ tree[f] # content
  /\ May("edits") /\ Spend("edits")
  /\ tree' = [tree EXCEPT ![f] = content]
  /\ UNCHANGED <<store, caches, holder, job>>

Step(w) ==
  \/ Acquire(w) \/ Busy(w)
  \/ RecoverReplacement(w) \/ ClearVector(w) \/ ClearStructural(w) \/ ClearJournal(w)
  \/ ReplacementsDone(w)
  \/ IntendRemoval(w) \/ DeleteSources(w) \/ DeleteRows(w) \/ ReleaseStructural(w)
  \/ ReleaseVector(w) \/ ReleaseJournal(w) \/ DeletionsDone(w)
  \/ BeginReset(w) \/ DeleteSomeTables(w) \/ DeleteRest(w) \/ ResetJournal(w)
  \/ ResetVector(w) \/ ResetStructural(w) \/ CompleteReset(w)
  \/ Scan(w) \/ Prepare(w) \/ Intend(w) \/ Stage(w) \/ Complete(w)
  \/ PendingVector(w) \/ PendingStructural(w) \/ Activate(w)
  \/ AppendRest(w) \/ Flip(w) \/ Receipt(w) \/ Cleanup(w)
  \/ Confirm(w) \/ Forget(w) \/ Finalize(w)
  \/ Flush(w) \/ Drained(w) \/ Release(w) \/ Fenced(w)

Next ==
  \/ \E w \in Workers :
       \/ Step(w) \/ Cancel(w) \/ Crash(w)
       \/ \E force \in BOOLEAN : StartFull(w, force)
       \/ \E f \in Files : StartUpdate(w, f)
  \/ \E f \in Files, content \in Contents \cup {Nothing} : Edit(f, content)

\* A worker that lives makes its next step, and full jobs are asked for.
Fairness ==
  \A w \in Workers : WF_vars(Step(w)) /\ WF_vars(StartFull(w, FALSE))

Spec == Init /\ [][Next]_vars /\ Fairness

-----------------------------------------------------------------------------
(* Properties.                                                             *)

\* What a search finds of a file is all of it: the rows of the visible
\* generation are complete and there once, whatever the crash that
\* interrupted a copy (copyTargetGeneration) and whoever wrote since.
VisibleIsWhole ==
  resetting \/ \A f \in DOMAIN source :
    source[f] # Nothing => rows[f][source[f].gen] = Whole

\* An entry the vector cache calls current is what the store shows, except
\* while a removal of it is intended: a scan that skips the file on the word
\* of the cache leaves nothing old behind (worker.ts, scanFiles).
CurrentMeansShown ==
  resetting \/ \A f \in DOMAIN vector :
    vector[f] # Nothing /\ vector[f].visibility = "current" =>
      \/ source[f] = [gen |-> vector[f].gen, hash |-> vector[f].hash]
      \/ \E op \in Removals : op.file = f

\* This is so for a worker that shares its caches with nobody, whatever
\* crashes and cancellations it goes through; leases that lapse break it.
\* (recoverJournaledStagedRepositoryPublications, checkpointCurrent)
OneWorkerCurrent == (\A v, w \in DOMAIN job : v = w) => CurrentMeansShown

\* The index shows what every file of the workspace holds (recovery, scan and
\* publication of a job), and nothing of absent files if nothing failed.
ShowsTheTree ==
  \A f \in Files :
    IF tree[f] = Nothing THEN source[f] = Nothing \/ spent["faults"] > 0
    ELSE HashOf(source[f]) = tree[f]

\* "Delete files that are absent from the workspace." (worker.ts:1624): with
\* full jobs asked for again and again, what is gone leaves the index.
AbsentFilesLeave ==
  <>[](resetting \/ \A f \in Files : tree[f] = Nothing => source[f] = Nothing)

=============================================================================
