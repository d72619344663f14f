--------------------------- MODULE CodeIndexProofs ---------------------------
(***************************************************************************)
(* What a search finds of a file is all of it (VisibleIsWhole), for any    *)
(* number of files, workers, crashes, cancellations and lapses; and what   *)
(* the vector cache calls current is shown, for a worker that has the      *)
(* caches to itself (OneWorkerCurrent).                                    *)
(***************************************************************************)
EXTENDS CodeIndexPublication, FiniteSetTheorems, FunctionTheorems, TLAPS

\* The stages of one activation, and those in which a batch is activated.
Copying == {"append", "flip", "receipt"}
Activating == Copying \cup {"activate"}

\* The stages before a job has a batch of its own.
Clearing == {"clearVector", "clearStructural", "clearJournal"}
Recovering == {"idle", "loaded", "replacements"} \cup Clearing

\* What the fields of a job say about each other.
Shape(j) ==
  /\ j.at \in Recovering => j.batch = {}
  /\ \A p, q \in j.batch : p.file = q.file => p = q
  /\ j.at = "pendingStructural" => j.done # {}
  /\ j.at = "activate" => j.batch # {}
  /\ j.at \in Activating /\ j.batch # {} => j.done \subseteq j.batch
  /\ j.at \in Copying \cup Clearing \cup {"complete"} => j.one \in Publication
  /\ j.at \in Copying /\ j.batch # {} => j.one \in j.batch \ j.done

Fresh(p) == rows[p.file][p.gen] = 0
Visible(p) == GenOf(source[p.file]) = p.gen

\* What the holder of the lease may rely on, at each stage of its job.
Claims(j) ==
  /\ j.at \in {"intend", "stage", "complete", "pendingStructural"} =>
       \A p \in j.batch : Fresh(p)
  /\ j.at = "activate" => \A p \in j.batch \ j.done : Fresh(p)
  /\ j.at \in Copying => \A p \in j.batch \ j.done : p # j.one => Fresh(p)
  /\ j.at \in Activating /\ j.batch # {} => \A p \in j.done : Visible(p)
  /\ j.at = "append" => rows[j.one.file][j.one.gen] = 1 /\ ~Visible(j.one)
  /\ j.at = "flip" => rows[j.one.file][j.one.gen] = Whole /\ ~Visible(j.one)
  /\ j.at = "receipt" => Visible(j.one)
  /\ j.at = "deleteRows" => \A f \in j.gone : source[f] = Nothing
  /\ j.at \in {"deletePrefix", "deleteRest"} => resetting
  /\ j.at \in {"resetJournal", "resetVector", "resetStructural", "completeReset"} =>
       source = NoEntries(Files)

\* A fenced session belongs to the holder of the lease.
SessionsHeld == \A w \in Workers : job[w].at \in InSession => Holds(w)

Soundness ==
  /\ SessionsHeld
  /\ \A w \in Workers : Shape(job[w])
  /\ \A w \in Workers : Holds(w) => Claims(job[w])
  /\ VisibleIsWhole

IInv == TypeOK /\ Soundness

-----------------------------------------------------------------------------
\* An injection as the one Prepare chooses exists when there are enough ids.
LEMMA Minting ==
  ASSUME NEW S, NEW T, IsFiniteSet(S), IsFiniteSet(T),
         Cardinality(S) <= Cardinality(T)
  PROVE  \E m \in [S -> T] : \A f, other \in S : f # other => m[f] # m[other]
<1> DEFINE n == Cardinality(S)
           k == Cardinality(T)
<1>1. /\ n \in Nat /\ ExistsBijection(1..n, S)
      /\ k \in Nat /\ ExistsBijection(1..k, T)
  BY FS_CardinalityType
<1>2. ExistsBijection(S, 1..n)
  BY <1>1, Fun_ExistsBijSymmetric
<1>3. ExistsInjection(S, 1..n) /\ ExistsInjection(1..k, T)
  BY <1>1, <1>2, Fun_BijectionProperties DEF ExistsBijection, ExistsInjection
<1>4. ExistsInjection(1..n, 1..k)
  BY <1>1, Fun_NatInjLeq
<1>5. ExistsInjection(S, T)
  BY <1>3, <1>4, Fun_ExistsInjTransitive
<1>6. PICK m : m \in Injection(S, T)
  BY <1>5 DEF ExistsInjection
<1> QED
  BY <1>6, Fun_InjectionProperties

LEMMA GenOfType ==
  ASSUME NEW entry \in Shown \cup Cached \cup {Nothing}
  PROVE  GenOf(entry) \in Generations \cup {Nothing}
  BY DEF GenOf, Shown, Cached

\* A publication of a file, out of several.
LEMMA Chosen ==
  ASSUME NEW ps \in SUBSET Publication, NEW f, \E p \in ps : p.file = f
  PROVE  LET p == CHOOSE q \in ps : q.file = f IN
           /\ p \in ps /\ p.file = f
           /\ p.gen \in Generations /\ p.hash \in Contents
<1> DEFINE p == CHOOSE q \in ps : q.file = f
<1>1. p \in ps /\ p.file = f
  OBVIOUS
<1>2. p \in Publication
  BY <1>1
<1>3. p.gen \in Generations /\ p.hash \in Contents
  BY <1>2 DEF Publication
<1> QED
  BY <1>1, <1>3

LEMMA EnteredType ==
  ASSUME NEW cache \in [Files -> Cached \cup {Nothing}],
         NEW ps \in SUBSET Publication, NEW visibility \in {"pending", "current"}
  PROVE  Entered(cache, ps, visibility) \in [Files -> Cached \cup {Nothing}]
<1> DEFINE put(f) == IF \E p \in ps : p.file = f
                     THEN LET p == CHOOSE q \in ps : q.file = f IN
                       [gen |-> p.gen, hash |-> p.hash, visibility |-> visibility]
                     ELSE cache[f]
<1>1. ASSUME NEW f \in Files PROVE put(f) \in Cached \cup {Nothing}
  BY Chosen DEF Cached
<1> QED
  BY <1>1 DEF Entered

LEMMA EnteredShownType ==
  ASSUME NEW cache \in [Files -> Shown \cup {Nothing}],
         NEW ps \in SUBSET Publication
  PROVE  EnteredShown(cache, ps) \in [Files -> Shown \cup {Nothing}]
<1> DEFINE put(f) == IF \E p \in ps : p.file = f
                     THEN LET p == CHOOSE q \in ps : q.file = f IN
                       [gen |-> p.gen, hash |-> p.hash]
                     ELSE cache[f]
<1>1. ASSUME NEW f \in Files PROVE put(f) \in Shown \cup {Nothing}
  BY Chosen DEF Shown
<1> QED
  BY <1>1 DEF EnteredShown

LEMMA WithoutType ==
  ASSUME NEW S, NEW cache \in [Files -> S \cup {Nothing}], NEW gone
  PROVE  /\ Without(cache, gone) \in [Files -> S \cup {Nothing}]
         /\ NoEntries(Files) \in [Files -> S \cup {Nothing}]
  BY DEF Without, NoEntries

LEMMA OnlyRowsType ==
  ASSUME rows \in [Files -> [Generations -> Nat]], NEW ps
  PROVE  OnlyRowsOf(ps) \in [Files -> [Generations -> Nat]]
  BY DEF OnlyRowsOf

LEMMA IdleType == Idle(Files) \in Job(Files)
<1>1. /\ NoEntries(Files) \in [Files -> Cached \cup {Nothing}]
      /\ NoEntries(Files) \in [Files -> Shown \cup {Nothing}]
  BY DEF NoEntries
<1> QED
  BY <1>1 DEF Idle, Job, Stages

\* A worker's job is replaced and the others keep theirs.
LEMMA JobType ==
  ASSUME job \in [Workers -> Job(Files)], NEW w \in Workers, NEW j \in Job(Files),
         job' = [job EXCEPT ![w] = j]
  PROVE  /\ job' \in [Workers -> Job(Files)]
         /\ job'[w] = j
         /\ \A v \in Workers : v # w => job'[v] = job[v]
  OBVIOUS

LEMMA SpendType ==
  ASSUME spent \in [Kinds -> Nat], NEW kind \in Kinds, Spend(kind)
  PROVE  spent' \in [Kinds -> Nat]
  BY DEF Spend

-----------------------------------------------------------------------------
(* Types.                                                                  *)

LEMMA InitTyped == Init => TypeOK
<1> SUFFICES ASSUME Init PROVE TypeOK
  OBVIOUS
<1> USE IndexAssumption DEF Init
<1>1. job \in [Workers -> Job(Files)]
  BY IdleType
<1>2. /\ tree \in [Files -> Contents \cup {Nothing}]
      /\ source \in [Files -> Shown \cup {Nothing}]
      /\ vector \in [Files -> Cached \cup {Nothing}]
      /\ structural \in [Files -> Shown \cup {Nothing}]
  BY DEF NoEntries
<1>3. /\ rows \in [Files -> [Generations -> Nat]]
      /\ staged \in [Generations -> {"none", "staging", "staged", "activated"}]
      /\ spent \in [Kinds -> Nat]
  OBVIOUS
<1> QED
  BY <1>1, <1>2, <1>3 DEF TypeOK

-----------------------------------------------------------------------------
(* What one worker's step has to show.                                     *)

\* The other workers keep their jobs.
Alone(w) ==
  /\ job' \in [Workers -> Job(Files)]
  /\ \A v \in Workers : v # w => job'[v] = job[v]

LEMMA BecomeAlone ==
  ASSUME TypeOK, NEW w \in Workers, NEW j \in Job(Files), Become(w, j)
  PROVE  Alone(w) /\ job'[w] = j
  BY JobType DEF TypeOK, Become, Alone

\* What the updates of a job that occur do to its fields.
LEMMA AtStep ==
  ASSUME TypeOK, NEW w \in Workers, NEW s \in Stages,
         Become(w, [job[w] EXCEPT !.at = s])
  PROVE  /\ Alone(w) /\ job'[w].at = s
         /\ job'[w].batch = job[w].batch /\ job'[w].done = job[w].done
         /\ job'[w].one = job[w].one /\ job'[w].gone = job[w].gone
         /\ job'[w].vector = job[w].vector
         /\ job'[w].dirty => job[w].dirty
<1>1. PICK k \in Job(Files) : k = job[w]
  BY DEF TypeOK
<1> DEFINE n == [k EXCEPT !.at = s]
<1>2. /\ n \in Job(Files) /\ n.at = s
      /\ n.batch = k.batch /\ n.done = k.done
      /\ n.one = k.one /\ n.gone = k.gone
      /\ n.vector = k.vector
  BY DEF Job
<1>d. n.dirty => k.dirty
  BY DEF Job
<1>3. Become(w, n)
  BY <1>1
<1> HIDE DEF n
<1> QED
  BY <1>1, <1>2, <1>d, <1>3, BecomeAlone

LEMMA VectorStep ==
  ASSUME TypeOK, NEW w \in Workers, NEW s \in Stages,
         NEW mine \in [Files -> Cached \cup {Nothing}], WriteVector(w, mine, s)
  PROVE  /\ Alone(w) /\ job'[w].at = s /\ vector' = mine
         /\ job'[w].batch = job[w].batch /\ job'[w].done = job[w].done
         /\ job'[w].one = job[w].one /\ job'[w].gone = job[w].gone
         /\ job'[w].vector = mine
<1>1. PICK k \in Job(Files) : k = job[w]
  BY DEF TypeOK
<1> DEFINE n == [k EXCEPT !.vector = mine, !.dirty = FALSE, !.at = s]
<1>2. /\ n \in Job(Files) /\ n.at = s
      /\ n.batch = k.batch /\ n.done = k.done
      /\ n.one = k.one /\ n.gone = k.gone
      /\ n.vector = mine
  BY DEF Job
<1>3. Become(w, n)
  BY <1>1 DEF WriteVector
<1> HIDE DEF n
<1> QED
  BY <1>1, <1>2, <1>3, BecomeAlone DEF WriteVector

LEMMA StructuralStep ==
  ASSUME TypeOK, NEW w \in Workers, NEW s \in Stages,
         NEW mine \in [Files -> Shown \cup {Nothing}], WriteStructural(w, mine, s)
  PROVE  /\ Alone(w) /\ job'[w].at = s /\ structural' = mine
         /\ job'[w].batch = job[w].batch /\ job'[w].done = job[w].done
         /\ job'[w].one = job[w].one /\ job'[w].gone = job[w].gone
         /\ job'[w].vector = job[w].vector
<1>1. PICK k \in Job(Files) : k = job[w]
  BY DEF TypeOK
<1> DEFINE n == [k EXCEPT !.structural = mine, !.at = s]
<1>2. /\ n \in Job(Files) /\ n.at = s
      /\ n.batch = k.batch /\ n.done = k.done
      /\ n.one = k.one /\ n.gone = k.gone
      /\ n.vector = k.vector
  BY DEF Job
<1>3. Become(w, n)
  BY <1>1 DEF WriteStructural
<1> HIDE DEF n
<1> QED
  BY <1>1, <1>2, <1>3, BecomeAlone DEF WriteStructural

LEMMA OneStep ==
  ASSUME TypeOK, NEW w \in Workers, NEW s \in Stages,
         NEW p \in Publication \cup {Nothing},
         Become(w, [job[w] EXCEPT !.one = p, !.at = s])
  PROVE  /\ Alone(w) /\ job'[w].at = s
         /\ job'[w].batch = job[w].batch /\ job'[w].done = job[w].done
         /\ job'[w].gone = job[w].gone /\ job'[w].one = p
         /\ job'[w].vector = job[w].vector
<1>1. PICK k \in Job(Files) : k = job[w]
  BY DEF TypeOK
<1> DEFINE n == [k EXCEPT !.one = p, !.at = s]
<1>2. /\ n \in Job(Files) /\ n.at = s
      /\ n.batch = k.batch /\ n.done = k.done
      /\ n.gone = k.gone /\ n.one = p
      /\ n.vector = k.vector
  BY DEF Job
<1>3. Become(w, n)
  BY <1>1
<1> HIDE DEF n
<1> QED
  BY <1>1, <1>2, <1>3, BecomeAlone

LEMMA DoneStep ==
  ASSUME TypeOK, NEW w \in Workers, NEW s \in Stages, NEW ps \in SUBSET Publication,
         Become(w, [job[w] EXCEPT !.done = ps, !.at = s])
  PROVE  /\ Alone(w) /\ job'[w].at = s
         /\ job'[w].batch = job[w].batch /\ job'[w].one = job[w].one
         /\ job'[w].gone = job[w].gone /\ job'[w].done = ps
         /\ job'[w].vector = job[w].vector
<1>1. PICK k \in Job(Files) : k = job[w]
  BY DEF TypeOK
<1> DEFINE n == [k EXCEPT !.done = ps, !.at = s]
<1>2. /\ n \in Job(Files) /\ n.at = s
      /\ n.batch = k.batch /\ n.one = k.one
      /\ n.gone = k.gone /\ n.done = ps
      /\ n.vector = k.vector
  BY DEF Job
<1>3. Become(w, n)
  BY <1>1
<1> HIDE DEF n
<1> QED
  BY <1>1, <1>2, <1>3, BecomeAlone

LEMMA OneDoneStep ==
  ASSUME TypeOK, NEW w \in Workers, NEW s \in Stages, NEW ps \in SUBSET Publication,
         Become(w, [job[w] EXCEPT !.one = Nothing, !.done = ps, !.at = s])
  PROVE  /\ Alone(w) /\ job'[w].at = s
         /\ job'[w].batch = job[w].batch /\ job'[w].gone = job[w].gone
         /\ job'[w].done = ps
         /\ job'[w].vector = job[w].vector
<1>1. PICK k \in Job(Files) : k = job[w]
  BY DEF TypeOK
<1> DEFINE n == [k EXCEPT !.one = Nothing, !.done = ps, !.at = s]
<1>2. /\ n \in Job(Files) /\ n.at = s
      /\ n.batch = k.batch /\ n.gone = k.gone
      /\ n.done = ps
      /\ n.vector = k.vector
  BY DEF Job
<1>3. Become(w, n)
  BY <1>1
<1> HIDE DEF n
<1> QED
  BY <1>1, <1>2, <1>3, BecomeAlone

LEMMA RemovedStep ==
  ASSUME TypeOK, NEW w \in Workers, NEW s \in Stages, NEW fs \in SUBSET Files,
         Become(w, [job[w] EXCEPT !.removed = fs, !.at = s])
  PROVE  /\ Alone(w) /\ job'[w].at = s
         /\ job'[w].batch = job[w].batch /\ job'[w].done = job[w].done
         /\ job'[w].one = job[w].one /\ job'[w].gone = job[w].gone
         /\ job'[w].vector = job[w].vector
<1>1. PICK k \in Job(Files) : k = job[w]
  BY DEF TypeOK
<1> DEFINE n == [k EXCEPT !.removed = fs, !.at = s]
<1>2. /\ n \in Job(Files) /\ n.at = s
      /\ n.batch = k.batch /\ n.done = k.done
      /\ n.one = k.one /\ n.gone = k.gone
      /\ n.vector = k.vector
  BY DEF Job
<1>3. Become(w, n)
  BY <1>1
<1> HIDE DEF n
<1> QED
  BY <1>1, <1>2, <1>3, BecomeAlone

LEMMA GoneStep ==
  ASSUME TypeOK, NEW w \in Workers, NEW s \in Stages, NEW fs \in SUBSET Files,
         Become(w, [job[w] EXCEPT !.gone = fs, !.at = s])
  PROVE  /\ Alone(w) /\ job'[w].at = s
         /\ job'[w].batch = job[w].batch /\ job'[w].done = job[w].done
         /\ job'[w].one = job[w].one /\ job'[w].gone = fs
         /\ job'[w].vector = job[w].vector
<1>1. PICK k \in Job(Files) : k = job[w]
  BY DEF TypeOK
<1> DEFINE n == [k EXCEPT !.gone = fs, !.at = s]
<1>2. /\ n \in Job(Files) /\ n.at = s
      /\ n.batch = k.batch /\ n.done = k.done
      /\ n.one = k.one /\ n.gone = fs
      /\ n.vector = k.vector
  BY DEF Job
<1>3. Become(w, n)
  BY <1>1
<1> HIDE DEF n
<1> QED
  BY <1>1, <1>2, <1>3, BecomeAlone

LEMMA BatchStep ==
  ASSUME TypeOK, NEW w \in Workers, NEW s \in Stages, NEW ps \in SUBSET Publication,
         Become(w, [job[w] EXCEPT !.batch = ps, !.toIndex = {}, !.at = s])
  PROVE  /\ Alone(w) /\ job'[w].at = s
         /\ job'[w].done = job[w].done /\ job'[w].one = job[w].one
         /\ job'[w].gone = job[w].gone /\ job'[w].batch = ps
         /\ job'[w].vector = job[w].vector
<1>1. PICK k \in Job(Files) : k = job[w]
  BY DEF TypeOK
<1> DEFINE n == [k EXCEPT !.batch = ps, !.toIndex = {}, !.at = s]
<1>2. /\ n \in Job(Files) /\ n.at = s
      /\ n.done = k.done /\ n.one = k.one
      /\ n.gone = k.gone /\ n.batch = ps
      /\ n.vector = k.vector
  BY DEF Job
<1>3. Become(w, n)
  BY <1>1
<1> HIDE DEF n
<1> QED
  BY <1>1, <1>2, <1>3, BecomeAlone

LEMMA PendingStep ==
  ASSUME TypeOK, NEW w \in Workers, NEW s \in Stages,
         NEW mine \in [Files -> Shown \cup {Nothing}],
         Become(w, [job[w] EXCEPT !.structural = mine, !.done = {}, !.at = s])
  PROVE  /\ Alone(w) /\ job'[w].at = s
         /\ job'[w].batch = job[w].batch /\ job'[w].one = job[w].one
         /\ job'[w].gone = job[w].gone /\ job'[w].done = {}
         /\ job'[w].vector = job[w].vector
<1>1. PICK k \in Job(Files) : k = job[w]
  BY DEF TypeOK
<1> DEFINE n == [k EXCEPT !.structural = mine, !.done = {}, !.at = s]
<1>2. /\ n \in Job(Files) /\ n.at = s
      /\ n.batch = k.batch /\ n.one = k.one
      /\ n.gone = k.gone /\ n.done = {}
      /\ n.vector = k.vector
  BY DEF Job
<1>3. Become(w, n)
  BY <1>1
<1> HIDE DEF n
<1> QED
  BY <1>1, <1>2, <1>3, BecomeAlone

LEMMA ScanStep ==
  ASSUME TypeOK, NEW w \in Workers, NEW s \in Stages, NEW removed \in SUBSET Files,
         NEW toIndex \in SUBSET Files, NEW touched \in BOOLEAN,
         Become(w, [job[w] EXCEPT !.removed = removed, !.scanned = TRUE,
                 !.toIndex = toIndex, !.dirty = touched, !.at = s])
  PROVE  /\ Alone(w) /\ job'[w].at = s
         /\ job'[w].batch = job[w].batch /\ job'[w].done = job[w].done
         /\ job'[w].one = job[w].one /\ job'[w].gone = job[w].gone
         /\ job'[w].vector = job[w].vector
<1>1. PICK k \in Job(Files) : k = job[w]
  BY DEF TypeOK
<1> DEFINE n == [k EXCEPT !.removed = removed, !.scanned = TRUE,
                 !.toIndex = toIndex, !.dirty = touched, !.at = s]
<1>2. /\ n \in Job(Files) /\ n.at = s
      /\ n.batch = k.batch /\ n.done = k.done
      /\ n.one = k.one /\ n.gone = k.gone
      /\ n.vector = k.vector
  BY DEF Job
<1>3. Become(w, n)
  BY <1>1
<1> HIDE DEF n
<1> QED
  BY <1>1, <1>2, <1>3, BecomeAlone

\* Only the holder of the lease touches what others' claims are about.
LEMMA OneActs ==
  ASSUME IInv, NEW w \in Workers, Alone(w), UNCHANGED holder,
         Holds(w) \/ UNCHANGED <<source, rows, resetting>>,
         job'[w].at \in InSession => Holds(w),
         Shape(job'[w]), Holds(w) => Claims(job[w])', VisibleIsWhole'
  PROVE  Soundness'
<1>1. SessionsHeld'
  BY DEF Alone, IInv, Soundness, SessionsHeld, Holds
<1>2. (\A v \in Workers : Shape(job[v]))'
  BY DEF Alone, IInv, Soundness, Shape
<1>3. ASSUME NEW v \in Workers, Holds(v)' PROVE Claims(job[v])'
  <2>1. CASE v = w
    BY <1>3, <2>1 DEF Holds
  <2>2. CASE v # w
    <3>1. Holds(v) /\ ~Holds(w) /\ job'[v] = job[v]
      BY <1>3, <2>2 DEF Holds, Alone
    <3>2. Claims(job[v]) /\ UNCHANGED <<source, rows, resetting>>
      BY <3>1 DEF IInv, Soundness
    <3> QED
      BY <3>1, <3>2 DEF Claims, Fresh, Visible
  <2> QED
    BY <2>1, <2>2
<1> QED
  BY <1>1, <1>2, <1>3 DEF Soundness

\* The stages at which a job claims nothing.
Silent ==
  Recovering \cup {"deletions", "confirm", "forget", "finalize", "finish", "release",
    "releaseStructural", "releaseVector", "releaseJournal", "intendRemoval",
    "scan", "publish", "beginReset"}

\* A step between such stages leaves the visible rows alone.
LEMMA Quiet ==
  ASSUME IInv, NEW w \in Workers, Alone(w), UNCHANGED <<source, rows, resetting, holder>>,
         job'[w].at \in Silent, job'[w].at \in InSession => Holds(w),
         job'[w].batch = job[w].batch \/ job'[w].batch = {},
         job'[w].at \in Recovering => job'[w].batch = {},
         job'[w].at \in Clearing => job'[w].one \in Publication
  PROVE  Soundness'
<1>1. Shape(job'[w])
  BY DEF IInv, Soundness, Shape, Silent, Recovering, Clearing, Copying, Activating
<1>2. Claims(job[w])'
  BY DEF Claims, Silent, Recovering, Clearing, Copying, Activating
<1>3. VisibleIsWhole'
  BY DEF IInv, Soundness, VisibleIsWhole
<1> QED
  BY <1>1, <1>2, <1>3, OneActs
-----------------------------------------------------------------------------
(* Starting and ending a job.                                              *)

LEMMA GotoStep ==
  ASSUME TypeOK, NEW w \in Workers, NEW s \in Stages, Goto(w, s)
  PROVE  /\ Alone(w) /\ job'[w].at = s
         /\ job'[w].batch = job[w].batch /\ job'[w].done = job[w].done
         /\ job'[w].one = job[w].one /\ job'[w].gone = job[w].gone
         /\ job'[w].vector = job[w].vector
         /\ job'[w].dirty => job[w].dirty
<1>1. Become(w, [job[w] EXCEPT !.at = s])
  BY DEF Goto
<1> QED
  BY <1>1, AtStep

LEMMA IdleStep ==
  ASSUME TypeOK, NEW w \in Workers, Become(w, Idle(Files))
  PROVE  /\ Alone(w) /\ job'[w].at = "idle"
         /\ job'[w].batch = {} /\ job'[w].done = {} /\ ~job'[w].dirty
  BY IdleType, BecomeAlone DEF Idle

LEMMA StartFullStep ==
  ASSUME IInv, NEW w \in Workers, NEW force \in BOOLEAN, StartFull(w, force)
  PROVE  IInv'
<1> USE DEF StartFull, store, caches
<1> DEFINE j == [Idle(Files) EXCEPT !.at = "loaded",
                   !.mode = IF force THEN "force" ELSE "full",
                   !.listed = Present,
                   !.vector = IF ~resetting /\ JournalFitsCache THEN vector
                              ELSE NoEntries(Files),
                   !.structural = structural]
<1>1. NoEntries(Files) \in [Files -> Cached \cup {Nothing}]
  BY DEF NoEntries
<1>2. j \in Job(Files) /\ j.at = "loaded" /\ j.batch = {}
  <2>1. Idle(Files).batch = {}
    BY DEF Idle
  <2> QED
    BY IdleType, <1>1, <2>1 DEF IInv, TypeOK, Job, Stages, Present
<1>3. Become(w, j)
  OBVIOUS
<1> HIDE DEF j
<1>4. Alone(w) /\ job'[w].at = "loaded" /\ job'[w].batch = {}
  BY <1>2, <1>3, BecomeAlone DEF IInv
<1>5. Soundness'
  BY <1>4, Quiet DEF Silent, Recovering, Clearing, InSession
<1>6. spent' \in [Kinds -> Nat]
  BY SpendType DEF IInv, TypeOK, Kinds
<1> QED
  BY <1>4, <1>5, <1>6 DEF IInv, TypeOK, Alone

LEMMA StartUpdateStep ==
  ASSUME IInv, NEW w \in Workers, NEW f \in Files, StartUpdate(w, f)
  PROVE  IInv'
<1> USE DEF StartUpdate, store, caches
<1> DEFINE j == [Idle(Files) EXCEPT !.at = "loaded", !.mode = "update",
                   !.listed = {f} \cap Present, !.removed = {f} \ Present,
                   !.vector = vector, !.structural = structural]
<1>1. j \in Job(Files) /\ j.at = "loaded" /\ j.batch = {}
  <2>1. Idle(Files).batch = {}
    BY DEF Idle
  <2> QED
    BY IdleType, <2>1 DEF IInv, TypeOK, Job, Stages, Present
<1>2. Become(w, j)
  OBVIOUS
<1> HIDE DEF j
<1>3. Alone(w) /\ job'[w].at = "loaded" /\ job'[w].batch = {}
  BY <1>1, <1>2, BecomeAlone DEF IInv
<1>4. Soundness'
  BY <1>3, Quiet DEF Silent, Recovering, Clearing, InSession
<1>5. spent' \in [Kinds -> Nat]
  BY SpendType DEF IInv, TypeOK, Kinds
<1> QED
  BY <1>3, <1>4, <1>5 DEF IInv, TypeOK, Alone

\* A lapse is possible between the sessions of the holder only, and the new
\* holder claims nothing yet.
LEMMA AcquireStep ==
  ASSUME IInv, NEW w \in Workers, Acquire(w)
  PROVE  IInv'
<1> USE DEF Acquire, store, caches
<1>1. /\ Alone(w) /\ job'[w].at \in {"beginReset", "replacements"}
      /\ job'[w].batch = job[w].batch
  BY GotoStep DEF IInv, Stages
<1>2. \A v \in Workers : v # w => job[v].at \notin InSession
  <2>1. holder # Nothing => job[holder].at \notin InSession
    BY DEF Gone, InSession
  <2> QED
    BY <2>1, IndexAssumption DEF IInv, Soundness, SessionsHeld, Holds
<1>3. SessionsHeld'
  BY <1>1, <1>2 DEF SessionsHeld, Alone, InSession
<1>4. (\A v \in Workers : Shape(job[v]))'
  <2>1. job[w].batch = {}
    BY DEF IInv, Soundness, Shape, At, Recovering
  <2>2. Shape(job'[w])
    BY <1>1, <2>1 DEF Shape, Recovering, Clearing, Copying, Activating
  <2> QED
    BY <1>1, <2>2 DEF Alone, IInv, Soundness, Shape
<1>5. (\A v \in Workers : Holds(v) => Claims(job[v]))'
  <2>1. Claims(job[w])'
    BY <1>1 DEF Claims, Copying, Activating
  <2> QED
    BY <2>1 DEF Holds
<1>6. VisibleIsWhole'
  BY DEF IInv, Soundness, VisibleIsWhole
<1>7. spent' \in [Kinds -> Nat]
  BY SpendType DEF IInv, TypeOK, Kinds
<1> QED
  BY <1>1, <1>3, <1>4, <1>5, <1>6, <1>7 DEF IInv, Soundness, TypeOK, Alone

LEMMA ReleaseStep ==
  ASSUME IInv, NEW w \in Workers, Release(w)
  PROVE  IInv'
<1> USE DEF Release, store, caches
<1>1. Alone(w) /\ job'[w].at = "idle" /\ job'[w].batch = {}
  BY IdleStep DEF IInv
<1>2. SessionsHeld'
  BY <1>1 DEF IInv, Soundness, SessionsHeld, Alone, Holds, At, InSession
<1>3. (\A v \in Workers : Shape(job[v]))'
  <2>1. Shape(job'[w])
    BY <1>1 DEF Shape, Recovering, Clearing, Copying, Activating
  <2> QED
    BY <1>1, <2>1 DEF Alone, IInv, Soundness, Shape
<1>4. (\A v \in Workers : Holds(v) => Claims(job[v]))'
  <2> SUFFICES ASSUME NEW v \in Workers, Holds(v)' PROVE Claims(job[v])'
    OBVIOUS
  <2>1. Holds(v) /\ v # w
    BY IndexAssumption DEF Holds
  <2>2. Claims(job[v]) /\ job'[v] = job[v]
    BY <1>1, <2>1 DEF IInv, Soundness, Alone
  <2> QED
    BY <2>2 DEF Claims, Fresh, Visible
<1>5. VisibleIsWhole'
  BY DEF IInv, Soundness, VisibleIsWhole
<1> QED
  BY <1>1, <1>2, <1>3, <1>4, <1>5 DEF IInv, Soundness, TypeOK, Alone

LEMMA EndSteps ==
  ASSUME IInv, NEW w \in Workers,
         Busy(w) \/ Crash(w) \/ Drained(w) \/ Fenced(w) \/ Cancel(w)
  PROVE  IInv'
<1> USE DEF store, caches
<1>1. \/ Alone(w) /\ job'[w].at = "idle" /\ job'[w].batch = {}
      \/ /\ Alone(w) /\ job'[w].at \in {"finish", "release"}
         /\ job'[w].batch = job[w].batch
  <2>1. CASE Busy(w) \/ Crash(w)
    BY <2>1, IdleStep DEF IInv, Busy, Crash
  <2>2. CASE Drained(w) \/ Fenced(w) \/ Cancel(w)
    BY <2>2, GotoStep DEF IInv, Stages, Drained, Fenced, Cancel
  <2> QED
    BY <2>1, <2>2
<1>2. UNCHANGED <<tree, store, caches, holder>>
  BY DEF Busy, Crash, Drained, Fenced, Cancel
<1>3. Soundness'
  BY <1>1, <1>2, Quiet DEF Silent, Recovering, Clearing, InSession
<1>4. spent' \in [Kinds -> Nat]
  BY SpendType DEF IInv, TypeOK, Kinds, Busy, Crash, Drained, Fenced, Cancel
<1> QED
  BY <1>1, <1>2, <1>3, <1>4 DEF IInv, TypeOK, Alone

-----------------------------------------------------------------------------
(* Recovery of interrupted publications.                                   *)

LEMMA OperationType ==
  ASSUME TypeOK, NEW op \in Replacements
  PROVE  /\ op \in journal /\ op.file \in Files /\ op.gen \in Generations
         /\ PublicationOf(op) \in Publication
  BY DEF TypeOK, Replacements, Replacement, Removal, PublicationOf, Publication

\* Without BeginCopy, which recovery shares with activation.
LEMMA RecoverySteps ==
  ASSUME IInv, NEW w \in Workers, NEW op \in Replacements,
         At(w, "replacements"), Holds(w),
         \/ DropUnstaged(w, op) \/ RecoverActivated(w, op)
         \/ Abort(w, op) \/ LeavePending(w, op)
  PROVE  IInv'
<1> USE DEF store, caches
<1>1. job[w].batch = {}
  BY DEF IInv, Soundness, Shape, At, Recovering
<1>2. CASE DropUnstaged(w, op)
  <2>1. Alone(w) /\ job'[w] = job[w] /\ job[w].at = "replacements"
    BY <1>2 DEF DropUnstaged, Alone, IInv, TypeOK, At
  <2>2. Soundness'
    BY <1>1, <1>2, <2>1, Quiet DEF DropUnstaged, Silent, Recovering, Clearing, InSession
  <2> QED
    BY <1>2, <2>2 DEF DropUnstaged, IInv, TypeOK
<1>3. CASE RecoverActivated(w, op)
  <2> DEFINE ps == {PublicationOf(op)}
  <2>a. ps \in SUBSET Publication /\ "confirm" \in Stages
    BY OperationType DEF IInv, Stages
  <2>b. Become(w, [job[w] EXCEPT !.done = ps, !.at = "confirm"])
    BY <1>3 DEF RecoverActivated
  <2> HIDE DEF ps
  <2>1. Alone(w) /\ job'[w].at = "confirm" /\ job'[w].batch = {}
    BY <1>1, <2>a, <2>b, DoneStep DEF IInv
  <2>2. Soundness'
    BY <1>3, <2>1, Quiet DEF RecoverActivated, Silent, Recovering, Clearing, InSession
  <2> QED
    BY <1>3, <2>1, <2>2 DEF RecoverActivated, IInv, TypeOK, Alone
<1>4. CASE Abort(w, op)
  <2> DEFINE p == PublicationOf(op)
  <2>a. p \in Publication /\ "clearVector" \in Stages
    BY OperationType DEF IInv, Stages
  <2>b. Become(w, [job[w] EXCEPT !.one = p, !.at = "clearVector"])
    BY <1>4 DEF Abort
  <2> HIDE DEF p
  <2>1. /\ Alone(w) /\ job'[w].at = "clearVector" /\ job'[w].batch = {}
        /\ job'[w].one \in Publication
    BY <1>1, <2>a, <2>b, OneStep DEF IInv
  <2>2. Soundness'
    BY <1>4, <2>1, Quiet DEF Abort, Silent, Recovering, Clearing, InSession
  <2>3. staged' \in [Generations -> {"none", "staging", "staged", "activated"}]
    BY <1>4 DEF Abort, IInv, TypeOK
  <2> QED
    BY <1>4, <2>1, <2>2, <2>3 DEF Abort, IInv, TypeOK, Alone
<1>5. CASE LeavePending(w, op)
  <2>1. Alone(w) /\ job'[w].at = "release" /\ job'[w].batch = {}
    BY <1>1, <1>5, GotoStep DEF LeavePending, IInv, Stages
  <2>2. Soundness'
    BY <1>5, <2>1, Quiet DEF LeavePending, Silent, Recovering, Clearing, InSession
  <2> QED
    BY <1>5, <2>1, <2>2 DEF LeavePending, IInv, TypeOK, Alone
<1> QED
  BY <1>2, <1>3, <1>4, <1>5

LEMMA ClearingSteps ==
  ASSUME IInv, NEW w \in Workers,
         ClearVector(w) \/ ClearStructural(w) \/ ClearJournal(w) \/ ReplacementsDone(w)
  PROVE  IInv'
<1> USE DEF store, caches
<1>1. job[w].batch = {} /\ (job[w].at \in Clearing => job[w].one \in Publication)
  BY DEF IInv, Soundness, Shape, At, Recovering, Clearing,
         ClearVector, ClearStructural, ClearJournal, ReplacementsDone
<1>2. CASE ClearVector(w)
  <2> DEFINE mine == Without(job[w].vector, {job[w].one.file})
  <2>1. mine \in [Files -> Cached \cup {Nothing}]
    BY WithoutType DEF IInv, TypeOK, Job
  <2>2. \/ WriteVector(w, mine, "clearStructural")
        \/ UNCHANGED vector /\ Goto(w, "clearStructural")
    BY <1>2 DEF ClearVector
  <2> HIDE DEF mine
  <2>3. /\ Alone(w) /\ job'[w].at = "clearStructural" /\ job'[w].batch = {}
        /\ job'[w].one \in Publication /\ vector' \in [Files -> Cached \cup {Nothing}]
    <3>1. /\ TypeOK /\ "clearStructural" \in Stages /\ job[w].one \in Publication
          /\ job[w].batch = {} /\ vector \in [Files -> Cached \cup {Nothing}]
      BY <1>1, <1>2 DEF IInv, TypeOK, Stages, InSession, ClearVector, At, Clearing
    <3>2. CASE WriteVector(w, mine, "clearStructural")
      BY <2>1, <3>1, <3>2, VectorStep
    <3>3. CASE UNCHANGED vector /\ Goto(w, "clearStructural")
      BY <3>1, <3>3, GotoStep
    <3> QED
      BY <2>2, <3>2, <3>3
  <2>4. Soundness'
    BY <1>2, <2>3, Quiet DEF ClearVector, Silent, Recovering, Clearing, InSession
  <2> QED
    BY <1>2, <2>3, <2>4 DEF ClearVector, IInv, TypeOK, Alone
<1>3. CASE ClearStructural(w)
  <2> DEFINE mine == Without(job[w].structural, {job[w].one.file})
  <2>1. mine \in [Files -> Shown \cup {Nothing}]
    BY WithoutType DEF IInv, TypeOK, Job
  <2>2. \/ WriteStructural(w, mine, "clearJournal")
        \/ UNCHANGED structural /\ Goto(w, "clearJournal")
    BY <1>3 DEF ClearStructural
  <2> HIDE DEF mine
  <2>3. /\ Alone(w) /\ job'[w].at = "clearJournal" /\ job'[w].batch = {}
        /\ job'[w].one \in Publication /\ structural' \in [Files -> Shown \cup {Nothing}]
    <3>1. /\ TypeOK /\ "clearJournal" \in Stages /\ job[w].one \in Publication
          /\ job[w].batch = {} /\ structural \in [Files -> Shown \cup {Nothing}]
      BY <1>1, <1>3 DEF IInv, TypeOK, Stages, InSession, ClearStructural, At, Clearing
    <3>2. CASE WriteStructural(w, mine, "clearJournal")
      BY <2>1, <3>1, <3>2, StructuralStep
    <3>3. CASE UNCHANGED structural /\ Goto(w, "clearJournal")
      BY <3>1, <3>3, GotoStep
    <3> QED
      BY <2>2, <3>2, <3>3
  <2>4. Holds(w)
    BY <1>3 DEF IInv, Soundness, SessionsHeld, ClearStructural, At, InSession
  <2>5. Soundness'
    BY <1>3, <2>3, <2>4, Quiet DEF ClearStructural, Silent, Recovering, Clearing
  <2> QED
    BY <1>3, <2>3, <2>5 DEF ClearStructural, IInv, TypeOK, Alone
<1>4. CASE ClearJournal(w)
  <2>1. Alone(w) /\ job'[w].at = "replacements" /\ job'[w].batch = {}
    BY <1>1, <1>4, OneStep DEF ClearJournal, IInv, Stages
  <2>2. Soundness'
    BY <1>4, <2>1, Quiet DEF ClearJournal, Silent, Recovering, Clearing, InSession
  <2>3. journal' \subseteq Replacement \cup Removal
    BY <1>4 DEF ClearJournal, IInv, TypeOK
  <2> QED
    BY <1>4, <2>1, <2>2, <2>3 DEF ClearJournal, IInv, TypeOK, Alone
<1>5. CASE ReplacementsDone(w)
  <2>1. Alone(w) /\ job'[w].at = "deletions" /\ job'[w].batch = {}
    BY <1>1, <1>5, GotoStep DEF ReplacementsDone, IInv, Stages
  <2>2. Soundness'
    BY <1>5, <2>1, Quiet DEF ReplacementsDone, Silent, Recovering, Clearing, InSession
  <2> QED
    BY <1>5, <2>1, <2>2 DEF ReplacementsDone, IInv, TypeOK, Alone
<1> QED
  BY <1>2, <1>3, <1>4, <1>5

-----------------------------------------------------------------------------
(* Deletion of sources.                                                    *)

\* Scan included: these steps leave the tables alone.
LEMMA RemovalSteps ==
  ASSUME IInv, NEW w \in Workers,
         \/ IntendRemoval(w) \/ ReleaseStructural(w) \/ ReleaseVector(w)
         \/ ReleaseJournal(w) \/ DeletionsDone(w) \/ Scan(w)
  PROVE  IInv'
<1> USE DEF store, caches
<1>t. TypeOK
  BY DEF IInv
<1>1. CASE IntendRemoval(w)
  <2>1. Alone(w) /\ job'[w].at = "deletions" /\ job'[w].batch = job[w].batch
    <3>1. {} \in SUBSET Files /\ "deletions" \in Stages
      BY DEF Stages
    <3>2. Become(w, [job[w] EXCEPT !.removed = {}, !.at = "deletions"])
      BY <1>1 DEF IntendRemoval
    <3> QED
      BY <1>t, <3>1, <3>2, RemovedStep
  <2>2. Soundness'
    BY <1>1, <2>1, Quiet DEF IntendRemoval, Silent, Recovering, Clearing, InSession
  <2>3. ASSUME NEW f \in job[w].removed
        PROVE  [kind |-> "remove", file |-> f, old |-> GenOf(job[w].vector[f])] \in Removal
    <3>1. f \in Files /\ job[w].vector[f] \in Shown \cup Cached \cup {Nothing}
      BY <1>t DEF TypeOK, Job
    <3>2. GenOf(job[w].vector[f]) \in Generations \cup {Nothing}
      BY <3>1, GenOfType
    <3> QED
      BY <3>1, <3>2 DEF Removal
  <2>4. journal' \subseteq Replacement \cup Removal
    BY <1>1, <2>3 DEF IntendRemoval
  <2> QED
    BY <1>1, <2>1, <2>2, <2>4 DEF IntendRemoval, IInv, TypeOK, Alone
<1>2. CASE ReleaseStructural(w)
  <2> DEFINE mine == Without(job[w].structural, job[w].gone)
  <2>1. mine \in [Files -> Shown \cup {Nothing}] /\ "releaseVector" \in Stages
    BY <1>t, WithoutType DEF TypeOK, Job, Stages, InSession
  <2>2. WriteStructural(w, mine, "releaseVector")
    BY <1>2 DEF ReleaseStructural
  <2> HIDE DEF mine
  <2>3. /\ Alone(w) /\ job'[w].at = "releaseVector" /\ structural' = mine
        /\ job'[w].batch = job[w].batch
    BY <1>t, <2>1, <2>2, StructuralStep
  <2>4. Soundness'
    BY <1>2, <2>3, Quiet DEF ReleaseStructural, Silent, Recovering, Clearing
  <2> QED
    BY <1>2, <2>1, <2>3, <2>4 DEF ReleaseStructural, IInv, TypeOK, Alone
<1>3. CASE ReleaseVector(w)
  <2> DEFINE mine == Without(job[w].vector, job[w].gone)
  <2>1. mine \in [Files -> Cached \cup {Nothing}] /\ "releaseJournal" \in Stages
    BY <1>t, WithoutType DEF TypeOK, Job, Stages, InSession
  <2>2. WriteVector(w, mine, "releaseJournal")
    BY <1>3 DEF ReleaseVector
  <2> HIDE DEF mine
  <2>3. /\ Alone(w) /\ job'[w].at = "releaseJournal" /\ vector' = mine
        /\ job'[w].batch = job[w].batch
    BY <1>t, <2>1, <2>2, VectorStep
  <2>4. Holds(w)
    BY <1>3 DEF IInv, Soundness, SessionsHeld, ReleaseVector, At, InSession
  <2>5. Soundness'
    BY <1>3, <2>3, <2>4, Quiet DEF ReleaseVector, Silent, Recovering, Clearing
  <2> QED
    BY <1>3, <2>1, <2>3, <2>5 DEF ReleaseVector, IInv, TypeOK, Alone
<1>4. CASE ReleaseJournal(w)
  <2> DEFINE next == IF journal' = {} THEN "deletions" ELSE "release"
  <2>1. {} \in SUBSET Files /\ next \in Stages
    BY DEF Stages
  <2>2. Become(w, [job[w] EXCEPT !.gone = {}, !.at = next])
    BY <1>4 DEF ReleaseJournal
  <2>3. next \in {"deletions", "release"}
    OBVIOUS
  <2> HIDE DEF next
  <2>4. /\ Alone(w) /\ job'[w].at \in {"deletions", "release"}
        /\ job'[w].batch = job[w].batch
    BY <1>t, <2>1, <2>2, <2>3, GoneStep
  <2>5. Soundness'
    BY <1>4, <2>4, Quiet DEF ReleaseJournal, Silent, Recovering, Clearing, InSession
  <2> QED
    BY <1>4, <2>4, <2>5 DEF ReleaseJournal, IInv, TypeOK, Alone
<1>5. CASE DeletionsDone(w)
  <2>1. /\ Alone(w) /\ job'[w].at \in {"intendRemoval", "publish", "scan"}
        /\ job'[w].batch = job[w].batch
    BY <1>t, <1>5, GotoStep DEF DeletionsDone, Stages
  <2>2. Soundness'
    BY <1>5, <2>1, Quiet DEF DeletionsDone, Silent, Recovering, Clearing, InSession
  <2> QED
    BY <1>5, <2>1, <2>2 DEF DeletionsDone, IInv, TypeOK, Alone
<1>6. CASE Scan(w)
  <2>1. PICK removed \in SUBSET Files, toIndex \in SUBSET Files, touched \in BOOLEAN :
          Become(w, [job[w] EXCEPT !.removed = removed, !.scanned = TRUE,
                 !.toIndex = toIndex, !.dirty = touched,
                 !.at = IF removed = {} THEN "publish" ELSE "intendRemoval"])
    BY <1>6, <1>t DEF Scan, TypeOK, Job
  <2>2. /\ Alone(w) /\ job'[w].at \in {"publish", "intendRemoval"}
        /\ job'[w].batch = job[w].batch
    BY <1>t, <2>1, ScanStep DEF Stages
  <2>3. Soundness'
    BY <1>6, <2>2, Quiet DEF Scan, Silent, Recovering, Clearing, InSession
  <2>4. spent' \in [Kinds -> Nat]
    BY <1>6, <1>t, SpendType DEF Scan, TypeOK, Kinds
  <2> QED
    BY <1>6, <2>2, <2>3, <2>4 DEF Scan, IInv, TypeOK, Alone
<1> QED
  BY <1>1, <1>2, <1>3, <1>4, <1>5, <1>6

\* The tombstones go first: the rows of a file that is shown stay.
LEMMA DeletionSteps ==
  ASSUME IInv, NEW w \in Workers, DeleteSources(w) \/ DeleteRows(w)
  PROVE  IInv'
<1> USE DEF store, caches
<1>t. TypeOK
  BY DEF IInv
<1>h. Holds(w)
  BY DEF IInv, Soundness, SessionsHeld, DeleteSources, DeleteRows, At, InSession
<1>1. CASE DeleteSources(w)
  <2>1. {op.file : op \in {r \in Removals : source[r.file] # Nothing /\ ~Stale(w, r.file)}}
          \in SUBSET Files
    BY <1>t DEF TypeOK, Removals, Removal, Replacement
  <2>2. PICK deletable \in SUBSET Files :
          /\ source' = Without(source, deletable)
          /\ Become(w, [job[w] EXCEPT !.gone = deletable, !.at = "deleteRows"])
    BY <1>1, <2>1 DEF DeleteSources
  <2>3. /\ Alone(w) /\ job'[w].at = "deleteRows" /\ job'[w].gone = deletable
        /\ job'[w].batch = job[w].batch
    <3>1. "deleteRows" \in Stages
      BY DEF Stages, InSession
    <3>2. Become(w, [job[w] EXCEPT !.gone = deletable, !.at = "deleteRows"])
      BY <2>2
    <3>3. Alone(w) /\ job'[w].at = "deleteRows" /\ job'[w].batch = job[w].batch
      BY <1>t, <3>1, <3>2, GoneStep
    <3>4. job'[w].gone = deletable
      <4>1. PICK k \in Job(Files) : k = job[w]
        BY <1>t DEF TypeOK
      <4>2. job'[w] = [k EXCEPT !.gone = deletable, !.at = "deleteRows"]
        BY <1>t, <3>2, <4>1 DEF TypeOK, Become
      <4> QED
        BY <4>2 DEF Job
    <3> QED
      BY <3>3, <3>4
  <2>4. \A f \in Files : source'[f] = IF f \in deletable THEN Nothing ELSE source[f]
    BY <2>2 DEF Without
  <2>5. source' \in [Files -> Shown \cup {Nothing}]
    BY <1>t, <2>2, WithoutType DEF TypeOK
  <2>6. VisibleIsWhole'
    BY <1>1, <1>t, <2>4, <2>5 DEF IInv, Soundness, VisibleIsWhole, DeleteSources, TypeOK
  <2>7. Shape(job'[w])
    BY <2>3 DEF IInv, Soundness, Shape, Recovering, Clearing, Copying, Activating
  <2>8. Claims(job[w])'
    BY <2>1, <2>3, <2>4 DEF Claims, Copying, Activating
  <2>9. Soundness'
    BY <1>1, <1>h, <2>3, <2>6, <2>7, <2>8, OneActs DEF DeleteSources
  <2> QED
    BY <1>1, <2>3, <2>5, <2>9 DEF DeleteSources, IInv, TypeOK, Alone
<1>2. CASE DeleteRows(w)
  <2>a. {op.file : op \in {r \in Removals : source[r.file] = Nothing}} \subseteq Files
    BY <1>t DEF TypeOK, Removals, Removal, Replacement
  <2>1. PICK completed \in SUBSET Files :
          Become(w, [job[w] EXCEPT !.gone = completed,
            !.at = IF completed = {} THEN "release" ELSE "releaseStructural"])
    BY <1>2, <2>a DEF DeleteRows
  <2>2. /\ Alone(w) /\ job'[w].at \in {"release", "releaseStructural"}
        /\ job'[w].batch = job[w].batch
    BY <1>t, <2>1, GoneStep DEF Stages
  <2>3. /\ rows' \in [Files -> [Generations -> Nat]]
        /\ \A f \in Files : f \notin job[w].gone => rows'[f] = rows[f]
    BY <1>2, <1>t DEF DeleteRows, TypeOK
  <2>4. \A f \in job[w].gone : source[f] = Nothing
    BY <1>2, <1>h DEF IInv, Soundness, Claims, DeleteRows, At
  <2>5. VisibleIsWhole'
    BY <1>2, <1>t, <2>3, <2>4 DEF IInv, Soundness, VisibleIsWhole, DeleteRows, TypeOK
  <2>6. Shape(job'[w])
    BY <2>2 DEF IInv, Soundness, Shape, Recovering, Clearing, Copying, Activating
  <2>7. Claims(job[w])'
    BY <2>2 DEF Claims, Copying, Activating
  <2>8. Soundness'
    BY <1>2, <1>h, <2>2, <2>5, <2>6, <2>7, OneActs DEF DeleteRows
  <2> QED
    BY <1>2, <2>2, <2>3, <2>8 DEF DeleteRows, IInv, TypeOK, Alone
<1> QED
  BY <1>1, <1>2

-----------------------------------------------------------------------------
(* A forced job empties the index.                                         *)

\* From BeginReset to CompleteReset nothing is claimed of the rows.
LEMMA EmptyingSteps ==
  ASSUME IInv, NEW w \in Workers,
         BeginReset(w) \/ DeleteSomeTables(w) \/ DeleteRest(w)
  PROVE  IInv'
<1> USE DEF store, caches
<1>t. TypeOK
  BY DEF IInv
<1>h. Holds(w)
  BY DEF IInv, Soundness, SessionsHeld, BeginReset, DeleteSomeTables, DeleteRest, At, InSession
<1>e. NoEntries(Files) \in [Files -> Shown \cup {Nothing}]
  BY DEF NoEntries
<1>1. CASE BeginReset(w)
  <2>1. Alone(w) /\ job'[w].at = "deletePrefix" /\ job'[w].batch = job[w].batch
    BY <1>t, <1>1, GotoStep DEF BeginReset, Stages
  <2>2. Shape(job'[w])
    BY <2>1 DEF IInv, Soundness, Shape, Recovering, Clearing, Copying, Activating
  <2>3. Claims(job[w])'
    BY <1>1, <2>1 DEF Claims, Copying, Activating, BeginReset
  <2>4. VisibleIsWhole'
    BY <1>1 DEF BeginReset, VisibleIsWhole
  <2>5. Soundness'
    BY <1>1, <1>h, <2>1, <2>2, <2>3, <2>4, OneActs DEF BeginReset
  <2> QED
    BY <1>1, <2>1, <2>5 DEF BeginReset, IInv, TypeOK, Alone
<1>2. CASE DeleteSomeTables(w)
  <2>1. Alone(w) /\ job'[w].at = "deleteRest" /\ job'[w].batch = job[w].batch
    BY <1>t, <1>2, GotoStep DEF DeleteSomeTables, Stages, InSession
  <2>2. resetting
    BY <1>2, <1>h DEF IInv, Soundness, Claims, DeleteSomeTables, At
  <2>3. Shape(job'[w])
    BY <2>1 DEF IInv, Soundness, Shape, Recovering, Clearing, Copying, Activating
  <2>4. Claims(job[w])'
    BY <1>2, <2>1, <2>2 DEF Claims, Copying, Activating, DeleteSomeTables
  <2>5. VisibleIsWhole'
    BY <1>2, <2>2 DEF DeleteSomeTables, VisibleIsWhole
  <2>6. Soundness'
    BY <1>2, <1>h, <2>1, <2>3, <2>4, <2>5, OneActs DEF DeleteSomeTables
  <2>7. /\ source' \in [Files -> Shown \cup {Nothing}]
        /\ rows' \in [Files -> [Generations -> Nat]]
    BY <1>2, <1>e, <1>t DEF DeleteSomeTables, TypeOK
  <2> QED
    BY <1>2, <2>1, <2>6, <2>7 DEF DeleteSomeTables, IInv, TypeOK, Alone
<1>3. CASE DeleteRest(w)
  <2>1. Alone(w) /\ job'[w].at = "resetJournal" /\ job'[w].batch = job[w].batch
    BY <1>t, <1>3, GotoStep DEF DeleteRest, Stages
  <2>2. resetting
    BY <1>3, <1>h DEF IInv, Soundness, Claims, DeleteRest, At
  <2>3. Shape(job'[w])
    BY <2>1 DEF IInv, Soundness, Shape, Recovering, Clearing, Copying, Activating
  <2>4. Claims(job[w])'
    BY <1>3, <2>1 DEF Claims, Copying, Activating, DeleteRest
  <2>5. VisibleIsWhole'
    BY <1>3, <2>2 DEF DeleteRest, VisibleIsWhole
  <2>6. Soundness'
    BY <1>3, <1>h, <2>1, <2>3, <2>4, <2>5, OneActs DEF DeleteRest
  <2>7. /\ source' \in [Files -> Shown \cup {Nothing}]
        /\ rows' \in [Files -> [Generations -> Nat]]
    BY <1>3, <1>e, <1>t DEF DeleteRest, TypeOK
  <2> QED
    BY <1>3, <2>1, <2>6, <2>7 DEF DeleteRest, IInv, TypeOK, Alone
<1> QED
  BY <1>1, <1>2, <1>3

\* Nothing is shown any more when the reset is declared complete.
LEMMA ResetSteps ==
  ASSUME IInv, NEW w \in Workers,
         \/ ResetJournal(w) \/ ResetVector(w) \/ ResetStructural(w)
         \/ CompleteReset(w)
  PROVE  IInv'
<1> USE DEF store, caches
<1>t. TypeOK
  BY DEF IInv
<1>h. Holds(w)
  BY DEF IInv, Soundness, SessionsHeld, ResetJournal, ResetVector, ResetStructural,
         CompleteReset, At, InSession
<1>e. /\ NoEntries(Files) \in [Files -> Shown \cup {Nothing}]
      /\ NoEntries(Files) \in [Files -> Cached \cup {Nothing}]
  BY DEF NoEntries
<1>1. /\ Alone(w) /\ job'[w].batch = job[w].batch
      /\ job'[w].at \in {"resetVector", "resetStructural", "completeReset", "scan"}
      /\ vector' \in [Files -> Cached \cup {Nothing}]
      /\ structural' \in [Files -> Shown \cup {Nothing}]
  <2>1. CASE ResetJournal(w) \/ CompleteReset(w)
    BY <1>t, <2>1, GotoStep DEF ResetJournal, CompleteReset, Stages, InSession, TypeOK
  <2>2. CASE ResetVector(w)
    <3>1. WriteVector(w, NoEntries(Files), "resetStructural") /\ UNCHANGED structural
      BY <2>2 DEF ResetVector
    <3>2. "resetStructural" \in Stages
      BY DEF Stages, InSession
    <3>3. vector' = NoEntries(Files)
      BY <3>1 DEF WriteVector
    <3>4. /\ Alone(w) /\ job'[w].batch = job[w].batch
          /\ job'[w].at = "resetStructural"
      BY <1>t, <1>e, <3>1, <3>2, VectorStep
    <3> QED
      BY <1>t, <1>e, <3>1, <3>3, <3>4 DEF TypeOK
  <2>3. CASE ResetStructural(w)
    <3>1. WriteStructural(w, NoEntries(Files), "completeReset") /\ UNCHANGED vector
      BY <2>3 DEF ResetStructural
    <3>2. "completeReset" \in Stages
      BY DEF Stages, InSession
    <3>3. structural' = NoEntries(Files)
      BY <3>1 DEF WriteStructural
    <3>4. /\ Alone(w) /\ job'[w].batch = job[w].batch
          /\ job'[w].at = "completeReset"
      BY <1>t, <1>e, <3>1, <3>2, StructuralStep
    <3> QED
      BY <1>t, <1>e, <3>1, <3>3, <3>4 DEF TypeOK
  <2> QED
    BY <2>1, <2>2, <2>3
<1>2. source = NoEntries(Files)
  BY <1>h DEF IInv, Soundness, Claims, ResetJournal, ResetVector, ResetStructural,
         CompleteReset, At
<1>3. UNCHANGED <<tree, source, rows, staged, holder, spent>>
  BY DEF ResetJournal, ResetVector, ResetStructural, CompleteReset
<1>4. Shape(job'[w])
  BY <1>1 DEF IInv, Soundness, Shape, Recovering, Clearing, Copying, Activating
<1>5. Claims(job[w])'
  BY <1>1, <1>2, <1>3 DEF Claims, Copying, Activating
<1>6. VisibleIsWhole'
  BY <1>2, <1>3 DEF VisibleIsWhole, NoEntries
<1>7. Soundness'
  BY <1>h, <1>1, <1>3, <1>4, <1>5, <1>6, OneActs
<1>8. journal' \subseteq Replacement \cup Removal /\ resetting' \in BOOLEAN
  BY <1>t DEF TypeOK, ResetJournal, ResetVector, ResetStructural, CompleteReset
<1> QED
  BY <1>1, <1>3, <1>7, <1>8 DEF IInv, TypeOK, Alone

-----------------------------------------------------------------------------
(* Publication of a batch.                                                 *)

LEMMA PrepareStep ==
  ASSUME IInv, NEW w \in Workers, Prepare(w)
  PROVE  IInv'
<1> USE DEF store, caches
<1>t. TypeOK
  BY DEF IInv
<1> DEFINE changed == {f \in job[w].toIndex \cap Present :
                         HashOf(job[w].vector[f]) # tree[f]}
           separate(m) == \A f, other \in changed : f # other => m[f] # m[other]
           minted == CHOOSE m \in [changed -> Unused] : separate(m)
           batch == {[file |-> f, gen |-> minted[f], hash |-> tree[f]] : f \in changed}
           next == IF changed = {} THEN "finish" ELSE "intend"
<1>1. changed \subseteq Files /\ \A f \in changed : tree[f] \in Contents
  BY <1>t DEF TypeOK, Present
<1>2. IsFiniteSet(changed) /\ IsFiniteSet(Unused) /\ Unused \subseteq Generations
  BY <1>1, IndexAssumption, FS_Subset DEF Unused
<1>3. Cardinality(changed) <= Cardinality(Unused)
  BY DEF Prepare
<1>4. Become(w, [job[w] EXCEPT !.batch = batch, !.toIndex = {}, !.at = next])
  BY DEF Prepare
<1>5. next \in {"finish", "intend"} /\ next \in Stages
  BY DEF Stages
<1> HIDE DEF changed, next
<1>6. minted \in [changed -> Unused]
  <2>1. \E m \in [changed -> Unused] : separate(m)
    BY <1>2, <1>3, Minting
  <2> QED
    BY <2>1
<1> HIDE DEF minted
<1>7. /\ batch \in SUBSET Publication
      /\ \A p, q \in batch : p.file = q.file => p = q
      /\ \A p \in batch : Fresh(p)
  <2>1. ASSUME NEW f \in changed
        PROVE  /\ f \in Files /\ minted[f] \in Generations /\ tree[f] \in Contents
               /\ rows[f][minted[f]] = 0
    BY <1>1, <1>2, <1>6, <2>1 DEF Unused
  <2>2. batch \in SUBSET Publication
    BY <2>1 DEF Publication
  <2>3. \A p \in batch : Fresh(p)
    BY <2>1 DEF Fresh
  <2> QED
    BY <2>2, <2>3
<1> HIDE DEF batch
<1>8. Alone(w) /\ job'[w].at \in {"finish", "intend"}
  BY <1>t, <1>4, <1>5, <1>7, BatchStep
<1>9. job'[w].batch = batch
  <2>1. PICK k \in Job(Files) : k = job[w]
    BY <1>t DEF TypeOK
  <2>2. job'[w] = [k EXCEPT !.batch = batch, !.toIndex = {}, !.at = next]
    BY <1>t, <1>4, <2>1 DEF TypeOK, Become
  <2> QED
    BY <2>2 DEF Job
<1>10. UNCHANGED <<tree, store, caches, holder, spent>>
  BY DEF Prepare
<1>11. Shape(job'[w])
  BY <1>7, <1>8, <1>9 DEF Shape, Recovering, Clearing, Copying, Activating
<1>12. Claims(job[w])'
  BY <1>7, <1>8, <1>9, <1>10 DEF Claims, Fresh, Copying, Activating
<1>13. VisibleIsWhole'
  BY <1>10 DEF IInv, Soundness, VisibleIsWhole
<1>14. Soundness'
  BY <1>8, <1>10, <1>11, <1>12, <1>13, OneActs DEF InSession
<1> QED
  BY <1>8, <1>10, <1>14 DEF IInv, TypeOK, Alone

\* The rows of the batch's generations stay where they are while it is staged.
LEMMA StagingSteps ==
  ASSUME IInv, NEW w \in Workers,
         Intend(w) \/ Stage(w) \/ Complete(w) \/ PendingVector(w)
  PROVE  IInv'
<1> USE DEF store, caches
<1>t. TypeOK
  BY DEF IInv
<1>h. Holds(w)
  BY DEF IInv, Soundness, SessionsHeld, Intend, Stage, Complete, PendingVector, At, InSession
<1>1. /\ \A p \in job[w].batch : Fresh(p)
      /\ \A p, q \in job[w].batch : p.file = q.file => p = q
  BY <1>h DEF IInv, Soundness, Shape, Claims, Intend, Stage, Complete, PendingVector, At
<1>2. /\ UNCHANGED <<tree, source, rows, structural, resetting, holder>>
      /\ spent' \in [Kinds -> Nat]
  BY <1>t, SpendType DEF Intend, Stage, Complete, PendingVector, AllOrCancelled, TypeOK, Kinds
<1>3. ASSUME /\ Alone(w) /\ job'[w].batch = job[w].batch
             /\ job'[w].at \in {"stage", "complete", "pendingStructural"}
             /\ job'[w].at = "complete" => job'[w].one \in Publication
             /\ job'[w].at = "pendingStructural" => job'[w].done # {}
             /\ staged' \in [Generations -> {"none", "staging", "staged", "activated"}]
             /\ vector' \in [Files -> Cached \cup {Nothing}]
             /\ journal' \subseteq Replacement \cup Removal
      PROVE  IInv'
  <2>1. Shape(job'[w])
    BY <1>1, <1>3 DEF Shape, Recovering, Clearing, Copying, Activating
  <2>2. Claims(job[w])'
    BY <1>1, <1>2, <1>3 DEF Claims, Fresh, Copying, Activating
  <2>3. VisibleIsWhole'
    BY <1>2 DEF IInv, Soundness, VisibleIsWhole
  <2>4. Soundness'
    BY <1>h, <1>2, <1>3, <2>1, <2>2, <2>3, OneActs
  <2> QED
    BY <1>2, <1>3, <2>4 DEF IInv, TypeOK, Alone
<1>4. CASE Intend(w)
  <2>1. Alone(w) /\ job'[w].at = "stage" /\ job'[w].batch = job[w].batch
    BY <1>t, <1>4, GotoStep DEF Intend, Stages
  <2>2. ASSUME NEW p \in job[w].batch
        PROVE  [kind |-> "replace", file |-> p.file, gen |-> p.gen, hash |-> p.hash,
                old |-> GenOf(job[w].vector[p.file])] \in Replacement
    <3>1. p \in Publication
      BY <1>t DEF TypeOK, Job
    <3>2. p.file \in Files /\ p.gen \in Generations /\ p.hash \in Contents
      BY <3>1 DEF Publication
    <3>3. job[w].vector[p.file] \in Shown \cup Cached \cup {Nothing}
      BY <1>t, <3>2 DEF TypeOK, Job
    <3>4. GenOf(job[w].vector[p.file]) \in Generations \cup {Nothing}
      BY <3>3, GenOfType
    <3> QED
      BY <3>2, <3>4 DEF Replacement
  <2>3. journal' \subseteq Replacement \cup Removal
    BY <1>4, <2>2 DEF Intend
  <2>4. UNCHANGED <<staged, vector>>
    BY <1>4 DEF Intend
  <2> QED
    BY <1>t, <1>3, <2>1, <2>3, <2>4 DEF TypeOK
<1>5. CASE Stage(w)
  <2>1. PICK p \in Publication :
          /\ staged' = [staged EXCEPT ![p.gen] = "staging"]
          /\ Become(w, [job[w] EXCEPT !.one = p, !.at = "complete"])
    BY <1>t, <1>5 DEF Stage, TypeOK, Job
  <2>2. "complete" \in Stages
    BY DEF Stages, InSession
  <2>3. /\ Alone(w) /\ job'[w].at = "complete" /\ job'[w].batch = job[w].batch
        /\ job'[w].one = p
    <3>1. Become(w, [job[w] EXCEPT !.one = p, !.at = "complete"])
      BY <2>1
    <3>2. Alone(w) /\ job'[w].at = "complete" /\ job'[w].batch = job[w].batch
      BY <1>t, <2>2, <3>1, OneStep
    <3>3. job'[w].one = p
      <4>1. PICK k \in Job(Files) : k = job[w]
        BY <1>t DEF TypeOK
      <4>2. job'[w] = [k EXCEPT !.one = p, !.at = "complete"]
        BY <1>t, <3>1, <4>1 DEF TypeOK, Become
      <4> QED
        BY <4>2 DEF Job
    <3> QED
      BY <3>2, <3>3
  <2>4. staged' \in [Generations -> {"none", "staging", "staged", "activated"}]
    BY <1>t, <2>1 DEF TypeOK
  <2>5. UNCHANGED <<vector, journal>>
    BY <1>5 DEF Stage
  <2> QED
    BY <1>t, <1>3, <2>3, <2>4, <2>5 DEF TypeOK
<1>6. CASE Complete(w)
  <2>1. job[w].one \in Publication /\ job[w].done \in SUBSET Publication
    BY <1>t, <1>6 DEF IInv, Soundness, Shape, Complete, At, TypeOK, Job
  <2>2. PICK ps \in SUBSET Publication :
          Become(w, [job[w] EXCEPT !.one = Nothing, !.done = ps, !.at = "stage"])
    <3>1. job[w].done \cup {job[w].one} \in SUBSET Publication
      BY <2>1
    <3>2. Become(w, [job[w] EXCEPT !.one = Nothing,
                       !.done = job[w].done \cup {job[w].one}, !.at = "stage"])
      BY <1>6 DEF Complete
    <3> QED
      BY <3>1, <3>2
  <2>3. Alone(w) /\ job'[w].at = "stage" /\ job'[w].batch = job[w].batch
    BY <1>t, <2>2, OneDoneStep DEF Stages
  <2>4. staged' \in [Generations -> {"none", "staging", "staged", "activated"}]
    BY <1>t, <1>6 DEF TypeOK, Complete
  <2>5. UNCHANGED <<vector, journal>>
    BY <1>6 DEF Complete
  <2> QED
    BY <1>t, <1>3, <2>3, <2>4, <2>5 DEF TypeOK
<1>7. CASE PendingVector(w)
  <2> DEFINE mine == Entered(job[w].vector, job[w].done, "pending")
  <2>1. mine \in [Files -> Cached \cup {Nothing}]
    <3>1. /\ job[w].vector \in [Files -> Cached \cup {Nothing}]
          /\ job[w].done \in SUBSET Publication
      BY <1>t DEF TypeOK, Job
    <3> QED
      BY <3>1, EnteredType
  <2>2. WriteVector(w, mine, "pendingStructural")
    BY <1>7 DEF PendingVector
  <2>3. "pendingStructural" \in Stages /\ job[w].done # {}
    BY <1>7 DEF Stages, InSession, PendingVector, AllOrCancelled
  <2> HIDE DEF mine
  <2>4. /\ Alone(w) /\ job'[w].at = "pendingStructural"
        /\ job'[w].batch = job[w].batch /\ job'[w].done = job[w].done
    BY <1>t, <2>1, <2>2, <2>3, VectorStep
  <2>5. vector' = mine
    BY <2>2 DEF WriteVector
  <2>6. UNCHANGED <<staged, journal>>
    BY <1>7 DEF PendingVector
  <2> QED
    BY <1>t, <1>3, <2>1, <2>3, <2>4, <2>5, <2>6 DEF TypeOK
<1> QED
  BY <1>4, <1>5, <1>6, <1>7

LEMMA PendingStructuralStep ==
  ASSUME IInv, NEW w \in Workers, PendingStructural(w)
  PROVE  IInv'
<1> USE DEF store, caches
<1>t. TypeOK
  BY DEF IInv
<1>h. Holds(w)
  BY DEF IInv, Soundness, SessionsHeld, PendingStructural, At, InSession
<1> DEFINE mine == EnteredShown(job[w].structural, job[w].done)
           next == IF job[w].done = job[w].batch THEN "activate" ELSE "finish"
<1>1. mine \in [Files -> Shown \cup {Nothing}]
  <2>1. /\ job[w].structural \in [Files -> Shown \cup {Nothing}]
        /\ job[w].done \in SUBSET Publication
    BY <1>t DEF TypeOK, Job
  <2> QED
    BY <2>1, EnteredShownType
<1>2. /\ structural' = mine
      /\ Become(w, [job[w] EXCEPT !.structural = mine, !.done = {}, !.at = next])
  BY DEF PendingStructural
<1>3. /\ \A p \in job[w].batch : Fresh(p)
      /\ \A p, q \in job[w].batch : p.file = q.file => p = q
      /\ job[w].done # {}
  BY <1>h DEF IInv, Soundness, Shape, Claims, PendingStructural, At
<1>4. /\ next \in {"activate", "finish"} /\ next \in Stages
      /\ next = "activate" => job[w].batch # {}
  BY <1>3 DEF Stages
<1> HIDE DEF mine, next
<1>5. /\ Alone(w) /\ job'[w].at = next /\ job'[w].batch = job[w].batch
      /\ job'[w].done = {}
  BY <1>t, <1>1, <1>2, <1>4, PendingStep
<1>6. UNCHANGED <<tree, store, vector, journal, resetting, holder, spent>>
  BY DEF PendingStructural
<1>7. Shape(job'[w])
  BY <1>3, <1>4, <1>5 DEF Shape, Recovering, Clearing, Copying, Activating
<1>8. Claims(job[w])'
  BY <1>3, <1>4, <1>5, <1>6 DEF Claims, Fresh, Copying, Activating
<1>9. VisibleIsWhole'
  BY <1>6 DEF IInv, Soundness, VisibleIsWhole
<1>10. Soundness'
  BY <1>h, <1>5, <1>6, <1>7, <1>8, <1>9, OneActs
<1> QED
  BY <1>1, <1>2, <1>5, <1>6, <1>10 DEF IInv, TypeOK, Alone

-----------------------------------------------------------------------------
(* Activation.                                                             *)

\* The rows of one generation of a file are set.
LEMMA RowsSet ==
  ASSUME TypeOK, NEW p \in Publication, NEW n \in Nat,
         rows' = [rows EXCEPT ![p.file][p.gen] = n]
  PROVE  /\ rows' \in [Files -> [Generations -> Nat]]
         /\ rows'[p.file][p.gen] = n
         /\ \A f \in Files, g \in Generations :
              f # p.file \/ g # p.gen => rows'[f][g] = rows[f][g]
<1>1. p.file \in Files /\ p.gen \in Generations
  BY DEF Publication
<1> QED
  BY <1>1 DEF TypeOK

\* Rows of a generation that is not shown change what nobody sees.
LEMMA Unseen ==
  ASSUME TypeOK, VisibleIsWhole, NEW p \in Publication, NEW n \in Nat,
         rows' = [rows EXCEPT ![p.file][p.gen] = n], ~Visible(p),
         UNCHANGED <<source, resetting>>
  PROVE  VisibleIsWhole'
<1> SUFFICES ASSUME ~resetting, NEW f \in Files, source[f] # Nothing
             PROVE  rows'[f][source[f].gen] = Whole
  BY DEF VisibleIsWhole, TypeOK
<1>1. source[f] \in Shown /\ rows[f][source[f].gen] = Whole
  BY DEF VisibleIsWhole, TypeOK
<1>2. source[f].gen \in Generations
  BY <1>1 DEF Shown
<1>3. f # p.file \/ source[f].gen # p.gen
  BY DEF Visible, GenOf
<1> QED
  BY <1>1, <1>2, <1>3, RowsSet

\* Two publications of a batch have nothing in common.
LEMMA Apart ==
  ASSUME TypeOK, NEW w \in Workers, Shape(job[w]),
         NEW p \in job[w].batch, NEW q \in job[w].batch, p # q
  PROVE  /\ p \in Publication /\ q \in Publication
         /\ p.file \in Files /\ q.file \in Files /\ p.file # q.file
         /\ p.gen \in Generations /\ q.gen \in Generations
<1>1. p \in Publication /\ q \in Publication
  BY DEF TypeOK, Job
<1> QED
  BY <1>1 DEF Shape, Publication

\* A publication is taken up: by recovery without a batch, whatever is there,
\* or from a batch whose generation has no rows yet.
LEMMA BeginCopyStep ==
  ASSUME IInv, NEW w \in Workers, Holds(w), NEW p \in Publication, NEW fresh \in BOOLEAN,
         BeginCopy(w, p, fresh),
         \/ At(w, "replacements") /\ ~fresh
         \/ At(w, "activate") /\ fresh /\ p \in job[w].batch \ job[w].done
  PROVE  IInv'
<1> USE DEF store, caches
<1>t. TypeOK /\ VisibleIsWhole /\ Shape(job[w]) /\ Claims(job[w])
  BY DEF IInv, Soundness
<1> DEFINE next == IF Visible(p) THEN "receipt" ELSE "append"
<1>1. Become(w, [job[w] EXCEPT !.one = p, !.at = next])
  BY DEF BeginCopy, Visible
<1>2. next \in {"receipt", "append"} /\ next \in Stages
      /\ (Visible(p) => next = "receipt") /\ (next = "receipt" => Visible(p))
  BY DEF Stages, InSession
<1> HIDE DEF next
<1>3. Alone(w) /\ job'[w].at = next /\ job'[w].batch = job[w].batch
      /\ job'[w].done = job[w].done
  BY <1>t, <1>1, <1>2, OneStep
<1>4. job'[w].one = p
  <2>1. PICK k \in Job(Files) : k = job[w]
    BY <1>t DEF TypeOK
  <2>2. job'[w] = [k EXCEPT !.one = p, !.at = next]
    BY <1>t, <1>1, <2>1 DEF TypeOK, Become
  <2> QED
    BY <2>2 DEF Job
<1>5. UNCHANGED <<tree, source, staged, caches, holder, spent>>
  BY DEF BeginCopy
<1>6. \/ job[w].batch = {}
      \/ p \in job[w].batch \ job[w].done /\ job[w].done \subseteq job[w].batch
  BY <1>t DEF Shape, At, Recovering, Activating
<1>7. Shape(job'[w])
  BY <1>t, <1>2, <1>3, <1>4, <1>6 DEF Shape, Recovering, Clearing, Copying, Activating
<1>8. \A q \in job[w].batch \ job[w].done : Fresh(q)
  BY <1>t DEF Claims, Shape, At, Recovering
<1>9. \A q \in job[w].done : job[w].batch # {} => Visible(q)
  BY <1>t DEF Claims, Shape, At, Recovering, Activating
<1>10. CASE Visible(p)
  <2>1. UNCHANGED rows
    BY <1>10 DEF BeginCopy, Visible
  <2>2. Claims(job[w])'
    BY <1>2, <1>3, <1>4, <1>5, <1>8, <1>9, <1>10, <2>1
       DEF Claims, Fresh, Visible, Copying, Activating
  <2>3. VisibleIsWhole'
    BY <1>t, <1>5, <2>1 DEF VisibleIsWhole
  <2>4. Soundness'
    BY <1>3, <1>5, <1>7, <2>2, <2>3, OneActs
  <2> QED
    BY <1>3, <1>5, <2>1, <2>4 DEF IInv, TypeOK, Alone
<1>11. CASE ~Visible(p)
  <2>1. rows' = [rows EXCEPT ![p.file][p.gen] = 1]
    <3>1. CASE ~fresh
      BY <1>11, <3>1 DEF BeginCopy, Visible
    <3>2. CASE fresh
      <4>1. rows[p.file][p.gen] = 0
        BY <1>8, <3>2 DEF Fresh
      <4>2. rows' = [rows EXCEPT ![p.file][p.gen] = @ + 1]
        BY <1>11, <3>2 DEF BeginCopy, Visible, Append
      <4>3. p.file \in Files /\ p.gen \in Generations
        BY DEF Publication
      <4> QED
        BY <1>t, <4>1, <4>2, <4>3 DEF TypeOK
    <3> QED
      BY <3>1, <3>2
  <2>2. VisibleIsWhole'
    BY <1>t, <1>5, <1>11, <2>1, Unseen
  <2>3. \A q \in job[w].batch \ job[w].done : q # p => rows'[q.file][q.gen] = 0
    <3> SUFFICES ASSUME NEW q \in job[w].batch \ job[w].done, q # p
                 PROVE  rows'[q.file][q.gen] = 0
      OBVIOUS
    <3>1. q.file \in Files /\ q.gen \in Generations /\ q.file # p.file
      BY <1>t, <1>6, Apart
    <3>2. rows'[q.file][q.gen] = rows[q.file][q.gen]
      BY <1>t, <2>1, <3>1, RowsSet
    <3> QED
      BY <1>8, <3>2 DEF Fresh
  <2>4. rows'[p.file][p.gen] = 1 /\ rows' \in [Files -> [Generations -> Nat]]
    BY <1>t, <2>1, RowsSet
  <2>5. next = "append"
    BY <1>2, <1>11
  <2>6. Claims(job[w])'
    BY <1>3, <1>4, <1>5, <1>9, <1>11, <2>3, <2>4, <2>5
       DEF Claims, Fresh, Visible, Copying, Activating
  <2>7. Soundness'
    BY <1>3, <1>5, <1>7, <2>2, <2>6, OneActs
  <2> QED
    BY <1>3, <1>5, <2>4, <2>7 DEF IInv, TypeOK, Alone
<1> QED
  BY <1>10, <1>11

-----------------------------------------------------------------------------
(* From the copy to the manifests.                                         *)

LEMMA AppendRestStep ==
  ASSUME IInv, NEW w \in Workers, AppendRest(w)
  PROVE  IInv'
<1> USE DEF store, caches
<1>t. TypeOK /\ VisibleIsWhole /\ Shape(job[w]) /\ Claims(job[w]) /\ Holds(w)
  BY DEF IInv, Soundness, SessionsHeld, AppendRest, At, InSession
<1> DEFINE p == job[w].one
<1>1. p \in Publication /\ rows[p.file][p.gen] = 1 /\ ~Visible(p)
  BY <1>t DEF Shape, Claims, AppendRest, At, Copying
<1>2. rows' = [rows EXCEPT ![p.file][p.gen] = Whole]
  <2>1. p.file \in Files /\ p.gen \in Generations
    BY <1>1 DEF Publication
  <2> QED
    BY <1>t, <1>1, <2>1 DEF AppendRest, Append, TypeOK, Whole
<1>3. UNCHANGED <<tree, source, staged, caches, holder, spent>>
  BY DEF AppendRest
<1>4. /\ Alone(w) /\ job'[w].at = "flip" /\ job'[w].batch = job[w].batch
      /\ job'[w].done = job[w].done /\ job'[w].one = p
  BY <1>t, GotoStep DEF AppendRest, Stages, InSession
<1>5. VisibleIsWhole'
  BY <1>t, <1>1, <1>2, <1>3, Unseen DEF Whole
<1>6. Shape(job'[w])
  BY <1>t, <1>1, <1>4 DEF Shape, AppendRest, At, Recovering, Clearing, Copying, Activating
<1>7. rows'[p.file][p.gen] = Whole /\ rows' \in [Files -> [Generations -> Nat]]
  BY <1>t, <1>1, <1>2, RowsSet DEF Whole
<1>8. ASSUME NEW q \in job[w].batch \ job[w].done, q # p
      PROVE  rows'[q.file][q.gen] = 0
  <2>1. p \in job[w].batch /\ rows[q.file][q.gen] = 0
    BY <1>t, <1>8 DEF Shape, Claims, Fresh, AppendRest, At, Copying
  <2>2. q.file \in Files /\ q.gen \in Generations /\ q.file # p.file
    BY <1>t, <1>8, <2>1, Apart
  <2> QED
    BY <1>t, <1>1, <1>2, <2>1, <2>2, RowsSet DEF Whole
<1>9. \A q \in job[w].done : job[w].batch # {} => Visible(q)
  BY <1>t DEF Claims, AppendRest, At, Copying, Activating
<1> HIDE DEF p
<1>10. Claims(job[w])'
  BY <1>1, <1>3, <1>4, <1>7, <1>8, <1>9 DEF Claims, Fresh, Visible, Copying, Activating
<1>11. Soundness'
  BY <1>t, <1>3, <1>4, <1>5, <1>6, <1>10, OneActs
<1> QED
  BY <1>3, <1>4, <1>7, <1>11 DEF IInv, TypeOK, Alone

\* The pointer is flipped to rows that are complete.
LEMMA FlipStep ==
  ASSUME IInv, NEW w \in Workers, Flip(w)
  PROVE  IInv'
<1> USE DEF store, caches
<1>t. TypeOK /\ VisibleIsWhole /\ Shape(job[w]) /\ Claims(job[w]) /\ Holds(w)
  BY DEF IInv, Soundness, SessionsHeld, Flip, At, InSession
<1> DEFINE p == job[w].one
<1>1. p \in Publication /\ rows[p.file][p.gen] = Whole
  BY <1>t DEF Shape, Claims, Flip, At, Copying
<1>2. p.file \in Files /\ p.gen \in Generations /\ p.hash \in Contents
  BY <1>1 DEF Publication
<1>3. source' = [source EXCEPT ![p.file] = [gen |-> p.gen, hash |-> p.hash]]
  BY DEF Flip
<1>4. UNCHANGED <<tree, rows, staged, caches, holder, spent>>
  BY DEF Flip
<1>5. /\ Alone(w) /\ job'[w].at = "receipt" /\ job'[w].batch = job[w].batch
      /\ job'[w].done = job[w].done /\ job'[w].one = p
  BY <1>t, GotoStep DEF Flip, Stages, InSession
<1>6. /\ source' \in [Files -> Shown \cup {Nothing}]
      /\ source'[p.file] = [gen |-> p.gen, hash |-> p.hash]
      /\ \A f \in Files : f # p.file => source'[f] = source[f]
  BY <1>t, <1>2, <1>3 DEF TypeOK, Shown
<1>7. source'[p.file].gen = p.gen /\ source'[p.file] # Nothing
  BY <1>2, <1>6, IndexAssumption
<1> HIDE DEF p
<1>8. VisibleIsWhole'
  <2> SUFFICES ASSUME ~resetting, NEW f \in Files, source'[f] # Nothing
               PROVE  rows[f][source'[f].gen] = Whole
    BY <1>4, <1>6 DEF VisibleIsWhole
  <2>1. CASE f = p.file
    BY <1>1, <1>7, <2>1
  <2>2. CASE f # p.file
    BY <1>t, <1>6, <2>2 DEF VisibleIsWhole, TypeOK
  <2> QED
    BY <2>1, <2>2
<1>9. Shape(job'[w])
  BY <1>t, <1>1, <1>5 DEF Shape, p, Flip, At, Recovering, Clearing, Copying, Activating
<1>10. ASSUME NEW q \in job[w].done, job[w].batch # {}
       PROVE  GenOf(source'[q.file]) = q.gen
  <2>1. Visible(q) /\ q \in job[w].batch /\ p \in job[w].batch /\ p # q
    BY <1>t, <1>10 DEF Claims, Shape, p, Flip, At, Copying, Activating
  <2>2. q.file \in Files /\ q.file # p.file
    BY <1>t, <2>1, Apart
  <2> QED
    BY <1>6, <2>1, <2>2 DEF Visible
<1>11. \A q \in job[w].batch \ job[w].done : q # p => Fresh(q)
  BY <1>t DEF Claims, p, Flip, At, Copying
<1>12. GenOf(source'[p.file]) = p.gen
  BY <1>7 DEF GenOf
<1>13. Claims(job[w])'
  BY <1>4, <1>5, <1>10, <1>11, <1>12 DEF Claims, Fresh, Visible, Copying, Activating
<1>14. Soundness'
  BY <1>t, <1>5, <1>4, <1>8, <1>9, <1>13, OneActs
<1> QED
  BY <1>4, <1>5, <1>6, <1>14 DEF IInv, TypeOK, Alone

\* Rows of generations that are not shown are removed from files whose shown
\* generation is known.
LEMMA Superseded ==
  ASSUME TypeOK, VisibleIsWhole, NEW ps \in SUBSET Publication,
         \A p \in ps : Visible(p), rows' = OnlyRowsOf(ps),
         UNCHANGED <<source, resetting>>
  PROVE  VisibleIsWhole' /\ rows' \in [Files -> [Generations -> Nat]]
<1>1. rows' \in [Files -> [Generations -> Nat]]
  BY OnlyRowsType DEF TypeOK
<1>2. ASSUME ~resetting, NEW f \in Files, source[f] # Nothing
      PROVE  rows'[f][source[f].gen] = Whole
  <2>1. source[f] \in Shown /\ rows[f][source[f].gen] = Whole
    BY <1>2 DEF VisibleIsWhole, TypeOK
  <2>2. source[f].gen \in Generations
    BY <2>1 DEF Shown
  <2>3. ~\E p \in ps : p.file = f /\ p.gen # source[f].gen
    BY <1>2 DEF Visible, GenOf
  <2> QED
    BY <2>1, <2>2, <2>3 DEF OnlyRowsOf
<1> QED
  BY <1>1, <1>2 DEF VisibleIsWhole, TypeOK

LEMMA ReceiptStep ==
  ASSUME IInv, NEW w \in Workers, Receipt(w)
  PROVE  IInv'
<1> USE DEF store, caches
<1>t. TypeOK /\ VisibleIsWhole /\ Shape(job[w]) /\ Claims(job[w]) /\ Holds(w)
  BY DEF IInv, Soundness, SessionsHeld, Receipt, At, InSession
<1> DEFINE p == job[w].one
           next == IF job[w].batch = {} THEN "confirm" ELSE "activate"
           ps == job[w].done \cup {p}
<1>1. p \in Publication /\ Visible(p) /\ p \notin {q \in job[w].done : job[w].batch # {}}
  BY <1>t DEF Shape, Claims, Receipt, At, Copying
<1>2. ps \in SUBSET Publication /\ next \in Stages
  BY <1>t, <1>1 DEF TypeOK, Job, Stages
<1>3. Become(w, [job[w] EXCEPT !.one = Nothing, !.done = ps, !.at = next])
  BY DEF Receipt
<1>4. rows' = IF job[w].batch = {} THEN OnlyRowsOf({p}) ELSE rows
  BY DEF Receipt
<1>5. /\ UNCHANGED <<tree, source, caches, holder, spent>>
      /\ staged' \in [Generations -> {"none", "staging", "staged", "activated"}]
  BY <1>t DEF Receipt, TypeOK
<1>6. \A q \in ps : q \in job[w].done \/ q = p
  OBVIOUS
<1>7. \A q \in job[w].batch \ ps : q \in job[w].batch \ job[w].done /\ q # p
  OBVIOUS
<1>8. job[w].batch # {} => ps \subseteq job[w].batch
  BY <1>t DEF Shape, Receipt, At, Copying, Activating
<1>a. /\ job[w].batch = {} => next = "confirm"
      /\ job[w].batch # {} => next = "activate"
  OBVIOUS
<1> HIDE DEF ps, next
<1>9. Alone(w) /\ job'[w].at = next /\ job'[w].batch = job[w].batch
  BY <1>t, <1>2, <1>3, OneDoneStep
<1>10. job'[w].done = ps
  <2>1. PICK k \in Job(Files) : k = job[w]
    BY <1>t DEF TypeOK
  <2>2. job'[w] = [k EXCEPT !.one = Nothing, !.done = ps, !.at = next]
    BY <1>t, <1>3, <2>1 DEF TypeOK, Become
  <2> QED
    BY <2>2 DEF Job
<1>11. CASE job[w].batch = {}
  <2>1. VisibleIsWhole' /\ rows' \in [Files -> [Generations -> Nat]]
    BY <1>t, <1>1, <1>4, <1>5, <1>11, Superseded
  <2>2. Shape(job'[w])
    BY <1>a, <1>9, <1>11 DEF Shape, Recovering, Clearing, Copying, Activating
  <2>3. Claims(job[w])'
    BY <1>a, <1>9, <1>11 DEF Claims, Copying, Activating
  <2>4. Soundness'
    BY <1>a, <1>t, <1>5, <1>9, <1>11, <2>1, <2>2, <2>3, OneActs
  <2> QED
    BY <1>5, <1>9, <2>1, <2>4 DEF IInv, TypeOK, Alone
<1>12. CASE job[w].batch # {}
  <2>1. UNCHANGED rows
    BY <1>4, <1>12
  <2>2. VisibleIsWhole'
    BY <1>t, <1>5, <2>1 DEF VisibleIsWhole
  <2>3. Shape(job'[w])
    BY <1>a, <1>t, <1>8, <1>9, <1>10, <1>12 DEF Shape, Recovering, Clearing, Copying, Activating
  <2>4. \A q \in ps : Visible(q)
    BY <1>t, <1>1, <1>6, <1>12 DEF Claims, Receipt, At, Copying, Activating
  <2>5. \A q \in job[w].batch \ ps : Fresh(q)
    BY <1>t, <1>7 DEF Claims, Receipt, At, Copying
  <2>6. Claims(job[w])'
    BY <1>a, <1>5, <1>9, <1>10, <1>12, <2>1, <2>4, <2>5
       DEF Claims, Fresh, Visible, Copying, Activating
  <2>7. Soundness'
    BY <1>a, <1>t, <1>5, <1>9, <1>12, <2>2, <2>3, <2>6, OneActs
  <2> QED
    BY <1>t, <1>5, <1>9, <2>1, <2>7 DEF IInv, TypeOK, Alone
<1> QED
  BY <1>11, <1>12

LEMMA CleanupStep ==
  ASSUME IInv, NEW w \in Workers, Cleanup(w)
  PROVE  IInv'
<1> USE DEF store, caches
<1>t. TypeOK /\ VisibleIsWhole /\ Shape(job[w]) /\ Claims(job[w]) /\ Holds(w)
  BY DEF IInv, Soundness, Cleanup
<1>1. job[w].done \in SUBSET Publication /\ \A p \in job[w].done : Visible(p)
  BY <1>t DEF TypeOK, Job, Claims, Shape, Cleanup, At, Activating
<1>2. /\ rows' = OnlyRowsOf(job[w].done)
      /\ UNCHANGED <<tree, source, staged, caches, holder>>
  BY DEF Cleanup
<1>3. Alone(w) /\ job'[w].at = "confirm" /\ job'[w].batch = job[w].batch
  BY <1>t, GotoStep DEF Cleanup, Stages
<1>4. VisibleIsWhole' /\ rows' \in [Files -> [Generations -> Nat]]
  BY <1>t, <1>1, <1>2, Superseded
<1>5. Shape(job'[w])
  BY <1>t, <1>3 DEF Shape, Recovering, Clearing, Copying, Activating
<1>6. Claims(job[w])'
  BY <1>3 DEF Claims, Copying, Activating
<1>7. Soundness'
  BY <1>t, <1>2, <1>3, <1>4, <1>5, <1>6, OneActs
<1>8. spent' \in [Kinds -> Nat]
  BY <1>t, SpendType DEF Cleanup, AllOrCancelled, TypeOK, Kinds
<1> QED
  BY <1>2, <1>3, <1>4, <1>7, <1>8 DEF IInv, TypeOK, Alone

LEMMA ClosingSteps ==
  ASSUME IInv, NEW w \in Workers, Confirm(w) \/ Forget(w) \/ Finalize(w)
  PROVE  IInv'
<1> USE DEF store, caches
<1>t. TypeOK
  BY DEF IInv
<1>h. Holds(w)
  BY DEF IInv, Soundness, SessionsHeld, Confirm, Forget, Finalize, At, InSession
<1>1. CASE Confirm(w)
  <2> DEFINE mine == Entered(job[w].vector, job[w].done, "current")
  <2>1. mine \in [Files -> Cached \cup {Nothing}]
    <3>1. /\ job[w].vector \in [Files -> Cached \cup {Nothing}]
          /\ job[w].done \in SUBSET Publication
      BY <1>t DEF TypeOK, Job
    <3> QED
      BY <3>1, EnteredType
  <2>2. WriteVector(w, mine, "forget") /\ "forget" \in Stages
    BY <1>1 DEF Confirm, Stages, InSession
  <2> HIDE DEF mine
  <2>3. Alone(w) /\ job'[w].at = "forget" /\ job'[w].batch = job[w].batch
    BY <1>t, <2>1, <2>2, VectorStep
  <2>4. vector' = mine
    BY <2>2 DEF WriteVector
  <2>5. Soundness'
    BY <1>1, <1>h, <2>3, Quiet DEF Confirm, Silent, Recovering, Clearing
  <2> QED
    BY <1>1, <2>1, <2>3, <2>4, <2>5 DEF Confirm, IInv, TypeOK, Alone
<1>2. CASE Forget(w)
  <2>1. Alone(w) /\ job'[w].at = "finalize" /\ job'[w].batch = job[w].batch
    BY <1>t, <1>2, GotoStep DEF Forget, Stages
  <2>2. Soundness'
    BY <1>2, <1>h, <2>1, Quiet DEF Forget, Silent, Recovering, Clearing
  <2>3. journal' \subseteq Replacement \cup Removal
    BY <1>2, <1>t DEF Forget, TypeOK
  <2> QED
    BY <1>2, <2>1, <2>2, <2>3 DEF Forget, IInv, TypeOK, Alone
<1>3. CASE Finalize(w)
  <2> DEFINE next == IF job[w].batch = {} THEN "replacements" ELSE "finish"
  <2>1. /\ {} \in SUBSET Publication /\ next \in Stages
        /\ next \in {"replacements", "finish"}
        /\ next = "replacements" => job[w].batch = {}
    BY DEF Stages
  <2>2. Become(w, [job[w] EXCEPT !.done = {}, !.at = next])
    BY <1>3 DEF Finalize
  <2> HIDE DEF next
  <2>3. Alone(w) /\ job'[w].at = next /\ job'[w].batch = job[w].batch
    BY <1>t, <2>1, <2>2, DoneStep
  <2>4. Soundness'
    BY <1>3, <1>h, <2>1, <2>3, Quiet DEF Finalize, Silent, Recovering, Clearing
  <2>5. staged' \in [Generations -> {"none", "staging", "staged", "activated"}]
    BY <1>3, <1>t DEF Finalize, TypeOK
  <2> QED
    BY <1>3, <2>3, <2>4, <2>5 DEF Finalize, IInv, TypeOK, Alone
<1> QED
  BY <1>1, <1>2, <1>3

\* The coordinator's timer fires at any stage and leaves the stage alone.
LEMMA FlushStep ==
  ASSUME IInv, NEW w \in Workers, Flush(w)
  PROVE  IInv'
<1> USE DEF store, caches
<1>t. TypeOK
  BY DEF IInv
<1>1. job[w].vector \in [Files -> Cached \cup {Nothing}] /\ job[w].at \in Stages
  BY <1>t DEF TypeOK, Job
<1>2. WriteVector(w, job[w].vector, job[w].at)
  BY DEF Flush
<1>3. UNCHANGED <<tree, store, structural, journal, resetting, holder, spent>>
  BY DEF Flush
<1>4. /\ Alone(w) /\ job'[w].at = job[w].at
      /\ job'[w].batch = job[w].batch /\ job'[w].done = job[w].done
      /\ job'[w].one = job[w].one /\ job'[w].gone = job[w].gone
  BY <1>t, <1>1, <1>2, VectorStep
<1>5. vector' \in [Files -> Cached \cup {Nothing}]
  BY <1>1, <1>2 DEF WriteVector
<1>6. Shape(job'[w])
  BY <1>4 DEF IInv, Soundness, Shape
<1>7. Holds(w) => Claims(job[w])'
  <2> SUFFICES ASSUME Holds(w) PROVE Claims(job[w])'
    OBVIOUS
  <2>1. Claims(job[w])
    BY DEF IInv, Soundness
  <2> QED
    BY <1>3, <1>4, <2>1 DEF Claims, Fresh, Visible
<1>8. VisibleIsWhole'
  BY <1>3 DEF IInv, Soundness, VisibleIsWhole
<1>9. job'[w].at \in InSession => Holds(w)
  BY <1>4 DEF IInv, Soundness, SessionsHeld
<1>10. Soundness'
  BY <1>3, <1>4, <1>6, <1>7, <1>8, <1>9, OneActs
<1> QED
  BY <1>3, <1>4, <1>5, <1>10 DEF IInv, TypeOK, Alone

\* What does not touch the index.
LEMMA UnchangedSoundness ==
  ASSUME IInv, UNCHANGED <<source, rows, resetting, holder, job>>
  PROVE  Soundness'
  BY DEF IInv, Soundness, SessionsHeld, Holds, Shape, Claims, Fresh, Visible, VisibleIsWhole

LEMMA EditStep ==
  ASSUME IInv, NEW f \in Files, NEW content \in Contents \cup {Nothing}, Edit(f, content)
  PROVE  IInv'
<1> USE DEF Edit, store, caches
<1>1. Soundness'
  BY UnchangedSoundness
<1>2. spent' \in [Kinds -> Nat] /\ tree' \in [Files -> Contents \cup {Nothing}]
  BY SpendType DEF IInv, TypeOK, Kinds
<1> QED
  BY <1>1, <1>2 DEF IInv, TypeOK

-----------------------------------------------------------------------------
(* The invariant.                                                          *)

LEMMA InitInv == Init => IInv
<1> SUFFICES ASSUME Init PROVE IInv
  OBVIOUS
<1>1. \A w \in Workers : job[w].at = "idle" /\ job[w].batch = {}
  BY DEF Init, Idle
<1>2. SessionsHeld
  BY <1>1 DEF SessionsHeld, InSession
<1>3. \A w \in Workers : Shape(job[w]) /\ Claims(job[w])
  BY <1>1 DEF Shape, Claims, Recovering, Clearing, Copying, Activating
<1>4. VisibleIsWhole
  BY DEF Init, NoEntries, VisibleIsWhole
<1> QED
  BY <1>2, <1>3, <1>4, InitTyped DEF IInv, Soundness

LEMMA StepInv ==
  ASSUME IInv, NEW w \in Workers, Step(w)
  PROVE  IInv'
<1>1. CASE RecoverReplacement(w)
  <2>1. PICK op \in Replacements :
          \/ DropUnstaged(w, op) \/ RecoverStaged(w, op) \/ RecoverActivated(w, op)
          \/ Abort(w, op) \/ LeavePending(w, op)
    BY <1>1 DEF RecoverReplacement
  <2>2. At(w, "replacements") /\ Holds(w)
    BY <1>1 DEF RecoverReplacement
  <2>3. CASE RecoverStaged(w, op)
    <3>1. PublicationOf(op) \in Publication
      BY OperationType DEF IInv
    <3>2. BeginCopy(w, PublicationOf(op), FALSE)
      BY <2>3 DEF RecoverStaged
    <3> QED
      BY <2>2, <3>1, <3>2, BeginCopyStep
  <2> QED
    BY <2>1, <2>2, <2>3, RecoverySteps
<1>2. CASE Activate(w)
  <2>1. PICK p \in job[w].batch \ job[w].done : BeginCopy(w, p, TRUE)
    BY <1>2 DEF Activate
  <2>2. p \in Publication
    BY DEF IInv, TypeOK, Job
  <2>3. At(w, "activate") /\ Holds(w)
    BY <1>2 DEF Activate
  <2> QED
    BY <2>1, <2>2, <2>3, BeginCopyStep
<1>3. CASE Acquire(w) \/ Busy(w) \/ Drained(w) \/ Release(w) \/ Fenced(w) \/ Flush(w)
  BY <1>3, AcquireStep, EndSteps, ReleaseStep, FlushStep
<1>4. CASE \/ ClearVector(w) \/ ClearStructural(w) \/ ClearJournal(w)
           \/ ReplacementsDone(w)
  BY <1>4, ClearingSteps
<1>5. CASE \/ IntendRemoval(w) \/ DeleteSources(w) \/ DeleteRows(w)
           \/ ReleaseStructural(w) \/ ReleaseVector(w) \/ ReleaseJournal(w)
           \/ DeletionsDone(w) \/ Scan(w)
  BY <1>5, RemovalSteps, DeletionSteps
<1>6. CASE \/ BeginReset(w) \/ DeleteSomeTables(w) \/ DeleteRest(w) \/ ResetJournal(w)
           \/ ResetVector(w) \/ ResetStructural(w) \/ CompleteReset(w)
  BY <1>6, EmptyingSteps, ResetSteps
<1>7. CASE \/ Prepare(w) \/ Intend(w) \/ Stage(w) \/ Complete(w) \/ PendingVector(w)
           \/ PendingStructural(w)
  BY <1>7, PrepareStep, StagingSteps, PendingStructuralStep
<1>8. CASE \/ AppendRest(w) \/ Flip(w) \/ Receipt(w) \/ Cleanup(w)
           \/ Confirm(w) \/ Forget(w) \/ Finalize(w)
  BY <1>8, AppendRestStep, FlipStep, ReceiptStep, CleanupStep, ClosingSteps
<1> QED
  BY <1>1, <1>2, <1>3, <1>4, <1>5, <1>6, <1>7, <1>8 DEF Step

LEMMA NextInv == IInv /\ [Next]_vars => IInv'
<1> SUFFICES ASSUME IInv, [Next]_vars PROVE IInv'
  OBVIOUS
<1>1. CASE UNCHANGED vars
  <2>1. Soundness'
    BY <1>1, UnchangedSoundness DEF vars, store, caches
  <2> QED
    BY <1>1, <2>1 DEF vars, store, caches, IInv, TypeOK
<1>2. ASSUME NEW w \in Workers, Step(w) PROVE IInv'
  BY <1>2, StepInv
<1>3. ASSUME NEW w \in Workers, Cancel(w) \/ Crash(w) PROVE IInv'
  BY <1>3, EndSteps
<1>4. ASSUME NEW w \in Workers, NEW force \in BOOLEAN, StartFull(w, force) PROVE IInv'
  BY <1>4, StartFullStep
<1>5. ASSUME NEW w \in Workers, NEW f \in Files, StartUpdate(w, f) PROVE IInv'
  BY <1>5, StartUpdateStep
<1>6. ASSUME NEW f \in Files, NEW content \in Contents \cup {Nothing}, Edit(f, content)
      PROVE  IInv'
  BY <1>6, EditStep
<1> QED
  BY <1>1, <1>2, <1>3, <1>4, <1>5, <1>6 DEF Next

\* Every variable keeps its type: in particular a worker only activates what
\* is a publication, and no operation of the journal names a file or a
\* generation that does not exist.  (worker.ts, handleStart)
THEOREM TypeCorrect == Spec => []TypeOK
<1>1. IInv => TypeOK
  BY DEF IInv
<1> QED
  BY InitInv, NextInv, <1>1, PTL DEF Spec

\* Whatever a search finds of a file is all of it and there once, for any
\* number of workers whose leases lapse and whose processes die or are
\* cancelled anywhere: a copy that was interrupted starts over, a fresh one
\* starts from nothing, and only the holder of the lease touches the tables.
\* (copyTargetGeneration, requireCurrentLease)
THEOREM VisibleWhole == Spec => []VisibleIsWhole
<1>1. IInv => VisibleIsWhole
  BY DEF IInv, Soundness
<1> QED
  BY InitInv, NextInv, <1>1, PTL DEF Spec

-----------------------------------------------------------------------------
(* The vector cache of a worker that shares it with nobody.                *)

Single == \A v, w \in Workers : v = w

Journaled(p) == \E op \in Replacements : PublicationOf(op) = p
Owned(p) == GenOf(vector[p.file]) = p.gen /\ HashOf(vector[p.file]) = p.hash

\* The stages at which a batch is staged, and in which a job may be left with
\* publications it no longer answers for.
Staging == {"stage", "complete", "pendingStructural"}
Ending == {"forget", "finalize", "finish", "release"}

\* A reset, until the journal and the cache are empty.
Emptying == {"deletePrefix", "deleteRest", "resetJournal", "resetVector"}
Resetting == Emptying \cup {"beginReset"}
Emptied == {"resetStructural", "completeReset"}

\* The journal is of one kind and has a file once, and where the source shows
\* the generation of an operation it shows its content.
JournalSound ==
  /\ Replacements = {} \/ Removals = {}
  /\ \A o, p \in journal : o.file = p.file => o = p
  /\ \A op \in Replacements :
       GenOf(source[op.file]) = op.gen => HashOf(source[op.file]) = op.hash

\* A job's copy of the cache is the cache, unless it is about to be emptied.
Synced(j) ==
  /\ j.at \in {"idle", "loaded"} \cup Resetting => ~j.dirty
  /\ \/ j.at \in {"idle"} \cup Resetting
     \/ j.at = "loaded" /\ j.mode = "force"
     \/ j.vector = vector

\* What a job knows of the journal, the cache and the sources.
Knows(j) ==
  /\ j.at \notin Staging \cup Activating \cup Ending \cup {"confirm"} => j.done = {}
  /\ j.at \in Staging \cup Activating => j.done \subseteq j.batch
  /\ j.at = "intend" => \A p \in j.batch : ~Visible(p)
  /\ j.at \in Staging \cup Activating => \A p \in j.batch : Journaled(p)
  /\ j.at \in Copying => Journaled(j.one) /\ Owned(j.one)
  /\ j.at = "complete" => j.one \in j.batch
  /\ j.at = "pendingStructural" => \A p \in j.done : Owned(p)
  /\ j.at \in Activating => \A p \in j.batch : Owned(p)
  /\ j.at = "confirm" => \A p \in j.done : Journaled(p) /\ Visible(p)
  /\ j.at = "releaseJournal" => \A f \in j.gone : vector[f] = Nothing
  /\ j.at \in Emptying \cup Emptied => resetting
  /\ j.at \in Emptied => vector = NoEntries(Files)

Coherent ==
  /\ JournalSound /\ CurrentMeansShown
  /\ \A w \in Workers :
       /\ job[w].at \notin {"idle", "loaded"} => Holds(w)
       /\ Synced(job[w]) /\ Knows(job[w])

LEMMA Together ==
  ASSUME Single, NEW w \in Workers, JournalSound', CurrentMeansShown',
         job'[w].at \in {"idle", "loaded"} \/ holder' = w,
         Synced(job[w])', Knows(job[w])'
  PROVE  Coherent'
<1>1. ASSUME NEW v \in Workers
      PROVE  (/\ job[v].at \notin {"idle", "loaded"} => Holds(v)
              /\ Synced(job[v]) /\ Knows(job[v]))'
  <2>1. v = w
    BY DEF Single
  <2> QED
    BY <2>1 DEF Holds
<1> QED
  BY <1>1 DEF Coherent

\* What the state says of a worker that is under way.
LEMMA UnderWay ==
  ASSUME Coherent, NEW w \in Workers, job[w].at \notin {"idle", "loaded"}
  PROVE  /\ Holds(w) /\ Knows(job[w]) /\ JournalSound /\ CurrentMeansShown
         /\ job[w].at \notin Resetting => job[w].vector = vector
         /\ job[w].at \notin Staging \cup Activating \cup Ending \cup {"confirm"} =>
              job[w].done = {}
  BY DEF Coherent, Synced, Knows

\* The stages at which a job knows nothing but that it has done nothing.
Plain ==
  {"replacements", "clearVector", "clearStructural", "clearJournal", "deletions",
   "deleteRows", "releaseStructural", "releaseVector", "intendRemoval", "scan",
   "publish"} \cup Ending

LEMMA Plainly ==
  ASSUME Single, NEW w \in Workers, holder' = w, JournalSound', CurrentMeansShown',
         job'[w].vector = vector', job'[w].at \in Plain,
         job'[w].at \in Ending \/ job'[w].done = {}
  PROVE  Coherent'
<1>1. Synced(job[w])'
  BY DEF Synced, Plain, Ending, Resetting, Emptying
<1>2. Knows(job[w])'
  BY DEF Knows, Plain, Ending, Staging, Activating, Copying, Emptying, Emptied
<1> QED
  BY <1>1, <1>2, Together

\* Steps that leave the journal, the cache and the sources alone, or the first
\* two smaller.
LEMMA Kept ==
  ASSUME Coherent, UNCHANGED <<source, vector, journal, resetting>>
  PROVE  JournalSound' /\ CurrentMeansShown'
  BY DEF Coherent, JournalSound, CurrentMeansShown, Replacements, Removals

LEMMA LessJournal ==
  ASSUME JournalSound, journal' \subseteq journal, UNCHANGED source
  PROVE  JournalSound'
  BY DEF JournalSound, Replacements, Removals

LEMMA LessCache ==
  ASSUME TypeOK, CurrentMeansShown, UNCHANGED <<source, journal, resetting>>,
         NEW gone, vector' = Without(vector, gone)
  PROVE  CurrentMeansShown'
  BY DEF TypeOK, CurrentMeansShown, Without, Removals

LEMMA StartsCurrent ==
  ASSUME Single, IInv, Coherent, NEW w \in Workers,
         \/ \E force \in BOOLEAN : StartFull(w, force)
         \/ \E f \in Files : StartUpdate(w, f)
  PROVE  Coherent'
<1> USE DEF store, caches
<1>t. TypeOK
  BY DEF IInv
<1> DEFINE Started(j) == /\ j.at = "loaded" /\ j.done = {} /\ ~j.dirty
                         /\ j.mode = "force" \/ j.vector = vector
<1>1. Started(job'[w])
  <2>1. ASSUME NEW force \in BOOLEAN, StartFull(w, force)
        PROVE  Started(job'[w])
    <3> DEFINE intact == ~resetting /\ JournalFitsCache
               j == [Idle(Files) EXCEPT !.at = "loaded",
                       !.mode = IF force THEN "force" ELSE "full",
                       !.listed = Present,
                       !.vector = IF intact THEN vector ELSE NoEntries(Files),
                       !.structural = structural]
    <3>1. force \/ intact
      BY <2>1 DEF StartFull
    <3>2. job' = [job EXCEPT ![w] = j]
      BY <2>1 DEF StartFull, Become
    <3> HIDE DEF intact
    <3>3. Started(j)
      BY <3>1 DEF Idle
    <3> HIDE DEF j
    <3>4. job'[w] = j
      BY <1>t, <3>2 DEF TypeOK
    <3> QED
      BY <3>3, <3>4
  <2>2. ASSUME NEW f \in Files, StartUpdate(w, f)
        PROVE  Started(job'[w])
    <3> DEFINE j == [Idle(Files) EXCEPT !.at = "loaded", !.mode = "update",
                       !.listed = {f} \cap Present, !.removed = {f} \ Present,
                       !.vector = vector, !.structural = structural]
    <3>1. job' = [job EXCEPT ![w] = j]
      BY <2>2 DEF StartUpdate, Become
    <3>2. Started(j)
      BY DEF Idle
    <3> HIDE DEF j
    <3>3. job'[w] = j
      BY <1>t, <3>1 DEF TypeOK
    <3> QED
      BY <3>2, <3>3
  <2> QED
    BY <2>1, <2>2
<1>2. UNCHANGED <<source, vector, journal, resetting>>
  BY DEF StartFull, StartUpdate
<1>3. Synced(job[w])'
  BY <1>1, <1>2 DEF Synced, Resetting, Emptying
<1>4. Knows(job[w])'
  BY <1>1 DEF Knows, Staging, Activating, Copying, Ending, Emptying, Emptied
<1>5. JournalSound' /\ CurrentMeansShown'
  BY <1>2, Kept
<1> QED
  BY <1>1, <1>3, <1>4, <1>5, Together

LEMMA IdleCurrent ==
  ASSUME Single, IInv, Coherent, NEW w \in Workers, Busy(w) \/ Release(w) \/ Crash(w)
  PROVE  Coherent'
<1> USE DEF store, caches
<1>1. job'[w].at = "idle" /\ job'[w].done = {} /\ ~job'[w].dirty
  BY IdleStep DEF IInv, Busy, Release, Crash
<1>2. UNCHANGED <<source, vector, journal, resetting>>
  BY DEF Busy, Release, Crash
<1>3. Synced(job[w])' /\ Knows(job[w])'
  BY <1>1 DEF Synced, Knows, Staging, Activating, Copying, Ending, Emptying, Emptied
<1>4. JournalSound' /\ CurrentMeansShown'
  BY <1>2, Kept
<1> QED
  BY <1>1, <1>3, <1>4, Together

LEMMA AcquireCurrent ==
  ASSUME Single, IInv, Coherent, NEW w \in Workers, Acquire(w)
  PROVE  Coherent'
<1> USE DEF store, caches
<1> DEFINE next == IF job[w].mode = "force" THEN "beginReset" ELSE "replacements"
<1>1. /\ job[w].at = "loaded" /\ holder' = w
      /\ UNCHANGED <<source, vector, journal, resetting>>
  BY DEF Acquire, At
<1>2. /\ ~job[w].dirty /\ job[w].done = {}
      /\ job[w].mode = "force" \/ job[w].vector = vector
  BY <1>1 DEF Coherent, Synced, Knows, Staging, Activating, Copying, Ending, Resetting, Emptying
<1>3. Goto(w, next) /\ next \in Stages
  BY DEF Acquire, Stages
<1>4. /\ next \in {"beginReset", "replacements"}
      /\ next = "replacements" => job[w].mode # "force"
  OBVIOUS
<1> HIDE DEF next
<1>5. /\ job'[w].at = next /\ job'[w].done = {} /\ ~job'[w].dirty
      /\ job'[w].vector = job[w].vector
  BY <1>2, <1>3, GotoStep DEF IInv
<1>6. JournalSound' /\ CurrentMeansShown'
  BY <1>1, Kept
<1>7. CASE next = "replacements"
  BY <1>1, <1>2, <1>4, <1>5, <1>6, <1>7, Plainly DEF Plain
<1>8. CASE next = "beginReset"
  <2>1. Synced(job[w])' /\ Knows(job[w])'
    BY <1>5, <1>8 DEF Synced, Knows, Staging, Activating, Copying, Ending, Resetting, Emptying, Emptied
  <2> QED
    BY <1>1, <1>6, <2>1, Together
<1> QED
  BY <1>4, <1>7, <1>8

\* Moves between plain stages.
LEMMA MovesCurrent ==
  ASSUME Single, IInv, Coherent, NEW w \in Workers, NEW s \in Plain, Goto(w, s),
         job[w].at \notin {"idle", "loaded"} \cup Resetting,
         s \in Ending \/ job[w].done = {},
         UNCHANGED <<source, vector, journal, resetting, holder>>
  PROVE  Coherent'
<1>1. s \in Stages
  BY DEF Plain, Ending, Stages, InSession
<1>2. /\ job'[w].at = s /\ job'[w].done = job[w].done
      /\ job'[w].vector = job[w].vector
  BY <1>1, GotoStep DEF IInv
<1>3. Holds(w) /\ job[w].vector = vector
  BY UnderWay
<1>4. JournalSound' /\ CurrentMeansShown'
  BY Kept
<1> QED
  BY <1>2, <1>3, <1>4, Plainly DEF Holds

LEMMA PlainMovesCurrent ==
  ASSUME Single, IInv, Coherent, NEW w \in Workers,
         \/ ReplacementsDone(w) \/ DeletionsDone(w) \/ Drained(w) \/ Fenced(w) \/ Cancel(w)
  PROVE  Coherent'
<1> USE DEF store, caches
<1>1. CASE ReplacementsDone(w) \/ DeletionsDone(w)
  <2>1. job[w].at \in {"replacements", "deletions"}
    BY <1>1 DEF ReplacementsDone, DeletionsDone, At
  <2>2. job[w].done = {}
    BY <2>1, UnderWay DEF Staging, Activating, Copying, Ending
  <2>3. \E s \in {"deletions", "intendRemoval", "publish", "scan"} : Goto(w, s)
    BY <1>1 DEF ReplacementsDone, DeletionsDone
  <2> QED
    BY <1>1, <2>1, <2>2, <2>3, MovesCurrent
       DEF Plain, ReplacementsDone, DeletionsDone, Resetting, Emptying
<1>2. CASE Drained(w)
  BY <1>2, MovesCurrent DEF Drained, At, Plain, Ending, Resetting, Emptying
<1>3. CASE Fenced(w)
  BY <1>3, UnderWay DEF Fenced
<1>4. CASE Cancel(w)
  <2>1. \E s \in {"release", "finish"} : Goto(w, s)
    BY <1>4 DEF Cancel
  <2> QED
    BY <1>4, <2>1, MovesCurrent DEF Cancel, Plain, Ending, Resetting, Emptying
<1> QED
  BY <1>1, <1>2, <1>3, <1>4

LEMMA FlushCurrent ==
  ASSUME Single, IInv, Coherent, NEW w \in Workers, Flush(w)
  PROVE  Coherent'
<1> USE DEF store, caches
<1>t. TypeOK
  BY DEF IInv
<1>1. job[w].vector \in [Files -> Cached \cup {Nothing}] /\ job[w].at \in Stages
  BY <1>t DEF TypeOK, Job
<1>2. /\ job[w].dirty /\ WriteVector(w, job[w].vector, job[w].at)
      /\ UNCHANGED <<source, journal, resetting, holder>>
  BY DEF Flush
<1>3. /\ job[w].at \notin {"idle", "loaded"} \cup Resetting
      /\ job[w].vector = vector /\ Knows(job[w]) /\ Holds(w)
  BY <1>2 DEF Coherent, Synced
<1>4. /\ job'[w].at = job[w].at /\ vector' = vector /\ job'[w].vector = vector
      /\ job'[w].batch = job[w].batch /\ job'[w].done = job[w].done
      /\ job'[w].one = job[w].one /\ job'[w].gone = job[w].gone
  BY <1>t, <1>1, <1>2, <1>3, VectorStep
<1>5. Synced(job[w])'
  BY <1>3, <1>4 DEF Synced
<1>6. Knows(job[w])'
  BY <1>2, <1>3, <1>4 DEF Knows, Visible, Journaled, Owned, Replacements
<1>7. JournalSound' /\ CurrentMeansShown'
  BY <1>2, <1>4, Kept
<1> QED
  BY <1>2, <1>3, <1>5, <1>6, <1>7, Together DEF Holds

\* Recovery of one operation of the journal.
LEMMA RecoveryCurrent ==
  ASSUME Single, IInv, Coherent, NEW w \in Workers, RecoverReplacement(w)
  PROVE  Coherent'
<1> USE DEF store, caches
<1>t. TypeOK /\ Shape(job[w])
  BY DEF IInv, Soundness
<1>1. At(w, "replacements") /\ Holds(w)
  BY DEF RecoverReplacement
<1>2. PICK op \in Replacements :
        \/ DropUnstaged(w, op) \/ RecoverStaged(w, op) \/ RecoverActivated(w, op)
        \/ Abort(w, op) \/ LeavePending(w, op)
  BY DEF RecoverReplacement
<1>3. /\ job[w].batch = {} /\ job[w].done = {} /\ job[w].vector = vector
      /\ JournalSound /\ CurrentMeansShown
  BY <1>t, <1>1, UnderWay
     DEF At, Shape, Recovering, Resetting, Emptying, Staging, Activating, Copying, Ending
<1> DEFINE p == PublicationOf(op)
<1>4. p \in Publication /\ p.file = op.file /\ p.gen = op.gen /\ p.hash = op.hash /\ Journaled(p)
  BY <1>t, OperationType DEF Journaled, PublicationOf
<1>5. CASE DropUnstaged(w, op)
  <2>1. journal' \subseteq journal /\ Removals' = Removals
    BY <1>5 DEF DropUnstaged, Removals, Replacements
  <2>2. JournalSound'
    BY <1>3, <1>5, <2>1, LessJournal DEF DropUnstaged
  <2>3. CurrentMeansShown'
    BY <1>3, <1>5, <2>1 DEF DropUnstaged, CurrentMeansShown
  <2> QED
    BY <1>1, <1>3, <1>5, <2>2, <2>3, Plainly DEF DropUnstaged, At, Holds, Plain
<1> HIDE DEF p
<1>6. CASE RecoverStaged(w, op)
  <2> DEFINE next == IF GenOf(source[p.file]) = p.gen THEN "receipt" ELSE "append"
  <2>1. CacheMatches(w, op) /\ BeginCopy(w, p, FALSE)
    BY <1>6 DEF RecoverStaged, p
  <2>2. Become(w, [job[w] EXCEPT !.one = p, !.at = next])
    BY <2>1 DEF BeginCopy
  <2>3. next \in {"receipt", "append"} /\ next \in Stages
    BY DEF Stages, InSession
  <2>4. UNCHANGED <<source, vector, journal, resetting, holder>>
    BY <2>1 DEF BeginCopy
  <2>5. Owned(p)
    BY <1>3, <1>4, <2>1 DEF CacheMatches, Owned
  <2> HIDE DEF next
  <2>6. /\ job'[w].at = next /\ job'[w].one = p /\ job'[w].batch = {}
        /\ job'[w].done = {} /\ job'[w].vector = vector
    <3>1. p \in Publication \cup {Nothing} /\ next \in Stages
      BY <1>4, <2>3
    <3> QED
      BY <1>t, <1>3, <2>2, <3>1, OneStep DEF Become
  <2>7. Synced(job[w])'
    BY <2>3, <2>4, <2>6 DEF Synced, Resetting, Emptying
  <2>8. Knows(job[w])'
    BY <1>4, <2>3, <2>4, <2>5, <2>6
       DEF Knows, Journaled, Owned, Replacements, Staging, Activating, Copying, Ending,
           Emptying, Emptied
  <2> QED
    BY <1>1, <2>4, <2>7, <2>8, Kept, Together DEF Holds
<1>7. CASE RecoverActivated(w, op)
  <2>1. /\ Become(w, [job[w] EXCEPT !.done = {p}, !.at = "confirm"])
        /\ Visible(p) /\ UNCHANGED <<source, vector, journal, resetting, holder>>
    BY <1>4, <1>7 DEF RecoverActivated, p, Visible
  <2>2. {p} \in SUBSET Publication /\ "confirm" \in Stages
    BY <1>4 DEF Stages
  <2>3. /\ job'[w].at = "confirm" /\ job'[w].done = {p} /\ job'[w].vector = vector
    <3>1. PICK ps \in SUBSET Publication : ps = {p}
      BY <2>2
    <3>2. Become(w, [job[w] EXCEPT !.done = ps, !.at = "confirm"])
      BY <2>1, <3>1
    <3>3. job'[w].at = "confirm" /\ job'[w].done = ps /\ job'[w].vector = job[w].vector
      BY <1>t, <2>2, <3>2, DoneStep DEF Become
    <3> QED
      BY <1>3, <3>1, <3>3
  <2>4. Synced(job[w])'
    BY <2>1, <2>3 DEF Synced, Resetting, Emptying
  <2>5. Knows(job[w])'
    BY <1>4, <2>1, <2>3
       DEF Knows, Journaled, Visible, Replacements, Staging, Activating, Copying, Ending,
           Emptying, Emptied
  <2> QED
    BY <1>1, <2>1, <2>4, <2>5, Kept, Together DEF Holds
<1>8. CASE Abort(w, op)
  <2>1. /\ Become(w, [job[w] EXCEPT !.one = p, !.at = "clearVector"])
        /\ UNCHANGED <<source, vector, journal, resetting, holder>>
    BY <1>8 DEF Abort, p
  <2>2. /\ job'[w].at = "clearVector" /\ job'[w].done = {} /\ job'[w].vector = vector
    BY <1>t, <1>3, <1>4, <2>1, OneStep DEF Stages
  <2> QED
    BY <1>1, <2>1, <2>2, Kept, Plainly DEF Holds, Plain
<1>9. CASE LeavePending(w, op)
  BY <1>1, <1>9, MovesCurrent DEF LeavePending, At, Plain, Ending, Resetting, Emptying
<1> QED
  BY <1>2, <1>5, <1>6, <1>7, <1>8, <1>9

\* An entry that is cleared was pending, or is none anyway.
LEMMA ClearingCurrent ==
  ASSUME Single, IInv, Coherent, NEW w \in Workers,
         ClearVector(w) \/ ClearStructural(w) \/ ClearJournal(w)
  PROVE  Coherent'
<1> USE DEF store, caches
<1>t. TypeOK
  BY DEF IInv
<1>1. job[w].at \in Clearing
  BY DEF ClearVector, ClearStructural, ClearJournal, At, Clearing
<1>2. /\ Holds(w) /\ job[w].done = {} /\ job[w].vector = vector
      /\ JournalSound /\ CurrentMeansShown
  BY <1>1, UnderWay
     DEF Clearing, Resetting, Emptying, Staging, Activating, Copying, Ending
<1>3. /\ job[w].vector \in [Files -> Cached \cup {Nothing}]
      /\ job[w].structural \in [Files -> Shown \cup {Nothing}]
  BY <1>t DEF TypeOK, Job
<1>4. CASE ClearVector(w)
  <2> DEFINE mine == Without(job[w].vector, {job[w].one.file})
  <2>1. UNCHANGED <<source, journal, resetting, holder>>
    BY <1>4 DEF ClearVector
  <2>2. CASE WriteVector(w, mine, "clearStructural")
    <3>1. mine \in [Files -> Cached \cup {Nothing}]
      BY <1>3, WithoutType
    <3>2. CurrentMeansShown'
      BY <1>t, <1>2, <2>1, <2>2, LessCache DEF WriteVector
    <3> HIDE DEF mine
    <3>3. /\ job'[w].at = "clearStructural" /\ job'[w].done = {}
          /\ job'[w].vector = vector'
      <4>1. "clearStructural" \in Stages
        BY DEF Stages, InSession
      <4> QED
        BY <1>t, <1>2, <2>2, <3>1, <4>1, VectorStep
    <3>4. JournalSound'
      BY <1>2, <2>1, LessJournal
    <3> QED
      BY <1>2, <2>1, <3>2, <3>3, <3>4, Plainly DEF Holds, Plain
  <2>3. CASE UNCHANGED vector /\ Goto(w, "clearStructural")
    BY <1>1, <1>2, <2>1, <2>3, MovesCurrent DEF Plain, Clearing, Resetting, Emptying
  <2> QED
    BY <1>4, <2>2, <2>3 DEF ClearVector
<1>5. CASE ClearStructural(w)
  <2> DEFINE mine == Without(job[w].structural, {job[w].one.file})
  <2>1. UNCHANGED <<source, vector, journal, resetting, holder>>
    BY <1>5 DEF ClearStructural
  <2>2. CASE WriteStructural(w, mine, "clearJournal")
    <3>1. mine \in [Files -> Shown \cup {Nothing}]
      BY <1>3, WithoutType
    <3> HIDE DEF mine
    <3>2. /\ job'[w].at = "clearJournal" /\ job'[w].done = {}
          /\ job'[w].vector = vector
      BY <1>t, <1>2, <2>2, <3>1, StructuralStep DEF Stages, InSession
    <3> QED
      BY <1>2, <2>1, <3>2, Kept, Plainly DEF Holds, Plain
  <2>3. CASE Goto(w, "clearJournal")
    BY <1>1, <1>2, <2>1, <2>3, MovesCurrent DEF Plain, Clearing, Resetting, Emptying
  <2> QED
    BY <1>5, <2>2, <2>3 DEF ClearStructural
<1>6. CASE ClearJournal(w)
  <2>1. /\ UNCHANGED <<source, vector, resetting, holder>>
        /\ journal' \subseteq journal /\ Removals' = Removals
        /\ Become(w, [job[w] EXCEPT !.one = Nothing, !.at = "replacements"])
    BY <1>6 DEF ClearJournal, Removals
  <2>2. /\ job'[w].at = "replacements" /\ job'[w].done = {} /\ job'[w].vector = vector
    BY <1>t, <1>2, <2>1, OneStep DEF Stages
  <2>3. JournalSound' /\ CurrentMeansShown'
    BY <1>2, <2>1, LessJournal DEF CurrentMeansShown
  <2> QED
    BY <1>2, <2>1, <2>2, <2>3, Plainly DEF Holds, Plain
<1> QED
  BY <1>4, <1>5, <1>6

\* While a removal of a file is intended, its entry may be stale; it goes
\* before the intention does.
LEMMA RemovalsCurrent ==
  ASSUME Single, IInv, Coherent, NEW w \in Workers,
         IntendRemoval(w) \/ DeleteSources(w) \/ DeleteRows(w)
  PROVE  Coherent'
<1> USE DEF store, caches
<1>t. TypeOK
  BY DEF IInv
<1>1. job[w].at \in {"intendRemoval", "deletions", "deleteRows"}
  BY DEF IntendRemoval, DeleteSources, DeleteRows, At
<1>2. /\ Holds(w) /\ job[w].done = {} /\ job[w].vector = vector
      /\ JournalSound /\ CurrentMeansShown
  BY <1>1, UnderWay DEF Resetting, Emptying, Staging, Activating, Copying, Ending
<1>3. CASE IntendRemoval(w)
  <2>1. /\ journal = {} /\ Replacements' = {} /\ Removals' = journal'
        /\ \A o, p \in journal' : o.file = p.file => o = p
        /\ UNCHANGED <<source, vector, resetting, holder>>
    BY <1>3 DEF IntendRemoval, Replacements, Removals
  <2>2. JournalSound'
    BY <2>1 DEF JournalSound
  <2>3. CurrentMeansShown'
    BY <1>2, <2>1 DEF CurrentMeansShown, Removals
  <2>4. /\ job'[w].at = "deletions" /\ job'[w].done = {} /\ job'[w].vector = vector
    <3>1. {} \in SUBSET Files /\ "deletions" \in Stages
      BY DEF Stages
    <3>2. Become(w, [job[w] EXCEPT !.removed = {}, !.at = "deletions"])
      BY <1>3 DEF IntendRemoval
    <3>3. /\ job'[w].at = "deletions" /\ job'[w].done = job[w].done
          /\ job'[w].vector = job[w].vector
      BY <1>t, <3>1, <3>2, RemovedStep DEF Become
    <3> QED
      BY <1>2, <3>3
  <2> QED
    BY <1>2, <2>1, <2>2, <2>3, <2>4, Plainly DEF Holds, Plain
<1>4. CASE DeleteSources(w)
  <2>1. {op.file : op \in {r \in Removals : source[r.file] # Nothing /\ ~Stale(w, r.file)}}
          \in SUBSET Files
    BY <1>t DEF TypeOK, Removals, Removal, Replacement
  <2>2. PICK deletable \in SUBSET Files :
          /\ source' = Without(source, deletable)
          /\ Become(w, [job[w] EXCEPT !.gone = deletable, !.at = "deleteRows"])
          /\ \A f \in deletable : \E op \in Removals : op.file = f
    BY <1>4, <2>1 DEF DeleteSources
  <2>3. /\ Removals # {} /\ UNCHANGED <<vector, journal, resetting, holder>>
        /\ Removals' = Removals
    BY <1>4 DEF DeleteSources, Removals
  <2>4. Replacements' = {}
    BY <1>2, <2>3 DEF JournalSound, Replacements
  <2>5. JournalSound'
    BY <1>2, <2>3, <2>4 DEF JournalSound
  <2>6. \A f \in Files \ deletable : source'[f] = source[f]
    BY <2>2 DEF Without
  <2>7. CurrentMeansShown'
    <3>1. DOMAIN vector = Files
      BY <1>t DEF TypeOK
    <3> QED
      BY <1>2, <2>2, <2>3, <2>6, <3>1 DEF CurrentMeansShown
  <2>8. job'[w].at = "deleteRows" /\ job'[w].done = {} /\ job'[w].vector = vector
    <3>1. "deleteRows" \in Stages
      BY DEF Stages, InSession
    <3>2. Become(w, [job[w] EXCEPT !.gone = deletable, !.at = "deleteRows"])
      BY <2>2
    <3>3. /\ job'[w].at = "deleteRows" /\ job'[w].done = job[w].done
          /\ job'[w].vector = job[w].vector
      BY <1>t, <3>1, <3>2, GoneStep DEF Become
    <3> QED
      BY <1>2, <3>3
  <2> QED
    BY <1>2, <2>3, <2>5, <2>7, <2>8, Plainly DEF Holds, Plain
<1>5. CASE DeleteRows(w)
  <2>a. {op.file : op \in {r \in Removals : source[r.file] = Nothing}} \subseteq Files
    BY <1>t DEF TypeOK, Removals, Removal, Replacement
  <2>1. PICK completed \in SUBSET Files :
          Become(w, [job[w] EXCEPT !.gone = completed,
            !.at = IF completed = {} THEN "release" ELSE "releaseStructural"])
    BY <1>5, <2>a DEF DeleteRows
  <2> DEFINE next == IF completed = {} THEN "release" ELSE "releaseStructural"
  <2>2. next \in {"release", "releaseStructural"} /\ next \in Stages
    BY DEF Stages
  <2>3. Become(w, [job[w] EXCEPT !.gone = completed, !.at = next])
    BY <2>1
  <2> HIDE DEF next
  <2>4. /\ job'[w].at = next /\ job'[w].done = job[w].done
        /\ job'[w].vector = job[w].vector
    BY <1>t, <2>2, <2>3, GoneStep DEF Become
  <2>5. UNCHANGED <<source, vector, journal, resetting, holder>>
    BY <1>5 DEF DeleteRows
  <2> QED
    BY <1>2, <2>2, <2>4, <2>5, Kept, Plainly DEF Holds, Plain, Ending
<1> QED
  BY <1>3, <1>4, <1>5

LEMMA ReleasesCurrent ==
  ASSUME Single, IInv, Coherent, NEW w \in Workers,
         ReleaseStructural(w) \/ ReleaseVector(w) \/ ReleaseJournal(w)
  PROVE  Coherent'
<1> USE DEF store, caches
<1>t. TypeOK
  BY DEF IInv
<1>1. job[w].at \in {"releaseStructural", "releaseVector", "releaseJournal"}
  BY DEF ReleaseStructural, ReleaseVector, ReleaseJournal, At
<1>2. /\ Holds(w) /\ job[w].done = {} /\ job[w].vector = vector
      /\ JournalSound /\ CurrentMeansShown
  BY <1>1, UnderWay DEF Resetting, Emptying, Staging, Activating, Copying, Ending
<1>3. /\ job[w].vector \in [Files -> Cached \cup {Nothing}]
      /\ job[w].structural \in [Files -> Shown \cup {Nothing}]
      /\ job[w].gone \subseteq Files
  BY <1>t DEF TypeOK, Job
<1>4. CASE ReleaseStructural(w)
  <2> DEFINE mine == Without(job[w].structural, job[w].gone)
  <2>1. mine \in [Files -> Shown \cup {Nothing}] /\ "releaseVector" \in Stages
    BY <1>3, WithoutType DEF Stages, InSession
  <2>2. /\ WriteStructural(w, mine, "releaseVector")
        /\ UNCHANGED <<source, vector, journal, resetting, holder>>
    BY <1>4 DEF ReleaseStructural
  <2> HIDE DEF mine
  <2>3. /\ job'[w].at = "releaseVector" /\ job'[w].done = job[w].done
        /\ job'[w].vector = job[w].vector
    BY <1>t, <2>1, <2>2, StructuralStep
  <2> QED
    BY <1>2, <2>2, <2>3, Kept, Plainly DEF Holds, Plain
<1>5. CASE ReleaseVector(w)
  <2> DEFINE mine == Without(job[w].vector, job[w].gone)
  <2>1. mine \in [Files -> Cached \cup {Nothing}] /\ "releaseJournal" \in Stages
    BY <1>3, WithoutType DEF Stages, InSession
  <2>2. /\ WriteVector(w, mine, "releaseJournal")
        /\ UNCHANGED <<source, journal, resetting, holder>>
    BY <1>5 DEF ReleaseVector
  <2>3. \A f \in job[w].gone : mine[f] = Nothing
    BY <1>3 DEF Without
  <2>4. CurrentMeansShown'
    BY <1>t, <1>2, <2>2, LessCache DEF WriteVector
  <2> HIDE DEF mine
  <2>5. /\ job'[w].at = "releaseJournal" /\ vector' = mine
        /\ job'[w].done = job[w].done /\ job'[w].gone = job[w].gone
        /\ job'[w].vector = mine
    BY <1>t, <2>1, <2>2, VectorStep
  <2>6. JournalSound'
    BY <1>2, <2>2, LessJournal
  <2>7. Synced(job[w])'
    BY <2>5 DEF Synced, Resetting, Emptying
  <2>8. Knows(job[w])'
    BY <1>2, <2>3, <2>5
       DEF Knows, Staging, Activating, Copying, Ending, Emptying, Emptied
  <2> QED
    BY <1>2, <2>2, <2>4, <2>6, <2>7, <2>8, Together DEF Holds
<1>6. CASE ReleaseJournal(w)
  <2> DEFINE next == IF journal' = {} THEN "deletions" ELSE "release"
  <2>1. next \in {"deletions", "release"} /\ next \in Stages /\ {} \in SUBSET Files
    BY DEF Stages
  <2>2. Become(w, [job[w] EXCEPT !.gone = {}, !.at = next])
    BY <1>6 DEF ReleaseJournal
  <2>3. /\ journal' = {op \in journal : op.file \notin job[w].gone}
        /\ UNCHANGED <<source, vector, resetting, holder>>
    BY <1>6 DEF ReleaseJournal
  <2> HIDE DEF next
  <2>4. \A f \in job[w].gone : vector[f] = Nothing
    BY <1>6, UnderWay DEF Knows, ReleaseJournal, At
  <2>5. CurrentMeansShown'
    BY <1>2, <2>3, <2>4 DEF CurrentMeansShown, Removals
  <2>6. JournalSound'
    BY <1>2, <2>3, LessJournal
  <2>7. /\ job'[w].at = next /\ job'[w].done = job[w].done
        /\ job'[w].vector = job[w].vector
    BY <1>t, <2>1, <2>2, GoneStep DEF Become
  <2> QED
    BY <1>2, <2>1, <2>3, <2>5, <2>6, <2>7, Plainly DEF Holds, Plain, Ending
<1> QED
  BY <1>4, <1>5, <1>6

\* While the index is emptied nothing is promised, and afterwards the cache
\* has no entry.
LEMMA EmptyingCurrent ==
  ASSUME Single, IInv, Coherent, NEW w \in Workers,
         BeginReset(w) \/ DeleteSomeTables(w) \/ DeleteRest(w) \/ ResetJournal(w)
  PROVE  Coherent'
<1> USE DEF store, caches
<1>t. TypeOK
  BY DEF IInv
<1>1. /\ job[w].at \in {"beginReset", "deletePrefix", "deleteRest", "resetJournal"}
      /\ UNCHANGED <<vector, holder>>
  BY DEF BeginReset, DeleteSomeTables, DeleteRest, ResetJournal, At
<1>2. /\ Holds(w) /\ job[w].done = {} /\ JournalSound /\ ~job[w].dirty
      /\ job[w].at # "beginReset" => resetting
  BY <1>1
     DEF Coherent, Synced, Knows, Resetting, Emptying, Staging, Activating, Copying, Ending
<1>3. resetting'
  BY <1>1, <1>2 DEF BeginReset, DeleteSomeTables, DeleteRest, ResetJournal, At
<1>4. CurrentMeansShown'
  BY <1>3 DEF CurrentMeansShown
<1>5. PICK s \in {"deletePrefix", "deleteRest", "resetJournal", "resetVector"} : Goto(w, s)
  BY DEF BeginReset, DeleteSomeTables, DeleteRest, ResetJournal
<1>6. s \in Stages /\ s \in Emptying
  BY DEF Stages, InSession, Emptying
<1>7. job'[w].at = s /\ job'[w].done = {} /\ ~job'[w].dirty
  BY <1>t, <1>2, <1>5, <1>6, GotoStep
<1>8. JournalSound'
  <2>1. CASE UNCHANGED source /\ journal' \subseteq journal
    BY <1>2, <2>1, LessJournal
  <2>2. CASE source' = NoEntries(Files) /\ UNCHANGED journal
    <3>1. \A op \in Replacements : GenOf(source'[op.file]) # op.gen
      BY <1>t, <2>2, OperationType, IndexAssumption DEF NoEntries, GenOf
    <3>2. Replacements' = Replacements /\ Removals' = Removals
      BY <2>2 DEF Replacements, Removals
    <3> QED
      BY <1>2, <2>2, <3>1, <3>2 DEF JournalSound
  <2> QED
    BY <2>1, <2>2 DEF BeginReset, DeleteSomeTables, DeleteRest, ResetJournal
<1>9. Synced(job[w])'
  BY <1>6, <1>7 DEF Synced, Resetting
<1>10. Knows(job[w])'
  BY <1>3, <1>6, <1>7
     DEF Knows, Staging, Activating, Copying, Ending, Emptying, Emptied
<1> QED
  BY <1>1, <1>2, <1>4, <1>8, <1>9, <1>10, Together DEF Holds

LEMMA EmptiedCurrent ==
  ASSUME Single, IInv, Coherent, NEW w \in Workers,
         ResetVector(w) \/ ResetStructural(w) \/ CompleteReset(w)
  PROVE  Coherent'
<1> USE DEF store, caches
<1>t. TypeOK
  BY DEF IInv
<1>1. /\ job[w].at \in {"resetVector", "resetStructural", "completeReset"}
      /\ UNCHANGED <<source, journal, holder>>
  BY DEF ResetVector, ResetStructural, CompleteReset, At
<1>2. /\ Holds(w) /\ job[w].done = {} /\ JournalSound /\ resetting
      /\ job[w].at # "resetVector" => vector = NoEntries(Files) /\ job[w].vector = vector
  BY <1>1
     DEF Coherent, Synced, Knows, Resetting, Emptying, Emptied, Staging, Activating,
         Copying, Ending
<1>3. JournalSound'
  BY <1>1, <1>2, LessJournal
<1>4. CASE ResetVector(w) \/ ResetStructural(w)
  <2>1. PICK s \in Emptied :
          /\ job'[w].at = s /\ job'[w].done = {}
          /\ vector' = NoEntries(Files) /\ job'[w].vector = vector'
    <3>1. CASE ResetVector(w)
      <4>1. /\ WriteVector(w, NoEntries(Files), "resetStructural")
            /\ "resetStructural" \in Stages
            /\ NoEntries(Files) \in [Files -> Cached \cup {Nothing}]
        BY <3>1 DEF ResetVector, Stages, InSession, NoEntries
      <4>2. /\ job'[w].at = "resetStructural" /\ job'[w].done = job[w].done
            /\ vector' = NoEntries(Files) /\ job'[w].vector = NoEntries(Files)
        BY <1>t, <4>1, VectorStep
      <4> QED
        BY <1>2, <4>2 DEF Emptied
    <3>2. CASE ResetStructural(w)
      <4>1. /\ WriteStructural(w, NoEntries(Files), "completeReset")
            /\ "completeReset" \in Stages /\ UNCHANGED vector
            /\ NoEntries(Files) \in [Files -> Shown \cup {Nothing}]
        BY <3>2 DEF ResetStructural, Stages, InSession, NoEntries
      <4>2. /\ job'[w].at = "completeReset" /\ job'[w].done = job[w].done
            /\ job'[w].vector = job[w].vector
        BY <1>t, <4>1, StructuralStep
      <4> QED
        BY <1>2, <3>2, <4>1, <4>2 DEF Emptied, ResetStructural, At
    <3> QED
      BY <1>4, <3>1, <3>2
  <2>2. resetting'
    BY <1>2, <1>4 DEF ResetVector, ResetStructural
  <2>3. CurrentMeansShown'
    BY <2>2 DEF CurrentMeansShown
  <2>4. Synced(job[w])'
    BY <2>1 DEF Synced, Resetting, Emptying, Emptied
  <2>5. Knows(job[w])'
    BY <2>1, <2>2
       DEF Knows, Staging, Activating, Copying, Ending, Emptying, Emptied
  <2> QED
    BY <1>1, <1>2, <1>3, <2>3, <2>4, <2>5, Together DEF Holds
<1>5. CASE CompleteReset(w)
  <2>1. "scan" \in Stages /\ Goto(w, "scan") /\ UNCHANGED vector
    BY <1>5 DEF CompleteReset, Stages
  <2>2. /\ job'[w].at = "scan" /\ job'[w].done = {} /\ job'[w].vector = vector
        /\ vector = NoEntries(Files)
    BY <1>t, <1>2, <1>5, <2>1, GotoStep DEF CompleteReset, At
  <2>3. CurrentMeansShown'
    BY <2>1, <2>2 DEF CurrentMeansShown, NoEntries
  <2> QED
    BY <1>1, <1>2, <1>3, <2>1, <2>2, <2>3, Plainly DEF Holds, Plain
<1> QED
  BY <1>4, <1>5

\* What a job finds leaves the caches as they are.
LEMMA ScanCurrent ==
  ASSUME Single, IInv, Coherent, NEW w \in Workers, Scan(w)
  PROVE  Coherent'
<1> USE DEF store, caches
<1>t. TypeOK
  BY DEF IInv
<1>1. /\ job[w].at = "scan" /\ UNCHANGED <<source, vector, journal, resetting, holder>>
  BY DEF Scan, At
<1>2. Holds(w) /\ job[w].done = {} /\ job[w].vector = vector
  BY <1>1, UnderWay DEF Resetting, Emptying, Staging, Activating, Copying, Ending
<1>3. PICK removed \in SUBSET Files, toIndex \in SUBSET Files, touched \in BOOLEAN,
           s \in {"publish", "intendRemoval"} :
        Become(w, [job[w] EXCEPT !.removed = removed, !.scanned = TRUE,
               !.toIndex = toIndex, !.dirty = touched, !.at = s])
  BY <1>t DEF Scan, TypeOK, Job
<1>4. s \in Stages
  BY DEF Stages
<1>5. job'[w].at = s /\ job'[w].done = job[w].done /\ job'[w].vector = job[w].vector
  BY <1>t, <1>3, <1>4, ScanStep DEF Become
<1> QED
  BY <1>1, <1>2, <1>5, Kept, Plainly DEF Holds, Plain

\* A publication that is prepared has an id that no source shows.
LEMMA PrepareCurrent ==
  ASSUME Single, IInv, Coherent, NEW w \in Workers, Prepare(w)
  PROVE  Coherent'
<1> USE DEF store, caches
<1>t. TypeOK
  BY DEF IInv
<1>1. /\ job[w].at = "publish" /\ UNCHANGED <<source, vector, journal, resetting, holder>>
  BY DEF Prepare, At
<1>2. Holds(w) /\ job[w].done = {} /\ job[w].vector = vector
  BY <1>1, UnderWay DEF Resetting, Emptying, Staging, Activating, Copying, Ending
<1> DEFINE changed == {f \in job[w].toIndex \cap Present :
                         HashOf(job[w].vector[f]) # tree[f]}
           separate(m) == \A f, other \in changed : f # other => m[f] # m[other]
           minted == CHOOSE m \in [changed -> Unused] : separate(m)
           batch == {[file |-> f, gen |-> minted[f], hash |-> tree[f]] : f \in changed}
           next == IF changed = {} THEN "finish" ELSE "intend"
<1>3. changed \subseteq Files /\ \A f \in changed : tree[f] \in Contents
  BY <1>t DEF TypeOK, Present
<1>4. IsFiniteSet(changed) /\ IsFiniteSet(Unused) /\ Unused \subseteq Generations
  BY <1>3, IndexAssumption, FS_Subset DEF Unused
<1>5. Cardinality(changed) <= Cardinality(Unused)
  BY DEF Prepare
<1>6. Become(w, [job[w] EXCEPT !.batch = batch, !.toIndex = {}, !.at = next])
  BY DEF Prepare
<1>7. next \in {"finish", "intend"} /\ next \in Stages
  BY DEF Stages
<1> HIDE DEF changed, next
<1>8. minted \in [changed -> Unused]
  <2>1. \E m \in [changed -> Unused] : separate(m)
    BY <1>4, <1>5, Minting
  <2> QED
    BY <2>1
<1> HIDE DEF minted
<1>9. /\ batch \in SUBSET Publication /\ \A p \in batch : ~Visible(p)
  <2>1. ASSUME NEW f \in changed
        PROVE  /\ f \in Files /\ minted[f] \in Generations /\ tree[f] \in Contents
               /\ GenOf(source[f]) # minted[f]
    BY <1>3, <1>4, <1>8, <2>1 DEF Unused
  <2> QED
    BY <2>1 DEF Publication, Visible
<1>10. PICK ps \in SUBSET Publication : ps = batch
  BY <1>9
<1>11. Become(w, [job[w] EXCEPT !.batch = ps, !.toIndex = {}, !.at = next])
  BY <1>6, <1>10
<1>12. /\ job'[w].at = next /\ job'[w].done = job[w].done /\ job'[w].batch = ps
       /\ job'[w].vector = job[w].vector
  BY <1>t, <1>7, <1>11, BatchStep DEF Become
<1> HIDE DEF batch
<1>13. \A p \in ps : ~Visible(p)'
  BY <1>1, <1>9, <1>10 DEF Visible
<1>14. CASE next = "finish"
  BY <1>1, <1>2, <1>12, <1>14, Kept, Plainly DEF Holds, Plain, Ending
<1>15. CASE next = "intend"
  <2>1. Synced(job[w])'
    BY <1>1, <1>2, <1>12, <1>15 DEF Synced, Resetting, Emptying
  <2>2. Knows(job[w])'
    BY <1>2, <1>12, <1>13, <1>15
       DEF Knows, Staging, Activating, Copying, Ending, Emptying, Emptied
  <2> QED
    BY <1>1, <1>2, <2>1, <2>2, Kept, Together DEF Holds
<1> QED
  BY <1>7, <1>14, <1>15

\* The journal holds what the batch is to become.
LEMMA IntendCurrent ==
  ASSUME Single, IInv, Coherent, NEW w \in Workers, Intend(w)
  PROVE  Coherent'
<1> USE DEF store, caches
<1>t. TypeOK /\ Shape(job[w])
  BY DEF IInv, Soundness
<1>1. /\ job[w].at = "intend" /\ UNCHANGED <<source, vector, resetting, holder>>
      /\ journal = {} /\ Goto(w, "stage")
      /\ journal' = {[kind |-> "replace", file |-> p.file, gen |-> p.gen, hash |-> p.hash,
                      old |-> GenOf(job[w].vector[p.file])] : p \in job[w].batch}
  BY DEF Intend, At
<1>2. /\ Holds(w) /\ job[w].done = {} /\ job[w].vector = vector
      /\ CurrentMeansShown /\ \A p \in job[w].batch : ~Visible(p)
  BY <1>1, UnderWay DEF Knows, Resetting, Emptying, Staging, Activating, Copying, Ending
<1>3. /\ job'[w].at = "stage" /\ job'[w].done = {} /\ job'[w].vector = vector
      /\ job'[w].batch = job[w].batch
  BY <1>t, <1>1, <1>2, GotoStep DEF Stages
<1>4. Removals' = {} /\ Replacements' = journal'
  BY <1>1 DEF Removals, Replacements
<1>5. ASSUME NEW p \in job[w].batch
      PROVE  Journaled(p)'
  <2>1. p \in Publication
    BY <1>t DEF TypeOK, Job
  <2>2. p = [file |-> p.file, gen |-> p.gen, hash |-> p.hash]
    BY <2>1 DEF Publication
  <2> DEFINE op == [kind |-> "replace", file |-> p.file, gen |-> p.gen, hash |-> p.hash,
                    old |-> GenOf(job[w].vector[p.file])]
  <2>3. op \in journal' /\ PublicationOf(op) = p
    BY <1>1, <2>2 DEF PublicationOf
  <2> HIDE DEF op
  <2> QED
    BY <1>4, <2>3 DEF Journaled
<1>6. JournalSound'
  <2>1. \A o, p \in journal' : o.file = p.file => o = p
    BY <1>t, <1>1 DEF Shape
  <2>2. \A op \in journal' : GenOf(source[op.file]) # op.gen
    BY <1>1, <1>2 DEF Visible
  <2> QED
    BY <1>1, <1>4, <2>1, <2>2 DEF JournalSound
<1>7. CurrentMeansShown'
  BY <1>1, <1>2 DEF CurrentMeansShown, Removals
<1>8. Synced(job[w])'
  BY <1>1, <1>3 DEF Synced, Resetting, Emptying
<1>9. Knows(job[w])'
  BY <1>3, <1>5 DEF Knows, Staging, Activating, Copying, Ending, Emptying, Emptied
<1> QED
  BY <1>1, <1>2, <1>6, <1>7, <1>8, <1>9, Together DEF Holds

\* Staging reads none of it.
LEMMA StagingCurrent ==
  ASSUME Single, IInv, Coherent, NEW w \in Workers, Stage(w) \/ Complete(w)
  PROVE  Coherent'
<1> USE DEF store, caches
<1>t. TypeOK /\ Shape(job[w])
  BY DEF IInv, Soundness
<1>1. /\ job[w].at \in {"stage", "complete"}
      /\ UNCHANGED <<source, vector, journal, resetting, holder>>
  BY DEF Stage, Complete, At
<1>2. /\ Holds(w) /\ job[w].vector = vector /\ Knows(job[w])
  BY <1>1, UnderWay DEF Resetting, Emptying
<1>3. /\ job[w].done \subseteq job[w].batch /\ \A p \in job[w].batch : Journaled(p)
      /\ job[w].at = "complete" => job[w].one \in job[w].batch
      /\ job[w].batch \subseteq Publication
  BY <1>t, <1>1, <1>2 DEF Knows, Staging, TypeOK, Job
<1>4. /\ job'[w].at \in {"stage", "complete"} /\ job'[w].batch = job[w].batch
      /\ job'[w].vector = vector /\ job'[w].done \subseteq job[w].batch
      /\ job'[w].at = "complete" => job'[w].one \in job[w].batch
  <2>1. CASE Stage(w)
    <3>1. PICK p \in Publication :
            /\ p \in job[w].batch
            /\ Become(w, [job[w] EXCEPT !.one = p, !.at = "complete"])
      BY <1>3, <2>1 DEF Stage
    <3>2. PICK k \in Job(Files) : k = job[w]
      BY <1>t DEF TypeOK
    <3>3. job'[w] = [k EXCEPT !.one = p, !.at = "complete"]
      BY <1>t, <3>1, <3>2 DEF TypeOK, Become
    <3>4. /\ job'[w].at = "complete" /\ job'[w].batch = k.batch
          /\ job'[w].vector = k.vector /\ job'[w].done = k.done
          /\ job'[w].one = p
      BY <3>3 DEF Job
    <3> QED
      BY <1>2, <1>3, <3>1, <3>2, <3>4
  <2>2. CASE Complete(w)
    <3>1. PICK ps \in SUBSET Publication : ps = job[w].done \cup {job[w].one}
      BY <1>3, <2>2 DEF Complete, At
    <3>2. Become(w, [job[w] EXCEPT !.one = Nothing, !.done = ps, !.at = "stage"])
      BY <2>2, <3>1 DEF Complete
    <3>3. "stage" \in Stages
      BY DEF Stages
    <3>4. /\ job'[w].at = "stage" /\ job'[w].batch = job[w].batch
          /\ job'[w].vector = job[w].vector /\ job'[w].done = ps
      BY <1>t, <3>2, <3>3, OneDoneStep DEF Become
    <3> QED
      BY <1>2, <1>3, <2>2, <3>1, <3>4 DEF Complete, At
  <2> QED
    BY <2>1, <2>2
<1>5. \A p \in job[w].batch : Journaled(p)'
  BY <1>1, <1>3 DEF Journaled, Replacements
<1>6. Synced(job[w])'
  BY <1>1, <1>4 DEF Synced, Resetting, Emptying
<1>7. Knows(job[w])'
  BY <1>4, <1>5 DEF Knows, Staging, Activating, Copying, Ending, Emptying, Emptied
<1> QED
  BY <1>1, <1>2, <1>6, <1>7, Kept, Together DEF Holds

\* The entry of a publication, where the publications are of different files.
LEMMA EnteredOne ==
  ASSUME NEW cache, NEW ps \in SUBSET Publication, NEW visibility, NEW p \in ps,
         \A q \in ps : q.file = p.file => q = p
  PROVE  Entered(cache, ps, visibility)[p.file] =
           [gen |-> p.gen, hash |-> p.hash, visibility |-> visibility]
<1>1. p.file \in Files
  BY DEF Publication
<1>2. (CHOOSE q \in ps : q.file = p.file) = p
  OBVIOUS
<1> QED
  BY <1>1, <1>2 DEF Entered

LEMMA EnteredOther ==
  ASSUME NEW cache, NEW ps, NEW visibility, NEW f \in Files, \A p \in ps : p.file # f
  PROVE  Entered(cache, ps, visibility)[f] = cache[f]
  BY DEF Entered

\* What is staged is entered as pending, so the cache calls nothing new current.
LEMMA PendingCurrent ==
  ASSUME Single, IInv, Coherent, NEW w \in Workers, PendingVector(w)
  PROVE  Coherent'
<1> USE DEF store, caches
<1>t. TypeOK /\ Shape(job[w])
  BY DEF IInv, Soundness
<1>1. /\ job[w].at = "stage" /\ UNCHANGED <<source, journal, resetting, holder>>
  BY DEF PendingVector, At
<1>2. /\ Holds(w) /\ job[w].vector = vector /\ Knows(job[w])
      /\ JournalSound /\ CurrentMeansShown
  BY <1>1, UnderWay DEF Resetting, Emptying
<1>3. /\ job[w].done \subseteq job[w].batch /\ \A p \in job[w].batch : Journaled(p)
  BY <1>1, <1>2 DEF Knows, Staging
<1>4. /\ job[w].vector \in [Files -> Cached \cup {Nothing}]
      /\ job[w].done \in SUBSET Publication
  BY <1>t DEF TypeOK, Job
<1> DEFINE mine == Entered(job[w].vector, job[w].done, "pending")
<1>5. mine \in [Files -> Cached \cup {Nothing}]
  BY <1>4, EnteredType
<1>6. WriteVector(w, mine, "pendingStructural")
  BY DEF PendingVector
<1>7. \A p \in job[w].done :
        mine[p.file] = [gen |-> p.gen, hash |-> p.hash, visibility |-> "pending"]
  BY <1>t, <1>3, <1>4, EnteredOne DEF Shape
<1>8. \A f \in Files : (\A p \in job[w].done : p.file # f) => mine[f] = vector[f]
  BY <1>2, EnteredOther
<1> HIDE DEF mine
<1>9. /\ job'[w].at = "pendingStructural" /\ vector' = mine /\ job'[w].vector = mine
      /\ job'[w].batch = job[w].batch /\ job'[w].done = job[w].done
  <2>1. "pendingStructural" \in Stages
    BY DEF Stages, InSession
  <2> QED
    BY <1>t, <1>5, <1>6, <2>1, VectorStep
<1>10. CurrentMeansShown'
  <2>1. SUFFICES ASSUME ~resetting, NEW f \in Files, mine[f] # Nothing,
                        mine[f].visibility = "current"
                 PROVE  \/ source[f] = [gen |-> mine[f].gen, hash |-> mine[f].hash]
                        \/ \E op \in Removals : op.file = f
    BY <1>1, <1>5, <1>9 DEF CurrentMeansShown, Removals
  <2>2. ASSUME NEW p \in job[w].done, p.file = f PROVE FALSE
    <3>1. mine[f] = [gen |-> p.gen, hash |-> p.hash, visibility |-> "pending"]
      BY <1>7, <2>2
    <3>2. mine[f].visibility = "pending"
      BY <3>1
    <3> QED
      BY <2>1, <3>2
  <2>3. mine[f] = vector[f]
    BY <1>8, <2>2
  <2> QED
    BY <1>t, <1>2, <2>1, <2>3 DEF CurrentMeansShown, TypeOK
<1>11. \A p \in job[w].done : Owned(p)'
  <2> SUFFICES ASSUME NEW p \in job[w].done PROVE Owned(p)'
    OBVIOUS
  <2> DEFINE entry == [gen |-> p.gen, hash |-> p.hash, visibility |-> "pending"]
  <2>1. entry # Nothing /\ entry.gen = p.gen /\ entry.hash = p.hash
    BY <1>4, IndexAssumption DEF Publication
  <2> HIDE DEF entry
  <2>2. vector'[p.file] = entry
    BY <1>7, <1>9 DEF entry
  <2> QED
    BY <2>1, <2>2 DEF Owned, GenOf, HashOf
<1>12. \A p \in job[w].batch : Journaled(p)'
  BY <1>1, <1>3 DEF Journaled, Replacements
<1>13. Synced(job[w])'
  BY <1>9 DEF Synced, Resetting, Emptying
<1>14. Knows(job[w])'
  BY <1>3, <1>9, <1>11, <1>12
     DEF Knows, Staging, Activating, Copying, Ending, Emptying, Emptied
<1> QED
  BY <1>1, <1>2, <1>10, <1>13, <1>14, LessJournal, Together DEF Holds

LEMMA PendingStructuralCurrent ==
  ASSUME Single, IInv, Coherent, NEW w \in Workers, PendingStructural(w)
  PROVE  Coherent'
<1> USE DEF store, caches
<1>t. TypeOK
  BY DEF IInv
<1>1. /\ job[w].at = "pendingStructural"
      /\ UNCHANGED <<source, vector, journal, resetting, holder>>
  BY DEF PendingStructural, At
<1>2. /\ Holds(w) /\ job[w].vector = vector /\ Knows(job[w])
  BY <1>1, UnderWay DEF Resetting, Emptying
<1> DEFINE mine == EnteredShown(job[w].structural, job[w].done)
           next == IF job[w].done = job[w].batch THEN "activate" ELSE "finish"
<1>3. mine \in [Files -> Shown \cup {Nothing}]
  <2>1. /\ job[w].structural \in [Files -> Shown \cup {Nothing}]
        /\ job[w].done \in SUBSET Publication
    BY <1>t DEF TypeOK, Job
  <2> QED
    BY <2>1, EnteredShownType
<1>4. Become(w, [job[w] EXCEPT !.structural = mine, !.done = {}, !.at = next])
  BY DEF PendingStructural
<1>5. /\ next \in {"activate", "finish"} /\ next \in Stages
      /\ next = "activate" => job[w].done = job[w].batch
  BY DEF Stages
<1> HIDE DEF mine, next
<1>6. /\ job'[w].at = next /\ job'[w].batch = job[w].batch /\ job'[w].done = {}
      /\ job'[w].vector = job[w].vector
  BY <1>t, <1>3, <1>4, <1>5, PendingStep DEF Become
<1>7. CASE next = "finish"
  BY <1>1, <1>2, <1>6, <1>7, Kept, Plainly DEF Holds, Plain, Ending
<1>8. CASE next = "activate"
  <2>1. \A p \in job[w].batch : Journaled(p)' /\ Owned(p)'
    BY <1>1, <1>2, <1>5, <1>8 DEF Knows, Staging, Journaled, Owned, Replacements
  <2>2. Synced(job[w])'
    BY <1>1, <1>2, <1>6, <1>8 DEF Synced, Resetting, Emptying
  <2>3. Knows(job[w])'
    BY <1>6, <1>8, <2>1
       DEF Knows, Staging, Activating, Copying, Ending, Emptying, Emptied
  <2> QED
    BY <1>1, <1>2, <2>2, <2>3, Kept, Together DEF Holds
<1> QED
  BY <1>5, <1>7, <1>8

LEMMA ActivateCurrent ==
  ASSUME Single, IInv, Coherent, NEW w \in Workers, Activate(w)
  PROVE  Coherent'
<1> USE DEF store, caches
<1>t. TypeOK
  BY DEF IInv
<1>1. PICK p \in job[w].batch \ job[w].done : BeginCopy(w, p, TRUE)
  BY DEF Activate
<1>2. /\ job[w].at = "activate" /\ Holds(w)
      /\ UNCHANGED <<source, vector, journal, resetting, holder>>
  BY <1>1 DEF Activate, At, BeginCopy
<1>3. job[w].vector = vector /\ Knows(job[w])
  BY <1>2, UnderWay DEF Resetting, Emptying
<1>4. /\ job[w].done \subseteq job[w].batch
      /\ \A q \in job[w].batch : q \in Publication /\ Journaled(q) /\ Owned(q)
  BY <1>t, <1>2, <1>3 DEF Knows, Activating, TypeOK, Job
<1> DEFINE next == IF GenOf(source[p.file]) = p.gen THEN "receipt" ELSE "append"
<1>5. Become(w, [job[w] EXCEPT !.one = p, !.at = next])
  BY <1>1 DEF BeginCopy
<1>6. next \in {"receipt", "append"} /\ next \in Stages
  BY DEF Stages, InSession
<1> HIDE DEF next
<1>7. /\ job'[w].at = next /\ job'[w].batch = job[w].batch /\ job'[w].one = p
      /\ job'[w].vector = job[w].vector /\ job'[w].done = job[w].done
  <2>1. PICK k \in Job(Files) : k = job[w]
    BY <1>t DEF TypeOK
  <2>2. job'[w] = [k EXCEPT !.one = p, !.at = next]
    BY <1>t, <1>5, <2>1 DEF TypeOK, Become
  <2>3. /\ job'[w].at = next /\ job'[w].batch = k.batch /\ job'[w].one = p
        /\ job'[w].vector = k.vector /\ job'[w].done = k.done
    BY <2>2 DEF Job
  <2> QED
    BY <2>1, <2>3
<1>8. \A q \in job[w].batch : Journaled(q)' /\ Owned(q)'
  BY <1>2, <1>4 DEF Journaled, Owned, Replacements
<1>9. Synced(job[w])'
  BY <1>2, <1>3, <1>6, <1>7 DEF Synced, Resetting, Emptying
<1>10. Knows(job[w])'
  BY <1>4, <1>6, <1>7, <1>8
     DEF Knows, Staging, Activating, Copying, Ending, Emptying, Emptied
<1> QED
  BY <1>2, <1>9, <1>10, Kept, Together DEF Holds

\* A source is flipped to what the cache has pending and the journal holds.
LEMMA CopyingCurrent ==
  ASSUME Single, IInv, Coherent, NEW w \in Workers, AppendRest(w) \/ Flip(w)
  PROVE  Coherent'
<1> USE DEF store, caches
<1>t. TypeOK /\ Shape(job[w])
  BY DEF IInv, Soundness
<1>1. /\ job[w].at \in {"append", "flip"}
      /\ UNCHANGED <<vector, journal, resetting, holder>>
  BY DEF AppendRest, Flip, At
<1>2. /\ Holds(w) /\ job[w].vector = vector /\ Knows(job[w])
      /\ JournalSound /\ CurrentMeansShown
  BY <1>1, UnderWay DEF Resetting, Emptying
<1>p. PICK p \in Publication : p = job[w].one
  BY <1>t, <1>1 DEF Shape, Copying
<1>3. PICK s \in {"flip", "receipt"} : Goto(w, s)
  BY DEF AppendRest, Flip
<1>4. /\ job'[w].at = s /\ job'[w].batch = job[w].batch /\ job'[w].one = p
      /\ job'[w].vector = job[w].vector /\ job'[w].done = job[w].done
  <2>1. s \in Stages
    BY DEF Stages, InSession
  <2> QED
    BY <1>t, <1>p, <1>3, <2>1, GotoStep
<1>5. /\ p \in Publication /\ Journaled(p) /\ Owned(p)
      /\ job[w].done \subseteq job[w].batch
      /\ \A q \in job[w].batch : Journaled(q) /\ Owned(q)
  BY <1>1, <1>2, <1>p DEF Knows, Copying, Activating
<1>6. /\ p.file \in Files /\ p.gen \in Generations /\ p.hash \in Contents
  BY <1>5 DEF Publication
<1>7. JournalSound' /\ CurrentMeansShown'
  <2>1. CASE UNCHANGED source
    BY <1>1, <2>1, Kept
  <2>2. CASE source' = [source EXCEPT ![p.file] = [gen |-> p.gen, hash |-> p.hash]]
    <3> DEFINE shown == [gen |-> p.gen, hash |-> p.hash]
    <3>1. /\ source'[p.file] = shown
          /\ \A f \in Files : f # p.file => source'[f] = source[f]
      BY <1>t, <1>6, <2>2 DEF TypeOK
    <3>2. shown # Nothing /\ shown.gen = p.gen /\ shown.hash = p.hash
      BY <1>6, IndexAssumption
    <3>3. /\ vector[p.file] # Nothing /\ vector[p.file].gen = p.gen
          /\ vector[p.file].hash = p.hash
      BY <1>5, <1>6, IndexAssumption DEF Owned, GenOf, HashOf
    <3>4. source'[p.file] = [gen |-> vector[p.file].gen, hash |-> vector[p.file].hash]
      BY <3>1, <3>3
    <3> HIDE DEF shown
    <3>5. CurrentMeansShown'
      <4> SUFFICES ASSUME ~resetting, NEW f \in Files, vector[f] # Nothing,
                          vector[f].visibility = "current"
                   PROVE  \/ source'[f] = [gen |-> vector[f].gen, hash |-> vector[f].hash]
                          \/ \E op \in Removals : op.file = f
        BY <1>t, <1>1 DEF CurrentMeansShown, Removals, TypeOK
      <4> QED
        BY <1>t, <1>2, <3>1, <3>4 DEF CurrentMeansShown, TypeOK
    <3>6. PICK o \in Replacements : PublicationOf(o) = p
      BY <1>5 DEF Journaled
    <3>7. o \in journal /\ o.file = p.file /\ o.gen = p.gen /\ o.hash = p.hash
      BY <3>6 DEF PublicationOf, Replacements
    <3>8. ASSUME NEW op \in Replacements, GenOf(source'[op.file]) = op.gen
          PROVE  HashOf(source'[op.file]) = op.hash
      <4>1. op \in journal /\ op.file \in Files
        BY <1>t, OperationType
      <4>2. CASE op.file = p.file
        BY <1>2, <3>1, <3>2, <3>7, <4>1, <4>2 DEF JournalSound, HashOf
      <4>3. CASE op.file # p.file
        BY <1>2, <3>1, <3>8, <4>1, <4>3 DEF JournalSound
      <4> QED
        BY <4>2, <4>3
    <3>9. Replacements' = Replacements /\ Removals' = Removals
      BY <1>1 DEF Replacements, Removals
    <3>10. JournalSound'
      BY <1>1, <1>2, <3>8, <3>9 DEF JournalSound
    <3> QED
      BY <3>5, <3>10
  <2> QED
    BY <1>p, <2>1, <2>2 DEF AppendRest, Flip
<1>8. Journaled(p)' /\ Owned(p)' /\ \A q \in job[w].batch : Journaled(q)' /\ Owned(q)'
  BY <1>1, <1>4, <1>5 DEF Journaled, Owned, Replacements
<1>9. Synced(job[w])'
  BY <1>1, <1>2, <1>4 DEF Synced, Resetting, Emptying
<1>10. Knows(job[w])'
  BY <1>4, <1>5, <1>8
     DEF Knows, Staging, Activating, Copying, Ending, Emptying, Emptied
<1> QED
  BY <1>1, <1>2, <1>7, <1>9, <1>10, Together DEF Holds

LEMMA ReceiptCurrent ==
  ASSUME Single, IInv, Coherent, NEW w \in Workers, Receipt(w) \/ Cleanup(w)
  PROVE  Coherent'
<1> USE DEF store, caches
<1>t. TypeOK /\ Shape(job[w])
  BY DEF IInv, Soundness
<1>1. /\ job[w].at \in {"receipt", "activate"}
      /\ UNCHANGED <<source, vector, journal, resetting, holder>>
  BY DEF Receipt, Cleanup, At
<1>2. Holds(w) /\ job[w].vector = vector /\ Knows(job[w])
  BY <1>1, UnderWay DEF Resetting, Emptying
<1>3. Claims(job[w])
  BY <1>2 DEF IInv, Soundness
<1>4. /\ job[w].done \subseteq job[w].batch
      /\ \A q \in job[w].batch : Journaled(q) /\ Owned(q)
  BY <1>1, <1>2 DEF Knows, Copying, Activating
<1>5. CASE Receipt(w)
  <2> DEFINE next == IF job[w].batch = {} THEN "confirm" ELSE "activate"
  <2>1. PICK p \in Publication : p = job[w].one
    BY <1>t, <1>5 DEF Shape, Receipt, At, Copying
  <2>a. /\ Visible(p) /\ Journaled(p)
        /\ job[w].batch # {} => p \in job[w].batch
    BY <1>t, <1>2, <1>3, <1>5, <2>1 DEF Shape, Claims, Knows, Receipt, At, Copying
  <2>2. PICK ps \in SUBSET Publication : ps = job[w].done \cup {p}
    BY <1>t, <2>1 DEF TypeOK, Job
  <2>3. /\ next \in {"confirm", "activate"}
        /\ next = "confirm" <=> job[w].batch = {}
    OBVIOUS
  <2>4. Become(w, [job[w] EXCEPT !.one = Nothing, !.done = ps, !.at = next])
    BY <1>5, <2>1, <2>2 DEF Receipt
  <2> HIDE DEF next
  <2>5. /\ job'[w].at = next /\ job'[w].batch = job[w].batch
        /\ job'[w].vector = job[w].vector /\ job'[w].done = ps
    <3>1. PICK k \in Job(Files) : k = job[w]
      BY <1>t DEF TypeOK
    <3>2. job'[w] = [k EXCEPT !.one = Nothing, !.done = ps, !.at = next]
      BY <1>t, <2>4, <3>1 DEF TypeOK, Become
    <3>3. /\ job'[w].at = next /\ job'[w].batch = k.batch
          /\ job'[w].vector = k.vector /\ job'[w].done = ps
      BY <3>2 DEF Job
    <3> QED
      BY <3>1, <3>3
  <2>6. CASE next = "confirm"
    <3>1. ps = {p}
      BY <1>4, <2>2, <2>3, <2>6
    <3>2. \A q \in ps : Journaled(q)' /\ Visible(q)'
      BY <1>1, <2>a, <3>1 DEF Journaled, Visible, Replacements
    <3>3. Synced(job[w])'
      BY <1>1, <1>2, <2>5, <2>6 DEF Synced, Resetting, Emptying
    <3>4. Knows(job[w])'
      BY <2>5, <2>6, <3>2
         DEF Knows, Staging, Activating, Copying, Ending, Emptying, Emptied
    <3> QED
      BY <1>1, <1>2, <3>3, <3>4, Kept, Together DEF Holds
  <2>7. CASE next = "activate"
    <3>1. ps \subseteq job[w].batch
      BY <1>4, <2>a, <2>2, <2>3, <2>7
    <3>2. \A q \in job[w].batch : Journaled(q)' /\ Owned(q)'
      BY <1>1, <1>4 DEF Journaled, Owned, Replacements
    <3>3. Synced(job[w])'
      BY <1>1, <1>2, <2>5, <2>7 DEF Synced, Resetting, Emptying
    <3>4. Knows(job[w])'
      BY <2>5, <2>7, <3>1, <3>2
         DEF Knows, Staging, Activating, Copying, Ending, Emptying, Emptied
    <3> QED
      BY <1>1, <1>2, <3>3, <3>4, Kept, Together DEF Holds
  <2> QED
    BY <2>3, <2>6, <2>7
<1>6. CASE Cleanup(w)
  <2>1. \A q \in job[w].done : Journaled(q) /\ Visible(q)
    BY <1>t, <1>3, <1>4, <1>6 DEF Shape, Claims, Cleanup, At, Activating
  <2>2. "confirm" \in Stages /\ Goto(w, "confirm")
    BY <1>6 DEF Cleanup, Stages
  <2>3. /\ job'[w].at = "confirm" /\ job'[w].batch = job[w].batch
        /\ job'[w].vector = job[w].vector /\ job'[w].done = job[w].done
    BY <1>t, <2>2, GotoStep
  <2>4. \A q \in job[w].done : Journaled(q)' /\ Visible(q)'
    BY <1>1, <2>1 DEF Journaled, Visible, Replacements
  <2>5. Synced(job[w])'
    BY <1>1, <1>2, <2>3 DEF Synced, Resetting, Emptying
  <2>6. Knows(job[w])'
    BY <2>3, <2>4
       DEF Knows, Staging, Activating, Copying, Ending, Emptying, Emptied
  <2> QED
    BY <1>1, <1>2, <2>5, <2>6, Kept, Together DEF Holds
<1> QED
  BY <1>5, <1>6

\* What is called current is shown, with the content the journal names.
LEMMA ConfirmCurrent ==
  ASSUME Single, IInv, Coherent, NEW w \in Workers, Confirm(w)
  PROVE  Coherent'
<1> USE DEF store, caches
<1>t. TypeOK
  BY DEF IInv
<1>1. /\ job[w].at = "confirm" /\ UNCHANGED <<source, journal, resetting, holder>>
  BY DEF Confirm, At
<1>2. /\ Holds(w) /\ job[w].vector = vector /\ Knows(job[w])
      /\ JournalSound /\ CurrentMeansShown
  BY <1>1, UnderWay DEF Resetting, Emptying
<1>3. /\ job[w].vector \in [Files -> Cached \cup {Nothing}]
      /\ job[w].done \in SUBSET Publication
  BY <1>t DEF TypeOK, Job
<1>4. ASSUME NEW p \in job[w].done
      PROVE  source[p.file] = [gen |-> p.gen, hash |-> p.hash]
  <2>1. PICK op \in Replacements : PublicationOf(op) = p
    BY <1>1, <1>2 DEF Knows, Journaled
  <2>2. GenOf(source[p.file]) = p.gen
    BY <1>1, <1>2 DEF Knows, Visible
  <2>3. op.file = p.file /\ op.gen = p.gen /\ op.hash = p.hash
    BY <2>1 DEF PublicationOf
  <2>4. HashOf(source[p.file]) = p.hash
    BY <1>2, <2>2, <2>3 DEF JournalSound
  <2>5. p.file \in Files /\ p.gen # Nothing
    BY <1>3, IndexAssumption DEF Publication
  <2>6. source[p.file] \in Shown
    BY <1>t, <2>2, <2>5 DEF GenOf, TypeOK
  <2>7. source[p.file] # Nothing
    BY <2>2, <2>5 DEF GenOf
  <2> QED
    BY <2>2, <2>4, <2>6, <2>7 DEF GenOf, HashOf, Shown
<1> DEFINE mine == Entered(job[w].vector, job[w].done, "current")
<1>5. mine \in [Files -> Cached \cup {Nothing}]
  BY <1>3, EnteredType
<1>6. WriteVector(w, mine, "forget") /\ "forget" \in Stages
  BY DEF Confirm, Stages, InSession
<1>7. \A f \in Files :
        \/ mine[f] = vector[f]
        \/ \E p \in job[w].done :
             /\ p.file = f
             /\ mine[f] = [gen |-> p.gen, hash |-> p.hash, visibility |-> "current"]
  <2> SUFFICES ASSUME NEW f \in Files, mine[f] # vector[f]
               PROVE  \E p \in job[w].done :
                        /\ p.file = f
                        /\ mine[f] = [gen |-> p.gen, hash |-> p.hash, visibility |-> "current"]
    OBVIOUS
  <2>1. \E p \in job[w].done : p.file = f
    BY <1>2 DEF Entered
  <2> DEFINE p == CHOOSE q \in job[w].done : q.file = f
  <2>2. p \in job[w].done /\ p.file = f
    BY <2>1
  <2>3. mine[f] = [gen |-> p.gen, hash |-> p.hash, visibility |-> "current"]
    BY <2>1 DEF Entered
  <2> HIDE DEF p
  <2> QED
    BY <2>2, <2>3
<1> HIDE DEF mine
<1>8. /\ job'[w].at = "forget" /\ vector' = mine /\ job'[w].vector = mine
  BY <1>t, <1>5, <1>6, VectorStep
<1>9. CurrentMeansShown'
  <2> SUFFICES ASSUME ~resetting, NEW f \in Files, mine[f] # Nothing,
                      mine[f].visibility = "current"
               PROVE  \/ source[f] = [gen |-> mine[f].gen, hash |-> mine[f].hash]
                      \/ \E op \in Removals : op.file = f
    BY <1>1, <1>5, <1>8 DEF CurrentMeansShown, Removals
  <2>1. CASE mine[f] = vector[f]
    BY <1>t, <1>2, <2>1 DEF CurrentMeansShown, TypeOK
  <2>2. ASSUME NEW p \in job[w].done, p.file = f,
               mine[f] = [gen |-> p.gen, hash |-> p.hash, visibility |-> "current"]
        PROVE  source[f] = [gen |-> mine[f].gen, hash |-> mine[f].hash]
    <3>1. mine[f].gen = p.gen /\ mine[f].hash = p.hash
      BY <2>2
    <3> QED
      BY <1>4, <2>2, <3>1
  <2> QED
    BY <1>7, <2>1, <2>2
<1> QED
  BY <1>1, <1>2, <1>8, <1>9, LessJournal, Plainly DEF Holds, Plain, Ending

LEMMA ClosingCurrent ==
  ASSUME Single, IInv, Coherent, NEW w \in Workers, Forget(w) \/ Finalize(w)
  PROVE  Coherent'
<1> USE DEF store, caches
<1>t. TypeOK
  BY DEF IInv
<1>1. /\ job[w].at \in {"forget", "finalize"}
      /\ UNCHANGED <<source, vector, resetting, holder>>
  BY DEF Forget, Finalize, At
<1>2. /\ Holds(w) /\ job[w].vector = vector /\ JournalSound /\ CurrentMeansShown
  BY <1>1, UnderWay DEF Resetting, Emptying
<1>3. CASE Forget(w)
  <2>1. journal' \subseteq journal /\ Removals' = Removals
    BY <1>3 DEF Forget, Removals
  <2>2. "finalize" \in Stages /\ Goto(w, "finalize")
    BY <1>3 DEF Forget, Stages
  <2>3. job'[w].at = "finalize" /\ job'[w].vector = job[w].vector
    BY <1>t, <2>2, GotoStep
  <2>4. JournalSound' /\ CurrentMeansShown'
    BY <1>1, <1>2, <2>1, LessJournal DEF CurrentMeansShown
  <2> QED
    BY <1>1, <1>2, <2>3, <2>4, Plainly DEF Holds, Plain, Ending
<1>4. CASE Finalize(w)
  <2> DEFINE next == IF job[w].batch = {} THEN "replacements" ELSE "finish"
  <2>1. /\ {} \in SUBSET Publication /\ next \in Stages
        /\ next \in {"replacements", "finish"}
    BY DEF Stages
  <2>2. Become(w, [job[w] EXCEPT !.done = {}, !.at = next]) /\ UNCHANGED journal
    BY <1>4 DEF Finalize
  <2> HIDE DEF next
  <2>3. job'[w].at = next /\ job'[w].done = {} /\ job'[w].vector = job[w].vector
    <3>1. PICK k \in Job(Files) : k = job[w]
      BY <1>t DEF TypeOK
    <3>2. job'[w] = [k EXCEPT !.done = {}, !.at = next]
      BY <1>t, <2>2, <3>1 DEF TypeOK, Become
    <3>3. job'[w].at = next /\ job'[w].done = {} /\ job'[w].vector = k.vector
      BY <3>2 DEF Job
    <3> QED
      BY <3>1, <3>3
  <2> QED
    BY <1>1, <1>2, <2>1, <2>2, <2>3, Kept, Plainly DEF Holds, Plain, Ending
<1> QED
  BY <1>3, <1>4

LEMMA SameCurrent ==
  ASSUME Coherent, UNCHANGED <<source, vector, journal, resetting, holder, job>>
  PROVE  Coherent'
<1>1. JournalSound' /\ CurrentMeansShown'
  BY Kept
<1>2. ASSUME NEW w \in Workers
      PROVE  (/\ job[w].at \notin {"idle", "loaded"} => Holds(w)
              /\ Synced(job[w]) /\ Knows(job[w]))'
  BY DEF Coherent, Synced, Knows, Holds, Visible, Journaled, Owned, Replacements
<1> QED
  BY <1>1, <1>2 DEF Coherent

LEMMA InitCurrent == Init => Coherent
<1> SUFFICES ASSUME Init PROVE Coherent
  OBVIOUS
<1>1. \A w \in Workers : job[w] = Idle(Files)
  BY DEF Init
<1>2. Idle(Files).at = "idle" /\ ~Idle(Files).dirty /\ Idle(Files).done = {}
  BY DEF Idle
<1>3. Synced(Idle(Files)) /\ Knows(Idle(Files))
  BY <1>2 DEF Synced, Knows, Staging, Activating, Copying, Ending, Emptying, Emptied
<1>4. JournalSound /\ CurrentMeansShown
  BY DEF Init, JournalSound, CurrentMeansShown, Replacements, Removals, NoEntries
<1> QED
  BY <1>1, <1>2, <1>3, <1>4 DEF Coherent

LEMMA StepCurrent ==
  ASSUME Single, IInv, Coherent, NEW w \in Workers, Step(w)
  PROVE  Coherent'
<1>1. CASE Acquire(w) \/ Busy(w) \/ Drained(w) \/ Release(w) \/ Fenced(w) \/ Flush(w)
  BY <1>1, AcquireCurrent, IdleCurrent, PlainMovesCurrent, FlushCurrent
<1>2. CASE \/ RecoverReplacement(w) \/ ClearVector(w) \/ ClearStructural(w)
           \/ ClearJournal(w) \/ ReplacementsDone(w)
  BY <1>2, RecoveryCurrent, ClearingCurrent, PlainMovesCurrent
<1>3. CASE \/ IntendRemoval(w) \/ DeleteSources(w) \/ DeleteRows(w)
           \/ ReleaseStructural(w) \/ ReleaseVector(w) \/ ReleaseJournal(w)
           \/ DeletionsDone(w)
  BY <1>3, RemovalsCurrent, ReleasesCurrent, PlainMovesCurrent
<1>4. CASE \/ BeginReset(w) \/ DeleteSomeTables(w) \/ DeleteRest(w) \/ ResetJournal(w)
           \/ ResetVector(w) \/ ResetStructural(w) \/ CompleteReset(w)
  BY <1>4, EmptyingCurrent, EmptiedCurrent
<1>5. CASE \/ Scan(w) \/ Prepare(w) \/ Intend(w) \/ Stage(w) \/ Complete(w)
           \/ PendingVector(w) \/ PendingStructural(w) \/ Activate(w)
  BY <1>5, ScanCurrent, PrepareCurrent, IntendCurrent, StagingCurrent,
     PendingCurrent, PendingStructuralCurrent, ActivateCurrent
<1>6. CASE \/ AppendRest(w) \/ Flip(w) \/ Receipt(w) \/ Cleanup(w)
           \/ Confirm(w) \/ Forget(w) \/ Finalize(w)
  BY <1>6, CopyingCurrent, ReceiptCurrent, ConfirmCurrent, ClosingCurrent
<1> QED
  BY <1>1, <1>2, <1>3, <1>4, <1>5, <1>6 DEF Step

LEMMA NextCurrent ==
  ASSUME Single, IInv, Coherent, [Next]_vars
  PROVE  Coherent'
<1>1. CASE UNCHANGED vars
  BY <1>1, SameCurrent DEF vars, store, caches
<1>2. ASSUME NEW w \in Workers,
             \/ Step(w) \/ Cancel(w) \/ Crash(w)
             \/ \E force \in BOOLEAN : StartFull(w, force)
             \/ \E f \in Files : StartUpdate(w, f)
      PROVE  Coherent'
  BY <1>2, StepCurrent, PlainMovesCurrent, IdleCurrent, StartsCurrent
<1>3. ASSUME NEW f \in Files, NEW content \in Contents \cup {Nothing}, Edit(f, content)
      PROVE  Coherent'
  BY <1>3, SameCurrent DEF Edit, store, caches
<1> QED
  BY <1>1, <1>2, <1>3 DEF Next

\* What the vector cache calls current is what the store shows, unless its
\* removal is intended, when one worker has the caches to itself: for any
\* number of files, crashes and cancellations.
\* (recoverJournaledStagedRepositoryPublications, checkpointCurrent)
THEOREM OneWorkerShown == Spec => []OneWorkerCurrent
<1>1. CASE Single
  <2>1. IInv /\ Coherent /\ [Next]_vars => (IInv /\ Coherent)'
    BY <1>1, NextInv, NextCurrent
  <2>2. Init => IInv /\ Coherent
    BY InitInv, InitCurrent
  <2>3. Coherent => OneWorkerCurrent
    BY DEF Coherent, OneWorkerCurrent
  <2> QED
    BY <2>1, <2>2, <2>3, PTL DEF Spec
<1>2. CASE ~Single
  <2>1. IInv => OneWorkerCurrent
    <3>1. IInv => DOMAIN job = Workers
      BY DEF IInv, TypeOK
    <3> QED
      BY <1>2, <3>1 DEF OneWorkerCurrent, Single
  <2> QED
    BY InitInv, NextInv, <2>1, PTL DEF Spec
<1> QED
  BY <1>1, <1>2
=============================================================================
