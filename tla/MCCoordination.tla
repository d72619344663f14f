---------------------------- MODULE MCCoordination ----------------------------
(***************************************************************************)
(* Four small coordination protocols for TLC, one of them at a time: the   *)
(* variable machine says which, and the others stand still.  Their state   *)
(* graphs lie side by side, so each is explored as if it were alone.  The  *)
(* store lock comes twice, with two callers and with three.                *)
(***************************************************************************)
EXTENDS StoreLock, Coordination, TLC

CONSTANTS c1, c2, c3, p1, p2

TwoInOneProcess == (c1 :> p1) @@ (c2 :> p2) @@ (c3 :> p2)

\* A single file, two of two, and two that overlap the other way round.
Overlapping == [a |-> <<2, 1>>, b |-> <<1, 2, 1>>, c |-> <<2>>, d |-> <<1>>]

ThreePriorities == [i1 |-> "interactive", i2 |-> "interactive",
                    b1 |-> "background", b2 |-> "background", m |-> "maintenance"]

\* Which protocol takes its steps.
VARIABLE machine

lockVars == <<pathLocks, resolved, stage, held, ahead, abandoned>>
requestVars == <<limit, active, pending, aborted>>
poolVars == <<pool, waiters, tickets, progress, on, cancelled, closes>>

Pair == INSTANCE StoreLock WITH Callers <- {c1, c2}

\* Each machine by itself.  Among three callers nobody dies and none leaves the
\* directory without its file: what is asked of three is asked until then.
Store(A) ==
  /\ machine = "three callers" /\ A
  /\ crashed' = {} /\ ~disowned'
  /\ UNCHANGED <<machine, lockVars, requestVars, poolVars>>
Two(A) ==
  machine = "two callers" /\ A /\ UNCHANGED <<machine, lockVars, requestVars, poolVars>>
File(A) ==
  machine = "files" /\ A /\ UNCHANGED <<machine, vars, requestVars, poolVars>>
Request(A) ==
  machine = "model" /\ A /\ UNCHANGED <<machine, vars, lockVars, poolVars>>
Shell(A) ==
  machine = "terminal" /\ A /\ UNCHANGED <<machine, vars, lockVars, requestVars>>

AllInit ==
  /\ machine \in {"three callers", "two callers", "files", "model", "terminal"}
  /\ IF machine = "two callers" THEN Pair!Init ELSE Init
  /\ Files!Init /\ Terminal!Init
  /\ Model!Init
  /\ machine # "model" => limit = 1

AllNext ==
  Store(Next) \/ Two(Pair!Next) \/ File(Files!Next)
  \/ Request(Model!Next) \/ Shell(Terminal!Next)

allVars == <<machine, vars, lockVars, requestVars, poolVars>>

\* Callers of the store lock take their steps, edits with their locks are made,
\* permits are given back.  Nobody has to call, change the limit or die.
AllSpec ==
  /\ AllInit /\ [][AllNext]_allVars
  /\ \A c \in {c1, c2, c3} :
       /\ WF_allVars(Store(Step(c)))
       /\ SF_allVars(Store(Inspect(c) /\ seen'[c] \in {EmptyStale} \cup 1..MaxFailures))
  /\ \A c \in {c1, c2} :
       /\ WF_allVars(Two(Pair!Step(c)))
       /\ SF_allVars(Two(Pair!Inspect(c) /\ seen'[c] \in {EmptyStale} \cup 1..MaxFailures))
  /\ WF_allVars(File(\E e \in Edits : Files!Step(e)))
  /\ \A r \in Requests : WF_allVars(Request(Model!Release(r)))

-----------------------------------------------------------------------------
\* What two callers see of the lock: nothing more, once one of them lives on
\* and left the directory without its file.
Seen == IF machine = "two callers" /\ ~disowned THEN running ELSE {}

Exclusive == INSTANCE ExclusiveUse WITH running <- Seen

\* The store lock implements exclusive use: an operation begins only when none
\* is under way, for two callers whoever dies and whatever fails, until a live
\* one leaves the directory without its file.  (withRetrievalStoreLock)
StoreLockIsExclusive == Exclusive!Spec

\* Nobody waits for the dead, with two callers and with three (the third
\* runs beside the second and does nothing the second does not).
NobodyWaits == Pair!NobodyWaitsForTheDead
=============================================================================
