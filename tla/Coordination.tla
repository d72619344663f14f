----------------------------- MODULE Coordination -----------------------------
(***************************************************************************)
(* Three small protocols of one extension host that share nothing: the     *)
(* edits that queue for files, the requests that queue for a model         *)
(* provider, and the commands that queue for a terminal.  What is asked of *)
(* each, for TLC and for the proofs.                                       *)
(***************************************************************************)
EXTENDS Naturals, Sequences

CONSTANTS
  Edits, Wanted, Impatient, NoEdit,
  Requests, Priority, Abortable, Limits,
  Commands, Background, Targeted, Terminals, PoolSize, DetachedLimit,
  MaxWaiters, MaxCloses, Nobody

VARIABLES
  pathLocks, resolved, stage, held, ahead, abandoned,
  limit, active, pending, aborted,
  pool, waiters, tickets, progress, on, cancelled, closes

\* Paths are numbered in their sorting order, and NoEdit is no edit.
ASSUME EditsAssumption == Wanted \in [Edits -> Seq(Nat)] /\ NoEdit \notin Edits

\* Limits are positive, as the scheduler checks, and there are three
\* priorities.
ASSUME SchedulerAssumption ==
  /\ Limits \subseteq Nat \ {0}
  /\ Priority \in [Requests -> {"interactive", "background", "maintenance"}]

Files == INSTANCE FileLock
Model == INSTANCE ModelRequestScheduler
Terminal == INSTANCE TerminalPool WITH Requests <- Commands, stage <- progress

-----------------------------------------------------------------------------
\* Edits of one file are made one at a time, until somebody gives up waiting
\* for it.  (withFileLock)
OneEditPerPath == Files!OneEditPerPath

\* When no edit is under way, no path stays locked.  (pathLocks)
NothingLeftLocked == Files!NothingLeftLocked

\* Every edit ends, whatever files the others name in whatever order.
\* (withFileLocks)
EveryEditEnds == Files!EveryEditEnds

\* A model request waits only while the provider is busy.  (drain)
WaitingMeansBusy == Model!WaitingMeansBusy

\* Requests are admitted by priority, and in order of arrival within one.
\* (drain)
AdmittedInOrder == Model!AdmittedInOrder

\* Interactive requests do not starve.  (PRIORITY_ORDER)
InteractiveServed == Model!InteractiveServed

\* Whoever heads the queue was offered the room there is.  (pump)
RoomIsOffered == Terminal!RoomIsOffered
=============================================================================
