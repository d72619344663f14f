----------------------------- MODULE TerminalPool -----------------------------
(***************************************************************************)
(* The pool of unnamed terminals of one owner (an agent session) and the   *)
(* queue in front of it: resolveChannel, executeCommand and the prepared   *)
(* execution of NativeAgentTerminalCoordinator, and                        *)
(* TerminalAdmissionQueue.                                                 *)
(*                                                                         *)
(* A request takes an idle terminal, creates one while the pool is small   *)
(* enough, or waits.  Whatever may have made room wakes the head of the    *)
(* queue (pump): it is granted a ticket and, a moment later, looks again.  *)
(* Terminals of background commands leave the pool and rejoin it when the  *)
(* command ends; idle terminals beyond the pool's size are then closed.    *)
(* Directories and environments, which decide whether an idle terminal is  *)
(* reused or replaced, are left out: either way the request gets it.       *)
(***************************************************************************)
EXTENDS Integers, Sequences, FiniteSets, SequencesExt

CONSTANTS
  Requests,        \* commands to run, each once
  Background,      \* those to run in the background
  Targeted,        \* those that name a terminal of the pool
  Terminals,       \* identities, free for reuse once a terminal is closed
  PoolSize,        \* MAX_IMPLICIT_CHANNELS_PER_OWNER
  DetachedLimit,   \* MAX_DETACHED_IMPLICIT_CHANNELS_PER_OWNER
  MaxWaiters,      \* MAX_IMPLICIT_ADMISSION_WAITERS_PER_OWNER
  MaxCloses,       \* bound: terminals that are closed by others
  Nobody

VARIABLES
  pool,      \* each terminal: its status, whether it is detached from the
             \* pool, and the request that has it reserved
  waiters,   \* the waiting requests, first to last
  tickets,   \* the requests whose wait was answered and that look next
  stage,     \* new, waiting, starting, running, ended
  on,        \* the terminal of a request that starts or runs
  cancelled, \* requests whose admission signal is aborted
  closes

vars == <<pool, waiters, tickets, stage, on, cancelled, closes>>

Closed == [status |-> "closed", detached |-> FALSE, by |-> Nobody]

Init ==
  /\ pool = [t \in Terminals |-> Closed]
  /\ waiters = <<>>
  /\ tickets = {}
  /\ stage = [r \in Requests |-> "new"]
  /\ on = [r \in Requests |-> Nobody]
  /\ cancelled = {}
  /\ closes = 0

-----------------------------------------------------------------------------
(* The pool and the queue.                                                 *)

Detached(p) == {t \in Terminals : p[t].detached}
Pooled(p) == {t \in Terminals : p[t].status # "closed" /\ ~p[t].detached}
Idle(p) == {t \in Pooled(p) : p[t].status = "idle" /\ p[t].by = Nobody}

CanAdmit(r, p) ==
  /\ r \in Background => Cardinality(Detached(p)) < DetachedLimit
  /\ Cardinality(Pooled(p)) < PoolSize \/ Idle(p) # {}

Available(p) ==
  Idle(p) \cup IF Cardinality(Pooled(p)) < PoolSize
               THEN {t \in Terminals : p[t].status = "closed"} ELSE {}

Reserved(r, t) == [pool EXCEPT ![t] = [status |-> "idle", detached |-> FALSE, by |-> r]]

Pump(queue, given, p) ==
  IF queue # <<>> /\ Head(queue) \notin given /\ CanAdmit(Head(queue), p)
  THEN given \cup {Head(queue)} ELSE given

\* notifyAdmission, after a change of the pool.
Notify == tickets' = Pump(waiters, tickets, pool')

Goto(r, s) == stage' = [stage EXCEPT ![r] = s]

Enqueue(r, queue, given) ==
  IF Len(queue) >= MaxWaiters
  THEN waiters' = queue /\ tickets' = given /\ Goto(r, "ended")
  ELSE /\ waiters' = Append(queue, r)
       /\ tickets' = Pump(waiters', given, pool)
       /\ Goto(r, "waiting")

-----------------------------------------------------------------------------
(* Admission.                                                              *)

\* A newcomer does not pass the queue.
Call(r) ==
  /\ stage[r] = "new" /\ r \notin Targeted
  /\ IF waiters = <<>> /\ CanAdmit(r, pool)
     THEN /\ \E t \in Available(pool) :
               pool' = Reserved(r, t) /\ on' = [on EXCEPT ![r] = t]
          /\ Goto(r, "starting")
          /\ UNCHANGED <<waiters, tickets>>
     ELSE Enqueue(r, waiters, tickets) /\ UNCHANGED <<pool, on>>
  /\ UNCHANGED <<cancelled, closes>>

\* A request for a named terminal takes it if it is idle; it fails if not.
CallTargeted(r) ==
  /\ stage[r] = "new" /\ r \in Targeted
  /\ \E t \in Idle(pool) :
       pool' = Reserved(r, t) /\ on' = [on EXCEPT ![r] = t]
  /\ Goto(r, "starting")
  /\ UNCHANGED <<waiters, tickets, cancelled, closes>>

\* The ticket's holder looks at the pool again.
Admitted(r) ==
  /\ r \in tickets /\ CanAdmit(r, pool)
  /\ \E t \in Available(pool) :
       pool' = Reserved(r, t) /\ on' = [on EXCEPT ![r] = t]
  /\ Goto(r, "starting")
  /\ waiters' = Remove(waiters, r)
  /\ tickets' = Pump(waiters', tickets \ {r}, pool')
  /\ UNCHANGED <<cancelled, closes>>

\* In the meantime others took what it was granted: it waits anew, at the end.
WaitsAgain(r) ==
  /\ r \in tickets /\ ~CanAdmit(r, pool)
  /\ LET queue == Remove(waiters, r)
         given == Pump(queue, tickets \ {r}, pool)
     IN  IF r \in cancelled
         THEN waiters' = queue /\ tickets' = given /\ Goto(r, "ended")
         ELSE Enqueue(r, queue, given)
  /\ UNCHANGED <<pool, on, cancelled, closes>>

CancelSilently(r) ==
  /\ stage[r] = "waiting" /\ r \notin cancelled
  /\ cancelled' = cancelled \cup {r}
  /\ waiters' = Remove(waiters, r)
  /\ IF r \in tickets THEN UNCHANGED stage ELSE Goto(r, "ended")
  /\ UNCHANGED <<pool, tickets, on, closes>>

\* An answered wait can no longer be rejected: its request goes on.
Cancel(r) ==
  /\ stage[r] = "waiting" /\ r \notin cancelled
  /\ cancelled' = cancelled \cup {r}
  /\ waiters' = Remove(waiters, r)
  /\ tickets' = Pump(waiters', tickets, pool)
  /\ IF r \in tickets THEN UNCHANGED stage ELSE Goto(r, "ended")
  /\ UNCHANGED <<pool, on, closes>>

TimeOut(r) ==
  /\ stage[r] = "waiting" /\ r \notin tickets
  /\ waiters' = Remove(waiters, r)
  /\ tickets' = Pump(waiters', tickets, pool)
  /\ Goto(r, "ended")
  /\ UNCHANGED <<pool, on, cancelled, closes>>

-----------------------------------------------------------------------------
(* Commands.                                                               *)

Has(r) == on[r] # Nobody /\ pool[on[r]].by = r

\* detachImplicitFromPool, which gives up at its limit, and the end of the
\* reservation.
LeavePool(r, status) ==
  pool' = [pool EXCEPT ![on[r]] =
             [status |-> status, by |-> Nobody,
              detached |-> Cardinality(Detached(pool)) < DetachedLimit]]

Start(r) ==
  /\ stage[r] = "starting" /\ Has(r)
  /\ IF r \in Background
     THEN LeavePool(r, "running") /\ Goto(r, "ended")
     ELSE /\ pool' = [pool EXCEPT ![on[r]].status = "running"]
          /\ Goto(r, "running")
  /\ Notify
  /\ UNCHANGED <<waiters, on, cancelled, closes>>

\* The execution is disposed of, its shell does not start, or its terminal
\* is gone.
DoesNotStart(r) ==
  /\ stage[r] = "starting"
  /\ pool' = IF Has(r) THEN [pool EXCEPT ![on[r]].by = Nobody] ELSE pool
  /\ Notify
  /\ Goto(r, "ended")
  /\ UNCHANGED <<waiters, on, cancelled, closes>>

\* The caller stops waiting for its command, or waited long enough.
DetachForeground(r) ==
  /\ stage[r] = "running" /\ Has(r) /\ pool[on[r]].status = "running"
  /\ LeavePool(r, "running")
  /\ Notify
  /\ Goto(r, "ended")
  /\ UNCHANGED <<waiters, on, cancelled, closes>>

\* trimIdleImplicitChannels: idle terminals are closed, oldest first, until
\* the pool has its size.
Trimmed(p) ==
  LET over == Cardinality(Pooled(p)) - PoolSize
      count == Max({0, Min({over, Cardinality(Idle(p))})})
  IN  {[t \in Terminals |-> IF t \in gone THEN Closed ELSE p[t]] :
         gone \in kSubset(count, Idle(p))}

\* finishActive.  The head of the queue is woken before the pool is trimmed.
CommandEnds(t) ==
  /\ pool[t].status = "running"
  /\ LET rejoined == [pool EXCEPT ![t].status = "idle", ![t].detached = FALSE]
     IN  /\ pool' \in Trimmed(rejoined)
         /\ tickets' = Pump(waiters, Pump(waiters, tickets, rejoined), pool')
  /\ UNCHANGED <<waiters, stage, on, cancelled, closes>>

\* The call returns, and with it the reservation.
Return(r) ==
  /\ stage[r] = "running" /\ ~(Has(r) /\ pool[on[r]].status = "running")
  /\ pool' = IF Has(r) THEN [pool EXCEPT ![on[r]].by = Nobody] ELSE pool
  /\ Notify
  /\ Goto(r, "ended")
  /\ UNCHANGED <<waiters, on, cancelled, closes>>

\* closeTerminals, or the shell exits.
Close(t) ==
  /\ pool[t].status # "closed" /\ closes < MaxCloses
  /\ closes' = closes + 1
  /\ pool' = [pool EXCEPT ![t] = Closed]
  /\ Notify
  /\ UNCHANGED <<waiters, stage, on, cancelled>>

Next ==
  \/ \E r \in Requests :
       \/ Call(r) \/ CallTargeted(r) \/ Admitted(r) \/ WaitsAgain(r)
       \/ Cancel(r) \/ TimeOut(r) \/ Start(r) \/ DoesNotStart(r)
       \/ DetachForeground(r) \/ Return(r)
  \/ \E t \in Terminals : CommandEnds(t) \/ Close(t)

Spec == Init /\ [][Next]_vars

-----------------------------------------------------------------------------
\* No wake-up is lost: whoever is first in the queue and could be admitted
\* has its ticket, whichever of the many ways made room.
\* (notifyAdmission, pump)
RoomIsOffered ==
  waiters # <<>> /\ CanAdmit(Head(waiters), pool) => Head(waiters) \in tickets
=============================================================================
