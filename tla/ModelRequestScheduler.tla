------------------------ MODULE ModelRequestScheduler ------------------------
(***************************************************************************)
(* ModelRequestScheduler: admission of model requests to one provider.     *)
(* acquire hands out a permit at once or queues the request; a permit that *)
(* is released, and a limit that is raised, let queued requests in, by     *)
(* priority and then in order of arrival.  Maintenance gets in only while  *)
(* the provider is idle and nothing else waits.                            *)
(*                                                                         *)
(* One provider: its queue is its own, and only the limit is shared.  The  *)
(* listeners of an abort signal run one after the other: a request may     *)
(* still be queued although its signal is aborted, while an earlier        *)
(* listener releases a permit.                                             *)
(***************************************************************************)
EXTENDS Naturals, Sequences, FiniteSets, Selection

CONSTANTS
  Requests,      \* requests, each of which may be made again
  Priority,      \* their priorities
  Abortable,     \* those that carry an abort signal
  Limits         \* values setMaxConcurrentPerProvider may be called with

VARIABLES
  limit,     \* maxConcurrentPerProvider
  active,    \* the requests that hold a permit
  pending,   \* the queued ones, in order of arrival
  aborted    \* queued requests whose signal is aborted

vars == <<limit, active, pending, aborted>>

Init ==
  /\ limit \in Limits
  /\ active = {}
  /\ pending = <<>>
  /\ aborted = {}

Queued(queue) == {queue[i] : i \in DOMAIN queue}

Position(r, queue) == CHOOSE i \in DOMAIN queue : queue[i] = r

Without(queue, gone) == Selected(queue, {i \in DOMAIN queue : queue[i] \notin gone})

Of(priority) == {r \in Requests : Priority[r] = priority}

CanAdmit(r, running, waiting, max) ==
  /\ Cardinality(running) < max
  /\ r \in Of("maintenance") => running = {} /\ waiting \subseteq Of("maintenance")

\* PRIORITY_ORDER
Before(r, k) ==
  LET rank == [interactive |-> 0, background |-> 1, maintenance |-> 2]
  IN  rank[Priority[r]] < rank[Priority[k]]

AheadByArrival(r, queue) == {k \in Queued(queue) : Position(k, queue) < Position(r, queue)}

AheadOfInteractive(r, queue) ==
  LET rank == [interactive |-> 1, background |-> 0, maintenance |-> 2]
  IN  {k \in Queued(queue) :
         \/ rank[Priority[k]] < rank[Priority[r]]
         \/ Priority[k] = Priority[r] /\ Position(k, queue) < Position(r, queue)}

\* Those that drain looks at before it looks at r.
Ahead(r, queue) ==
  {k \in Queued(queue) :
     \/ Before(k, r)
     \/ Priority[k] = Priority[r] /\ Position(k, queue) < Position(r, queue)}

\* drain goes on to r if it could admit each one ahead of it, and takes r if
\* it can admit it beside those; whose signal is aborted is dropped when its
\* turn comes.
Taken(running, queue, max) ==
  {r \in Queued(queue) : \A k \in Ahead(r, queue) \cup {r} :
     CanAdmit(k, running \cup (Ahead(k, queue) \ aborted), Queued(queue) \ Ahead(k, queue), max)}

Drain(running, queue) ==
  LET taken == Taken(running, queue, limit')
  IN  /\ active' = running \cup (taken \ aborted)
      /\ pending' = Without(queue, taken)
      /\ aborted' = aborted \ taken

Acquire(r) ==
  /\ r \notin active \cup Queued(pending)
  /\ IF CanAdmit(r, active, Queued(pending), limit)
     THEN active' = active \cup {r} /\ UNCHANGED pending
     ELSE pending' = Append(pending, r) /\ UNCHANGED active
  /\ UNCHANGED <<limit, aborted>>

Release(r) ==
  /\ r \in active
  /\ UNCHANGED limit
  /\ Drain(active \ {r}, pending)

SetMaxConcurrentOnly(max) ==
  /\ max # limit
  /\ limit' = max
  /\ UNCHANGED <<active, pending, aborted>>

SetMaxConcurrent(max) ==
  /\ max # limit
  /\ limit' = max
  /\ Drain(active, pending)

Abort(r) ==
  /\ r \in (Abortable \cap Queued(pending)) \ aborted
  /\ aborted' = aborted \cup {r}
  /\ UNCHANGED <<limit, active, pending>>

\* Nobody is admitted in its place: it held no permit.
OnAbort(r) ==
  /\ r \in aborted
  /\ pending' = Without(pending, {r})
  /\ aborted' = aborted \ {r}
  /\ UNCHANGED <<limit, active>>

Next ==
  \/ \E r \in Requests : Acquire(r) \/ Release(r) \/ Abort(r) \/ OnAbort(r)
  \/ \E max \in Limits : SetMaxConcurrent(max)

Spec == Init /\ [][Next]_vars

-----------------------------------------------------------------------------
\* No wake-up is lost: while requests wait the provider is busy, and while
\* any of them is more than maintenance it is busy up to the limit, although
\* an abort lets nobody in and the limit changes.  (release, drain, onAbort)
WaitingMeansBusy ==
  /\ pending # <<>> => active # {}
  /\ ~(Queued(pending) \subseteq Of("maintenance")) => Cardinality(active) >= limit

\* Whoever gets a permit, newly come or from the queue, leaves nobody of a
\* higher priority waiting, and nobody of its own who came before.  (drain,
\* acquire: newcomers do not look at the queue)
AdmittedInOrder ==
  [][\A r \in active' \ active : \A k \in Queued(pending') :
       /\ ~Before(k, r)
       /\ Priority[k] = Priority[r] /\ r \in Queued(pending) =>
            Position(r, pending) < Position(k, pending)
       /\ Priority[k] = Priority[r] => r \in Queued(pending)]_vars

\* An interactive request does not starve: it is admitted or aborted,
\* whatever arrives after it and however the limit changes.
InteractiveServed ==
  \A r \in Of("interactive") : r \in Queued(pending) ~> r \notin Queued(pending)
=============================================================================
