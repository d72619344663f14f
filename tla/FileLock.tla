------------------------------- MODULE FileLock -------------------------------
(***************************************************************************)
(* withFileLock and withFileLocks: edits of files wait for each other.     *)
(* Per path the map pathLocks holds the promise of the edit that came      *)
(* last; a newcomer puts its own promise there and waits for the one it    *)
(* found.  An edit of several files takes their locks one inside the       *)
(* other, in sorted order.  Whoever waits too long gives up; the locks it  *)
(* already holds are released on its way out.                              *)
(*                                                                         *)
(* Locks that are free are taken one step at a time; the code takes them   *)
(* in one go, which is one of the orders.                                  *)
(***************************************************************************)
EXTENDS Naturals, Sequences, FiniteSetsExt

CONSTANTS
  Edits,       \* calls of withFileLocks, each made once
  Wanted,      \* the sequence of paths, as numbers, that each edit names
  Impatient,   \* the edits that may wait longer than LOCK_TIMEOUT
  NoEdit

VARIABLES
  pathLocks,   \* the edit whose promise a path has in the map
  resolved,    \* the promises that are resolved, <<edit, path>>
  stage,       \* where an edit stands: idle, asking, waiting, ...
  held,        \* the paths it holds
  ahead,       \* the edit whose promise it waits for
  abandoned    \* history: the paths a waiting edit gave up on

vars == <<pathLocks, resolved, stage, held, ahead, abandoned>>

Names(e) == {Wanted[e][i] : i \in DOMAIN Wanted[e]}
Paths == UNION {Names(e) : e \in Edits}

Init ==
  /\ pathLocks = [p \in Paths |-> NoEdit]
  /\ resolved = {}
  /\ stage = [e \in Edits |-> "idle"]
  /\ held = [e \in Edits |-> {}]
  /\ ahead = [e \in Edits |-> NoEdit]
  /\ abandoned = {}

Missing(e) == Names(e) \ held[e]

NextPathAsNamed(e) == CHOOSE p \in Missing(e) :
  \E i \in DOMAIN Wanted[e] :
    Wanted[e][i] = p /\ \A j \in 1 .. i - 1 : Wanted[e][j] \in held[e]

\* Duplicates are dropped, the rest is sorted.
NextPath(e) == Min(Missing(e))
LastPath(e) == Max(held[e])
Goto(e, s) == stage' = [stage EXCEPT ![e] = s]

Begin(e) ==
  /\ stage[e] = "idle"
  /\ Goto(e, "asking")
  /\ UNCHANGED <<pathLocks, resolved, held, ahead, abandoned>>

Ask(e) ==
  /\ stage[e] = "asking" /\ Missing(e) # {}
  /\ pathLocks' = [pathLocks EXCEPT ![NextPath(e)] = e]
  /\ IF pathLocks[NextPath(e)] = NoEdit
     THEN /\ held' = [held EXCEPT ![e] = @ \cup {NextPath(e)}]
          /\ UNCHANGED <<stage, ahead>>
     ELSE /\ ahead' = [ahead EXCEPT ![e] = pathLocks[NextPath(e)]]
          /\ Goto(e, "waiting")
          /\ UNCHANGED held
  /\ UNCHANGED <<resolved, abandoned>>

\* The promise it waits for is resolved, whoever resolved it.
Proceed(e) ==
  /\ stage[e] = "waiting" /\ <<ahead[e], NextPath(e)>> \in resolved
  /\ held' = [held EXCEPT ![e] = @ \cup {NextPath(e)}]
  /\ ahead' = [ahead EXCEPT ![e] = NoEdit]
  /\ Goto(e, "asking")
  /\ UNCHANGED <<pathLocks, resolved, abandoned>>

Run(e) ==
  /\ stage[e] = "asking" /\ Missing(e) = {}
  /\ Goto(e, "editing")
  /\ UNCHANGED <<pathLocks, resolved, held, ahead, abandoned>>

ResolvesForAll(e, p) ==
  /\ resolved' = resolved \cup {<<e, p>>}
  /\ pathLocks' = [pathLocks EXCEPT ![p] = NoEdit]

ResolvesOnly(e, p) ==
  /\ resolved' = resolved \cup {<<e, p>>}
  /\ UNCHANGED pathLocks

\* releaseLock, and the key goes if no later edit put its promise there.
Resolves(e, p) ==
  /\ resolved' = resolved \cup {<<e, p>>}
  /\ pathLocks' = IF pathLocks[p] = e THEN [pathLocks EXCEPT ![p] = NoEdit]
                  ELSE pathLocks

TimeOut(e) ==
  /\ stage[e] = "waiting" /\ e \in Impatient
  /\ Resolves(e, NextPath(e))
  /\ abandoned' = abandoned \cup {NextPath(e)}
  /\ ahead' = [ahead EXCEPT ![e] = NoEdit]
  /\ Goto(e, "leaving")
  /\ UNCHANGED held

Finish(e) ==
  /\ stage[e] = "editing"
  /\ Goto(e, "leaving")
  /\ UNCHANGED <<pathLocks, resolved, held, ahead, abandoned>>

\* The finally blocks, from the innermost lock outwards.
Release(e) ==
  /\ stage[e] = "leaving" /\ held[e] # {}
  /\ Resolves(e, LastPath(e))
  /\ held' = [held EXCEPT ![e] = @ \ {LastPath(e)}]
  /\ UNCHANGED <<stage, ahead, abandoned>>

Leave(e) ==
  /\ stage[e] = "leaving" /\ held[e] = {}
  /\ Goto(e, "gone")
  /\ UNCHANGED <<pathLocks, resolved, held, ahead, abandoned>>

Step(e) == Ask(e) \/ Proceed(e) \/ Run(e) \/ Finish(e) \/ Release(e) \/ Leave(e)

Next == \E e \in Edits : Begin(e) \/ Step(e) \/ TimeOut(e)

Spec == Init /\ [][Next]_vars

-----------------------------------------------------------------------------
\* Two edits never hold one path together, whatever the order in which
\* promises are chained and released, unless a waiting edit gave up on that
\* path.  (withFileLock)
OneEditPerPath ==
  \A p \in Paths \ abandoned : \A e, d \in Edits :
    p \in held[e] \cap held[d] => e = d

\* When no edit is under way the map is empty: a key whose edit failed or
\* gave up is not left behind for later edits to wait on.  (withFileLock)
NothingLeftLocked ==
  (\A e \in Edits : stage[e] \in {"idle", "gone"}) =>
    \A p \in Paths : pathLocks[p] = NoEdit

\* Edits of overlapping sets of files never wait for each other in a
\* circle: every edit ends, without anybody giving up.  (withFileLocks: "in
\* stable order to avoid cross-edit deadlocks")
EveryEditEnds == <>[](\A e \in Edits : stage[e] \in {"idle", "gone"})
=============================================================================
