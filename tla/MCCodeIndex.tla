----------------------------- MODULE MCCodeIndex -----------------------------
(***************************************************************************)
(* CodeIndexPublication for TLC on three instances, whose state graphs lie *)
(* side by side: one worker with two files and one fault, one worker with  *)
(* one file and two faults, and two workers whose lease may lapse.         *)
(***************************************************************************)
EXTENDS CodeIndexPublication

CONSTANTS w1, w2, f1, f2

VARIABLE instance

Twice == INSTANCE CodeIndexPublication WITH
  Files <- {f1}, Edits <- 2, Faults <- 2

Pair == INSTANCE CodeIndexPublication WITH
  Files <- {f1}, Workers <- {w1, w2}, Edits <- 2, Updates <- 0,
  Rebuilds <- 0, Touches <- 1, Faults <- 0, Lapses <- 1

Once == instance = "one fault"

AnyInit ==
  \/ instance = "one fault" /\ Init
  \/ instance = "two faults" /\ Twice!Init
  \/ instance = "two workers" /\ Pair!Init

AnyNext ==
  /\ CASE Once -> Next
       [] instance = "two faults" -> Twice!Next
       [] OTHER -> Pair!Next
  /\ UNCHANGED instance

\* The fairness of CodeIndexPublication, for one worker and one fault.
AnySpec ==
  /\ AnyInit /\ [][AnyNext]_<<vars, instance>>
  /\ \A w \in Workers :
       WF_vars(Once /\ Step(w)) /\ WF_vars(Once /\ StartFull(w, FALSE))

-----------------------------------------------------------------------------
\* Unless only a forced job can help, the index of one worker ends up showing
\* the workspace, after at most one fault.  (handleStart)
OneFaultConverges == <>[](Once => ShowsTheTree \/ resetting)
=============================================================================
