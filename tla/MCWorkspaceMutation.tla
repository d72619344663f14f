------------------------ MODULE MCWorkspaceMutation ------------------------
(***************************************************************************)
(* WorkspaceMutation for TLC: what the children own, and what a behaviour  *)
(* may have of reverts, questions, stops, restarts and writers.            *)
(***************************************************************************)
EXTENDS WorkspaceMutation

CONSTANTS c1, c2, f1, f2

\* A delegated writer and an unrestricted one.
OwnedMixed == [s \in Sessions |-> IF s = c1 THEN {f1} ELSE {}]

\* Two delegated writers that do not meet.
OwnedApart ==
    [s \in Sessions |-> CASE s = c1 -> {f1} [] s = c2 -> {f2} [] OTHER -> {}]

\* Two delegated writers that do.
OwnedOverlapping ==
    [s \in Sessions |-> CASE s = c1 -> {f1} [] s = c2 -> {f1, f2} [] OTHER -> {}]

Budget(reverts, asks, stops, restarts, writers) ==
    [reverts |-> reverts, asks |-> asks, stops |-> stops, restarts |-> restarts,
     writers |-> writers]

StopOrRestart == {Budget(1, 0, 1, 0, Children), Budget(1, 1, 0, 1, {c1})}
OneRevert == {Budget(1, 0, 0, 0, Children)}
OneStop == {Budget(0, 0, 1, 0, Children)}
OneRestart == {Budget(1, 0, 0, 1, Children)}
=============================================================================
