---------------------------- MODULE ExclusiveUse ----------------------------
(***************************************************************************)
(* What a lock promises its callers: an operation begins when no other     *)
(* one is under way, and it is under way until it settles or its process   *)
(* dies.                                                                   *)
(***************************************************************************)
EXTENDS FiniteSets

CONSTANT Callers

VARIABLE running

TypeOK == running \subseteq Callers

Init == running = {}

Begin(c) == running = {} /\ running' = {c}

End == running' = {}

Next == End \/ \E c \in Callers : Begin(c)

Spec == Init /\ [][Next]_running
=============================================================================
