--------------------------- MODULE MCOwnerCommands ---------------------------
(***************************************************************************)
(* OwnerCommands for TLC on two instances, whose state graphs lie side by  *)
(* side: small deduplication tables and two owner processes, where nothing *)
(* but the deadline timers is fair; and a single owner process with room   *)
(* for both commands, where the event loops, the heartbeat and requests on *)
(* their way are fair.  Breaks, lapses, losses, restarts and new commands  *)
(* are never fair, and in the second instance deadlines are not either.    *)
(***************************************************************************)
EXTENDS OwnerCommands

VARIABLE instance

Serving == INSTANCE OwnerCommands WITH
    HelperRecords <- 2, MaxGenerations <- 1, MaxFaults <- 1

Small == instance = "small tables"

EitherInit ==
    \/ instance = "small tables" /\ Init
    \/ instance = "one owner" /\ Serving!Init

EitherNext ==
    /\ IF Small THEN Next ELSE Serving!Next
    /\ UNCHANGED instance

EitherSpec ==
    /\ EitherInit /\ [][EitherNext]_<<vars, instance>>
    /\ \A o \in Operations :
        /\ WF_vars(Small /\ DeadlinePasses(o))
        /\ WF_vars(Small /\ ExpireOperation(o))
    /\ WF_vars(~Small /\ Serving!OwnerNext)
    /\ WF_vars(~Small /\ Serving!Deliver)
    /\ WF_vars(~Small /\ Serving!PostAgain)
    /\ WF_vars(~Small /\ Serving!Heartbeat)
    /\ WF_vars(~Small /\ Serving!OpenStream)

-----------------------------------------------------------------------------
\* With the deadline timers alone every accepted operation is reported with a
\* verdict, even if the owner hangs or dies.  (expireOperation)
TimersSettle ==
    \A o \in Operations :
        Small /\ Reported(o) = "accepted" ~> Reported(o) # "accepted"

\* The command loop of a live owner starts every accepted command, unless it
\* is judged or its deadline passes first.  (runCommandLoop, dispatchCommand)
EveryCommandStarts ==
    \A o \in Operations :
        ~Small /\ Reported(o) = "accepted" ~>
            starts[o] > 0 \/ Reported(o) # "accepted" \/ o \in due \/ ~owner.alive
=============================================================================
