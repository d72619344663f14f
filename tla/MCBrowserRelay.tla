--------------------------- MODULE MCBrowserRelay ---------------------------
(***************************************************************************)
(* BrowserRelay for TLC on two instances, whose state graphs lie side by   *)
(* side: a single tab that is scheduled fairly, and two tabs with limits   *)
(* of one and a connection that lingers.                                   *)
(***************************************************************************)
EXTENDS BrowserRelay

CONSTANTS t1, t2

VARIABLE instance

Several == INSTANCE BrowserRelay WITH
  Tabs <- {t1, t2},
  ReplayLimit <- 1,
  QueueLimit <- 1,
  WireLimit <- 1,
  MaxSequence <- 3,
  MaxAnswer <- 3,
  MaxFaults <- 1,
  MaxLingering <- 1

OneTab == instance = "one tab"

EitherInit ==
  \/ instance = "one tab" /\ Init
  \/ instance = "several tabs" /\ Several!Init

EitherNext ==
  /\ IF OneTab THEN Next ELSE Several!Next
  /\ UNCHANGED instance

\* The fairness of BrowserRelay, for the single tab.
EitherSpec ==
  /\ EitherInit /\ [][EitherNext]_<<vars, instance>>
  /\ WF_vars(OneTab /\ OwnerAnswers)
  /\ WF_vars(OneTab /\ StreamOpens)
  /\ \A t \in Tabs :
       /\ WF_vars(OneTab /\ Connect(t))
       /\ WF_vars(OneTab /\ HandleSubscription(t))
       /\ WF_vars(OneTab /\ SubscriptionGranted(t))
       /\ WF_vars(OneTab /\ ResyncCompleted(t))
       /\ WF_vars(OneTab /\ Receive(t))
       /\ WF_vars(OneTab /\ Drain(t))

-----------------------------------------------------------------------------
\* A single tab comes to show the last published state when changes and
\* faults stop.  (reconnect, installCompaction)
OneTabConverges == OneTab => TabsConverge
=============================================================================
