----------------------- MODULE WorkspaceMutationProofs -----------------------
(***************************************************************************)
(* What the lease queue and a revert promise, for any number of sessions,  *)
(* any owned paths and any bounds.                                         *)
(*                                                                         *)
(* Every step of the system is one of six moves of the queue, and each of  *)
(* them keeps the leases apart and serves intersecting requests in order.  *)
(* A revert does not undo what another session wrote since its checkpoint, *)
(* it restores files while no tool changes any, and within an epoch it is  *)
(* not refused for nothing.                                                *)
(***************************************************************************)
EXTENDS WorkspaceMutation, TLAPS

-----------------------------------------------------------------------------
(* The moves of the queue.                                                 *)

Mark == \E h \in active : marked' = marked \cup {h} /\ UNCHANGED <<waiting, ahead, active>>
Reset ==
    waiting' = {} /\ ahead' = [h \in Holders |-> {}] /\ active' = {} /\ marked' = {}

LeaseMove ==
    \/ UNCHANGED leases
    \/ \E h \in Holders : Acquire(h)
    \/ \E hs \in SUBSET Holders : Release(hs)
    \/ \E hs \in SUBSET Holders : Abort(hs)
    \/ Mark
    \/ Reset

\* Of two requests that wait, one was there before the other.
Ordered(w, before) == \A h, k \in w : h # k => h \in before[k] \/ k \in before[h]

Apart(held) ==
    \A h, k \in held : h # k =>
        /\ ~Exclusive(h) /\ ~Exclusive(k)
        /\ Delegated(h) \/ Delegated(k)
        /\ Owned[h[1]] \cap Owned[k[1]] = {}

LeaseTypes ==
    /\ waiting \subseteq Holders /\ ahead \in [Holders -> SUBSET Holders]
    /\ active \subseteq Holders /\ marked \subseteq active

LeaseInv == LeaseTypes /\ Ordered(waiting, ahead) /\ Apart(active)

\* Two requests that do not intersect may both be granted.
LEMMA DisjointIsApart ==
    ASSUME NEW h, NEW k, ~Intersects(h, k)
    PROVE  /\ ~Exclusive(h) /\ ~Exclusive(k)
           /\ Delegated(h) \/ Delegated(k)
           /\ Owned[h[1]] \cap Owned[k[1]] = {}
  BY DEF Intersects, Exclusive, Delegated

\* Intersecting is symmetric.
LEMMA IntersectsSymmetric ==
    ASSUME NEW h, NEW k, ~Intersects(h, k)
    PROVE  ~Intersects(k, h)
  BY DEF Intersects

\* A drain of an ordered queue beside leases that are apart leaves an
\* ordered queue and leases that are apart.
LEMMA DrainKeeps ==
    ASSUME NEW w \in SUBSET Holders, NEW before \in [Holders -> SUBSET Holders],
           NEW held \in SUBSET Holders,
           Ordered(w, before), Apart(held), Drain(w, before, held)
    PROVE  LeaseInv'
<1> DEFINE granted == Grantable(w, before, held)
<1>1. /\ waiting' = w \ granted
      /\ ahead' = [h \in Holders |-> IF h \in w \ granted THEN before[h] \ granted ELSE {}]
      /\ active' = held \cup granted
      /\ marked' = marked \cap held
  BY DEF Drain
<1>2. granted \subseteq w
  BY DEF Grantable
<1> HIDE DEF granted
<1>3. LeaseTypes'
  BY <1>1, <1>2 DEF LeaseTypes
<1>4. Ordered(waiting, ahead)'
  BY <1>1, <1>2 DEF Ordered
<1>5. ASSUME NEW h \in granted, NEW k \in held \cup granted, h # k
      PROVE  ~Intersects(h, k)
  <2>1. CASE k \in held
    BY <2>1 DEF granted, Grantable
  <2>2. CASE k \in granted
    <3>1. h \in before[k] \/ k \in before[h]
      BY <1>2, <1>5, <2>2 DEF Ordered
    <3>2. (k \in before[h] => ~Intersects(h, k)) /\ (h \in before[k] => ~Intersects(k, h))
      BY <2>2 DEF granted, Grantable
    <3> QED
      BY <3>1, <3>2, IntersectsSymmetric
  <2> QED
    BY <1>5, <2>1, <2>2
<1>6. Apart(active)'
  <2> SUFFICES ASSUME NEW h \in held \cup granted, NEW k \in held \cup granted, h # k
               PROVE  /\ ~Exclusive(h) /\ ~Exclusive(k)
                      /\ Delegated(h) \/ Delegated(k)
                      /\ Owned[h[1]] \cap Owned[k[1]] = {}
    BY <1>1 DEF Apart, Exclusive, Delegated
  <2>1. CASE h \in held /\ k \in held
    BY <2>1 DEF Apart
  <2>2. CASE h \in granted \/ k \in granted
    <3>1. ~Intersects(h, k)
      BY <1>5, <2>2, IntersectsSymmetric
    <3> QED
      BY <3>1, DisjointIsApart
  <2> QED
    BY <2>1, <2>2
<1> QED
  BY <1>3, <1>4, <1>6 DEF LeaseInv

LEMMA MovesKeepLeaseInv ==
    ASSUME LeaseInv, LeaseMove
    PROVE  LeaseInv'
<1> USE DEF LeaseInv, LeaseTypes
<1>1. CASE UNCHANGED leases
  BY <1>1 DEF leases, Ordered, Apart, Exclusive, Delegated
<1>2. ASSUME NEW h \in Holders, Acquire(h)
      PROVE  LeaseInv'
  <2>1. [ahead EXCEPT ![h] = waiting] \in [Holders -> SUBSET Holders]
    OBVIOUS
  <2>2. Ordered(waiting \cup {h}, [ahead EXCEPT ![h] = waiting])
    BY <1>2 DEF Ordered
  <2>3. Drain(waiting \cup {h}, [ahead EXCEPT ![h] = waiting], active)
    BY <1>2 DEF Acquire
  <2>4. waiting \cup {h} \in SUBSET Holders
    BY <1>2
  <2> HIDE DEF LeaseInv
  <2> QED
    BY <2>1, <2>2, <2>3, <2>4, DrainKeeps DEF LeaseInv
<1>3. ASSUME NEW hs \in SUBSET Holders, Release(hs)
      PROVE  LeaseInv'
  <2>1. CASE hs \cap active = {}
    BY <1>1, <1>3, <2>1 DEF Release
  <2>2. CASE hs \cap active # {}
    <3>1. Drain(waiting, ahead, active \ hs)
      BY <1>3, <2>2 DEF Release
    <3>2. Apart(active \ hs)
      BY DEF Apart
    <3> QED
      BY <3>1, <3>2, DrainKeeps
  <2> QED
    BY <2>1, <2>2
<1>4. ASSUME NEW hs \in SUBSET Holders, Abort(hs)
      PROVE  LeaseInv'
  BY <1>4 DEF Abort, Ordered, Apart, Exclusive, Delegated
<1>5. CASE Mark
  BY <1>5 DEF Mark, Ordered, Apart, Exclusive, Delegated
<1>6. CASE Reset
  BY <1>6 DEF Reset, Ordered, Apart
<1> QED
  BY <1>1, <1>2, <1>3, <1>4, <1>5, <1>6 DEF LeaseMove

-----------------------------------------------------------------------------
(* Every step is one of these moves.                                       *)

\* A stop takes requests of the stopped sessions out of the queue.
LEMMA StopMoves ==
    ASSUME NEW ss, waiting \subseteq Holders, Stop(ss)
    PROVE  LeaseMove
<1> DEFINE hs == Listening({s \in ss : phase[s] \notin {"idle", "closed"}})
<1>1. Abort(hs)
  BY DEF Stop
<1>2. hs \in SUBSET Holders
  BY DEF Listening
<1> QED
  BY <1>1, <1>2 DEF LeaseMove

\* A turn, a capture or a revert of a session is a holder of leases.
LEMMA HoldersOf ==
    ASSUME NEW s \in Sessions
    PROVE  /\ <<s, "turn">> \in Holders /\ <<s, "capture">> \in Holders
           /\ <<s, "revert">> \in Holders
  BY DEF Holders, Uses

LEMMA RootIsSession == Root \in Sessions
  BY DEF Sessions

LEMMA RootStepMoves ==
    ASSUME RootStep
    PROVE  LeaseMove
<1>1. \A use \in Uses : <<Root, use>> \in Holders /\ {<<Root, use>>} \in SUBSET Holders
  BY RootIsSession DEF Holders
<1>2. "turn" \in Uses /\ "capture" \in Uses /\ "revert" \in Uses
  BY DEF Uses
<1>3. ASSUME NEW for, StartTurn(for)
      PROVE  LeaseMove
  BY <1>1, <1>2, <1>3 DEF StartTurn, LeaseMove
<1>4. CASE UserTurn
  BY <1>3, <1>4 DEF UserTurn
<1>5. CASE CoordinatorTurn
  BY <1>3, <1>5 DEF CoordinatorTurn
<1>6. CASE RequestCapture
  BY <1>1, <1>2, <1>6 DEF RequestCapture, LeaseMove
<1>7. CASE BeginCapture
  BY <1>7 DEF BeginCapture, LeaseMove
<1>8. CASE EndCapture
  BY <1>1, <1>2, <1>8 DEF EndCapture, LeaseMove
<1>9. CASE FirstTurn
  BY <1>9 DEF FirstTurn, LeaseMove
<1>10. CASE Finish
  BY <1>10 DEF Finish, LeaseMove
<1>11. CASE RequestRevert
  BY <1>1, <1>2, <1>11 DEF RequestRevert, LeaseMove
<1>12. CASE JudgeRevert
  BY <1>1, <1>2, <1>12 DEF JudgeRevert, LeaseMove
<1>13. CASE EndRevert
  BY <1>1, <1>2, <1>13 DEF EndRevert, LeaseMove
<1> QED
  BY <1>4, <1>5, <1>6, <1>7, <1>8, <1>9, <1>10, <1>11, <1>12, <1>13 DEF RootStep

LEMMA ChildStepMoves ==
    ASSUME NEW c \in Children, ChildStep(c)
    PROVE  LeaseMove
<1>1. <<c, "turn">> \in Holders
  BY HoldersOf DEF Sessions
<1>2. CASE Launch(c)
  BY <1>1, <1>2 DEF Launch, LeaseMove
<1>3. CASE Interject(c) \/ Answer(c) \/ Spawn(c) \/ Ask(c) \/ Complete(c)
  BY <1>3 DEF Interject, Answer, Spawn, Ask, Complete, LeaseMove
<1> QED
  BY <1>2, <1>3 DEF ChildStep

LEMMA SessionStepMoves ==
    ASSUME NEW s \in Sessions, SessionStep(s)
    PROVE  LeaseMove
<1>1. <<s, "turn">> \in Holders /\ {<<s, "turn">>} \in SUBSET Holders
  BY HoldersOf
<1>2. CASE EndTurn(s)
  BY <1>1, <1>2 DEF EndTurn, LeaseMove
<1>3. CASE PrepareMutation(s)
  <2>1. CASE Marks(s)
    <3>1. <<s, "turn">> \in active
      BY <1>3 DEF PrepareMutation, MayWrite
    <3>2. Mark
      BY <1>3, <2>1, <3>1 DEF PrepareMutation, Mark
    <3> QED
      BY <3>2 DEF LeaseMove
  <2>2. CASE ~Marks(s)
    BY <1>3, <2>2 DEF PrepareMutation, LeaseMove, leases
  <2> QED
    BY <2>1, <2>2
<1>4. CASE TurnLeased(s) \/ BeginWrite(s) \/ EndWrite(s) \/ OrphanWrites(s) \/ OrphanEnds(s)
  BY <1>4 DEF TurnLeased, BeginWrite, EndWrite, OrphanWrites, OrphanEnds, LeaseMove
<1> QED
  BY <1>2, <1>3, <1>4 DEF SessionStep

LEMMA StepMoves ==
    ASSUME LeaseInv, [Next]_vars
    PROVE  LeaseMove
<1>1. waiting \subseteq Holders
  BY DEF LeaseInv, LeaseTypes
<1>2. CASE UNCHANGED vars
  BY <1>2 DEF vars, LeaseMove
<1>3. CASE Restart
  BY <1>3 DEF Restart, Reset, LeaseMove
<1>4. ASSUME NEW s \in Sessions, SessionStep(s) \/ Stop({s})
      PROVE  LeaseMove
  BY <1>1, <1>4, SessionStepMoves, StopMoves
<1>5. CASE Stop(Sessions)
  BY <1>1, <1>5, StopMoves
<1> QED
  BY <1>2, <1>3, <1>4, <1>5, RootStepMoves, ChildStepMoves DEF Next

-----------------------------------------------------------------------------
(* The theorems.                                                           *)

LEMMA LeaseInvariant == Spec => []LeaseInv
<1>1. Init => LeaseInv
  BY DEF Init, LeaseInv, LeaseTypes, Ordered, Apart
<1>2. LeaseInv /\ [Next]_vars => LeaseInv'
  BY StepMoves, MovesKeepLeaseInv
<1> QED
  BY <1>1, <1>2, PTL DEF Spec

\* No two sessions may ever change the same files: for every tree, every
\* assignment of owned paths and every interleaving of turns, captures,
\* reverts, stops and restarts.
THEOREM LeasesAreApart == Spec => []LeasesApart
<1>1. LeaseInv => LeasesApart
  BY DEF LeaseInv, Apart, LeasesApart
<1> QED
  BY <1>1, LeaseInvariant, PTL

\* A drain grants nothing over an earlier request that still waits.
LEMMA DrainServesInOrder ==
    ASSUME NEW w, NEW before, Drain(w, before, active),
           NEW h \in active' \ active, NEW k \in waiting', k \in before[h]
    PROVE  ~Intersects(h, k)
  BY DEF Drain, Grantable

\* Leases are served first come, first served: whatever the sessions do, no
\* request is granted while an earlier one that intersects it still waits.
THEOREM ServedInOrder == Spec => NoOvertaking
<1>1. ASSUME LeaseInv, [Next]_vars,
             NEW h \in active' \ active, NEW k \in (waiting \cap waiting') \ {h},
             h \in waiting => k \in ahead[h]
      PROVE  ~Intersects(h, k)
  <2>1. LeaseTypes
    BY <1>1 DEF LeaseInv
  <2>2. ASSUME NEW g \in Holders, Acquire(g)
        PROVE  ~Intersects(h, k)
    <3> DEFINE before == [ahead EXCEPT ![g] = waiting]
    <3>1. Drain(waiting \cup {g}, before, active)
      BY <2>2 DEF Acquire
    <3>2. h \in waiting \cup {g}
      BY <3>1 DEF Drain, Grantable
    <3>3. k \in before[h]
      BY <1>1, <2>1, <2>2, <3>2 DEF LeaseTypes
    <3> HIDE DEF before
    <3> QED
      BY <3>1, <3>3, DrainServesInOrder
  <2>3. ASSUME NEW hs \in SUBSET Holders, Release(hs)
        PROVE  ~Intersects(h, k)
    <3>1. Drain(waiting, ahead, active \ hs)
      BY <2>3 DEF Release, leases
    <3> QED
      BY <1>1, <3>1 DEF Drain, Grantable
  <2>4. CASE UNCHANGED leases \/ Mark \/ Reset \/ \E hs \in SUBSET Holders : Abort(hs)
    BY <2>4 DEF leases, Mark, Reset, Abort
  <2> QED
    BY <1>1, <2>2, <2>3, <2>4, StepMoves DEF LeaseMove
<1>2. LeaseInv /\ [Next]_vars =>
        [\A h \in active' \ active : \A k \in (waiting \cap waiting') \ {h} :
            (h \in waiting => k \in ahead[h]) => ~Intersects(h, k)]_vars
  BY <1>1
<1> QED
  BY <1>2, LeaseInvariant, PTL DEF Spec, NoOvertaking

-----------------------------------------------------------------------------
(* Types.                                                                  *)

OtherTypes ==
    /\ epoch \in Nat /\ generation \in Nat /\ latest \in [Sessions -> Nat]
    /\ saved \in [epoch : Nat, roots : BOOLEAN]
    /\ phase \in [Sessions -> {"idle", "spawned", "queued", "opening", "running", "interjected",
                               "asking", "marking", "writing", "closing", "closed"}]
    /\ begun \in BOOLEAN /\ sent \in Sessions /\ coordinating \in Sessions
    /\ heard \subseteq Children /\ orphans \subseteq Sessions \X ToolStages
    /\ capture \in [stage : {"none", "queued", "reading"}, missed : SUBSET Sessions]
    /\ checkpoint \in Checkpoints
    /\ revert \in [stage : {"none", "refused", "queued", "restoring"}, live : BOOLEAN,
                   target : Checkpoints]
    /\ signal \in {"none", "live", "aborted"}
    /\ budget \in BudgetSet

\* A checkpoint stays one, whatever is missed or touched; and so does the
\* one of a revert or a capture.
LEMMA HistoryTypes ==
    ASSUME NEW ss \in SUBSET Sessions, OtherTypes
    PROVE  /\ Missing(checkpoint, ss) \in Checkpoints
           /\ Touched(checkpoint, ss) \in Checkpoints
           /\ revert.target \in Checkpoints
           /\ Missing(revert.target, ss) \in Checkpoints
           /\ Touched(revert.target, ss) \in Checkpoints
           /\ Missing(capture, ss) \in [stage : {"none", "queued", "reading"},
                                        missed : SUBSET Sessions]
  BY DEF OtherTypes, Missing, Touched, Checkpoints

LEMMA SpendTypes ==
    ASSUME NEW what \in {"reverts", "asks", "stops", "restarts"}, OtherTypes, Spend(what)
    PROVE  budget' \in BudgetSet
<1>1. budget \in BudgetSet /\ budget[what] > 0
  BY DEF OtherTypes, Spend
<1>2. budget[what] - 1 \in Nat
  BY <1>1 DEF BudgetSet
<1> QED
  BY <1>1, <1>2 DEF Spend, BudgetSet

LEMMA NoneAreTyped ==
    /\ NoCheckpoint \in Checkpoints
    /\ NoCapture \in [stage : {"none", "queued", "reading"}, missed : SUBSET Sessions]
    /\ NoRevert \in [stage : {"none", "refused", "queued", "restoring"}, live : BOOLEAN,
                     target : Checkpoints]
  BY DEF NoCheckpoint, NoCapture, NoRevert, Checkpoints

LEMMA InitTypes == Init => OtherTypes
<1>1. Root \in Sessions
  BY DEF Sessions
<1>2. ASSUME Init
      PROVE  budget \in BudgetSet
  BY <1>2, BoundsAssumption DEF Init
<1>3. ASSUME Init
      PROVE  OtherTypes
  BY <1>1, <1>2, <1>3, NoneAreTyped DEF Init, OtherTypes
<1> QED
  BY <1>3

LEMMA RootStepTypes ==
    ASSUME OtherTypes, RootStep
    PROVE  OtherTypes'
<1>1. Root \in Sessions /\ Children \subseteq Sessions /\ InProgress \subseteq Sessions
  BY DEF Sessions, InProgress, OtherTypes
<1> USE DEF OtherTypes, leases, counts, user, turns, Move
<1>2. ASSUME NEW for \in Sessions, StartTurn(for)
      PROVE  OtherTypes'
  BY <1>1, <1>2 DEF StartTurn
<1>3. CASE UserTurn
  BY <1>1, <1>2, <1>3 DEF UserTurn
<1>4. CASE CoordinatorTurn
  BY <1>1, <1>2, <1>4 DEF CoordinatorTurn
<1>5. CASE RequestCapture
  BY <1>1, <1>5 DEF RequestCapture
<1>6. CASE BeginCapture
  BY <1>1, <1>6 DEF BeginCapture
<1>7. CASE EndCapture
  <2>1. phase' \in [Sessions -> {"idle", "spawned", "queued", "opening", "running",
                      "interjected", "asking", "marking", "writing", "closing", "closed"}]
        /\ begun' \in BOOLEAN /\ signal' \in {"none", "live", "aborted"}
        /\ revert' \in [stage : {"none", "refused", "queued", "restoring"}, live : BOOLEAN,
                        target : Checkpoints]
    BY <1>1, <1>7 DEF EndCapture, GoOn, Run
  <2>2. checkpoint' \in Checkpoints
    <3>1. capture.missed \cup InProgress \in SUBSET Sessions
      BY <1>1
    <3>2. ASSUME NEW missed \in SUBSET Sessions, NEW b \in BOOLEAN
          PROVE  [exists |-> TRUE, epoch |-> epoch, generation |-> generation,
                  clean |-> b, missed |-> missed, touched |-> {}] \in Checkpoints
      BY <3>2 DEF Checkpoints
    <3>3. CASE UNCHANGED checkpoint
      BY <3>3
    <3>4. CASE checkpoint' = [exists |-> TRUE, epoch |-> epoch, generation |-> generation,
                              clean |-> capture.missed \cup InProgress = {},
                              missed |-> capture.missed \cup InProgress, touched |-> {}]
      <4>1. (capture.missed \cup InProgress = {}) \in BOOLEAN
        OBVIOUS
      <4> QED
        BY <3>1, <3>2, <3>4, <4>1
    <3> QED
      BY <1>7, <3>3, <3>4 DEF EndCapture
  <2> QED
    BY <1>7, <2>1, <2>2, NoneAreTyped DEF EndCapture
<1>8. CASE FirstTurn
  BY <1>1, <1>8 DEF FirstTurn, Run
<1>9. CASE Finish
  BY <1>1, <1>9 DEF Finish
<1>10. CASE RequestRevert
  <2>1. revert' \in [stage : {"none", "refused", "queued", "restoring"}, live : BOOLEAN,
                     target : Checkpoints]
    <3>1. CASE revert' = [NoRevert EXCEPT !.stage = "refused"]
      BY <3>1, NoneAreTyped
    <3>2. CASE revert' = [stage |-> "queued", live |-> signal = "live", target |-> checkpoint]
      <4>1. (signal = "live") \in BOOLEAN
        OBVIOUS
      <4> QED
        BY <3>2, <4>1
    <3> QED
      BY <1>10, <3>1, <3>2 DEF RequestRevert
  <2> QED
    BY <1>10, <2>1, SpendTypes DEF RequestRevert
<1>11. CASE JudgeRevert
  <2>1. checkpoint' \in Checkpoints
    BY <1>1, <1>11, HistoryTypes DEF JudgeRevert
  <2>2. revert' \in [stage : {"none", "refused", "queued", "restoring"}, live : BOOLEAN,
                     target : Checkpoints]
    BY <1>11, NoneAreTyped DEF JudgeRevert
  <2> QED
    <3>1. CASE UNCHANGED counts
      BY <1>11, <2>1, <2>2, <3>1 DEF JudgeRevert
    <3>2. CASE Bump(Root) /\ saved' = [epoch |-> epoch, roots |-> TRUE] /\ UNCHANGED epoch
      <4>1. /\ generation' \in Nat /\ latest' \in [Sessions -> Nat]
            /\ saved' \in [epoch : Nat, roots : BOOLEAN] /\ epoch' \in Nat
        <5>1. generation + 1 \in Nat /\ [epoch |-> epoch, roots |-> TRUE] \in [epoch : Nat, roots : BOOLEAN]
          OBVIOUS
        <5>2. /\ generation' = generation + 1
              /\ latest' = [latest EXCEPT ![Root] = generation + 1]
          BY <3>2 DEF Bump
        <5> QED
          BY <1>1, <3>2, <5>1, <5>2
      <4> QED
        BY <1>1, <1>11, <2>1, <2>2, <4>1 DEF JudgeRevert, Checkpoints
    <3> QED
      BY <1>11, <3>1, <3>2 DEF JudgeRevert
<1>12. CASE EndRevert
  BY <1>12, NoneAreTyped DEF EndRevert
<1> QED
  BY <1>3, <1>4, <1>5, <1>6, <1>7, <1>8, <1>9, <1>10, <1>11, <1>12 DEF RootStep

LEMMA ChildStepTypes ==
    ASSUME OtherTypes, NEW c \in Children, ChildStep(c)
    PROVE  OtherTypes'
<1>1. c \in Sessions /\ Root \in Sessions
  BY DEF Sessions
<1> USE DEF OtherTypes, leases, counts, user, turns, Move
<1>2. CASE Ask(c)
  BY <1>1, <1>2, SpendTypes DEF Ask
<1>3. CASE Interject(c) \/ Answer(c) \/ Spawn(c) \/ Launch(c) \/ Complete(c)
  BY <1>1, <1>3 DEF Interject, Answer, Spawn, Launch, Complete
<1> QED
  BY <1>2, <1>3 DEF ChildStep

\* A write leaves well-typed captures, checkpoints and reverts.
LEMMA WritesTypes ==
    ASSUME OtherTypes, NEW s \in Sessions, Writes(s)
    PROVE  /\ checkpoint' \in Checkpoints
           /\ revert' \in [stage : {"none", "refused", "queued", "restoring"}, live : BOOLEAN,
                           target : Checkpoints]
           /\ capture' \in [stage : {"none", "queued", "reading"}, missed : SUBSET Sessions]
<1>1. {s} \in SUBSET Sessions
  OBVIOUS
<1> QED
  BY <1>1, HistoryTypes DEF Writes, OtherTypes

LEMMA SessionStepTypes ==
    ASSUME OtherTypes, NEW s \in Sessions, SessionStep(s)
    PROVE  OtherTypes'
<1>1. Root \in Sessions /\ {s} \in SUBSET Sessions
  BY DEF Sessions
<1> USE DEF OtherTypes, leases, counts, user, turns, Move
<1>2. CASE PrepareMutation(s)
  <2>1. CASE Marks(s)
    <3>1. checkpoint' \in Checkpoints
      BY <1>1, <1>2, <2>1, HistoryTypes DEF PrepareMutation
    <3>2. revert' \in [stage : {"none", "refused", "queued", "restoring"}, live : BOOLEAN,
                       target : Checkpoints]
      BY <1>1, <1>2, <2>1, HistoryTypes DEF PrepareMutation
    <3> QED
      BY <1>2, <2>1, <3>1, <3>2 DEF PrepareMutation, Bump
  <2>2. CASE ~Marks(s)
    BY <1>2, <2>2, WritesTypes DEF PrepareMutation
  <2> QED
    BY <2>1, <2>2
<1>3. CASE BeginWrite(s)
  BY <1>3, WritesTypes DEF BeginWrite
<1>4. CASE OrphanWrites(s)
  BY <1>4, WritesTypes DEF OrphanWrites, ToolStages
<1>5. CASE TurnLeased(s) \/ EndTurn(s) \/ EndWrite(s) \/ OrphanEnds(s)
  BY <1>1, <1>5 DEF TurnLeased, EndTurn, EndWrite, OrphanEnds
<1> QED
  BY <1>2, <1>3, <1>4, <1>5 DEF SessionStep

LEMMA StopTypes ==
    ASSUME OtherTypes, NEW stopping \in SUBSET Sessions, Stop(stopping)
    PROVE  OtherTypes'
<1> DEFINE ss == {s \in stopping : phase[s] \notin {"idle", "closed"}}
           orphaned == {<<s, phase[s]>> : s \in {s \in ss : phase[s] \in ToolStages}}
           Phases == {"idle", "spawned", "queued", "opening", "running", "interjected",
                      "asking", "marking", "writing", "closing", "closed"}
<1>1. ss \subseteq Sessions /\ orphaned \subseteq Sessions \X ToolStages
  OBVIOUS
<1>2. revert' \in {NoRevert, revert} /\ capture' \in {NoCapture, capture}
  BY DEF Stop
<1>3. \A s \in Sessions : Stopped(s) \in Phases
  BY DEF Stopped, OtherTypes
<1>4. phase' \in [Sessions -> Phases]
  <2>1. DOMAIN phase' = Sessions
        /\ \A s \in Sessions : phase'[s] \in {Stopped(s), "running", phase[s]}
    BY DEF Stop
  <2>2. phase' = [s \in Sessions |-> phase'[s]]
    BY DEF Stop
  <2> QED
    BY <1>3, <2>1, <2>2 DEF OtherTypes
<1>5. /\ orphans' = orphans \cup orphaned /\ heard' = heard \ ss
      /\ signal' \in {"aborted", signal} /\ Spend("stops")
      /\ UNCHANGED <<counts, turns, checkpoint>>
  BY DEF Stop
<1> HIDE DEF ss, orphaned
<1> QED
  BY <1>1, <1>2, <1>4, <1>5, SpendTypes, NoneAreTyped DEF OtherTypes, counts, turns

LEMMA RestartTypes ==
    ASSUME OtherTypes, Restart
    PROVE  OtherTypes'
<1>1. Root \in Sessions
  BY DEF Sessions
<1> QED
  <2>1. saved' \in [epoch : Nat, roots : BOOLEAN] /\ epoch' \in Nat
    <3>1. epoch + 1 \in Nat /\ [epoch |-> epoch + 1, roots |-> FALSE] \in [epoch : Nat, roots : BOOLEAN]
      BY DEF OtherTypes
    <3>2. \/ UNCHANGED <<epoch, saved>>
          \/ /\ epoch' = epoch + 1
             /\ saved' = saved \/ saved' = [epoch |-> epoch + 1, roots |-> FALSE]
      BY DEF Restart
    <3> HIDE DEF OtherTypes
    <3>3. saved \in [epoch : Nat, roots : BOOLEAN] /\ epoch \in Nat
      BY DEF OtherTypes
    <3> QED
      BY <3>1, <3>2, <3>3
  <2>2. /\ generation' \in Nat /\ latest' \in [Sessions -> Nat]
        /\ budget' \in BudgetSet
        /\ UNCHANGED <<begun, checkpoint>>
    BY SpendTypes DEF Restart
  <2> QED
    BY <1>1, <2>1, <2>2, NoneAreTyped DEF Restart, OtherTypes, Checkpoints

LEMMA TypesInvariant == Spec => []OtherTypes
<1>1. ASSUME OtherTypes, [Next]_vars
      PROVE  OtherTypes'
  <2>1. CASE UNCHANGED vars
    BY <1>1, <2>1 DEF OtherTypes, vars, counts, turns, user
  <2>2. ASSUME NEW s \in Sessions, SessionStep(s) \/ Stop({s})
        PROVE  OtherTypes'
    BY <1>1, <2>2, SessionStepTypes, StopTypes
  <2>3. CASE Stop(Sessions)
    BY <1>1, <2>3, StopTypes
  <2> QED
    BY <1>1, <2>1, <2>2, <2>3, RootStepTypes, ChildStepTypes, RestartTypes DEF Next
<1>2. Init => OtherTypes
  BY InitTypes
<1> QED
  BY <1>1, <1>2, PTL DEF Spec

\* Every variable keeps its type.
THEOREM TypeCorrect == Spec => []TypeOK
<1>1. LeaseInv /\ OtherTypes => TypeOK
  BY DEF LeaseInv, LeaseTypes, OtherTypes, TypeOK
<1> QED
  BY <1>1, TypesInvariant, LeaseInvariant, PTL

-----------------------------------------------------------------------------
(***************************************************************************)
(* Reverts.                                                                *)
(*                                                                         *)
(* The gate counts marks and not writes.  The invariant says why that is   *)
(* enough for a checkpoint that was captured while nobody was writing:     *)
(* every write it may lack is of a session whose latest mark is younger,   *)
(* and stays so over a restart, because nothing is written before its mark *)
(* is in the store.                                                        *)
(***************************************************************************)

Captured == {checkpoint, revert.target}

\* A tool of s that has marked, but whose mark is not in the store.
Marking(s) == phase[s] = "marking" \/ <<s, "marking">> \in orphans

\* s is writing, or may write without another mark.
MayWriteOn(s) ==
    \/ phase[s] \in ToolStages
    \/ \E g \in ToolStages : <<s, g>> \in orphans
    \/ Owned[s] = {} /\ <<s, "turn">> \in marked

\* What the gate knows of the checkpoint c.
GateKnows(c) ==
    /\ c.epoch <= epoch
    /\ c.clean /\ c.epoch = epoch =>
        /\ c.generation <= generation
        /\ \A s \in Children : s \in c.missed \/ MayWriteOn(s) => latest[s] > c.generation
        /\ ~saved.roots => c.generation = 0 /\ c.missed \cap Children = {}

\* As long as the store has no mark, there is none but those being saved.
StoreInv ==
    ~saved.roots =>
        /\ generation = 0 \/ \E s \in Sessions : Marking(s)
        /\ \A s \in Sessions : <<s, "turn">> \in marked => phase[s] \in {"marking", "closed"}

GateInv ==
    /\ \A c \in Captured : GateKnows(c)
    /\ \A s \in Children : MayWriteOn(s) => latest[s] > 0
    /\ StoreInv

\* What is proved before.
TypedInv == LeaseInv /\ OtherTypes

-----------------------------------------------------------------------------
(* What the moves of the queue do to the leases that are held.             *)

LEMMA AcquireKeepsLeases ==
    ASSUME LeaseTypes, NEW h, Acquire(h)
    PROVE  active \subseteq active' /\ marked' = marked
  BY DEF LeaseTypes, Acquire, Drain

LEMMA ReleaseKeepsOthers ==
    ASSUME LeaseTypes, NEW hs, Release(hs)
    PROVE  active \ hs \subseteq active' /\ marked' = marked \ hs
<1>1. CASE hs \cap active = {}
  BY <1>1 DEF LeaseTypes, Release, leases
<1>2. CASE hs \cap active # {}
  BY <1>2 DEF LeaseTypes, Release, Drain
<1> QED
  BY <1>1, <1>2

\* Beside an exclusive lease there is no other.
LEMMA ExclusiveAlone ==
    ASSUME LeaseInv, NEW h \in active, NEW k \in active, Exclusive(h)
    PROVE  k = h
  BY DEF LeaseInv, Apart

\* While Root owns a lease, no unrestricted writer does.
LEMMA OwnsAlone ==
    ASSUME LeaseInv, Owns(Root), NEW s \in Children, Owned[s] = {}
    PROVE  <<s, "turn">> \notin active
<1>1. s # Root /\ Owned[Root] = {}
  BY SessionsAssumption
<1>2. SUFFICES ASSUME <<s, "turn">> \in active
               PROVE  FALSE
  OBVIOUS
<1>3. CASE <<Root, "turn">> \in active
  <2>1. <<Root, "turn">> # <<s, "turn">>
    BY <1>1
  <2>2. Delegated(<<Root, "turn">>) \/ Delegated(<<s, "turn">>)
    BY <1>2, <1>3, <2>1 DEF LeaseInv, Apart
  <2> QED
    BY <1>1, <2>2 DEF Delegated
<1>4. CASE <<Root, "capture">> \in active
  <2>1. Exclusive(<<Root, "capture">>)
    BY DEF Exclusive
  <2>2. <<s, "turn">> = <<Root, "capture">>
    BY <1>2, <1>4, <2>1, ExclusiveAlone
  <2> QED
    BY <2>2
<1> QED
  BY <1>3, <1>4 DEF Owns

-----------------------------------------------------------------------------
(* Stages and leases.                                                      *)

ToolsMarked == \A s \in Sessions : phase[s] \in ToolStages => <<s, "turn">> \in marked
CapturesOwn == capture.stage = "reading" => Owns(Root) /\ Capturing
RestoresLeased ==
    revert.stage = "restoring" => <<Root, "revert">> \in active /\ ~Conflicts(revert.target)

LEMMA ToolsMarkedStep ==
    ASSUME TypedInv, ToolsMarked, [Next]_vars
    PROVE  ToolsMarked'
<1>1. LeaseTypes /\ phase \in [Sessions -> {"idle", "spawned", "queued", "opening", "running",
             "interjected", "asking", "marking", "writing", "closing", "closed"}]
  BY DEF TypedInv, LeaseInv, OtherTypes
<1> USE DEF ToolsMarked, ToolStages, leases, Move
<1>2. CASE UNCHANGED vars
  BY <1>2 DEF vars
<1>3. CASE RootStep
  <2>1. ASSUME NEW for, StartTurn(for)
        PROVE  ToolsMarked'
    BY <1>1, <2>1, AcquireKeepsLeases DEF StartTurn
  <2>2. CASE RequestCapture
    BY <1>1, <2>2, AcquireKeepsLeases DEF RequestCapture
  <2>3. CASE EndCapture
    <3>1. marked' = marked \ {<<Root, "capture">>}
      BY <1>1, <2>3, ReleaseKeepsOthers DEF EndCapture
    <3> QED
      BY <1>1, <2>3, <3>1 DEF EndCapture, GoOn, Run
  <2>4. CASE BeginCapture \/ FirstTurn \/ Finish
    BY <1>1, <2>4 DEF BeginCapture, FirstTurn, Finish, Run
  <2>5. CASE RequestRevert
    BY <1>1, <2>5, AcquireKeepsLeases DEF RequestRevert
  <2>6. CASE JudgeRevert \/ EndRevert
    <3>1. UNCHANGED phase /\ (marked' = marked \ {<<Root, "revert">>} \/ UNCHANGED marked)
      BY <1>1, <2>6, ReleaseKeepsOthers DEF JudgeRevert, EndRevert
    <3> QED
      BY <3>1
  <2> QED
    BY <1>3, <2>1, <2>2, <2>3, <2>4, <2>5, <2>6 DEF RootStep, UserTurn, CoordinatorTurn
<1>4. CASE Restart
  BY <1>4 DEF Restart
<1>5. ASSUME NEW c \in Children, ChildStep(c)
      PROVE  ToolsMarked'
  <2>1. CASE Launch(c)
    BY <1>1, <2>1, AcquireKeepsLeases DEF Launch
  <2>2. CASE Interject(c) \/ Answer(c) \/ Spawn(c) \/ Ask(c) \/ Complete(c)
    BY <1>1, <2>2 DEF Interject, Answer, Spawn, Ask, Complete
  <2> QED
    BY <1>5, <2>1, <2>2 DEF ChildStep
<1>6. ASSUME NEW s \in Sessions, SessionStep(s)
      PROVE  ToolsMarked'
  <2>1. CASE EndTurn(s)
    <3>1. marked' = marked \ {<<s, "turn">>} /\ phase' = [phase EXCEPT ![s] = "idle"]
      BY <1>1, <2>1, ReleaseKeepsOthers DEF EndTurn
    <3> QED
      BY <1>1, <3>1
  <2>2. CASE PrepareMutation(s)
    <3>1. CASE Marks(s)
      BY <1>1, <2>2, <3>1 DEF PrepareMutation
    <3>2. CASE ~Marks(s)
      BY <1>1, <2>2, <3>2 DEF PrepareMutation, Marks
    <3> QED
      BY <3>1, <3>2
  <2>3. CASE TurnLeased(s) \/ BeginWrite(s) \/ EndWrite(s) \/ OrphanWrites(s) \/ OrphanEnds(s)
    BY <1>1, <2>3 DEF TurnLeased, BeginWrite, EndWrite, OrphanWrites, OrphanEnds
  <2> QED
    BY <1>6, <2>1, <2>2, <2>3 DEF SessionStep
<1>7. ASSUME NEW ss \in SUBSET Sessions, Stop(ss)
      PROVE  ToolsMarked'
  <2>1. UNCHANGED marked
    BY <1>7 DEF Stop, Abort
  <2>2. \A s \in Sessions : Stopped(s) \in ToolStages => Stopped(s) = phase[s]
    BY DEF Stopped
  <2>3. \A s \in Sessions : phase'[s] \in {Stopped(s), "running", phase[s]}
    BY <1>7 DEF Stop
  <2> QED
    BY <2>1, <2>2, <2>3
<1> QED
  BY <1>2, <1>3, <1>4, <1>5, <1>6, <1>7 DEF Next

LEMMA CapturesOwnStep ==
    ASSUME TypedInv, CapturesOwn, [Next]_vars
    PROVE  CapturesOwn'
<1>1. /\ LeaseTypes /\ Root \in Sessions /\ \A c \in Children : c # Root
      /\ phase \in [Sessions -> {"idle", "spawned", "queued", "opening", "running",
             "interjected", "asking", "marking", "writing", "closing", "closed"}]
      /\ capture \in [stage : {"none", "queued", "reading"}, missed : SUBSET Sessions]
  BY SessionsAssumption DEF TypedInv, LeaseInv, OtherTypes, Sessions
<1>2. active \subseteq active' => (Owns(Root) => Owns(Root)')
  BY DEF Owns
<1> USE DEF CapturesOwn, leases, Move
<1>3. CASE UNCHANGED vars
  BY <1>3 DEF vars, Owns, Capturing, turns
<1>4. CASE RootStep
  <2>1. ASSUME NEW for, StartTurn(for)
        PROVE  CapturesOwn'
    BY <1>1, <2>1 DEF StartTurn, Capturing
  <2>2. CASE RequestCapture
    BY <2>2 DEF RequestCapture
  <2>3. CASE BeginCapture
    BY <2>3 DEF BeginCapture, Owns, Capturing, turns
  <2>4. CASE EndCapture
    BY <2>4 DEF EndCapture, NoCapture
  <2>5. CASE FirstTurn
    BY <1>1, <2>5 DEF FirstTurn, Capturing
  <2>6. CASE Finish
    BY <1>1, <2>6 DEF Finish, Capturing
  <2>7. CASE RequestRevert
    <3>1. active \subseteq active'
      BY <1>1, <2>7, AcquireKeepsLeases DEF RequestRevert
    <3> QED
      BY <1>2, <2>7, <3>1 DEF RequestRevert, Capturing, turns
  <2>8. CASE JudgeRevert \/ EndRevert
    <3>1. active \ {<<Root, "revert">>} \subseteq active'
      BY <1>1, <2>8, ReleaseKeepsOthers DEF JudgeRevert, EndRevert
    <3>2. UNCHANGED <<phase, capture, turns>>
      BY <2>8 DEF JudgeRevert, EndRevert
    <3> QED
      BY <3>1, <3>2 DEF Owns, Capturing, turns
  <2> QED
    BY <1>4, <2>1, <2>2, <2>3, <2>4, <2>5, <2>6, <2>7, <2>8
    DEF RootStep, UserTurn, CoordinatorTurn
<1>5. CASE Restart
  BY <1>5 DEF Restart, NoCapture
<1>6. ASSUME NEW c \in Children, ChildStep(c)
      PROVE  CapturesOwn'
  <2>1. c # Root /\ c \in Sessions
    BY <1>1 DEF Sessions
  <2>2. CASE Launch(c)
    <3>1. active \subseteq active'
      BY <1>1, <2>2, AcquireKeepsLeases DEF Launch
    <3> QED
      BY <1>1, <1>2, <2>1, <2>2, <3>1 DEF Launch, Capturing, turns
  <2>3. CASE Interject(c)
    BY <1>1, <2>1, <2>3 DEF Interject, Capturing
  <2>4. CASE Answer(c) \/ Spawn(c) \/ Ask(c) \/ Complete(c)
    BY <1>1, <2>1, <2>4 DEF Answer, Spawn, Ask, Complete, Capturing, Owns, turns
  <2> QED
    BY <1>6, <2>2, <2>3, <2>4 DEF ChildStep
<1>7. ASSUME NEW s \in Sessions, SessionStep(s)
      PROVE  CapturesOwn'
  <2>1. CASE EndTurn(s)
    <3>1. active \ {<<s, "turn">>} \subseteq active'
      BY <1>1, <2>1, ReleaseKeepsOthers DEF EndTurn
    <3>2. CASE s = Root
      BY <2>1, <3>2 DEF EndTurn, Capturing
    <3>3. CASE s # Root
      BY <1>1, <2>1, <3>1, <3>3 DEF EndTurn, Capturing, Owns
    <3> QED
      BY <3>2, <3>3
  <2>2. CASE TurnLeased(s)
    BY <1>1, <2>2 DEF TurnLeased, Capturing, Owns, turns
  <2>3. CASE PrepareMutation(s)
    <3>1. /\ UNCHANGED <<active, turns>> /\ capture'.stage = capture.stage
          /\ phase[s] = "running" /\ \A r \in Sessions \ {s} : phase'[r] = phase[r]
      BY <1>1, <2>3 DEF PrepareMutation, MayWrite, Writes, Missing
    <3> QED
      BY <1>1, <3>1 DEF Capturing, Owns, turns
  <2>4. CASE BeginWrite(s) \/ OrphanWrites(s)
    <3>1. /\ UNCHANGED <<active, turns>> /\ capture'.stage = capture.stage
          /\ UNCHANGED phase \/ phase[s] = "marking"
          /\ \A r \in Sessions \ {s} : phase'[r] = phase[r]
      BY <1>1, <2>4 DEF BeginWrite, OrphanWrites, Writes, Missing
    <3> QED
      BY <1>1, <3>1 DEF Capturing, Owns, turns
  <2>5. CASE EndWrite(s) \/ OrphanEnds(s)
    BY <1>1, <2>5 DEF EndWrite, OrphanEnds, Capturing, Owns, turns
  <2> QED
    BY <1>7, <2>1, <2>2, <2>3, <2>4, <2>5 DEF SessionStep
<1>8. ASSUME NEW ss \in SUBSET Sessions, Stop(ss)
      PROVE  CapturesOwn'
  <2>1. SUFFICES ASSUME capture'.stage = "reading"
                 PROVE  Owns(Root)' /\ Capturing'
    OBVIOUS
  <2>2. capture.stage = "reading" /\ Owns(Root) /\ Capturing
    BY <1>8, <2>1 DEF Stop, NoCapture
  <2>3. Stopped(Root) = phase[Root]
    BY <2>2 DEF Stopped, Capturing
  <2>4. phase[Root] # "asking"
    BY <2>2 DEF Capturing
  <2>5. phase'[Root] \in {Stopped(Root), phase[Root]} \/ phase[Root] = "asking"
    BY <1>1, <1>8 DEF Stop
  <2>6. phase'[Root] \in {Stopped(Root), phase[Root]}
    BY <2>4, <2>5
  <2> QED
    BY <1>8, <2>2, <2>3, <2>6 DEF Stop, Abort, Owns, Capturing, turns
<1> QED
  BY <1>3, <1>4, <1>5, <1>6, <1>7, <1>8 DEF Next

\* While Root restores, no session marks a mutation.
LEMMA NobodyMarksBesideRestore ==
    ASSUME LeaseInv, <<Root, "revert">> \in active, NEW s
    PROVE  ~MayWrite(s)
<1>1. Exclusive(<<Root, "revert">>) /\ <<s, "turn">> # <<Root, "revert">>
  BY DEF Exclusive
<1> QED
  BY <1>1, ExclusiveAlone DEF MayWrite

LEMMA RestoresLeasedStep ==
    ASSUME TypedInv, RestoresLeased, [Next]_vars
    PROVE  RestoresLeased'
<1>1. /\ LeaseInv /\ LeaseTypes /\ (\A c \in Children : c # Root)
      /\ revert \in [stage : {"none", "refused", "queued", "restoring"}, live : BOOLEAN,
                     target : Checkpoints]
      /\ latest \in [Sessions -> Nat] /\ Children \subseteq Sessions
  BY SessionsAssumption DEF TypedInv, LeaseInv, OtherTypes, Sessions
\* The same target, or one that differs in its history only.
<1> DEFINE SameGate(c, d) == c.epoch = d.epoch /\ c.generation = d.generation
<1>2. ASSUME UNCHANGED counts, revert'.stage = revert.stage, active \subseteq active',
             SameGate(revert'.target, revert.target)
      PROVE  RestoresLeased'
  BY <1>2 DEF RestoresLeased, Conflicts, counts
<1>3. ASSUME revert'.stage # "restoring"
      PROVE  RestoresLeased'
  BY <1>3 DEF RestoresLeased
<1> USE DEF leases
<1>4. CASE UNCHANGED vars
  BY <1>2, <1>4 DEF vars, user
<1>5. CASE RootStep
  <2>1. ASSUME NEW for, StartTurn(for)
        PROVE  RestoresLeased'
    <3>1. UNCHANGED counts /\ revert' = [revert EXCEPT !.live = FALSE]
      BY <2>1 DEF StartTurn
    <3>2. active \subseteq active'
      BY <1>1, <2>1, AcquireKeepsLeases DEF StartTurn
    <3> QED
      BY <1>1, <1>2, <3>1, <3>2
  <2>2. CASE RequestCapture
    <3>1. active \subseteq active'
      BY <1>1, <2>2, AcquireKeepsLeases DEF RequestCapture
    <3> QED
      BY <1>2, <2>2, <3>1 DEF RequestCapture, user
  <2>3. CASE EndCapture
    <3>1. active \ {<<Root, "capture">>} \subseteq active'
      BY <1>1, <2>3, ReleaseKeepsOthers DEF EndCapture
    <3>2. UNCHANGED counts /\ (revert' = revert \/ revert' = [revert EXCEPT !.live = FALSE])
      BY <2>3 DEF EndCapture, GoOn, Run
    <3> QED
      BY <1>1, <3>1, <3>2 DEF RestoresLeased, Conflicts, counts
  <2>4. CASE FirstTurn
    <3>1. UNCHANGED <<counts, active>> /\ revert' = [revert EXCEPT !.live = FALSE]
      BY <2>4 DEF FirstTurn, Run
    <3> QED
      BY <1>1, <1>2, <3>1
  <2>5. CASE BeginCapture \/ Finish
    BY <1>2, <2>5 DEF BeginCapture, Finish, user
  <2>6. CASE RequestRevert
    BY <1>1, <1>3, <2>6 DEF RequestRevert, NoRevert
  <2>7. CASE JudgeRevert
    <3>1. SUFFICES ASSUME revert'.stage = "restoring"
                   PROVE  RestoresLeased'
      BY <1>3
    <3>2. /\ <<Root, "revert">> \in active /\ ~Conflicts(revert.target) /\ Bump(Root)
          /\ revert' = [revert EXCEPT !.stage = "restoring"] /\ UNCHANGED <<active, epoch>>
      BY <2>7, <3>1 DEF JudgeRevert, NoRevert
    <3>3. \A s \in Children : latest'[s] = latest[s]
      BY <1>1, <3>2 DEF Bump
    <3> QED
      BY <1>1, <3>2, <3>3 DEF RestoresLeased, Conflicts
  <2>8. CASE EndRevert
    BY <1>3, <2>8 DEF EndRevert, NoRevert
  <2> QED
    BY <1>5, <2>1, <2>2, <2>3, <2>4, <2>5, <2>6, <2>7, <2>8
    DEF RootStep, UserTurn, CoordinatorTurn
<1>6. CASE Restart
  BY <1>3, <1>6 DEF Restart, NoRevert
<1>7. ASSUME NEW c \in Children, ChildStep(c)
      PROVE  RestoresLeased'
  <2>1. CASE Launch(c)
    <3>1. active \subseteq active'
      BY <1>1, <2>1, AcquireKeepsLeases DEF Launch
    <3> QED
      BY <1>2, <2>1, <3>1 DEF Launch, user
  <2>2. CASE Interject(c) \/ Answer(c) \/ Spawn(c) \/ Ask(c) \/ Complete(c)
    BY <1>2, <2>2 DEF Interject, Answer, Spawn, Ask, Complete, user
  <2> QED
    BY <1>7, <2>1, <2>2 DEF ChildStep
<1>8. ASSUME NEW s \in Sessions, SessionStep(s)
      PROVE  RestoresLeased'
  <2>1. CASE EndTurn(s)
    <3>1. active \ {<<s, "turn">>} \subseteq active'
      BY <1>1, <2>1, ReleaseKeepsOthers DEF EndTurn
    <3>2. UNCHANGED <<counts, revert>>
      BY <2>1 DEF EndTurn, user
    <3> QED
      BY <3>1, <3>2 DEF RestoresLeased, Conflicts, counts
  <2>2. CASE PrepareMutation(s)
    <3>1. revert.stage # "restoring"
      BY <1>1, <2>2, NobodyMarksBesideRestore DEF PrepareMutation, RestoresLeased
    <3>2. revert'.stage = revert.stage
      BY <1>1, <2>2 DEF PrepareMutation, Writes
    <3> QED
      BY <1>3, <3>1, <3>2
  <2>3. CASE BeginWrite(s) \/ OrphanWrites(s)
    <3>1. UNCHANGED <<active, epoch, latest>>
      BY <2>3 DEF BeginWrite, OrphanWrites
    <3>2. revert' = [revert EXCEPT !.target = Missing(revert.target, {s})]
      BY <2>3 DEF BeginWrite, OrphanWrites, Writes
    <3>3. revert'.stage = revert.stage /\ SameGate(revert'.target, revert.target)
      BY <1>1, <3>2 DEF Missing, Checkpoints
    <3> QED
      BY <3>1, <3>3 DEF RestoresLeased, Conflicts
  <2>4. CASE TurnLeased(s) \/ EndWrite(s) \/ OrphanEnds(s)
    BY <1>2, <2>4 DEF TurnLeased, EndWrite, OrphanEnds, user
  <2> QED
    BY <1>8, <2>1, <2>2, <2>3, <2>4 DEF SessionStep
<1>9. ASSUME NEW ss \in SUBSET Sessions, Stop(ss)
      PROVE  RestoresLeased'
  <2>1. UNCHANGED <<counts, active>> /\ (revert' = NoRevert \/ revert' = revert)
    BY <1>9 DEF Stop, Abort
  <2> QED
    BY <1>2, <1>3, <2>1 DEF NoRevert
<1> QED
  BY <1>4, <1>5, <1>6, <1>7, <1>8, <1>9 DEF Next

-----------------------------------------------------------------------------
(* The gate.  Most steps are quiet: they count, write and capture nothing. *)

Quiet ==
    /\ UNCHANGED <<counts, checkpoint>>
    /\ revert'.target \in {revert.target, checkpoint, NoCheckpoint}
    /\ \A s \in Sessions :
        /\ MayWriteOn(s)' => MayWriteOn(s)
        /\ Marking(s) => Marking(s)'
        /\ <<s, "turn">> \in marked' =>
            /\ <<s, "turn">> \in marked
            /\ phase[s] \in {"marking", "closed"} => phase'[s] \in {"marking", "closed"}

\* A turn goes on, no tool begins, ends or outlives it.
TurnsGoOn ==
    /\ UNCHANGED orphans /\ marked' \subseteq marked
    /\ \A s \in Sessions :
        \/ phase'[s] = phase[s]
        \/ phase[s] \notin {"marking", "closed"} /\ phase'[s] \notin ToolStages

LEMMA TurnsGoOnQuietly ==
    ASSUME TurnsGoOn, UNCHANGED <<counts, checkpoint>>,
           revert'.target \in {revert.target, checkpoint, NoCheckpoint}
    PROVE  Quiet
  BY DEF TurnsGoOn, Quiet, MayWriteOn, Marking, ToolStages

\* The gate refuses nothing of what is not there.
LEMMA NothingIsKnown ==
    ASSUME OtherTypes, \A s \in Children : MayWriteOn(s) => latest[s] > 0
    PROVE  GateKnows(NoCheckpoint)
  BY DEF OtherTypes, GateKnows, NoCheckpoint

LEMMA QuietKeepsGate ==
    ASSUME OtherTypes, GateInv, Quiet
    PROVE  GateInv'
<1>1. Children \subseteq Sessions
  BY DEF Sessions
<1>2. \A s \in Children : MayWriteOn(s)' => latest'[s] > 0
  BY <1>1 DEF GateInv, Quiet, counts
<1>3. StoreInv'
  <2>1. (\E s \in Sessions : Marking(s)) => \E s \in Sessions : Marking(s)'
    BY DEF Quiet
  <2> QED
    BY <2>1 DEF GateInv, StoreInv, Quiet, counts
<1>4. ASSUME NEW c, GateKnows(c)
      PROVE  GateKnows(c)'
  BY <1>1, <1>4 DEF GateKnows, Quiet, counts
<1>5. \A c \in Captured : GateKnows(c)
  BY DEF GateInv
<1>6. GateKnows(NoCheckpoint)
  BY NothingIsKnown DEF GateInv
<1>7. Captured' \subseteq Captured \cup {NoCheckpoint}
  BY DEF Quiet, Captured
<1> QED
  BY <1>2, <1>3, <1>4, <1>5, <1>6, <1>7 DEF GateInv

\* A mark hides nothing: it is younger than every checkpoint.
LEMMA MarkKeepsGate ==
    ASSUME TypedInv, GateInv, NEW s \in Sessions, PrepareMutation(s), Marks(s)
    PROVE  GateInv'
<1>1. /\ generation \in Nat /\ latest \in [Sessions -> Nat] /\ Children \subseteq Sessions
      /\ checkpoint \in Checkpoints /\ revert.target \in Checkpoints
      /\ revert \in [stage : {"none", "refused", "queued", "restoring"}, live : BOOLEAN,
                     target : Checkpoints]
      /\ phase \in [Sessions -> {"idle", "spawned", "queued", "opening", "running",
             "interjected", "asking", "marking", "writing", "closing", "closed"}]
  BY DEF TypedInv, OtherTypes, Sessions
<1>2. /\ generation' = generation + 1 /\ latest' = [latest EXCEPT ![s] = generation + 1]
      /\ marked' = marked \cup {<<s, "turn">>} /\ phase' = [phase EXCEPT ![s] = "marking"]
      /\ checkpoint' = Touched(checkpoint, {s})
      /\ revert' = [revert EXCEPT !.target = Touched(revert.target, {s})]
      /\ UNCHANGED <<epoch, saved, orphans>>
  BY DEF PrepareMutation, Bump, Move
<1>3. \A r \in Sessions \ {s} : MayWriteOn(r)' <=> MayWriteOn(r)
  BY <1>1, <1>2 DEF MayWriteOn
<1>4. ASSUME NEW c \in Checkpoints, GateKnows(c)
      PROVE  GateKnows(Touched(c, {s}))'
  <2>1. /\ Touched(c, {s}).epoch = c.epoch /\ Touched(c, {s}).clean = c.clean
        /\ Touched(c, {s}).generation = c.generation /\ Touched(c, {s}).missed = c.missed
    BY DEF Touched, Checkpoints
  <2>2. c.generation \in Nat
    BY DEF Checkpoints
  <2> QED
    BY <1>1, <1>2, <1>3, <1>4, <2>1, <2>2 DEF GateKnows
<1>5. \A c \in Captured' : GateKnows(c)'
  BY <1>1, <1>2, <1>4 DEF GateInv, Captured
<1>6. \A r \in Children : MayWriteOn(r)' => latest'[r] > 0
  BY <1>1, <1>2, <1>3 DEF GateInv
<1>7. StoreInv'
  <2>1. Marking(s)' /\ phase'[s] = "marking"
    BY <1>1, <1>2 DEF Marking
  <2>2. \A r \in Sessions \ {s} : phase'[r] = phase[r]
    BY <1>1, <1>2
  <2> QED
    BY <1>2, <2>1, <2>2 DEF GateInv, StoreInv
<1> QED
  BY <1>5, <1>6, <1>7 DEF GateInv

\* A write is of a session whose mark is younger than every checkpoint, and
\* in the store.
LEMMA WriteKeepsGate ==
    ASSUME TypedInv, GateInv, NEW s \in Sessions, MayWriteOn(s), Writes(s),
           saved'.roots, UNCHANGED <<epoch, generation, latest>>,
           \A r \in Children : MayWriteOn(r)' => MayWriteOn(r)
    PROVE  GateInv'
<1>1. /\ checkpoint \in Checkpoints /\ revert.target \in Checkpoints
      /\ revert \in [stage : {"none", "refused", "queued", "restoring"}, live : BOOLEAN,
                     target : Checkpoints]
  BY DEF TypedInv, OtherTypes
<1>2. ASSUME NEW c \in Checkpoints, GateKnows(c)
      PROVE  GateKnows(Missing(c, {s}))'
  <2>1. /\ Missing(c, {s}).epoch = c.epoch /\ Missing(c, {s}).clean = c.clean
        /\ Missing(c, {s}).generation = c.generation
        /\ Missing(c, {s}).missed = c.missed \cup {s}
    BY DEF Missing, Checkpoints
  <2> QED
    BY <1>2, <2>1 DEF GateKnows
<1>3. \A c \in Captured' : GateKnows(c)'
  BY <1>1, <1>2 DEF GateInv, Captured, Writes
<1> QED
  BY <1>3 DEF GateInv, StoreInv

\* What was captured while nobody wrote lacks nothing, and nobody goes on
\* writing without another mark.
LEMMA CaptureKeepsGate ==
    ASSUME TypedInv, GateInv, CapturesOwn, EndCapture
    PROVE  GateInv'
<1>1. /\ LeaseInv /\ LeaseTypes /\ OtherTypes /\ Root \in Sessions /\ Children \subseteq Sessions
      /\ revert \in [stage : {"none", "refused", "queued", "restoring"}, live : BOOLEAN,
                     target : Checkpoints]
      /\ phase \in [Sessions -> {"idle", "spawned", "queued", "opening", "running",
             "interjected", "asking", "marking", "writing", "closing", "closed"}]
  BY DEF TypedInv, LeaseInv, OtherTypes, Sessions
<1>2. marked' = marked \ {<<Root, "capture">>}
  BY <1>1, ReleaseKeepsOthers DEF EndCapture
<1>3. Owns(Root) /\ Capturing
  BY DEF EndCapture, CapturesOwn
<1>4. TurnsGoOn
  <2>1. \A s \in Sessions : phase'[s] = phase[s] \/ s = Root
    BY <1>1 DEF EndCapture, GoOn, Run, Move
  <2>2. phase'[Root] \in {"running", "closed"} /\ phase[Root] \notin {"marking", "closed"}
    BY <1>1, <1>3 DEF EndCapture, GoOn, Run, Move, Capturing
  <2> QED
    BY <1>2, <2>1, <2>2 DEF TurnsGoOn, ToolStages, EndCapture
<1>5. UNCHANGED counts /\ revert'.target = revert.target
  BY <1>1 DEF EndCapture, GoOn, Run
<1>6. CASE UNCHANGED checkpoint
  BY <1>1, <1>4, <1>5, <1>6, TurnsGoOnQuietly, QuietKeepsGate
<1>7. ASSUME NEW missed \in SUBSET Sessions, InProgress \subseteq missed,
             checkpoint' = [exists |-> TRUE, epoch |-> epoch, generation |-> generation,
                            clean |-> missed = {}, missed |-> missed, touched |-> {}]
      PROVE  GateInv'
  <2>2. \A s \in Sessions : MayWriteOn(s)' => MayWriteOn(s)
    BY <1>4 DEF TurnsGoOn, MayWriteOn, ToolStages
  <2>3. \A s \in Sessions : Marking(s) => Marking(s)' /\ s \in InProgress
    BY <1>4 DEF TurnsGoOn, Marking, InProgress, ToolStages
  <2>4. StoreInv'
    <3>1. (\E s \in Sessions : Marking(s)) => \E s \in Sessions : Marking(s)'
      BY <2>3
    <3> QED
      BY <1>4, <1>5, <3>1 DEF GateInv, StoreInv, TurnsGoOn, ToolStages, counts
  <2>5. GateKnows(revert.target)'
    BY <1>1, <1>5, <2>2 DEF GateInv, GateKnows, Captured, counts
  <2>6. GateKnows(checkpoint)'
    <3>4. CASE missed # {}
      <4>1. ~checkpoint'.clean
        BY <1>7, <3>4
      <4>2. checkpoint'.epoch = epoch /\ epoch' = epoch /\ epoch <= epoch
        BY <1>1, <1>5, <1>7 DEF OtherTypes, counts
      <4> QED
        BY <4>1, <4>2 DEF GateKnows
    <3>1. SUFFICES ASSUME missed = {}
                   PROVE  GateKnows(checkpoint)'
      BY <3>4
    <3>2. \A s \in Children : ~MayWriteOn(s)
      <4>1. \A s \in Sessions : s \notin InProgress
        BY <1>7, <3>1
      <4>2. \A s \in Children : ~(Owned[s] = {} /\ <<s, "turn">> \in marked)
        BY <1>1, <1>3, OwnsAlone DEF LeaseTypes
      <4> QED
        BY <1>1, <4>1, <4>2 DEF MayWriteOn, InProgress
    <3>3. ~saved.roots => generation = 0
      BY <1>7, <2>3, <3>1 DEF GateInv, StoreInv
    <3> QED
      BY <1>1, <1>5, <1>7, <2>2, <3>1, <3>2, <3>3 DEF GateKnows, OtherTypes, counts
  <2> QED
    BY <1>1, <1>5, <2>2, <2>4, <2>5, <2>6 DEF GateInv, Captured, counts
<1>8. CASE checkpoint' = [exists |-> TRUE, epoch |-> epoch, generation |-> generation,
                          clean |-> capture.missed \cup InProgress = {},
                          missed |-> capture.missed \cup InProgress, touched |-> {}]
  <2>1. capture.missed \cup InProgress \in SUBSET Sessions
    BY <1>1 DEF OtherTypes, InProgress
  <2> QED
    BY <1>7, <1>8, <2>1
<1> QED
  BY <1>6, <1>8 DEF EndCapture

\* A mark of Root stands against nobody's checkpoint but Root's.
LEMMA JudgeKeepsGate ==
    ASSUME TypedInv, GateInv, JudgeRevert
    PROVE  GateInv'
<1>1. /\ LeaseTypes /\ OtherTypes /\ (\A s \in Children : s # Root) /\ Children \subseteq Sessions
      /\ generation \in Nat /\ latest \in [Sessions -> Nat]
      /\ checkpoint \in Checkpoints /\ revert.target \in Checkpoints
      /\ revert \in [stage : {"none", "refused", "queued", "restoring"}, live : BOOLEAN,
                     target : Checkpoints]
  BY SessionsAssumption DEF TypedInv, LeaseInv, OtherTypes, Sessions
<1>2. CASE Release({<<Root, "revert">>}) /\ revert' = NoRevert /\ UNCHANGED <<counts, checkpoint>>
  <2>1. marked' \subseteq marked
    BY <1>1, <1>2, ReleaseKeepsOthers
  <2>2. TurnsGoOn
    BY <2>1 DEF TurnsGoOn, JudgeRevert
  <2> QED
    BY <1>1, <1>2, <2>2, TurnsGoOnQuietly, QuietKeepsGate DEF NoRevert
<1>3. CASE /\ Bump(Root) /\ saved' = [epoch |-> epoch, roots |-> TRUE]
           /\ revert' = [revert EXCEPT !.stage = "restoring"]
           /\ checkpoint' = Touched(checkpoint, {Root})
           /\ UNCHANGED <<leases, epoch>>
  <2>1. /\ generation' = generation + 1 /\ \A s \in Children : latest'[s] = latest[s]
        /\ saved'.roots /\ UNCHANGED <<epoch, marked, phase, orphans>>
        /\ revert'.target = revert.target
    BY <1>1, <1>3 DEF Bump, leases, JudgeRevert
  <2>2. \A s \in Children : MayWriteOn(s)' <=> MayWriteOn(s)
    BY <2>1 DEF MayWriteOn
  <2>3. ASSUME NEW c \in Checkpoints, GateKnows(c)
        PROVE  GateKnows(c)' /\ GateKnows(Touched(c, {Root}))'
    <3>1. /\ Touched(c, {Root}).epoch = c.epoch /\ Touched(c, {Root}).clean = c.clean
          /\ Touched(c, {Root}).generation = c.generation
          /\ Touched(c, {Root}).missed = c.missed /\ c.generation \in Nat
      BY DEF Touched, Checkpoints
    <3>2. GateKnows(c)'
      BY <1>1, <2>1, <2>2, <2>3, <3>1 DEF GateKnows
    <3> QED
      BY <3>1, <3>2 DEF GateKnows
  <2>4. \A c \in Captured' : GateKnows(c)'
    BY <1>1, <1>3, <2>1, <2>3 DEF GateInv, Captured
  <2> QED
    BY <2>1, <2>2, <2>4 DEF GateInv, StoreInv
<1> QED
  BY <1>2, <1>3 DEF JudgeRevert

\* A restart forgets the counts.  Either there is a new epoch, or nothing
\* was marked in this one.
LEMMA RestartKeepsGate ==
    ASSUME TypedInv, GateInv, Restart
    PROVE  GateInv'
<1>1. /\ epoch \in Nat /\ checkpoint \in Checkpoints
  BY DEF TypedInv, OtherTypes
<1>2. /\ generation' = 0 /\ marked' = {} /\ orphans' = {} /\ checkpoint' = checkpoint
      /\ revert'.target = NoCheckpoint
  BY DEF Restart, NoRevert
<1>3. \A s \in Children : ~MayWriteOn(s)'
  <2>1. \A s \in Children : phase'[s] = "idle"
    BY DEF Restart, Sessions
  <2> QED
    BY <1>2, <2>1 DEF MayWriteOn, ToolStages
<1>4. StoreInv'
  BY <1>2 DEF StoreInv
<1>5. GateKnows(checkpoint) /\ GateKnows(checkpoint)'
  <2>1. GateKnows(checkpoint)
    BY DEF GateInv, Captured
  <2>2. CASE saved.roots
    <3>1. epoch' = epoch + 1 /\ checkpoint.epoch <= epoch /\ checkpoint.epoch \in Nat
      BY <1>1, <2>1, <2>2 DEF Restart, GateKnows, Checkpoints
    <3> QED
      BY <1>1, <1>2, <2>1, <3>1 DEF GateKnows
  <2>3. CASE ~saved.roots
    BY <1>2, <1>3, <2>1, <2>3 DEF Restart, GateKnows
  <2> QED
    BY <2>1, <2>2, <2>3
<1>6. GateKnows(NoCheckpoint)'
  <2>1. epoch' \in Nat
    BY <1>1 DEF Restart
  <2> QED
    BY <1>2, <1>3, <2>1 DEF GateKnows, NoCheckpoint
<1> QED
  BY <1>2, <1>3, <1>4, <1>5, <1>6 DEF GateInv, Captured

\* What Root does besides.
LEMMA RootStepKeepsGate ==
    ASSUME TypedInv, GateInv, CapturesOwn, RootStep
    PROVE  GateInv'
<1>1. /\ LeaseTypes /\ OtherTypes
      /\ revert \in [stage : {"none", "refused", "queued", "restoring"}, live : BOOLEAN,
                     target : Checkpoints]
      /\ phase \in [Sessions -> {"idle", "spawned", "queued", "opening", "running",
             "interjected", "asking", "marking", "writing", "closing", "closed"}]
  BY DEF TypedInv, LeaseInv, OtherTypes
<1>2. ASSUME TurnsGoOn, UNCHANGED <<counts, checkpoint>>,
             revert'.target \in {revert.target, checkpoint, NoCheckpoint}
      PROVE  GateInv'
  BY <1>1, <1>2, TurnsGoOnQuietly, QuietKeepsGate
<1> USE DEF TurnsGoOn, ToolStages, Move, leases
<1>3. ASSUME NEW for, StartTurn(for)
      PROVE  GateInv'
  <2>1. marked' \subseteq marked
    BY <1>1, <1>3, AcquireKeepsLeases DEF StartTurn
  <2> QED
    BY <1>1, <1>2, <1>3, <2>1 DEF StartTurn
<1>4. CASE RequestCapture
  <2>1. marked' \subseteq marked
    BY <1>1, <1>4, AcquireKeepsLeases DEF RequestCapture
  <2> QED
    BY <1>2, <1>4, <2>1 DEF RequestCapture, user
<1>5. CASE BeginCapture \/ FirstTurn \/ Finish
  BY <1>1, <1>2, <1>5 DEF BeginCapture, FirstTurn, Finish, Run, user
<1>6. CASE RequestRevert
  <2>1. marked' \subseteq marked
    BY <1>1, <1>6, AcquireKeepsLeases DEF RequestRevert
  <2> QED
    BY <1>2, <1>6, <2>1 DEF RequestRevert, NoRevert
<1>7. CASE EndRevert
  <2>1. marked' \subseteq marked
    BY <1>1, <1>7, ReleaseKeepsOthers DEF EndRevert
  <2> QED
    BY <1>2, <1>7, <2>1 DEF EndRevert, NoRevert
<1> QED
  BY <1>3, <1>4, <1>5, <1>6, <1>7, CaptureKeepsGate, JudgeKeepsGate
  DEF RootStep, UserTurn, CoordinatorTurn

LEMMA ChildStepKeepsGate ==
    ASSUME TypedInv, GateInv, NEW c \in Children, ChildStep(c)
    PROVE  GateInv'
<1>1. /\ LeaseTypes /\ OtherTypes
      /\ phase \in [Sessions -> {"idle", "spawned", "queued", "opening", "running",
             "interjected", "asking", "marking", "writing", "closing", "closed"}]
  BY DEF TypedInv, LeaseInv, OtherTypes
<1>2. ASSUME TurnsGoOn, UNCHANGED <<counts, user>>
      PROVE  GateInv'
  BY <1>1, <1>2, TurnsGoOnQuietly, QuietKeepsGate DEF user
<1> USE DEF TurnsGoOn, ToolStages, Move, leases
<1>3. CASE Launch(c)
  <2>1. marked' \subseteq marked
    BY <1>1, <1>3, AcquireKeepsLeases DEF Launch
  <2> QED
    BY <1>1, <1>2, <1>3, <2>1 DEF Launch
<1>4. CASE Complete(c)
  <2>1. phase[c] = "running" /\ UNCHANGED <<counts, user, leases, orphans>>
        /\ \A s \in Sessions : phase'[s] = IF s = c THEN "closed" ELSE phase[s]
    BY <1>1, <1>4 DEF Complete
  <2> QED
    BY <1>2, <2>1
<1>5. CASE Interject(c) \/ Answer(c) \/ Spawn(c) \/ Ask(c)
  BY <1>1, <1>2, <1>5 DEF Interject, Answer, Spawn, Ask
<1> QED
  BY <1>3, <1>4, <1>5 DEF ChildStep

LEMMA SessionStepKeepsGate ==
    ASSUME TypedInv, GateInv, ToolsMarked, NEW s \in Sessions, SessionStep(s)
    PROVE  GateInv'
<1>1. /\ LeaseTypes /\ OtherTypes /\ Children \subseteq Sessions
      /\ phase \in [Sessions -> {"idle", "spawned", "queued", "opening", "running",
             "interjected", "asking", "marking", "writing", "closing", "closed"}]
  BY DEF TypedInv, LeaseInv, OtherTypes, Sessions
<1> USE DEF ToolStages, Move, leases
<1>2. CASE TurnLeased(s)
  <2>1. TurnsGoOn
    BY <1>1, <1>2 DEF TurnLeased, TurnsGoOn
  <2> QED
    BY <1>1, <1>2, <2>1, TurnsGoOnQuietly, QuietKeepsGate DEF TurnLeased, user
<1>3. CASE EndTurn(s)
  <2>1. marked' = marked \ {<<s, "turn">>} /\ phase' = [phase EXCEPT ![s] = "idle"]
        /\ UNCHANGED <<counts, user, orphans>> /\ phase[s] = "closed"
    BY <1>1, <1>3, ReleaseKeepsOthers DEF EndTurn
  <2>2. Quiet
    BY <1>1, <2>1 DEF Quiet, MayWriteOn, Marking, user
  <2> QED
    BY <1>1, <2>2, QuietKeepsGate
<1>4. CASE PrepareMutation(s)
  <2>1. CASE ~Marks(s)
    <3>1. Owned[s] = {} /\ <<s, "turn">> \in marked /\ phase[s] = "running"
      BY <1>4, <2>1 DEF PrepareMutation, Marks, MayWrite
    <3>2. saved.roots
      BY <3>1 DEF GateInv, StoreInv
    <3>3. Writes(s) /\ phase' = [phase EXCEPT ![s] = "writing"] /\ UNCHANGED <<counts, marked, orphans>>
      BY <1>4, <2>1 DEF PrepareMutation, counts
    <3>4. \A r \in Children : MayWriteOn(r)' => MayWriteOn(r)
      BY <1>1, <3>1, <3>3 DEF MayWriteOn
    <3>5. MayWriteOn(s)
      BY <3>1 DEF MayWriteOn
    <3> QED
      BY <3>2, <3>3, <3>4, <3>5, WriteKeepsGate DEF counts
  <2> QED
    BY <1>4, <2>1, MarkKeepsGate
<1>5. CASE BeginWrite(s)
  <2>1. /\ phase[s] = "marking" /\ Writes(s) /\ saved'.roots
        /\ phase' = [phase EXCEPT ![s] = "writing"]
        /\ UNCHANGED <<marked, orphans, epoch, generation, latest>>
    BY <1>5 DEF BeginWrite
  <2>2. MayWriteOn(s) /\ \A r \in Children : MayWriteOn(r)' => MayWriteOn(r)
    BY <1>1, <2>1 DEF MayWriteOn
  <2> QED
    BY <2>1, <2>2, WriteKeepsGate
<1>6. CASE EndWrite(s)
  <2>1. /\ phase[s] = "writing" /\ phase' = [phase EXCEPT ![s] = "running"]
        /\ UNCHANGED <<marked, orphans, counts, user>>
    BY <1>6 DEF EndWrite
  <2>2. TurnsGoOn
    BY <1>1, <2>1 DEF TurnsGoOn
  <2> QED
    BY <1>1, <2>1, <2>2, TurnsGoOnQuietly, QuietKeepsGate DEF user
<1>7. CASE OrphanWrites(s)
  <2>1. /\ <<s, "marking">> \in orphans /\ Writes(s) /\ saved'.roots
        /\ orphans' = (orphans \ {<<s, "marking">>}) \cup {<<s, "writing">>}
        /\ UNCHANGED <<marked, phase, epoch, generation, latest>>
    BY <1>7 DEF OrphanWrites
  <2>2. MayWriteOn(s) /\ \A r \in Children : MayWriteOn(r)' => MayWriteOn(r)
    BY <2>1 DEF MayWriteOn
  <2> QED
    BY <2>1, <2>2, WriteKeepsGate
<1>8. CASE OrphanEnds(s)
  <2>1. orphans' = orphans \ {<<s, "writing">>} /\ UNCHANGED <<marked, phase, counts, user>>
    BY <1>8 DEF OrphanEnds
  <2>2. Quiet
    BY <2>1 DEF Quiet, MayWriteOn, Marking, user
  <2> QED
    BY <1>1, <2>2, QuietKeepsGate
<1> QED
  BY <1>2, <1>3, <1>4, <1>5, <1>6, <1>7, <1>8 DEF SessionStep

\* A stop leaves the tools that run to themselves.
LEMMA StopKeepsGate ==
    ASSUME TypedInv, GateInv, NEW ss \in SUBSET Sessions, Stop(ss)
    PROVE  GateInv'
<1> DEFINE stopped == {s \in ss : phase[s] \notin {"idle", "closed"}}
<1>1. OtherTypes
      /\ phase \in [Sessions -> {"idle", "spawned", "queued", "opening", "running",
             "interjected", "asking", "marking", "writing", "closing", "closed"}]
  BY DEF TypedInv, OtherTypes
<1>2. UNCHANGED <<counts, checkpoint, marked>> /\ (revert' = NoRevert \/ revert' = revert)
  BY DEF Stop, Abort
<1>3. orphans' = orphans \cup {<<s, phase[s]>> : s \in {s \in stopped : phase[s] \in ToolStages}}
  BY DEF Stop
<1>4. \A s \in Sessions :
        /\ s \in stopped => phase'[s] = Stopped(s)
        /\ s \notin stopped => phase'[s] = phase[s] \/ (phase'[s] = "running" /\ phase[s] = "asking")
  <2> DEFINE freed == IF Listening(stopped) \cap {<<Root, "turn">>, <<Root, "capture">>} = {}
                      THEN {}
                      ELSE {coordinating} \cap {c \in Children \ stopped : phase[c] = "asking"}
  <2>1. phase' = [s \in Sessions |-> IF s \in stopped THEN Stopped(s)
                                     ELSE IF s \in freed THEN "running" ELSE phase[s]]
    BY DEF Stop
  <2>2. \A s \in freed : phase[s] = "asking"
    OBVIOUS
  <2> HIDE DEF stopped, freed
  <2> QED
    BY <2>1, <2>2
<1> HIDE DEF stopped
<1>5. \A s \in Sessions :
        /\ phase[s] \in ToolStages => Stopped(s) = "closed"
        /\ phase[s] \notin ToolStages => Stopped(s) \notin ToolStages
  BY <1>1 DEF Stopped, Capturing, ToolStages
<1>6. \A s \in Sessions : phase[s] \in {"idle", "closed"} => s \notin stopped
  BY DEF stopped
<1>7. ASSUME NEW s \in Sessions
      PROVE  /\ MayWriteOn(s)' => MayWriteOn(s)
             /\ Marking(s) => Marking(s)'
             /\ phase[s] \in {"marking", "closed"} => phase'[s] \in {"marking", "closed"}
  BY <1>1, <1>2, <1>3, <1>4, <1>5, <1>6 DEF MayWriteOn, Marking, ToolStages
<1>8. Quiet
  BY <1>2, <1>7 DEF Quiet, NoRevert
<1> QED
  BY <1>1, <1>8, QuietKeepsGate

-----------------------------------------------------------------------------
(* The theorems.                                                           *)

RevertInv == TypedInv /\ ToolsMarked /\ CapturesOwn /\ RestoresLeased /\ GateInv

LEMMA RevertInvariant == Spec => []RevertInv
<1>1. Init => ToolsMarked /\ CapturesOwn /\ RestoresLeased
  BY DEF Init, ToolsMarked, ToolStages, CapturesOwn, NoCapture, RestoresLeased, NoRevert
<1>2. Init => GateInv
  BY DEF Init, GateInv, Captured, GateKnows, StoreInv, MayWriteOn, ToolStages, NoCheckpoint, NoRevert,
         Sessions
<1>3. ASSUME RevertInv, [Next]_vars
      PROVE  ToolsMarked' /\ CapturesOwn' /\ RestoresLeased' /\ GateInv'
  <2>1. ToolsMarked' /\ CapturesOwn' /\ RestoresLeased'
    BY <1>3, ToolsMarkedStep, CapturesOwnStep, RestoresLeasedStep DEF RevertInv
  <2>2. GateInv'
    <3>1. CASE UNCHANGED vars
      BY <1>3, <3>1 DEF RevertInv, GateInv, Captured, GateKnows, StoreInv, MayWriteOn, Marking,
                        vars, leases, counts, user
    <3>2. ASSUME NEW s \in Sessions, SessionStep(s) \/ Stop({s})
          PROVE  GateInv'
      BY <1>3, <3>2, SessionStepKeepsGate, StopKeepsGate DEF RevertInv
    <3>3. CASE Stop(Sessions)
      BY <1>3, <3>3, StopKeepsGate DEF RevertInv
    <3> QED
      BY <1>3, <3>1, <3>2, <3>3, RootStepKeepsGate, ChildStepKeepsGate, RestartKeepsGate
      DEF RevertInv, Next
  <2> QED
    BY <2>1, <2>2
<1>4. Spec => []TypedInv
  BY LeaseInvariant, TypesInvariant, PTL DEF TypedInv
<1> QED
  BY <1>1, <1>2, <1>3, <1>4, PTL DEF Spec, RevertInv

\* A revert to a checkpoint that was captured while nobody was writing never
\* undoes what another session wrote since: not for any number of writers,
\* nor after stops that leave tools behind, nor over restarts.
THEOREM RevertsKeepOthersWork == Spec => []RevertKeepsOthersWork
<1>1. ASSUME RevertInv
      PROVE  RevertKeepsOthersWork
  <2>1. SUFFICES ASSUME revert.stage = "restoring", revert.target.clean,
                        NEW s \in revert.target.missed, s # Root
                 PROVE  FALSE
    BY DEF RevertKeepsOthersWork
  <2>2. /\ revert.target.missed \subseteq Sessions /\ latest \in [Sessions -> Nat]
        /\ revert.target.generation \in Nat
    BY <1>1 DEF RevertInv, TypedInv, OtherTypes, Checkpoints
  <2>3. s \in Children /\ latest[s] \in Nat
    BY <2>1, <2>2 DEF Sessions
  <2>4. revert.target.epoch = epoch /\ ~(latest[s] > revert.target.generation)
    BY <1>1, <2>1, <2>3 DEF RevertInv, RestoresLeased, Conflicts
  <2>5. latest[s] > revert.target.generation
    BY <1>1, <2>1, <2>3, <2>4 DEF RevertInv, GateInv, GateKnows, Captured
  <2> QED
    BY <2>4, <2>5
<1> QED
  BY <1>1, RevertInvariant, PTL

\* A revert restores files while no turn has a tool that changes any: it holds
\* the exclusive lease, and every tool of a turn works under its session's.
THEOREM RevertsRestoreAlone == Spec => []RestoresAlone
<1>1. ASSUME RevertInv
      PROVE  RestoresAlone
  <2>1. SUFFICES ASSUME revert.stage = "restoring", NEW s \in Sessions, phase[s] \in ToolStages
                 PROVE  FALSE
    BY <1>1 DEF RestoresAlone
  <2>2. <<s, "turn">> \in active /\ <<Root, "revert">> \in active
    BY <1>1, <2>1 DEF RevertInv, TypedInv, LeaseInv, LeaseTypes, ToolsMarked, RestoresLeased
  <2>3. Exclusive(<<Root, "revert">>) /\ <<Root, "revert">> # <<s, "turn">>
    BY DEF Exclusive
  <2> QED
    BY <1>1, <2>2, <2>3, ExclusiveAlone DEF RevertInv, TypedInv
<1> QED
  BY <1>1, RevertInvariant, PTL

-----------------------------------------------------------------------------
(* What the gate refuses.                                                  *)

\* A child that marked since the checkpoint c was captured has touched it.
Accounted(c) ==
    c.exists /\ c.epoch = epoch =>
        \A s \in Children : latest[s] > c.generation => s \in c.touched

ReasonInv ==
    /\ \A s \in Sessions : latest[s] <= generation
    /\ \A c \in Captured : Accounted(c)
    /\ revert.stage = "queued" => revert.target.exists

\* The same checkpoint, up to what it misses.
Alike(d, c) ==
    /\ d.exists = c.exists /\ d.epoch = c.epoch /\ d.generation = c.generation
    /\ c.touched \subseteq d.touched

LEMMA AlikeAccounted ==
    ASSUME NEW c, NEW d, Accounted(c), Alike(d, c)
    PROVE  Accounted(d)
  BY DEF Accounted, Alike

\* A step that marks nothing, and takes no other checkpoint in hand.
Unmarked ==
    /\ UNCHANGED <<epoch, generation, latest>>
    /\ Alike(checkpoint', checkpoint)
    /\ \/ Alike(revert'.target, revert.target) /\ revert'.stage = revert.stage
       \/ ~revert'.target.exists /\ revert'.stage # "queued"
       \/ Alike(revert'.target, checkpoint) /\ checkpoint.exists

LEMMA UnmarkedKeepsReason ==
    ASSUME ReasonInv, Unmarked
    PROVE  ReasonInv'
<1>1. \A c : Accounted(c) => Accounted(c)'
  BY DEF Accounted, Unmarked
<1>2. Accounted(checkpoint) /\ Accounted(revert.target)
  BY DEF ReasonInv, Captured
<1>3. Accounted(checkpoint')
  BY <1>2, AlikeAccounted DEF Unmarked
<1>4. Accounted(revert'.target)
  BY <1>2, AlikeAccounted DEF Unmarked, Accounted
<1>5. \A c \in Captured' : Accounted(c)'
  <2>1. Captured' = {checkpoint', revert'.target}
    BY DEF Captured
  <2>2. Accounted(checkpoint)' /\ Accounted(revert.target)'
    BY <1>3, <1>4 DEF Accounted, Unmarked
  <2> QED
    BY <2>1, <2>2
<1>6. revert'.stage = "queued" => revert'.target.exists
  BY DEF ReasonInv, Unmarked, Alike
<1>7. \A s \in Sessions : latest'[s] <= generation'
  BY DEF ReasonInv, Unmarked
<1> QED
  BY <1>5, <1>6, <1>7 DEF ReasonInv

\* The revert stays what it is, or there is none, and so does the checkpoint.
LEMMA UnmarkedUser ==
    ASSUME OtherTypes, UNCHANGED <<counts, checkpoint>>,
           \/ revert' = revert \/ revert' = NoRevert
           \/ revert' = [revert EXCEPT !.live = FALSE]
           \/ revert' = [NoRevert EXCEPT !.stage = "refused"]
           \/ /\ checkpoint.exists /\ revert'.target = checkpoint
    PROVE  Unmarked
<1>1. revert \in [stage : {"none", "refused", "queued", "restoring"}, live : BOOLEAN,
                  target : Checkpoints]
  BY DEF OtherTypes
<1>2. CASE revert' = revert \/ revert' = [revert EXCEPT !.live = FALSE]
  BY <1>1, <1>2 DEF Unmarked, Alike, counts
<1>3. CASE revert' = NoRevert \/ revert' = [NoRevert EXCEPT !.stage = "refused"]
  BY <1>3 DEF Unmarked, Alike, counts, NoRevert, NoCheckpoint
<1>4. CASE checkpoint.exists /\ revert'.target = checkpoint
  BY <1>4 DEF Unmarked, Alike, counts
<1> QED
  BY <1>2, <1>3, <1>4

LEMMA WritesUnmarked ==
    ASSUME OtherTypes, NEW s, Writes(s), UNCHANGED <<epoch, generation, latest>>
    PROVE  Unmarked
<1>1. /\ checkpoint \in Checkpoints /\ revert.target \in Checkpoints
      /\ revert \in [stage : {"none", "refused", "queued", "restoring"}, live : BOOLEAN,
                     target : Checkpoints]
  BY DEF OtherTypes
<1>2. \A c \in Checkpoints : Alike(Missing(c, {s}), c)
  BY DEF Checkpoints, Missing, Alike
<1>3. /\ checkpoint' = Missing(checkpoint, {s})
      /\ revert'.target = Missing(revert.target, {s}) /\ revert'.stage = revert.stage
  BY <1>1 DEF Writes
<1> QED
  BY <1>1, <1>2, <1>3 DEF Unmarked

\* A mark is entered into the checkpoint and into the revert in hand.
LEMMA MarkKeepsReason ==
    ASSUME OtherTypes, ReasonInv, NEW s \in Sessions, PrepareMutation(s), Marks(s)
    PROVE  ReasonInv'
<1>1. /\ generation \in Nat /\ latest \in [Sessions -> Nat] /\ Children \subseteq Sessions
      /\ checkpoint \in Checkpoints /\ revert.target \in Checkpoints
      /\ revert \in [stage : {"none", "refused", "queued", "restoring"}, live : BOOLEAN,
                     target : Checkpoints]
  BY DEF OtherTypes, Sessions
<1>2. /\ generation' = generation + 1 /\ latest' = [latest EXCEPT ![s] = generation + 1]
      /\ checkpoint' = Touched(checkpoint, {s}) /\ epoch' = epoch
      /\ revert' = [revert EXCEPT !.target = Touched(revert.target, {s})]
  BY DEF PrepareMutation, Bump
<1>3. revert'.target = Touched(revert.target, {s}) /\ revert'.stage = revert.stage
  BY <1>1, <1>2
<1>4. ASSUME NEW c \in Checkpoints, Accounted(c)
      PROVE  Accounted(Touched(c, {s}))' /\ Touched(c, {s}).exists = c.exists
  <2>1. /\ Touched(c, {s}).exists = c.exists /\ Touched(c, {s}).epoch = c.epoch
        /\ Touched(c, {s}).generation = c.generation
        /\ Touched(c, {s}).touched = c.touched \cup {s}
    BY DEF Touched, Checkpoints
  <2>2. \A r \in Sessions \ {s} : latest'[r] = latest[r]
    BY <1>1, <1>2
  <2> QED
    BY <1>1, <1>2, <1>4, <2>1, <2>2 DEF Accounted
<1>5. \A r \in Sessions : latest'[r] <= generation'
  BY <1>1, <1>2 DEF ReasonInv
<1>6. Accounted(checkpoint) /\ Accounted(revert.target)
  BY DEF ReasonInv, Captured
<1>7. Captured' = {Touched(checkpoint, {s}), Touched(revert.target, {s})}
  BY <1>2, <1>3 DEF Captured
<1>8. \A c \in Captured' : Accounted(c)'
  BY <1>1, <1>4, <1>6, <1>7
<1>9. revert'.stage = "queued" => revert'.target.exists
  BY <1>1, <1>3, <1>4, <1>6 DEF ReasonInv
<1> QED
  BY <1>5, <1>8, <1>9 DEF ReasonInv

\* A checkpoint that has just been captured is as young as the last mark.
LEMMA CaptureKeepsReason ==
    ASSUME OtherTypes, ReasonInv, EndCapture
    PROVE  ReasonInv'
<1>1. /\ revert' = revert \/ revert' = [revert EXCEPT !.live = FALSE]
      /\ UNCHANGED counts
  BY DEF EndCapture, GoOn, Run
<1>2. CASE UNCHANGED checkpoint
  BY <1>1, <1>2, UnmarkedUser, UnmarkedKeepsReason
<1>3. CASE /\ checkpoint'.epoch = epoch /\ checkpoint'.generation = generation
  <2>1. generation \in Nat /\ latest \in [Sessions -> Nat] /\ Children \subseteq Sessions
        /\ revert \in [stage : {"none", "refused", "queued", "restoring"}, live : BOOLEAN,
                       target : Checkpoints]
    BY DEF OtherTypes, Sessions
  <2>2. \A s \in Children : ~(latest'[s] > checkpoint'.generation)
    BY <1>1, <1>3, <2>1 DEF ReasonInv, counts
  <2>3. Accounted(checkpoint)'
    BY <2>2 DEF Accounted
  <2>4. revert'.target = revert.target /\ revert'.stage = revert.stage
    BY <1>1, <2>1
  <2>5. Accounted(revert.target)'
    BY <1>1, <2>4 DEF ReasonInv, Captured, Accounted, counts
  <2> QED
    BY <1>1, <2>3, <2>4, <2>5 DEF ReasonInv, Captured, counts
<1> QED
  BY <1>2, <1>3 DEF EndCapture

\* The mark of a revert is no other session's.
LEMMA JudgeKeepsReason ==
    ASSUME OtherTypes, ReasonInv, JudgeRevert
    PROVE  ReasonInv'
<1>1. /\ generation \in Nat /\ latest \in [Sessions -> Nat] /\ Children \subseteq Sessions
      /\ Root \notin Children /\ Root \in Sessions
      /\ checkpoint \in Checkpoints /\ revert.target \in Checkpoints
      /\ revert \in [stage : {"none", "refused", "queued", "restoring"}, live : BOOLEAN,
                     target : Checkpoints]
  BY SessionsAssumption DEF OtherTypes, Sessions
<1>2. CASE revert' = NoRevert /\ UNCHANGED <<counts, checkpoint>>
  BY <1>2, UnmarkedUser, UnmarkedKeepsReason
<1>3. CASE /\ Bump(Root) /\ revert' = [revert EXCEPT !.stage = "restoring"]
           /\ checkpoint' = Touched(checkpoint, {Root}) /\ UNCHANGED epoch
  <2>1. /\ generation' = generation + 1 /\ latest' = [latest EXCEPT ![Root] = generation + 1]
        /\ revert'.stage = "restoring" /\ revert'.target = revert.target
    BY <1>1, <1>3 DEF Bump
  <2>2. \A s \in Sessions : latest'[s] <= generation'
    BY <1>1, <2>1 DEF ReasonInv
  <2>3. \A s \in Children : latest'[s] = latest[s]
    BY <1>1, <2>1
  <2>4. Accounted(checkpoint) /\ Accounted(revert.target)
    BY DEF ReasonInv, Captured
  <2>5. Alike(Touched(checkpoint, {Root}), checkpoint)
    BY <1>1 DEF Alike, Touched, Checkpoints
  <2>6. \A c : Accounted(c) => Accounted(c)'
    BY <1>3, <2>3 DEF Accounted
  <2>7. Accounted(Touched(checkpoint, {Root}))
    BY <2>4, <2>5, AlikeAccounted
  <2>8. Captured' = {Touched(checkpoint, {Root}), revert.target}
    BY <1>3, <2>1 DEF Captured
  <2>9. \A c \in Captured' : Accounted(c)'
    BY <1>3, <2>3, <2>4, <2>7, <2>8 DEF Accounted
  <2> QED
    BY <2>1, <2>2, <2>9 DEF ReasonInv
<1> QED
  BY <1>2, <1>3 DEF JudgeRevert

\* A restart begins another epoch, unless nothing was marked in this one.
LEMMA RestartKeepsReason ==
    ASSUME OtherTypes, GateInv, ReasonInv, Restart
    PROVE  ReasonInv'
<1>1. /\ epoch \in Nat /\ checkpoint \in Checkpoints /\ Children \subseteq Sessions
      /\ checkpoint.epoch \in Nat /\ checkpoint.generation \in Nat /\ checkpoint.epoch <= epoch
  BY DEF OtherTypes, Checkpoints, GateInv, Captured, GateKnows, Sessions
<1>2. /\ generation' = 0 /\ latest' = [s \in Sessions |-> 0] /\ checkpoint' = checkpoint
      /\ revert'.target = NoCheckpoint /\ revert'.stage = "none"
  BY DEF Restart, NoRevert
<1>3. \A s \in Children : ~(latest'[s] > checkpoint.generation)
  BY <1>1, <1>2
<1>4. Accounted(checkpoint)' /\ Accounted(NoCheckpoint)'
  BY <1>2, <1>3 DEF Accounted, NoCheckpoint
<1>5. Captured' = {checkpoint', NoCheckpoint}
  BY <1>2 DEF Captured
<1> QED
  BY <1>2, <1>4, <1>5 DEF ReasonInv, Accounted

LEMMA ReasonStep ==
    ASSUME OtherTypes, GateInv, ReasonInv, [Next]_vars
    PROVE  ReasonInv'
<1>1. /\ revert \in [stage : {"none", "refused", "queued", "restoring"}, live : BOOLEAN,
                     target : Checkpoints]
  BY DEF OtherTypes
<1>2. ASSUME UNCHANGED <<counts, user>>
      PROVE  ReasonInv'
  BY <1>2, UnmarkedUser, UnmarkedKeepsReason DEF user
<1>3. CASE UNCHANGED vars
  BY <1>2, <1>3 DEF vars
<1>4. CASE RootStep
  <2>1. ASSUME NEW for, StartTurn(for)
        PROVE  ReasonInv'
    BY <2>1, UnmarkedUser, UnmarkedKeepsReason DEF StartTurn
  <2>2. CASE FirstTurn
    BY <2>2, UnmarkedUser, UnmarkedKeepsReason DEF FirstTurn, Run
  <2>3. CASE RequestCapture \/ BeginCapture \/ Finish
    BY <1>2, <2>3 DEF RequestCapture, BeginCapture, Finish
  <2>4. CASE RequestRevert
    <3>1. /\ checkpoint.exists /\ UNCHANGED <<counts, checkpoint>>
          /\ \/ revert' = [NoRevert EXCEPT !.stage = "refused"]
             \/ revert'.target = checkpoint
      BY <2>4 DEF RequestRevert
    <3> QED
      BY <3>1, UnmarkedUser, UnmarkedKeepsReason
  <2>5. CASE EndRevert
    BY <2>5, UnmarkedUser, UnmarkedKeepsReason DEF EndRevert
  <2> QED
    BY <1>4, <2>1, <2>2, <2>3, <2>4, <2>5, CaptureKeepsReason, JudgeKeepsReason
    DEF RootStep, UserTurn, CoordinatorTurn
<1>5. CASE Restart
  BY <1>5, RestartKeepsReason
<1>6. ASSUME NEW c \in Children, ChildStep(c)
      PROVE  ReasonInv'
  BY <1>2, <1>6 DEF ChildStep, Interject, Answer, Spawn, Launch, Ask, Complete
<1>7. ASSUME NEW s \in Sessions, SessionStep(s)
      PROVE  ReasonInv'
  <2>1. CASE TurnLeased(s) \/ EndTurn(s) \/ EndWrite(s) \/ OrphanEnds(s)
    BY <1>2, <2>1 DEF TurnLeased, EndTurn, EndWrite, OrphanEnds
  <2>2. CASE BeginWrite(s) \/ OrphanWrites(s)
    BY <2>2, WritesUnmarked, UnmarkedKeepsReason DEF BeginWrite, OrphanWrites
  <2>3. CASE PrepareMutation(s) /\ Marks(s)
    BY <2>3, MarkKeepsReason
  <2>4. CASE PrepareMutation(s) /\ ~Marks(s)
    BY <2>4, WritesUnmarked, UnmarkedKeepsReason DEF PrepareMutation
  <2> QED
    BY <1>7, <2>1, <2>2, <2>3, <2>4 DEF SessionStep
<1>8. ASSUME NEW ss, Stop(ss)
      PROVE  ReasonInv'
  <2>1. UNCHANGED <<counts, checkpoint>> /\ (revert' = NoRevert \/ revert' = revert)
    BY <1>8 DEF Stop
  <2> QED
    BY <2>1, UnmarkedUser, UnmarkedKeepsReason
<1> QED
  BY <1>3, <1>4, <1>5, <1>6, <1>7, <1>8 DEF Next

\* The gate refuses no revert for nothing: within an epoch, some other
\* session marked a mutation since the checkpoint was captured.
THEOREM RefusalsHaveReasons == Spec => []RefusalsHaveReason
<1>1. Init => ReasonInv
  BY DEF Init, ReasonInv, Captured, Accounted, NoCheckpoint, NoRevert, Sessions
<1>2. ASSUME OtherTypes, ReasonInv
      PROVE  RefusalsHaveReason
  <2>1. SUFFICES ASSUME revert.stage = "queued", Conflicts(revert.target),
                        revert.target.epoch = epoch
                 PROVE  revert.target.touched \ {Root} # {}
    BY DEF RefusalsHaveReason
  <2>2. PICK s \in Children : latest[s] > revert.target.generation
    BY <2>1 DEF Conflicts
  <2>3. s \in revert.target.touched
    BY <1>2, <2>1, <2>2 DEF ReasonInv, Captured, Accounted
  <2>4. s # Root
    BY SessionsAssumption
  <2> QED
    BY <2>3, <2>4
<1>3. ASSUME RevertInv, ReasonInv, [Next]_vars
      PROVE  ReasonInv'
  BY <1>3, ReasonStep DEF RevertInv, TypedInv
<1> QED
  BY <1>1, <1>2, <1>3, RevertInvariant, PTL DEF Spec, RevertInv, TypedInv
=============================================================================
