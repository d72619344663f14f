---------------------- MODULE SessionPersistenceProofs ----------------------
(***************************************************************************)
(* How sessions are saved, for any sessions, changes, requests, crashes    *)
(* and power losses: what saveSessionNow reported as saved survives, the   *)
(* manager knows the revision on disk, a last change reaches the disk on   *)
(* its tier, and durable metadata refers to a durable transcript.          *)
(*                                                                         *)
(* What is promised stays because saves reach the disk in the order of     *)
(* their age: captured records wait in that order and any other save       *)
(* writes the session as it is.  So the invariant compares, of every       *)
(* session by itself, the number of what was promised, what runs, what     *)
(* waits captured and what is in memory (Clocked to RunningInv), and says  *)
(* how far the operation that runs has got with the transcript, the        *)
(* metadata and the index (KnownInv to RevisionInv).  The index is shared: *)
(* what another session's flush does to it is ListedInv.                   *)
(***************************************************************************)
EXTENDS SessionPersistence, SequenceTheorems, TLAPS

\* A sequence that is not empty, its first element and the others.
LEMMA FirstAndRest ==
    ASSUME NEW T, NEW q \in Seq(T), q # <<>>
    PROVE  /\ Head(q) = q[1] /\ Head(q) \in T
           /\ Tail(q) \in Seq(T) /\ Len(Tail(q)) = Len(q) - 1
           /\ \A i \in 1 .. Len(q) - 1 : Tail(q)[i] = q[i + 1]
           /\ Len(q) \in Nat /\ Len(q) >= 1
  OBVIOUS

\* A sequence with one element more.
LEMMA Appended ==
    ASSUME NEW T, NEW q \in Seq(T), NEW x \in T
    PROVE  /\ Append(q, x) \in Seq(T) /\ Append(q, x) # <<>>
           /\ Len(Append(q, x)) = Len(q) + 1 /\ Len(q) \in Nat
           /\ \A i \in 1 .. Len(q) : Append(q, x)[i] = q[i] /\ q[i] \in T
           /\ Append(q, x)[Len(q) + 1] = x
  OBVIOUS

\* The empty sequence has no positions.
LEMMA EmptyHasNone ==
    ASSUME NEW T, NEW q \in Seq(T)
    PROVE  q = <<>> <=> Len(q) = 0
  OBVIOUS

-----------------------------------------------------------------------------
(* The types.                                                              *)

\* What a file holds after it was written.
LEMMA WrittenTyped ==
    ASSUME NEW S, NEW old \in Files(S), NEW new \in S, NEW tier
    PROVE  Written(old, new, tier) \in Files(S)
  BY DEF Written, Files

\* The operation that runs is one.
LEMMA OpTyped ==
    ASSUME TypeOK, NEW s \in Sessions, ops[s] # <<>>
    PROVE  Op(s) \in Operations /\ Tail(ops[s]) \in Seq(Operations)
<1>1. ops[s] \in Seq(Operations)
  BY DEF TypeOK
<1> QED
  BY <1>1, FirstAndRest DEF Op

\* A save is an operation.
LEMMA SaveTyped ==
    ASSUME TypeOK, NEW s \in Sessions, NEW captured \in BOOLEAN, NEW record,
           record.text \in Nat, record.state \in Nat, NEW tier \in Tiers
    PROVE  Save(s, captured, record, tier) \in Operations
<1>1. revision[s] \in Nat
  BY DEF TypeOK
<1> QED
  BY <1>1 DEF Save, Operations

\* What is owed after a request.
LEMMA OweTyped ==
    ASSUME TypeOK, NEW s \in Sessions, NEW tier \in Tiers, Owe(s, tier)
    PROVE  owed' \in [Sessions -> Files(Nat)]
<1>1. live[s].state \in Nat /\ owed \in [Sessions -> Files(Nat)] /\ owed[s].synced \in Nat
  BY DEF TypeOK, Versions, Files
<1>2. [file |-> live[s].state,
       synced |-> IF tier = "durable" THEN live[s].state ELSE owed[s].synced] \in Files(Nat)
  BY <1>1 DEF Files
<1> QED
  BY <1>1, <1>2 DEF Owe

\* Requests are bounded.
LEMMA AskedTyped ==
    ASSUME TypeOK, NEW s \in Sessions, Asked(s)
    PROVE  requests' \in 0 .. MaxRequests
  BY BoundsAssumption DEF Asked, TypeOK

\* Requests of the manager keep the types.
LEMMA ManagerTypes ==
    ASSUME TypeOK, NEW s \in Sessions,
           \/ Change(s) \/ \E tier \in Tiers : SaveSession(s, tier)
           \/ SaveSessionNow(s) \/ Rename(s)
    PROVE  TypeOK'
<1>t. /\ live[s] \in Versions /\ queue[s] \in Seq(Entries) /\ ops[s] \in Seq(Operations)
      /\ live[s].text \in Nat /\ live[s].state \in Nat /\ clock \in Nat
      /\ live \in [Sessions -> Versions] /\ queue \in [Sessions -> Seq(Entries)]
      /\ ops \in [Sessions -> Seq(Operations)] /\ deferred \in [Sessions -> Tiers \cup {NoTier}]
      /\ revision \in [Sessions -> Nat] /\ metadata[s].file.revision \in Nat
  BY DEF TypeOK, Versions, Files, Records
<1>1. CASE Change(s)
  <2>1. PICK text \in {live[s].text, clock + 1} :
            live' = [live EXCEPT ![s] = [text |-> text, state |-> clock + 1]]
    BY <1>1 DEF Change
  <2>2. [text |-> text, state |-> clock + 1] \in Versions
    BY <1>t DEF Versions
  <2>3. live' \in [Sessions -> Versions] /\ clock' \in Nat
    BY <1>1, <1>t, <2>1, <2>2 DEF Change
  <2> QED
    BY <1>1, <2>3 DEF Change, TypeOK, storeVars, diskVars, historyVars
<1>2. ASSUME NEW tier \in Tiers, Coalesce(s, tier) PROVE TypeOK'
  <2>1. deferred' \in [Sessions -> Tiers \cup {NoTier}]
    BY <1>2, <1>t DEF Coalesce, Upgraded, Tiers
  <2>2. owed' \in [Sessions -> Files(Nat)]
    BY <1>2, OweTyped DEF Coalesce, TypeOK
  <2> QED
    BY <1>2, <2>1, <2>2, AskedTyped DEF Coalesce, TypeOK, storeVars, diskVars
<1>3. ASSUME NEW tier \in Tiers, NEW captured \in BOOLEAN, SaveAtOnce(s, captured, tier)
      PROVE  TypeOK'
  <2>1. Append(ops[s], Save(s, captured, live[s], tier)) \in Seq(Operations)
    BY <1>t, SaveTyped, Appended
  <2>2. ops' \in [Sessions -> Seq(Operations)]
    BY <1>3, <1>t, <2>1 DEF SaveAtOnce
  <2>3. owed' \in [Sessions -> Files(Nat)] /\ requests' \in 0 .. MaxRequests
    BY <1>3, OweTyped, AskedTyped DEF SaveAtOnce
  <2> QED
    BY <1>3, <2>2, <2>3 DEF SaveAtOnce, TypeOK, managerVars, diskVars
<1>4. ASSUME NEW captured \in BOOLEAN
      PROVE  [queue EXCEPT ![s] =
                Append(@, [captured |-> captured, text |-> live[s].text, state |-> live[s].state])]
                    \in [Sessions -> Seq(Entries)]
  <2>1. [captured |-> captured, text |-> live[s].text, state |-> live[s].state] \in Entries
    BY <1>t DEF Entries
  <2>2. Append(queue[s], [captured |-> captured, text |-> live[s].text, state |-> live[s].state])
            \in Seq(Entries)
    BY <1>t, <2>1, Appended
  <2> QED
    BY <1>t, <2>2
<1>5. ASSUME NEW tier \in Tiers, Defer(s, tier) PROVE TypeOK'
  <2>1. queue' \in [Sessions -> Seq(Entries)] /\ deferred' \in [Sessions -> Tiers \cup {NoTier}]
    BY <1>5, <1>4, <1>t DEF Defer
  <2>2. owed' \in [Sessions -> Files(Nat)] /\ requests' \in 0 .. MaxRequests
    BY <1>5, OweTyped, AskedTyped DEF Defer
  <2> QED
    BY <1>5, <2>1, <2>2 DEF Defer, TypeOK, storeVars, diskVars
<1>6. CASE CaptureBehind(s)
  <2>1. queue' \in [Sessions -> Seq(Entries)]
    BY <1>6, <1>4 DEF CaptureBehind
  <2>2. owed' \in [Sessions -> Files(Nat)] /\ requests' \in 0 .. MaxRequests
    BY <1>6, OweTyped, AskedTyped DEF CaptureBehind, Tiers
  <2> QED
    BY <1>6, <2>1, <2>2 DEF CaptureBehind, TypeOK, storeVars, diskVars
<1>7. CASE Rename(s)
  <2> DEFINE expected == IF revision[s] # 0 THEN revision[s] ELSE metadata[s].file.revision
             op == [kind |-> "rename", captured |-> FALSE, expected |-> expected,
                    text |-> 0, state |-> 0, tier |-> "durable"]
  <2>1. expected \in Nat
    BY <1>t
  <2>2. op \in Operations
    BY <2>1 DEF Operations, Tiers
  <2>3. Append(ops[s], op) \in Seq(Operations)
    BY <1>t, <2>2, Appended
  <2>4. revision' \in [Sessions -> Nat] /\ ops' \in [Sessions -> Seq(Operations)]
    BY <1>7, <1>t, <2>1, <2>3 DEF Rename
  <2>5. requests' \in 0 .. MaxRequests
    BY <1>7, AskedTyped DEF Rename
  <2> QED
    BY <1>7, <2>4, <2>5 DEF Rename, TypeOK, diskVars
<1>8. ASSUME NEW tier \in Tiers, SaveSession(s, tier) PROVE TypeOK'
  <2>1. CASE SaveAtOnce(s, FALSE, tier)
    BY <2>1, <1>3
  <2> QED
    BY <2>1, <1>8, <1>2, <1>5 DEF SaveSession
<1>9. CASE SaveSessionNow(s)
  <2>1. CASE SaveAtOnce(s, TRUE, "durable")
    <3>1. "durable" \in Tiers
      BY DEF Tiers
    <3> QED
      BY <2>1, <3>1, <1>3
  <2> QED
    BY <2>1, <1>9, <1>6 DEF SaveSessionNow
<1> QED
  BY <1>1, <1>7, <1>8, <1>9

\* The start of a waiting save keeps the types.
LEMMA StartTypes ==
    ASSUME TypeOK, NEW s \in Sessions, Start(s),
           \A i \in 1 .. Len(queue[s]) : ~queue[s][i].captured => deferred[s] # NoTier
    PROVE  TypeOK'
<1>t. /\ live[s].text \in Nat /\ live[s].state \in Nat
      /\ queue[s] \in Seq(Entries) /\ ops[s] \in Seq(Operations)
      /\ queue \in [Sessions -> Seq(Entries)] /\ ops \in [Sessions -> Seq(Operations)]
      /\ deferred \in [Sessions -> Tiers \cup {NoTier}]
      /\ queue[s] # <<>>
  BY DEF TypeOK, Versions, Start
<1>1. /\ Head(queue[s]) \in Entries /\ Tail(queue[s]) \in Seq(Entries)
      /\ ~Head(queue[s]).captured => deferred[s] # NoTier
  BY <1>t, FirstAndRest
<1>2. Due(s) \in Operations
  <2>1. CASE Head(queue[s]).captured
    <3>1. Due(s) = Save(s, TRUE, Head(queue[s]), "durable")
      BY <2>1 DEF Due
    <3> QED
      BY <3>1, <1>1, SaveTyped DEF Entries, Tiers
  <2>2. CASE ~Head(queue[s]).captured
    <3>1. Due(s) = Save(s, FALSE, live[s], deferred[s]) /\ deferred[s] \in Tiers
      BY <2>2, <1>1, <1>t DEF Due, Tiers, NoTier
    <3> QED
      BY <3>1, <1>t, SaveTyped
  <2> QED
    BY <2>1, <2>2
<1>3. ops' \in [Sessions -> Seq(Operations)]
  <2>1. Append(ops[s], Due(s)) \in Seq(Operations)
    BY <1>2, <1>t, Appended
  <2> QED
    BY <2>1, <1>t DEF Start
<1>4. queue' \in [Sessions -> Seq(Entries)] /\ deferred' \in [Sessions -> Tiers \cup {NoTier}]
  BY <1>1, <1>t DEF Start
<1> QED
  BY <1>3, <1>4 DEF Start, TypeOK, diskVars, historyVars

\* Where an operation goes to is a step.
LEMMA GotoTyped ==
    ASSUME TypeOK, NEW s \in Sessions, NEW stage \in Steps, Goto(s, stage)
    PROVE  step' \in [Sessions -> Steps]
  BY DEF Goto, TypeOK

\* What an operation writes.
LEMMA TextTyped ==
    ASSUME TypeOK, NEW s \in Sessions, ops[s] # <<>>
    PROVE  TextOf(s) \in Nat /\ StateOf(s) \in Nat
<1>1. Op(s).text \in Nat /\ Op(s).state \in Nat
  BY OpTyped DEF Operations
<1>2. messages[s].file \in Nat /\ metadata[s].file.state \in Nat
  BY DEF TypeOK, Files, Records
<1> QED
  BY <1>1, <1>2 DEF TextOf, StateOf

\* The steps of an operation keep the types.
LEMMA OperationTypes ==
    ASSUME TypeOK, NEW s \in Sessions, step[s] # "idle" => ops[s] # <<>>,
           \/ Begin(s) \/ Refuse(s) \/ WriteMessages(s) \/ SyncMessages(s) \/ WriteMetadata(s)
           \/ Fail(s) \/ Settle(s)
    PROVE  TypeOK'
<1>t. /\ outcome \in [Sessions -> Outcomes] /\ messages \in [Sessions -> Files(Nat)]
      /\ metadata \in [Sessions -> Files(Records)] /\ ops \in [Sessions -> Seq(Operations)]
      /\ known \in [Sessions -> [counter : Nat, digest : Nat, tier : Tiers \cup {NoTier}]]
      /\ messages[s] \in Files(Nat) /\ metadata[s] \in Files(Records)
      /\ messages[s].file \in Nat /\ metadata[s].file.revision \in Nat
      /\ live[s].text \in Nat /\ revision \in [Sessions -> Nat]
      /\ owed \in [Sessions -> Files(Nat)] /\ owed[s].file \in Nat /\ owed[s].synced \in Nat
  BY DEF TypeOK, Files, Records, Versions
<1>1. CASE Begin(s)
  <2>1. PICK stage \in {"messages", "sync", "metadata"} : Goto(s, stage)
    BY <1>1 DEF Begin
  <2>2. step' \in [Sessions -> Steps]
    BY <2>1, GotoTyped DEF Steps
  <2> QED
    BY <1>1, <2>2 DEF Begin, TypeOK, managerVars, diskVars, historyVars
<1>2. CASE Refuse(s)
  <2>1. step' \in [Sessions -> Steps]
    BY <1>2, GotoTyped DEF Refuse, Steps
  <2>2. outcome' \in [Sessions -> Outcomes]
    BY <1>2, <1>t DEF Refuse, Outcomes
  <2> QED
    BY <1>2, <2>1, <2>2 DEF Refuse, TypeOK, managerVars, diskVars, historyVars
<1>3. CASE WriteMessages(s)
  <2>1. ops[s] # <<>>
    BY <1>3 DEF WriteMessages, At
  <2>2. Op(s) \in Operations /\ TextOf(s) \in Nat
    BY <2>1, OpTyped, TextTyped
  <2>3. PICK text \in TextOf(s) .. IF Op(s).kind = "save" THEN live[s].text ELSE TextOf(s) :
            messages' = [messages EXCEPT ![s] = Written(@, text, Op(s).tier)]
    BY <1>3 DEF WriteMessages
  <2>4. text \in Nat
    BY <2>2, <2>3, <1>t
  <2>5. Written(messages[s], text, Op(s).tier) \in Files(Nat)
    BY <2>4, <1>t, WrittenTyped
  <2>6. messages' \in [Sessions -> Files(Nat)]
    BY <2>3, <2>5, <1>t
  <2>7. Op(s).text \in Nat /\ Op(s).tier \in Tiers
    BY <2>2 DEF Operations
  <2>8. known' \in [Sessions -> [counter : Nat, digest : Nat, tier : Tiers \cup {NoTier}]]
    BY <1>3, <2>2, <2>7, <1>t DEF WriteMessages
  <2>9. step' \in [Sessions -> Steps]
    BY <1>3, GotoTyped DEF WriteMessages, Steps
  <2> QED
    BY <1>3, <2>6, <2>8, <2>9 DEF WriteMessages, TypeOK, managerVars, historyVars
<1>4. CASE SyncMessages(s)
  <2>1. Both(messages[s].file) \in Files(Nat)
    BY <1>t DEF Both, Files
  <2>2. messages' \in [Sessions -> Files(Nat)]
    BY <1>4, <2>1, <1>t DEF SyncMessages
  <2>3. known' \in [Sessions -> [counter : Nat, digest : Nat, tier : Tiers \cup {NoTier}]]
    BY <1>4, <1>t DEF SyncMessages, Tiers
  <2>4. step' \in [Sessions -> Steps]
    BY <1>4, GotoTyped DEF SyncMessages, Steps
  <2> QED
    BY <1>4, <2>2, <2>3, <2>4 DEF SyncMessages, TypeOK, managerVars, historyVars
<1>5. CASE WriteMetadata(s)
  <2>1. ops[s] # <<>>
    BY <1>5 DEF WriteMetadata, At
  <2>2. Op(s).tier \in Tiers /\ TextOf(s) \in Nat /\ StateOf(s) \in Nat
    BY <2>1, OpTyped, TextTyped DEF Operations
  <2> DEFINE new == [revision |-> metadata[s].file.revision + 1, text |-> TextOf(s), state |-> StateOf(s)]
  <2>3. new \in Records
    BY <2>2, <1>t DEF Records
  <2>4. Written(metadata[s], new, Op(s).tier) \in Files(Records)
    BY <2>3, <1>t, WrittenTyped
  <2>5. metadata' \in [Sessions -> Files(Records)]
    BY <1>5, <2>4, <1>t DEF WriteMetadata
  <2>6. index' \subseteq Sessions /\ flush' \in Tiers \cup {NoTier}
    BY <1>5, <2>2 DEF WriteMetadata, TypeOK, Scheduled, Upgraded, Tiers
  <2>7. step' \in [Sessions -> Steps]
    BY <1>5, GotoTyped DEF WriteMetadata, Steps
  <2> QED
    BY <1>5, <2>5, <2>6, <2>7 DEF WriteMetadata, TypeOK, managerVars, historyVars
<1>6. CASE Fail(s)
  <2>1. step' \in [Sessions -> Steps]
    BY <1>6, GotoTyped DEF Fail, Steps
  <2>2. outcome' \in [Sessions -> Outcomes] /\ faults' \in 0 .. MaxFaults
    BY <1>6, <1>t, BoundsAssumption DEF Fail, Fault, Outcomes, TypeOK
  <2> QED
    BY <1>6, <2>1, <2>2 DEF Fail, TypeOK, managerVars, diskVars
<1>7. CASE Settle(s)
  <2>1. ops[s] # <<>>
    BY <1>7 DEF Settle, At
  <2>2. Op(s) \in Operations /\ Tail(ops[s]) \in Seq(Operations)
    BY <2>1, OpTyped
  <2>3. ops' \in [Sessions -> Seq(Operations)]
    BY <1>7, <2>2, <1>t DEF Settle
  <2>4. revision' \in [Sessions -> Nat]
    BY <1>7, <1>t DEF Settle, Learned
  <2>5. promised' \in [Sessions -> Versions]
    <3>1. [text |-> Op(s).text, state |-> Op(s).state] \in Versions
      BY <2>2 DEF Operations, Versions
    <3> QED
      BY <1>7, <3>1 DEF Settle, TypeOK
  <2>6. owed' \in [Sessions -> Files(Nat)]
    <3>1. [file |-> IF queue[s] = <<>> THEN 0 ELSE owed[s].file,
           synced |-> IF DurableWaits(s) THEN owed[s].synced ELSE 0] \in Files(Nat)
      BY <1>t DEF Files
    <3> QED
      BY <1>7, <3>1, <1>t DEF Settle
  <2>7. step' \in [Sessions -> Steps]
    BY <1>7, GotoTyped DEF Settle, Steps
  <2> QED
    BY <1>7, <2>3, <2>4, <2>5, <2>6, <2>7 DEF Settle, TypeOK, diskVars
<1> QED
  BY <1>1, <1>2, <1>3, <1>4, <1>5, <1>6, <1>7

\* Where a flush moves the operations to is a step.
LEMMA MovedTyped ==
    ASSUME TypeOK, NEW from, NEW to \in Steps
    PROVE  Moved(from, to) \in [Sessions -> Steps]
  BY DEF Moved, TypeOK

\* Flushes keep the types.
LEMMA FlushTypes ==
    ASSUME TypeOK, StartFlush \/ WriteIndex \/ FailFlush
    PROVE  TypeOK'
<1>1. CASE StartFlush
  <2>1. step' \in [Sessions -> Steps]
    BY <1>1, MovedTyped DEF StartFlush, Steps
  <2>2. flush \in Tiers /\ index \subseteq Sessions
    BY <1>1 DEF StartFlush, TypeOK
  <2>3. flight' \in [tier : Tiers, listed : SUBSET Sessions] /\ flush' = NoTier
    BY <1>1, <2>2 DEF StartFlush
  <2> QED
    BY <1>1, <2>1, <2>3 DEF StartFlush, TypeOK, managerVars, diskVars, historyVars
<1>2. ASSUME NEW ending \in Outcomes, FlushEnds(ending)
      PROVE  step' \in [Sessions -> Steps] /\ outcome' \in [Sessions -> Outcomes]
  <2>1. step' \in [Sessions -> Steps]
    BY <1>2, MovedTyped DEF FlushEnds, Steps
  <2> QED
    BY <1>2, <2>1 DEF FlushEnds, TypeOK
<1>3. CASE WriteIndex
  <2>1. step' \in [Sessions -> Steps] /\ outcome' \in [Sessions -> Outcomes]
    BY <1>2, <1>3 DEF WriteIndex, Outcomes
  <2>2. flight.listed \in SUBSET Sessions /\ listing \in Files(SUBSET Sessions)
    BY <1>3 DEF WriteIndex, FlushEnds, TypeOK
  <2>3. listing' \in Files(SUBSET Sessions)
    BY <1>3, <2>2, WrittenTyped DEF WriteIndex
  <2> QED
    BY <1>3, <2>1, <2>3 DEF WriteIndex, FlushEnds, TypeOK, managerVars
<1>4. CASE FailFlush
  <2>1. step' \in [Sessions -> Steps] /\ outcome' \in [Sessions -> Outcomes]
    BY <1>2, <1>4 DEF FailFlush, Outcomes
  <2>2. faults' \in 0 .. MaxFaults
    BY <1>4, BoundsAssumption DEF FailFlush, Fault, TypeOK
  <2> QED
    BY <1>4, <2>1, <2>2 DEF FailFlush, FlushEnds, TypeOK, managerVars
<1> QED
  BY <1>1, <1>3, <1>4

\* What files hold after a power loss.
LEMMA AfterTyped ==
    ASSUME NEW S, NEW files \in [Sessions -> Files(S)], NEW lost
    PROVE  After(files, lost) \in [Sessions -> Files(S)]
<1>1. ASSUME NEW s \in Sessions
      PROVE  Both(IF s \in lost THEN files[s].synced ELSE files[s].file) \in Files(S)
  <2>1. files[s] \in Files(S)
    OBVIOUS
  <2> QED
    BY <2>1 DEF Both, Files
<1> QED
  BY <1>1 DEF After

\* A crash or a power loss keeps the types.
LEMMA RestartTypes ==
    ASSUME TypeOK, Crash \/ PowerLoss
    PROVE  TypeOK'
<1>1. /\ messages' \in [Sessions -> Files(Nat)] /\ metadata' \in [Sessions -> Files(Records)]
      /\ listing' \in Files(SUBSET Sessions)
  <2>1. CASE Crash
    BY <2>1 DEF Crash, diskVars, TypeOK
  <2>2. CASE PowerLoss
    <3>1. messages' \in [Sessions -> Files(Nat)]
      <4>1. PICK lost \in SUBSET Unsynced(messages) : messages' = After(messages, lost)
        BY <2>2 DEF PowerLoss
      <4>2. messages \in [Sessions -> Files(Nat)]
        BY DEF TypeOK
      <4> QED
        BY <4>1, <4>2, AfterTyped
    <3>2. metadata' \in [Sessions -> Files(Records)]
      <4>1. PICK lost \in SUBSET Unsynced(metadata) : metadata' = After(metadata, lost)
        BY <2>2 DEF PowerLoss
      <4>2. metadata \in [Sessions -> Files(Records)]
        BY DEF TypeOK
      <4> QED
        BY <4>1, <4>2, AfterTyped
    <3>3. listing' \in Files(SUBSET Sessions)
      BY <2>2 DEF PowerLoss, TypeOK, Both, Files
    <3> QED
      BY <3>1, <3>2, <3>3
  <2> QED
    BY <2>1, <2>2
<1>2. Restart
  BY DEF Crash, PowerLoss
<1>3. ASSUME NEW s \in Sessions
      PROVE  /\ messages'[s].file \in Nat /\ metadata'[s].file.state \in Nat
             /\ metadata'[s].file.revision \in Nat
  <2>1. messages'[s] \in Files(Nat) /\ metadata'[s] \in Files(Records)
    BY <1>1
  <2> QED
    BY <2>1 DEF Files, Records
<1>4. /\ index' \subseteq Sessions /\ open' \subseteq Sessions
      /\ live' \in [Sessions -> Versions] /\ revision' \in [Sessions -> Nat]
  <2>1. index' \subseteq Sessions
    BY <1>1, <1>2 DEF Restart, Files
  <2>2. open' \subseteq Sessions
    BY <1>2, <2>1 DEF Restart
  <2>3. ASSUME NEW s \in Sessions
        PROVE  [text |-> messages'[s].file, state |-> metadata'[s].file.state] \in Versions
    BY <1>3 DEF Versions
  <2>4. live' \in [Sessions -> Versions]
    BY <1>2, <2>3 DEF Restart
  <2>5. revision' \in [Sessions -> Nat]
    BY <1>2, <1>3 DEF Restart
  <2> QED
    BY <2>1, <2>2, <2>4, <2>5
<1>5. faults' \in 0 .. MaxFaults
  BY <1>2, BoundsAssumption DEF Restart, Fault, TypeOK
<1>6. /\ queue' \in [Sessions -> Seq(Entries)] /\ deferred' \in [Sessions -> Tiers \cup {NoTier}]
      /\ ops' \in [Sessions -> Seq(Operations)] /\ step' \in [Sessions -> Steps]
      /\ outcome' \in [Sessions -> Outcomes]
      /\ known' \in [Sessions -> [counter : Nat, digest : Nat, tier : Tiers \cup {NoTier}]]
      /\ flush' = NoTier /\ flight' = NoFlight /\ owed' \in [Sessions -> Files(Nat)]
  <2>1. NothingKnown \in [counter : Nat, digest : Nat, tier : Tiers \cup {NoTier}]
    BY DEF NothingKnown
  <2>2. NothingOwed \in Files(Nat)
    BY DEF NothingOwed, Files
  <2> QED
    BY <1>2, <2>1, <2>2 DEF Restart, Steps, Outcomes
<1> QED
  BY <1>1, <1>2, <1>4, <1>5, <1>6 DEF Restart, TypeOK

\* The types hold at the start.
LEMMA InitTypes ==
    ASSUME Init
    PROVE  TypeOK
<1>1. NothingKnown \in [counter : Nat, digest : Nat, tier : Tiers \cup {NoTier}]
  BY DEF NothingKnown
<1>2. NothingOwed \in Files(Nat) /\ Both(0) \in Files(Nat) /\ Both({}) \in Files(SUBSET Sessions)
  BY DEF NothingOwed, Files, Both
<1>3. Both(NoMetadata) \in Files(Records)
  BY DEF Both, NoMetadata, Records, Files
<1>4. [text |-> 1, state |-> 1] \in Versions /\ [text |-> 0, state |-> 0] \in Versions
  BY DEF Versions
<1>5. "idle" \in Steps /\ "ok" \in Outcomes /\ 0 \in 0 .. MaxRequests /\ 0 \in 0 .. MaxFaults
  BY BoundsAssumption DEF Steps, Outcomes
<1> QED
  BY <1>1, <1>2, <1>3, <1>4, <1>5 DEF Init, TypeOK

-----------------------------------------------------------------------------
(* The inductive invariant, of every session.                              *)

NotOlder(a, b) == a.text <= b.text /\ a.state <= b.state

\* No number is ahead of the clock.
Clocked(s) ==
    /\ live[s].text <= clock /\ live[s].state <= clock
    /\ messages[s].file <= clock /\ messages[s].synced <= clock
    /\ metadata[s].file.state <= clock /\ metadata[s].synced.state <= clock
    /\ s \in open => live[s].text >= 1

\* Of the saves that wait at most one was not captured, and its tier is known
\* for as long as it waits.
WaitingInv(s) ==
    /\ queue[s] # <<>> => s \in open
    /\ \A i \in 1 .. Len(queue[s]) : ~queue[s][i].captured => deferred[s] # NoTier
    /\ \A i, j \in 1 .. Len(queue[s]) : ~queue[s][i].captured /\ ~queue[s][j].captured => i = j
    /\ deferred[s] # NoTier => \E i \in 1 .. Len(queue[s]) : ~queue[s][i].captured

\* Captured records wait in the order of their age.
CapturedInv(s) ==
    /\ NotOlder(promised[s], live[s])
    /\ \A i \in 1 .. Len(queue[s]) : queue[s][i].captured =>
        /\ queue[s][i].text >= 1
        /\ NotOlder(promised[s], queue[s][i]) /\ NotOlder(queue[s][i], live[s])
    /\ \A i, j \in 1 .. Len(queue[s]) :
        i < j /\ queue[s][i].captured /\ queue[s][j].captured => NotOlder(queue[s][i], queue[s][j])

\* One save runs at a time; it is not older than what was promised, nor newer
\* than the captured records that wait.
RunningInv(s) ==
    /\ ops[s] # <<>> => s \in open
    /\ step[s] # "idle" => ops[s] # <<>>
    /\ \A i, j \in 1 .. Len(ops[s]) : ops[s][i].kind = "save" /\ ops[s][j].kind = "save" => i = j
    /\ \A i \in 1 .. Len(ops[s]) :
        /\ ops[s][i].kind = "rename" =>
            ops[s][i].tier = "durable" /\ ~ops[s][i].captured /\ ops[s][i].expected # 0
        /\ ops[s][i].captured => ops[s][i].tier = "durable"
        /\ ops[s][i].kind = "save" =>
            /\ ops[s][i].text >= 1
            /\ NotOlder(promised[s], ops[s][i]) /\ NotOlder(ops[s][i], live[s])
        /\ ops[s][i].kind = "save" /\ ops[s][i].captured =>
            \A j \in 1 .. Len(queue[s]) : queue[s][j].captured => NotOlder(ops[s][i], queue[s][j])

\* What the store knows of a transcript is so.
KnownInv(s) ==
    /\ known[s].tier = NoTier => known[s].counter = 0 /\ known[s].digest = 0
    /\ known[s].counter <= messages[s].file
    /\ known[s].tier = "durable" => messages[s].synced = messages[s].file

Ended(s) == At(s, "settled") /\ outcome[s] = "ok"
Landed(s) == At(s, "waiting") \/ At(s, "flushing") \/ Ended(s)

\* How far an operation has got with the files of its session.
WriteInv(s) ==
    /\ (At(s, "sync") \/ At(s, "metadata") \/ Landed(s)) /\ Op(s).kind = "save" =>
        Op(s).text <= messages[s].file
    /\ (At(s, "metadata") \/ Landed(s)) /\ Op(s).tier = "durable" =>
        messages[s].synced = messages[s].file
    /\ Landed(s) /\ Op(s).kind = "save" => metadata[s].file.state = Op(s).state
    /\ Landed(s) /\ Op(s).tier = "durable" => metadata[s].synced = metadata[s].file

\* How far an operation has got with the index.
ListedInv(s) ==
    /\ At(s, "waiting") =>
        s \in index /\ flush # NoTier /\ (Op(s).tier = "durable" => flush = "durable")
    /\ At(s, "flushing") =>
        /\ s \in index /\ flight # NoFlight /\ s \in flight.listed
        /\ Op(s).tier = "durable" => flight.tier = "durable"
    /\ promised[s].state # 0 \/ (Ended(s) /\ Op(s).tier = "durable") =>
        /\ s \in index /\ s \in listing.file /\ s \in listing.synced
        /\ flight # NoFlight => s \in flight.listed

\* A revision that is expected is one the disk has had.
RevisionInv(s) ==
    /\ s \in open /\ metadata[s].file.revision # 0 => Readable(s)
    /\ s \in open /\ (revision[s] # 0 \/ s \in index) => metadata[s].file.revision # 0
    /\ s \in open /\ ops[s] = <<>> /\ outcome[s] # "io_error" =>
        revision[s] = metadata[s].file.revision
    /\ \A i \in 1 .. Len(ops[s]) : ops[s][i].expected # 0 => metadata[s].file.revision # 0
    /\ outcome[s] # "not_found"

PromisedInv(s) ==
    /\ promised[s].text <= messages[s].file /\ promised[s].text <= messages[s].synced
    /\ promised[s].state <= metadata[s].file.state
    /\ promised[s].state <= metadata[s].synced.state

LastOf(q) == q[Len(q)]
DurableIn(q, tier) == tier = "durable" \/ \E i \in 1 .. Len(q) : q[i].captured

\* The save that will write what is owed: the last one that waits, or the one
\* that runs, or one that has ended.
OwedInv(s) ==
    /\ owed[s].file <= live[s].state /\ owed[s].synced <= live[s].state
    /\ queue[s] # <<>> /\ LastOf(queue[s]).captured =>
        owed[s].file <= LastOf(queue[s]).state /\ owed[s].synced <= LastOf(queue[s]).state
    /\ Len(queue[s]) >= 2 /\ ~LastOf(queue[s]).captured /\ deferred[s] = "checkpoint" =>
        owed[s].synced <= queue[s][Len(queue[s]) - 1].state
    /\ queue[s] = <<>> =>
        /\ \A i \in 1 .. Len(ops[s]) : ops[s][i].kind = "save" => owed[s].file <= ops[s][i].state
        /\ (\A i \in 1 .. Len(ops[s]) : ops[s][i].kind # "save") =>
            owed[s].file <= metadata[s].file.state
    /\ ~DurableIn(queue[s], deferred[s]) =>
        /\ \A i \in 1 .. Len(ops[s]) : ops[s][i].kind = "save" => owed[s].synced <= ops[s][i].state
        /\ (\A i \in 1 .. Len(ops[s]) : ops[s][i].kind = "save" => ops[s][i].tier # "durable") =>
            /\ owed[s].synced <= metadata[s].file.state
            /\ owed[s].synced <= metadata[s].synced.state

SessionInv(s) ==
    /\ Clocked(s) /\ WaitingInv(s) /\ CapturedInv(s) /\ RunningInv(s) /\ KnownInv(s)
    /\ WriteInv(s) /\ ListedInv(s) /\ RevisionInv(s) /\ PromisedInv(s) /\ OwedInv(s)

IInv == TypeOK /\ \A s \in Sessions : SessionInv(s)

-----------------------------------------------------------------------------
(* What leaves a part of the invariant as it is.                           *)

SameFiles(s) == messages'[s] = messages[s] /\ metadata'[s] = metadata[s]
SameOpen(s) == (s \in open') = (s \in open) /\ (s \in index') = (s \in index)

\* Each part of the invariant reads few variables: as long as they stay, or
\* change in its favour, it holds on.
LEMMA ClockedKept ==
    ASSUME NEW s, Clocked(s), SameFiles(s), live'[s] = live[s], SameOpen(s),
           clock \in Nat, clock' \in Nat, clock <= clock',
           live[s].text \in Nat, live[s].state \in Nat, messages[s].file \in Nat,
           messages[s].synced \in Nat, metadata[s].file.state \in Nat,
           metadata[s].synced.state \in Nat
    PROVE  Clocked(s)'
  BY DEF Clocked, SameFiles, SameOpen

LEMMA WaitingKept ==
    ASSUME NEW s, WaitingInv(s), queue'[s] = queue[s], deferred'[s] = deferred[s], SameOpen(s)
    PROVE  WaitingInv(s)'
  BY DEF WaitingInv, SameOpen

LEMMA CapturedKept ==
    ASSUME NEW s, CapturedInv(s), queue'[s] = queue[s], promised'[s] = promised[s],
           live'[s] = live[s]
    PROVE  CapturedInv(s)'
  BY DEF CapturedInv

LEMMA RunningKept ==
    ASSUME NEW s, RunningInv(s), ops'[s] = ops[s], step'[s] # "idle" => ops[s] # <<>>,
           queue'[s] = queue[s], promised'[s] = promised[s], live'[s] = live[s], SameOpen(s)
    PROVE  RunningInv(s)'
  BY DEF RunningInv, SameOpen

LEMMA KnownKept ==
    ASSUME NEW s, KnownInv(s), known'[s] = known[s], messages'[s] = messages[s]
    PROVE  KnownInv(s)'
  BY DEF KnownInv

LEMMA WriteKept ==
    ASSUME NEW s, WriteInv(s), step'[s] = step[s], outcome'[s] = outcome[s], SameFiles(s),
           step[s] # "idle" => Op(s)' = Op(s)
    PROVE  WriteInv(s)'
  BY DEF WriteInv, Landed, Ended, At, SameFiles

LEMMA ListedKept ==
    ASSUME NEW s, ListedInv(s), step'[s] = step[s], outcome'[s] = outcome[s], SameOpen(s),
           step[s] # "idle" => Op(s)' = Op(s), promised'[s] = promised[s],
           UNCHANGED <<flush, flight, listing>>
    PROVE  ListedInv(s)'
  BY DEF ListedInv, Ended, At, SameOpen

LEMMA RevisionKept ==
    ASSUME NEW s, RevisionInv(s), SameFiles(s), SameOpen(s), revision'[s] = revision[s],
           ops'[s] = ops[s], outcome'[s] = outcome[s]
    PROVE  RevisionInv(s)'
  BY DEF RevisionInv, SameFiles, SameOpen, Readable

LEMMA PromisedKept ==
    ASSUME NEW s, PromisedInv(s), SameFiles(s), promised'[s] = promised[s]
    PROVE  PromisedInv(s)'
  BY DEF PromisedInv, SameFiles

LEMMA OwedKept ==
    ASSUME NEW s, OwedInv(s), owed'[s] = owed[s], live'[s] = live[s], queue'[s] = queue[s],
           deferred'[s] = deferred[s], ops'[s] = ops[s], metadata'[s] = metadata[s]
    PROVE  OwedInv(s)'
  BY DEF OwedInv

\* What a step does not touch of a session.
Untouched(s) ==
    /\ live'[s] = live[s] /\ revision'[s] = revision[s]
    /\ queue'[s] = queue[s] /\ deferred'[s] = deferred[s]
    /\ ops'[s] = ops[s] /\ step'[s] = step[s] /\ outcome'[s] = outcome[s] /\ known'[s] = known[s]
    /\ SameFiles(s) /\ SameOpen(s)
    /\ promised'[s] = promised[s] /\ owed'[s] = owed[s]

\* The types of the fields of a session.
LEMMA SessionTypes ==
    ASSUME TypeOK, NEW s \in Sessions
    PROVE  /\ clock \in Nat /\ live[s].text \in Nat /\ live[s].state \in Nat
           /\ revision[s] \in Nat
           /\ queue[s] \in Seq(Entries) /\ deferred[s] \in Tiers \cup {NoTier}
           /\ ops[s] \in Seq(Operations) /\ step[s] \in Steps /\ outcome[s] \in Outcomes
           /\ known[s].counter \in Nat /\ known[s].digest \in Nat
           /\ known[s].tier \in Tiers \cup {NoTier}
           /\ messages[s].file \in Nat /\ messages[s].synced \in Nat
           /\ metadata[s].file.revision \in Nat /\ metadata[s].synced.revision \in Nat
           /\ metadata[s].file.state \in Nat /\ metadata[s].synced.state \in Nat
           /\ promised[s].text \in Nat /\ promised[s].state \in Nat
           /\ owed[s].file \in Nat /\ owed[s].synced \in Nat
  BY DEF TypeOK, Versions, Files, Records

\* A session that a step does not touch keeps its invariant, whatever happens
\* to the index on behalf of another.
LEMMA OthersKept ==
    ASSUME IInv, TypeOK', NEW t \in Sessions, Untouched(t), clock <= clock', ListedInv(t)'
    PROVE  SessionInv(t)'
<1>1. SessionInv(t)
  BY DEF IInv
<1>2. Op(t)' = Op(t)
  BY DEF Op, Untouched
<1>3. Clocked(t)'
  BY <1>1, SessionTypes, ClockedKept DEF IInv, SessionInv, Untouched, TypeOK
<1>4. WaitingInv(t)' /\ CapturedInv(t)' /\ KnownInv(t)' /\ PromisedInv(t)'
  BY <1>1, WaitingKept, CapturedKept, KnownKept, PromisedKept DEF SessionInv, Untouched, SameFiles
<1>5. RunningInv(t)'
  BY <1>1, RunningKept DEF SessionInv, Untouched, RunningInv
<1>6. WriteInv(t)' /\ RevisionInv(t)' /\ OwedInv(t)'
  BY <1>1, <1>2, WriteKept, RevisionKept, OwedKept DEF SessionInv, Untouched, SameFiles
<1> QED
  BY <1>3, <1>4, <1>5, <1>6 DEF SessionInv

\* So does its part about the index if flushes and index stay.
LEMMA OthersListed ==
    ASSUME IInv, NEW t \in Sessions, Untouched(t), UNCHANGED <<flush, flight, listing>>
    PROVE  ListedInv(t)'
<1>1. Op(t)' = Op(t)
  BY DEF Op, Untouched
<1> QED
  BY <1>1, ListedKept DEF IInv, SessionInv, Untouched

\* The fields of a save that waits.
LEMMA EntryTypes ==
    ASSUME TypeOK, NEW s \in Sessions, NEW i \in 1 .. Len(queue[s])
    PROVE  /\ queue[s][i].captured \in BOOLEAN
           /\ queue[s][i].text \in Nat /\ queue[s][i].state \in Nat
<1>1. queue[s][i] \in Entries
  BY SessionTypes
<1> QED
  BY <1>1 DEF Entries

\* The fields of an operation.
LEMMA OperationFields ==
    ASSUME TypeOK, NEW s \in Sessions, NEW i \in 1 .. Len(ops[s])
    PROVE  /\ ops[s][i] \in Operations
           /\ ops[s][i].kind \in {"save", "rename"} /\ ops[s][i].captured \in BOOLEAN
           /\ ops[s][i].text \in Nat /\ ops[s][i].state \in Nat
           /\ ops[s][i].expected \in Nat /\ ops[s][i].tier \in Tiers
<1>1. ops[s][i] \in Operations
  BY SessionTypes
<1> QED
  BY <1>1 DEF Operations

\* The operation that runs is the first.
LEMMA FirstRuns ==
    ASSUME IInv, NEW s \in Sessions, ops[s] # <<>>
    PROVE  /\ Op(s) = ops[s][1] /\ 1 \in 1 .. Len(ops[s]) /\ Len(ops[s]) \in Nat
           /\ Op(s) \in Operations /\ Op(s).kind \in {"save", "rename"}
           /\ Op(s).captured \in BOOLEAN
           /\ Op(s).text \in Nat /\ Op(s).state \in Nat /\ Op(s).expected \in Nat
           /\ Op(s).tier \in Tiers
<1>1. ops[s] \in Seq(Operations)
  BY SessionTypes DEF IInv
<1>2. Op(s) = ops[s][1] /\ Len(ops[s]) \in Nat /\ Len(ops[s]) >= 1 /\ Op(s) \in Operations
  BY <1>1, FirstAndRest DEF Op
<1> QED
  BY <1>2 DEF Operations

\* An operation that is added waits behind the one that runs.
LEMMA RunsOn ==
    ASSUME IInv, NEW s \in Sessions, NEW op \in Operations, ops'[s] = Append(ops[s], op),
           step[s] # "idle"
    PROVE  Op(s)' = Op(s)
<1>1. ops[s] \in Seq(Operations) /\ ops[s] # <<>>
  BY SessionTypes DEF IInv, SessionInv, RunningInv
<1> QED
  BY <1>1, FirstAndRest, Appended DEF Op

\* A step of one session that leaves the flushes alone.
LEMMA OneSession ==
    ASSUME IInv, TypeOK', NEW s \in Sessions, clock <= clock',
           UNCHANGED <<flush, flight, listing>>,
           \A t \in Sessions \ {s} : Untouched(t),
           SessionInv(s)'
    PROVE  IInv'
<1>1. ASSUME NEW t \in Sessions PROVE SessionInv(t)'
  <2>1. CASE t = s
    BY <2>1
  <2>2. CASE t # s
    BY <2>2, OthersListed, OthersKept
  <2> QED
    BY <2>1, <2>2
<1> QED
  BY <1>1 DEF IInv

-----------------------------------------------------------------------------
(* The manager's steps.                                                    *)

\* A change is newer than all that was saved.
LEMMA ChangeKeeps ==
    ASSUME IInv, NEW s \in Sessions, Change(s)
    PROVE  IInv'
<1>t. TypeOK /\ TypeOK' /\ SessionInv(s)
  BY ManagerTypes DEF IInv
<1>u. /\ UNCHANGED <<open, revision, queue, deferred, ops, step, outcome, known, index, flush,
                     flight, messages, metadata, listing, promised, owed>>
      /\ live \in [Sessions -> Versions] /\ s \in open
  BY <1>t DEF Change, storeVars, diskVars, historyVars, TypeOK
<1>1. PICK text \in {live[s].text, clock + 1} :
          live' = [live EXCEPT ![s] = [text |-> text, state |-> clock + 1]]
  BY DEF Change
<1>2. live'[s] = [text |-> text, state |-> clock + 1]
  BY <1>1, <1>u
<1>3. /\ clock' = clock + 1 /\ live[s].text <= live'[s].text /\ live[s].state <= live'[s].state
      /\ live'[s].text <= clock' /\ live'[s].state <= clock' /\ live'[s].text >= 1
      /\ live'[s].text \in Nat /\ live'[s].state \in Nat
  BY <1>t, <1>1, <1>2, <1>u, SessionTypes DEF Change, SessionInv, Clocked
<1>4. \A t \in Sessions \ {s} : Untouched(t)
  BY <1>1, <1>u DEF Untouched, SameFiles, SameOpen
<1>5. SameFiles(s) /\ SameOpen(s) /\ Op(s)' = Op(s)
  BY <1>u DEF SameFiles, SameOpen, Op
<1>6. Clocked(s)'
  BY <1>t, <1>u, <1>3, SessionTypes DEF SessionInv, Clocked
<1>7. WaitingInv(s)' /\ KnownInv(s)' /\ PromisedInv(s)' /\ RevisionInv(s)'
  BY <1>t, <1>u, <1>5, WaitingKept, KnownKept, PromisedKept, RevisionKept DEF SessionInv
<1>8. WriteInv(s)' /\ ListedInv(s)'
  BY <1>t, <1>u, <1>5, WriteKept, ListedKept DEF SessionInv
<1>9. ASSUME NEW a, a.text \in Nat, a.state \in Nat, NotOlder(a, live[s])
      PROVE  NotOlder(a, live'[s])
  BY <1>9, <1>t, <1>3, SessionTypes DEF NotOlder
<1>10. CapturedInv(s)'
  BY <1>t, <1>u, <1>9, EntryTypes, SessionTypes DEF SessionInv, CapturedInv
<1>11. RunningInv(s)'
  BY <1>t, <1>u, <1>9, OperationFields DEF SessionInv, RunningInv
<1>12. OwedInv(s)'
  <2>1. OwedInv(s) /\ owed[s].file \in Nat /\ owed[s].synced \in Nat /\ live[s].state \in Nat
    BY <1>t, SessionTypes DEF SessionInv
  <2>2. owed[s].file <= live'[s].state /\ owed[s].synced <= live'[s].state
    BY <1>3, <2>1 DEF OwedInv
  <2> QED
    BY <1>u, <2>1, <2>2 DEF OwedInv, LastOf, DurableIn
<1>13. SessionInv(s)'
  BY <1>6, <1>7, <1>8, <1>10, <1>11, <1>12 DEF SessionInv
<1> QED
  BY <1>t, <1>u, <1>3, <1>4, <1>13, OneSession, SessionTypes

\* What is owed when a save is asked for.
LEMMA NowOwed ==
    ASSUME TypeOK, NEW s \in Sessions, NEW tier \in Tiers, Owe(s, tier)
    PROVE  /\ owed'[s].file = live[s].state
           /\ owed'[s].synced = IF tier = "durable" THEN live[s].state ELSE owed[s].synced
           /\ \A t \in Sessions \ {s} : owed'[t] = owed[t]
  BY DEF Owe, TypeOK

\* A request that joins a waiting one changes its tier only.
LEMMA CoalesceKeeps ==
    ASSUME IInv, NEW s \in Sessions, NEW tier \in Tiers, Coalesce(s, tier)
    PROVE  IInv'
<1>t. TypeOK /\ TypeOK' /\ SessionInv(s)
  BY ManagerTypes DEF IInv, SaveSession
<1>u. /\ UNCHANGED <<clock, live, open, revision, queue, ops, step, outcome, known, index, flush,
                     flight, messages, metadata, listing, promised>>
      /\ deferred[s] # NoTier
  BY DEF Coalesce, storeVars, diskVars
<1>1. /\ deferred'[s] = Upgraded(deferred[s], tier)
      /\ \A t \in Sessions \ {s} : deferred'[t] = deferred[t]
  BY <1>t DEF Coalesce, TypeOK
<1>2. \A t \in Sessions \ {s} : owed'[t] = owed[t]
  BY <1>t, NowOwed DEF Coalesce
<1>3. \A t \in Sessions \ {s} : Untouched(t)
  BY <1>1, <1>2, <1>u DEF Untouched, SameFiles, SameOpen
<1>4. SameFiles(s) /\ SameOpen(s) /\ Op(s)' = Op(s)
  BY <1>u DEF SameFiles, SameOpen, Op
<1>5. Clocked(s)' /\ CapturedInv(s)' /\ KnownInv(s)' /\ PromisedInv(s)' /\ RevisionInv(s)'
  BY <1>t, <1>u, <1>4, SessionTypes, ClockedKept, CapturedKept, KnownKept, PromisedKept,
     RevisionKept DEF SessionInv
<1>6. WriteInv(s)' /\ ListedInv(s)'
  BY <1>t, <1>u, <1>4, WriteKept, ListedKept DEF SessionInv
<1>7. RunningInv(s)'
  BY <1>t, <1>u, <1>4, RunningKept DEF SessionInv, RunningInv
<1>8. deferred[s] \in Tiers /\ deferred'[s] \in Tiers
  BY <1>t, <1>u, <1>1, SessionTypes DEF Upgraded, Tiers, NoTier
<1>9. WaitingInv(s)'
  BY <1>t, <1>u, <1>8 DEF SessionInv, WaitingInv, Tiers, NoTier
<1>10. OwedInv(s)'
  <2>1. OwedInv(s) /\ Len(queue[s]) \in Nat /\ Len(queue[s]) >= 1 /\ queue[s] # <<>>
    <3>1. PICK i \in 1 .. Len(queue[s]) : ~queue[s][i].captured
      BY <1>t, <1>u DEF SessionInv, WaitingInv
    <3> QED
      BY <3>1, <1>t, SessionTypes DEF SessionInv
  <2>2. DurableIn(queue[s], deferred[s]) => DurableIn(queue[s], deferred'[s])
    BY <1>1 DEF DurableIn, Upgraded
  <2>3. CASE LastOf(queue[s]).captured
    <3>1. owed'[s] = owed[s]
      BY <2>3 DEF Coalesce, LastOf
    <3> QED
      BY <2>1, <2>2, <2>3, <3>1, <1>u DEF OwedInv
  <2>4. CASE ~LastOf(queue[s]).captured
    <3>1. Owe(s, tier)
      BY <2>4 DEF Coalesce, LastOf
    <3>2. /\ owed'[s].file = live[s].state
          /\ owed'[s].synced = IF tier = "durable" THEN live[s].state ELSE owed[s].synced
      BY <1>t, <3>1, NowOwed
    <3>3. deferred'[s] = "checkpoint" => tier # "durable" /\ deferred[s] = "checkpoint"
      BY <1>1, <1>8 DEF Upgraded, Tiers
    <3>4. ~DurableIn(queue[s], deferred'[s]) => tier # "durable" /\ ~DurableIn(queue[s], deferred[s])
      BY <1>1, <2>2 DEF DurableIn, Upgraded
    <3> QED
      BY <1>t, <1>u, <2>1, <2>4, <3>2, <3>3, <3>4, SessionTypes DEF OwedInv, LastOf, DurableIn
  <2> QED
    BY <2>3, <2>4
<1>11. SessionInv(s)'
  BY <1>5, <1>6, <1>7, <1>9, <1>10 DEF SessionInv
<1> QED
  BY <1>t, <1>u, <1>3, <1>11, OneSession, SessionTypes

\* An operation that is added leaves these parts alone.
LEMMA AddedKeeps ==
    ASSUME IInv, TypeOK', NEW s \in Sessions, NEW op \in Operations, ops'[s] = Append(ops[s], op),
           UNCHANGED <<clock, live, open, step, outcome, known, index, flush, flight,
                       messages, metadata, listing, promised>>,
           op.expected # 0 => metadata[s].file.revision # 0,
           s \in open /\ revision'[s] # 0 => metadata[s].file.revision # 0
    PROVE  /\ Clocked(s)' /\ KnownInv(s)' /\ PromisedInv(s)' /\ RevisionInv(s)'
           /\ WriteInv(s)' /\ ListedInv(s)'
<1>1. SameFiles(s) /\ SameOpen(s) /\ SessionInv(s) /\ TypeOK
  BY DEF SameFiles, SameOpen, IInv
<1>2. Clocked(s)' /\ KnownInv(s)' /\ PromisedInv(s)'
  BY <1>1, SessionTypes, ClockedKept, KnownKept, PromisedKept DEF SessionInv
<1>3. step[s] # "idle" => Op(s)' = Op(s)
  BY RunsOn
<1>4. WriteInv(s)' /\ ListedInv(s)'
  BY <1>1, <1>3, WriteKept, ListedKept DEF SessionInv
<1>5. RevisionInv(s)'
  <2>1. ops[s] \in Seq(Operations)
    BY <1>1, SessionTypes
  <2>2. \A i \in 1 .. Len(ops'[s]) : ops'[s][i].expected # 0 => metadata[s].file.revision # 0
    BY <1>1, <2>1, Appended DEF SessionInv, RevisionInv
  <2>3. ops'[s] # <<>>
    BY <2>1, Appended
  <2> QED
    BY <1>1, <2>2, <2>3 DEF SessionInv, RevisionInv, Readable
<1> QED
  BY <1>2, <1>4, <1>5

\* A save is the only one.
LEMMA SaveAdded ==
    ASSUME IInv, NEW s \in Sessions, NEW op \in Operations, ops'[s] = Append(ops[s], op),
           op.kind = "save", ~Saving(s), s \in open,
           UNCHANGED <<open, step, promised, live>>, op.captured => op.tier = "durable",
           op.text >= 1, NotOlder(promised[s], op), NotOlder(op, live[s]),
           \A j \in 1 .. Len(queue'[s]) :
                queue'[s][j].captured => (op.captured => NotOlder(op, queue'[s][j]))
    PROVE  /\ RunningInv(s)'
           /\ \A i \in 1 .. Len(ops[s]) : ops[s][i].kind # "save"
           /\ \A i \in 1 .. Len(ops'[s]) : ops'[s][i].kind = "save" => ops'[s][i] = op
           /\ \E i \in 1 .. Len(ops'[s]) : ops'[s][i] = op
<1>1. ops[s] \in Seq(Operations) /\ RunningInv(s)
  BY SessionTypes DEF IInv, SessionInv
<1>2. \A i \in 1 .. Len(ops[s]) : ops[s][i].kind # "save"
  BY <1>1 DEF Saving
<1>3. /\ Len(ops'[s]) = Len(ops[s]) + 1 /\ Len(ops[s]) \in Nat /\ ops'[s] # <<>>
      /\ \A i \in 1 .. Len(ops[s]) : ops'[s][i] = ops[s][i]
      /\ ops'[s][Len(ops[s]) + 1] = op
  BY <1>1, Appended
<1>4. /\ \A i \in 1 .. Len(ops'[s]) : ops'[s][i].kind = "save" => i = Len(ops[s]) + 1
      /\ \A i \in 1 .. Len(ops'[s]) : i # Len(ops[s]) + 1 => i \in 1 .. Len(ops[s])
  BY <1>2, <1>3
<1>5. RunningInv(s)'
  BY <1>1, <1>3, <1>4 DEF RunningInv
<1> QED
  BY <1>2, <1>3, <1>4, <1>5

\* A save that finds nothing before it.
LEMMA SaveAtOnceKeeps ==
    ASSUME IInv, NEW s \in Sessions, NEW captured \in BOOLEAN, NEW tier \in Tiers,
           captured => tier = "durable", SaveAtOnce(s, captured, tier), TypeOK'
    PROVE  IInv'
<1> DEFINE op == Save(s, captured, live[s], tier)
<1>t. TypeOK /\ SessionInv(s)
  BY DEF IInv
<1>u. /\ UNCHANGED <<clock, live, open, revision, queue, deferred, step, outcome, known, index,
                     flush, flight, messages, metadata, listing, promised>>
      /\ s \in open /\ ~Saving(s) /\ queue[s] = <<>> /\ queue[s] \in Seq(Entries)
      /\ Len(queue[s]) = 0
  BY <1>t, SessionTypes DEF SaveAtOnce, Asked, Busy, managerVars, diskVars
<1>1. /\ ops'[s] = Append(ops[s], op)
      /\ \A t \in Sessions \ {s} : ops'[t] = ops[t]
  BY <1>t DEF SaveAtOnce, TypeOK
<1>2. /\ owed'[s].file = live[s].state
      /\ owed'[s].synced = IF tier = "durable" THEN live[s].state ELSE owed[s].synced
      /\ \A t \in Sessions \ {s} : owed'[t] = owed[t]
  BY <1>t, NowOwed DEF SaveAtOnce
<1>3. /\ op \in Operations /\ op.kind = "save" /\ op.captured = captured /\ op.tier = tier
      /\ op.text = live[s].text /\ op.state = live[s].state /\ op.expected = revision[s]
  BY <1>t, SaveTyped, SessionTypes DEF Save
<1> HIDE DEF op
<1>4. \A t \in Sessions \ {s} : Untouched(t)
  BY <1>1, <1>2, <1>u DEF Untouched, SameFiles, SameOpen
<1>5. op.expected # 0 => metadata[s].file.revision # 0
  BY <1>t, <1>u, <1>3 DEF SessionInv, RevisionInv
<1>6. /\ Clocked(s)' /\ KnownInv(s)' /\ PromisedInv(s)' /\ RevisionInv(s)'
      /\ WriteInv(s)' /\ ListedInv(s)'
  BY <1>1, <1>3, <1>5, <1>u, AddedKeeps
<1>7. NotOlder(promised[s], op) /\ NotOlder(op, live[s]) /\ op.text >= 1
  BY <1>t, <1>u, <1>3, SessionTypes DEF SessionInv, CapturedInv, Clocked, NotOlder
<1>8. /\ RunningInv(s)'
      /\ \A i \in 1 .. Len(ops[s]) : ops[s][i].kind # "save"
      /\ \A i \in 1 .. Len(ops'[s]) : ops'[s][i].kind = "save" => ops'[s][i] = op
      /\ \E i \in 1 .. Len(ops'[s]) : ops'[s][i] = op
  BY <1>1, <1>3, <1>7, <1>u, SaveAdded
<1>9. SameOpen(s)
  BY <1>u DEF SameOpen
<1>10. WaitingInv(s)' /\ CapturedInv(s)'
  BY <1>t, <1>u, <1>9, WaitingKept, CapturedKept DEF SessionInv
<1>11. ~DurableIn(queue[s], deferred[s])
  BY <1>t, <1>u DEF SessionInv, WaitingInv, DurableIn, NoTier
<1>12. OwedInv(s)'
  BY <1>t, <1>u, <1>2, <1>3, <1>8, <1>11, SessionTypes DEF SessionInv, OwedInv, LastOf, DurableIn
<1>13. SessionInv(s)'
  BY <1>6, <1>8, <1>10, <1>12 DEF SessionInv
<1> QED
  BY <1>t, <1>u, <1>4, <1>13, OneSession, SessionTypes

\* What a request behind others leaves alone.
LEMMA BehindKeeps ==
    ASSUME IInv, TypeOK', NEW s \in Sessions,
           UNCHANGED <<clock, live, open, revision, ops, step, outcome, known, index, flush,
                       flight, messages, metadata, listing, promised>>
    PROVE  /\ Clocked(s)' /\ KnownInv(s)' /\ PromisedInv(s)' /\ RevisionInv(s)'
           /\ WriteInv(s)' /\ ListedInv(s)'
<1>1. SameFiles(s) /\ SameOpen(s) /\ SessionInv(s) /\ TypeOK /\ Op(s)' = Op(s)
  BY DEF SameFiles, SameOpen, IInv, Op
<1>2. Clocked(s)' /\ KnownInv(s)' /\ PromisedInv(s)' /\ RevisionInv(s)'
  BY <1>1, SessionTypes, ClockedKept, KnownKept, PromisedKept, RevisionKept DEF SessionInv
<1>3. WriteInv(s)' /\ ListedInv(s)'
  BY <1>1, WriteKept, ListedKept DEF SessionInv
<1> QED
  BY <1>2, <1>3

\* Adding an entry of the session as it is now.
LEMMA EntryAdded ==
    ASSUME IInv, NEW s \in Sessions, NEW captured \in BOOLEAN,
           queue'[s] = Append(queue[s], [captured |-> captured, text |-> live[s].text,
                                         state |-> live[s].state])
    PROVE  /\ Len(queue'[s]) = Len(queue[s]) + 1 /\ Len(queue[s]) \in Nat /\ queue'[s] # <<>>
           /\ \A i \in 1 .. Len(queue[s]) : queue'[s][i] = queue[s][i]
           /\ captured => queue'[s][Len(queue[s]) + 1].captured
           /\ ~captured => ~queue'[s][Len(queue[s]) + 1].captured
           /\ queue'[s][Len(queue[s]) + 1].text = live[s].text
           /\ queue'[s][Len(queue[s]) + 1].state = live[s].state
           /\ \A i \in 1 .. Len(queue'[s]) : i # Len(queue[s]) + 1 => i \in 1 .. Len(queue[s])
<1> DEFINE e == [captured |-> captured, text |-> live[s].text, state |-> live[s].state]
<1>1. queue[s] \in Seq(Entries) /\ e \in Entries
  BY SessionTypes DEF IInv, Entries
<1>2. e.captured = captured /\ e.text = live[s].text /\ e.state = live[s].state
  OBVIOUS
<1> HIDE DEF e
<1>3. queue'[s] = Append(queue[s], e)
  BY DEF e
<1> QED
  BY <1>1, <1>2, <1>3, Appended

\* An entry of the session as it is now is the youngest captured one.
LEMMA EntryOrdered ==
    ASSUME IInv, NEW s \in Sessions, NEW captured \in BOOLEAN, s \in open,
           queue'[s] = Append(queue[s], [captured |-> captured, text |-> live[s].text,
                                         state |-> live[s].state]),
           UNCHANGED <<live, open, ops, step, promised>>
    PROVE  CapturedInv(s)' /\ RunningInv(s)'
<1>t. TypeOK /\ SessionInv(s)
  BY DEF IInv
<1> DEFINE n == Len(queue[s]) + 1
<1>1. /\ Len(queue'[s]) = n /\ n \in Nat
      /\ \A i \in 1 .. Len(queue[s]) : queue'[s][i] = queue[s][i]
      /\ queue'[s][n].text = live[s].text /\ queue'[s][n].state = live[s].state
      /\ \A i \in 1 .. Len(queue'[s]) : i # n => i \in 1 .. Len(queue[s]) /\ i < n
  BY EntryAdded
<1>2. NotOlder(promised[s], queue'[s][n]) /\ NotOlder(queue'[s][n], live[s]) /\ queue'[s][n].text >= 1
  BY <1>t, <1>1, SessionTypes DEF SessionInv, CapturedInv, Clocked, NotOlder
<1>3. ASSUME NEW a, NotOlder(a, live[s]) PROVE NotOlder(a, queue'[s][n])
  BY <1>1, <1>3 DEF NotOlder
<1> HIDE DEF n
<1>4. CapturedInv(s)'
  BY <1>t, <1>1, <1>2, <1>3 DEF SessionInv, CapturedInv
<1>5. RunningInv(s)'
  BY <1>t, <1>1, <1>3 DEF SessionInv, RunningInv
<1> QED
  BY <1>4, <1>5

\* The request that becomes the deferred save.
LEMMA DeferKeeps ==
    ASSUME IInv, NEW s \in Sessions, NEW tier \in Tiers, Defer(s, tier)
    PROVE  IInv'
<1>t. TypeOK /\ TypeOK' /\ SessionInv(s)
  BY ManagerTypes DEF IInv, SaveSession
<1>u. /\ UNCHANGED <<clock, live, open, revision, ops, step, outcome, known, index, flush,
                     flight, messages, metadata, listing, promised>>
      /\ deferred[s] = NoTier /\ s \in open
  BY DEF Defer, Asked, storeVars, diskVars
<1>1. /\ deferred'[s] = tier
      /\ queue'[s] = Append(queue[s], [captured |-> FALSE, text |-> live[s].text,
                                       state |-> live[s].state])
      /\ \A t \in Sessions \ {s} : deferred'[t] = deferred[t] /\ queue'[t] = queue[t]
  BY <1>t DEF Defer, TypeOK
<1>2. /\ owed'[s].file = live[s].state
      /\ owed'[s].synced = IF tier = "durable" THEN live[s].state ELSE owed[s].synced
      /\ \A t \in Sessions \ {s} : owed'[t] = owed[t]
  BY <1>t, NowOwed DEF Defer
<1>3. \A t \in Sessions \ {s} : Untouched(t)
  BY <1>1, <1>2, <1>u DEF Untouched, SameFiles, SameOpen
<1>4. /\ Clocked(s)' /\ KnownInv(s)' /\ PromisedInv(s)' /\ RevisionInv(s)'
      /\ WriteInv(s)' /\ ListedInv(s)'
  BY <1>t, <1>u, BehindKeeps
<1>5. CapturedInv(s)' /\ RunningInv(s)'
  BY <1>u, <1>1, EntryOrdered
<1> DEFINE n == Len(queue[s]) + 1
<1>6. /\ Len(queue'[s]) = n /\ n \in Nat /\ n >= 1 /\ queue'[s] # <<>>
      /\ \A i \in 1 .. Len(queue[s]) : queue'[s][i] = queue[s][i]
      /\ ~queue'[s][n].captured
      /\ \A i \in 1 .. Len(queue'[s]) : i # n => i \in 1 .. Len(queue[s])
  <2>1. FALSE \in BOOLEAN
    OBVIOUS
  <2>2. /\ Len(queue'[s]) = Len(queue[s]) + 1 /\ Len(queue[s]) \in Nat /\ queue'[s] # <<>>
        /\ \A i \in 1 .. Len(queue[s]) : queue'[s][i] = queue[s][i]
        /\ queue'[s][Len(queue[s]) + 1].text = live[s].text
        /\ queue'[s][Len(queue[s]) + 1].state = live[s].state
        /\ \A i \in 1 .. Len(queue'[s]) : i # Len(queue[s]) + 1 => i \in 1 .. Len(queue[s])
    BY <1>1, <2>1, EntryAdded
  <2>3. ~queue'[s][Len(queue[s]) + 1].captured
    BY <1>1, <2>1, EntryAdded
  <2> QED
    BY <2>2, <2>3
<1>7. \A i \in 1 .. Len(queue[s]) : queue[s][i].captured
  BY <1>t, <1>u DEF SessionInv, WaitingInv
<1>8. tier # NoTier
  BY DEF Tiers, NoTier
<1>9. WaitingInv(s)'
  <2>1. \A i \in 1 .. Len(queue'[s]) : ~queue'[s][i].captured => i = n
    BY <1>6, <1>7
  <2>2. n \in 1 .. Len(queue'[s])
    BY <1>6
  <2> QED
    BY <1>u, <1>1, <1>6, <1>8, <2>1, <2>2 DEF WaitingInv
<1>10. OwedInv(s)'
  <2>1. OwedInv(s) /\ queue[s] \in Seq(Entries)
    BY <1>t, SessionTypes DEF SessionInv
  <2>2. queue'[s] # <<>> /\ ~LastOf(queue'[s]).captured
    BY <1>6 DEF LastOf
  <2>3. owed'[s].file <= live[s].state /\ owed'[s].synced <= live[s].state
    BY <1>t, <1>2, SessionTypes DEF SessionInv, OwedInv
  <2>4. ASSUME Len(queue'[s]) >= 2, deferred'[s] = "checkpoint"
        PROVE  owed'[s].synced <= queue'[s][Len(queue'[s]) - 1].state
    <3>1. n - 1 = Len(queue[s]) /\ n - 1 \in 1 .. Len(queue[s]) /\ queue[s] # <<>>
      BY <2>4, <1>6, <2>1
    <3>2. queue'[s][n - 1] = LastOf(queue[s]) /\ LastOf(queue[s]).captured
      BY <3>1, <1>6, <1>7 DEF LastOf
    <3>3. owed'[s].synced = owed[s].synced
      BY <2>4, <1>1, <1>2
    <3> QED
      BY <2>1, <3>1, <3>2, <3>3, <1>6 DEF OwedInv
  <2>5. ASSUME ~DurableIn(queue'[s], deferred'[s])
        PROVE  owed'[s].synced = owed[s].synced /\ ~DurableIn(queue[s], deferred[s])
    <3>1. tier # "durable"
      BY <2>5, <1>1 DEF DurableIn
    <3>2. \A i \in 1 .. Len(queue[s]) : ~queue[s][i].captured
      BY <2>5, <1>6 DEF DurableIn
    <3> QED
      BY <3>1, <3>2, <1>2, <1>u DEF DurableIn, NoTier
  <2> HIDE DEF n
  <2> QED
    BY <1>u, <2>1, <2>2, <2>3, <2>4, <2>5 DEF OwedInv, LastOf, DurableIn
<1>11. SessionInv(s)'
  BY <1>4, <1>5, <1>9, <1>10 DEF SessionInv
<1> QED
  BY <1>t, <1>u, <1>3, <1>11, OneSession, SessionTypes

\* A record that is captured and waits.
LEMMA CaptureBehindKeeps ==
    ASSUME IInv, NEW s \in Sessions, CaptureBehind(s)
    PROVE  IInv'
<1>t. TypeOK /\ TypeOK' /\ SessionInv(s)
  BY ManagerTypes DEF IInv, SaveSessionNow
<1>u. /\ UNCHANGED <<clock, live, open, revision, deferred, ops, step, outcome, known, index,
                     flush, flight, messages, metadata, listing, promised>>
      /\ s \in open
  BY DEF CaptureBehind, Asked, storeVars, diskVars
<1>1. /\ queue'[s] = Append(queue[s], [captured |-> TRUE, text |-> live[s].text,
                                       state |-> live[s].state])
      /\ \A t \in Sessions \ {s} : queue'[t] = queue[t]
  BY <1>t DEF CaptureBehind, TypeOK
<1>2. /\ owed'[s].file = live[s].state /\ owed'[s].synced = live[s].state
      /\ \A t \in Sessions \ {s} : owed'[t] = owed[t]
  BY <1>t, NowOwed DEF CaptureBehind, Tiers
<1>3. \A t \in Sessions \ {s} : Untouched(t)
  BY <1>1, <1>2, <1>u DEF Untouched, SameFiles, SameOpen
<1>4. /\ Clocked(s)' /\ KnownInv(s)' /\ PromisedInv(s)' /\ RevisionInv(s)'
      /\ WriteInv(s)' /\ ListedInv(s)'
  BY <1>t, <1>u, BehindKeeps
<1>5. CapturedInv(s)' /\ RunningInv(s)'
  BY <1>u, <1>1, EntryOrdered
<1> DEFINE n == Len(queue[s]) + 1
<1>6. /\ Len(queue'[s]) = n /\ n \in Nat /\ n >= 1 /\ queue'[s] # <<>>
      /\ \A i \in 1 .. Len(queue[s]) : queue'[s][i] = queue[s][i]
      /\ queue'[s][n].captured /\ queue'[s][n].state = live[s].state
      /\ \A i \in 1 .. Len(queue'[s]) : i # n => i \in 1 .. Len(queue[s])
      /\ n - 1 = Len(queue[s])
  <2>1. TRUE \in BOOLEAN
    OBVIOUS
  <2>2. /\ Len(queue'[s]) = Len(queue[s]) + 1 /\ Len(queue[s]) \in Nat /\ queue'[s] # <<>>
        /\ \A i \in 1 .. Len(queue[s]) : queue'[s][i] = queue[s][i]
        /\ queue'[s][Len(queue[s]) + 1].text = live[s].text
        /\ queue'[s][Len(queue[s]) + 1].state = live[s].state
        /\ \A i \in 1 .. Len(queue'[s]) : i # Len(queue[s]) + 1 => i \in 1 .. Len(queue[s])
    BY <1>1, <2>1, EntryAdded
  <2>3. queue'[s][Len(queue[s]) + 1].captured
    BY <1>1, <2>1, EntryAdded
  <2> QED
    BY <2>2, <2>3
<1> HIDE DEF n
<1>7. WaitingInv(s)'
  <2>1. \A i \in 1 .. Len(queue'[s]) : ~queue'[s][i].captured => i \in 1 .. Len(queue[s])
    BY <1>6
  <2>2. \A i \in 1 .. Len(queue[s]) : i \in 1 .. Len(queue'[s])
    BY <1>6
  <2> QED
    BY <1>t, <1>u, <1>6, <2>1, <2>2 DEF SessionInv, WaitingInv
<1>8. OwedInv(s)'
  <2>1. LastOf(queue'[s]).captured /\ LastOf(queue'[s]).state = live[s].state
    BY <1>6 DEF LastOf
  <2>2. DurableIn(queue'[s], deferred'[s])
    BY <1>6 DEF DurableIn
  <2> QED
    BY <1>t, <1>u, <1>2, <1>6, <2>1, <2>2, SessionTypes DEF OwedInv, LastOf, DurableIn
<1>9. SessionInv(s)'
  BY <1>4, <1>5, <1>7, <1>8 DEF SessionInv
<1> QED
  BY <1>t, <1>u, <1>3, <1>9, OneSession, SessionTypes

\* A rename is no save and expects a revision the disk has had.
LEMMA RenameKeeps ==
    ASSUME IInv, NEW s \in Sessions, Rename(s)
    PROVE  IInv'
<1> DEFINE expected == IF revision[s] # 0 THEN revision[s] ELSE metadata[s].file.revision
           op == [kind |-> "rename", captured |-> FALSE, expected |-> expected,
                  text |-> 0, state |-> 0, tier |-> "durable"]
<1>t. TypeOK /\ TypeOK' /\ SessionInv(s)
  BY ManagerTypes DEF IInv
<1>u. /\ UNCHANGED <<clock, live, open, queue, deferred, step, outcome, known, index,
                     flush, flight, messages, metadata, listing, promised, owed>>
      /\ s \in open /\ (revision[s] # 0 \/ s \in index)
  BY DEF Rename, Asked, diskVars
<1>1. /\ ops'[s] = Append(ops[s], op) /\ revision'[s] = expected
      /\ \A t \in Sessions \ {s} : ops'[t] = ops[t] /\ revision'[t] = revision[t]
  BY <1>t DEF Rename, TypeOK
<1>2. metadata[s].file.revision # 0
  BY <1>t, <1>u DEF SessionInv, RevisionInv
<1>3. expected \in Nat /\ expected # 0
  BY <1>t, <1>2, SessionTypes
<1> HIDE DEF expected
<1>4. /\ op \in Operations /\ op.kind = "rename" /\ ~op.captured /\ op.tier = "durable"
      /\ op.expected # 0
  BY <1>3 DEF Operations, Tiers
<1> HIDE DEF op
<1>5. \A t \in Sessions \ {s} : Untouched(t)
  BY <1>1, <1>u DEF Untouched, SameFiles, SameOpen
<1>6. /\ Clocked(s)' /\ KnownInv(s)' /\ PromisedInv(s)' /\ RevisionInv(s)'
      /\ WriteInv(s)' /\ ListedInv(s)'
  BY <1>t, <1>1, <1>2, <1>4, <1>u, AddedKeeps
<1>7. /\ Len(ops'[s]) = Len(ops[s]) + 1 /\ Len(ops[s]) \in Nat /\ ops'[s] # <<>>
      /\ \A i \in 1 .. Len(ops[s]) : ops'[s][i] = ops[s][i] /\ i \in 1 .. Len(ops'[s])
      /\ \A i \in 1 .. Len(ops'[s]) : ops'[s][i].kind = "save" => i \in 1 .. Len(ops[s])
      /\ \A i \in 1 .. Len(ops'[s]) : i \notin 1 .. Len(ops[s]) => ops'[s][i] = op
  <2>1. ops[s] \in Seq(Operations)
    BY <1>t, SessionTypes
  <2>2. /\ Len(ops'[s]) = Len(ops[s]) + 1 /\ Len(ops[s]) \in Nat /\ ops'[s] # <<>>
        /\ \A i \in 1 .. Len(ops[s]) : ops'[s][i] = ops[s][i]
        /\ ops'[s][Len(ops[s]) + 1] = op
    BY <1>1, <1>4, <2>1, Appended
  <2> QED
    BY <1>4, <2>2
<1>8. RunningInv(s)'
  BY <1>t, <1>u, <1>4, <1>7 DEF SessionInv, RunningInv
<1>9. SameOpen(s)
  BY <1>u DEF SameOpen
<1>10. WaitingInv(s)' /\ CapturedInv(s)'
  BY <1>t, <1>u, <1>9, WaitingKept, CapturedKept DEF SessionInv
<1>11. OwedInv(s)'
  BY <1>t, <1>u, <1>7 DEF SessionInv, OwedInv, LastOf, DurableIn
<1>12. SessionInv(s)'
  BY <1>6, <1>8, <1>10, <1>11 DEF SessionInv
<1> QED
  BY <1>t, <1>u, <1>5, <1>12, OneSession, SessionTypes

\* What the first waiting save becomes.
LEMMA DueFacts ==
    ASSUME IInv, NEW s \in Sessions, queue[s] # <<>>
    PROVE  /\ Due(s) \in Operations /\ Due(s).kind = "save" /\ Due(s).expected = revision[s]
           /\ queue[s][1].captured =>
                /\ Due(s).captured /\ Due(s).tier = "durable"
                /\ Due(s).text = queue[s][1].text /\ Due(s).state = queue[s][1].state
           /\ ~queue[s][1].captured =>
                /\ ~Due(s).captured /\ Due(s).tier = deferred[s] /\ deferred[s] \in Tiers
                /\ Due(s).text = live[s].text /\ Due(s).state = live[s].state
<1>1. /\ Head(queue[s]) = queue[s][1] /\ 1 \in 1 .. Len(queue[s])
      /\ queue[s][1].text \in Nat /\ queue[s][1].state \in Nat
      /\ TypeOK /\ SessionInv(s)
  BY SessionTypes, FirstAndRest, EntryTypes DEF IInv
<1>2. CASE queue[s][1].captured
  <2>1. Due(s) = Save(s, TRUE, queue[s][1], "durable")
    BY <1>1, <1>2 DEF Due
  <2>2. Save(s, TRUE, queue[s][1], "durable") \in Operations
    BY <1>1, SaveTyped DEF Tiers
  <2> QED
    BY <1>2, <2>1, <2>2 DEF Save
<1>3. CASE ~queue[s][1].captured
  <2>1. Due(s) = Save(s, FALSE, live[s], deferred[s])
    BY <1>1, <1>3 DEF Due
  <2>2. deferred[s] \in Tiers
    BY <1>1, <1>3, SessionTypes DEF SessionInv, WaitingInv, NoTier
  <2>3. Save(s, FALSE, live[s], deferred[s]) \in Operations
    BY <1>1, <2>2, SessionTypes, SaveTyped
  <2> QED
    BY <1>3, <2>1, <2>2, <2>3 DEF Save
<1> QED
  BY <1>2, <1>3

\* The first waiting save starts when no save runs.
LEMMA StartKeeps ==
    ASSUME IInv, NEW s \in Sessions, Start(s)
    PROVE  IInv'
<1> DEFINE op == Due(s)
           q == queue[s]
           L == Len(queue[s])
<1>t. TypeOK /\ SessionInv(s) /\ TypeOK'
  BY StartTypes DEF IInv, SessionInv, WaitingInv
<1>u. /\ UNCHANGED <<clock, live, open, revision, step, outcome, known, index, flush, flight,
                     messages, metadata, listing, promised, owed>>
      /\ s \in open /\ ~Saving(s) /\ q # <<>>
  BY <1>t DEF Start, diskVars, historyVars, SessionInv, WaitingInv
<1>1. /\ ops'[s] = Append(ops[s], op)
      /\ queue'[s] = Tail(q)
      /\ deferred'[s] = IF Head(q).captured THEN deferred[s] ELSE NoTier
      /\ \A t \in Sessions \ {s} :
            ops'[t] = ops[t] /\ queue'[t] = queue[t] /\ deferred'[t] = deferred[t]
  BY <1>t DEF Start, TypeOK
<1>2. /\ L \in Nat /\ L >= 1 /\ Head(q) = q[1] /\ Len(queue'[s]) = L - 1
      /\ \A i \in 1 .. L - 1 : queue'[s][i] = q[i + 1]
      /\ queue'[s] = <<>> <=> L = 1
  <2>1. q \in Seq(Entries)
    BY <1>t, SessionTypes
  <2>2. /\ L \in Nat /\ L >= 1 /\ Head(q) = q[1] /\ Len(queue'[s]) = L - 1
        /\ \A i \in 1 .. L - 1 : queue'[s][i] = q[i + 1]
        /\ queue'[s] \in Seq(Entries)
    BY <1>1, <1>u, <2>1, FirstAndRest
  <2>3. queue'[s] = <<>> <=> Len(queue'[s]) = 0
    BY <2>2, EmptyHasNone
  <2> QED
    BY <2>2, <2>3
<1>3. /\ op \in Operations /\ op.kind = "save" /\ op.expected = revision[s]
      /\ q[1].captured =>
            op.captured /\ op.tier = "durable" /\ op.text = q[1].text /\ op.state = q[1].state
      /\ ~q[1].captured =>
            /\ ~op.captured /\ op.tier = deferred[s] /\ deferred[s] \in Tiers
            /\ op.text = live[s].text /\ op.state = live[s].state
  BY <1>u, DueFacts
<1>4. /\ deferred'[s] = IF q[1].captured THEN deferred[s] ELSE NoTier
      /\ 1 \in 1 .. L /\ \A i \in 1 .. L - 1 : i + 1 \in 1 .. L /\ i + 1 # 1 /\ 1 < i + 1
  BY <1>1, <1>2
<1> HIDE DEF op
<1>5. \A t \in Sessions \ {s} : Untouched(t)
  BY <1>1, <1>u DEF Untouched, SameFiles, SameOpen
<1>6. op.expected # 0 => metadata[s].file.revision # 0
  BY <1>t, <1>u, <1>3 DEF SessionInv, RevisionInv
<1>7. /\ Clocked(s)' /\ KnownInv(s)' /\ PromisedInv(s)' /\ RevisionInv(s)'
      /\ WriteInv(s)' /\ ListedInv(s)'
  BY <1>t, <1>1, <1>3, <1>6, <1>u, AddedKeeps
<1>8. /\ NotOlder(promised[s], op) /\ NotOlder(op, live[s]) /\ op.text >= 1
      /\ op.captured => op.tier = "durable"
      /\ \A j \in 1 .. L - 1 : q[j + 1].captured /\ op.captured => NotOlder(op, q[j + 1])
  BY <1>t, <1>u, <1>3, <1>4, SessionTypes DEF SessionInv, CapturedInv, Clocked, NotOlder
<1>9. /\ RunningInv(s)'
      /\ \A i \in 1 .. Len(ops[s]) : ops[s][i].kind # "save"
      /\ \A i \in 1 .. Len(ops'[s]) : ops'[s][i].kind = "save" => ops'[s][i] = op
      /\ \E i \in 1 .. Len(ops'[s]) : ops'[s][i] = op
  <2>1. \A j \in 1 .. Len(queue'[s]) :
            queue'[s][j].captured => (op.captured => NotOlder(op, queue'[s][j]))
    BY <1>2, <1>8
  <2> QED
    BY <1>1, <1>3, <1>8, <1>u, <2>1, SaveAdded
<1>10. /\ \A i \in 1 .. L : ~q[i].captured => deferred[s] # NoTier
       /\ \A i, j \in 1 .. L : ~q[i].captured /\ ~q[j].captured => i = j
       /\ deferred[s] # NoTier => \E i \in 1 .. L : ~q[i].captured
  BY <1>t DEF SessionInv, WaitingInv
<1>11. WaitingInv(s)'
  <2>1. \A i \in 1 .. L - 1 : ~q[i + 1].captured => q[1].captured /\ deferred[s] # NoTier
    BY <1>4, <1>10
  <2>2. \A i \in 1 .. Len(queue'[s]) : ~queue'[s][i].captured => deferred'[s] # NoTier
    BY <1>2, <1>4, <2>1
  <2>3. \A i, j \in 1 .. Len(queue'[s]) : ~queue'[s][i].captured /\ ~queue'[s][j].captured => i = j
    <3>1. SUFFICES ASSUME NEW i \in 1 .. L - 1, NEW j \in 1 .. L - 1,
                          ~q[i + 1].captured, ~q[j + 1].captured
                   PROVE  i = j
      BY <1>2
    <3>2. i + 1 = j + 1
      BY <3>1, <1>4, <1>10
    <3> QED
      BY <3>2, <1>2
  <2>4. ASSUME deferred'[s] # NoTier PROVE \E i \in 1 .. Len(queue'[s]) : ~queue'[s][i].captured
    <3>1. q[1].captured /\ deferred[s] # NoTier
      BY <2>4, <1>4
    <3>2. PICK i \in 1 .. L : ~q[i].captured
      BY <3>1, <1>10
    <3>3. i - 1 \in 1 .. L - 1 /\ (i - 1) + 1 = i
      BY <3>1, <3>2, <1>2
    <3> QED
      BY <3>2, <3>3, <1>2
  <2> QED
    BY <1>u, <2>2, <2>3, <2>4 DEF WaitingInv
<1>12. CapturedInv(s)'
  <2>1. /\ \A i \in 1 .. L : q[i].captured =>
            /\ q[i].text >= 1
            /\ NotOlder(promised[s], q[i]) /\ NotOlder(q[i], live[s])
        /\ \A i, j \in 1 .. L : i < j /\ q[i].captured /\ q[j].captured => NotOlder(q[i], q[j])
        /\ NotOlder(promised[s], live[s])
    BY <1>t DEF SessionInv, CapturedInv
  <2>2. \A i, j \in 1 .. L - 1 : i < j => i + 1 < j + 1
    BY <1>2
  <2>3. \A i \in 1 .. Len(queue'[s]) : queue'[s][i].captured =>
            /\ queue'[s][i].text >= 1
            /\ NotOlder(promised[s], queue'[s][i]) /\ NotOlder(queue'[s][i], live[s])
    <3>1. \A i \in 1 .. L - 1 : q[i + 1].captured =>
            /\ q[i + 1].text >= 1
            /\ NotOlder(promised[s], q[i + 1]) /\ NotOlder(q[i + 1], live[s])
      BY <1>4, <2>1
    <3> HIDE DEF q, L
    <3> QED
      BY <3>1, <1>2
  <2>4. \A i, j \in 1 .. Len(queue'[s]) :
            i < j /\ queue'[s][i].captured /\ queue'[s][j].captured =>
                NotOlder(queue'[s][i], queue'[s][j])
    <3>1. \A i, j \in 1 .. L - 1 :
            i < j /\ q[i + 1].captured /\ q[j + 1].captured => NotOlder(q[i + 1], q[j + 1])
      BY <1>4, <2>1, <2>2
    <3> HIDE DEF q, L
    <3> QED
      BY <3>1, <1>2
  <2> QED
    BY <1>u, <2>1, <2>3, <2>4 DEF CapturedInv
<1>13. OwedInv(s)'
  <2>1. /\ owed[s].file <= live[s].state /\ owed[s].synced <= live[s].state
        /\ q[L].captured => owed[s].file <= q[L].state /\ owed[s].synced <= q[L].state
        /\ L >= 2 /\ ~q[L].captured /\ deferred[s] = "checkpoint" => owed[s].synced <= q[L - 1].state
        /\ ~DurableIn(q, deferred[s]) =>
            owed[s].synced <= metadata[s].file.state /\ owed[s].synced <= metadata[s].synced.state
    BY <1>t, <1>u, <1>9 DEF SessionInv, OwedInv, LastOf
  <2>2. L >= 2 => queue'[s][Len(queue'[s])] = q[L]
    BY <1>2
  <2>3. L >= 3 => queue'[s][Len(queue'[s]) - 1] = q[L - 1]
    BY <1>2
  <2>4. queue'[s] # <<>> /\ queue'[s][Len(queue'[s])].captured =>
            /\ owed[s].file <= queue'[s][Len(queue'[s])].state
            /\ owed[s].synced <= queue'[s][Len(queue'[s])].state
    BY <1>2, <2>1, <2>2
  <2>5. Len(queue'[s]) >= 2 /\ ~queue'[s][Len(queue'[s])].captured /\ deferred'[s] = "checkpoint" =>
            owed[s].synced <= queue'[s][Len(queue'[s]) - 1].state
    BY <1>2, <1>4, <2>1, <2>2, <2>3 DEF NoTier
  <2>6. queue'[s] = <<>> => owed[s].file <= op.state
    BY <1>2, <1>3, <2>1
  <2>7. ASSUME ~DurableIn(queue'[s], deferred'[s])
        PROVE  /\ owed[s].synced <= op.state
               /\ op.tier # "durable" => /\ owed[s].synced <= metadata[s].file.state
                                         /\ owed[s].synced <= metadata[s].synced.state
    <3>1. /\ \A i \in 1 .. L - 1 : ~q[i + 1].captured
          /\ deferred'[s] # "durable"
      BY <2>7, <1>2 DEF DurableIn
    <3>2. CASE ~q[1].captured
      <4>1. \A i \in 1 .. L : i # 1 => i - 1 \in 1 .. L - 1 /\ (i - 1) + 1 = i
        BY <1>2
      <4>2. \A i \in 1 .. L : ~q[i].captured
        BY <3>1, <3>2, <4>1
      <4>3. op.tier # "durable" => ~DurableIn(q, deferred[s])
        BY <3>2, <4>2, <1>3 DEF DurableIn
      <4> QED
        BY <1>3, <2>1, <3>2, <4>3
    <3>3. CASE q[1].captured
      <4>1. L < 3
        <5>1. SUFFICES ASSUME L >= 3 PROVE FALSE
          BY <1>2
        <5>2. 1 \in 1 .. L - 1 /\ 2 \in 1 .. L - 1 /\ 2 \in 1 .. L /\ 3 \in 1 .. L
          BY <5>1, <1>2
        <5>3. ~q[2].captured /\ ~q[3].captured
          BY <5>2, <3>1
        <5> QED
          BY <5>2, <5>3, <1>10
      <4>2. CASE L = 1
        BY <4>2, <3>3, <1>3, <2>1
      <4>3. CASE L = 2
        <5>1. ~q[2].captured
          BY <4>3, <3>1
        <5>2. deferred[s] # NoTier /\ deferred[s] # "durable"
          BY <5>1, <4>3, <3>1, <3>3, <1>4, <1>10
        <5>3. deferred[s] = "checkpoint"
          BY <5>2, <1>t, SessionTypes DEF Tiers, NoTier
        <5> QED
          BY <5>1, <5>3, <4>3, <3>3, <1>3, <2>1
      <4>4. L = 1 \/ L = 2
        <5>1. L \in Nat /\ L >= 1
          BY <1>2
        <5> HIDE DEF L
        <5> QED
          BY <4>1, <5>1
      <4> QED
        BY <4>2, <4>3, <4>4
    <3> QED
      BY <3>2, <3>3
  <2> HIDE DEF q, L
  <2> QED
    BY <1>u, <1>3, <1>9, <2>1, <2>4, <2>5, <2>6, <2>7 DEF OwedInv, LastOf, DurableIn
<1>14. SessionInv(s)'
  BY <1>7, <1>9, <1>11, <1>12, <1>13 DEF SessionInv
<1> QED
  BY <1>t, <1>u, <1>5, <1>14, OneSession, SessionTypes

-----------------------------------------------------------------------------
(* The steps of an operation in the store.                                 *)

\* DurableWaits, by positions.
LEMMA WaitsFacts ==
    ASSUME TypeOK, NEW s \in Sessions
    PROVE  DurableWaits(s) <=> DurableIn(queue[s], deferred[s])
<1>1. DOMAIN queue[s] = 1 .. Len(queue[s])
  BY SessionTypes
<1> QED
  BY <1>1 DEF DurableWaits, DurableIn

\* Only the step of one session changes.
LEMMA Goes ==
    ASSUME TypeOK, NEW s \in Sessions, NEW stage, Goto(s, stage)
    PROVE  step'[s] = stage /\ \A t \in Sessions \ {s} : step'[t] = step[t]
  BY DEF Goto, TypeOK

\* What only moves an operation on leaves these parts alone.
LEMMA MoveKeeps ==
    ASSUME IInv, TypeOK', NEW s \in Sessions, ops[s] # <<>>,
           UNCHANGED <<clock, live, open, revision, queue, deferred, ops, known, index, flush,
                       flight, messages, metadata, listing, promised, owed>>
    PROVE  /\ Clocked(s)' /\ WaitingInv(s)' /\ CapturedInv(s)' /\ RunningInv(s)' /\ KnownInv(s)'
           /\ PromisedInv(s)' /\ OwedInv(s)' /\ Op(s)' = Op(s)
           /\ outcome'[s] # "not_found" => RevisionInv(s)'
<1>1. SameFiles(s) /\ SameOpen(s) /\ SessionInv(s) /\ TypeOK /\ Op(s)' = Op(s)
  BY DEF SameFiles, SameOpen, IInv, Op
<1>2. Clocked(s)' /\ WaitingInv(s)' /\ CapturedInv(s)' /\ KnownInv(s)' /\ PromisedInv(s)'
  BY <1>1, SessionTypes, ClockedKept, WaitingKept, CapturedKept, KnownKept, PromisedKept
     DEF SessionInv
<1>3. RunningInv(s)' /\ OwedInv(s)'
  BY <1>1, RunningKept, OwedKept DEF SessionInv
<1>4. outcome'[s] # "not_found" => RevisionInv(s)'
  BY <1>1 DEF SessionInv, RevisionInv, Readable
<1> QED
  BY <1>1, <1>2, <1>3, <1>4

\* The revision is as expected: the operation goes to write.
LEMMA BeginKeeps ==
    ASSUME IInv, NEW s \in Sessions, Begin(s), TypeOK'
    PROVE  IInv'
<1>t. TypeOK /\ SessionInv(s)
  BY DEF IInv
<1>u. /\ UNCHANGED <<clock, live, open, revision, queue, deferred, ops, outcome, known, index,
                     flush, flight, messages, metadata, listing, promised, owed>>
      /\ ops[s] # <<>> /\ Expected(s)
  BY DEF Begin, managerVars, diskVars, historyVars
<1>1. /\ step'[s] = CASE ~Unchanged(s) -> "messages"
                      [] Unchanged(s) /\ Op(s).tier = "durable" /\ known[s].tier = "checkpoint" -> "sync"
                      [] OTHER -> "metadata"
      /\ \A t \in Sessions \ {s} : step'[t] = step[t]
  BY <1>t, Goes DEF Begin
<1>2. \A t \in Sessions \ {s} : Untouched(t)
  BY <1>1, <1>u DEF Untouched, SameFiles, SameOpen
<1>3. /\ Clocked(s)' /\ WaitingInv(s)' /\ CapturedInv(s)' /\ RunningInv(s)' /\ KnownInv(s)'
      /\ PromisedInv(s)' /\ OwedInv(s)' /\ Op(s)' = Op(s)
      /\ outcome'[s] # "not_found" => RevisionInv(s)'
  BY <1>t, <1>u, MoveKeeps
<1>4. RevisionInv(s)'
  BY <1>t, <1>u, <1>3 DEF SessionInv, RevisionInv
<1>5. step'[s] # "messages" => /\ Unchanged(s)
                               /\ step'[s] = "sync" \/ step'[s] = "metadata"
                               /\ step'[s] = "metadata" =>
                                    Op(s).tier # "durable" \/ known[s].tier # "checkpoint"
  BY <1>1
<1>6. ASSUME Unchanged(s) PROVE known[s].tier # NoTier
  <2>1. Op(s).kind = "save" => known[s].counter = Op(s).text /\ Op(s).text >= 1
    BY <1>t, <1>u, <1>6, FirstRuns DEF Unchanged, SessionInv, RunningInv
  <2>2. Op(s).kind # "save" => known[s].digest # 0
    BY <1>6 DEF Unchanged
  <2> QED
    BY <1>t, <2>1, <2>2, SessionTypes DEF SessionInv, KnownInv
<1>7. WriteInv(s)'
  <2>1. ASSUME step'[s] = "sync" \/ step'[s] = "metadata", Op(s).kind = "save"
        PROVE  Op(s).text <= messages[s].file
    BY <2>1, <1>t, <1>5 DEF Unchanged, SessionInv, KnownInv
  <2>2. ASSUME step'[s] = "metadata", Op(s).tier = "durable"
        PROVE  messages[s].synced = messages[s].file
    <3>1. known[s].tier = "durable"
      BY <2>2, <1>t, <1>5, <1>6, SessionTypes DEF Tiers
    <3> QED
      BY <3>1, <1>t DEF SessionInv, KnownInv
  <2>3. step'[s] \in {"messages", "sync", "metadata"}
    BY <1>5
  <2> QED
    BY <1>u, <1>3, <2>1, <2>2, <2>3 DEF WriteInv, Landed, Ended, At
<1>8. ListedInv(s)'
  <2>1. step'[s] \in {"messages", "sync", "metadata"}
    BY <1>5
  <2> QED
    BY <1>t, <1>u, <2>1 DEF SessionInv, ListedInv, Ended, At
<1>9. SessionInv(s)'
  BY <1>3, <1>4, <1>7, <1>8 DEF SessionInv
<1> QED
  BY <1>t, <1>u, <1>2, <1>9, OneSession, SessionTypes

\* An operation that ends without having succeeded.
LEMMA GaveUp ==
    ASSUME IInv, TypeOK', NEW s \in Sessions, ops[s] # <<>>, step'[s] = "settled",
           outcome'[s] # "ok", outcome'[s] # "not_found",
           \A t \in Sessions \ {s} : step'[t] = step[t] /\ outcome'[t] = outcome[t],
           UNCHANGED <<clock, live, open, revision, queue, deferred, ops, known, index, flush,
                       flight, messages, metadata, listing, promised, owed>>
    PROVE  IInv'
<1>t. TypeOK /\ SessionInv(s)
  BY DEF IInv
<1>1. \A t \in Sessions \ {s} : Untouched(t)
  BY DEF Untouched, SameFiles, SameOpen
<1>2. /\ Clocked(s)' /\ WaitingInv(s)' /\ CapturedInv(s)' /\ RunningInv(s)' /\ KnownInv(s)'
      /\ PromisedInv(s)' /\ OwedInv(s)' /\ RevisionInv(s)'
  BY MoveKeeps
<1>3. WriteInv(s)'
  BY DEF WriteInv, Landed, Ended, At
<1>4. ListedInv(s)'
  BY <1>t DEF SessionInv, ListedInv, Ended, At
<1>5. SessionInv(s)'
  BY <1>2, <1>3, <1>4 DEF SessionInv
<1> QED
  BY <1>t, <1>1, <1>5, OneSession, SessionTypes

\* The revision is not as expected: nothing is written.
LEMMA RefuseKeeps ==
    ASSUME IInv, NEW s \in Sessions, Refuse(s), TypeOK'
    PROVE  IInv'
<1>t. TypeOK /\ SessionInv(s)
  BY DEF IInv
<1>u. /\ UNCHANGED <<clock, live, open, revision, queue, deferred, ops, known, index,
                     flush, flight, messages, metadata, listing, promised, owed>>
      /\ ops[s] # <<>> /\ ~Expected(s)
  BY DEF Refuse, managerVars, diskVars, historyVars
<1>1. step'[s] = "settled" /\ \A t \in Sessions \ {s} : step'[t] = step[t]
  BY <1>t, Goes DEF Refuse
<1>2. /\ outcome'[s] =
            IF metadata[s].file.revision = 0 \/ (Op(s).kind = "rename" /\ ~Readable(s))
            THEN "not_found" ELSE "conflict"
      /\ \A t \in Sessions \ {s} : outcome'[t] = outcome[t]
  BY <1>t DEF Refuse, TypeOK
<1>3. Op(s) = ops[s][1] /\ 1 \in 1 .. Len(ops[s]) /\ s \in open
  BY <1>t, <1>u, FirstRuns DEF SessionInv, RunningInv
<1>4. Op(s).expected # 0 => metadata[s].file.revision # 0
  BY <1>t, <1>3 DEF SessionInv, RevisionInv
<1>5. Op(s).kind = "rename" => Op(s).expected # 0
  BY <1>t, <1>3 DEF SessionInv, RunningInv
<1>6. metadata[s].file.revision # 0 => Readable(s)
  BY <1>t, <1>3 DEF SessionInv, RevisionInv
<1>7. outcome'[s] = "conflict"
  BY <1>2, <1>4, <1>5, <1>6, <1>u DEF Expected
<1> QED
  BY <1>1, <1>2, <1>7, <1>u, GaveUp

\* A file that could not be written holds what it held.
LEMMA FailKeeps ==
    ASSUME IInv, NEW s \in Sessions, Fail(s), TypeOK'
    PROVE  IInv'
<1>t. TypeOK /\ SessionInv(s)
  BY DEF IInv
<1>u. UNCHANGED <<clock, live, open, revision, queue, deferred, ops, known, index,
                  flush, flight, messages, metadata, listing, promised, owed>>
  BY DEF Fail, managerVars, diskVars
<1>1. step'[s] = "settled" /\ \A t \in Sessions \ {s} : step'[t] = step[t]
  BY <1>t, Goes DEF Fail
<1>2. outcome'[s] = "io_error" /\ \A t \in Sessions \ {s} : outcome'[t] = outcome[t]
  BY <1>t DEF Fail, TypeOK
<1>3. ops[s] # <<>>
  BY <1>t DEF Fail, At, SessionInv, RunningInv
<1> QED
  BY <1>1, <1>2, <1>3, <1>u, GaveUp

\* What is known of the operation that runs.
LEMMA RunningFacts ==
    ASSUME IInv, NEW s \in Sessions, step[s] # "idle"
    PROVE  /\ s \in open /\ ops[s] # <<>> /\ Op(s) \in Operations /\ Op(s).kind \in {"save", "rename"}
           /\ Op(s).tier \in Tiers /\ Op(s).text \in Nat /\ Op(s).state \in Nat
           /\ Op(s).kind # "save" => /\ Op(s).tier = "durable" /\ ~Op(s).captured
                                     /\ Readable(s)
           /\ Op(s).kind = "save" =>
                /\ Op(s).text >= 1 /\ NotOlder(promised[s], Op(s)) /\ NotOlder(Op(s), live[s])
           /\ Op(s).captured => Op(s).tier = "durable"
<1>1. ops[s] # <<>> /\ SessionInv(s)
  BY DEF IInv, SessionInv, RunningInv
<1>2. Op(s) = ops[s][1] /\ 1 \in 1 .. Len(ops[s]) /\ Op(s) \in Operations
      /\ Op(s).kind \in {"save", "rename"}
      /\ Op(s).tier \in Tiers /\ Op(s).text \in Nat /\ Op(s).state \in Nat
  BY <1>1, FirstRuns
<1>3. /\ s \in open
      /\ Op(s).kind = "rename" => /\ Op(s).tier = "durable" /\ ~Op(s).captured
                                  /\ Op(s).expected # 0
      /\ Op(s).kind = "save" =>
            /\ Op(s).text >= 1 /\ NotOlder(promised[s], Op(s)) /\ NotOlder(Op(s), live[s])
      /\ Op(s).captured => Op(s).tier = "durable"
  BY <1>1, <1>2 DEF SessionInv, RunningInv
<1>4. Op(s).expected # 0 => Readable(s)
  BY <1>1, <1>2, <1>3 DEF SessionInv, RevisionInv
<1> QED
  BY <1>1, <1>2, <1>3, <1>4

\* The transcript is written, on the tier of the operation.
LEMMA WriteMessagesKeeps ==
    ASSUME IInv, NEW s \in Sessions, WriteMessages(s), TypeOK'
    PROVE  IInv'
<1>t. TypeOK /\ SessionInv(s)
  BY DEF IInv
<1>u. /\ UNCHANGED <<clock, live, open, revision, queue, deferred, ops, outcome, index,
                     flush, flight, metadata, listing, promised, owed>>
      /\ step[s] = "messages"
  BY DEF WriteMessages, At, managerVars, historyVars
<1>1. step'[s] = "metadata" /\ \A t \in Sessions \ {s} : step'[t] = step[t]
  BY <1>t, Goes DEF WriteMessages
<1>o. /\ s \in open /\ ops[s] # <<>> /\ Op(s).kind \in {"save", "rename"}
      /\ Op(s).tier \in Tiers /\ Op(s).text \in Nat
      /\ Op(s).kind # "save" => Op(s).tier = "durable" /\ Readable(s)
      /\ Op(s).kind = "save" =>
            /\ Op(s).text >= 1 /\ promised[s].text <= Op(s).text /\ Op(s).text <= live[s].text
  BY <1>u, RunningFacts DEF NotOlder
<1>2. PICK text \in TextOf(s) .. IF Op(s).kind = "save" THEN live[s].text ELSE TextOf(s) :
          messages' = [messages EXCEPT ![s] = Written(@, text, Op(s).tier)]
  BY DEF WriteMessages
<1>3. /\ text \in Nat /\ text >= 1 /\ text <= clock /\ promised[s].text <= text
      /\ Op(s).kind = "save" => Op(s).text <= text
  <2>1. CASE Op(s).kind = "save"
    <3>1. text \in Op(s).text .. live[s].text
      BY <1>2, <2>1 DEF TextOf
    <3> QED
      BY <2>1, <3>1, <1>t, <1>o, SessionTypes DEF SessionInv, Clocked
  <2>2. CASE Op(s).kind # "save"
    <3>1. text \in messages[s].file .. messages[s].file
      BY <1>2, <2>2 DEF TextOf
    <3> QED
      BY <2>2, <3>1, <1>t, <1>o, SessionTypes DEF SessionInv, Clocked, Readable, PromisedInv
  <2> QED
    BY <2>1, <2>2
<1>4. /\ messages'[s].file = text
      /\ messages'[s].synced = IF Op(s).tier = "durable" THEN text ELSE messages[s].synced
      /\ \A t \in Sessions \ {s} : messages'[t] = messages[t]
  BY <1>t, <1>2 DEF Written, TypeOK
<1>5. /\ known'[s] = IF Op(s).kind = "save"
                     THEN [counter |-> Op(s).text, digest |-> 0, tier |-> Op(s).tier]
                     ELSE [counter |-> 0, digest |-> TextOf(s), tier |-> Op(s).tier]
      /\ \A t \in Sessions \ {s} : known'[t] = known[t]
  BY <1>t DEF WriteMessages, TypeOK
<1>6. \A t \in Sessions \ {s} : Untouched(t)
  BY <1>1, <1>4, <1>5, <1>u DEF Untouched, SameFiles, SameOpen
<1>7. SameOpen(s) /\ Op(s)' = Op(s)
  BY <1>u DEF SameOpen, Op
<1>8. Clocked(s)'
  BY <1>t, <1>u, <1>3, <1>4 DEF SessionInv, Clocked
<1>9. WaitingInv(s)' /\ CapturedInv(s)' /\ RunningInv(s)' /\ OwedInv(s)'
  BY <1>t, <1>u, <1>o, <1>7, WaitingKept, CapturedKept, RunningKept, OwedKept DEF SessionInv
<1>10. KnownInv(s)'
  BY <1>o, <1>3, <1>4, <1>5 DEF KnownInv, Tiers, NoTier
<1>11. WriteInv(s)'
  BY <1>1, <1>3, <1>4, <1>7 DEF WriteInv, Landed, Ended, At
<1>12. ListedInv(s)'
  BY <1>t, <1>u, <1>1 DEF SessionInv, ListedInv, Ended, At
<1>13. RevisionInv(s)'
  BY <1>t, <1>u, <1>o, <1>3, <1>4 DEF SessionInv, RevisionInv, Readable
<1>14. PromisedInv(s)'
  BY <1>t, <1>u, <1>3, <1>4 DEF SessionInv, PromisedInv
<1>15. SessionInv(s)'
  BY <1>8, <1>9, <1>10, <1>11, <1>12, <1>13, <1>14 DEF SessionInv
<1> QED
  BY <1>t, <1>u, <1>6, <1>15, OneSession, SessionTypes

\* The transcript that was written before is synced.
LEMMA SyncMessagesKeeps ==
    ASSUME IInv, NEW s \in Sessions, SyncMessages(s), TypeOK'
    PROVE  IInv'
<1>t. TypeOK /\ SessionInv(s)
  BY DEF IInv
<1>u. /\ UNCHANGED <<clock, live, open, revision, queue, deferred, ops, outcome, index,
                     flush, flight, metadata, listing, promised, owed>>
      /\ step[s] = "sync"
  BY DEF SyncMessages, At, managerVars, historyVars
<1>1. step'[s] = "metadata" /\ \A t \in Sessions \ {s} : step'[t] = step[t]
  BY <1>t, Goes DEF SyncMessages
<1>2. s \in open /\ ops[s] # <<>>
  BY <1>u, RunningFacts
<1>3. /\ messages'[s].file = messages[s].file /\ messages'[s].synced = messages[s].file
      /\ \A t \in Sessions \ {s} : messages'[t] = messages[t]
  BY <1>t DEF SyncMessages, Both, TypeOK
<1>4. /\ known'[s].counter = known[s].counter /\ known'[s].digest = known[s].digest
      /\ known'[s].tier = "durable"
      /\ \A t \in Sessions \ {s} : known'[t] = known[t]
  BY <1>t DEF SyncMessages, TypeOK
<1>5. \A t \in Sessions \ {s} : Untouched(t)
  BY <1>1, <1>3, <1>4, <1>u DEF Untouched, SameFiles, SameOpen
<1>6. SameOpen(s) /\ Op(s)' = Op(s)
  BY <1>u DEF SameOpen, Op
<1>7. Clocked(s)'
  BY <1>t, <1>u, <1>3 DEF SessionInv, Clocked
<1>8. WaitingInv(s)' /\ CapturedInv(s)' /\ RunningInv(s)' /\ OwedInv(s)'
  BY <1>t, <1>u, <1>2, <1>6, WaitingKept, CapturedKept, RunningKept, OwedKept DEF SessionInv
<1>9. KnownInv(s)'
  BY <1>t, <1>3, <1>4 DEF SessionInv, KnownInv, NoTier
<1>10. WriteInv(s)'
  BY <1>t, <1>u, <1>1, <1>3, <1>6 DEF SessionInv, WriteInv, Landed, Ended, At
<1>11. ListedInv(s)'
  BY <1>t, <1>u, <1>1 DEF SessionInv, ListedInv, Ended, At
<1>12. RevisionInv(s)'
  BY <1>t, <1>u, <1>3 DEF SessionInv, RevisionInv, Readable
<1>13. PromisedInv(s)'
  BY <1>t, <1>u, <1>3 DEF SessionInv, PromisedInv
<1>14. SessionInv(s)'
  BY <1>7, <1>8, <1>9, <1>10, <1>11, <1>12, <1>13 DEF SessionInv
<1> QED
  BY <1>t, <1>u, <1>5, <1>14, OneSession, SessionTypes

\* The metadata is written: every record that it may replace is older, and the
\* session is listed by the flush that is scheduled.
LEMMA WriteMetadataKeeps ==
    ASSUME IInv, NEW s \in Sessions, WriteMetadata(s), TypeOK'
    PROVE  IInv'
<1>t. TypeOK /\ SessionInv(s)
  BY DEF IInv
<1>u. /\ UNCHANGED <<clock, live, open, revision, queue, deferred, ops, outcome, known,
                     flight, messages, listing, promised, owed>>
      /\ step[s] = "metadata" /\ flush' = Scheduled(Op(s).tier) /\ index' = index \cup {s}
  BY DEF WriteMetadata, At, managerVars, historyVars
<1>1. step'[s] = "waiting" /\ \A t \in Sessions \ {s} : step'[t] = step[t]
  BY <1>t, Goes DEF WriteMetadata
<1>o. /\ s \in open /\ ops[s] # <<>> /\ Op(s).kind \in {"save", "rename"}
      /\ Op(s).tier \in Tiers /\ Op(s).text \in Nat /\ Op(s).state \in Nat
      /\ Op(s).kind # "save" => Op(s).tier = "durable" /\ Readable(s)
      /\ Op(s).kind = "save" =>
            /\ Op(s).text >= 1
            /\ promised[s].state <= Op(s).state /\ Op(s).state <= live[s].state
      /\ Op(s) = ops[s][1] /\ 1 \in 1 .. Len(ops[s])
  BY <1>u, RunningFacts, FirstRuns DEF NotOlder
<1>2. /\ metadata'[s] = Written(metadata[s], [revision |-> metadata[s].file.revision + 1,
                                              text |-> TextOf(s), state |-> StateOf(s)], Op(s).tier)
      /\ \A t \in Sessions \ {s} : metadata'[t] = metadata[t]
  BY <1>t DEF WriteMetadata, TypeOK
<1>3. /\ metadata'[s].file.revision = metadata[s].file.revision + 1
      /\ metadata'[s].file.state = StateOf(s)
      /\ Op(s).tier = "durable" => metadata'[s].synced = metadata'[s].file
      /\ Op(s).tier # "durable" => metadata'[s].synced = metadata[s].synced
  BY <1>2 DEF Written
<1>4. /\ StateOf(s) \in Nat
      /\ Op(s).kind = "save" => StateOf(s) = Op(s).state
      /\ Op(s).kind # "save" => StateOf(s) = metadata[s].file.state
      /\ StateOf(s) <= clock /\ promised[s].state <= StateOf(s)
  BY <1>t, <1>o, SessionTypes DEF StateOf, SessionInv, Clocked, PromisedInv
<1>5. /\ flush' # NoTier
      /\ Op(s).tier = "durable" => flush' = "durable"
      /\ flush = "durable" => flush' = "durable"
  BY <1>u, <1>o DEF Scheduled, Upgraded, Tiers, NoTier
<1>6. \A t \in Sessions \ {s} : Untouched(t)
  BY <1>1, <1>2, <1>u DEF Untouched, SameFiles, SameOpen
<1>7. ASSUME NEW t \in Sessions, t # s PROVE SessionInv(t)'
  <2>1. Untouched(t) /\ Op(t)' = Op(t) /\ ListedInv(t)
    BY <1>6, <1>7 DEF Untouched, Op, IInv, SessionInv
  <2>2. ListedInv(t)'
    BY <1>u, <1>5, <2>1 DEF Untouched, SameOpen, ListedInv, Ended, At
  <2> QED
    BY <1>t, <1>u, <2>1, <2>2, OthersKept, SessionTypes
<1>8. Op(s)' = Op(s) /\ s \in index'
  BY <1>u DEF Op
<1>9. Clocked(s)'
  <2>1. metadata'[s].synced.state <= clock
    BY <1>t, <1>o, <1>3, <1>4 DEF SessionInv, Clocked
  <2> QED
    BY <1>t, <1>u, <1>3, <1>4, <2>1 DEF SessionInv, Clocked
<1>10. WaitingInv(s)' /\ CapturedInv(s)' /\ RunningInv(s)' /\ KnownInv(s)'
  <2>1. WaitingInv(s)' /\ CapturedInv(s)' /\ KnownInv(s)'
    BY <1>t, <1>u, CapturedKept, KnownKept DEF SessionInv, WaitingInv
  <2>2. RunningInv(s)'
    BY <1>t, <1>u, <1>o DEF SessionInv, RunningInv
  <2> QED
    BY <2>1, <2>2
<1>11. WriteInv(s)'
  BY <1>t, <1>u, <1>1, <1>3, <1>4, <1>8 DEF SessionInv, WriteInv, Landed, Ended, At
<1>12. ListedInv(s)'
  BY <1>t, <1>u, <1>1, <1>5, <1>8 DEF SessionInv, ListedInv, Ended, At
<1>13. RevisionInv(s)'
  <2>1. messages[s].file # 0
    BY <1>t, <1>u, <1>o, SessionTypes DEF SessionInv, WriteInv, At, Readable
  <2>2. metadata'[s].file.revision # 0
    BY <1>t, <1>3, SessionTypes
  <2> QED
    BY <1>t, <1>u, <1>o, <1>8, <2>1, <2>2 DEF SessionInv, RevisionInv, Readable
<1>14. PromisedInv(s)'
  BY <1>t, <1>u, <1>o, <1>3, <1>4 DEF SessionInv, PromisedInv
<1>15. OwedInv(s)'
  <2>1. (\A i \in 1 .. Len(ops[s]) : ops[s][i].kind # "save") =>
            metadata'[s].file.state = metadata[s].file.state
    BY <1>o, <1>3, <1>4
  <2>2. ASSUME ~DurableIn(queue[s], deferred[s]),
               \A i \in 1 .. Len(ops[s]) : ops[s][i].kind = "save" => ops[s][i].tier # "durable"
        PROVE  /\ owed[s].synced <= metadata'[s].file.state
               /\ owed[s].synced <= metadata'[s].synced.state
    <3>1. /\ owed[s].synced <= metadata[s].file.state
          /\ owed[s].synced <= metadata[s].synced.state
          /\ Op(s).kind = "save" => owed[s].synced <= Op(s).state /\ Op(s).tier # "durable"
      BY <1>t, <1>o, <2>2 DEF SessionInv, OwedInv
    <3> QED
      BY <1>o, <1>3, <1>4, <3>1
  <2> QED
    BY <1>t, <1>u, <2>1, <2>2 DEF SessionInv, OwedInv, LastOf, DurableIn
<1>16. SessionInv(s)'
  BY <1>9, <1>10, <1>11, <1>12, <1>13, <1>14, <1>15 DEF SessionInv
<1> QED
  BY <1>t, <1>7, <1>16 DEF IInv

\* The manager learns the result; what was captured and saved is promised.
LEMMA SettleKeeps ==
    ASSUME IInv, NEW s \in Sessions, Settle(s), TypeOK'
    PROVE  IInv'
<1> DEFINE L == Len(ops[s])
           ok == outcome[s] = "ok"
<1>t. TypeOK /\ SessionInv(s)
  BY DEF IInv
<1>u. /\ UNCHANGED <<clock, live, open, queue, deferred, outcome, known, index,
                     flush, flight, messages, metadata, listing>>
      /\ step[s] = "settled"
  BY DEF Settle, At, diskVars
<1>1. step'[s] = "idle" /\ \A t \in Sessions \ {s} : step'[t] = step[t]
  BY <1>t, Goes DEF Settle
<1>o. /\ s \in open /\ ops[s] # <<>> /\ Op(s).kind \in {"save", "rename"}
      /\ Op(s).tier \in Tiers /\ Op(s).text \in Nat /\ Op(s).state \in Nat
      /\ Op(s).kind # "save" => ~Op(s).captured
      /\ Op(s).kind = "save" => NotOlder(Op(s), live[s])
      /\ Op(s).captured => Op(s).tier = "durable"
      /\ Op(s) = ops[s][1] /\ 1 \in 1 .. L /\ L \in Nat
  BY <1>u, RunningFacts, FirstRuns
<1>2. /\ ops'[s] = Tail(ops[s]) /\ revision'[s] = Learned(s)
      /\ \A t \in Sessions \ {s} : ops'[t] = ops[t] /\ revision'[t] = revision[t]
  BY <1>t DEF Settle, TypeOK
<1>3. /\ Len(ops'[s]) = L - 1 /\ \A i \in 1 .. L - 1 : ops'[s][i] = ops[s][i + 1]
      /\ \A i \in 1 .. L - 1 : i + 1 \in 1 .. L /\ i + 1 # 1
      /\ \A i \in 1 .. L : i # 1 => i - 1 \in 1 .. L - 1 /\ (i - 1) + 1 = i
  <2>1. ops[s] \in Seq(Operations)
    BY <1>t, SessionTypes
  <2> QED
    BY <1>2, <1>o, <2>1, FirstAndRest
<1>4. /\ promised'[s] = IF ok /\ Op(s).captured
                        THEN [text |-> Op(s).text, state |-> Op(s).state] ELSE promised[s]
      /\ \A t \in Sessions \ {s} : promised'[t] = promised[t]
  BY <1>t DEF Settle, TypeOK
<1>5. /\ ok \/ Op(s).kind = "rename" => owed'[s] = owed[s]
      /\ ~(ok \/ Op(s).kind = "rename") =>
            /\ owed'[s].file = IF queue[s] = <<>> THEN 0 ELSE owed[s].file
            /\ owed'[s].synced = IF DurableWaits(s) THEN owed[s].synced ELSE 0
      /\ \A t \in Sessions \ {s} : owed'[t] = owed[t]
  BY <1>t DEF Settle, TypeOK
<1> HIDE DEF L
<1>6. \A t \in Sessions \ {s} : Untouched(t)
  BY <1>1, <1>2, <1>4, <1>5, <1>u DEF Untouched, SameFiles, SameOpen
<1>7. SameFiles(s) /\ SameOpen(s)
  BY <1>u DEF SameFiles, SameOpen
<1>8. Clocked(s)' /\ WaitingInv(s)' /\ KnownInv(s)'
  BY <1>t, <1>u, <1>7, SessionTypes, ClockedKept, WaitingKept, KnownKept DEF SessionInv
<1>9. WriteInv(s)'
  BY <1>1 DEF WriteInv, Landed, Ended, At
<1>s. /\ \A i, j \in 1 .. L : ops[s][i].kind = "save" /\ ops[s][j].kind = "save" => i = j
      /\ Op(s).kind = "save" => \A i \in 1 .. L - 1 : ops'[s][i].kind # "save"
  <2>1. \A i, j \in 1 .. L : ops[s][i].kind = "save" /\ ops[s][j].kind = "save" => i = j
    BY <1>t DEF SessionInv, RunningInv, L
  <2>2. Op(s).kind = "save" => \A i \in 1 .. L - 1 : ops'[s][i].kind # "save"
    BY <1>o, <1>3, <2>1
  <2> QED
    BY <2>1, <2>2
<1>10. ASSUME ok, Op(s).captured
       PROVE  /\ Op(s).kind = "save" /\ Op(s).tier = "durable" /\ Ended(s)
              /\ promised'[s].text = Op(s).text /\ promised'[s].state = Op(s).state
              /\ \A j \in 1 .. Len(queue[s]) : queue[s][j].captured => NotOlder(Op(s), queue[s][j])
  BY <1>10, <1>t, <1>u, <1>o, <1>4 DEF SessionInv, RunningInv, Ended, At, L
<1>11. CapturedInv(s)'
  <2>1. CASE ok /\ Op(s).captured
    BY <2>1, <1>t, <1>u, <1>o, <1>10 DEF SessionInv, CapturedInv, NotOlder
  <2>2. CASE ~(ok /\ Op(s).captured)
    BY <2>2, <1>t, <1>u, <1>4, CapturedKept DEF SessionInv
  <2> QED
    BY <2>1, <2>2
<1>12. RunningInv(s)'
  <2>1. /\ \A i \in 1 .. L :
            /\ ops[s][i].kind = "rename" =>
                ops[s][i].tier = "durable" /\ ~ops[s][i].captured /\ ops[s][i].expected # 0
            /\ ops[s][i].captured => ops[s][i].tier = "durable"
            /\ ops[s][i].kind = "save" =>
                /\ ops[s][i].text >= 1
                /\ NotOlder(promised[s], ops[s][i]) /\ NotOlder(ops[s][i], live[s])
            /\ ops[s][i].kind = "save" /\ ops[s][i].captured =>
                \A j \in 1 .. Len(queue[s]) :
                    queue[s][j].captured => NotOlder(ops[s][i], queue[s][j])
    BY <1>t DEF SessionInv, RunningInv, L
  <2>2. ASSUME NEW i \in 1 .. L - 1, ops'[s][i].kind = "save" PROVE promised'[s] = promised[s]
    BY <2>2, <1>o, <1>s, <1>4
  <2>3. \A i, j \in 1 .. L - 1 : ops'[s][i].kind = "save" /\ ops'[s][j].kind = "save" => i = j
    <3>1. SUFFICES ASSUME NEW i \in 1 .. L - 1, NEW j \in 1 .. L - 1,
                          ops'[s][i].kind = "save", ops'[s][j].kind = "save"
                   PROVE  i = j
      OBVIOUS
    <3>2. i + 1 = j + 1
      BY <3>1, <1>3, <1>s
    <3> QED
      BY <3>2
  <2>4. \A i \in 1 .. L - 1 :
            /\ ops'[s][i].kind = "rename" =>
                ops'[s][i].tier = "durable" /\ ~ops'[s][i].captured /\ ops'[s][i].expected # 0
            /\ ops'[s][i].captured => ops'[s][i].tier = "durable"
            /\ ops'[s][i].kind = "save" =>
                /\ ops'[s][i].text >= 1
                /\ NotOlder(promised'[s], ops'[s][i]) /\ NotOlder(ops'[s][i], live[s])
            /\ ops'[s][i].kind = "save" /\ ops'[s][i].captured =>
                \A j \in 1 .. Len(queue[s]) :
                    queue[s][j].captured => NotOlder(ops'[s][i], queue[s][j])
    BY <1>3, <2>1, <2>2
  <2> QED
    BY <1>u, <1>o, <1>1, <1>3, <2>3, <2>4 DEF RunningInv
<1>13. PromisedInv(s)'
  <2>1. CASE ok /\ Op(s).captured
    BY <2>1, <1>t, <1>u, <1>o, <1>10 DEF SessionInv, WriteInv, Landed, PromisedInv
  <2>2. CASE ~(ok /\ Op(s).captured)
    BY <2>2, <1>t, <1>4, <1>7, PromisedKept DEF SessionInv
  <2> QED
    BY <2>1, <2>2
<1>14. ListedInv(s)'
  <2>1. CASE ok /\ Op(s).captured
    BY <2>1, <1>t, <1>u, <1>1, <1>10 DEF SessionInv, ListedInv, Ended, At
  <2>2. CASE ~(ok /\ Op(s).captured)
    BY <2>2, <1>t, <1>u, <1>1, <1>4 DEF SessionInv, ListedInv, Ended, At
  <2> QED
    BY <2>1, <2>2
<1>15. RevisionInv(s)'
  <2>1. /\ metadata[s].file.revision # 0 => Readable(s)
        /\ revision[s] # 0 \/ s \in index => metadata[s].file.revision # 0
        /\ \A i \in 1 .. L : ops[s][i].expected # 0 => metadata[s].file.revision # 0
        /\ outcome[s] # "not_found"
    BY <1>t, <1>o DEF SessionInv, RevisionInv, L
  <2>2. outcome[s] \in {"ok", "conflict", "io_error"}
    BY <1>t, <2>1, SessionTypes DEF Outcomes
  <2>3. revision'[s] # 0 => metadata[s].file.revision # 0
    BY <1>2, <2>1 DEF Learned
  <2>4. outcome[s] # "io_error" => revision'[s] = metadata[s].file.revision
    BY <1>2, <2>2 DEF Learned
  <2>5. \A i \in 1 .. L - 1 : ops'[s][i].expected # 0 => metadata[s].file.revision # 0
    BY <1>3, <2>1
  <2> QED
    BY <1>u, <1>3, <2>1, <2>3, <2>4, <2>5 DEF RevisionInv, Readable
<1>16. OwedInv(s)'
  <2>1. OwedInv(s) /\ (Op(s).kind = "save" /\ ok => Landed(s))
        /\ owed[s].file \in Nat /\ owed[s].synced \in Nat
    BY <1>t, <1>u, SessionTypes DEF SessionInv, Landed, Ended, At
  <2>2. owed'[s].file \in {owed[s].file, 0} /\ owed'[s].synced \in {owed[s].synced, 0}
    BY <1>5
  <2>3. ASSUME queue[s] = <<>>
        PROVE  /\ \A i \in 1 .. L - 1 : ops'[s][i].kind = "save" => owed'[s].file <= ops'[s][i].state
               /\ (\A i \in 1 .. L - 1 : ops'[s][i].kind # "save") =>
                    owed'[s].file <= metadata[s].file.state
    <3>1. /\ \A i \in 1 .. L : ops[s][i].kind = "save" => owed[s].file <= ops[s][i].state
          /\ (\A i \in 1 .. L : ops[s][i].kind # "save") => owed[s].file <= metadata[s].file.state
      BY <2>1, <2>3 DEF OwedInv, L
    <3>2. CASE Op(s).kind # "save"
      <4>1. owed'[s].file = owed[s].file
        BY <3>2, <1>o, <1>5
      <4>2. (\A i \in 1 .. L - 1 : ops'[s][i].kind # "save") =>
                \A i \in 1 .. L : ops[s][i].kind # "save"
        BY <3>2, <1>o, <1>3
      <4> QED
        BY <3>1, <4>1, <4>2, <1>3
    <3>3. CASE Op(s).kind = "save"
      <4>1. owed'[s].file <= metadata[s].file.state
        <5>1. CASE ok
          BY <5>1, <3>1, <3>3, <2>1, <1>t, <1>o, <1>5 DEF SessionInv, WriteInv
        <5>2. CASE ~ok
          BY <5>2, <3>3, <2>3, <1>t, <1>5, SessionTypes
        <5> QED
          BY <5>1, <5>2
      <4> QED
        BY <4>1, <3>3, <1>s
    <3> QED
      BY <3>2, <3>3
  <2>4. ASSUME ~DurableIn(queue[s], deferred[s])
        PROVE  /\ \A i \in 1 .. L - 1 : ops'[s][i].kind = "save" => owed'[s].synced <= ops'[s][i].state
               /\ (\A i \in 1 .. L - 1 : ops'[s][i].kind = "save" => ops'[s][i].tier # "durable") =>
                    /\ owed'[s].synced <= metadata[s].file.state
                    /\ owed'[s].synced <= metadata[s].synced.state
    <3>1. /\ \A i \in 1 .. L : ops[s][i].kind = "save" => owed[s].synced <= ops[s][i].state
          /\ (\A i \in 1 .. L : ops[s][i].kind = "save" => ops[s][i].tier # "durable") =>
                /\ owed[s].synced <= metadata[s].file.state
                /\ owed[s].synced <= metadata[s].synced.state
      BY <2>1, <2>4 DEF OwedInv, L
    <3>2. CASE Op(s).kind # "save"
      <4>1. owed'[s].synced = owed[s].synced
        BY <3>2, <1>o, <1>5
      <4>2. (\A i \in 1 .. L - 1 : ops'[s][i].kind = "save" => ops'[s][i].tier # "durable") =>
                \A i \in 1 .. L : ops[s][i].kind = "save" => ops[s][i].tier # "durable"
        <5>1. SUFFICES ASSUME \A i \in 1 .. L - 1 : ops'[s][i].kind = "save" => ops'[s][i].tier # "durable",
                              NEW i \in 1 .. L, ops[s][i].kind = "save"
                       PROVE  ops[s][i].tier # "durable"
          OBVIOUS
        <5>2. i - 1 \in 1 .. L - 1 /\ ops[s][i] = ops'[s][i - 1]
          BY <5>1, <3>2, <1>o, <1>3
        <5> QED
          BY <5>1, <5>2
      <4> QED
        BY <3>1, <4>1, <4>2, <1>3
    <3>3. CASE Op(s).kind = "save"
      <4>1. /\ owed'[s].synced <= metadata[s].file.state
            /\ owed'[s].synced <= metadata[s].synced.state
        <5>1. CASE ok
          <6>1. owed'[s].synced = owed[s].synced /\ metadata[s].file.state = Op(s).state
                /\ owed[s].synced <= Op(s).state
            BY <5>1, <3>1, <3>3, <2>1, <1>t, <1>o, <1>5 DEF SessionInv, WriteInv
          <6>2. CASE Op(s).tier = "durable"
            <7>1. metadata[s].synced = metadata[s].file
              BY <5>1, <6>2, <3>3, <2>1, <1>t DEF SessionInv, WriteInv
            <7> QED
              BY <6>1, <7>1
          <6>3. CASE Op(s).tier # "durable"
            <7>1. \A i \in 1 .. L : ops[s][i].kind = "save" => ops[s][i].tier # "durable"
              BY <6>3, <3>3, <1>o, <1>s
            <7> QED
              BY <6>1, <7>1, <3>1
          <6> QED
            BY <6>2, <6>3
        <5>2. CASE ~ok
          <6>1. owed'[s].synced = 0
            BY <5>2, <3>3, <2>4, <1>t, <1>5, WaitsFacts
          <6> QED
            BY <6>1, <1>t, SessionTypes
        <5> QED
          BY <5>1, <5>2
      <4> QED
        BY <4>1, <3>3, <1>s
    <3> QED
      BY <3>2, <3>3
  <2>5. /\ owed'[s].file <= live[s].state /\ owed'[s].synced <= live[s].state
        /\ queue[s] # <<>> /\ LastOf(queue[s]).captured =>
            owed'[s].file <= LastOf(queue[s]).state /\ owed'[s].synced <= LastOf(queue[s]).state
        /\ Len(queue[s]) >= 2 /\ ~LastOf(queue[s]).captured /\ deferred[s] = "checkpoint" =>
            owed'[s].synced <= queue[s][Len(queue[s]) - 1].state
    <3>1. ASSUME NEW i \in 1 .. Len(queue[s]) PROVE queue[s][i].state >= 0
      BY <1>t, EntryTypes
    <3>2. Len(queue[s]) \in Nat /\ (queue[s] # <<>> => Len(queue[s]) \in 1 .. Len(queue[s]))
          /\ (Len(queue[s]) >= 2 => Len(queue[s]) - 1 \in 1 .. Len(queue[s]))
      <4>1. queue[s] \in Seq(Entries)
        BY <1>t, SessionTypes
      <4> QED
        BY <4>1
    <3>3. owed'[s].file <= owed[s].file /\ owed'[s].synced <= owed[s].synced
          /\ owed'[s].file \in Nat /\ owed'[s].synced \in Nat /\ live[s].state \in Nat
      BY <1>t, <2>1, <2>2, SessionTypes
    <3>4. queue[s] # <<>> => LastOf(queue[s]).state \in Nat
      BY <1>t, <3>2, EntryTypes DEF LastOf
    <3>5. Len(queue[s]) >= 2 => queue[s][Len(queue[s]) - 1].state \in Nat
      BY <1>t, <3>2, EntryTypes
    <3> QED
      BY <2>1, <3>3, <3>4, <3>5 DEF OwedInv
  <2> QED
    BY <1>u, <1>3, <2>3, <2>4, <2>5 DEF OwedInv, LastOf, DurableIn
<1>17. SessionInv(s)'
  BY <1>8, <1>9, <1>11, <1>12, <1>13, <1>14, <1>15, <1>16 DEF SessionInv
<1> QED
  BY <1>t, <1>u, <1>6, <1>17, OneSession, SessionTypes

-----------------------------------------------------------------------------
(* The flushes of the index, which all sessions share.                     *)

\* What a flush leaves alone of a session.
LEMMA FlushKeeps ==
    ASSUME IInv, TypeOK', NEW s \in Sessions,
           UNCHANGED <<managerVars, ops, known, index, messages, metadata, promised, owed>>,
           step'[s] # "idle" => step[s] # "idle",
           outcome'[s] = outcome[s] \/ (outcome'[s] \in {"ok", "io_error"} /\ step[s] # "idle"),
           Landed(s)' => Landed(s),
           step'[s] \in {"sync", "metadata"} => step'[s] = step[s],
           ListedInv(s)'
    PROVE  SessionInv(s)'
<1>1. /\ SameFiles(s) /\ SameOpen(s) /\ SessionInv(s) /\ TypeOK /\ Op(s)' = Op(s)
      /\ UNCHANGED <<clock, live, open, revision, queue, deferred>>
  BY DEF SameFiles, SameOpen, IInv, Op, managerVars
<1>2. Clocked(s)' /\ WaitingInv(s)' /\ CapturedInv(s)' /\ KnownInv(s)' /\ PromisedInv(s)'
  BY <1>1, SessionTypes, ClockedKept, WaitingKept, CapturedKept, KnownKept, PromisedKept
     DEF SessionInv
<1>3. RunningInv(s)' /\ OwedInv(s)'
  BY <1>1, RunningKept, OwedKept DEF SessionInv, RunningInv
<1>4. WriteInv(s)'
  BY <1>1 DEF SessionInv, WriteInv, At
<1>5. RevisionInv(s)'
  BY <1>1 DEF SessionInv, RevisionInv, RunningInv, Readable
<1> QED
  BY <1>2, <1>3, <1>4, <1>5 DEF SessionInv

\* A flush takes the index and all who wait for it.
LEMMA StartFlushKeeps ==
    ASSUME IInv, StartFlush, TypeOK'
    PROVE  IInv'
<1>t. TypeOK
  BY DEF IInv
<1>u. /\ UNCHANGED <<managerVars, ops, outcome, known, index, messages, metadata, listing,
                     promised, owed>>
      /\ flush # NoTier /\ flight = NoFlight /\ flush' = NoTier
      /\ flight' = [tier |-> flush, listed |-> index]
  BY DEF StartFlush, diskVars, historyVars
<1>1. flight' # NoFlight /\ flight'.tier = flush /\ flight'.listed = index
  <2>1. flight'.tier = flush /\ flight'.listed = index /\ NoFlight.tier = NoTier
    BY <1>u DEF NoFlight
  <2> QED
    BY <1>u, <2>1
<1>2. ASSUME NEW s \in Sessions PROVE SessionInv(s)'
  <2>1. step'[s] = IF step[s] = "waiting" THEN "flushing" ELSE step[s]
    BY DEF StartFlush, Moved, At
  <2>2. ListedInv(s) /\ Op(s)' = Op(s)
    BY <1>u DEF IInv, SessionInv, Op
  <2>3. ListedInv(s)'
    BY <1>u, <1>1, <2>1, <2>2 DEF ListedInv, Ended, At
  <2>4. Landed(s)' => Landed(s)
    BY <1>u, <2>1 DEF Landed, Ended, At
  <2> QED
    BY <1>u, <2>1, <2>3, <2>4, FlushKeeps
<1> QED
  BY <1>2 DEF IInv

\* A flush that ends well leaves on disk whom it listed.
LEMMA FlushEndsKeeps ==
    ASSUME IInv, TypeOK', NEW ending, FlushEnds(ending), ending \in {"ok", "io_error"},
           \/ ending = "ok" /\ listing' = Written(listing, flight.listed, flight.tier)
           \/ ending # "ok" /\ listing' = listing
    PROVE  IInv'
<1>t. TypeOK
  BY DEF IInv
<1>u. /\ UNCHANGED <<managerVars, ops, known, index, flush, messages, metadata, promised, owed>>
      /\ flight # NoFlight /\ flight' = NoFlight
  BY DEF FlushEnds
<1>1. \A s \in Sessions : s \in flight.listed /\ s \in listing.file /\ s \in listing.synced =>
            s \in listing'.file /\ s \in listing'.synced
  BY DEF Written
<1>2. \A s \in Sessions : ending = "ok" /\ s \in flight.listed /\ flight.tier = "durable" =>
            s \in listing'.file /\ s \in listing'.synced
  BY DEF Written
<1>3. ASSUME NEW s \in Sessions PROVE SessionInv(s)'
  <2>1. /\ step'[s] = IF step[s] = "flushing" THEN "settled" ELSE step[s]
        /\ outcome'[s] = IF step[s] = "flushing" THEN ending ELSE outcome[s]
    BY DEF FlushEnds, Moved, At
  <2>2. ListedInv(s) /\ Op(s)' = Op(s)
    BY <1>u DEF IInv, SessionInv, Op
  <2>3. ListedInv(s)'
    <3>1. CASE step[s] = "flushing"
      BY <1>u, <1>1, <1>2, <2>1, <2>2, <3>1 DEF ListedInv, Ended, At
    <3>2. CASE step[s] # "flushing"
      BY <1>u, <1>1, <2>1, <2>2, <3>2 DEF ListedInv, Ended, At
    <3> QED
      BY <3>1, <3>2
  <2>4. Landed(s)' => Landed(s)
    BY <1>u, <2>1 DEF Landed, Ended, At
  <2> QED
    BY <1>u, <2>1, <2>3, <2>4, FlushKeeps
<1> QED
  BY <1>3 DEF IInv

-----------------------------------------------------------------------------
(* The start, and every further start.                                     *)

\* Nothing is promised or owed at the start.
LEMMA InitHolds ==
    ASSUME Init
    PROVE  IInv
<1>t. TypeOK
  BY InitTypes
<1>1. ASSUME NEW s \in Sessions PROVE SessionInv(s)
  <2>1. /\ clock = 1 /\ live[s].text = 1 /\ live[s].state = 1 /\ s \in open /\ s \notin index
        /\ revision[s] = 0 /\ queue[s] = <<>> /\ deferred[s] = NoTier /\ ops[s] = <<>>
        /\ step[s] = "idle" /\ outcome[s] = "ok"
        /\ known[s].counter = 0 /\ known[s].digest = 0 /\ known[s].tier = NoTier
        /\ messages[s].file = 0 /\ messages[s].synced = 0
        /\ metadata[s].file.revision = 0 /\ metadata[s].file.state = 0
        /\ metadata[s].synced.state = 0
        /\ promised[s].text = 0 /\ promised[s].state = 0
        /\ owed[s].file = 0 /\ owed[s].synced = 0
    BY DEF Init, NothingKnown, Both, NoMetadata, NothingOwed
  <2>2. Len(queue[s]) = 0 /\ Len(ops[s]) = 0
    BY <2>1
  <2>3. Clocked(s) /\ CapturedInv(s) /\ PromisedInv(s)
    BY <2>1, <2>2 DEF Clocked, CapturedInv, NotOlder, PromisedInv
  <2>4. WaitingInv(s) /\ RunningInv(s)
    BY <2>1, <2>2 DEF WaitingInv, RunningInv
  <2>5. KnownInv(s) /\ WriteInv(s) /\ ListedInv(s)
    BY <2>1 DEF KnownInv, NoTier, WriteInv, ListedInv, Landed, Ended, At
  <2>6. RevisionInv(s) /\ OwedInv(s)
    BY <2>1, <2>2 DEF RevisionInv, OwedInv
  <2> QED
    BY <2>3, <2>4, <2>5, <2>6 DEF SessionInv
<1> QED
  BY <1>t, <1>1 DEF IInv

\* What the files of a session hold after a crash or a power loss.
LEMMA FilesAfter ==
    ASSUME IInv, Crash \/ PowerLoss, NEW s \in Sessions
    PROVE  /\ messages'[s].file \in {messages[s].file, messages[s].synced}
           /\ messages'[s].synced \in {messages[s].file, messages[s].synced}
           /\ metadata'[s].file \in {metadata[s].file, metadata[s].synced}
           /\ metadata'[s].synced \in {metadata[s].file, metadata[s].synced}
           /\ listing'.file \in {listing.file, listing.synced}
           /\ listing'.synced \in {listing.file, listing.synced}
<1>1. CASE Crash
  BY <1>1 DEF Crash, diskVars
<1>2. CASE PowerLoss
  <2>1. PICK lost \in SUBSET Unsynced(messages) : messages' = After(messages, lost)
    BY <1>2 DEF PowerLoss
  <2>2. PICK gone \in SUBSET Unsynced(metadata) : metadata' = After(metadata, gone)
    BY <1>2 DEF PowerLoss
  <2>3. PICK listed \in {listing.file, listing.synced} : listing' = Both(listed)
    BY <1>2 DEF PowerLoss
  <2>4. messages'[s].file \in {messages[s].file, messages[s].synced}
        /\ messages'[s].synced \in {messages[s].file, messages[s].synced}
    BY <2>1 DEF After, Both
  <2>5. metadata'[s].file \in {metadata[s].file, metadata[s].synced}
        /\ metadata'[s].synced \in {metadata[s].file, metadata[s].synced}
    BY <2>2 DEF After, Both
  <2>6. listing'.file \in {listing.file, listing.synced}
        /\ listing'.synced \in {listing.file, listing.synced}
    BY <2>3 DEF Both
  <2> QED
    BY <2>4, <2>5, <2>6
<1> QED
  BY <1>1, <1>2

\* After a crash or a power loss the disk has what was promised, and the
\* manager starts from what the disk has.
LEMMA RestartKeeps ==
    ASSUME IInv, Crash \/ PowerLoss, TypeOK'
    PROVE  IInv'
<1>t. TypeOK /\ Restart
  BY DEF IInv, Crash, PowerLoss
<1>1. ASSUME NEW s \in Sessions PROVE SessionInv(s)'
  <2>1. /\ messages'[s].file \in {messages[s].file, messages[s].synced}
        /\ messages'[s].synced \in {messages[s].file, messages[s].synced}
        /\ metadata'[s].file \in {metadata[s].file, metadata[s].synced}
        /\ metadata'[s].synced \in {metadata[s].file, metadata[s].synced}
        /\ listing'.file \in {listing.file, listing.synced}
        /\ listing'.synced \in {listing.file, listing.synced}
    BY FilesAfter
  <2>2. /\ clock' = clock /\ promised' = promised /\ index' = listing'.file
        /\ live'[s].text = messages'[s].file /\ live'[s].state = metadata'[s].file.state
        /\ s \in open' <=> /\ s \in index' /\ messages'[s].file # 0
                           /\ metadata'[s].file.revision # 0
        /\ revision'[s] = IF s \in open' THEN metadata'[s].file.revision ELSE 0
        /\ queue'[s] = <<>> /\ deferred'[s] = NoTier /\ ops'[s] = <<>>
        /\ step'[s] = "idle" /\ outcome'[s] = "ok"
        /\ known'[s].counter = 0 /\ known'[s].digest = 0 /\ known'[s].tier = NoTier
        /\ flight' = NoFlight /\ owed'[s].file = 0 /\ owed'[s].synced = 0
    BY <1>t DEF Restart, NothingKnown, NothingOwed
  <2>3. /\ messages'[s].file <= clock /\ messages'[s].synced <= clock
        /\ metadata'[s].file.state <= clock /\ metadata'[s].synced.state <= clock
    BY <2>1 DEF IInv, SessionInv, Clocked
  <2>4. /\ promised[s].text <= messages'[s].file /\ promised[s].text <= messages'[s].synced
        /\ promised[s].state <= metadata'[s].file.state
        /\ promised[s].state <= metadata'[s].synced.state
    BY <2>1 DEF IInv, SessionInv, PromisedInv
  <2>5. promised[s].state # 0 => s \in listing'.file /\ s \in listing'.synced
    BY <2>1 DEF IInv, SessionInv, ListedInv
  <2>6. /\ messages'[s].file \in Nat /\ messages'[s].synced \in Nat
        /\ metadata'[s].file.state \in Nat /\ metadata'[s].synced.state \in Nat
    BY <1>t, <2>1, SessionTypes
  <2>7. Len(queue'[s]) = 0 /\ Len(ops'[s]) = 0
    BY <2>2
  <2>8. Clocked(s)' /\ CapturedInv(s)' /\ PromisedInv(s)'
    BY <2>2, <2>3, <2>4, <2>6, <2>7 DEF Clocked, CapturedInv, NotOlder, PromisedInv
  <2>9. WaitingInv(s)' /\ RunningInv(s)'
    BY <2>2, <2>7 DEF WaitingInv, RunningInv
  <2>10. KnownInv(s)' /\ WriteInv(s)' /\ ListedInv(s)'
    BY <2>2, <2>5, <2>6 DEF KnownInv, NoTier, WriteInv, ListedInv, Landed, Ended, At
  <2>11. RevisionInv(s)'
    BY <2>2, <2>7 DEF RevisionInv, Readable
  <2>12. OwedInv(s)'
    BY <2>2, <2>6, <2>7 DEF OwedInv
  <2> QED
    BY <2>8, <2>9, <2>10, <2>11, <2>12 DEF SessionInv
<1> QED
  BY <1>1 DEF IInv

-----------------------------------------------------------------------------
(* The theorems.                                                           *)

\* Every step keeps the invariant.
LEMMA StepKeeps ==
    ASSUME IInv, [Next]_vars
    PROVE  IInv'
<1>t. TypeOK
  BY DEF IInv
<1>1. ASSUME NEW s \in Sessions, NEW tier \in Tiers, SaveSession(s, tier) PROVE IInv'
  <2>1. CASE SaveAtOnce(s, FALSE, tier)
    <3>1. TypeOK' /\ FALSE \in BOOLEAN
      BY <1>t, <1>1, ManagerTypes
    <3>2. FALSE => tier = "durable"
      OBVIOUS
    <3> QED
      BY <2>1, <3>1, <3>2, SaveAtOnceKeeps
  <2> QED
    BY <1>1, <2>1, CoalesceKeeps, DeferKeeps DEF SaveSession
<1>2. ASSUME NEW s \in Sessions, SaveSessionNow(s) PROVE IInv'
  <2>1. CASE SaveAtOnce(s, TRUE, "durable")
    <3>1. TypeOK' /\ TRUE \in BOOLEAN /\ "durable" \in Tiers
      BY <1>t, <1>2, ManagerTypes DEF Tiers
    <3>2. TRUE => "durable" = "durable"
      OBVIOUS
    <3> QED
      BY <2>1, <3>1, <3>2, SaveAtOnceKeeps
  <2> QED
    BY <1>2, <2>1, CaptureBehindKeeps DEF SaveSessionNow
<1>3. ASSUME NEW s \in Sessions,
             \/ Begin(s) \/ Refuse(s) \/ WriteMessages(s) \/ SyncMessages(s) \/ WriteMetadata(s)
             \/ Fail(s) \/ Settle(s)
      PROVE  IInv'
  <2>1. TypeOK'
    BY <1>t, <1>3, OperationTypes DEF IInv, SessionInv, RunningInv
  <2> QED
    BY <1>3, <2>1, BeginKeeps, RefuseKeeps, WriteMessagesKeeps, SyncMessagesKeeps,
       WriteMetadataKeeps, FailKeeps, SettleKeeps
<1>4. CASE StartFlush
  BY <1>t, <1>4, FlushTypes, StartFlushKeeps
<1>5. CASE WriteIndex
  <2>1. TypeOK' /\ FlushEnds("ok") /\ listing' = Written(listing, flight.listed, flight.tier)
    BY <1>t, <1>5, FlushTypes DEF WriteIndex
  <2> QED
    BY <2>1, FlushEndsKeeps
<1>6. CASE FailFlush
  <2>1. TypeOK' /\ FlushEnds("io_error") /\ listing' = listing
    BY <1>t, <1>6, FlushTypes DEF FailFlush
  <2> QED
    BY <2>1, FlushEndsKeeps
<1>7. CASE Crash \/ PowerLoss
  BY <1>t, <1>7, RestartTypes, RestartKeeps
<1>8. CASE UNCHANGED vars
  <2>1. UNCHANGED <<managerVars, storeVars, diskVars, historyVars>>
    BY <1>8 DEF vars
  <2>2. TypeOK'
    BY <1>t, <2>1 DEF TypeOK, managerVars, storeVars, diskVars, historyVars
  <2>3. ASSUME NEW t \in Sessions PROVE SessionInv(t)'
    <3>1. Untouched(t) /\ UNCHANGED <<flush, flight, listing>> /\ clock' = clock
      BY <2>1 DEF Untouched, SameFiles, SameOpen, managerVars, storeVars, diskVars, historyVars
    <3> QED
      BY <1>t, <2>2, <3>1, OthersListed, OthersKept, SessionTypes
  <2> QED
    BY <2>2, <2>3 DEF IInv
<1>9. CASE Next
  <2>1. ASSUME NEW s \in Sessions, Change(s) \/ Rename(s) \/ Start(s) PROVE IInv'
    BY <2>1, ChangeKeeps, RenameKeeps, StartKeeps
  <2> QED
    BY <1>9, <1>1, <1>2, <1>3, <1>4, <1>5, <1>6, <1>7, <2>1 DEF Next
<1> QED
  BY <1>8, <1>9

\* The invariant holds of every session in every state: it is inductive, and
\* what the runs check follows from it.  (saveSession, SessionStore)
THEOREM InductiveInvariant == Spec => []IInv
<1>1. Init => IInv
  BY InitHolds
<1>2. IInv /\ [Next]_vars => IInv'
  BY StepKeeps
<1> QED
  BY <1>1, <1>2, PTL DEF Spec

\* The variables keep their types, whatever is asked for or fails.
\* (AgentSessionManager, SessionStore)
THEOREM TypeCorrect == Spec => []TypeOK
<1>1. IInv => TypeOK
  BY DEF IInv
<1> QED
  BY <1>1, InductiveInvariant, PTL

\* What saveSessionNow reported as saved is on disk and is listed, through any
\* number of crashes, power losses and later saves.  (writeSessionRecord,
\* scheduleIndexFlush)
THEOREM AcknowledgedStays == Spec => []AcknowledgedSurvives
<1>1. IInv => AcknowledgedSurvives
  BY DEF IInv, SessionInv, PromisedInv, ListedInv, AcknowledgedSurvives
<1> QED
  BY <1>1, InductiveInvariant, PTL

\* Between operations the manager expects the revision that is on disk.
\* (saveSessionRecordRevisionAware)
THEOREM RevisionsKnown == Spec => []RevisionKnown
<1>1. IInv => RevisionKnown
  BY DEF IInv, SessionInv, RevisionInv, RevisionKnown, TypeOK
<1> QED
  BY <1>1, InductiveInvariant, PTL

\* When no save waits or runs, what was to be saved is on disk on its tier.
\* (saveSession, saveSessionNow)
THEOREM SavesReachTheDisk == Spec => []SavedUnlessOvertaken
<1>1. ASSUME IInv, NEW s \in Sessions, ~Busy(s)
      PROVE  /\ owed[s].file <= metadata[s].file.state
             /\ owed[s].synced <= metadata[s].synced.state
  <2>1. TypeOK /\ SessionInv(s)
    BY <1>1 DEF IInv
  <2>2. DOMAIN ops[s] = 1 .. Len(ops[s]) /\ DOMAIN queue[s] = 1 .. Len(queue[s])
    BY <2>1, SessionTypes
  <2>3. queue[s] = <<>> /\ \A i \in 1 .. Len(ops[s]) : ops[s][i].kind # "save"
    BY <1>1, <2>2 DEF Busy, Saving
  <2>4. Len(queue[s]) = 0
    BY <2>3
  <2>5. ~DurableIn(queue[s], deferred[s])
    BY <2>1, <2>4 DEF SessionInv, WaitingInv, DurableIn, NoTier
  <2> QED
    BY <2>1, <2>3, <2>5 DEF SessionInv, OwedInv
<1>2. IInv => SavedUnlessOvertaken
  BY <1>1 DEF SavedUnlessOvertaken
<1> QED
  BY <1>2, InductiveInvariant, PTL

\* A durable version of the metadata that refers to a transcript which a power
\* loss could undo is never written.  (writeSessionRecord)
THEOREM DurableIsFlushed == Spec => DurableReferencesFlushed
<1> DEFINE Flushed(s) ==
        \/ metadata'[s].synced \in {metadata[s].synced, metadata[s].file}
        \/ metadata'[s].synced.text <= messages[s].synced
<1>1. ASSUME IInv, Next, NEW s \in Sessions PROVE Flushed(s)
  <2>t. TypeOK
    BY <1>1 DEF IInv
  <2>1. ASSUME NEW t \in Sessions, WriteMetadata(t) PROVE Flushed(s)
    <3>1. CASE s # t
      BY <2>1, <2>t, <3>1 DEF WriteMetadata, TypeOK
    <3>2. CASE s = t
      <4>1. metadata'[s].synced =
                IF Op(s).tier = "durable"
                THEN [revision |-> metadata[s].file.revision + 1,
                      text |-> TextOf(s), state |-> StateOf(s)]
                ELSE metadata[s].synced
        BY <2>1, <2>t, <3>2 DEF WriteMetadata, Written, TypeOK
      <4>2. CASE Op(s).tier = "durable"
        <5>1. At(s, "metadata") /\ step[s] # "idle" /\ SessionInv(s)
          BY <1>1, <2>1, <3>2 DEF WriteMetadata, At, IInv
        <5>2. messages[s].synced = messages[s].file
              /\ (Op(s).kind = "save" => Op(s).text <= messages[s].file)
          BY <4>2, <5>1 DEF SessionInv, WriteInv
        <5>3. TextOf(s) <= messages[s].synced
          BY <2>t, <5>2, SessionTypes DEF TextOf
        <5> QED
          BY <4>1, <4>2, <5>3
      <4> QED
        BY <4>1, <4>2
    <3> QED
      BY <3>1, <3>2
  <2>2. CASE Crash \/ PowerLoss
    BY <1>1, <2>2, FilesAfter
  <2>3. CASE metadata' = metadata
    BY <2>3
  <2>4. ASSUME NEW t \in Sessions,
               \/ Change(t) \/ (\E tier \in Tiers : SaveSession(t, tier))
               \/ SaveSessionNow(t) \/ Rename(t) \/ Start(t)
               \/ Begin(t) \/ Refuse(t) \/ WriteMessages(t) \/ SyncMessages(t)
               \/ Fail(t) \/ Settle(t)
        PROVE  metadata' = metadata
    BY <2>4 DEF Change, SaveSession, Coalesce, SaveAtOnce, Defer, SaveSessionNow, CaptureBehind,
       Rename, Start, Begin, Refuse, WriteMessages, SyncMessages, Fail, Settle, diskVars
  <2>5. ASSUME StartFlush \/ WriteIndex \/ FailFlush PROVE metadata' = metadata
    BY <2>5 DEF StartFlush, WriteIndex, FailFlush, FlushEnds, diskVars
  <2> QED
    BY <1>1, <2>1, <2>2, <2>3, <2>4, <2>5 DEF Next
<1>2. IInv /\ [Next]_vars => [\A s \in Sessions : Flushed(s)]_vars
  BY <1>1
<1> QED
  BY <1>2, InductiveInvariant, PTL DEF Spec, DurableReferencesFlushed
=============================================================================
