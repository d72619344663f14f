------------------------- MODULE OwnerCommandsProofs -------------------------
(***************************************************************************)
(* Theorems about OwnerCommands, for every number of operations, limits,   *)
(* retries, owner processes and faults: a command is started at most once, *)
(* an accepted one can be replayed, and what the helper reports follows    *)
(* OperationLifecycle.                                                     *)
(*                                                                         *)
(* Nothing in the code records that a command was started: the proof of    *)
(* at-most-once execution is an argument about order.  The helper's        *)
(* pending commands and the frames of the stream form one queue (Covered,  *)
(* InOrder); the owner reads it from its front and loses the record of a   *)
(* command only to a later one of the queue; so what it forgot is either   *)
(* due, and then never dispatched, or no longer in the queue (First).      *)
(***************************************************************************)
EXTENDS OwnerCommands, SelectionProofs, FiniteSetTheorems

(* Sequences of records with an operation each. *)

Elements(s) == {s[i] : i \in 1 .. Len(s)}

\* No two elements are of the same operation.
Unique(s) == \A i, j \in 1 .. Len(s) : s[i].operation = s[j].operation => i = j

\* x comes before y.
Before(s, x, y) ==
    \E i, j \in 1 .. Len(s) : i < j /\ s[i].operation = x /\ s[j].operation = y

LEMMA IdsOfElements ==
    ASSUME NEW s
    PROVE  Ids(s) = {r.operation : r \in Elements(s)}
  BY DEF Ids, Elements

\* The elements a selection keeps.
LEMMA SelectedElements ==
    ASSUME NEW S, NEW s \in Seq(S), NEW I \in SUBSET (1 .. Len(s))
    PROVE  /\ Selected(s, I) \in Seq(S)
           /\ Elements(Selected(s, I)) = {s[k] : k \in I}
           /\ Unique(s) => Unique(Selected(s, I))
<1> DEFINE r == Selected(s, I)
<1>1. r \in Seq(S) /\ \E h : Places(h, r, s, I)
  BY SelectedPlaces
<1>2. PICK h : Places(h, r, s, I)
  BY <1>1
<1> HIDE DEF r
<1>3. Elements(r) = {s[k] : k \in I}
  <2>1. \A i \in 1 .. Len(r) : h[i] \in I /\ r[i] = s[h[i]]
    BY <1>2 DEF Places
  <2>2. \A k \in I : \E i \in 1 .. Len(r) : h[i] = k
    BY <1>2 DEF Places
  <2>3. ASSUME NEW i \in 1 .. Len(r) PROVE r[i] \in {s[k] : k \in I}
    BY <2>1
  <2>4. ASSUME NEW k \in I PROVE s[k] \in Elements(r)
    BY <2>1, <2>2 DEF Elements
  <2> QED
    BY <2>3, <2>4 DEF Elements
<1>4. Unique(s) => Unique(r)
  <2> SUFFICES ASSUME Unique(s), NEW i \in 1 .. Len(r), NEW j \in 1 .. Len(r),
                      r[i].operation = r[j].operation
               PROVE  i = j
    BY DEF Unique
  <2>1. Len(r) \in Nat
    BY <1>1
  <2>2. h[i] \in 1 .. Len(s) /\ h[j] \in 1 .. Len(s) /\ r[i] = s[h[i]] /\ r[j] = s[h[j]]
    BY <1>2 DEF Places
  <2>3. h[i] = h[j]
    BY <2>2 DEF Unique
  <2>4. ~ (i < j) /\ ~ (j < i)
    BY <1>2, <2>2, <2>3 DEF Places
  <2> QED
    BY <2>1, <2>4
<1> QED
  BY <1>1, <1>3, <1>4 DEF r

\* The elements with a given property.
LEMMA FilteredElements ==
    ASSUME NEW S, NEW s \in Seq(S), NEW T,
           NEW I \in SUBSET (1 .. Len(s)), \A i \in 1 .. Len(s) : i \in I <=> s[i] \in T
    PROVE  /\ Selected(s, I) \in Seq(S)
           /\ \A r : r \in Elements(Selected(s, I)) <=> r \in Elements(s) /\ r \in T
           /\ Unique(s) => Unique(Selected(s, I))
<1>1. {s[k] : k \in I} = Elements(s) \cap T
  BY DEF Elements
<1> QED
  BY <1>1, SelectedElements

\* Taking operations out of a table or a queue.
LEMMA WithoutElements ==
    ASSUME NEW S, NEW s \in Seq(S), NEW ids
    PROVE  /\ Without(s, ids) \in Seq(S)
           /\ Elements(Without(s, ids)) = {r \in Elements(s) : r.operation \notin ids}
           /\ Ids(Without(s, ids)) = Ids(s) \ ids
           /\ Unique(s) => Unique(Without(s, ids))
<1> DEFINE T == {r \in Elements(s) : r.operation \notin ids}
           I == {i \in DOMAIN s : s[i].operation \notin ids}
<1>1. I \in SUBSET (1 .. Len(s)) /\ \A i \in 1 .. Len(s) : i \in I <=> s[i] \in T
  BY DEF Elements
<1>2. Elements(s) \cap T = T
  OBVIOUS
<1> HIDE DEF I, T
<1>3. /\ Selected(s, I) \in Seq(S)
      /\ \A r : r \in Elements(Selected(s, I)) <=> r \in Elements(s) /\ r \in T
      /\ Unique(s) => Unique(Selected(s, I))
  BY <1>1, FilteredElements
<1>4. Elements(Selected(s, I)) = T
  BY <1>2, <1>3
<1>5. Ids(Without(s, ids)) = Ids(s) \ ids
  BY <1>4, IdsOfElements DEF Without, I, T
<1> QED
  BY <1>4, <1>3, <1>5 DEF Without, I, T

\* What is left keeps its order.
LEMMA WithoutOrder ==
    ASSUME NEW S, NEW s \in Seq(S), NEW ids, NEW x, NEW y,
           Before(Without(s, ids), x, y)
    PROVE  Before(s, x, y) /\ x \notin ids /\ y \notin ids
<1> DEFINE I == {i \in DOMAIN s : s[i].operation \notin ids}
           r == Without(s, ids)
<1>0. I \in SUBSET (1 .. Len(s)) /\ r = Selected(s, I)
  BY DEF Without
<1>1. PICK h : Places(h, r, s, I)
  BY <1>0, SelectedPlaces
<1>2. PICK i, j \in 1 .. Len(r) : i < j /\ r[i].operation = x /\ r[j].operation = y
  BY DEF Before
<1>3. /\ h[i] \in I /\ h[j] \in I /\ h[i] < h[j]
      /\ r[i] = s[h[i]] /\ r[j] = s[h[j]]
  BY <1>1, <1>2 DEF Places
<1> QED
  BY <1>2, <1>3 DEF Before

\* A record added at the end.
LEMMA AppendElements ==
    ASSUME NEW S, NEW s \in Seq(S), NEW r \in S
    PROVE  /\ Append(s, r) \in Seq(S)
           /\ Elements(Append(s, r)) = Elements(s) \cup {r}
           /\ Ids(Append(s, r)) = Ids(s) \cup {r.operation}
           /\ Unique(s) /\ r.operation \notin Ids(s) => Unique(Append(s, r))
           /\ \A x, y : Before(Append(s, r), x, y) =>
                 Before(s, x, y) \/ (x \in Ids(s) /\ y = r.operation)
<1> DEFINE t == Append(s, r)
<1>1. /\ t \in Seq(S) /\ Len(t) = Len(s) + 1 /\ Len(s) \in Nat /\ t[Len(s) + 1] = r
      /\ \A i \in 1 .. Len(s) : t[i] = s[i]
  OBVIOUS
<1> HIDE DEF t
<1>2. Elements(t) = Elements(s) \cup {r}
  <2>1. 1 .. Len(t) = (1 .. Len(s)) \cup {Len(s) + 1}
    BY <1>1
  <2> QED
    BY <1>1, <2>1 DEF Elements
<1>3. Ids(t) = Ids(s) \cup {r.operation}
  BY <1>2, IdsOfElements
<1>4. Unique(s) /\ r.operation \notin Ids(s) => Unique(t)
  <2> SUFFICES ASSUME Unique(s), r.operation \notin Ids(s),
                      NEW i \in 1 .. Len(t), NEW j \in 1 .. Len(t),
                      t[i].operation = t[j].operation
               PROVE  i = j
    BY DEF Unique
  <2>1. \A k \in 1 .. Len(s) : t[k].operation # r.operation
    BY <1>1 DEF Ids
  <2>2. CASE i = Len(s) + 1
    BY <1>1, <2>1, <2>2
  <2>3. CASE j = Len(s) + 1
    BY <1>1, <2>1, <2>3
  <2>4. CASE i \in 1 .. Len(s) /\ j \in 1 .. Len(s)
    BY <1>1, <2>4 DEF Unique
  <2> QED
    BY <1>1, <2>2, <2>3, <2>4
<1>5. ASSUME NEW x, NEW y, Before(t, x, y)
      PROVE  Before(s, x, y) \/ (x \in Ids(s) /\ y = r.operation)
  <2>1. PICK i, j \in 1 .. Len(t) : i < j /\ t[i].operation = x /\ t[j].operation = y
    BY <1>5 DEF Before
  <2>2. i \in 1 .. Len(s) /\ s[i].operation = x
    BY <1>1, <2>1
  <2>3. CASE j = Len(s) + 1
    BY <1>1, <2>1, <2>2, <2>3 DEF Ids
  <2>4. CASE j # Len(s) + 1
    BY <1>1, <2>1, <2>2, <2>4 DEF Before
  <2> QED
    BY <2>3, <2>4
<1> QED
  BY <1>1, <1>2, <1>3, <1>4, <1>5 DEF t

\* A table without its oldest record.
LEMMA TailElements ==
    ASSUME NEW S, NEW s \in Seq(S), s # <<>>
    PROVE  /\ Tail(s) \in Seq(S) /\ Len(Tail(s)) = Len(s) - 1
           /\ Elements(Tail(s)) \subseteq Elements(s)
           /\ Unique(s) => Unique(Tail(s))
<1>1. /\ Tail(s) \in Seq(S) /\ Len(Tail(s)) = Len(s) - 1 /\ Len(s) \in Nat
      /\ \A i \in 1 .. Len(s) - 1 : Tail(s)[i] = s[i + 1]
  OBVIOUS
<1>2. \A i \in 1 .. Len(Tail(s)) : i + 1 \in 1 .. Len(s) /\ Tail(s)[i] = s[i + 1]
  BY <1>1
<1>3. Unique(s) => Unique(Tail(s))
  BY <1>1, <1>2 DEF Unique
<1> QED
  BY <1>1, <1>2, <1>3 DEF Elements

\* RecordOf finds the one record of an operation.
LEMMA RecordOfElement ==
    ASSUME NEW s, Unique(s), NEW r \in Elements(s)
    PROVE  RecordOf(s, r.operation) = r
  BY DEF RecordOf, Unique, Elements

LEMMA ElementOfId ==
    ASSUME NEW s, Unique(s), NEW o \in Ids(s)
    PROVE  RecordOf(s, o) \in Elements(s) /\ RecordOf(s, o).operation = o
<1>1. PICK r \in Elements(s) : r.operation = o
  BY IdsOfElements
<1> QED
  BY <1>1, RecordOfElement

LEMMA UniqueElements ==
    ASSUME NEW s, Unique(s), NEW q \in Elements(s), NEW r \in Elements(s),
           q.operation = r.operation
    PROVE  q = r
  BY DEF Unique, Elements

\* A table with one record of each operation is as long as it has operations.
LEMMA UniqueCount ==
    ASSUME NEW S, NEW s \in Seq(S), Unique(s)
    PROVE  IsFiniteSet(Ids(s)) /\ Cardinality(Ids(s)) = Len(s)
<1> DEFINE f == [i \in 1 .. Len(s) |-> s[i].operation]
<1>0. Len(s) \in Nat
  OBVIOUS
<1>1. f \in Bijection(1 .. Len(s), Ids(s))
  BY DEF Bijection, Injection, Surjection, IsInjective, Ids, Unique
<1>2. ExistsBijection(1 .. Len(s), Ids(s))
  BY <1>1 DEF ExistsBijection
<1> QED
  BY <1>0, <1>2, FS_CountingElements, FS_NatBijection

\* Fewer operations make a shorter table.
LEMMA FewerIds ==
    ASSUME NEW S, NEW s \in Seq(S), Unique(s), NEW T, NEW t \in Seq(T), Unique(t),
           Ids(t) \subseteq Ids(s)
    PROVE  /\ Len(t) <= Len(s)
           /\ Ids(t) # Ids(s) => Len(t) < Len(s)
<1>1. IsFiniteSet(Ids(s)) /\ Cardinality(Ids(s)) = Len(s)
  BY UniqueCount
<1>2. Cardinality(Ids(t)) = Len(t)
  BY UniqueCount
<1>3. Cardinality(Ids(t)) <= Cardinality(Ids(s)) /\ (Cardinality(Ids(s)) = Cardinality(Ids(t)) => Ids(s) = Ids(t))
  BY <1>1, FS_Subset
<1>4. Len(s) \in Nat /\ Len(t) \in Nat
  OBVIOUS
<1> QED
  BY <1>1, <1>2, <1>3, <1>4

-----------------------------------------------------------------------------
(* The helper's table: losing terminal records, and verdicts.              *)

RecordType == [operation : Operations, state : {"accepted", "completed", "failed", "uncertain"},
               helperTerminal : BOOLEAN, generation : 1 .. MaxGenerations]

AcceptedIn(s) == {r \in Elements(s) : r.state = "accepted"}
AcceptedIds(s) == {r.operation : r \in AcceptedIn(s)}

\* The helper's table loses terminal records, and nothing else.
Trimmed(old, new) ==
    /\ new \in Seq(RecordType) /\ Unique(new)
    /\ Elements(new) \subseteq Elements(old)
    /\ AcceptedIn(old) \subseteq Elements(new)

\* Verdicts on a record: of the helper, and of the owner.
GivesUp(r, q) == r.state = "accepted" /\ q = GiveUp(r)

Decides(r, q) ==
    /\ r.state = "accepted" \/ r.helperTerminal
    /\ \/ q = Judged(r, "completed", FALSE) /\ starts[r.operation] = 1
       \/ q = Judged(r, "failed", FALSE)

Verdict(r, q) == GivesUp(r, q) \/ Decides(r, q)

\* Some records get a verdict, some terminal ones are forgotten.
Revised(old, new) ==
    /\ new \in Seq(RecordType) /\ Unique(new)
    /\ \A r \in Elements(old) :
           \/ r \in Elements(new)
           \/ r.state # "accepted" /\ r.operation \notin Ids(new)
           \/ \E q \in Elements(new) : Verdict(r, q)
    /\ \A q \in Elements(new) :
           q \in Elements(old) \/ \E r \in Elements(old) : Verdict(r, q)

\* A verdict is about the record's operation and generation.
LEMMA VerdictKeeps ==
    ASSUME NEW r \in RecordType, NEW q, Verdict(r, q)
    PROVE  /\ q \in RecordType /\ q.operation = r.operation /\ q.generation = r.generation
           /\ q.state # "accepted"
  BY DEF Verdict, GivesUp, Decides, GiveUp, Judged, RecordType

LEMMA ElementsType ==
    ASSUME NEW S, NEW s \in Seq(S)
    PROVE  Elements(s) \subseteq S
  BY DEF Elements

\* To lose terminal records is one way to revise the table.
LEMMA TrimmedIsRevised ==
    ASSUME NEW old, Unique(old), NEW new, Trimmed(old, new)
    PROVE  Revised(old, new)
<1>1. ASSUME NEW r \in Elements(old), r \notin Elements(new)
      PROVE  r.state # "accepted" /\ r.operation \notin Ids(new)
  <2>1. r.state # "accepted"
    BY <1>1 DEF Trimmed, AcceptedIn
  <2>2. ASSUME r.operation \in Ids(new) PROVE FALSE
    <3>1. PICK q \in Elements(new) : q.operation = r.operation
      BY <2>2, IdsOfElements
    <3>2. q \in Elements(old)
      BY DEF Trimmed
    <3> QED
      BY <1>1, <3>1, <3>2, UniqueElements
  <2> QED
    BY <2>1, <2>2
<1> QED
  BY <1>1 DEF Revised, Trimmed

LEMMA TrimmedTwice ==
    ASSUME NEW a, NEW b, NEW c, Trimmed(a, b), Trimmed(b, c)
    PROVE  Trimmed(a, c)
  BY DEF Trimmed, AcceptedIn

LEMMA TrimmedSame ==
    ASSUME NEW s \in Seq(RecordType), Unique(s)
    PROVE  Trimmed(s, s)
  BY DEF Trimmed, AcceptedIn

\* The records Accepted and Terminal select.
LEMMA AcceptedElements ==
    ASSUME NEW S, NEW s \in Seq(S)
    PROVE  /\ Accepted(s) \in Seq(S) /\ Elements(Accepted(s)) = AcceptedIn(s)
           /\ Ids(Accepted(s)) = AcceptedIds(s)
           /\ Unique(s) => Unique(Accepted(s))
<1> DEFINE I == {i \in DOMAIN s : s[i].state = "accepted"}
           T == AcceptedIn(s)
<1>1. I \in SUBSET (1 .. Len(s)) /\ \A i \in 1 .. Len(s) : i \in I <=> s[i] \in T
  BY DEF AcceptedIn, Elements
<1>2. Elements(s) \cap T = T
  BY DEF AcceptedIn
<1> HIDE DEF I, T
<1>3. /\ Selected(s, I) \in Seq(S)
      /\ \A r : r \in Elements(Selected(s, I)) <=> r \in Elements(s) /\ r \in T
      /\ Unique(s) => Unique(Selected(s, I))
  BY <1>1, FilteredElements
<1>4. Accepted(s) = Selected(s, I)
  BY DEF Accepted, I
<1> QED
  BY <1>2, <1>3, <1>4, IdsOfElements DEF AcceptedIds, T

LEMMA TerminalElements ==
    ASSUME NEW S, NEW s \in Seq(S)
    PROVE  /\ Terminal(s) \in Seq(S)
           /\ Elements(Terminal(s)) = {r \in Elements(s) : r.state # "accepted"}
<1> DEFINE I == {i \in DOMAIN s : s[i].state # "accepted"}
           T == {r \in Elements(s) : r.state # "accepted"}
<1>1. I \in SUBSET (1 .. Len(s)) /\ \A i \in 1 .. Len(s) : i \in I <=> s[i] \in T
  BY DEF Elements
<1>2. Elements(s) \cap T = T
  OBVIOUS
<1> HIDE DEF I, T
<1>3. Selected(s, I) \in Seq(S) /\ Elements(Selected(s, I)) = Elements(s) \cap T
  BY <1>1, FilteredElements
<1> QED
  BY <1>2, <1>3 DEF Terminal, I, T

\* Taking out operations whose records are terminal.
LEMMA WithoutTerminal ==
    ASSUME NEW s \in Seq(RecordType), Unique(s), NEW ids \in SUBSET Ids(Terminal(s))
    PROVE  Trimmed(s, Without(s, ids))
<1>1. /\ Without(s, ids) \in Seq(RecordType) /\ Unique(Without(s, ids))
      /\ Elements(Without(s, ids)) = {r \in Elements(s) : r.operation \notin ids}
  BY WithoutElements
<1>2. ASSUME NEW r \in Elements(s), r.operation \in ids PROVE r.state # "accepted"
  <2>1. PICK q \in Elements(Terminal(s)) : q.operation = r.operation
    BY <1>2, IdsOfElements
  <2>2. q \in Elements(s) /\ q.state # "accepted"
    BY TerminalElements
  <2> QED
    BY <2>1, <2>2, UniqueElements
<1> QED
  BY <1>1, <1>2 DEF Trimmed, AcceptedIn

\* Pruning and making room lose terminal records only.
LEMMA PrunedTrims ==
    ASSUME NEW s \in Seq(RecordType), Unique(s), NEW age
    PROVE  Trimmed(s, Pruned(s, age))
  BY WithoutTerminal DEF Pruned

\* The table has room after makeOperationCapacity, if it said so.
LEMMA WithRoomTrims ==
    ASSUME NEW s \in Seq(RecordType), Unique(s), HasRoom(s), Len(s) <= HelperRecords
    PROVE  Trimmed(s, WithRoom(s)) /\ Len(WithRoom(s)) < HelperRecords
<1>1. CASE Len(s) < HelperRecords \/ Terminal(s) = <<>>
  <2>1. WithRoom(s) = s
    BY <1>1 DEF WithRoom
  <2> QED
    BY <1>1, <2>1, TrimmedSame DEF HasRoom
<1>2. CASE ~ (Len(s) < HelperRecords \/ Terminal(s) = <<>>)
  <2> DEFINE o == Head(Terminal(s)).operation
  <2>1. Terminal(s) \in Seq(RecordType) /\ Terminal(s) # <<>>
    BY <1>2, TerminalElements
  <2>2. Head(Terminal(s)) \in Elements(Terminal(s))
    <3>1. Len(Terminal(s)) \in Nat \ {0} /\ Head(Terminal(s)) = Terminal(s)[1]
      BY <2>1
    <3> QED
      BY <3>1 DEF Elements
  <2>3. {o} \in SUBSET Ids(Terminal(s)) /\ o \in Ids(s)
    BY <2>2, IdsOfElements, TerminalElements
  <2>4. WithRoom(s) = Without(s, {o})
    BY <1>2 DEF WithRoom
  <2>5. Len(Without(s, {o})) < Len(s)
    <3>1. /\ Without(s, {o}) \in Seq(RecordType) /\ Unique(Without(s, {o}))
          /\ Ids(Without(s, {o})) = Ids(s) \ {o}
      BY WithoutElements
    <3> HIDE DEF o
    <3> QED
      BY <2>3, <3>1, FewerIds
  <2>6. Len(s) \in Nat /\ Len(Without(s, {o})) \in Nat
    BY WithoutElements
  <2>7. Trimmed(s, Without(s, {o}))
    BY <2>3, WithoutTerminal
  <2> QED
    BY <2>4, <2>5, <2>6, <2>7, LimitsAssumption
<1> QED
  BY <1>1, <1>2

\* Records written after others.
LEMMA JoinedElements ==
    ASSUME NEW S, NEW s \in Seq(S), NEW t \in Seq(S)
    PROVE  /\ s \o t \in Seq(S)
           /\ \A r : r \in Elements(s \o t) <=> r \in Elements(s) \/ r \in Elements(t)
           /\ Unique(s) /\ Unique(t) /\ Ids(s) \cap Ids(t) = {} => Unique(s \o t)
<1> DEFINE u == s \o t
<1>1. /\ u \in Seq(S) /\ Len(u) = Len(s) + Len(t) /\ Len(s) \in Nat /\ Len(t) \in Nat
      /\ \A i \in 1 .. Len(s) : u[i] = s[i]
      /\ \A i \in 1 .. Len(t) : u[Len(s) + i] = t[i]
  OBVIOUS
<1> HIDE DEF u
<1>2. \A i \in 1 .. Len(u) : i \in 1 .. Len(s) \/ i - Len(s) \in 1 .. Len(t)
  BY <1>1
<1>3. \A i \in 1 .. Len(u) : i \notin 1 .. Len(s) => u[i] = t[i - Len(s)]
  BY <1>1, <1>2
<1>4. Elements(u) = Elements(s) \cup Elements(t)
  <2>1. ASSUME NEW i \in 1 .. Len(u) PROVE u[i] \in Elements(s) \cup Elements(t)
    BY <1>1, <1>2, <1>3 DEF Elements
  <2>2. ASSUME NEW i \in 1 .. Len(s) PROVE s[i] \in Elements(u)
    BY <1>1 DEF Elements
  <2>3. ASSUME NEW i \in 1 .. Len(t) PROVE t[i] \in Elements(u)
    <3>1. Len(s) + i \in 1 .. Len(u) /\ t[i] = u[Len(s) + i]
      BY <1>1
    <3> QED
      BY <3>1 DEF Elements
  <2> QED
    BY <2>1, <2>2, <2>3 DEF Elements
<1>5. ASSUME Unique(s), Unique(t), Ids(s) \cap Ids(t) = {}
      PROVE  Unique(u)
  <2> SUFFICES ASSUME NEW i \in 1 .. Len(u), NEW j \in 1 .. Len(u),
                      u[i].operation = u[j].operation
               PROVE  i = j
    BY DEF Unique
  <2>1. \A k \in 1 .. Len(s), l \in 1 .. Len(t) : s[k].operation # t[l].operation
    BY <1>5 DEF Ids
  <2>2. CASE i \in 1 .. Len(s) /\ j \in 1 .. Len(s)
    BY <1>1, <1>5, <2>2 DEF Unique
  <2>3. CASE i \notin 1 .. Len(s) /\ j \notin 1 .. Len(s)
    <3>1. i - Len(s) = j - Len(s)
      BY <1>2, <1>3, <1>5, <2>3 DEF Unique
    <3> QED
      BY <1>1, <3>1
  <2>4. CASE i \in 1 .. Len(s) /\ j \notin 1 .. Len(s)
    BY <1>1, <1>2, <1>3, <2>1, <2>4
  <2>5. CASE i \notin 1 .. Len(s) /\ j \in 1 .. Len(s)
    BY <1>1, <1>2, <1>3, <2>1, <2>5
  <2> QED
    BY <2>2, <2>3, <2>4, <2>5
<1> QED
  BY <1>1, <1>4, <1>5 DEF u

\* Records that get a verdict and move to the end of the Map.
LEMMA VerdictsRevise ==
    ASSUME NEW s \in Seq(RecordType), Unique(s),
           NEW f \in Seq(RecordType), Unique(f), Elements(f) \subseteq Elements(s),
           NEW t \in Seq(RecordType), Len(t) = Len(f),
           \A i \in 1 .. Len(f) : Verdict(f[i], t[i])
    PROVE  /\ Revised(s, Without(s, Ids(f)) \o t)
           /\ Ids(Without(s, Ids(f)) \o t) = Ids(s)
           /\ \A r : r \in Elements(Without(s, Ids(f)) \o t) <=>
                 \/ r \in Elements(s) /\ r.operation \notin Ids(f)
                 \/ r \in Elements(t)
<1> DEFINE w == Without(s, Ids(f))
<1>0. Len(f) \in Nat /\ \A i \in 1 .. Len(f) : f[i] \in RecordType
  OBVIOUS
<1>1. \A i \in 1 .. Len(f) : t[i] \in RecordType /\ t[i].operation = f[i].operation
  BY <1>0, VerdictKeeps
<1>2. t \in Seq(RecordType) /\ Len(t) = Len(f)
  OBVIOUS
<1>3. Ids(t) = Ids(f)
  BY <1>1, <1>2 DEF Ids
<1>4. Unique(t)
  BY <1>1, <1>2 DEF Unique
<1>5. /\ w \in Seq(RecordType) /\ Unique(w) /\ Ids(w) = Ids(s) \ Ids(f)
      /\ Elements(w) = {r \in Elements(s) : r.operation \notin Ids(f)}
  BY WithoutElements
<1> HIDE DEF w
<1>6. Ids(w) \cap Ids(t) = {}
  BY <1>3, <1>5
<1>7. w \in Seq(RecordType) /\ t \in Seq(RecordType)
  BY <1>2, <1>5
<1>8. /\ w \o t \in Seq(RecordType) /\ Unique(w \o t)
      /\ Elements(w \o t) = Elements(w) \cup Elements(t)
  <2>1. w \o t \in Seq(RecordType)
    BY <1>7, JoinedElements
  <2>2. Elements(w \o t) = Elements(w) \cup Elements(t)
    BY <1>7, JoinedElements
  <2>3. Unique(w \o t)
    BY <1>7, <1>4, <1>5, <1>6, JoinedElements
  <2> QED
    BY <2>1, <2>2, <2>3
<1>9. Ids(w \o t) = Ids(s)
  <2>1. Ids(w \o t) = Ids(w) \cup Ids(t)
    BY <1>8, IdsOfElements
  <2>2. Ids(f) \subseteq Ids(s)
    BY IdsOfElements
  <2> QED
    BY <1>3, <1>5, <2>1, <2>2
<1>10. ASSUME NEW r \in Elements(s), r \notin Elements(w \o t)
      PROVE  \E q \in Elements(w \o t) : Verdict(r, q)
  <2>1. r.operation \in Ids(f)
    BY <1>5, <1>8, <1>10
  <2>2. PICK i \in 1 .. Len(f) : f[i].operation = r.operation
    BY <2>1 DEF Ids
  <2>3. f[i] \in Elements(f)
    BY DEF Elements
  <2>4. f[i] = r
    BY <2>2, <2>3, UniqueElements
  <2>5. t[i] \in Elements(t)
    BY <1>2 DEF Elements
  <2> QED
    BY <1>8, <2>4, <2>5
<1>11. ASSUME NEW q \in Elements(w \o t)
      PROVE  q \in Elements(s) \/ \E r \in Elements(s) : Verdict(r, q)
  <2>1. CASE q \in Elements(w)
    BY <1>5, <2>1
  <2>2. CASE q \in Elements(t)
    <3>1. PICK i \in 1 .. Len(f) : q = t[i]
      BY <1>2, <2>2 DEF Elements
    <3>2. f[i] \in Elements(s)
      BY DEF Elements
    <3> QED
      BY <3>1, <3>2
  <2> QED
    BY <1>8, <2>1, <2>2
<1>12. Revised(s, w \o t)
  BY <1>8, <1>10, <1>11 DEF Revised
<1> QED
  BY <1>5, <1>8, <1>9, <1>12 DEF w

-----------------------------------------------------------------------------
(* Types of the state, and what the helper's steps do to its table.        *)

CommandType == [operation : Operations]
FrameType == [kind : {"command", "command.cancelled"}, operation : Operations]
AnswerType == [operation : Operations, state : {"accepted", "completed", "failed"}]
TaskType == [phase : Posting \cup {"executing"}, operation : Operations,
             attempt : 0 .. RetryAttempts, answer : {"none", "ok", "rejected"}]

\* Types of the tables, the queue and the rest.
OperationTypes ==
    operations \in Seq(RecordType) /\ Unique(operations) /\ Ids(operations) \subseteq posted

QueueTypes ==
    /\ pending \in Seq(CommandType)
    /\ stream \in [open : BOOLEAN, frames : Seq(FrameType)]

OwnerTypes ==
    /\ owner \in [alive : BOOLEAN, records : Seq(AnswerType), task : TaskType \cup {Idle}]
    /\ Unique(owner.records)
    /\ owner.task # Idle => owner.task.operation \in Ids(owner.records)
    /\ ~owner.alive => owner.task = Idle /\ registry.generation < MaxGenerations
    /\ wire \subseteq AckType

OtherTypes ==
    /\ registry \in [connected : BOOLEAN, generation : 1 .. MaxGenerations, accepting : BOOLEAN]
    /\ due \subseteq posted /\ posted \subseteq Operations
    /\ starts \in [Operations -> Nat]
    /\ faults \in 0 .. MaxFaults

Types == OperationTypes /\ QueueTypes /\ OwnerTypes /\ OtherTypes

NewRecord(o) ==
    [operation |-> o, state |-> "accepted", helperTerminal |-> FALSE,
     generation |-> registry.generation]

\* A new command gets a record.
Accepts(o) ==
    /\ o \notin posted
    /\ \E recent : /\ Trimmed(operations, recent)
                   /\ Len(recent) < HelperRecords /\ Len(Accepted(recent)) < PendingLimit
                   /\ operations' = Append(recent, NewRecord(o))

\* Losing records makes no table longer.
LEMMA TrimmedLengths ==
    ASSUME NEW s \in Seq(RecordType), Unique(s), NEW t, Trimmed(s, t)
    PROVE  Len(t) <= Len(s) /\ Len(Accepted(t)) <= Len(Accepted(s))
<1>1. Ids(t) \subseteq Ids(s)
  BY IdsOfElements DEF Trimmed
<1>2. AcceptedIn(t) \subseteq AcceptedIn(s)
  BY DEF Trimmed, AcceptedIn
<1>3. Ids(Accepted(t)) \subseteq Ids(Accepted(s))
  BY <1>2, AcceptedElements DEF AcceptedIds, Trimmed
<1>4. /\ Accepted(t) \in Seq(RecordType) /\ Unique(Accepted(t))
      /\ Accepted(s) \in Seq(RecordType) /\ Unique(Accepted(s))
  BY AcceptedElements DEF Trimmed
<1> QED
  BY <1>1, <1>3, <1>4, FewerIds DEF Trimmed

\* A new command is recorded within the limits.
LEMMA HandleAccepts ==
    ASSUME Types, Len(operations) <= HelperRecords, NEW o, HandleCommand(o)
    PROVE  Accepts(o)
<1>1. PICK age \in Ages(operations) :
         LET recent == Pruned(operations, age)
         IN  /\ Admits(recent)
             /\ operations' = Append(WithRoom(recent), NewRecord(o))
  BY DEF HandleCommand, NewRecord
<1> DEFINE recent == Pruned(operations, age)
<1>2. Trimmed(operations, recent)
  BY PrunedTrims DEF Types, OperationTypes
<1>3. HasRoom(recent) /\ Len(Accepted(recent)) < PendingLimit
  BY <1>1 DEF Admits
<1> HIDE DEF recent
<1>4. recent \in Seq(RecordType) /\ Unique(recent) /\ Len(recent) <= Len(operations)
  BY <1>2, TrimmedLengths DEF Trimmed, Types, OperationTypes
<1>5. Len(recent) \in Nat /\ Len(operations) \in Nat
  BY <1>4 DEF Types, OperationTypes
<1>6. Trimmed(recent, WithRoom(recent)) /\ Len(WithRoom(recent)) < HelperRecords
  BY <1>3, <1>4, <1>5, WithRoomTrims, LimitsAssumption
<1>7. Trimmed(operations, WithRoom(recent))
  BY <1>2, <1>6, TrimmedTwice
<1>8. Len(Accepted(WithRoom(recent))) <= Len(Accepted(recent))
  BY <1>4, <1>6, TrimmedLengths
<1>9. Len(Accepted(WithRoom(recent))) < PendingLimit
  <2>1. Len(Accepted(WithRoom(recent))) \in Nat /\ Len(Accepted(recent)) \in Nat
    BY <1>4, <1>6, AcceptedElements DEF Trimmed
  <2> QED
    BY <1>3, <1>8, <2>1, LimitsAssumption
<1>10. o \notin posted
  BY DEF HandleCommand
<1> QED
  BY <1>1, <1>6, <1>7, <1>9, <1>10 DEF Accepts, recent

\* The helper gives up on accepted records: none of them stays accepted.
LEMMA GivenUpRevises ==
    ASSUME Types, NEW f \in Seq(RecordType), Unique(f), Elements(f) \subseteq AcceptedIn(operations)
    PROVE  /\ Revised(operations, GivenUp(f))
           /\ Ids(GivenUp(f)) = Ids(operations)
           /\ \A r \in AcceptedIn(GivenUp(f)) :
                  r \in Elements(operations) /\ r.operation \notin Ids(f)
<1> DEFINE t == [i \in 1 .. Len(f) |-> GiveUp(f[i])]
<1>1. \A i \in 1 .. Len(f) : Verdict(f[i], t[i])
  BY DEF Elements, AcceptedIn, Verdict, GivesUp
<1>2. \A i \in 1 .. Len(f) : f[i] \in RecordType /\ t[i] \in RecordType
  BY <1>1, VerdictKeeps
<1>3. Elements(f) \subseteq Elements(operations)
  BY DEF AcceptedIn
<1>4. Len(f) \in Nat /\ Len(t) = Len(f) /\ t \in Seq(RecordType)
  BY <1>2
<1>5. \A i \in 1 .. Len(f) : t[i].state # "accepted"
  BY <1>1, <1>2, VerdictKeeps
<1>6. \A q \in Elements(t) : q.state # "accepted"
  BY <1>4, <1>5 DEF Elements
<1>7. GivenUp(f) = Without(operations, Ids(f)) \o t
  BY DEF GivenUp
<1> HIDE DEF t
<1>8. /\ Revised(operations, GivenUp(f)) /\ Ids(GivenUp(f)) = Ids(operations)
      /\ \A r : r \in Elements(GivenUp(f)) <=>
             \/ r \in Elements(operations) /\ r.operation \notin Ids(f)
             \/ r \in Elements(t)
  <2>1. operations \in Seq(RecordType) /\ Unique(operations)
    BY DEF Types, OperationTypes
  <2> QED
    BY <1>1, <1>3, <1>4, <1>7, <2>1, VerdictsRevise
<1> QED
  BY <1>6, <1>8 DEF AcceptedIn

\* The owner's acknowledgement: a verdict leaves no accepted record of its
\* operation and generation.
LEMMA ReconciledRevises ==
    ASSUME Types, NEW ack \in AckType, ack.state = "completed" => starts[ack.operation] = 1
    PROVE  /\ Revised(operations, Reconciled(ack))
           /\ Ids(Reconciled(ack)) = Ids(operations)
           /\ \A r \in AcceptedIn(Reconciled(ack)) :
                 /\ r \in Elements(operations)
                 /\ ack.state # "accepted" => ~ (r.operation = ack.operation /\ r.generation = ack.generation)
<1>1. CASE ack.state = "accepted"
  <2>1. Reconciled(ack) = operations
    BY <1>1 DEF Reconciled
  <2> QED
    BY <1>1, <2>1, TrimmedSame, TrimmedIsRevised DEF Types, OperationTypes, AcceptedIn
<1>2. CASE ack.state # "accepted"
  <2> DEFINE I == {i \in DOMAIN operations :
                       /\ operations[i].operation = ack.operation
                       /\ operations[i].generation = ack.generation
                       /\ operations[i].state = "accepted" \/ operations[i].helperTerminal}
             T == {r \in Elements(operations) :
                       /\ r.operation = ack.operation /\ r.generation = ack.generation
                       /\ r.state = "accepted" \/ r.helperTerminal}
             f == Selected(operations, I)
             t == [i \in 1 .. Len(f) |-> Judged(f[i], ack.state, FALSE)]
  <2>1. operations \in Seq(RecordType) /\ Unique(operations)
    BY DEF Types, OperationTypes
  <2>2. Reconciled(ack) = Without(operations, Ids(f)) \o t
    BY <1>2 DEF Reconciled
  <2>3. I \in SUBSET (1 .. Len(operations)) /\ \A i \in 1 .. Len(operations) : i \in I <=> operations[i] \in T
    BY <2>1 DEF Elements
  <2> HIDE DEF I, T
  <2>4. /\ f \in Seq(RecordType) /\ Unique(f)
        /\ \A r : r \in Elements(f) <=> r \in Elements(operations) /\ r \in T
    BY <2>1, <2>3, FilteredElements
  <2> HIDE DEF f
  <2>5. ASSUME NEW i \in 1 .. Len(f)
        PROVE  /\ f[i] \in RecordType /\ f[i].operation = ack.operation
               /\ f[i].state = "accepted" \/ f[i].helperTerminal
    <3>1. f[i] \in Elements(f)
      BY DEF Elements
    <3> QED
      BY <2>4, <3>1 DEF T
  <2>6. \A i \in 1 .. Len(f) : Verdict(f[i], t[i])
    BY <1>2, <2>5 DEF Verdict, Decides, AckType
  <2>7. \A i \in 1 .. Len(f) : t[i] \in RecordType
    BY <2>5, <2>6, VerdictKeeps
  <2>8. Len(f) \in Nat /\ Len(t) = Len(f) /\ t \in Seq(RecordType)
    <3>1. Len(f) \in Nat
      BY <2>4
    <3>2. t \in [1 .. Len(f) -> RecordType]
      BY <2>7
    <3> HIDE DEF t
    <3> QED
      BY <3>1, <3>2
  <2>9. \A i \in 1 .. Len(f) : t[i].state # "accepted"
    BY <1>2, <2>5 DEF Judged, RecordType
  <2>10. \A q \in Elements(t) : q.state # "accepted"
    BY <2>8, <2>9 DEF Elements
  <2> HIDE DEF t
  <2>11. Elements(f) \subseteq Elements(operations)
    BY <2>4
  <2>12. /\ Revised(operations, Reconciled(ack)) /\ Ids(Reconciled(ack)) = Ids(operations)
         /\ \A r : r \in Elements(Reconciled(ack)) <=>
                \/ r \in Elements(operations) /\ r.operation \notin Ids(f)
                \/ r \in Elements(t)
    BY <2>1, <2>2, <2>4, <2>6, <2>8, <2>11, VerdictsRevise
  <2>13. ASSUME NEW r \in AcceptedIn(Reconciled(ack))
         PROVE  r \in Elements(operations) /\ ~ (r.operation = ack.operation /\ r.generation = ack.generation)
    <3>1. r \in Elements(operations) /\ r.operation \notin Ids(f) /\ r.state = "accepted"
      BY <2>10, <2>12 DEF AcceptedIn
    <3>2. r \notin Elements(f)
      BY <3>1, IdsOfElements
    <3> QED
      BY <2>4, <3>1, <3>2 DEF T
  <2> QED
    BY <2>12, <2>13
<1> QED
  BY <1>1, <1>2

\* Which records the verdicts of a step are about.
LEMMA ExpiredRecord ==
    ASSUME Types, NEW o \in Ids(Accepted(operations))
    PROVE  LET f == <<RecordOf(operations, o)>>
           IN  f \in Seq(RecordType) /\ Unique(f) /\ Elements(f) \subseteq AcceptedIn(operations) /\ Ids(f) = {o}
<1>1. o \in AcceptedIds(operations)
  BY AcceptedElements DEF Types, OperationTypes
<1>2. PICK r \in AcceptedIn(operations) : r.operation = o
  BY <1>1 DEF AcceptedIds
<1>3. r \in Elements(operations) /\ RecordOf(operations, o) = r
  BY <1>2, RecordOfElement DEF AcceptedIn, Types, OperationTypes
<1>4. r \in RecordType
  BY <1>3, ElementsType DEF Types, OperationTypes
<1> QED
  BY <1>2, <1>3, <1>4 DEF Unique, Elements, Ids

LEMMA AcceptedRecords ==
    ASSUME Types
    PROVE  LET f == Accepted(operations)
           IN  f \in Seq(RecordType) /\ Unique(f) /\ Elements(f) \subseteq AcceptedIn(operations) /\ Ids(f) = AcceptedIds(operations)
  BY AcceptedElements DEF Types, OperationTypes

-----------------------------------------------------------------------------
(* Frames of the command stream.                                           *)

(* Frames on the stream. *)
Command(x) == [kind |-> "command", operation |-> x]

Commands(f) == {x \in Operations : \E i \in 1 .. Len(f) : f[i] = Command(x)}

CommandBefore(f, x, y) ==
    \E i, j \in 1 .. Len(f) : i < j /\ f[i] = Command(x) /\ f[j] = Command(y)

\* No command is on the stream twice.
OneEach(f) ==
    \A x \in Operations, i, j \in 1 .. Len(f) : f[i] = Command(x) /\ f[j] = Command(x) => i = j

\* Frames written after others.
LEMMA JoinedFrames ==
    ASSUME NEW f \in Seq(FrameType), NEW g \in Seq(FrameType)
    PROVE  /\ f \o g \in Seq(FrameType)
           /\ \A x : x \in Commands(f \o g) <=> x \in Commands(f) \/ x \in Commands(g)
           /\ \A x, y \in Operations : CommandBefore(f, x, y) => CommandBefore(f \o g, x, y)
           /\ \A x \in Commands(f), y \in Commands(g) : CommandBefore(f \o g, x, y)
           /\ \A x, y \in Operations : CommandBefore(f \o g, x, y) =>
                 \/ CommandBefore(f, x, y) \/ CommandBefore(g, x, y)
                 \/ x \in Commands(f) /\ y \in Commands(g)
           /\ OneEach(f) /\ OneEach(g) /\ Commands(f) \cap Commands(g) = {} => OneEach(f \o g)
<1> DEFINE u == f \o g
<1>1. /\ u \in Seq(FrameType) /\ Len(u) = Len(f) + Len(g) /\ Len(f) \in Nat /\ Len(g) \in Nat
      /\ \A i \in 1 .. Len(f) : i \in 1 .. Len(u) /\ u[i] = f[i]
      /\ \A i \in 1 .. Len(g) : Len(f) + i \in 1 .. Len(u) /\ u[Len(f) + i] = g[i]
  OBVIOUS
<1> HIDE DEF u
<1>2. \A i \in 1 .. Len(u) : i \in 1 .. Len(f) \/ i - Len(f) \in 1 .. Len(g)
  BY <1>1
<1>3. \A i \in 1 .. Len(u) : i \notin 1 .. Len(f) => u[i] = g[i - Len(f)]
  BY <1>1, <1>2
<1>4. ASSUME NEW x PROVE x \in Commands(u) <=> x \in Commands(f) \/ x \in Commands(g)
  <2>1. ASSUME x \in Commands(f) PROVE x \in Commands(u)
    BY <1>1, <2>1 DEF Commands
  <2>2. ASSUME x \in Commands(g) PROVE x \in Commands(u)
    <3>1. PICK i \in 1 .. Len(g) : g[i] = Command(x) /\ x \in Operations
      BY <2>2 DEF Commands
    <3>2. Len(f) + i \in 1 .. Len(u) /\ u[Len(f) + i] = Command(x)
      BY <1>1, <3>1
    <3> QED
      BY <3>1, <3>2 DEF Commands
  <2>3. ASSUME x \in Commands(u) PROVE x \in Commands(f) \/ x \in Commands(g)
    <3>1. PICK i \in 1 .. Len(u) : u[i] = Command(x) /\ x \in Operations
      BY <2>3 DEF Commands
    <3> QED
      BY <1>1, <1>2, <1>3, <3>1 DEF Commands
  <2> QED
    BY <2>1, <2>2, <2>3
<1>5. ASSUME NEW x \in Operations, NEW y \in Operations, CommandBefore(f, x, y)
      PROVE  CommandBefore(u, x, y)
  BY <1>1, <1>5 DEF CommandBefore
<1>6. ASSUME NEW x \in Commands(f), NEW y \in Commands(g)
      PROVE  CommandBefore(u, x, y)
  <2>1. PICK i \in 1 .. Len(f), j \in 1 .. Len(g) : f[i] = Command(x) /\ g[j] = Command(y)
    BY DEF Commands
  <2>2. /\ i \in 1 .. Len(u) /\ Len(f) + j \in 1 .. Len(u) /\ i < Len(f) + j
        /\ u[i] = Command(x) /\ u[Len(f) + j] = Command(y)
    BY <1>1, <2>1
  <2> QED
    BY <2>2 DEF CommandBefore
<1>7. ASSUME NEW x \in Operations, NEW y \in Operations, CommandBefore(u, x, y)
      PROVE  \/ CommandBefore(f, x, y) \/ CommandBefore(g, x, y)
             \/ x \in Commands(f) /\ y \in Commands(g)
  <2>1. PICK i, j \in 1 .. Len(u) : i < j /\ u[i] = Command(x) /\ u[j] = Command(y)
    BY <1>7 DEF CommandBefore
  <2>2. CASE j \in 1 .. Len(f)
    <3>1. i \in 1 .. Len(f)
      BY <1>1, <2>1, <2>2
    <3> QED
      BY <1>1, <2>1, <2>2, <3>1 DEF CommandBefore
  <2>3. CASE i \notin 1 .. Len(f)
    <3>1. /\ i - Len(f) \in 1 .. Len(g) /\ j - Len(f) \in 1 .. Len(g) /\ i - Len(f) < j - Len(f)
          /\ g[i - Len(f)] = Command(x) /\ g[j - Len(f)] = Command(y)
      BY <1>1, <1>2, <1>3, <2>1, <2>3
    <3> QED
      BY <3>1 DEF CommandBefore
  <2>4. CASE i \in 1 .. Len(f) /\ j \notin 1 .. Len(f)
    <3>1. f[i] = Command(x) /\ j - Len(f) \in 1 .. Len(g) /\ g[j - Len(f)] = Command(y)
      BY <1>1, <1>2, <1>3, <2>1, <2>4
    <3> QED
      BY <2>4, <3>1 DEF Commands
  <2> QED
    BY <2>2, <2>3, <2>4
<1>8. ASSUME OneEach(f), OneEach(g), Commands(f) \cap Commands(g) = {}
      PROVE  OneEach(u)
  <2> SUFFICES ASSUME NEW x \in Operations, NEW i \in 1 .. Len(u), NEW j \in 1 .. Len(u),
                      u[i] = Command(x), u[j] = Command(x)
               PROVE  i = j
    BY DEF OneEach
  <2>1. CASE i \in 1 .. Len(f) /\ j \in 1 .. Len(f)
    BY <1>1, <1>8, <2>1 DEF OneEach
  <2>2. CASE i \notin 1 .. Len(f) /\ j \notin 1 .. Len(f)
    <3>1. i - Len(f) = j - Len(f)
      BY <1>2, <1>3, <1>8, <2>2 DEF OneEach
    <3> QED
      BY <1>1, <3>1
  <2>3. x \notin Commands(f) \/ x \notin Commands(g)
    BY <1>8
  <2>4. CASE i \in 1 .. Len(f) /\ j \notin 1 .. Len(f)
    BY <1>1, <1>2, <1>3, <2>3, <2>4 DEF Commands
  <2>5. CASE i \notin 1 .. Len(f) /\ j \in 1 .. Len(f)
    BY <1>1, <1>2, <1>3, <2>3, <2>5 DEF Commands
  <2> QED
    BY <2>1, <2>2, <2>4, <2>5
<1> QED
  BY <1>1, <1>4, <1>5, <1>6, <1>7, <1>8 DEF u

\* Writing a new command to the stream.
LEMMA CommandWritten ==
    ASSUME NEW f \in Seq(FrameType), NEW o \in Operations
    PROVE  LET u == f \o <<Command(o)>>
           IN  /\ u \in Seq(FrameType)
               /\ \A x : x \in Commands(u) <=> x \in Commands(f) \/ x = o
               /\ \A x, y \in Operations : CommandBefore(f, x, y) => CommandBefore(u, x, y)
               /\ \A x \in Commands(f) : CommandBefore(u, x, o)
               /\ \A x, y \in Operations : CommandBefore(u, x, y) =>
                     CommandBefore(f, x, y) \/ (x \in Commands(f) /\ y = o)
               /\ OneEach(f) /\ o \notin Commands(f) => OneEach(u)
<1> DEFINE g == <<Command(o)>>
<1>1. g \in Seq(FrameType) /\ Len(g) = 1 /\ g[1] = Command(o)
  BY DEF FrameType, Command
<1> HIDE DEF g
<1>2. \A x : x \in Commands(g) <=> x = o
  BY <1>1 DEF Commands, Command
<1>3. \A x, y : ~ CommandBefore(g, x, y)
  BY <1>1 DEF CommandBefore
<1>4. OneEach(g)
  BY <1>1 DEF OneEach
<1>5. o \notin Commands(f) => Commands(f) \cap Commands(g) = {}
  BY <1>2
<1>6. f \o g \in Seq(FrameType) /\ \A x : x \in Commands(f \o g) <=> x \in Commands(f) \/ x \in Commands(g)
  BY <1>1, JoinedFrames
<1>7. \A x, y \in Operations : CommandBefore(f, x, y) => CommandBefore(f \o g, x, y)
  BY <1>1, JoinedFrames
<1>8. \A x \in Commands(f), y \in Commands(g) : CommandBefore(f \o g, x, y)
  BY <1>1, JoinedFrames
<1>9. \A x, y \in Operations : CommandBefore(f \o g, x, y) =>
        \/ CommandBefore(f, x, y) \/ CommandBefore(g, x, y)
        \/ x \in Commands(f) /\ y \in Commands(g)
  BY <1>1, JoinedFrames
<1>10. OneEach(f) /\ OneEach(g) /\ Commands(f) \cap Commands(g) = {} => OneEach(f \o g)
  BY <1>1, JoinedFrames
<1> QED
  BY <1>2, <1>3, <1>4, <1>5, <1>6, <1>7, <1>8, <1>9, <1>10 DEF g

\* Frames that are no commands change nothing of the commands.
LEMMA OthersWritten ==
    ASSUME NEW f \in Seq(FrameType), NEW g \in Seq(FrameType),
           \A i \in 1 .. Len(g) : g[i].kind # "command"
    PROVE  /\ f \o g \in Seq(FrameType)
           /\ Commands(f \o g) = Commands(f)
           /\ \A x, y \in Operations : CommandBefore(f \o g, x, y) <=> CommandBefore(f, x, y)
           /\ OneEach(f) => OneEach(f \o g)
<1>1. \A i \in 1 .. Len(g) : \A x : g[i] # Command(x)
  BY DEF Command
<1>2. /\ \A x : x \notin Commands(g)
      /\ \A x, y : ~ CommandBefore(g, x, y)
      /\ OneEach(g) /\ Commands(f) \cap Commands(g) = {}
  BY <1>1 DEF Commands, CommandBefore, OneEach
<1>3. f \o g \in Seq(FrameType) /\ \A x : x \in Commands(f \o g) <=> x \in Commands(f)
  BY <1>2, JoinedFrames
<1>4. \A x, y \in Operations : CommandBefore(f \o g, x, y) <=> CommandBefore(f, x, y)
  BY <1>2, JoinedFrames
<1>5. OneEach(f) => OneEach(f \o g)
  BY <1>2, JoinedFrames
<1> QED
  BY <1>3, <1>4, <1>5

\* Reading a frame that is no command.
LEMMA HeadOther ==
    ASSUME NEW f \in Seq(FrameType), f # <<>>, Head(f).kind # "command"
    PROVE  /\ Tail(f) \in Seq(FrameType)
           /\ Commands(Tail(f)) = Commands(f)
           /\ \A x, y \in Operations : CommandBefore(Tail(f), x, y) <=> CommandBefore(f, x, y)
           /\ OneEach(f) => OneEach(Tail(f))
<1> DEFINE t == Tail(f)
<1>1. /\ t \in Seq(FrameType) /\ Len(f) \in Nat \ {0} /\ Len(t) = Len(f) - 1
      /\ \A i \in 1 .. Len(t) : i + 1 \in 1 .. Len(f) /\ t[i] = f[i + 1]
      /\ Head(f) = f[1]
  OBVIOUS
<1> HIDE DEF t
<1>2. \A x : f[1] # Command(x)
  BY <1>1 DEF Command
<1>3. ASSUME NEW i \in 1 .. Len(f), NEW x, f[i] = Command(x)
      PROVE  i - 1 \in 1 .. Len(t) /\ t[i - 1] = f[i] /\ i # 1
  <2>1. i # 1
    BY <1>2, <1>3
  <2>2. i - 1 \in 1 .. Len(t)
    BY <1>1, <2>1
  <2> QED
    BY <1>1, <2>1, <2>2
<1>4. ASSUME NEW x PROVE x \in Commands(t) <=> x \in Commands(f)
  BY <1>1, <1>3 DEF Commands
<1>5. ASSUME NEW x \in Operations, NEW y \in Operations, CommandBefore(f, x, y)
      PROVE  CommandBefore(t, x, y)
  <2>1. PICK i, j \in 1 .. Len(f) : i < j /\ f[i] = Command(x) /\ f[j] = Command(y)
    BY <1>5 DEF CommandBefore
  <2>2. /\ i - 1 \in 1 .. Len(t) /\ t[i - 1] = Command(x)
        /\ j - 1 \in 1 .. Len(t) /\ t[j - 1] = Command(y) /\ i - 1 < j - 1
    BY <1>3, <2>1
  <2> QED
    BY <2>2 DEF CommandBefore
<1>6. ASSUME NEW x \in Operations, NEW y \in Operations, CommandBefore(t, x, y)
      PROVE  CommandBefore(f, x, y)
  <2>1. PICK i, j \in 1 .. Len(t) : i < j /\ t[i] = Command(x) /\ t[j] = Command(y)
    BY <1>6 DEF CommandBefore
  <2>2. /\ i + 1 \in 1 .. Len(f) /\ f[i + 1] = Command(x)
        /\ j + 1 \in 1 .. Len(f) /\ f[j + 1] = Command(y) /\ i + 1 < j + 1
    BY <1>1, <2>1
  <2> QED
    BY <2>2 DEF CommandBefore
<1>7. OneEach(f) => OneEach(t)
  <2> SUFFICES ASSUME OneEach(f), NEW x \in Operations, NEW i \in 1 .. Len(t), NEW j \in 1 .. Len(t),
                      t[i] = Command(x), t[j] = Command(x)
               PROVE  i = j
    BY DEF OneEach
  <2>1. i + 1 = j + 1
    BY <1>1 DEF OneEach
  <2> QED
    BY <1>1, <2>1
<1> QED
  BY <1>1, <1>4, <1>5, <1>6, <1>7 DEF t

\* Reading a command takes the first one of the stream.
LEMMA HeadCommand ==
    ASSUME NEW f \in Seq(FrameType), f # <<>>, Head(f).kind = "command", OneEach(f)
    PROVE  LET o == Head(f).operation
           IN  /\ o \in Commands(f) /\ Tail(f) \in Seq(FrameType) /\ OneEach(Tail(f))
               /\ Commands(Tail(f)) = Commands(f) \ {o}
               /\ \A x, y \in Operations : CommandBefore(f, x, y) /\ x # o => CommandBefore(Tail(f), x, y)
               /\ \A x, y \in Operations : CommandBefore(Tail(f), x, y) => CommandBefore(f, x, y)
               /\ \A y \in Commands(f) \ {o} : CommandBefore(f, o, y)
               /\ \A x \in Operations : ~ CommandBefore(f, x, o)
<1> DEFINE t == Tail(f)
           o == Head(f).operation
<1>1. /\ t \in Seq(FrameType) /\ Len(f) \in Nat \ {0} /\ Len(t) = Len(f) - 1
      /\ \A i \in 1 .. Len(t) : i + 1 \in 1 .. Len(f) /\ t[i] = f[i + 1]
      /\ Head(f) = f[1]
  OBVIOUS
<1>2. f[1] = Command(o) /\ o \in Operations
  <2>1. f[1] \in FrameType
    BY <1>1
  <2> QED
    BY <1>1, <2>1 DEF FrameType, Command
<1> HIDE DEF t, o
<1>3. ASSUME NEW i \in 1 .. Len(f), NEW x, f[i] = Command(x), x # o
      PROVE  i - 1 \in 1 .. Len(t) /\ t[i - 1] = f[i] /\ i # 1
  <2>1. i # 1
    BY <1>2, <1>3 DEF Command
  <2>2. i - 1 \in 1 .. Len(t)
    BY <1>1, <2>1
  <2> QED
    BY <1>1, <2>1, <2>2
<1>4. ASSUME NEW i \in 1 .. Len(f), f[i] = Command(o)
      PROVE  i = 1
  BY <1>1, <1>2, <1>4 DEF OneEach
<1>5. ASSUME NEW x PROVE x \in Commands(t) <=> x \in Commands(f) /\ x # o
  <2>1. ASSUME x \in Commands(t) PROVE x \in Commands(f) /\ x # o
    <3>1. PICK i \in 1 .. Len(t) : t[i] = Command(x) /\ x \in Operations
      BY <2>1 DEF Commands
    <3>2. i + 1 \in 1 .. Len(f) /\ f[i + 1] = Command(x) /\ i + 1 # 1
      BY <1>1, <3>1
    <3> QED
      BY <1>4, <3>1, <3>2 DEF Commands
  <2>2. ASSUME x \in Commands(f), x # o PROVE x \in Commands(t)
    BY <1>3, <2>2 DEF Commands
  <2> QED
    BY <2>1, <2>2
<1>6. ASSUME NEW x \in Operations, NEW y \in Operations, CommandBefore(f, x, y), x # o
      PROVE  CommandBefore(t, x, y)
  <2>1. PICK i, j \in 1 .. Len(f) : i < j /\ f[i] = Command(x) /\ f[j] = Command(y)
    BY <1>6 DEF CommandBefore
  <2>2. i - 1 \in 1 .. Len(t) /\ t[i - 1] = Command(x)
    BY <1>3, <1>6, <2>1
  <2>3. j - 1 \in 1 .. Len(t)
    BY <1>1, <2>1
  <2>4. t[j - 1] = Command(y) /\ i - 1 < j - 1
    BY <1>1, <2>1, <2>3
  <2> QED
    BY <2>2, <2>3, <2>4 DEF CommandBefore
<1>7. ASSUME NEW x \in Operations, NEW y \in Operations, CommandBefore(t, x, y)
      PROVE  CommandBefore(f, x, y)
  <2>1. PICK i, j \in 1 .. Len(t) : i < j /\ t[i] = Command(x) /\ t[j] = Command(y)
    BY <1>7 DEF CommandBefore
  <2>2. /\ i + 1 \in 1 .. Len(f) /\ f[i + 1] = Command(x)
        /\ j + 1 \in 1 .. Len(f) /\ f[j + 1] = Command(y) /\ i + 1 < j + 1
    BY <1>1, <2>1
  <2> QED
    BY <2>2 DEF CommandBefore
<1>8. ASSUME NEW y \in Commands(f), y # o PROVE CommandBefore(f, o, y)
  <2>1. PICK j \in 1 .. Len(f) : f[j] = Command(y)
    BY DEF Commands
  <2>2. j # 1 /\ 1 \in 1 .. Len(f)
    BY <1>1, <1>3, <1>8, <2>1
  <2> QED
    BY <1>2, <2>1, <2>2 DEF CommandBefore
<1>9. ASSUME NEW x \in Operations, CommandBefore(f, x, o) PROVE FALSE
  <2>1. PICK i, j \in 1 .. Len(f) : i < j /\ f[j] = Command(o)
    BY <1>9 DEF CommandBefore
  <2> QED
    BY <1>1, <1>4, <2>1
<1>10. OneEach(t)
  <2> SUFFICES ASSUME NEW x \in Operations, NEW i \in 1 .. Len(t), NEW j \in 1 .. Len(t),
                      t[i] = Command(x), t[j] = Command(x)
               PROVE  i = j
    BY DEF OneEach
  <2>1. i + 1 = j + 1
    BY <1>1 DEF OneEach
  <2> QED
    BY <1>1, <2>1
<1>11. o \in Commands(f)
  BY <1>1, <1>2 DEF Commands
<1> QED
  BY <1>1, <1>5, <1>6, <1>7, <1>8, <1>9, <1>10, <1>11 DEF t, o

\* The replay of pending commands.
LEMMA ReplayFrames ==
    ASSUME NEW p \in Seq(CommandType), Unique(p)
    PROVE  LET g == [i \in 1 .. Len(p) |-> [kind |-> "command", operation |-> p[i].operation]]
           IN  /\ g \in Seq(FrameType) /\ OneEach(g) /\ Commands(g) = Ids(p)
               /\ \A x, y \in Operations : CommandBefore(g, x, y) <=> Before(p, x, y)
<1> DEFINE g == [i \in 1 .. Len(p) |-> [kind |-> "command", operation |-> p[i].operation]]
<1>1. Len(p) \in Nat /\ \A i \in 1 .. Len(p) : p[i].operation \in Operations
  <2>1. Len(p) \in Nat /\ \A i \in 1 .. Len(p) : p[i] \in CommandType
    OBVIOUS
  <2> QED
    BY <2>1 DEF CommandType
<1>2. g \in [1 .. Len(p) -> FrameType]
  BY <1>1 DEF FrameType
<1>3. \A i \in 1 .. Len(p) : \A x : g[i] = Command(x) <=> p[i].operation = x
  BY DEF Command
<1> HIDE DEF g
<1>4. g \in Seq(FrameType) /\ Len(g) = Len(p)
  BY <1>1, <1>2
<1>5. OneEach(g)
  BY <1>3, <1>4 DEF OneEach, Unique
<1>6. Commands(g) = Ids(p)
  BY <1>1, <1>3, <1>4 DEF Commands, Ids
<1>7. \A x, y \in Operations : CommandBefore(g, x, y) <=> Before(p, x, y)
  BY <1>3, <1>4 DEF CommandBefore, Before
<1> QED
  BY <1>4, <1>5, <1>6, <1>7 DEF g

-----------------------------------------------------------------------------
(* The owner's task and table.                                             *)

\* A task that is not idle belongs to a live owner.
LEMMA TaskPhase ==
    ASSUME Types
    PROVE  /\ owner.task.phase # "idle" <=> owner.task # Idle
           /\ owner.task.phase # "idle" => owner.task \in TaskType /\ owner.alive
<1>1. owner.task \in TaskType \cup {Idle} /\ (~owner.alive => owner.task = Idle)
      /\ owner.alive \in BOOLEAN
  BY DEF Types, OwnerTypes
<1>2. Idle.phase = "idle"
  BY DEF Idle
<1>3. \A t \in TaskType : t.phase # "idle"
  BY DEF TaskType, Posting
<1> QED
  BY <1>1, <1>2, <1>3

\* What the handler is posting.
LEMMA PostedRecord ==
    ASSUME Types, owner.task.phase # "idle"
    PROVE  /\ Posted \in AckType /\ Posted.operation = owner.task.operation
           /\ Posted.generation = registry.generation
           /\ [operation |-> Posted.operation, state |-> Posted.state] \in Elements(owner.records)
<1> DEFINE r == RecordOf(owner.records, owner.task.operation)
<1>1. owner.task.operation \in Ids(owner.records)
  BY TaskPhase DEF Types, OwnerTypes
<1>2. r \in Elements(owner.records) /\ r.operation = owner.task.operation
  BY <1>1, ElementOfId DEF Types, OwnerTypes
<1>3. r \in AnswerType
  BY <1>2, ElementsType DEF Types, OwnerTypes
<1> HIDE DEF r
<1>4. Posted = [operation |-> owner.task.operation, state |-> r.state, generation |-> registry.generation]
  BY DEF Posted, Acknowledgement, r
<1>5. r = [operation |-> r.operation, state |-> r.state]
  BY <1>3 DEF AnswerType
<1> QED
  BY <1>2, <1>3, <1>4, <1>5 DEF AnswerType, AckType, Types, OwnerTypes, OtherTypes

\* What acknowledge does to the owner.
LEMMA Acknowledges ==
    ASSUME Types, NEW phase \in Posting, NEW o \in Operations,
           NEW state \in {"accepted", "completed", "failed"},
           NEW records \in Seq(AnswerType), Unique(records),
           Acknowledge(phase, o, state, records)
    PROVE  /\ owner'.records \in Seq(AnswerType) /\ Unique(owner'.records)
           /\ \A r : r \in Elements(owner'.records) <=>
                 \/ r \in Elements(records) /\ r.operation # o
                 \/ r = [operation |-> o, state |-> state]
           /\ \A x : x \in Ids(owner'.records) <=> x \in Ids(records) \/ x = o
           /\ owner'.alive = owner.alive
           /\ owner'.task \in TaskType /\ owner'.task.phase = phase
           /\ owner'.task.operation = o /\ owner'.task.answer = "none"
           /\ owner' \in [alive : BOOLEAN, records : Seq(AnswerType), task : TaskType \cup {Idle}]
           /\ \A ack : ack \in wire' <=>
                 ack \in wire \/ ack = [operation |-> o, state |-> state, generation |-> registry.generation]
           /\ wire' \subseteq AckType
<1> DEFINE w == Without(records, {o})
           a == [operation |-> o, state |-> state]
           t == [phase |-> phase, operation |-> o, attempt |-> 1, answer |-> "none"]
<1>1. /\ w \in Seq(AnswerType) /\ Unique(w) /\ Ids(w) = Ids(records) \ {o}
      /\ Elements(w) = {r \in Elements(records) : r.operation \notin {o}}
  BY WithoutElements
<1>2. a \in AnswerType /\ a.operation = o
  BY DEF AnswerType
<1>3. /\ owner' = [owner EXCEPT !.records = Append(w, a), !.task = t]
      /\ wire' = wire \cup {[operation |-> o, state |-> state, generation |-> registry.generation]}
  BY DEF Acknowledge, Acknowledgement
<1>4. t \in TaskType /\ t.phase = phase /\ t.operation = o /\ t.answer = "none"
  BY RetryAttemptsAssumption DEF TaskType
<1> HIDE DEF w, a, t
<1>5. /\ Append(w, a) \in Seq(AnswerType) /\ Elements(Append(w, a)) = Elements(w) \cup {a}
      /\ Ids(Append(w, a)) = Ids(w) \cup {a.operation} /\ Unique(Append(w, a))
  BY <1>1, <1>2, AppendElements
<1>6. owner' = [alive |-> owner.alive, records |-> Append(w, a), task |-> t] /\ owner.alive \in BOOLEAN
  BY <1>3 DEF Types, OwnerTypes
<1>7. wire' \subseteq AckType
  BY <1>3 DEF Types, OwnerTypes, OtherTypes, AckType
<1>8. \A r : r \in Elements(Append(w, a)) <=> ((r \in Elements(records) /\ r.operation # o) \/ r = a)
  BY <1>1, <1>5
<1>9. \A x : x \in Ids(Append(w, a)) <=> x \in Ids(records) \/ x = o
  BY <1>1, <1>2, <1>5
<1> QED
  BY <1>3, <1>4, <1>5, <1>6, <1>7, <1>8, <1>9 DEF a

\* pruneExecutedCommands forgets only what is due.
LEMMA PrunedExecutedRecords ==
    ASSUME NEW records \in Seq(AnswerType), Unique(records), NEW age
    PROVE  LET known == PrunedExecuted(records, age)
           IN  /\ known \in Seq(AnswerType) /\ Unique(known) /\ Len(known) <= Len(records)
               /\ Elements(known) \subseteq Elements(records)
               /\ Ids(known) \subseteq Ids(records) /\ Ids(records) \ due \subseteq Ids(known)
<1> DEFINE ids == {records[i].operation : i \in 1 .. age} \cap due
           known == Without(records, ids)
<1>1. /\ known \in Seq(AnswerType) /\ Unique(known) /\ Ids(known) = Ids(records) \ ids
      /\ Elements(known) = {r \in Elements(records) : r.operation \notin ids}
  BY WithoutElements
<1>2. ids \subseteq due
  OBVIOUS
<1>3. PrunedExecuted(records, age) = known
  BY DEF PrunedExecuted
<1> HIDE DEF ids, known
<1>4. Len(known) <= Len(records)
  BY <1>1, FewerIds
<1> QED
  BY <1>1, <1>2, <1>3, <1>4

\* makeExecutedCommandCapacity leaves room for one more.
LEMMA ExecutedWithCapacityRecords ==
    ASSUME NEW records \in Seq(AnswerType), Unique(records), Len(records) <= OwnerRecords
    PROVE  LET left == ExecutedWithCapacity(records)
           IN  /\ left \in Seq(AnswerType) /\ Unique(left) /\ Len(left) < OwnerRecords
               /\ Elements(left) \subseteq Elements(records)
<1>1. CASE Len(records) >= OwnerRecords
  <2>1. records # <<>> /\ Len(records) \in Nat
    BY <1>1, LimitsAssumption
  <2>2. ExecutedWithCapacity(records) = Tail(records)
    BY <1>1 DEF ExecutedWithCapacity
  <2>3. /\ Tail(records) \in Seq(AnswerType) /\ Len(Tail(records)) = Len(records) - 1
        /\ Elements(Tail(records)) \subseteq Elements(records) /\ Unique(Tail(records))
    BY <2>1, TailElements
  <2> QED
    BY <2>1, <2>2, <2>3, LimitsAssumption
<1>2. CASE ~ (Len(records) >= OwnerRecords)
  <2>1. ExecutedWithCapacity(records) = records /\ Len(records) \in Nat
    BY <1>2 DEF ExecutedWithCapacity
  <2> QED
    BY <1>2, <2>1, LimitsAssumption
<1> QED
  BY <1>1, <1>2

\* A verdict does not change which operations have records.
LEMMA RevisedIds ==
    ASSUME NEW old \in Seq(RecordType), NEW new, Revised(old, new)
    PROVE  Ids(new) \subseteq Ids(old) /\ AcceptedIn(new) \subseteq AcceptedIn(old)
<1>1. ASSUME NEW q \in Elements(new)
      PROVE  \E r \in Elements(old) : q.operation = r.operation /\ (q = r \/ q.state # "accepted")
  BY ElementsType, VerdictKeeps DEF Revised
<1>2. Ids(new) \subseteq Ids(old)
  BY <1>1, IdsOfElements
<1>3. AcceptedIn(new) \subseteq AcceptedIn(old)
  BY <1>1 DEF AcceptedIn
<1> QED
  BY <1>2, <1>3

\* Nor does it make a table longer.
LEMMA RevisedLengths ==
    ASSUME NEW old \in Seq(RecordType), Unique(old), NEW new, Revised(old, new)
    PROVE  Len(new) <= Len(old) /\ Len(Accepted(new)) <= Len(Accepted(old))
<1>1. new \in Seq(RecordType) /\ Unique(new) /\ Ids(new) \subseteq Ids(old)
  BY RevisedIds DEF Revised
<1>2. Ids(Accepted(new)) \subseteq Ids(Accepted(old))
  BY <1>1, RevisedIds, AcceptedElements DEF AcceptedIds
<1>3. /\ Accepted(new) \in Seq(RecordType) /\ Unique(Accepted(new))
      /\ Accepted(old) \in Seq(RecordType) /\ Unique(Accepted(old))
  BY <1>1, AcceptedElements
<1> QED
  BY <1>1, <1>2, <1>3, FewerIds

-----------------------------------------------------------------------------
(* What a step does to the helper's table.                                 *)

\* The bounds of the tables.
Limits ==
    /\ Len(operations) <= HelperRecords /\ Len(Accepted(operations)) <= PendingLimit
    /\ Len(owner.records) <= OwnerRecords

\* The owner is at work on x.
Handling(x) == owner.task.phase # "idle" /\ owner.task.operation = x

\* The owner has an answer of every command it is done with, and says
\* completed only of what it started.
Answers ==
    /\ \A r \in Elements(owner.records) :
           /\ r.state = "accepted" =>
                 Handling(r.operation) /\ owner.task.phase \in {"accepting", "executing"}
           /\ r.state = "completed" => starts[r.operation] = 1
    /\ \A ack \in wire : ack.state = "completed" => starts[ack.operation] = 1

\* What a step does to the helper's table.
LEMMA OperationsStep ==
    ASSUME Types, Limits, Answers, Next
    PROVE  \/ \E o \in Operations : HandleCommand(o) /\ Accepts(o)
           \/ posted' = posted /\ Revised(operations, operations')
<1>1. Revised(operations, operations)
  BY TrimmedSame, TrimmedIsRevised DEF Types, OperationTypes
<1>2. CASE OwnerNext
  BY <1>1, <1>2 DEF OwnerNext, OpenStream, ReadCancelled, ReadLateCommand, DispatchCommand, ReadFrame,
                    Execute, ExecutionEnds, HandlerEnds, AcknowledgeFailed, LoopFails, Heartbeat
<1>3. CASE HelperNext
  <2>1. ASSUME NEW o \in Operations, HandleCommand(o)
        PROVE  HandleCommand(o) /\ Accepts(o)
    BY <2>1, HandleAccepts DEF Limits
  <2>2. ASSUME NEW o \in Operations, ExpireOperation(o)
        PROVE  posted' = posted /\ Revised(operations, operations')
    BY <2>2, ExpiredRecord, GivenUpRevises DEF ExpireOperation
  <2>3. CASE LookupOperation
    BY <2>3, PrunedTrims, TrimmedIsRevised DEF LookupOperation, Types, OperationTypes
  <2>4. CASE BeginDrain
    BY <2>4, AcceptedRecords, GivenUpRevises DEF BeginDrain
  <2>5. ASSUME NEW ack \in wire, NEW copy, NEW answered, AcknowledgementArrives(ack, copy, answered)
        PROVE  posted' = posted /\ Revised(operations, operations')
    <3>1. ack \in AckType /\ (ack.state = "completed" => starts[ack.operation] = 1)
      BY DEF Types, OwnerTypes, Answers
    <3>2. posted' = posted /\ (operations' = operations \/ operations' = Reconciled(ack))
      BY <2>5 DEF AcknowledgementArrives
    <3> QED
      BY <1>1, <3>1, <3>2, ReconciledRevises
  <2> QED
    BY <1>3, <2>1, <2>2, <2>3, <2>4, <2>5 DEF HelperNext
<1>4. CASE Environment
  <2>1. CASE OwnerRegisters
    BY <2>1, AcceptedRecords, GivenUpRevises DEF OwnerRegisters
  <2>2. CASE ~ OwnerRegisters
    BY <1>1, <1>4, <2>2 DEF Environment, DeadlinePasses, AcknowledgementLost, PostAgain, StreamBreaks,
                            Lapse, OwnerStops
  <2> QED
    BY <2>1, <2>2
<1> QED
  BY <1>2, <1>3, <1>4 DEF Next

\* Every step keeps the helper's table typed and within its limits.
LEMMA OperationTypesStep ==
    ASSUME Types, Limits, Answers, Next
    PROVE  /\ OperationTypes'
           /\ Len(operations') <= HelperRecords /\ Len(Accepted(operations')) <= PendingLimit
<1>1. ASSUME NEW o \in Operations, HandleCommand(o), Accepts(o)
      PROVE  /\ OperationTypes'
             /\ Len(operations') <= HelperRecords /\ Len(Accepted(operations')) <= PendingLimit
  <2>1. PICK recent : /\ Trimmed(operations, recent)
                      /\ Len(recent) < HelperRecords /\ Len(Accepted(recent)) < PendingLimit
                      /\ operations' = Append(recent, NewRecord(o))
    BY <1>1 DEF Accepts
  <2>2. NewRecord(o) \in RecordType /\ NewRecord(o).operation = o
    BY DEF NewRecord, RecordType, Types, OtherTypes
  <2>3. recent \in Seq(RecordType) /\ Unique(recent) /\ Ids(recent) \subseteq Ids(operations)
    BY <2>1, IdsOfElements DEF Trimmed
  <2>4. o \notin posted /\ posted' = posted \cup {o} /\ Ids(operations) \subseteq posted
    BY <1>1 DEF HandleCommand, Types, OperationTypes
  <2>5. /\ operations' \in Seq(RecordType) /\ Ids(operations') = Ids(recent) \cup {o}
        /\ Unique(operations') /\ Elements(operations') = Elements(recent) \cup {NewRecord(o)}
    BY <2>1, <2>2, <2>3, <2>4, AppendElements
  <2>6. Len(operations') <= HelperRecords
    <3>1. Len(recent) \in Nat /\ Len(operations') = Len(recent) + 1
      BY <2>1, <2>3
    <3> QED
      BY <2>1, <3>1, LimitsAssumption
  <2>7. Len(Accepted(operations')) <= PendingLimit
    <3>1. /\ Accepted(recent) \in Seq(RecordType) /\ Unique(Accepted(recent))
          /\ Elements(Accepted(recent)) = AcceptedIn(recent)
          /\ Ids(Accepted(recent)) = AcceptedIds(recent)
      BY <2>3, AcceptedElements
    <3>2. Elements(Accepted(operations')) = AcceptedIn(operations') /\ Unique(Accepted(operations'))
          /\ Accepted(operations') \in Seq(RecordType)
      BY <2>5, AcceptedElements
    <3>3. o \notin Ids(Accepted(recent))
      BY <2>3, <2>4, <3>1, IdsOfElements DEF AcceptedIds, AcceptedIn
    <3> DEFINE t == Append(Accepted(recent), NewRecord(o))
    <3>4. /\ t \in Seq(RecordType) /\ Unique(t)
          /\ Elements(t) = Elements(Accepted(recent)) \cup {NewRecord(o)}
      BY <2>2, <3>1, <3>3, AppendElements
    <3>5. Len(Accepted(recent)) \in Nat /\ Len(t) = Len(Accepted(recent)) + 1
      BY <3>1
    <3> HIDE DEF t
    <3>6. Elements(Accepted(operations')) \subseteq Elements(t)
      BY <2>5, <3>1, <3>2, <3>4 DEF AcceptedIn
    <3>7. Ids(Accepted(operations')) \subseteq Ids(t)
      BY <3>6, IdsOfElements
    <3>8. Len(Accepted(operations')) <= Len(t)
      BY <3>2, <3>4, <3>7, FewerIds
    <3>9. Len(Accepted(operations')) \in Nat
      BY <3>2
    <3> QED
      BY <2>1, <3>5, <3>8, <3>9, LimitsAssumption
  <2> QED
    BY <2>3, <2>4, <2>5, <2>6, <2>7 DEF OperationTypes
<1>2. ASSUME posted' = posted, Revised(operations, operations')
      PROVE  /\ OperationTypes'
             /\ Len(operations') <= HelperRecords /\ Len(Accepted(operations')) <= PendingLimit
  <2>1. operations \in Seq(RecordType) /\ Unique(operations) /\ Ids(operations) \subseteq posted
    BY DEF Types, OperationTypes
  <2>2. operations' \in Seq(RecordType) /\ Unique(operations') /\ Ids(operations') \subseteq Ids(operations)
    BY <1>2, <2>1, RevisedIds DEF Revised
  <2>3. Len(operations') <= Len(operations) /\ Len(Accepted(operations')) <= Len(Accepted(operations))
    BY <1>2, <2>1, RevisedLengths
  <2>4. /\ Len(operations) \in Nat /\ Len(operations') \in Nat
        /\ Len(Accepted(operations)) \in Nat /\ Len(Accepted(operations')) \in Nat
    BY <2>1, <2>2, AcceptedElements
  <2> QED
    BY <1>2, <2>1, <2>2, <2>3, <2>4, LimitsAssumption DEF Limits, OperationTypes
<1> QED
  BY <1>1, <1>2, OperationsStep

\* What a step does to the pending commands and the stream, but for those
\* that open or close the stream and that read a frame.
Cancelled(f) ==
    [i \in 1 .. Len(f) |-> [kind |-> "command.cancelled", operation |-> f[i].operation]]

LEMMA CancelledFrames ==
    ASSUME NEW f \in Seq(RecordType)
    PROVE  Cancelled(f) \in Seq(FrameType) /\ \A i \in 1 .. Len(Cancelled(f)) : Cancelled(f)[i].kind # "command"
<1>1. Len(f) \in Nat /\ \A i \in 1 .. Len(f) : f[i] \in RecordType
  OBVIOUS
<1>2. \A i \in 1 .. Len(f) : f[i].operation \in Operations
  BY <1>1 DEF RecordType
<1>3. Cancelled(f) \in [1 .. Len(f) -> FrameType]
  BY <1>2 DEF Cancelled, FrameType
<1>4. \A i \in 1 .. Len(f) : Cancelled(f)[i].kind # "command"
  BY DEF Cancelled
<1> QED
  BY <1>1, <1>3, <1>4

\* What cancelCommand does to the queue.
LEMMA CancelQueue ==
    ASSUME Types, NEW f \in Seq(RecordType), Cancel(f)
    PROVE  /\ QueueTypes'
           /\ pending' = pending \/ pending' = Without(pending, Ids(f))
           /\ stream'.open = stream.open
           /\ stream'.frames = stream.frames \/ (stream.open /\ stream'.frames = stream.frames \o Cancelled(f))
<1>1. pending \in Seq(CommandType) /\ stream \in [open : BOOLEAN, frames : Seq(FrameType)]
  BY DEF Types, QueueTypes
<1>2. CASE registry.connected
  <2>1. pending' = Without(pending, Ids(f)) /\ stream' = Write(stream, Cancelled(f))
    BY <1>2 DEF Cancel, Cancelled
  <2>2. pending' \in Seq(CommandType)
    BY <1>1, <2>1, WithoutElements
  <2>3. Cancelled(f) \in Seq(FrameType)
    BY CancelledFrames
  <2>4. \/ stream' = stream
        \/ stream.open /\ stream' = [open |-> TRUE, frames |-> stream.frames \o Cancelled(f)]
    BY <1>1, <2>1 DEF Write
  <2>5. stream.frames \o Cancelled(f) \in Seq(FrameType)
    BY <1>1, <2>3
  <2>6. /\ stream' \in [open : BOOLEAN, frames : Seq(FrameType)] /\ stream'.open = stream.open
        /\ \/ stream'.frames = stream.frames
           \/ stream.open /\ stream'.frames = stream.frames \o Cancelled(f)
    <3>1. CASE stream' = stream
      BY <1>1, <3>1
    <3>2. CASE stream.open /\ stream' = [open |-> TRUE, frames |-> stream.frames \o Cancelled(f)]
      <4> DEFINE g == stream.frames \o Cancelled(f)
      <4>1. g \in Seq(FrameType) /\ stream' = [open |-> TRUE, frames |-> g]
        BY <2>5, <3>2
      <4> HIDE DEF g
      <4>2. stream' \in [open : BOOLEAN, frames : Seq(FrameType)] /\ stream'.frames = g /\ stream'.open = TRUE
        BY <4>1
      <4> QED
        BY <3>2, <4>2 DEF g
    <3> QED
      BY <2>4, <3>1, <3>2
  <2> QED
    BY <2>1, <2>2, <2>6 DEF QueueTypes
<1>3. CASE ~registry.connected
  BY <1>1, <1>3 DEF Cancel, QueueTypes
<1> QED
  BY <1>2, <1>3

-----------------------------------------------------------------------------
(* What a step does to the queue, and a dispatch to the owner.             *)

\* The queue after a new command.
LEMMA HandleQueue ==
    ASSUME Types, NEW o \in Operations, HandleCommand(o)
    PROVE  /\ QueueTypes'
           /\ pending' = Append(pending, [operation |-> o])
           /\ stream'.open = stream.open
           /\ IF stream.open THEN stream'.frames = stream.frames \o <<Command(o)>>
              ELSE stream'.frames = stream.frames
<1>1. pending \in Seq(CommandType) /\ stream \in [open : BOOLEAN, frames : Seq(FrameType)]
  BY DEF Types, QueueTypes
<1>2. pending' = Append(pending, [operation |-> o]) /\ stream' = Write(stream, <<Command(o)>>)
  BY DEF HandleCommand, Command
<1>3. pending' \in Seq(CommandType)
  BY <1>1, <1>2 DEF CommandType
<1> DEFINE g == stream.frames \o <<Command(o)>>
<1>4. g \in Seq(FrameType)
  BY <1>1, CommandWritten
<1>5. stream' = IF stream.open THEN [stream EXCEPT !.frames = g] ELSE stream
  BY <1>1, <1>2 DEF Write
<1> HIDE DEF g
<1>6. /\ stream' \in [open : BOOLEAN, frames : Seq(FrameType)] /\ stream'.open = stream.open
      /\ IF stream.open THEN stream'.frames = g ELSE stream'.frames = stream.frames
  BY <1>1, <1>4, <1>5
<1> QED
  BY <1>2, <1>3, <1>6 DEF QueueTypes, g

\* The queue after a frame is read.
LEMMA ReadQueue ==
    ASSUME Types, NEW kind, ReadFrame(kind)
    PROVE  /\ QueueTypes' /\ pending' = pending
           /\ stream.frames # <<>> /\ Head(stream.frames).kind = kind
           /\ stream'.open = stream.open /\ stream'.frames = Tail(stream.frames)
<1>1. pending \in Seq(CommandType) /\ stream \in [open : BOOLEAN, frames : Seq(FrameType)]
  BY DEF Types, QueueTypes
<1>2. pending' = pending /\ stream' = [stream EXCEPT !.frames = Tail(stream.frames)] /\ stream.frames # <<>>
  BY DEF ReadFrame
<1> DEFINE t == Tail(stream.frames)
<1>3. t \in Seq(FrameType)
  BY <1>1, <1>2
<1> HIDE DEF t
<1>4. /\ stream' \in [open : BOOLEAN, frames : Seq(FrameType)]
      /\ stream'.open = stream.open /\ stream'.frames = t
  BY <1>1, <1>2, <1>3 DEF t
<1> QED
  BY <1>1, <1>2, <1>4 DEF QueueTypes, ReadFrame, t

\* The queue after a new stream.
LEMMA OpenQueue ==
    ASSUME Types, Unique(pending), OpenStream
    PROVE  /\ QueueTypes' /\ pending' = Without(pending, due)
           /\ stream'.open /\ OneEach(stream'.frames) /\ Commands(stream'.frames) = Ids(pending')
           /\ \A x, y \in Operations : CommandBefore(stream'.frames, x, y) <=> Before(pending', x, y)
<1>1. pending \in Seq(CommandType)
  BY DEF Types, QueueTypes
<1>2. pending' = Without(pending, due) /\ pending' \in Seq(CommandType) /\ Unique(pending')
  BY <1>1, WithoutElements DEF OpenStream
<1> DEFINE g == [i \in 1 .. Len(pending') |-> [kind |-> "command", operation |-> pending'[i].operation]]
<1>3. stream' = [open |-> TRUE, frames |-> g]
  BY DEF OpenStream
<1>4. /\ g \in Seq(FrameType) /\ OneEach(g) /\ Commands(g) = Ids(pending')
      /\ \A x, y \in Operations : CommandBefore(g, x, y) <=> Before(pending', x, y)
  BY <1>2, ReplayFrames
<1> HIDE DEF g
<1>5. stream'.open /\ stream'.frames = g /\ stream' \in [open : BOOLEAN, frames : Seq(FrameType)]
  BY <1>3, <1>4
<1> QED
  BY <1>2, <1>4, <1>5 DEF QueueTypes

LEMMA ClosedType ==
    Closed \in [open : BOOLEAN, frames : Seq(FrameType)]
  BY DEF Closed

\* Every step keeps the queue typed.
LEMMA QueueTypesStep ==
    ASSUME Types, Unique(pending), Next
    PROVE  QueueTypes'
<1>1. QueueTypes /\ pending \in Seq(CommandType)
  BY DEF Types, QueueTypes
<1>2. CASE OwnerNext
  <2>1. CASE ReadCancelled \/ ReadLateCommand \/ DispatchCommand
    BY <2>1, ReadQueue DEF ReadCancelled, ReadLateCommand, DispatchCommand
  <2>2. CASE OpenStream
    BY <2>2, OpenQueue
  <2>3. CASE LoopFails
    BY <1>1, <2>3, ClosedType DEF LoopFails, QueueTypes
  <2>4. CASE Execute \/ ExecutionEnds \/ HandlerEnds \/ AcknowledgeFailed \/ Heartbeat
    BY <1>1, <2>4 DEF Execute, ExecutionEnds, HandlerEnds, AcknowledgeFailed, Heartbeat, QueueTypes
  <2> QED
    BY <1>2, <2>1, <2>2, <2>3, <2>4 DEF OwnerNext
<1>3. CASE HelperNext
  <2>1. ASSUME NEW o \in Operations, HandleCommand(o) PROVE QueueTypes'
    BY <2>1, HandleQueue
  <2>2. ASSUME NEW o \in Operations, ExpireOperation(o) PROVE QueueTypes'
    BY <2>2, ExpiredRecord, CancelQueue DEF ExpireOperation
  <2>3. CASE LookupOperation
    BY <1>1, <2>3 DEF LookupOperation, QueueTypes
  <2>4. CASE BeginDrain
    BY <2>4, AcceptedRecords, CancelQueue DEF BeginDrain
  <2>5. ASSUME NEW ack \in wire, NEW copy, NEW answered, AcknowledgementArrives(ack, copy, answered)
        PROVE  QueueTypes'
    <3>1. Without(pending, {ack.operation}) \in Seq(CommandType)
      BY <1>1, WithoutElements
    <3>2. pending' \in Seq(CommandType)
      BY <1>1, <2>5, <3>1 DEF AcknowledgementArrives, PendingAfter
    <3> QED
      BY <1>1, <2>5, <3>2 DEF AcknowledgementArrives, QueueTypes
  <2> QED
    BY <1>3, <2>1, <2>2, <2>3, <2>4, <2>5 DEF HelperNext
<1>4. CASE Environment
  <2>1. CASE OwnerRegisters
    BY <1>1, <2>1 DEF OwnerRegisters, QueueTypes
  <2>2. CASE StreamBreaks \/ OwnerStops
    BY <1>1, <2>2, ClosedType DEF StreamBreaks, OwnerStops, QueueTypes
  <2>3. CASE PostAgain \/ Lapse \/ \E o \in Operations : DeadlinePasses(o)
    BY <1>1, <2>3 DEF PostAgain, Lapse, DeadlinePasses, QueueTypes
  <2>4. CASE \E ack \in wire : AcknowledgementLost(ack)
    BY <1>1, <2>4 DEF AcknowledgementLost, QueueTypes
  <2> QED
    BY <1>4, <2>1, <2>2, <2>3, <2>4 DEF Environment
<1> QED
  BY <1>2, <1>3, <1>4 DEF Next

\* What dispatchCommand leaves of the owner's table.
LEMMA DispatchOwner ==
    ASSUME Types, Limits, DispatchCommand
    PROVE  LET o == Head(stream.frames).operation
           IN  /\ ReadFrame("command") /\ o \in Operations \ due
               /\ OwnerTypes' /\ Len(owner'.records) <= OwnerRecords
               /\ owner'.alive = owner.alive
               /\ o \in Ids(owner'.records)
               /\ owner'.task.operation = o /\ owner'.task.answer = "none"
               /\ \/ /\ o \in Ids(owner.records)
                     /\ Elements(owner'.records) \subseteq Elements(owner.records)
                     /\ Ids(owner.records) \ due \subseteq Ids(owner'.records)
                     /\ owner'.task.phase = "reposting"
                     /\ \E r \in Elements(owner.records) :
                           /\ r.operation = o
                           /\ \A ack \in wire' : ack \in wire \/ (ack.state = r.state /\ ack.operation = o)
                  \/ /\ o \notin Ids(owner.records)
                     /\ \A r \in Elements(owner'.records) :
                           \/ r \in Elements(owner.records) /\ r.operation # o
                           \/ r = [operation |-> o, state |-> "accepted"]
                     /\ owner'.task.phase = "accepting"
                     /\ \A ack \in wire' : ack \in wire \/ ack.state = "accepted"
<1> DEFINE o == Head(stream.frames).operation
<1>1. /\ ReadFrame("command") /\ o \notin due
      /\ registry' = registry /\ owner.alive /\ owner.task = Idle
  BY DEF DispatchCommand, ReadFrame
<1>2. o \in Operations
  <2>1. stream.frames # <<>> /\ stream.frames \in Seq(FrameType)
    BY <1>1, ReadQueue DEF Types, QueueTypes
  <2>2. Head(stream.frames) \in FrameType
    BY <2>1
  <2> QED
    BY <2>2 DEF FrameType
<1> HIDE DEF o
<1>3. /\ owner \in [alive : BOOLEAN, records : Seq(AnswerType), task : TaskType \cup {Idle}]
      /\ owner.records \in Seq(AnswerType) /\ Unique(owner.records) /\ wire \subseteq AckType
      /\ Len(owner.records) <= OwnerRecords
  BY DEF Types, OwnerTypes, Limits
<1>4. PICK age \in 0 .. Len(owner.records) :
         LET known == PrunedExecuted(owner.records, age) IN
         IF o \in Ids(known)
         THEN /\ owner' = [owner EXCEPT !.records = known,
                     !.task = [phase |-> "reposting", operation |-> o,
                               attempt |-> 1, answer |-> "none"]]
              /\ wire' = wire \cup {Acknowledgement(o, RecordOf(known, o).state)}
         ELSE Acknowledge("accepting", o, "accepted", ExecutedWithCapacity(known))
  BY DEF DispatchCommand, o
<1> DEFINE known == PrunedExecuted(owner.records, age)
<1>5. /\ known \in Seq(AnswerType) /\ Unique(known) /\ Len(known) <= Len(owner.records)
      /\ Elements(known) \subseteq Elements(owner.records)
      /\ Ids(known) \subseteq Ids(owner.records) /\ Ids(owner.records) \ due \subseteq Ids(known)
  BY <1>3, PrunedExecutedRecords
<1>6. Len(known) \in Nat /\ Len(owner.records) \in Nat
  BY <1>3, <1>5
<1>7. Len(known) <= OwnerRecords
  BY <1>3, <1>5, <1>6, LimitsAssumption
<1>8. CASE o \in Ids(known)
  <2> DEFINE t == [phase |-> "reposting", operation |-> o, attempt |-> 1, answer |-> "none"]
  <2>1. /\ owner' = [owner EXCEPT !.records = known, !.task = t]
        /\ wire' = wire \cup {Acknowledgement(o, RecordOf(known, o).state)}
    BY <1>4, <1>8
  <2>2. RecordOf(known, o) \in Elements(known) /\ RecordOf(known, o).operation = o
    BY <1>5, <1>8, ElementOfId
  <2>3. RecordOf(known, o) \in AnswerType
    BY <1>5, <2>2, ElementsType
  <2>4. Acknowledgement(o, RecordOf(known, o).state) \in AckType
    BY <1>2, <2>3 DEF Acknowledgement, AckType, AnswerType, Types, OtherTypes
  <2>5. t \in TaskType
    BY <1>2, RetryAttemptsAssumption DEF TaskType, Posting
  <2> HIDE DEF known, t
  <2>6. /\ owner'.records = known /\ owner'.task = t /\ owner'.alive = owner.alive
        /\ owner' \in [alive : BOOLEAN, records : Seq(AnswerType), task : TaskType \cup {Idle}]
    BY <1>3, <1>5, <2>1, <2>5
  <2>7. t.operation = o /\ t.phase = "reposting" /\ t.answer = "none"
    BY DEF t
  <2>8. OwnerTypes'
    BY <1>1, <1>3, <1>5, <1>8, <2>1, <2>4, <2>6, <2>7 DEF OwnerTypes
  <2>9. o \in Ids(owner.records)
    BY <1>5, <1>8
  <2>10. \E r \in Elements(owner.records) :
            /\ r.operation = o
            /\ \A ack \in wire' : ack \in wire \/ (ack.state = r.state /\ ack.operation = o)
    BY <1>5, <2>1, <2>2 DEF Acknowledgement
  <2>11. /\ Elements(owner'.records) \subseteq Elements(owner.records)
         /\ Ids(owner.records) \ due \subseteq Ids(owner'.records)
         /\ o \in Ids(owner'.records) /\ Len(owner'.records) <= OwnerRecords
    BY <1>5, <1>7, <1>8, <2>6
  <2> QED
    BY <1>1, <1>2, <2>6, <2>7, <2>8, <2>9, <2>10, <2>11 DEF o
<1>9. CASE o \notin Ids(known)
  <2> DEFINE left == ExecutedWithCapacity(known)
  <2>1. Acknowledge("accepting", o, "accepted", left)
    BY <1>4, <1>9
  <2>2. /\ left \in Seq(AnswerType) /\ Unique(left) /\ Len(left) < OwnerRecords
        /\ Elements(left) \subseteq Elements(known)
    BY <1>5, <1>7, ExecutedWithCapacityRecords
  <2> HIDE DEF left, known
  <2>3. /\ owner'.records \in Seq(AnswerType) /\ Unique(owner'.records)
        /\ \A r : r \in Elements(owner'.records) <=>
              \/ r \in Elements(left) /\ r.operation # o
              \/ r = [operation |-> o, state |-> "accepted"]
        /\ \A x : x \in Ids(owner'.records) <=> x \in Ids(left) \/ x = o
        /\ owner'.alive = owner.alive
        /\ owner'.task.phase = "accepting" /\ owner'.task.operation = o /\ owner'.task.answer = "none"
        /\ owner' \in [alive : BOOLEAN, records : Seq(AnswerType), task : TaskType \cup {Idle}]
        /\ \A ack : ack \in wire' <=>
              ack \in wire \/ ack = [operation |-> o, state |-> "accepted", generation |-> registry.generation]
        /\ wire' \subseteq AckType
    BY <1>2, <2>1, <2>2, Acknowledges DEF Posting
  <2>4. Len(owner'.records) <= OwnerRecords
    <3> DEFINE s == Append(left, [operation |-> o, state |-> "accepted"])
    <3>1. o \notin Ids(left)
      BY <1>9, <2>2, IdsOfElements
    <3>2. [operation |-> o, state |-> "accepted"] \in AnswerType
      BY <1>2 DEF AnswerType
    <3>3. s \in Seq(AnswerType) /\ Unique(s) /\ Ids(s) = Ids(left) \cup {o}
      BY <2>2, <3>1, <3>2, AppendElements
    <3>4. Len(s) = Len(left) + 1 /\ Len(left) \in Nat
      BY <2>2
    <3> HIDE DEF s
    <3>5. Len(owner'.records) <= Len(s) /\ Len(owner'.records) \in Nat
      BY <2>3, <3>3, FewerIds
    <3> QED
      BY <2>2, <3>4, <3>5, LimitsAssumption
  <2>5. OwnerTypes'
    BY <1>1, <2>3 DEF OwnerTypes
  <2>6. o \notin Ids(owner.records)
    BY <1>1, <1>5, <1>9 DEF o
  <2>7. o \in Ids(owner'.records)
    BY <2>3
  <2>8. \A r \in Elements(owner'.records) :
           \/ r \in Elements(owner.records) /\ r.operation # o
           \/ r = [operation |-> o, state |-> "accepted"]
    BY <1>5, <2>2, <2>3
  <2> QED
    BY <1>1, <1>2, <2>3, <2>4, <2>5, <2>6, <2>7, <2>8 DEF o
<1> QED
  BY <1>8, <1>9

-----------------------------------------------------------------------------
(* What a step does to the owner, and to the rest of the state.            *)

\* Steps that leave the owner's table alone: only the task changes.
LEMMA TaskChanges ==
    ASSUME Types, NEW t \in TaskType, t.operation = owner.task.operation,
           owner.task.phase # "idle", owner' = [owner EXCEPT !.task = t]
    PROVE  /\ owner' \in [alive : BOOLEAN, records : Seq(AnswerType), task : TaskType \cup {Idle}]
           /\ owner'.records = owner.records /\ owner'.task = t /\ owner'.alive = owner.alive
           /\ owner'.task.operation \in Ids(owner'.records)
<1>1. owner \in [alive : BOOLEAN, records : Seq(AnswerType), task : TaskType \cup {Idle}]
  BY DEF Types, OwnerTypes
<1>2. /\ owner' \in [alive : BOOLEAN, records : Seq(AnswerType), task : TaskType \cup {Idle}]
      /\ owner'.records = owner.records /\ owner'.task = t /\ owner'.alive = owner.alive
  BY <1>1
<1>3. owner.task.operation \in Ids(owner.records)
  BY TaskPhase DEF Types, OwnerTypes
<1> QED
  BY <1>2, <1>3

\* The answer to what the handler posted.
LEMMA AnswerArrives ==
    ASSUME Types, NEW ack, NEW copy, NEW answered, AcknowledgementArrives(ack, copy, answered)
    PROVE  /\ owner' \in [alive : BOOLEAN, records : Seq(AnswerType), task : TaskType \cup {Idle}]
           /\ owner'.records = owner.records /\ owner'.alive = owner.alive
           /\ owner'.task.phase = owner.task.phase /\ owner'.task.operation = owner.task.operation
           /\ owner'.task # Idle => owner'.task.operation \in Ids(owner'.records)
           /\ ~owner.alive => owner'.task = Idle
           /\ owner'.task.answer = "ok" =>
                 \/ owner' = owner
                 \/ Posted = ack /\ owner.task.phase \in Posting /\ Current(ack.generation)
           /\ owner' = owner \/ owner.task.phase \in Posting
<1>1. /\ owner \in [alive : BOOLEAN, records : Seq(AnswerType), task : TaskType \cup {Idle}]
      /\ owner.task # Idle => owner.task.operation \in Ids(owner.records)
      /\ ~owner.alive => owner.task = Idle
  BY DEF Types, OwnerTypes
<1>2. CASE ~answered
  <2>1. owner' = owner
    BY <1>2 DEF AcknowledgementArrives
  <2> QED
    BY <1>1, <2>1
<1>3. CASE answered
  <2> DEFINE a == IF Current(ack.generation) THEN "ok" ELSE "rejected"
             t == [owner.task EXCEPT !.answer = a]
  <2>1. AwaitsAnswer /\ Posted = ack /\ owner' = [owner EXCEPT !.task.answer = a]
    BY <1>3 DEF AcknowledgementArrives
  <2>2. owner' = [owner EXCEPT !.task = t]
    BY <1>1, <2>1
  <2>3. owner.task.phase \in Posting /\ owner.task.phase # "idle" /\ owner.alive
    BY <2>1 DEF AwaitsAnswer, Posting
  <2>4. owner.task \in TaskType
    BY <2>3, TaskPhase
  <2>5. t \in TaskType /\ t.operation = owner.task.operation /\ t.phase = owner.task.phase /\ t.answer = a
    BY <2>4 DEF TaskType
  <2> HIDE DEF t, a
  <2>6. /\ owner' \in [alive : BOOLEAN, records : Seq(AnswerType), task : TaskType \cup {Idle}]
        /\ owner'.records = owner.records /\ owner'.task = t /\ owner'.alive = owner.alive
        /\ owner'.task.operation \in Ids(owner'.records)
    BY <2>2, <2>3, <2>5, TaskChanges
  <2>7. a = "ok" => Current(ack.generation)
    BY DEF a
  <2> QED
    BY <2>1, <2>3, <2>5, <2>6, <2>7
<1> QED
  BY <1>2, <1>3

\* The owner after it has begun to execute.
LEMMA ExecuteOwner ==
    ASSUME Types, Execute
    PROVE  /\ owner' \in [alive : BOOLEAN, records : Seq(AnswerType), task : TaskType \cup {Idle}]
           /\ owner'.records = owner.records /\ owner'.alive = owner.alive
           /\ owner'.task.phase = "executing" /\ owner'.task.operation = owner.task.operation
           /\ owner'.task.answer = "none"
           /\ owner'.task.operation \in Ids(owner'.records)
<1> DEFINE t == [Idle EXCEPT !.phase = "executing", !.operation = owner.task.operation]
<1>1. owner.task.phase = "accepting" /\ owner' = [owner EXCEPT !.task = t]
  BY DEF Execute
<1>2. owner.task.phase # "idle" /\ owner.task \in TaskType
  BY <1>1, TaskPhase
<1>3. /\ t \in TaskType /\ t.operation = owner.task.operation
      /\ t.phase = "executing" /\ t.answer = "none"
  <2>1. owner.task.operation \in Operations /\ 0 \in 0 .. RetryAttempts
    BY <1>2, RetryAttemptsAssumption DEF TaskType
  <2>2. t \in TaskType
    BY <2>1 DEF TaskType, Idle
  <2>3. t.operation = owner.task.operation /\ t.phase = "executing" /\ t.answer = "none"
    BY <2>1 DEF Idle
  <2> QED
    BY <2>2, <2>3
<1> HIDE DEF t
<1> QED
  BY <1>1, <1>2, <1>3, TaskChanges

\* Steps in which the owner acknowledges the command it handles.
LEMMA AcknowledgeStep ==
    ASSUME Types, ExecutionEnds \/ AcknowledgeFailed
    PROVE  /\ owner.task \in TaskType /\ owner.alive
           /\ \E phase \in {"completing", "failing"}, state \in {"completed", "failed"} :
                 /\ state = "completed" => owner.task.phase = "executing"
                 /\ Acknowledge(phase, owner.task.operation, state, owner.records)
           /\ UNCHANGED <<operations, pending, registry, stream, due, posted, starts>>
<1>1. owner.task.phase # "idle"
  BY DEF ExecutionEnds, AcknowledgeFailed
<1>2. owner.task \in TaskType /\ owner.alive
  BY <1>1, TaskPhase
<1> QED
  BY <1>2 DEF ExecutionEnds, AcknowledgeFailed

\* The table keeps its operations and its limit.
LEMMA AcknowledgeOwner ==
    ASSUME Types, Limits, NEW phase \in {"completing", "failing"}, NEW state \in {"completed", "failed"},
           owner.task \in TaskType, owner.alive,
           Acknowledge(phase, owner.task.operation, state, owner.records),
           registry' = registry
    PROVE  /\ OwnerTypes' /\ Len(owner'.records) <= OwnerRecords
           /\ Ids(owner'.records) = Ids(owner.records) /\ owner'.alive = owner.alive
           /\ owner'.task.phase = phase /\ owner'.task.operation = owner.task.operation
           /\ owner'.task.answer = "none"
<1>1. /\ owner.task.operation \in Operations /\ owner.task # Idle
      /\ owner.records \in Seq(AnswerType) /\ Unique(owner.records) /\ owner.alive
      /\ owner.task.operation \in Ids(owner.records)
  <2>1. owner.task.phase # "idle" /\ owner.task.operation \in Operations
    BY DEF TaskType, Posting
  <2> QED
    BY <2>1, TaskPhase DEF Types, OwnerTypes
<1>2. phase \in Posting /\ state \in {"accepted", "completed", "failed"}
  BY DEF Posting
<1>3. /\ owner'.records \in Seq(AnswerType) /\ Unique(owner'.records)
      /\ \A x : x \in Ids(owner'.records) <=> x \in Ids(owner.records) \/ x = owner.task.operation
      /\ owner'.alive = owner.alive
      /\ owner'.task.operation = owner.task.operation
      /\ owner'.task.phase = phase /\ owner'.task.answer = "none"
      /\ owner' \in [alive : BOOLEAN, records : Seq(AnswerType), task : TaskType \cup {Idle}]
      /\ wire' \subseteq AckType
  <2>1. owner'.records \in Seq(AnswerType) /\ Unique(owner'.records)
    BY <1>1, <1>2, Acknowledges
  <2>2. \A x : x \in Ids(owner'.records) <=> x \in Ids(owner.records) \/ x = owner.task.operation
    BY <1>1, <1>2, Acknowledges
  <2>3. /\ owner'.alive = owner.alive
        /\ owner'.task.operation = owner.task.operation
        /\ owner'.task.phase = phase /\ owner'.task.answer = "none"
    <3> DEFINE t == [phase |-> phase, operation |-> owner.task.operation, attempt |-> 1, answer |-> "none"]
               r == Append(Without(owner.records, {owner.task.operation}),
                           [operation |-> owner.task.operation, state |-> state])
    <3>1. owner' = [owner EXCEPT !.records = r, !.task = t]
      BY DEF Acknowledge
    <3>2. t.phase = phase /\ t.operation = owner.task.operation /\ t.answer = "none"
      OBVIOUS
    <3> HIDE DEF t, r
    <3>3. owner'.task = t /\ owner'.alive = owner.alive
      BY <3>1 DEF Types, OwnerTypes
    <3> QED
      BY <3>2, <3>3
  <2>4. owner' \in [alive : BOOLEAN, records : Seq(AnswerType), task : TaskType \cup {Idle}]
    BY <1>1, <1>2, Acknowledges
  <2>5. wire' \subseteq AckType
    BY <1>1, <1>2, Acknowledges
  <2> QED
    BY <2>1, <2>2, <2>3, <2>4, <2>5
<1>4. Ids(owner'.records) = Ids(owner.records)
  BY <1>1, <1>3
<1>5. Len(owner'.records) <= Len(owner.records)
  BY <1>1, <1>3, <1>4, FewerIds
<1>6. Len(owner'.records) \in Nat /\ Len(owner.records) \in Nat
  BY <1>1, <1>3
<1>7. OwnerTypes'
  BY <1>1, <1>3 DEF OwnerTypes
<1> QED
  BY <1>3, <1>4, <1>5, <1>6, <1>7, LimitsAssumption DEF Limits

\* The owner after a retry.
LEMMA PostAgainOwner ==
    ASSUME Types, PostAgain
    PROVE  /\ owner' \in [alive : BOOLEAN, records : Seq(AnswerType), task : TaskType \cup {Idle}]
           /\ owner'.records = owner.records /\ owner'.alive = owner.alive /\ owner.alive
           /\ owner'.task.phase = owner.task.phase /\ owner'.task.operation = owner.task.operation
           /\ owner'.task.answer = owner.task.answer
           /\ owner.task.phase # "idle" /\ wire' = wire \cup {Posted} /\ Posted \in AckType
           /\ owner'.task.operation \in Ids(owner'.records)
           /\ UNCHANGED <<operations, pending, registry, stream, due, posted, starts>>
<1> DEFINE t == [owner.task EXCEPT !.attempt = owner.task.attempt + 1]
<1>1. /\ owner' = [owner EXCEPT !.task.attempt = owner.task.attempt + 1]
      /\ wire' = wire \cup {Posted} /\ owner.alive
      /\ owner.task.phase # "idle" /\ owner.task.attempt < RetryAttempts
      /\ UNCHANGED <<operations, pending, registry, stream, due, posted, starts>>
  BY DEF PostAgain, AwaitsAnswer, Posting
<1>2. owner.task \in TaskType /\ owner' = [owner EXCEPT !.task = t]
  BY <1>1, TaskPhase DEF Types, OwnerTypes
<1>3. /\ t \in TaskType /\ t.operation = owner.task.operation /\ t.phase = owner.task.phase
      /\ t.answer = owner.task.answer
  BY <1>1, <1>2, RetryAttemptsAssumption DEF TaskType
<1>4. Posted \in AckType
  BY <1>1, PostedRecord
<1> HIDE DEF t
<1>5. /\ owner' \in [alive : BOOLEAN, records : Seq(AnswerType), task : TaskType \cup {Idle}]
      /\ owner'.records = owner.records /\ owner'.task = t /\ owner'.alive = owner.alive
      /\ owner'.task.operation \in Ids(owner'.records)
  BY <1>1, <1>2, <1>3, TaskChanges
<1> QED
  BY <1>1, <1>3, <1>4, <1>5

\* Every step keeps the owner's table typed and within its limit.
LEMMA OwnerTypesStep ==
    ASSUME Types, Limits, Next
    PROVE  OwnerTypes' /\ Len(owner'.records) <= OwnerRecords
<1>1. /\ owner \in [alive : BOOLEAN, records : Seq(AnswerType), task : TaskType \cup {Idle}]
      /\ Unique(owner.records) /\ wire \subseteq AckType
      /\ owner.task # Idle => owner.task.operation \in Ids(owner.records)
      /\ ~owner.alive => owner.task = Idle /\ registry.generation < MaxGenerations
      /\ Len(owner.records) <= OwnerRecords
      /\ registry \in [connected : BOOLEAN, generation : 1 .. MaxGenerations, accepting : BOOLEAN]
  BY DEF Types, OwnerTypes, OtherTypes, Limits
<1> DEFINE Goal == OwnerTypes' /\ Len(owner'.records) <= OwnerRecords
<1>2. ASSUME UNCHANGED <<owner, wire>>, registry'.generation = registry.generation
      PROVE  Goal
  BY <1>1, <1>2 DEF OwnerTypes
<1>3. CASE OwnerNext
  <2>1. CASE OpenStream \/ ReadCancelled \/ ReadLateCommand
    BY <1>2, <2>1 DEF OpenStream, ReadCancelled, ReadLateCommand, ReadFrame
  <2>2. CASE DispatchCommand
    BY <2>2, DispatchOwner
  <2>3. CASE Execute
    <3>1. registry' = registry /\ wire' = wire /\ owner.alive
      BY <2>3 DEF Execute, PostSucceeded
    <3> QED
      BY <1>1, <2>3, <3>1, ExecuteOwner DEF OwnerTypes
  <2>4. CASE ExecutionEnds \/ AcknowledgeFailed
    BY <2>4, AcknowledgeStep, AcknowledgeOwner
  <2>5. CASE HandlerEnds \/ LoopFails
    <3>1. owner' = [owner EXCEPT !.task = Idle] /\ wire' = wire /\ registry' = registry
      BY <2>5 DEF HandlerEnds, LoopFails
    <3>2. /\ owner' \in [alive : BOOLEAN, records : Seq(AnswerType), task : TaskType \cup {Idle}]
          /\ owner'.records = owner.records /\ owner'.task = Idle /\ owner'.alive = owner.alive
      BY <1>1, <3>1
    <3> QED
      BY <1>1, <3>1, <3>2 DEF OwnerTypes
  <2>6. CASE Heartbeat
    BY <1>1, <1>2, <2>6 DEF Heartbeat
  <2> QED
    BY <1>3, <2>1, <2>2, <2>3, <2>4, <2>5, <2>6 DEF OwnerNext
<1>4. CASE HelperNext
  <2>1. CASE BeginDrain
    BY <1>1, <1>2, <2>1 DEF BeginDrain
  <2>2. CASE LookupOperation \/ \E o \in Operations : HandleCommand(o) \/ ExpireOperation(o)
    BY <1>2, <2>2 DEF LookupOperation, HandleCommand, ExpireOperation
  <2>3. ASSUME NEW ack \in wire, NEW copy, NEW answered, AcknowledgementArrives(ack, copy, answered)
        PROVE  Goal
    <3>1. wire' \subseteq wire /\ registry' = registry
      BY <2>3 DEF AcknowledgementArrives
    <3> QED
      BY <1>1, <2>3, <3>1, AnswerArrives DEF OwnerTypes
  <2> QED
    BY <1>4, <2>1, <2>2, <2>3 DEF HelperNext
<1>5. CASE Environment
  <2>1. CASE \E o \in Operations : DeadlinePasses(o)
    BY <1>2, <2>1 DEF DeadlinePasses
  <2>2. CASE \E ack \in wire : AcknowledgementLost(ack)
    BY <1>1, <2>2 DEF AcknowledgementLost, OwnerTypes
  <2>3. CASE PostAgain
    BY <1>1, <2>3, PostAgainOwner DEF OwnerTypes
  <2>4. CASE StreamBreaks
    BY <1>2, <2>4 DEF StreamBreaks
  <2>5. CASE Lapse
    BY <1>1, <1>2, <2>5 DEF Lapse
  <2>6. CASE OwnerStops \/ OwnerRegisters
    <3>0. PICK alive \in BOOLEAN : owner' = [alive |-> alive, records |-> <<>>, task |-> Idle]
      BY <2>6 DEF OwnerStops, OwnerRegisters, NewProcess
    <3>1. /\ owner'.records = <<>> /\ owner'.task = Idle /\ wire' = wire
          /\ owner' \in [alive : BOOLEAN, records : Seq(AnswerType), task : TaskType \cup {Idle}]
      BY <2>6, <3>0 DEF OwnerStops, OwnerRegisters
    <3>2. Unique(<<>>) /\ Len(<<>>) <= OwnerRecords
      BY LimitsAssumption DEF Unique
    <3>3. ~owner'.alive => registry'.generation < MaxGenerations
      BY <2>6 DEF OwnerStops, OwnerRegisters, NewProcess
    <3> QED
      BY <1>1, <3>1, <3>2, <3>3 DEF OwnerTypes
  <2> QED
    BY <1>5, <2>1, <2>2, <2>3, <2>4, <2>5, <2>6 DEF Environment
<1> QED
  BY <1>3, <1>4, <1>5 DEF Next

\* Every step keeps the rest typed.
LEMMA OtherTypesStep ==
    ASSUME Types, Next
    PROVE  OtherTypes'
<1>1. /\ registry \in [connected : BOOLEAN, generation : 1 .. MaxGenerations, accepting : BOOLEAN]
      /\ due \subseteq posted /\ posted \subseteq Operations
      /\ starts \in [Operations -> Nat] /\ faults \in 0 .. MaxFaults
  BY DEF Types, OtherTypes
<1>2. Fault => faults' \in 0 .. MaxFaults
  BY <1>1, BoundsAssumption DEF Fault
<1>3. CASE OwnerNext
  <2>1. CASE Execute
    <3>1. owner.task.operation \in Operations
      BY <2>1, TaskPhase DEF Execute, TaskType
    <3> QED
      BY <1>1, <2>1, <3>1 DEF Execute, OtherTypes
  <2>2. CASE Heartbeat
    BY <1>1, <2>2 DEF Heartbeat, OtherTypes
  <2>3. CASE AcknowledgeFailed \/ LoopFails
    BY <1>1, <1>2, <2>3 DEF AcknowledgeFailed, LoopFails, PostFailed, OtherTypes
  <2>4. CASE OpenStream \/ ReadCancelled \/ ReadLateCommand \/ DispatchCommand \/ ExecutionEnds \/ HandlerEnds
    BY <1>1, <2>4 DEF OpenStream, ReadCancelled, ReadLateCommand, DispatchCommand, ReadFrame,
                      ExecutionEnds, HandlerEnds, OtherTypes
  <2> QED
    BY <1>3, <2>1, <2>2, <2>3, <2>4 DEF OwnerNext
<1>4. CASE HelperNext
  <2>1. CASE BeginDrain
    BY <1>1, <2>1 DEF BeginDrain, OtherTypes
  <2>2. CASE LookupOperation \/ \E o \in Operations : HandleCommand(o) \/ ExpireOperation(o)
    BY <1>1, <2>2 DEF LookupOperation, HandleCommand, ExpireOperation, OtherTypes
  <2>3. CASE \E ack \in wire, copy, answered \in BOOLEAN : AcknowledgementArrives(ack, copy, answered)
    BY <1>1, <1>2, <2>3 DEF AcknowledgementArrives, OtherTypes
  <2> QED
    BY <1>4, <2>1, <2>2, <2>3 DEF HelperNext
<1>5. CASE Environment
  <2>1. CASE PostAgain \/ StreamBreaks \/ \E ack \in wire : AcknowledgementLost(ack)
    BY <1>1, <1>2, <2>1 DEF PostAgain, StreamBreaks, AcknowledgementLost, OtherTypes
  <2>2. CASE Lapse
    BY <1>1, <1>2, <2>2 DEF Lapse, OtherTypes
  <2>3. CASE OwnerStops \/ \E o \in Operations : DeadlinePasses(o)
    BY <1>1, <2>3 DEF OwnerStops, DeadlinePasses, OtherTypes
  <2>4. CASE OwnerRegisters
    <3>1. registry.generation + 1 \in 1 .. MaxGenerations
      BY <1>1, <2>4, BoundsAssumption DEF OwnerRegisters, Types, OwnerTypes
    <3> QED
      BY <1>1, <2>4, <3>1 DEF OwnerRegisters, OtherTypes
  <2> QED
    BY <1>5, <2>1, <2>2, <2>3, <2>4 DEF Environment
<1> QED
  BY <1>3, <1>4, <1>5 DEF Next

-----------------------------------------------------------------------------
(* The queue of commands, and why the owner takes none twice.              *)

\* Every command is once among the pending ones and once in the stream; the
\* one being handled is not in the stream, and its judged one not pending.
Queue ==
    /\ ~stream.open => stream.frames = <<>>
    /\ ~owner.alive => ~stream.open
    /\ Unique(pending) /\ Ids(pending) \subseteq posted
    /\ OneEach(stream.frames) /\ Commands(stream.frames) \subseteq posted
    /\ Ids(owner.records) \subseteq posted
    /\ \A x \in Commands(stream.frames) : ~Handling(x)
    /\ owner.task.answer = "ok" /\ owner.task.phase # "accepting" =>
          owner.task.operation \notin Ids(pending)

\* On an open stream every pending command is in the stream or in hand.
Covered ==
    stream.open => \A x \in Ids(pending) \ due : Handling(x) \/ x \in Commands(stream.frames)

\* The stream has the commands in the order of the pending ones.
InOrder ==
    \A x, y \in Operations :
        Before(pending, x, y) /\ x \notin due /\ y \in Commands(stream.frames) =>
            Handling(x) \/ CommandBefore(stream.frames, x, y)

\* x was dispatched to the owner, or started by one.
Begun(x) == starts[x] > 0 \/ Handling(x)

\* Nothing that is not due comes before a begun command, and while it is in
\* the queue the owner remembers it.
First ==
    owner.alive => \A x \in Operations \ due : Begun(x) =>
        /\ x \in Ids(pending) \cup Commands(stream.frames) => x \in Ids(owner.records)
        /\ \A y \in Operations \ due :
               ~Before(pending, y, x) /\ ~CommandBefore(stream.frames, y, x)

QueueInv == Queue /\ Covered /\ InOrder /\ First

LEMMA IdleTask == Idle.phase = "idle" /\ Idle.answer = "none"
  BY DEF Idle

LEMMA BeforeIds ==
    ASSUME NEW s, NEW x, NEW y, Before(s, x, y)
    PROVE  x \in Ids(s) /\ y \in Ids(s)
  BY DEF Before, Ids

\* A step that takes nothing from the stream and adds nothing to the queue.
QueueSettles ==
    /\ Unique(pending') /\ Ids(pending') \subseteq Ids(pending)
    /\ \A x, y \in Operations : Before(pending', x, y) => Before(pending, x, y)
    /\ stream'.open = stream.open /\ (~stream'.open => stream'.frames = <<>>)
    /\ Commands(stream'.frames) = Commands(stream.frames) /\ OneEach(stream'.frames)
    /\ \A x, y \in Operations :
           CommandBefore(stream'.frames, x, y) <=> CommandBefore(stream.frames, x, y)

\* The owner begins nothing, and ends nothing that is pending.
OwnerSettles ==
    /\ owner'.alive = owner.alive /\ Ids(owner'.records) = Ids(owner.records)
    /\ \A x \in Operations : Handling(x)' => Handling(x)
    /\ \A x \in Ids(pending') : Handling(x) => Handling(x)'
    /\ \A x \in Operations : starts'[x] > 0 => Begun(x)
    /\ owner'.task.answer = "ok" /\ owner'.task.phase # "accepting" =>
          owner'.task.operation \notin Ids(pending')

Settles == posted' = posted /\ due \subseteq due' /\ QueueSettles /\ OwnerSettles

\* Such a step keeps the queue's invariant.
LEMMA SettlesKeeps ==
    ASSUME QueueInv, posted \subseteq Operations, Settles
    PROVE  QueueInv'
<1>1. \A x \in Operations : Begun(x)' => Begun(x)
  BY DEF Settles, QueueSettles, OwnerSettles, Begun
<1>2. Commands(stream.frames) \subseteq Operations
  BY DEF Commands
<1>3. Queue'
  BY <1>2 DEF Settles, QueueSettles, OwnerSettles, QueueInv, Queue
<1>4. Covered'
  BY DEF Settles, QueueSettles, OwnerSettles, QueueInv, Covered
<1>5. InOrder'
  <2> SUFFICES ASSUME NEW x \in Operations, NEW y \in Operations,
                      Before(pending', x, y), x \notin due', y \in Commands(stream'.frames)
               PROVE  Handling(x)' \/ CommandBefore(stream'.frames, x, y)
    BY DEF InOrder
  <2>1. x \in Ids(pending')
    BY BeforeIds
  <2>2. Before(pending, x, y) /\ x \notin due /\ y \in Commands(stream.frames)
    BY DEF Settles, QueueSettles, OwnerSettles
  <2>3. Handling(x) \/ CommandBefore(stream.frames, x, y)
    BY <2>2 DEF QueueInv, InOrder
  <2> QED
    BY <2>1, <2>3 DEF Settles, QueueSettles, OwnerSettles
<1>6. First'
  <2> SUFFICES ASSUME owner'.alive, NEW x \in Operations \ due', Begun(x)'
               PROVE  /\ x \in Ids(pending') \cup Commands(stream'.frames) => x \in Ids(owner'.records)
                      /\ \A y \in Operations \ due' :
                            ~Before(pending', y, x) /\ ~CommandBefore(stream'.frames, y, x)
    BY DEF First
  <2>1. owner.alive /\ x \notin due /\ Begun(x)
    BY <1>1 DEF Settles, QueueSettles, OwnerSettles
  <2>2. /\ x \in Ids(pending) \cup Commands(stream.frames) => x \in Ids(owner.records)
        /\ \A y \in Operations \ due :
              ~Before(pending, y, x) /\ ~CommandBefore(stream.frames, y, x)
    BY <2>1 DEF QueueInv, First
  <2> QED
    BY <2>2 DEF Settles, QueueSettles, OwnerSettles
<1> QED
  BY <1>3, <1>4, <1>5, <1>6 DEF QueueInv

\* The stream is closed; the owner goes on, ends its task or is replaced.
LEMMA ClosedKeeps ==
    ASSUME QueueInv, posted' = posted, due' = due, starts' = starts,
           pending' = pending \/ pending' = <<>>,
           ~stream'.open, stream'.frames = <<>>,
           owner' = owner \/ owner'.task = Idle,
           \/ owner'.alive = owner.alive /\ owner'.records = owner.records
           \/ owner'.records = <<>> /\ (owner'.alive => pending' = <<>>)
    PROVE  QueueInv'
<1>1. /\ Ids(<<>>) = {} /\ Unique(<<>>) /\ OneEach(<<>>) /\ Commands(<<>>) = {}
      /\ \A x, y : ~Before(<<>>, x, y) /\ ~CommandBefore(<<>>, x, y)
  BY DEF Ids, Unique, OneEach, Commands, Before, CommandBefore
<1>2. \A x : Handling(x)' => Handling(x)
  BY IdleTask DEF Handling
<1>3. owner'.task.answer = "ok" /\ owner'.task.phase # "accepting" =>
        owner'.task.operation \notin Ids(pending')
  BY <1>1, IdleTask DEF QueueInv, Queue
<1>4. Queue'
  BY <1>1, <1>3 DEF QueueInv, Queue
<1>5. Covered' /\ InOrder'
  BY <1>1 DEF Covered, InOrder
<1>6. First'
  BY <1>1, <1>2 DEF QueueInv, First, Begun
<1> QED
  BY <1>4, <1>5, <1>6 DEF QueueInv

\* A new command is the last of the queue.
LEMMA HandleKeeps ==
    ASSUME Types, QueueInv, NEW o \in Operations, HandleCommand(o),
           \A x \in Operations : starts[x] > 0 => x \in posted,
           owner.task.phase # "idle" => owner.task.operation \in posted
    PROVE  QueueInv'
<1>1. pending \in Seq(CommandType) /\ stream.frames \in Seq(FrameType) /\ stream.open \in BOOLEAN
  BY DEF Types, QueueTypes
<1>2. /\ pending' = Append(pending, [operation |-> o])
      /\ stream'.open = stream.open
      /\ IF stream.open THEN stream'.frames = stream.frames \o <<Command(o)>>
         ELSE stream'.frames = stream.frames
  BY HandleQueue
<1>3. o \notin posted /\ posted' = posted \cup {o} /\ UNCHANGED <<owner, due, starts>>
  BY DEF HandleCommand
<1>4. [operation |-> o] \in CommandType
  BY DEF CommandType
<1>5. o \notin Ids(pending) /\ o \notin Commands(stream.frames)
  BY <1>3 DEF QueueInv, Queue
<1>6. /\ Ids(pending') = Ids(pending) \cup {o} /\ Unique(pending')
      /\ \A x, y : Before(pending', x, y) => Before(pending, x, y) \/ (x \in Ids(pending) /\ y = o)
  BY <1>1, <1>2, <1>4, <1>5, AppendElements DEF QueueInv, Queue
<1>7. ~Begun(o) /\ ~Handling(o)
  BY <1>3 DEF Begun, Handling, Types, OtherTypes
<1>8. \A x : (Handling(x)' <=> Handling(x)) /\ (Begun(x)' <=> Begun(x))
  BY <1>3 DEF Handling, Begun
<1>9. /\ \A x : x \in Commands(stream'.frames) <=> x \in Commands(stream.frames) \/ (stream.open /\ x = o)
      /\ \A x, y \in Operations : CommandBefore(stream.frames, x, y) => CommandBefore(stream'.frames, x, y)
      /\ stream.open => \A x \in Commands(stream.frames) : CommandBefore(stream'.frames, x, o)
      /\ \A x, y \in Operations : CommandBefore(stream'.frames, x, y) =>
            CommandBefore(stream.frames, x, y) \/ (x \in Commands(stream.frames) /\ y = o)
      /\ OneEach(stream'.frames)
  <2>1. OneEach(stream.frames)
    BY DEF QueueInv, Queue
  <2>2. CASE stream.open
    <3>1. stream'.frames = stream.frames \o <<Command(o)>>
      BY <1>2, <2>2
    <3> QED
      BY <1>1, <1>5, <2>1, <2>2, <3>1, CommandWritten
  <2>3. CASE ~stream.open
    BY <1>2, <2>1, <2>3
  <2> QED
    BY <2>2, <2>3
<1>10. Queue'
  <2>1. owner.task.answer = "ok" => owner.task.operation # o
    BY <1>7, TaskPhase, IdleTask DEF Handling
  <2>2. owner.task.answer = "ok" /\ owner.task.phase # "accepting" => owner.task.operation \notin Ids(pending')
    BY <1>6, <2>1 DEF QueueInv, Queue
  <2>3. \A x \in Commands(stream'.frames) : ~Handling(x)'
    BY <1>7, <1>8, <1>9 DEF QueueInv, Queue
  <2> QED
    BY <1>2, <1>3, <1>5, <1>6, <1>9, <2>2, <2>3 DEF QueueInv, Queue
<1>11. Covered'
  BY <1>2, <1>3, <1>6, <1>8, <1>9 DEF QueueInv, Covered
<1>12. InOrder'
  <2> SUFFICES ASSUME NEW x \in Operations, NEW y \in Operations,
                      Before(pending', x, y), x \notin due', y \in Commands(stream'.frames)
               PROVE  Handling(x)' \/ CommandBefore(stream'.frames, x, y)
    BY DEF InOrder
  <2>1. CASE y = o
    <3>1. stream.open
      BY <1>5, <1>9, <2>1
    <3>2. ~Before(pending, x, o)
      BY <1>5, BeforeIds
    <3>3. x \in Ids(pending) \ due
      BY <1>3, <1>6, <2>1, <3>2
    <3> QED
      BY <1>8, <1>9, <2>1, <3>1, <3>3 DEF QueueInv, Covered
  <2>2. CASE y # o
    <3>1. Before(pending, x, y) /\ y \in Commands(stream.frames) /\ x \notin due
      BY <1>3, <1>6, <1>9, <2>2
    <3> QED
      BY <1>8, <1>9, <3>1 DEF QueueInv, InOrder
  <2> QED
    BY <2>1, <2>2
<1>13. First'
  <2> SUFFICES ASSUME owner'.alive, NEW x \in Operations \ due', Begun(x)'
               PROVE  /\ x \in Ids(pending') \cup Commands(stream'.frames) => x \in Ids(owner'.records)
                      /\ \A y \in Operations \ due' :
                            ~Before(pending', y, x) /\ ~CommandBefore(stream'.frames, y, x)
    BY DEF First
  <2>1. owner.alive /\ x \notin due /\ Begun(x) /\ x # o
    BY <1>3, <1>7, <1>8
  <2>2. /\ x \in Ids(pending) \cup Commands(stream.frames) => x \in Ids(owner.records)
        /\ \A y \in Operations \ due :
              ~Before(pending, y, x) /\ ~CommandBefore(stream.frames, y, x)
    BY <2>1 DEF QueueInv, First
  <2> QED
    BY <1>3, <1>6, <1>9, <2>1, <2>2
<1> QED
  BY <1>10, <1>11, <1>12, <1>13 DEF QueueInv

\* A new stream replays what is pending and not due, in its order.
LEMMA OpenKeeps ==
    ASSUME Types, QueueInv, OpenStream
    PROVE  QueueInv'
<1>1. pending \in Seq(CommandType) /\ Unique(pending)
  BY DEF Types, QueueTypes, QueueInv, Queue
<1>2. /\ pending' = Without(pending, due)
      /\ stream'.open /\ OneEach(stream'.frames) /\ Commands(stream'.frames) = Ids(pending')
      /\ \A x, y \in Operations : CommandBefore(stream'.frames, x, y) <=> Before(pending', x, y)
  BY <1>1, OpenQueue
<1>3. Ids(pending') = Ids(pending) \ due /\ Unique(pending')
  BY <1>1, <1>2, WithoutElements
<1>4. \A x, y : Before(pending', x, y) => Before(pending, x, y) /\ x \notin due
  BY <1>1, <1>2, WithoutOrder
<1>5. owner.alive /\ owner.task = Idle /\ UNCHANGED <<owner, due, posted, starts>>
  BY DEF OpenStream
<1>6. Idle.phase = "idle" /\ Idle.answer = "none"
  BY IdleTask
<1>7. \A x : ~Handling(x) /\ ~Handling(x)' /\ (Begun(x)' <=> Begun(x))
  BY <1>5, <1>6 DEF Handling, Begun
<1>8. Queue'
  BY <1>2, <1>3, <1>5, <1>6, <1>7 DEF QueueInv, Queue
<1>9. Covered' /\ InOrder'
  BY <1>2, <1>3, <1>5 DEF Covered, InOrder
<1>10. First'
  BY <1>2, <1>3, <1>4, <1>5, <1>7 DEF QueueInv, First
<1> QED
  BY <1>8, <1>9, <1>10 DEF QueueInv

\* Reading a frame takes its command from the stream.
LEMMA ReadCommandQueue ==
    ASSUME Types, Queue, ReadFrame("command")
    PROVE  LET o == Head(stream.frames).operation
           IN  /\ o \in Commands(stream.frames) /\ OneEach(stream'.frames)
               /\ stream.open /\ stream'.open /\ pending' = pending
               /\ Commands(stream'.frames) = Commands(stream.frames) \ {o}
               /\ \A x, y \in Operations :
                     CommandBefore(stream.frames, x, y) /\ x # o => CommandBefore(stream'.frames, x, y)
               /\ \A x, y \in Operations :
                     CommandBefore(stream'.frames, x, y) => CommandBefore(stream.frames, x, y)
               /\ \A y \in Commands(stream.frames) \ {o} : CommandBefore(stream.frames, o, y)
               /\ \A x \in Operations : ~ CommandBefore(stream.frames, x, o)
<1>1. /\ pending' = pending /\ stream.frames # <<>> /\ Head(stream.frames).kind = "command"
      /\ stream'.open = stream.open /\ stream'.frames = Tail(stream.frames)
  BY ReadQueue
<1>2. stream.frames \in Seq(FrameType) /\ OneEach(stream.frames) /\ stream.open
  BY <1>1 DEF Types, QueueTypes, Queue
<1> QED
  BY <1>1, <1>2, HeadCommand

\* Reading a command that is due: it keeps nothing else from its turn.
LEMMA ReadLateKeeps ==
    ASSUME Types, QueueInv, ReadLateCommand
    PROVE  QueueInv'
<1> DEFINE o == Head(stream.frames).operation
<1>1. ReadFrame("command") /\ o \in due /\ UNCHANGED <<owner, due, posted, starts>> /\ Queue
  BY DEF ReadLateCommand, ReadFrame, QueueInv
<1>2. /\ o \in Commands(stream.frames) /\ OneEach(stream'.frames)
      /\ stream.open /\ stream'.open /\ pending' = pending
      /\ Commands(stream'.frames) = Commands(stream.frames) \ {o}
      /\ \A x, y \in Operations :
            CommandBefore(stream.frames, x, y) /\ x # o => CommandBefore(stream'.frames, x, y)
      /\ \A x, y \in Operations :
            CommandBefore(stream'.frames, x, y) => CommandBefore(stream.frames, x, y)
  BY <1>1, ReadCommandQueue
<1> HIDE DEF o
<1>3. \A x : (Handling(x)' <=> Handling(x)) /\ (Begun(x)' <=> Begun(x))
  BY <1>1 DEF Handling, Begun
<1>4. Queue'
  BY <1>1, <1>2, <1>3 DEF Queue
<1>5. Covered'
  BY <1>1, <1>2, <1>3 DEF QueueInv, Covered
<1>6. InOrder'
  BY <1>1, <1>2, <1>3 DEF QueueInv, InOrder
<1>7. First'
  BY <1>1, <1>2, <1>3 DEF QueueInv, First
<1> QED
  BY <1>4, <1>5, <1>6, <1>7 DEF QueueInv

\* A command that is new to the owner was not started before, and the
\* commands before it in the queue are due.
LEMMA DispatchOrder ==
    ASSUME Types, QueueInv, ReadFrame("command"), Head(stream.frames).operation \notin due
    PROVE  LET o == Head(stream.frames).operation
           IN  /\ \A y \in Operations \ due : ~Before(pending, y, o)
               /\ starts[o] > 0 => o \in Ids(owner.records)
               /\ o \notin Ids(owner.records) =>
                     \A x \in Operations \ due :
                         Begun(x) => x \notin Ids(pending) \cup Commands(stream.frames)
<1> DEFINE o == Head(stream.frames).operation
<1>1. /\ o \in Commands(stream.frames) /\ stream.open
      /\ \A y \in Commands(stream.frames) \ {o} : CommandBefore(stream.frames, o, y)
      /\ \A x \in Operations : ~ CommandBefore(stream.frames, x, o)
  BY ReadCommandQueue DEF QueueInv
<1>2. owner.alive /\ owner.task = Idle /\ o \notin due
  BY DEF ReadFrame
<1> HIDE DEF o
<1>3. o \in Operations \ due
  BY <1>1, <1>2 DEF Commands
<1>4. \A x : ~Handling(x)
  BY <1>2, IdleTask DEF Handling
<1>5. \A y \in Operations \ due : ~Before(pending, y, o)
  BY <1>1, <1>3, <1>4 DEF QueueInv, InOrder
<1>6. starts[o] > 0 => o \in Ids(owner.records)
  BY <1>1, <1>2, <1>3 DEF QueueInv, First, Begun
<1>7. ASSUME o \notin Ids(owner.records), NEW x \in Operations \ due, Begun(x)
      PROVE  x \notin Ids(pending) \cup Commands(stream.frames)
  <2>1. x # o
    BY <1>4, <1>6, <1>7 DEF Begun
  <2>2. ~CommandBefore(stream.frames, o, x)
    BY <1>2, <1>3, <1>7 DEF QueueInv, First
  <2>3. x \notin Commands(stream.frames)
    BY <1>1, <2>1, <2>2
  <2>4. x \notin Ids(pending)
    BY <1>1, <1>4, <2>3 DEF QueueInv, Covered
  <2> QED
    BY <2>3, <2>4
<1> QED
  BY <1>5, <1>6, <1>7 DEF o

\* A dispatch: the command is first in its turn, and what the owner's table
\* lost for it is no longer in the queue.
LEMMA DispatchKeeps ==
    ASSUME Types, Limits, QueueInv, DispatchCommand
    PROVE  QueueInv'
<1> DEFINE o == Head(stream.frames).operation
<1>1. /\ ReadFrame("command") /\ o \in Operations \ due
      /\ owner'.alive = owner.alive
      /\ o \in Ids(owner'.records)
      /\ owner'.task.operation = o /\ owner'.task.answer = "none"
      /\ owner'.task.phase \in {"reposting", "accepting"}
      /\ \/ /\ o \in Ids(owner.records)
            /\ Elements(owner'.records) \subseteq Elements(owner.records)
            /\ Ids(owner.records) \ due \subseteq Ids(owner'.records)
         \/ /\ o \notin Ids(owner.records)
            /\ \A r \in Elements(owner'.records) :
                  \/ r \in Elements(owner.records) /\ r.operation # o
                  \/ r = [operation |-> o, state |-> "accepted"]
  BY DispatchOwner
<1>2. UNCHANGED <<due, posted, starts>> /\ owner.alive /\ owner.task = Idle
  BY <1>1 DEF ReadFrame
<1>3. /\ o \in Commands(stream.frames) /\ OneEach(stream'.frames)
      /\ stream.open /\ stream'.open /\ pending' = pending
      /\ Commands(stream'.frames) = Commands(stream.frames) \ {o}
      /\ \A x, y \in Operations :
            CommandBefore(stream.frames, x, y) /\ x # o => CommandBefore(stream'.frames, x, y)
      /\ \A x, y \in Operations :
            CommandBefore(stream'.frames, x, y) => CommandBefore(stream.frames, x, y)
      /\ \A x \in Operations : ~ CommandBefore(stream.frames, x, o)
  BY <1>1, ReadCommandQueue DEF QueueInv
<1>4. /\ \A y \in Operations \ due : ~Before(pending, y, o)
      /\ o \notin Ids(owner.records) =>
            \A x \in Operations \ due :
                Begun(x) => x \notin Ids(pending) \cup Commands(stream.frames)
  BY <1>1, DispatchOrder
<1> HIDE DEF o
<1>5. \A x : ~Handling(x) /\ (Handling(x)' <=> x = o)
  BY <1>1, <1>2, IdleTask DEF Handling
<1>6. \A x : Begun(x)' => Begun(x) \/ x = o
  BY <1>2, <1>5 DEF Begun
<1>7. Ids(owner'.records) \subseteq posted
  <2>1. o \in posted /\ Ids(owner.records) \subseteq posted
    BY <1>3 DEF QueueInv, Queue
  <2>2. ASSUME NEW r \in Elements(owner'.records) PROVE r.operation \in posted
    BY <1>1, <2>1, IdsOfElements
  <2> QED
    BY <2>2, IdsOfElements
<1>8. Queue'
  BY <1>1, <1>2, <1>3, <1>5, <1>7 DEF QueueInv, Queue
<1>9. Covered'
  BY <1>2, <1>3, <1>5 DEF QueueInv, Covered
<1>10. InOrder'
  BY <1>2, <1>3, <1>5 DEF QueueInv, InOrder
<1>11. First'
  <2> SUFFICES ASSUME NEW x \in Operations \ due, Begun(x)'
               PROVE  /\ x \in Ids(pending') \cup Commands(stream'.frames) => x \in Ids(owner'.records)
                      /\ \A y \in Operations \ due :
                            ~Before(pending', y, x) /\ ~CommandBefore(stream'.frames, y, x)
    BY <1>2 DEF First
  <2>1. CASE x = o
    BY <1>1, <1>3, <1>4, <2>1
  <2>2. CASE x # o
    <3>1. Begun(x)
      BY <1>6, <2>2
    <3>2. /\ x \in Ids(pending) \cup Commands(stream.frames) => x \in Ids(owner.records)
          /\ \A y \in Operations \ due :
                ~Before(pending, y, x) /\ ~CommandBefore(stream.frames, y, x)
      BY <1>2, <3>1 DEF QueueInv, First
    <3> QED
      BY <1>1, <1>3, <1>4, <3>1, <3>2
  <2> QED
    BY <2>1, <2>2
<1> QED
  BY <1>8, <1>9, <1>10, <1>11 DEF QueueInv

-----------------------------------------------------------------------------
(* Every step keeps the queue's invariant.                                 *)

\* No operation was started twice; one that waits to be started never was.
Once ==
    /\ \A o \in Operations : starts[o] <= 1 /\ (starts[o] > 0 => o \in posted)
    /\ owner.task.phase = "accepting" => starts[owner.task.operation] = 0
    /\ owner.task.phase = "executing" =>
          starts[owner.task.operation] = 1 /\ owner.task.answer = "none"

\* Steps that settle the queue.
LEMMA QueueAlone ==
    ASSUME Queue, UNCHANGED <<pending, stream>>
    PROVE  QueueSettles
  BY DEF Queue, QueueSettles

LEMMA WithoutSettles ==
    ASSUME Types, Queue, NEW ids, pending' = Without(pending, ids), UNCHANGED stream
    PROVE  QueueSettles
<1>1. pending \in Seq(CommandType) /\ Unique(pending)
  BY DEF Types, QueueTypes, Queue
<1>2. Unique(pending') /\ Ids(pending') \subseteq Ids(pending)
  BY <1>1, WithoutElements
<1>3. \A x, y : Before(pending', x, y) => Before(pending, x, y)
  BY <1>1, WithoutOrder
<1> QED
  BY <1>2, <1>3 DEF Queue, QueueSettles

LEMMA CancelSettles ==
    ASSUME Types, Queue, NEW f \in Seq(RecordType), Cancel(f)
    PROVE  QueueSettles
<1>1. /\ pending \in Seq(CommandType) /\ Unique(pending)
      /\ stream.frames \in Seq(FrameType) /\ OneEach(stream.frames)
  BY DEF Types, QueueTypes, Queue
<1>2. /\ pending' = pending \/ pending' = Without(pending, Ids(f))
      /\ stream'.open = stream.open
      /\ stream'.frames = stream.frames \/ (stream.open /\ stream'.frames = stream.frames \o Cancelled(f))
  BY CancelQueue
<1>3. /\ Unique(pending') /\ Ids(pending') \subseteq Ids(pending)
      /\ \A x, y \in Operations : Before(pending', x, y) => Before(pending, x, y)
  <2>1. CASE pending' = pending
    BY <1>1, <2>1
  <2>2. CASE pending' = Without(pending, Ids(f))
    BY <1>1, <2>2, WithoutElements, WithoutOrder
  <2> QED
    BY <1>2, <2>1, <2>2
<1>4. /\ Commands(stream'.frames) = Commands(stream.frames) /\ OneEach(stream'.frames)
      /\ \A x, y \in Operations :
            CommandBefore(stream'.frames, x, y) <=> CommandBefore(stream.frames, x, y)
  <2>1. CASE stream'.frames = stream.frames
    BY <1>1, <2>1
  <2>2. CASE stream'.frames = stream.frames \o Cancelled(f)
    BY <1>1, <2>2, CancelledFrames, OthersWritten
  <2> QED
    BY <1>2, <2>1, <2>2
<1>5. ~stream'.open => stream'.frames = <<>>
  BY <1>2 DEF Queue
<1> QED
  BY <1>2, <1>3, <1>4, <1>5 DEF QueueSettles

LEMMA ReadCancelledSettles ==
    ASSUME Types, Queue, ReadCancelled
    PROVE  QueueSettles
<1>1. /\ pending' = pending
      /\ stream.frames # <<>> /\ Head(stream.frames).kind = "command.cancelled"
      /\ stream'.open = stream.open /\ stream'.frames = Tail(stream.frames)
  BY ReadQueue DEF ReadCancelled
<1>2. stream.frames \in Seq(FrameType) /\ OneEach(stream.frames)
  BY DEF Types, QueueTypes, Queue
<1>3. /\ Commands(stream'.frames) = Commands(stream.frames) /\ OneEach(stream'.frames)
      /\ \A x, y \in Operations :
            CommandBefore(stream'.frames, x, y) <=> CommandBefore(stream.frames, x, y)
  BY <1>1, <1>2, HeadOther
<1>4. stream'.open
  BY <1>1 DEF Queue, Types, QueueTypes
<1> QED
  BY <1>1, <1>3, <1>4 DEF Queue, QueueSettles

\* Steps that leave the owner to its task.
LEMMA OwnerAlone ==
    ASSUME Queue, QueueSettles, UNCHANGED <<owner, starts>>
    PROVE  OwnerSettles
  BY DEF Queue, QueueSettles, OwnerSettles, Handling, Begun

\* The owner goes on with the command it handles.
LEMMA SameCommand ==
    ASSUME Types, Queue, UNCHANGED <<pending, starts>>,
           owner'.alive = owner.alive, Ids(owner'.records) = Ids(owner.records),
           owner.task.phase # "idle", owner'.task.phase # "idle",
           owner'.task.operation = owner.task.operation,
           \/ owner'.task.answer = "none"
           \/ owner'.task.answer = owner.task.answer /\ owner'.task.phase = owner.task.phase
    PROVE  OwnerSettles
  BY DEF Queue, OwnerSettles, Handling, Begun

\* The answer to an acknowledgement: after a verdict the command is gone.
LEMMA AnswerSettles ==
    ASSUME Types, Queue, Answers, NEW ack, NEW copy, NEW answered,
           AcknowledgementArrives(ack, copy, answered)
    PROVE  QueueSettles /\ OwnerSettles
<1>1. UNCHANGED <<registry, stream, due, posted, starts>>
  BY DEF AcknowledgementArrives
<1>2. /\ owner'.records = owner.records /\ owner'.alive = owner.alive
      /\ owner'.task.phase = owner.task.phase /\ owner'.task.operation = owner.task.operation
      /\ owner'.task.answer = "ok" =>
            \/ owner' = owner
            \/ Posted = ack /\ owner.task.phase \in Posting /\ Current(ack.generation)
  BY AnswerArrives
<1>3. pending' = pending \/ pending' = Without(pending, {ack.operation})
  BY DEF AcknowledgementArrives, PendingAfter
<1>4. QueueSettles
  BY <1>1, <1>3, QueueAlone, WithoutSettles
<1>5. ASSUME owner'.task.answer = "ok", owner'.task.phase # "accepting"
      PROVE  owner'.task.operation \notin Ids(pending')
  <2>1. CASE owner' = owner
    BY <1>4, <1>5, <2>1 DEF Queue, QueueSettles
  <2>2. CASE Posted = ack /\ owner.task.phase \in Posting /\ Current(ack.generation)
    <3>1. owner.task.phase # "idle" /\ owner.task.phase # "executing" /\ owner.task.phase # "accepting"
      BY <1>2, <1>5, <2>2 DEF Posting
    <3>2. /\ ack.operation = owner.task.operation
          /\ [operation |-> ack.operation, state |-> ack.state] \in Elements(owner.records)
      BY <2>2, <3>1, PostedRecord
    <3>3. ack.state # "accepted"
      BY <3>1, <3>2 DEF Answers
    <3>4. pending' = Without(pending, {ack.operation})
      BY <2>2, <3>3 DEF AcknowledgementArrives, PendingAfter
    <3>5. ack.operation \notin Ids(pending')
      BY <3>4, WithoutElements DEF Types, QueueTypes
    <3> QED
      BY <1>2, <3>2, <3>5
  <2> QED
    BY <1>2, <1>5, <2>1, <2>2
<1>6. OwnerSettles
  BY <1>1, <1>2, <1>5 DEF OwnerSettles, Handling, Begun
<1> QED
  BY <1>4, <1>6

\* Every step keeps the queue's invariant.
LEMMA QueueStep ==
    ASSUME Types, Limits, Answers, Once, QueueInv, Next
    PROVE  QueueInv'
<1>1. Queue /\ posted \subseteq Operations
  BY DEF QueueInv, Types, OtherTypes
<1>2. ASSUME Settles PROVE QueueInv'
  BY <1>1, <1>2, SettlesKeeps
<1>3. CASE OwnerNext
  <2>1. CASE OpenStream
    BY <2>1, OpenKeeps
  <2>2. CASE ReadCancelled
    <3>1. UNCHANGED <<owner, starts, posted, due>>
      BY <2>2 DEF ReadCancelled, ReadFrame
    <3> QED
      BY <1>1, <1>2, <2>2, <3>1, ReadCancelledSettles, OwnerAlone DEF Settles
  <2>3. CASE ReadLateCommand
    BY <2>3, ReadLateKeeps
  <2>4. CASE DispatchCommand
    BY <2>4, DispatchKeeps
  <2>5. CASE Execute
    <3>1. /\ owner.task.phase = "accepting" /\ UNCHANGED <<pending, stream, posted, due>>
          /\ starts' = [starts EXCEPT ![owner.task.operation] = @ + 1]
      BY <2>5 DEF Execute
    <3>2. \A x \in Operations : starts'[x] > 0 => Begun(x)
      BY <3>1 DEF Begun, Handling, Types, OtherTypes
    <3>3. /\ owner'.records = owner.records /\ owner'.alive = owner.alive
          /\ owner'.task.phase = "executing" /\ owner'.task.operation = owner.task.operation
          /\ owner'.task.answer = "none"
      BY <2>5, ExecuteOwner
    <3>4. OwnerSettles
      <4>1. owner.task.phase # "idle" /\ owner'.task.phase # "idle"
        BY <3>1, <3>3
      <4>2. \A x : Handling(x)' <=> Handling(x)
        BY <3>3, <4>1 DEF Handling
      <4>3. owner'.task.answer # "ok"
        BY <3>3
      <4>4. Ids(owner'.records) = Ids(owner.records) /\ owner'.alive = owner.alive
        BY <3>3
      <4> QED
        BY <3>2, <3>3, <4>1, <4>3, <4>4 DEF OwnerSettles, Handling
    <3> QED
      BY <1>1, <1>2, <3>1, <3>4, QueueAlone DEF Settles
  <2>6. CASE ExecutionEnds \/ AcknowledgeFailed
    <3>1. /\ owner.task \in TaskType /\ owner.alive
          /\ UNCHANGED <<operations, pending, registry, stream, due, posted, starts>>
      BY <2>6, AcknowledgeStep
    <3>2. /\ owner'.alive = owner.alive /\ Ids(owner'.records) = Ids(owner.records)
          /\ owner'.task.phase # "idle" /\ owner'.task.operation = owner.task.operation
          /\ owner'.task.answer = "none"
      BY <2>6, <3>1, AcknowledgeStep, AcknowledgeOwner
    <3>3. owner.task.phase # "idle"
      BY <3>1 DEF TaskType, Posting
    <3>4. OwnerSettles
      BY <1>1, <3>1, <3>2, <3>3, SameCommand
    <3> QED
      BY <1>1, <1>2, <3>1, <3>4, QueueAlone DEF Settles
  <2>7. CASE HandlerEnds
    <3>1. /\ owner' = [owner EXCEPT !.task = Idle]
          /\ UNCHANGED <<pending, stream, posted, due, starts>>
          /\ owner.task.answer = "ok" /\ owner.task.phase # "accepting"
      BY <2>7 DEF HandlerEnds, PostSucceeded
    <3>2. owner'.alive = owner.alive /\ owner'.records = owner.records /\ owner'.task = Idle
      BY <3>1 DEF Types, OwnerTypes
    <3>3. owner.task.operation \notin Ids(pending)
      BY <1>1, <3>1 DEF Queue
    <3>4. OwnerSettles
      BY <3>1, <3>2, <3>3, IdleTask DEF OwnerSettles, Handling, Begun
    <3> QED
      BY <1>1, <1>2, <3>1, <3>4, QueueAlone DEF Settles
  <2>8. CASE LoopFails
    <3>1. /\ owner' = [owner EXCEPT !.task = Idle] /\ stream' = Closed
          /\ UNCHANGED <<pending, posted, due, starts>>
      BY <2>8 DEF LoopFails
    <3>2. owner'.alive = owner.alive /\ owner'.records = owner.records /\ owner'.task = Idle
      BY <3>1 DEF Types, OwnerTypes
    <3>3. ~stream'.open /\ stream'.frames = <<>>
      BY <3>1 DEF Closed
    <3> QED
      BY <3>1, <3>2, <3>3, ClosedKeeps
  <2>9. CASE Heartbeat
    <3>1. UNCHANGED <<pending, stream, owner, starts, posted, due>>
      BY <2>9 DEF Heartbeat
    <3> QED
      BY <1>1, <1>2, <3>1, QueueAlone, OwnerAlone DEF Settles
  <2> QED
    BY <1>3, <2>1, <2>2, <2>3, <2>4, <2>5, <2>6, <2>7, <2>8, <2>9 DEF OwnerNext
<1>4. CASE HelperNext
  <2>1. ASSUME NEW o \in Operations, HandleCommand(o)
        PROVE  QueueInv'
    <3>1. owner.task.phase # "idle" => owner.task.operation \in posted
      BY <1>1, TaskPhase DEF Types, OwnerTypes, Queue
    <3> QED
      BY <2>1, <3>1, HandleKeeps DEF Once
  <2>2. ASSUME NEW o \in Operations, ExpireOperation(o)
        PROVE  QueueInv'
    <3>1. QueueSettles
      BY <1>1, <2>2, ExpiredRecord, CancelSettles DEF ExpireOperation
    <3>2. UNCHANGED <<owner, starts, posted, due>>
      BY <2>2 DEF ExpireOperation
    <3> QED
      BY <1>1, <1>2, <3>1, <3>2, OwnerAlone DEF Settles
  <2>3. CASE BeginDrain
    <3>1. QueueSettles
      BY <1>1, <2>3, AcceptedRecords, CancelSettles DEF BeginDrain
    <3>2. UNCHANGED <<owner, starts, posted, due>>
      BY <2>3 DEF BeginDrain
    <3> QED
      BY <1>1, <1>2, <3>1, <3>2, OwnerAlone DEF Settles
  <2>4. CASE LookupOperation
    <3>1. UNCHANGED <<pending, stream, owner, starts, posted, due>>
      BY <2>4 DEF LookupOperation
    <3> QED
      BY <1>1, <1>2, <3>1, QueueAlone, OwnerAlone DEF Settles
  <2>5. ASSUME NEW ack \in wire, NEW copy \in BOOLEAN, NEW answered \in BOOLEAN,
               AcknowledgementArrives(ack, copy, answered)
        PROVE  QueueInv'
    <3>1. posted' = posted /\ due' = due
      BY <2>5 DEF AcknowledgementArrives
    <3> QED
      BY <1>1, <1>2, <2>5, <3>1, AnswerSettles DEF Settles
  <2> QED
    BY <1>4, <2>1, <2>2, <2>3, <2>4, <2>5 DEF HelperNext
<1>5. CASE Environment
  <2>1. CASE \E o \in Operations : DeadlinePasses(o)
    <3>1. UNCHANGED <<pending, stream, owner, starts, posted>> /\ due \subseteq due'
      BY <2>1 DEF DeadlinePasses
    <3> QED
      BY <1>1, <1>2, <3>1, QueueAlone, OwnerAlone DEF Settles
  <2>2. CASE Lapse \/ \E ack \in wire : AcknowledgementLost(ack)
    <3>1. UNCHANGED <<pending, stream, owner, starts, posted, due>>
      BY <2>2 DEF Lapse, AcknowledgementLost
    <3> QED
      BY <1>1, <1>2, <3>1, QueueAlone, OwnerAlone DEF Settles
  <2>3. CASE PostAgain
    <3>1. /\ owner'.records = owner.records /\ owner'.alive = owner.alive
          /\ owner'.task.phase = owner.task.phase /\ owner'.task.operation = owner.task.operation
          /\ owner'.task.answer = owner.task.answer /\ owner.task.phase # "idle"
          /\ UNCHANGED <<pending, stream, due, posted, starts>>
      BY <2>3, PostAgainOwner
    <3>2. OwnerSettles
      BY <1>1, <3>1, SameCommand
    <3> QED
      BY <1>1, <1>2, <3>1, <3>2, QueueAlone DEF Settles
  <2>4. CASE StreamBreaks
    <3>1. ~stream'.open /\ stream'.frames = <<>> /\ UNCHANGED <<pending, owner, posted, due, starts>>
      BY <2>4 DEF StreamBreaks, Closed
    <3> QED
      BY <3>1, ClosedKeeps
  <2>5. CASE OwnerStops
    <3>1. /\ owner'.records = <<>> /\ owner'.task = Idle /\ ~owner'.alive
          /\ ~stream'.open /\ stream'.frames = <<>> /\ UNCHANGED <<pending, posted, due, starts>>
      BY <2>5 DEF OwnerStops, NewProcess, Closed
    <3> QED
      BY <3>1, ClosedKeeps
  <2>6. CASE OwnerRegisters
    <3>1. /\ owner'.records = <<>> /\ owner'.task = Idle /\ pending' = <<>> /\ ~owner.alive
          /\ UNCHANGED <<stream, posted, due, starts>>
      BY <2>6 DEF OwnerRegisters, NewProcess
    <3>2. ~stream'.open /\ stream'.frames = <<>>
      BY <1>1, <3>1 DEF Queue
    <3> QED
      BY <3>1, <3>2, ClosedKeeps
  <2> QED
    BY <1>5, <2>1, <2>2, <2>3, <2>4, <2>5, <2>6 DEF Environment
<1> QED
  BY <1>3, <1>4, <1>5 DEF Next

-----------------------------------------------------------------------------
(* What the owner answers, and that it starts nothing twice.               *)

\* Steps that start nothing and leave the owner's table alone.
LEMMA TableKeeps ==
    ASSUME Types, Answers, Once, starts' = starts, posted \subseteq posted',
           owner'.records = owner.records,
           owner'.task.phase = owner.task.phase, owner'.task.operation = owner.task.operation,
           owner.task.phase = "executing" => owner'.task.answer = owner.task.answer,
           \A ack \in wire' : ack \in wire \/ (ack.state = "completed" => starts[ack.operation] = 1)
    PROVE  Answers' /\ Once'
<1>1. Answers'
  BY DEF Answers, Handling
<1>2. Once'
  BY DEF Once
<1> QED
  BY <1>1, <1>2

\* The handler has acknowledged its verdict, and ends.
LEMMA IdleKeeps ==
    ASSUME Types, Answers, Once, UNCHANGED <<starts, posted, wire>>, owner'.task = Idle,
           \/ /\ owner'.records = owner.records
              /\ owner.task.phase \notin {"accepting", "executing"}
           \/ owner'.records = <<>>
    PROVE  Answers' /\ Once'
<1>1. \A r \in Elements(owner'.records) :
        /\ r.state # "accepted"
        /\ r.state = "completed" => starts[r.operation] = 1
  BY DEF Answers, Elements
<1>2. Answers'
  BY <1>1 DEF Answers
<1>3. owner'.task.phase = "idle"
  BY IdleTask
<1>4. Once'
  BY <1>3 DEF Once
<1> QED
  BY <1>2, <1>4

\* A dispatched command that is new to the owner was never started.
LEMMA DispatchAnswers ==
    ASSUME Types, Limits, Answers, Once, QueueInv, DispatchCommand
    PROVE  Answers' /\ Once'
<1> DEFINE o == Head(stream.frames).operation
<1>1. /\ ReadFrame("command") /\ o \in Operations \ due
      /\ owner'.task.operation = o /\ owner'.task.answer = "none"
      /\ \/ /\ o \in Ids(owner.records)
            /\ Elements(owner'.records) \subseteq Elements(owner.records)
            /\ owner'.task.phase = "reposting"
            /\ \E r \in Elements(owner.records) :
                  /\ r.operation = o
                  /\ \A ack \in wire' : ack \in wire \/ (ack.state = r.state /\ ack.operation = o)
         \/ /\ o \notin Ids(owner.records)
            /\ \A r \in Elements(owner'.records) :
                  \/ r \in Elements(owner.records) /\ r.operation # o
                  \/ r = [operation |-> o, state |-> "accepted"]
            /\ owner'.task.phase = "accepting"
            /\ \A ack \in wire' : ack \in wire \/ ack.state = "accepted"
  BY DispatchOwner
<1>2. owner.task = Idle /\ UNCHANGED <<starts, posted>>
  BY <1>1 DEF ReadFrame
<1>3. starts[o] > 0 => o \in Ids(owner.records)
  BY <1>1, DispatchOrder
<1> HIDE DEF o
<1>4. starts[o] \in Nat
  BY <1>1 DEF Types, OtherTypes
<1>5. \A r \in Elements(owner.records) : r.state # "accepted"
  BY <1>2, IdleTask DEF Answers, Handling
<1>6. CASE owner'.task.phase = "reposting"
  <2>1. /\ Elements(owner'.records) \subseteq Elements(owner.records)
        /\ \A ack \in wire' : ack.state = "completed" => starts[ack.operation] = 1
    BY <1>1, <1>6 DEF Answers
  <2>2. Answers'
    BY <1>2, <1>5, <2>1 DEF Answers
  <2>3. Once'
    BY <1>2, <1>6 DEF Once
  <2> QED
    BY <2>2, <2>3
<1>7. CASE owner'.task.phase = "accepting"
  <2>1. /\ o \notin Ids(owner.records)
        /\ \A r \in Elements(owner'.records) :
              \/ r \in Elements(owner.records) /\ r.operation # o
              \/ r = [operation |-> o, state |-> "accepted"]
        /\ \A ack \in wire' : ack \in wire \/ ack.state = "accepted"
    BY <1>1, <1>7
  <2>2. \A r \in Elements(owner'.records) :
          /\ r.state = "accepted" => r.operation = o
          /\ r.state = "completed" => starts[r.operation] = 1
    BY <1>5, <2>1 DEF Answers
  <2>3. \A x : Handling(x)' <=> x = o
    BY <1>1, <1>7 DEF Handling
  <2>4. Answers'
    BY <1>2, <1>7, <2>1, <2>2, <2>3 DEF Answers
  <2>5. starts[o] = 0
    BY <1>3, <1>4, <2>1
  <2>6. Once'
    BY <1>1, <1>2, <1>7, <2>5 DEF Once
  <2> QED
    BY <2>4, <2>6
<1> QED
  BY <1>1, <1>6, <1>7

\* Execute starts a command that was not started.
LEMMA ExecuteAnswers ==
    ASSUME Types, Answers, Once, QueueInv, Execute
    PROVE  Answers' /\ Once'
<1> DEFINE o == owner.task.operation
<1>1. /\ owner.task.phase = "accepting" /\ UNCHANGED <<wire, posted>>
      /\ starts' = [starts EXCEPT ![o] = @ + 1]
  BY DEF Execute
<1>2. o \in Operations /\ o \in Ids(owner.records)
  <2>1. owner.task # Idle
    BY <1>1, IdleTask
  <2> QED
    BY <1>1, <2>1, TaskPhase DEF TaskType, Types, OwnerTypes
<1>3. /\ owner'.records = owner.records
      /\ owner'.task.phase = "executing" /\ owner'.task.operation = o
      /\ owner'.task.answer = "none"
  BY ExecuteOwner
<1>4. starts[o] = 0 /\ starts \in [Operations -> Nat]
  BY <1>1 DEF Once, Types, OtherTypes
<1> HIDE DEF o
<1>5. starts'[o] = 1 /\ \A x \in Operations : x # o => starts'[x] = starts[x]
  BY <1>1, <1>2, <1>4
<1>6. \A r \in Elements(owner.records) : r.operation \in Operations
  BY ElementsType DEF Types, OwnerTypes, AnswerType
<1>7. \A ack \in wire : ack.operation \in Operations
  BY DEF Types, OwnerTypes, AckType
<1>8. \A x : Handling(x) => Handling(x)'
  BY <1>1, <1>3 DEF Handling, o
<1>9. Answers'
  BY <1>1, <1>3, <1>5, <1>6, <1>7, <1>8 DEF Answers
<1>10. o \in posted
  BY <1>2 DEF QueueInv, Queue
<1>11. Once'
  BY <1>1, <1>3, <1>5, <1>10 DEF Once
<1> QED
  BY <1>9, <1>11

\* A completion is acknowledged only of a started command.
LEMMA AcknowledgeAnswers ==
    ASSUME Types, Limits, Answers, Once, ExecutionEnds \/ AcknowledgeFailed
    PROVE  Answers' /\ Once'
<1> DEFINE o == owner.task.operation
<1>1. /\ owner.task \in TaskType /\ owner.alive
      /\ \E phase \in {"completing", "failing"}, state \in {"completed", "failed"} :
            /\ state = "completed" => owner.task.phase = "executing"
            /\ Acknowledge(phase, o, state, owner.records)
      /\ UNCHANGED <<registry, posted, starts>>
  BY AcknowledgeStep
<1>2. PICK phase \in {"completing", "failing"}, state \in {"completed", "failed"} :
         /\ state = "completed" => owner.task.phase = "executing"
         /\ Acknowledge(phase, o, state, owner.records)
  BY <1>1
<1>3. /\ o \in Operations /\ owner.records \in Seq(AnswerType) /\ Unique(owner.records)
      /\ phase \in Posting /\ state \in {"accepted", "completed", "failed"}
  BY <1>1 DEF TaskType, Posting, Types, OwnerTypes
<1>4. owner'.task.phase = phase /\ owner'.task.operation = o
  BY <1>1, <1>2, AcknowledgeOwner
<1> HIDE DEF o
<1>5. \A r : r \in Elements(owner'.records) <=>
         \/ r \in Elements(owner.records) /\ r.operation # o
         \/ r = [operation |-> o, state |-> state]
  BY <1>2, <1>3, Acknowledges
<1>6. \A ack : ack \in wire' <=>
         ack \in wire \/ ack = [operation |-> o, state |-> state, generation |-> registry.generation]
  BY <1>2, <1>3, Acknowledges
<1>7. state = "completed" => starts[o] = 1
  BY <1>2 DEF Once, o
<1>8. \A r \in Elements(owner.records) : r.state = "accepted" => r.operation = o
  BY DEF Answers, Handling, o
<1>9. \A r \in Elements(owner'.records) :
        /\ r.state # "accepted"
        /\ r.state = "completed" => starts[r.operation] = 1
  BY <1>2, <1>5, <1>7, <1>8 DEF Answers
<1>10. \A ack \in wire' : ack.state = "completed" => starts[ack.operation] = 1
  BY <1>6, <1>7 DEF Answers
<1>11. Answers'
  BY <1>1, <1>9, <1>10 DEF Answers
<1>12. Once'
  BY <1>1, <1>2, <1>4 DEF Once
<1> QED
  BY <1>11, <1>12

\* Every step keeps what the owner answers true, and every start the first.
LEMMA AnswersStep ==
    ASSUME Types, Limits, Answers, Once, QueueInv, Next
    PROVE  Answers' /\ Once'
<1>1. ASSUME UNCHANGED <<owner, starts>>, posted \subseteq posted', wire' \subseteq wire
      PROVE  Answers' /\ Once'
  BY <1>1, TableKeeps
<1>2. CASE OwnerNext
  <2>1. CASE OpenStream \/ ReadCancelled \/ ReadLateCommand \/ Heartbeat
    BY <1>1, <2>1 DEF OpenStream, ReadCancelled, ReadLateCommand, ReadFrame, Heartbeat
  <2>2. CASE DispatchCommand
    BY <2>2, DispatchAnswers
  <2>3. CASE Execute
    BY <2>3, ExecuteAnswers
  <2>4. CASE ExecutionEnds \/ AcknowledgeFailed
    BY <2>4, AcknowledgeAnswers
  <2>5. CASE HandlerEnds \/ LoopFails
    <3>1. owner' = [owner EXCEPT !.task = Idle] /\ UNCHANGED <<starts, posted, wire>>
      BY <2>5 DEF HandlerEnds, LoopFails
    <3>2. owner'.records = owner.records /\ owner'.task = Idle
      BY <3>1 DEF Types, OwnerTypes
    <3>3. owner.task.phase \notin {"accepting", "executing"}
      BY <2>5 DEF HandlerEnds, LoopFails, PostSucceeded, Once
    <3> QED
      BY <3>1, <3>2, <3>3, IdleKeeps
  <2> QED
    BY <1>2, <2>1, <2>2, <2>3, <2>4, <2>5 DEF OwnerNext
<1>3. CASE HelperNext
  <2>1. CASE LookupOperation \/ BeginDrain \/ \E o \in Operations : HandleCommand(o) \/ ExpireOperation(o)
    BY <1>1, <2>1 DEF LookupOperation, BeginDrain, HandleCommand, ExpireOperation
  <2>2. ASSUME NEW ack \in wire, NEW copy, NEW answered, AcknowledgementArrives(ack, copy, answered)
        PROVE  Answers' /\ Once'
    <3>1. wire' \subseteq wire /\ UNCHANGED <<starts, posted>>
      BY <2>2 DEF AcknowledgementArrives
    <3>2. /\ owner'.records = owner.records
          /\ owner'.task.phase = owner.task.phase /\ owner'.task.operation = owner.task.operation
          /\ owner.task.phase = "executing" => owner' = owner
      BY <2>2, AnswerArrives DEF Posting
    <3> QED
      BY <3>1, <3>2, TableKeeps
  <2> QED
    BY <1>3, <2>1, <2>2 DEF HelperNext
<1>4. CASE Environment
  <2>1. CASE StreamBreaks \/ Lapse \/ \E o \in Operations : DeadlinePasses(o)
    BY <1>1, <2>1 DEF StreamBreaks, Lapse, DeadlinePasses
  <2>2. CASE \E ack \in wire : AcknowledgementLost(ack)
    BY <1>1, <2>2 DEF AcknowledgementLost
  <2>3. CASE PostAgain
    <3>1. /\ owner'.records = owner.records
          /\ owner'.task.phase = owner.task.phase /\ owner'.task.operation = owner.task.operation
          /\ owner'.task.answer = owner.task.answer /\ owner.task.phase # "idle"
          /\ wire' = wire \cup {Posted} /\ UNCHANGED <<posted, starts>>
      BY <2>3, PostAgainOwner
    <3>2. [operation |-> Posted.operation, state |-> Posted.state] \in Elements(owner.records)
      BY <3>1, PostedRecord
    <3>3. Posted.state = "completed" => starts[Posted.operation] = 1
      BY <3>2 DEF Answers
    <3> QED
      BY <3>1, <3>3, TableKeeps
  <2>4. CASE OwnerStops \/ OwnerRegisters
    <3>1. owner'.records = <<>> /\ owner'.task = Idle /\ UNCHANGED <<starts, posted, wire>>
      BY <2>4 DEF OwnerStops, OwnerRegisters, NewProcess
    <3> QED
      BY <3>1, IdleKeeps
  <2> QED
    BY <1>4, <2>1, <2>2, <2>3, <2>4 DEF Environment
<1> QED
  BY <1>2, <1>3, <1>4 DEF Next

-----------------------------------------------------------------------------
(* What the helper's table says.                                           *)

\* What the helper's records say.
Tables ==
    \A r \in Elements(operations) :
        /\ r.state = "accepted" => r.generation = registry.generation /\ ~r.helperTerminal
        /\ r.helperTerminal => r.state = IF r.operation \in Idempotent THEN "failed" ELSE "uncertain"
        /\ r.state = "uncertain" => r.helperTerminal
        /\ r.state = "completed" => starts[r.operation] = 1

\* Accepted operations are pending until they are due.
Replayable == AcceptedIds(operations) \ due \subseteq Ids(pending)

Inv == Types /\ Limits /\ Answers /\ Once /\ QueueInv /\ Tables /\ Replayable

\* The helper's table after a new command.
LEMMA AcceptsElements ==
    ASSUME Types, NEW o \in Operations, Accepts(o)
    PROVE  /\ operations' \in Seq(RecordType) /\ Unique(operations')
           /\ \A r : r \in Elements(operations') => r \in Elements(operations) \/ r = NewRecord(o)
           /\ NewRecord(o) \in Elements(operations')
           /\ AcceptedIn(operations) \subseteq Elements(operations')
<1>1. PICK recent : Trimmed(operations, recent) /\ operations' = Append(recent, NewRecord(o))
  BY DEF Accepts
<1>2. NewRecord(o) \in RecordType /\ NewRecord(o).operation = o
  BY DEF NewRecord, RecordType, Types, OtherTypes
<1>3. /\ recent \in Seq(RecordType) /\ Unique(recent) /\ Elements(recent) \subseteq Elements(operations)
      /\ AcceptedIn(operations) \subseteq Elements(recent)
  BY <1>1 DEF Trimmed
<1>4. o \notin Ids(recent)
  <2>1. o \notin posted /\ Ids(operations) \subseteq posted
    BY DEF Accepts, Types, OperationTypes
  <2> QED
    BY <1>3, <2>1, IdsOfElements
<1>5. /\ operations' \in Seq(RecordType) /\ Unique(operations')
      /\ Elements(operations') = Elements(recent) \cup {NewRecord(o)}
  BY <1>1, <1>2, <1>3, <1>4, AppendElements
<1> QED
  BY <1>3, <1>5

\* Only Execute starts operations, and each for the first time.
LEMMA StartsGrow ==
    ASSUME Types, Once, QueueInv, Next
    PROVE  \/ starts' = starts
           \/ /\ UNCHANGED <<operations, registry, posted>>
              /\ \E o \in posted : starts[o] = 0 /\ starts' = [starts EXCEPT ![o] = 1]
<1>1. CASE Execute
  <2> DEFINE o == owner.task.operation
  <2>1. /\ owner.task.phase = "accepting" /\ starts' = [starts EXCEPT ![o] = starts[o] + 1]
        /\ UNCHANGED <<operations, registry, posted>>
    BY <1>1 DEF Execute
  <2>2. starts[o] = 0
    BY <2>1 DEF Once
  <2>3. owner.task # Idle
    BY <2>1, IdleTask
  <2>4. o \in posted
    BY <2>3 DEF QueueInv, Queue, Types, OwnerTypes
  <2>5. starts' = [starts EXCEPT ![o] = 1]
    <3>1. starts[o] + 1 = 1
      BY <2>2
    <3> QED
      BY <2>1, <3>1
  <2> HIDE DEF o
  <2> QED
    BY <2>1, <2>2, <2>4, <2>5
<1>2. CASE OwnerNext /\ ~Execute
  BY <1>2 DEF OwnerNext, OpenStream, ReadCancelled, ReadLateCommand, DispatchCommand, ReadFrame,
              ExecutionEnds, HandlerEnds, AcknowledgeFailed, LoopFails, Heartbeat
<1>3. CASE HelperNext
  BY <1>3 DEF HelperNext, HandleCommand, ExpireOperation, LookupOperation, BeginDrain,
              AcknowledgementArrives
<1>4. CASE Environment
  BY <1>4 DEF Environment, DeadlinePasses, AcknowledgementLost, PostAgain, StreamBreaks,
              Lapse, OwnerStops, OwnerRegisters
<1> QED
  BY <1>1, <1>2, <1>3, <1>4 DEF Next

\* Only a registration changes the generation, and it gives up on all that
\* is accepted.
LEMMA GenerationStep ==
    ASSUME Types, Next
    PROVE  registry'.generation = registry.generation \/ AcceptedIn(operations') = {}
<1>1. CASE OwnerRegisters
  <2>1. operations' = GivenUp(Accepted(operations))
    BY <1>1 DEF OwnerRegisters
  <2>2. \A r \in AcceptedIn(operations') :
           r \in Elements(operations) /\ r.operation \notin AcceptedIds(operations)
    BY <2>1, AcceptedRecords, GivenUpRevises
  <2>3. \A r \in AcceptedIn(operations') : r.state = "accepted"
    BY DEF AcceptedIn
  <2> QED
    BY <2>2, <2>3 DEF AcceptedIds, AcceptedIn
<1>2. CASE OwnerNext
  BY <1>2 DEF OwnerNext, OpenStream, ReadCancelled, ReadLateCommand, DispatchCommand, ReadFrame,
              Execute, ExecutionEnds, HandlerEnds, AcknowledgeFailed, LoopFails, Heartbeat,
              Types, OtherTypes
<1>3. CASE HelperNext
  BY <1>3 DEF HelperNext, HandleCommand, ExpireOperation, LookupOperation, BeginDrain,
              AcknowledgementArrives, Types, OtherTypes
<1>4. CASE Environment /\ ~OwnerRegisters
  BY <1>4 DEF Environment, DeadlinePasses, AcknowledgementLost, PostAgain, StreamBreaks,
              Lapse, OwnerStops, Types, OtherTypes
<1> QED
  BY <1>1, <1>2, <1>3, <1>4 DEF Next

\* Every step keeps what the helper's table says true.
LEMMA TablesStep ==
    ASSUME Types, Limits, Answers, Once, QueueInv, Tables, Next
    PROVE  Tables'
<1>0. operations \in Seq(RecordType)
  BY DEF Types, OperationTypes
<1>1. \A r \in Elements(operations) : r \in RecordType
  BY <1>0, ElementsType
<1>2. \A x \in Operations : starts[x] = 1 => starts'[x] = 1
  <2>1. CASE starts' = starts
    BY <2>1
  <2>2. CASE \E o \in posted : starts[o] = 0 /\ starts' = [starts EXCEPT ![o] = 1]
    BY <2>2 DEF Types, OtherTypes
  <2> QED
    BY <2>1, <2>2, StartsGrow
<1> SUFFICES ASSUME NEW q \in Elements(operations')
             PROVE  /\ q.state = "accepted" => q.generation = registry'.generation /\ ~q.helperTerminal
                    /\ q.helperTerminal => q.state = IF q.operation \in Idempotent THEN "failed" ELSE "uncertain"
                    /\ q.state = "uncertain" => q.helperTerminal
                    /\ q.state = "completed" => starts'[q.operation] = 1
  BY DEF Tables
<1>3. CASE q \in Elements(operations)
  <2>1. q.state = "accepted" => registry'.generation = registry.generation
    BY GenerationStep DEF AcceptedIn
  <2> QED
    BY <1>1, <1>2, <1>3, <2>1 DEF Tables, RecordType
<1>4. ASSUME NEW o \in Operations, HandleCommand(o), q = NewRecord(o)
      PROVE  /\ q.state = "accepted" => q.generation = registry'.generation /\ ~q.helperTerminal
             /\ q.helperTerminal => q.state = IF q.operation \in Idempotent THEN "failed" ELSE "uncertain"
             /\ q.state = "uncertain" => q.helperTerminal
             /\ q.state = "completed" => starts'[q.operation] = 1
  BY <1>4 DEF NewRecord, HandleCommand
<1>5. ASSUME NEW r \in Elements(operations), Verdict(r, q)
      PROVE  /\ q.state = "accepted" => q.generation = registry'.generation /\ ~q.helperTerminal
             /\ q.helperTerminal => q.state = IF q.operation \in Idempotent THEN "failed" ELSE "uncertain"
             /\ q.state = "uncertain" => q.helperTerminal
             /\ q.state = "completed" => starts'[q.operation] = 1
  <2>1. r \in RecordType
    BY <1>1
  <2>2. CASE GivesUp(r, q)
    <3> DEFINE verdict == IF r.operation \in Idempotent THEN "failed" ELSE "uncertain"
    <3>1. q = [r EXCEPT !.state = verdict, !.helperTerminal = TRUE]
      BY <2>2 DEF GivesUp, GiveUp, Judged
    <3>2. q.operation = r.operation /\ q.state = verdict /\ q.helperTerminal
      BY <2>1, <3>1 DEF RecordType
    <3>3. verdict # "accepted" /\ verdict # "completed"
      OBVIOUS
    <3>4. q.state # "accepted" /\ q.state # "completed"
      BY <3>2, <3>3
    <3> QED
      BY <3>2, <3>4
  <2>3. CASE Decides(r, q)
    <3>1. \/ q.state = "completed" /\ starts[r.operation] = 1
          \/ q.state = "failed"
      BY <2>1, <2>3 DEF Decides, Judged, RecordType
    <3>2. q.operation = r.operation /\ q.helperTerminal = FALSE
      BY <2>1, <2>3 DEF Decides, Judged, RecordType
    <3>3. r.operation \in Operations
      BY <2>1 DEF RecordType
    <3>4. q.state = "completed" => starts'[q.operation] = 1
      BY <1>2, <3>1, <3>2, <3>3
    <3> QED
      BY <3>1, <3>2, <3>4
  <2> QED
    BY <1>5, <2>2, <2>3 DEF Verdict
<1>6. \/ q \in Elements(operations)
      \/ \E o \in Operations : HandleCommand(o) /\ q = NewRecord(o)
      \/ \E r \in Elements(operations) : Verdict(r, q)
  BY OperationsStep, AcceptsElements DEF Revised
<1> QED
  BY <1>3, <1>4, <1>5, <1>6

-----------------------------------------------------------------------------
(* The inductive invariant and its theorems.                               *)

\* A command leaves the pending ones only when it is judged, given up or due.
LEMMA ReplayableStep ==
    ASSUME Types, Limits, Answers, Once, QueueInv, Tables, Replayable, Next
    PROVE  Replayable'
<1>1. /\ operations \in Seq(RecordType) /\ Unique(operations) /\ Ids(operations) \subseteq posted
      /\ pending \in Seq(CommandType)
  BY DEF Types, OperationTypes, QueueTypes
<1>2. ASSUME due \subseteq due',
             \A r \in AcceptedIn(operations') :
                 r \in AcceptedIn(operations) /\ (r.operation \in Ids(pending) => r.operation \in Ids(pending'))
      PROVE  Replayable'
  BY <1>2 DEF Replayable, AcceptedIds
<1>3. ASSUME UNCHANGED <<operations, pending>>, due \subseteq due' PROVE Replayable'
  BY <1>3 DEF Replayable
<1>4. CASE OwnerNext
  <2>1. CASE OpenStream
    <3>1. pending' = Without(pending, due) /\ due' = due /\ operations' = operations
      BY <2>1 DEF OpenStream
    <3>2. Ids(pending') = Ids(pending) \ due
      BY <1>1, <3>1, WithoutElements
    <3> QED
      BY <3>1, <3>2 DEF Replayable
  <2>2. CASE ~OpenStream
    BY <1>3, <1>4, <2>2 DEF OwnerNext, ReadCancelled, ReadLateCommand, DispatchCommand, ReadFrame,
              Execute, ExecutionEnds, HandlerEnds, AcknowledgeFailed, LoopFails, Heartbeat
  <2> QED
    BY <2>1, <2>2
<1>5. CASE HelperNext
  <2>1. ASSUME NEW o \in Operations, HandleCommand(o)
        PROVE  Replayable'
    <3>1. Accepts(o)
      BY <2>1, HandleAccepts DEF Limits
    <3>2. \A r \in Elements(operations') : r \in Elements(operations) \/ r = NewRecord(o)
      BY <3>1, AcceptsElements
    <3>3. [operation |-> o] \in CommandType /\ pending' = Append(pending, [operation |-> o]) /\ due' = due
      BY <2>1 DEF CommandType, HandleCommand
    <3>4. Ids(pending') = Ids(pending) \cup {o}
      BY <1>1, <3>3, AppendElements
    <3>5. NewRecord(o).operation = o
      BY DEF NewRecord
    <3> QED
      BY <3>2, <3>3, <3>4, <3>5 DEF Replayable, AcceptedIds, AcceptedIn
  <2>2. ASSUME NEW f \in Seq(RecordType), Unique(f), Elements(f) \subseteq AcceptedIn(operations),
               operations' = GivenUp(f), Cancel(f), due' = due
        PROVE  Replayable'
    <3>1. \A r \in AcceptedIn(operations') : r \in Elements(operations) /\ r.operation \notin Ids(f)
      BY <2>2, GivenUpRevises
    <3>2. pending' = pending \/ pending' = Without(pending, Ids(f))
      BY <2>2, CancelQueue
    <3>3. Ids(pending) \ Ids(f) \subseteq Ids(pending')
      BY <1>1, <3>2, WithoutElements
    <3> QED
      BY <1>2, <2>2, <3>1, <3>3 DEF AcceptedIn
  <2>3. ASSUME NEW o \in Operations, ExpireOperation(o)
        PROVE  Replayable'
    BY <2>2, <2>3, ExpiredRecord DEF ExpireOperation
  <2>4. CASE BeginDrain
    BY <2>2, <2>4, AcceptedRecords DEF BeginDrain
  <2>5. CASE LookupOperation
    <3>1. UNCHANGED <<pending, due>> /\ Trimmed(operations, operations')
      BY <1>1, <2>5, PrunedTrims DEF LookupOperation
    <3> QED
      BY <1>2, <3>1 DEF Trimmed, AcceptedIn
  <2>6. ASSUME NEW ack \in wire, NEW copy, NEW answered, AcknowledgementArrives(ack, copy, answered)
        PROVE  Replayable'
    <3>1. due' = due
      BY <2>6 DEF AcknowledgementArrives
    <3>2. CASE ~Current(ack.generation)
      BY <1>3, <2>6, <3>1, <3>2 DEF AcknowledgementArrives
    <3>3. CASE Current(ack.generation)
      <4>1. operations' = Reconciled(ack) /\ pending' = PendingAfter(ack)
        BY <2>6, <3>3 DEF AcknowledgementArrives
      <4>2. ack \in AckType /\ (ack.state = "completed" => starts[ack.operation] = 1)
        BY DEF Types, OwnerTypes, Answers
      <4>3. \A r \in AcceptedIn(operations') :
               /\ r \in Elements(operations)
               /\ ack.state # "accepted" => ~ (r.operation = ack.operation /\ r.generation = ack.generation)
        BY <4>1, <4>2, ReconciledRevises
      <4>4. \A r \in AcceptedIn(operations) : r.generation = ack.generation
        BY <3>3 DEF Tables, AcceptedIn, Current
      <4>5. \A x \in Ids(pending) : ack.state = "accepted" \/ x # ack.operation => x \in Ids(pending')
        <5>1. CASE ack.state = "accepted"
          BY <4>1, <5>1 DEF PendingAfter
        <5>2. CASE ack.state # "accepted"
          <6>1. pending' = Without(pending, {ack.operation})
            BY <4>1, <5>2 DEF PendingAfter
          <6>2. Ids(pending') = Ids(pending) \ {ack.operation}
            BY <1>1, <6>1, WithoutElements
          <6> QED
            BY <5>2, <6>2
        <5> QED
          BY <5>1, <5>2
      <4> QED
        BY <1>2, <3>1, <4>3, <4>4, <4>5 DEF AcceptedIn
    <3> QED
      BY <3>2, <3>3
  <2> QED
    BY <1>5, <2>1, <2>3, <2>4, <2>5, <2>6 DEF HelperNext
<1>6. CASE Environment
  <2>1. CASE OwnerRegisters
    <3>1. operations' = GivenUp(Accepted(operations))
      BY <2>1 DEF OwnerRegisters
    <3>2. \A r \in AcceptedIn(operations') :
             r \in Elements(operations) /\ r.operation \notin AcceptedIds(operations)
      BY <3>1, AcceptedRecords, GivenUpRevises
    <3>3. AcceptedIn(operations') = {}
      BY <3>2 DEF AcceptedIds, AcceptedIn
    <3> QED
      BY <3>3 DEF Replayable, AcceptedIds
  <2>2. CASE ~OwnerRegisters
    BY <1>3, <1>6, <2>2 DEF Environment, DeadlinePasses, AcknowledgementLost, PostAgain, StreamBreaks,
              Lapse, OwnerStops
  <2> QED
    BY <2>1, <2>2
<1> QED
  BY <1>4, <1>5, <1>6 DEF Next

LEMMA InvInit == Init => Inv
<1> SUFFICES ASSUME Init PROVE Inv
  OBVIOUS
<1>1. /\ operations = <<>> /\ pending = <<>> /\ wire = {} /\ due = {} /\ posted = {} /\ faults = 0
      /\ registry = [connected |-> TRUE, generation |-> 1, accepting |-> TRUE]
      /\ stream = [open |-> FALSE, frames |-> <<>>]
      /\ owner = [alive |-> TRUE, records |-> <<>>, task |-> Idle]
      /\ starts = [o \in Operations |-> 0]
  BY DEF Init, NewProcess
<1>2. /\ Elements(<<>>) = {} /\ Ids(<<>>) = {} /\ Unique(<<>>)
      /\ OneEach(<<>>) /\ Commands(<<>>) = {}
      /\ \A x, y : ~Before(<<>>, x, y) /\ ~CommandBefore(<<>>, x, y)
  BY DEF Elements, Ids, Unique, OneEach, Commands, Before, CommandBefore
<1>3. owner.records = <<>> /\ owner.task = Idle /\ owner.alive /\ owner.task.phase = "idle"
  BY <1>1, IdleTask
<1>4. Accepted(<<>>) = <<>>
  <2>0. <<>> \in Seq(RecordType)
    OBVIOUS
  <2>1. /\ Accepted(<<>>) \in Seq(RecordType) /\ Elements(Accepted(<<>>)) = AcceptedIn(<<>>)
        /\ Unique(Accepted(<<>>))
    BY <1>2, <2>0, AcceptedElements
  <2>2. Ids(Accepted(<<>>)) \subseteq Ids(<<>>)
    BY <1>2, <2>1, IdsOfElements DEF AcceptedIn
  <2>3. Len(Accepted(<<>>)) <= Len(<<>>)
    BY <1>2, <2>0, <2>1, <2>2, FewerIds
  <2>4. Len(<<>>) = 0 /\ Len(Accepted(<<>>)) \in Nat
    BY <2>1
  <2> QED
    BY <2>1, <2>3, <2>4
<1>5. Types
  <2>1. OperationTypes /\ QueueTypes
    BY <1>1, <1>2 DEF OperationTypes, QueueTypes
  <2>2. OwnerTypes
    BY <1>1, <1>2, <1>3 DEF OwnerTypes
  <2>3. OtherTypes
    BY <1>1, BoundsAssumption DEF OtherTypes
  <2> QED
    BY <2>1, <2>2, <2>3 DEF Types
<1>6. Limits
  BY <1>1, <1>3, <1>4, LimitsAssumption DEF Limits
<1>7. Answers /\ Tables /\ Replayable
  BY <1>1, <1>2, <1>3 DEF Answers, Tables, Replayable, AcceptedIds, AcceptedIn
<1>8. Once
  BY <1>1, <1>3 DEF Once
<1>9. QueueInv
  <2>1. \A x : ~Handling(x)
    BY <1>3 DEF Handling
  <2>2. owner.task.answer # "ok" /\ ~stream.open /\ stream.frames = <<>>
    BY <1>1, <1>3, IdleTask
  <2>3. Queue
    BY <1>1, <1>2, <1>3, <2>2 DEF Queue
  <2>4. Covered /\ InOrder
    BY <1>1, <1>2, <2>2 DEF Covered, InOrder
  <2>5. First
    BY <1>1, <2>1 DEF First, Begun
  <2> QED
    BY <2>3, <2>4, <2>5 DEF QueueInv
<1> QED
  BY <1>5, <1>6, <1>7, <1>8, <1>9 DEF Inv

LEMMA InvStep == Inv /\ [Next]_vars => Inv'
<1>1. ASSUME Inv, Next PROVE Inv'
  <2>1. Types /\ Limits /\ Answers /\ Once /\ QueueInv /\ Tables /\ Replayable
    BY <1>1 DEF Inv
  <2>2. OperationTypes' /\ Len(operations') <= HelperRecords /\ Len(Accepted(operations')) <= PendingLimit
    BY <1>1, <2>1, OperationTypesStep
  <2>3. QueueTypes'
    BY <1>1, <2>1, QueueTypesStep DEF QueueInv, Queue
  <2>4. OwnerTypes' /\ Len(owner'.records) <= OwnerRecords
    BY <1>1, <2>1, OwnerTypesStep
  <2>5. OtherTypes'
    BY <1>1, <2>1, OtherTypesStep
  <2>6. Answers' /\ Once' /\ QueueInv'
    BY <1>1, <2>1, AnswersStep, QueueStep
  <2>7. Tables' /\ Replayable'
    BY <1>1, <2>1, TablesStep, ReplayableStep
  <2> QED
    BY <2>2, <2>3, <2>4, <2>5, <2>6, <2>7 DEF Inv, Types, Limits
<1>2. ASSUME Inv, UNCHANGED vars PROVE Inv'
  BY <1>2 DEF Inv, vars, Types, OperationTypes, QueueTypes, OwnerTypes, OtherTypes, Limits, Answers,
     Handling, Once, QueueInv, Queue, Covered, InOrder, First, Begun, Tables, Replayable, AcceptedIds, AcceptedIn
<1> QED
  BY <1>1, <1>2

\* The invariant the other theorems follow from: the types and limits of the
\* tables, the order of the queue, and what the tables say.
\* (BrowserGatewayCommandRoutes, HttpBrowserGatewayOwnerTransport)
THEOREM Invariance == Spec => []Inv
  BY InvInit, InvStep, PTL DEF Spec

\* The tables of the helper and of the owner stay typed and within their
\* limits, with one record of each operation.
\* (makeOperationCapacity, pruneExecutedCommands, makeExecutedCommandCapacity)
THEOREM TypeCorrect == Spec => []TypeOK
<1>1. Inv => TypeOK
  <2> SUFFICES ASSUME Inv PROVE TypeOK
    OBVIOUS
  <2>1. OperationTypes /\ QueueTypes /\ OwnerTypes /\ OtherTypes /\ Limits
    BY DEF Inv, Types
  <2>2. Cardinality(Ids(operations)) = Len(operations)
    BY <2>1, UniqueCount DEF OperationTypes
  <2>3. /\ owner.task.phase \in Posting \cup {"idle", "executing"}
        /\ owner.task.attempt \in 0 .. RetryAttempts
    <3>1. owner.task \in TaskType \cup {Idle}
      BY <2>1 DEF OwnerTypes
    <3>2. Idle.phase = "idle" /\ Idle.attempt \in 0 .. RetryAttempts
      BY RetryAttemptsAssumption DEF Idle
    <3> QED
      BY <3>1, <3>2 DEF TaskType
  <2> QED
    BY <2>1, <2>2, <2>3 DEF TypeOK, OperationTypes, QueueTypes, OwnerTypes, OtherTypes, Limits,
        RecordType, CommandType, FrameType, AnswerType
<1> QED
  BY <1>1, Invariance, PTL

\* However often its stream breaks, its acknowledgements are lost, repeated
\* or late, and its deduplication record is evicted or pruned, no command is
\* executed twice, not even by the next owner process.
\* (dispatchCommand, handleCommandStream)
THEOREM StartedAtMostOnce == Spec => []AtMostOnce
<1>1. Inv => AtMostOnce
  BY DEF Inv, Once, AtMostOnce
<1> QED
  BY <1>1, Invariance, PTL

\* An operation reported as accepted whose deadline has not passed is held by
\* the helper for the next stream. (handleAcknowledgement, onAcknowledgement)
THEOREM AcceptedReplayable == Spec => []AcceptedIsReplayable
<1>1. Inv => AcceptedIsReplayable
  BY DEF Inv, Replayable, AcceptedIds, AcceptedIn, Elements, AcceptedIsReplayable
<1> QED
  BY <1>1, Invariance, PTL

-----------------------------------------------------------------------------
(* The helper's reports follow OperationLifecycle.                         *)

\* Whose verdict a record shows.
JudgeOf(r) == IF r.state = "accepted" THEN "none" ELSE IF r.helperTerminal THEN "helper" ELSE "owner"

\* What the helper reports of a recorded operation.
LEMMA ReportOf ==
    ASSUME Types, NEW r \in Elements(operations)
    PROVE  Reported(r.operation) = r.state /\ Judge(r.operation) = JudgeOf(r)
<1>1. operations \in Seq(RecordType) /\ Unique(operations) /\ Ids(operations) \subseteq posted
  BY DEF Types, OperationTypes
<1>2. r.operation \in Ids(operations) /\ RecordOf(operations, r.operation) = r
  BY <1>1, IdsOfElements, RecordOfElement
<1>3. Reported(r.operation) = r.state
  BY <1>1, <1>2 DEF Reported
<1>4. r.state \in {"accepted", "completed", "failed", "uncertain"}
  BY <1>1, ElementsType DEF RecordType
<1> QED
  BY <1>2, <1>3, <1>4 DEF Judge, JudgeOf

LEMMA NextReportOf ==
    ASSUME OperationTypes', NEW r \in Elements(operations')
    PROVE  Reported(r.operation)' = r.state /\ Judge(r.operation)' = JudgeOf(r)
<1>1. operations' \in Seq(RecordType) /\ Unique(operations') /\ Ids(operations') \subseteq posted'
  BY DEF OperationTypes
<1>2. r.operation \in Ids(operations') /\ RecordOf(operations', r.operation) = r
  BY <1>1, IdsOfElements, RecordOfElement
<1>3. Reported(r.operation)' = r.state
  BY <1>1, <1>2 DEF Reported
<1>4. r.state \in {"accepted", "completed", "failed", "uncertain"}
  BY <1>1, ElementsType DEF RecordType
<1> QED
  BY <1>2, <1>3, <1>4 DEF Judge, JudgeOf

\* The actions of the abstract lifecycle of one operation.
LEMMA LifecycleActions ==
    ASSUME NEW o \in Operations,
           \/ /\ Reported(o) = "unknown" /\ Reported(o)' = "accepted"
              /\ Judge(o)' = "none" /\ starts'[o] = starts[o]
           \/ /\ Reported(o) # "unknown" /\ starts[o] = 0 /\ starts'[o] = 1
              /\ Reported(o)' = Reported(o) /\ Judge(o)' = Judge(o)
           \/ /\ Reported(o) = "accepted" /\ Judge(o)' = "helper" /\ starts'[o] = starts[o]
              /\ Reported(o)' = IF o \in Idempotent THEN "failed" ELSE "uncertain"
           \/ /\ Reported(o) = "accepted" \/ Judge(o) = "helper"
              /\ \/ starts[o] = 1 /\ Reported(o)' = "completed"
                 \/ Reported(o)' = "failed"
              /\ Judge(o)' = "owner" /\ starts'[o] = starts[o]
           \/ /\ Reported(o) \in {"completed", "failed", "uncertain"}
              /\ Reported(o)' = "forgotten" /\ Judge(o)' = "none" /\ starts'[o] = starts[o]
           \/ /\ Reported(o)' = Reported(o) /\ Judge(o)' = Judge(o) /\ starts'[o] = starts[o]
    PROVE  Lifecycle!Step(o)
  BY DEF Lifecycle!Step, Lifecycle!Accept, Lifecycle!Start, Lifecycle!HelperGivesUp,
         Lifecycle!OwnerDecides, Lifecycle!Forget, Lifecycle!Unchanged, Lifecycle!Report,
         Lifecycle!Verdicts

\* What becomes of a record.
LEMMA RecordStep ==
    ASSUME Types, Limits, Answers, Next, NEW r \in Elements(operations)
    PROVE  \/ r \in Elements(operations')
           \/ r.state # "accepted" /\ r.operation \notin Ids(operations')
           \/ \E q \in Elements(operations') : Verdict(r, q)
<1>1. CASE \E o \in Operations : HandleCommand(o) /\ Accepts(o)
  <2>1. PICK o \in Operations : Accepts(o)
    BY <1>1
  <2>2. /\ \A q \in Elements(operations') : q \in Elements(operations) \/ q = NewRecord(o)
        /\ AcceptedIn(operations) \subseteq Elements(operations')
    BY <2>1, AcceptsElements
  <2>3. Unique(operations) /\ Ids(operations) \subseteq posted /\ o \notin posted
    BY <2>1 DEF Accepts, Types, OperationTypes
  <2>4. r.operation # o
    BY <2>3, IdsOfElements
  <2>5. NewRecord(o).operation = o
    BY DEF NewRecord
  <2>6. ASSUME NEW q \in Elements(operations'), q.operation = r.operation
        PROVE  r \in Elements(operations')
    <3>1. q \in Elements(operations)
      BY <2>2, <2>4, <2>5, <2>6
    <3>2. q = r
      BY <2>3, <2>6, <3>1, UniqueElements
    <3> QED
      BY <3>2
  <2>7. r.operation \in Ids(operations') => r \in Elements(operations')
    BY <2>6, IdsOfElements
  <2> QED
    BY <2>2, <2>7 DEF AcceptedIn
<1>2. CASE Revised(operations, operations')
  BY <1>2 DEF Revised
<1> QED
  BY <1>1, <1>2, OperationsStep

\* What becomes of an operation without a record.
LEMMA NoRecordStep ==
    ASSUME Types, Limits, Answers, Next, NEW o \in Operations, o \notin Ids(operations)
    PROVE  \/ /\ o \notin posted
              /\ \E r \in Elements(operations') : r.operation = o /\ r.state = "accepted"
           \/ o \notin Ids(operations') /\ (o \in posted' <=> o \in posted)
<1>1. CASE \E p \in Operations : HandleCommand(p) /\ Accepts(p)
  <2>1. PICK p \in Operations : HandleCommand(p) /\ Accepts(p)
    BY <1>1
  <2>2. /\ \A q \in Elements(operations') : q \in Elements(operations) \/ q = NewRecord(p)
        /\ NewRecord(p) \in Elements(operations')
    BY <2>1, AcceptsElements
  <2>3. NewRecord(p).operation = p /\ NewRecord(p).state = "accepted"
    BY DEF NewRecord
  <2>4. p \notin posted /\ posted' = posted \cup {p}
    BY <2>1 DEF HandleCommand
  <2>5. CASE o = p
    BY <2>2, <2>3, <2>4, <2>5
  <2>6. CASE o # p
    <3>1. o \notin Ids(operations')
      BY <2>2, <2>3, <2>6, IdsOfElements
    <3> QED
      BY <2>4, <2>6, <3>1
  <2> QED
    BY <2>5, <2>6
<1>2. CASE posted' = posted /\ Revised(operations, operations')
  <2>1. operations \in Seq(RecordType)
    BY DEF Types, OperationTypes
  <2>2. Ids(operations') \subseteq Ids(operations)
    BY <1>2, <2>1, RevisedIds
  <2> QED
    BY <1>2, <2>2
<1> QED
  BY <1>1, <1>2, OperationsStep

\* Every step of the command path is one of the lifecycle, of every operation.
LEMMA LifecycleStep ==
    ASSUME Inv, Next, NEW o \in Operations
    PROVE  Lifecycle!Step(o)
<1>1. Types /\ Limits /\ Answers /\ Once /\ QueueInv /\ Tables
  BY DEF Inv
<1>2. OperationTypes'
  BY <1>1, OperationTypesStep
<1>3. CASE UNCHANGED <<operations, posted>> /\ \E p \in posted : starts[p] = 0 /\ starts' = [starts EXCEPT ![p] = 1]
  <2>1. Reported(o)' = Reported(o) /\ Judge(o)' = Judge(o)
    BY <1>3 DEF Reported, Judge
  <2>2. starts'[o] = starts[o] \/ (o \in posted /\ starts[o] = 0 /\ starts'[o] = 1)
    BY <1>1, <1>3 DEF Types, OtherTypes
  <2>3. o \in posted => Reported(o) # "unknown"
    <3>1. ASSUME o \in Ids(operations)
          PROVE  RecordOf(operations, o).state # "unknown"
      <4>1. RecordOf(operations, o) \in RecordType
        BY <1>1, <3>1, ElementOfId, ElementsType DEF Types, OperationTypes
      <4> QED
        BY <4>1 DEF RecordType
    <3> QED
      BY <3>1 DEF Reported
  <2> QED
    BY <2>1, <2>2, <2>3, LifecycleActions
<1>4. CASE starts' = starts
  <2>1. CASE o \in Ids(operations)
    <3>1. PICK r \in Elements(operations) : r.operation = o
      BY <2>1, IdsOfElements
    <3>2. Reported(o) = r.state /\ Judge(o) = JudgeOf(r)
      BY <1>1, <3>1, ReportOf
    <3>3. r \in RecordType
      BY <1>1, ElementsType DEF Types, OperationTypes
    <3>4. CASE r \in Elements(operations')
      <4>1. Reported(o)' = r.state /\ Judge(o)' = JudgeOf(r)
        BY <1>2, <3>1, <3>4, NextReportOf
      <4> QED
        BY <1>4, <3>2, <4>1, LifecycleActions
    <3>5. CASE r.state # "accepted" /\ o \notin Ids(operations')
      <4>1. o \in posted /\ posted \subseteq posted'
        <5>1. posted' = posted \/ \E p \in Operations : HandleCommand(p)
          BY <1>1, OperationsStep
        <5> QED
          BY <1>1, <2>1, <5>1 DEF HandleCommand, Types, OperationTypes
      <4>2. Reported(o)' = "forgotten" /\ Judge(o)' = "none"
        BY <3>5, <4>1 DEF Reported, Judge
      <4>3. Reported(o) \in {"completed", "failed", "uncertain"}
        BY <3>2, <3>3, <3>5 DEF RecordType
      <4> QED
        BY <1>4, <4>2, <4>3, LifecycleActions
    <3>6. ASSUME NEW q \in Elements(operations'), Verdict(r, q)
          PROVE  Lifecycle!Step(o)
      <4>1. q.operation = o
        BY <3>1, <3>3, <3>6, VerdictKeeps
      <4>2. Reported(o)' = q.state /\ Judge(o)' = JudgeOf(q)
        BY <1>2, <4>1, NextReportOf
      <4>3. CASE GivesUp(r, q)
        <5>1. r.state = "accepted" /\ q.helperTerminal
              /\ q.state = IF o \in Idempotent THEN "failed" ELSE "uncertain"
          BY <3>1, <3>3, <4>3 DEF GivesUp, GiveUp, Judged, RecordType
        <5>2. JudgeOf(q) = "helper"
          BY <5>1 DEF JudgeOf
        <5> QED
          BY <1>4, <3>2, <4>2, <5>1, <5>2, LifecycleActions
      <4>4. CASE Decides(r, q)
        <5>1. /\ q.helperTerminal = FALSE
              /\ \/ q.state = "completed" /\ starts[o] = 1
                 \/ q.state = "failed"
          BY <3>1, <3>3, <4>4 DEF Decides, Judged, RecordType
        <5>2. JudgeOf(q) = "owner"
          BY <5>1 DEF JudgeOf
        <5>3. r.helperTerminal => r.state # "accepted"
          BY <1>1 DEF Tables
        <5>4. r.state = "accepted" \/ JudgeOf(r) = "helper"
          BY <4>4, <5>3 DEF Decides, JudgeOf
        <5> QED
          BY <1>4, <3>2, <4>2, <5>1, <5>2, <5>4, LifecycleActions
      <4> QED
        BY <3>6, <4>3, <4>4 DEF Verdict
    <3> QED
      BY <1>1, <3>1, <3>4, <3>5, <3>6, RecordStep
  <2>2. CASE o \notin Ids(operations)
    <3>1. CASE o \notin posted /\ \E r \in Elements(operations') : r.operation = o /\ r.state = "accepted"
      <4>1. Reported(o) = "unknown"
        BY <3>1 DEF Reported
      <4>2. Reported(o)' = "accepted" /\ Judge(o)' = "none"
        BY <1>2, <3>1, NextReportOf DEF JudgeOf
      <4> QED
        BY <1>4, <4>1, <4>2, LifecycleActions
    <3>2. CASE o \notin Ids(operations') /\ (o \in posted' <=> o \in posted)
      <4>1. Reported(o)' = Reported(o) /\ Judge(o)' = Judge(o)
        BY <2>2, <3>2 DEF Reported, Judge
      <4> QED
        BY <1>4, <4>1, LifecycleActions
    <3> QED
      BY <1>1, <2>2, <3>1, <3>2, NoRecordStep
  <2> QED
    BY <2>1, <2>2
<1> QED
  BY <1>1, <1>3, <1>4, StartsGrow

\* The helper's reports implement OperationLifecycle: completed means that it
\* was started, the helper's own verdict comes once and says no more than it
\* knows, and the owner's verdict is final. (onAcknowledgement, expireOperation)
THEOREM ReportsAreTruthful == Spec => ReportsTruthfully
<1>1. Init => Lifecycle!Init
  <2> SUFFICES ASSUME Init PROVE Lifecycle!Init
    OBVIOUS
  <2>1. posted = {} /\ starts = [o \in Operations |-> 0]
    BY DEF Init
  <2>2. \A o \in Operations : Reported(o) = "unknown"
    BY <2>1 DEF Reported
  <2>3. \A o \in Operations : Judge(o) = "none"
    BY <2>2 DEF Judge
  <2> QED
    BY <2>1, <2>2, <2>3 DEF Lifecycle!Init
<1>2. Inv /\ [Next]_vars => [Lifecycle!Next]_Lifecycle!vars
  <2>1. ASSUME Inv, Next, Inv' PROVE Lifecycle!Next
    <3>1. \A o \in Operations : Lifecycle!Step(o)
      BY <2>1, LifecycleStep
    <3>2. starts' \in [Operations -> Nat]
      BY <2>1 DEF Inv, Types, OtherTypes
    <3> QED
      BY <3>1, <3>2 DEF Lifecycle!Next
  <2>2. ASSUME UNCHANGED vars PROVE UNCHANGED Lifecycle!vars
    BY <2>2 DEF vars, Lifecycle!vars, Reported, Judge
  <2> QED
    BY <2>1, <2>2, InvStep
<1> QED
  BY <1>1, <1>2, Invariance, PTL DEF Spec, ReportsTruthfully, Lifecycle!Spec
=============================================================================
