------------------------- MODULE BrowserRelayProofs -------------------------
(***************************************************************************)
(* Theorems about BrowserRelay, for every number of tabs, every limit of   *)
(* the replay, the queue and the socket, and every number of faults.       *)
(*                                                                         *)
(* Neither end of a connection knows whether the other one is behind.  The *)
(* proof looks at the frames between them: the ones the tab buffers, the   *)
(* ones on the wire and the ones queued, read as one sequence.  Unless a   *)
(* checkpoint is owed, they end in a checkpoint and the events after it,   *)
(* up to the last record, or they are events that continue what the tab    *)
(* shows (Delivers).  Each step keeps this of one tab and its connection   *)
(* (PairOK); the replay gives it to a new subscription when it continues   *)
(* the checkpoint (Whole); with one tab a checkpoint is pending otherwise, *)
(* or an occasion for one was missed (Excused).                            *)
(***************************************************************************)
EXTENDS BrowserRelay, SelectionProofs, SequenceTheorems

(* One connection: its frames, and what a flush and a send do to them.     *)

\* The frames of a stream up to record n, and those that are records.
Frames(n) == [kind : {"hello", "reset", "checkpoint", "event"}, number : 0 .. n]
Records(n) == [kind : {"checkpoint", "event"}, number : 0 .. n]

\* Types of a connection.
Links(n) ==
    [open : BOOLEAN, subscribed : BOOLEAN, blocked : BOOLEAN,
     queued : Seq(Frames(n)), awaiting : 0 .. n, wire : Seq(Frames(n))]

\* A connection by itself.
LinkOK(l, n) ==
    /\ l \in Links(n)
    /\ Len(l.wire) <= WireLimit
    /\ l.subscribed => l.open
    /\ l.awaiting # 0 => l.subscribed

\* The frames on their way to the tab.
Content(l) == l.wire \o l.queued

-----------------------------------------------------------------------------
\* A sequence whose first m elements have been moved to the end of another.
Moved(S, w, q, m) ==
    /\ SubSeq(q, m + 1, Len(q)) \in Seq(S)
    /\ w \o SubSeq(q, 1, m) \in Seq(S)
    /\ Len(w \o SubSeq(q, 1, m)) = Len(w) + m
    /\ (w \o SubSeq(q, 1, m)) \o SubSeq(q, m + 1, Len(q)) = w \o q

\* Moving the front of a queue leaves the joined sequence alone.
LEMMA MovedFacts ==
    ASSUME NEW S, NEW w \in Seq(S), NEW q \in Seq(S), NEW m \in 0 .. Len(q)
    PROVE  Moved(S, w, q, m)
<1> DEFINE a == SubSeq(q, 1, m)
           b == SubSeq(q, m + 1, Len(q))
<1>1. a \in Seq(S) /\ Len(a) = m
  BY SMT
<1>2. b \in Seq(S)
  BY SMT
<1>3. a \o b = q
  <2>1. SubSeq(q, 1, m) \o SubSeq(q, m + 1, Len(q)) = SubSeq(q, 1, Len(q))
    <3>1. /\ 1 \in 1 .. Len(q) + 1 /\ m \in 1 - 1 .. Len(q) /\ Len(q) \in m .. Len(q)
      OBVIOUS
    <3> QED
      BY <3>1, ConcatAdjacentSubSeq
  <2> QED
    BY <2>1, SubSeqFull
<1> HIDE DEF a, b
<1>4. (w \o a) \o b = w \o (a \o b)
  BY <1>1, <1>2, ConcatAssociative
<1>5. w \o a \in Seq(S) /\ Len(w \o a) = Len(w) + Len(a)
  BY <1>1
<1> QED
  BY <1>1, <1>2, <1>3, <1>4, <1>5 DEF a, b, Moved

\* A frame added to the queue is the last one of both.
Appended(w, q, f) == w \o Append(q, f) = Append(w \o q, f)

LEMMA AppendedFacts ==
    ASSUME NEW S, NEW w \in Seq(S), NEW q \in Seq(S), NEW f \in S
    PROVE  Appended(w, q, f)
<1>1. Append(q, f) = q \o <<f>> /\ <<f>> \in Seq(S)
  BY AppendIsConcat
<1>2. w \o q \in Seq(S)
  OBVIOUS
<1>3. Append(w \o q, f) = (w \o q) \o <<f>>
  BY <1>2, AppendIsConcat
<1>4. (w \o q) \o <<f>> = w \o (q \o <<f>>)
  BY <1>1, ConcatAssociative
<1> QED
  BY <1>1, <1>3, <1>4 DEF Appended

\* flush, where it writes.
LEMMA FlushFacts ==
    ASSUME NEW n \in Nat, NEW l \in Links(n), Len(l.wire) <= WireLimit
    PROVE  /\ Flush(l) \in Links(n)
           /\ Len(Flush(l).wire) <= WireLimit
           /\ Flush(l).open = l.open
           /\ Flush(l).subscribed = l.subscribed
           /\ Flush(l).awaiting = l.awaiting
           /\ Content(Flush(l)) = Content(l)
<1> DEFINE room == WireLimit - Len(l.wire)
           m == IF Len(l.queued) < room THEN Len(l.queued) ELSE room
           w == SubSeq(l.queued, 1, m)
           q == SubSeq(l.queued, m + 1, Len(l.queued))
           r == [l EXCEPT !.wire = @ \o w, !.queued = q, !.blocked = (m = room)]
<1>1. l.wire \in Seq(Frames(n)) /\ l.queued \in Seq(Frames(n)) /\ WireLimit \in Nat
  BY LimitsAssumption DEF Links
<1>2. m \in 0 .. Len(l.queued) /\ m <= room
  <2>1. Len(l.wire) \in Nat /\ Len(l.queued) \in Nat
    BY <1>1
  <2>2. room \in Nat
    BY <1>1, <2>1
  <2> HIDE DEF room
  <2> QED
    BY <2>1, <2>2
<1>3. Flush(l) = IF l.blocked \/ m = 0 THEN l ELSE r
  BY DEF Flush
<1>4. CASE l.blocked \/ m = 0
  BY <1>3, <1>4
<1>5. CASE ~(l.blocked \/ m = 0)
  <2>1. Flush(l) = r
    BY <1>3, <1>5
  <2> HIDE DEF m
  <2>2. /\ q \in Seq(Frames(n)) /\ l.wire \o w \in Seq(Frames(n))
        /\ Len(l.wire \o w) = Len(l.wire) + m
        /\ (l.wire \o w) \o q = l.wire \o l.queued
    <3>1. l.wire \in Seq(Frames(n)) /\ l.queued \in Seq(Frames(n)) /\ m \in 0 .. Len(l.queued)
      BY <1>1, <1>2
    <3>2. Moved(Frames(n), l.wire, l.queued, m)
      BY <3>1, MovedFacts
    <3> QED
      BY <3>2 DEF Moved
  <2>3. Len(l.wire \o w) <= WireLimit
    <3>1. Len(l.wire) \in Nat /\ m \in Nat /\ m <= WireLimit - Len(l.wire)
      BY <1>1, <1>2
    <3>2. Len(l.wire \o w) = Len(l.wire) + m
      BY <2>2
    <3> HIDE DEF w
    <3> QED
      BY <1>1, <3>1, <3>2
  <2> HIDE DEF w, q
  <2>8. /\ r.wire = l.wire \o w /\ r.queued = q /\ r.open = l.open
        /\ r.subscribed = l.subscribed /\ r.awaiting = l.awaiting
        /\ r.blocked = (m = room)
    BY DEF Links
  <2>9. r \in Links(n)
    BY <2>2 DEF Links
  <2> HIDE DEF r
  <2> QED
    BY <2>1, <2>2, <2>3, <2>8, <2>9 DEF Content
<1> QED
  BY <1>4, <1>5

\* flush loses and reorders nothing.
LEMMA FlushOK ==
    ASSUME NEW n \in Nat, NEW l, LinkOK(l, n)
    PROVE  /\ LinkOK(Flush(l), n)
           /\ Flush(l).open = l.open
           /\ Flush(l).subscribed = l.subscribed
           /\ Flush(l).awaiting = l.awaiting
           /\ Content(Flush(l)) = Content(l)
  BY FlushFacts DEF LinkOK

\* A frame is written, queued or covered by a compaction.
LEMMA SendOK ==
    ASSUME NEW n \in Nat, NEW l, LinkOK(l, n), l.subscribed, NEW f \in Frames(n)
    PROVE  /\ LinkOK(Send(l, f), n)
           /\ Send(l, f).subscribed
           /\ l.awaiting # 0 => Send(l, f).awaiting # 0
           /\ l.awaiting = 0 =>
                \/ Content(Send(l, f)) = Append(Content(l), f)
                \/ Send(l, f).awaiting = f.number /\ Len(l.queued) >= QueueLimit
<1>1. /\ l \in Links(n) /\ l.open /\ Len(l.wire) <= WireLimit
      /\ l.queued \in Seq(Frames(n)) /\ l.wire \in Seq(Frames(n)) /\ l.awaiting \in 0 .. n
      /\ f.number \in 0 .. n
  BY DEF LinkOK, Links, Frames
<1>2. CASE l.awaiting # 0
  <2> DEFINE a == Larger(l.awaiting, f.number)
             r == [l EXCEPT !.awaiting = a]
  <2>1. Send(l, f) = r
    BY <1>1, <1>2 DEF Send
  <2>2. a \in 0 .. n /\ a # 0
    BY <1>1, <1>2 DEF Larger
  <2> HIDE DEF a
  <2>3. r \in Links(n) /\ r.wire = l.wire /\ r.open /\ r.subscribed /\ r.awaiting = a
    BY <1>1, <2>2 DEF Links
  <2> HIDE DEF r
  <2> QED
    BY <1>1, <1>2, <2>1, <2>2, <2>3 DEF LinkOK
<1>3. CASE l.awaiting = 0 /\ (~l.blocked \/ Len(l.queued) < QueueLimit)
  <2> DEFINE q == Append(l.queued, f)
             r == [l EXCEPT !.queued = q]
  <2>1. Send(l, f) = Flush(r)
    BY <1>1, <1>3 DEF Send
  <2>2. q \in Seq(Frames(n))
    BY <1>1
  <2>3. l.wire \o q = Append(l.wire \o l.queued, f)
    <3>1. Appended(l.wire, l.queued, f)
      BY <1>1, AppendedFacts
    <3> QED
      BY <3>1 DEF Appended
  <2> HIDE DEF q
  <2>4. /\ r \in Links(n) /\ r.wire = l.wire /\ r.open /\ r.subscribed /\ r.awaiting = 0
        /\ r.queued = q
    BY <1>1, <1>3, <2>2 DEF Links
  <2> HIDE DEF r
  <2>5. LinkOK(r, n)
    BY <1>1, <2>4 DEF LinkOK
  <2>6. Content(r) = Append(Content(l), f)
    BY <2>3, <2>4 DEF Content
  <2> QED
    BY <1>3, <2>1, <2>4, <2>5, <2>6, FlushOK
<1>4. CASE l.awaiting = 0 /\ ~(~l.blocked \/ Len(l.queued) < QueueLimit)
  <2> DEFINE a == f.number
             r == [l EXCEPT !.queued = <<>>, !.awaiting = a]
  <2>1. Send(l, f) = r
    BY <1>1, <1>4 DEF Send
  <2>2. a \in 0 .. n
    BY <1>1
  <2> HIDE DEF a
  <2>5. r.wire = l.wire /\ r.open = l.open /\ r.subscribed = l.subscribed /\ r.awaiting = a
    BY <1>1 DEF Links
  <2>6. r \in Links(n)
    <3>1. <<>> \in Seq(Frames(n))
      BY EmptySeq
    <3> QED
      BY <1>1, <2>2, <3>1 DEF Links
  <2>3. /\ r \in Links(n) /\ r.wire = l.wire /\ r.open /\ r.subscribed /\ r.awaiting = a
    BY <1>1, <2>5, <2>6
  <2> HIDE DEF r
  <2>4. Len(l.queued) >= QueueLimit
    BY <1>1, <1>4, LimitsAssumption
  <2> QED
    BY <1>1, <1>4, <2>1, <2>3, <2>4 DEF LinkOK, a
<1> QED
  BY <1>2, <1>3, <1>4

-----------------------------------------------------------------------------
(* Sending many frames, and broadcasting one.                              *)

\* The recursive function of SendAll, as an equation.
Sends(f, l, frames, m) ==
    f = [n \in 0 .. m |-> IF n = 0 THEN l ELSE Send(f[n - 1], frames[n])]

\* The equations of SendAll have a solution.
LEMMA SendsExists ==
    ASSUME NEW l, NEW frames, NEW m \in Nat
    PROVE  \E f : Sends(f, l, frames, m)
<1> DEFINE T == {n \in Nat : \E f : Sends(f, l, frames, n)}
<1>1. 0 \in T
  <2>1. Sends([n \in 0 .. 0 |-> l], l, frames, 0)
    BY DEF Sends
  <2> QED
    BY <2>1
<1>2. ASSUME NEW n \in T PROVE n + 1 \in T
  <2>1. PICK f : Sends(f, l, frames, n)
    OBVIOUS
  <2> DEFINE last == Send(f[n], frames[n + 1])
             g == [i \in 0 .. n + 1 |-> IF i = n + 1 THEN last ELSE f[i]]
  <2> HIDE DEF last
  <2>2. ASSUME NEW i \in 0 .. n + 1
        PROVE  g[i] = IF i = 0 THEN l ELSE Send(g[i - 1], frames[i])
    <3>1. CASE i = n + 1
      <4>1. g[i] = last /\ g[i - 1] = f[n] /\ i # 0
        BY <3>1
      <4> QED
        BY <3>1, <4>1 DEF last
    <3>2. CASE i # n + 1
      <4>1. i \in 0 .. n /\ g[i] = f[i] /\ (i # 0 => g[i - 1] = f[i - 1])
        BY <3>2
      <4>2. f[i] = IF i = 0 THEN l ELSE Send(f[i - 1], frames[i])
        BY <2>1, <4>1 DEF Sends
      <4> QED
        BY <4>1, <4>2
    <3> QED
      BY <3>1, <3>2
  <2>3. Sends(g, l, frames, n + 1)
    BY <2>2 DEF Sends
  <2> QED
    BY <2>3
<1>3. T = Nat
  BY <1>1, <1>2, SetInduction
<1> QED
  BY <1>3

\* A connection with room that is sent frames has them all on their way, or
\* waits for a checkpoint that covers them.
Carries(r, w, frames) == r.awaiting # 0 \/ Content(r) = w \o frames

\* Frames sent one after the other arrive in order, unless a compaction began.
LEMMA SendAllOK ==
    ASSUME NEW n \in Nat, NEW l, LinkOK(l, n), l.subscribed,
           l.queued = <<>>, l.awaiting = 0,
           NEW frames \in Seq(Frames(n)),
           \A i \in 2 .. Len(frames) : frames[i].number # 0
    PROVE  /\ LinkOK(SendAll(l, frames), n)
           /\ SendAll(l, frames).subscribed
           /\ Carries(SendAll(l, frames), l.wire, frames)
<1> DEFINE sent == CHOOSE f : Sends(f, l, frames, Len(frames))
<1>1. SendAll(l, frames) = sent[Len(frames)]
  BY Zenon DEF SendAll, Sends
<1>2. Len(frames) \in Nat
  OBVIOUS
<1>3. Sends(sent, l, frames, Len(frames))
  BY <1>2, SendsExists
<1> HIDE DEF sent
<1> DEFINE Good(k) == /\ LinkOK(sent[k], n)
                      /\ sent[k].subscribed
                      /\ Carries(sent[k], l.wire, SubSeq(frames, 1, k))
           T == {k \in Nat : k <= Len(frames) => Good(k)}
<1>4. l.wire \in Seq(Frames(n))
  BY DEF LinkOK, Links
<1>5. 0 \in T
  <2>1. sent[0] = l
    BY <1>2, <1>3 DEF Sends
  <2>2. SubSeq(frames, 1, 0) = <<>>
    BY SubSeqEmpty
  <2>3. Carries(l, l.wire, SubSeq(frames, 1, 0))
    BY <2>2 DEF Carries, Content
  <2> QED
    BY <2>1, <2>3
<1>6. ASSUME NEW k \in T PROVE k + 1 \in T
  <2> SUFFICES ASSUME k + 1 <= Len(frames) PROVE Good(k + 1)
    OBVIOUS
  <2> DEFINE f == frames[k + 1]
             s == sent[k]
             F == SubSeq(frames, 1, k)
  <2>1. k \in Nat /\ Good(k)
    BY <1>2
  <2>2. sent[k + 1] = Send(s, f)
    BY <1>2, <1>3, <2>1 DEF Sends
  <2>3. f \in Frames(n)
    BY <2>1
  <2>4. F \in Seq(Frames(n)) /\ SubSeq(frames, 1, k + 1) = Append(F, f)
    <3>1. F \in Seq(Frames(n))
      BY <2>1
    <3>2. 1 \in 1 .. Len(frames) /\ k + 1 \in 1 .. Len(frames) /\ (k + 1) - 1 = k
      BY <2>1
    <3>3. SubSeq(frames, 1, k + 1) = SubSeq(frames, 1, (k + 1) - 1) \o <<f>>
      BY <3>2, SubSeqRecursiveSecond
    <3>4. Append(F, f) = F \o <<f>>
      BY <2>3, <3>1, AppendIsConcat
    <3> QED
      BY <3>1, <3>2, <3>3, <3>4
  <2>5. f.number # 0 \/ k = 0
    BY <2>1
  <2>6. k = 0 => s = l
    BY <1>2, <1>3 DEF Sends
  <2> HIDE DEF f, s, F
  <2>7. LinkOK(s, n) /\ s.subscribed /\ Carries(s, l.wire, F)
    BY <2>1 DEF s, F
  <2>8. /\ LinkOK(Send(s, f), n) /\ Send(s, f).subscribed
        /\ s.awaiting # 0 => Send(s, f).awaiting # 0
        /\ s.awaiting = 0 =>
             \/ Content(Send(s, f)) = Append(Content(s), f)
             \/ Send(s, f).awaiting = f.number /\ Len(s.queued) >= QueueLimit
    BY <2>3, <2>7, SendOK
  <2>9. Carries(Send(s, f), l.wire, Append(F, f))
    <3>1. Appended(l.wire, F, f)
      BY <1>4, <2>3, <2>4, AppendedFacts
    <3>2. ~(Send(s, f).awaiting = 0 /\ Send(s, f).awaiting = f.number
            /\ Len(s.queued) >= QueueLimit)
      <4>1. CASE k = 0
        BY <2>6, <4>1, LimitsAssumption
      <4>2. CASE k # 0
        BY <2>5, <4>2
      <4> QED
        BY <4>1, <4>2
    <3> QED
      BY <2>7, <2>8, <3>1, <3>2 DEF Carries, Appended
  <2> QED
    BY <2>2, <2>4, <2>8, <2>9
<1>7. T = Nat
  BY <1>5, <1>6, SetInduction
<1>8. Good(Len(frames))
  BY <1>2, <1>7
<1>9. SubSeq(frames, 1, Len(frames)) = frames
  BY SubSeqFull
<1> QED
  BY <1>1, <1>8, <1>9

-----------------------------------------------------------------------------
LEMMA LinkGrows ==
    ASSUME NEW n \in Nat, NEW l, LinkOK(l, n)
    PROVE  LinkOK(l, n + 1)
<1>1. Frames(n) \subseteq Frames(n + 1)
  BY DEF Frames
<1>2. l.queued \in Seq(Frames(n + 1)) /\ l.wire \in Seq(Frames(n + 1))
  BY <1>1, SeqMonotonic DEF LinkOK, Links
<1>3. l.awaiting \in 0 .. n + 1
  BY DEF LinkOK, Links
<1>4. l \in Links(n + 1)
  BY <1>2, <1>3 DEF LinkOK, Links
<1> QED
  BY <1>4 DEF LinkOK

\* The next record reaches a connection: it is on its way after what was, or
\* a checkpoint will cover it; and a checkpoint covers what was dropped.
LEMMA BroadcastOK ==
    ASSUME NEW n \in Nat, NEW l, LinkOK(l, n),
           NEW f \in Frames(n + 1), f.number = n + 1
    PROVE  /\ LinkOK(Broadcast(l, f), n + 1)
           /\ Broadcast(l, f).subscribed = l.subscribed
           /\ ~l.subscribed => Broadcast(l, f) = l
           /\ l.subscribed /\ f.kind = "event" =>
                \/ Broadcast(l, f).awaiting # 0
                \/ l.awaiting = 0 /\ Content(Broadcast(l, f)) = Append(Content(l), f)
           /\ l.subscribed /\ f.kind = "checkpoint" =>
                \/ /\ l.awaiting = 0
                   /\ Broadcast(l, f).awaiting # 0
                \/ \E w \in Seq(Frames(n + 1)) : Content(Broadcast(l, f)) = Append(w, f)
           /\ f.kind = "checkpoint" /\ l.awaiting # 0 => Broadcast(l, f).awaiting = 0
<1>1. LinkOK(l, n + 1)
  BY LinkGrows
<1>2. /\ l \in Links(n + 1) /\ l.queued \in Seq(Frames(n + 1))
      /\ l.wire \in Seq(Frames(n + 1)) /\ l.awaiting \in 0 .. n /\ l.subscribed \in BOOLEAN
  BY <1>1 DEF LinkOK, Links
<1>3. CASE ~l.subscribed
  <2>1. Broadcast(l, f) = l
    BY <1>3 DEF Broadcast
  <2>2. l.awaiting = 0
    BY <1>3 DEF LinkOK
  <2> QED
    BY <1>1, <1>3, <2>1, <2>2
<1>4. CASE l.subscribed /\ f.kind = "checkpoint" /\ l.awaiting # 0
  <2> DEFINE r == [l EXCEPT !.awaiting = 0, !.queued = <<f>>]
  <2>1. Broadcast(l, f) = Flush(r)
    <3>1. ~(f.number < l.awaiting)
      BY <1>2
    <3> QED
      BY <1>4, <3>1 DEF Broadcast, Install
  <2>2. <<f>> \in Seq(Frames(n + 1)) /\ <<f>> = Append(<<>>, f) /\ <<>> \in Seq(Frames(n + 1))
    OBVIOUS
  <2>3. r.awaiting = 0 /\ r.queued = <<f>> /\ r.wire = l.wire
    BY <1>2 DEF Links
  <2>4. r.subscribed = l.subscribed /\ r.open = l.open
    BY <1>2 DEF Links
  <2>5. r \in Links(n + 1)
    <3> DEFINE q == <<f>>
               a == 0
    <3>1. q \in Seq(Frames(n + 1)) /\ a \in 0 .. n + 1
      BY <2>2
    <3> HIDE DEF q, a
    <3>2. [l EXCEPT !.awaiting = a, !.queued = q] \in Links(n + 1)
      BY <1>2, <3>1 DEF Links
    <3> QED
      BY <3>2 DEF q, a
  <2> HIDE DEF r
  <2>6. LinkOK(r, n + 1)
    BY <1>1, <1>4, <2>3, <2>4, <2>5 DEF LinkOK
  <2>7. Content(r) = Append(l.wire, f)
    <3>1. Appended(l.wire, <<>>, f)
      BY <1>2, <2>2, AppendedFacts
    <3>2. l.wire \o <<>> = l.wire
      BY <1>2, ConcatEmptySeq
    <3> QED
      BY <2>2, <2>3, <3>1, <3>2 DEF Content, Appended
  <2>8. /\ LinkOK(Flush(r), n + 1) /\ Flush(r).subscribed = r.subscribed
        /\ Flush(r).awaiting = r.awaiting /\ Content(Flush(r)) = Content(r)
    BY <2>6, FlushOK
  <2> QED
    BY <1>2, <1>4, <2>1, <2>3, <2>4, <2>7, <2>8
<1>5. CASE l.subscribed /\ ~(f.kind = "checkpoint" /\ l.awaiting # 0)
  <2>1. Broadcast(l, f) = Send(l, f)
    BY <1>5 DEF Broadcast
  <2>2. /\ LinkOK(Send(l, f), n + 1)
        /\ Send(l, f).subscribed
        /\ l.awaiting # 0 => Send(l, f).awaiting # 0
        /\ l.awaiting = 0 =>
             \/ Content(Send(l, f)) = Append(Content(l), f)
             \/ Send(l, f).awaiting = f.number /\ Len(l.queued) >= QueueLimit
    BY <1>1, <1>5, SendOK
  <2>3. f.number # 0
    OBVIOUS
  <2>4. Send(l, f).subscribed = l.subscribed
    BY <1>5, <2>2 DEF LinkOK, Links
  <2>5. Content(l) \in Seq(Frames(n + 1))
    BY <1>2 DEF Content
  <2> HIDE DEF Content
  <2> QED
    BY <1>5, <2>1, <2>2, <2>3, <2>4, <2>5
<1> QED
  BY <1>3, <1>4, <1>5

-----------------------------------------------------------------------------
(* One tab, and what the frames on their way bring it.                     *)

\* Types of a tab.
Views(n) ==
    [subscribed : BOOLEAN, request : {"none", "posted", "granted"},
     buffered : Seq(Records(n)), resync : BOOLEAN, copy : 0 .. n, exact : BOOLEAN]

\* A tab by itself.
TabOK(b, n) ==
    /\ b \in Views(n)
    /\ b.exact
    /\ b.subscribed => b.buffered = <<>>

\* The last k frames are the events that lead to record n.
EndsInEvents(F, k, n) ==
    \A m \in 0 .. k - 1 : F[Len(F) - m] = [kind |-> "event", number |-> n - m]

\* The frames F take a tab that shows c to record n: either they contain a
\* checkpoint, and the events after it lead there, or they are all events, and
\* they continue what the tab shows.
Delivers(F, c, n) ==
    \/ \E k \in 0 .. Len(F) - 1 :
          /\ k < n
          /\ EndsInEvents(F, k, n)
          /\ F[Len(F) - k] = [kind |-> "checkpoint", number |-> n - k]
    \/ c # 0 /\ c + Len(F) >= n /\ EndsInEvents(F, Len(F), n)

-----------------------------------------------------------------------------
\* The end of a sequence, counted from its last element.
LEMMA AppendEnd ==
    ASSUME NEW S, NEW F \in Seq(S), NEW f \in S
    PROVE  /\ Len(Append(F, f)) = Len(F) + 1
           /\ Append(F, f)[Len(F) + 1] = f
           /\ \A m \in 1 .. Len(F) : Append(F, f)[(Len(F) + 1) - m] = F[Len(F) - (m - 1)]
<1>1. Len(Append(F, f)) = Len(F) + 1 /\ Append(F, f)[Len(F) + 1] = f /\ Len(F) \in Nat
  BY AppendProperties
<1>2. ASSUME NEW m \in 1 .. Len(F)
      PROVE  Append(F, f)[(Len(F) + 1) - m] = F[Len(F) - (m - 1)]
  <2>1. (Len(F) + 1) - m \in 1 .. Len(F) /\ (Len(F) + 1) - m = Len(F) - (m - 1)
    BY <1>1
  <2>2. \A i \in 1 .. Len(F) : Append(F, f)[i] = F[i]
    BY AppendProperties
  <2> QED
    BY <2>1, <2>2
<1> QED
  BY <1>1, <1>2

\* One more event continues what is on its way.
LEMMA DeliversEvent ==
    ASSUME NEW n \in Nat, NEW S, NEW F \in Seq(S), NEW c \in 0 .. n, Delivers(F, c, n),
           NEW f \in S, f = [kind |-> "event", number |-> n + 1]
    PROVE  Delivers(Append(F, f), c, n + 1)
<1> DEFINE G == Append(F, f)
<1>1. /\ Len(F) \in Nat /\ Len(G) = Len(F) + 1 /\ G[Len(F) + 1] = f
      /\ \A m \in 1 .. Len(F) : G[(Len(F) + 1) - m] = F[Len(F) - (m - 1)]
  BY AppendEnd
<1> HIDE DEF G
<1>2. ASSUME NEW k \in 0 .. Len(F), EndsInEvents(F, k, n)
      PROVE  EndsInEvents(G, k + 1, n + 1)
  <2> SUFFICES ASSUME NEW m \in 0 .. k
               PROVE  G[Len(G) - m] = [kind |-> "event", number |-> (n + 1) - m]
    BY <1>1 DEF EndsInEvents
  <2>1. CASE m = 0
    BY <1>1, <2>1
  <2>2. CASE m # 0
    <3>1. m - 1 \in 0 .. k - 1 /\ m \in 1 .. Len(F) /\ (n + 1) - m = n - (m - 1)
      BY <1>1, <2>2
    <3>2. F[Len(F) - (m - 1)] = [kind |-> "event", number |-> n - (m - 1)]
      BY <1>2, <3>1 DEF EndsInEvents
    <3> QED
      BY <1>1, <3>1, <3>2
  <2> QED
    BY <2>1, <2>2
<1>3. CASE c # 0 /\ c + Len(F) >= n /\ EndsInEvents(F, Len(F), n)
  <2>1. EndsInEvents(G, Len(G), n + 1)
    BY <1>1, <1>2, <1>3
  <2>2. c + Len(G) >= n + 1
    BY <1>1, <1>3
  <2> QED
    BY <1>3, <2>1, <2>2 DEF Delivers, G
<1>4. ASSUME NEW k \in 0 .. Len(F) - 1, k < n, EndsInEvents(F, k, n),
             F[Len(F) - k] = [kind |-> "checkpoint", number |-> n - k]
      PROVE  Delivers(G, c, n + 1)
  <2>1. EndsInEvents(G, k + 1, n + 1)
    BY <1>1, <1>2, <1>4
  <2>2. k + 1 \in 0 .. Len(G) - 1 /\ k + 1 < n + 1 /\ (n + 1) - (k + 1) = n - k
    BY <1>1, <1>4
  <2>3. G[Len(G) - (k + 1)] = [kind |-> "checkpoint", number |-> (n + 1) - (k + 1)]
    <3>1. k + 1 \in 1 .. Len(F) /\ (k + 1) - 1 = k
      BY <1>1, <1>4
    <3>2. G[(Len(F) + 1) - (k + 1)] = F[Len(F) - ((k + 1) - 1)]
      BY <1>1, <3>1
    <3> QED
      BY <1>1, <1>4, <2>2, <3>1, <3>2
  <2> QED
    BY <2>1, <2>2, <2>3 DEF Delivers
<1> QED
  BY <1>3, <1>4 DEF Delivers, G

\* A checkpoint of the latest record makes up for whatever went before.
LEMMA DeliversCheckpoint ==
    ASSUME NEW n \in Nat, NEW S, NEW F \in Seq(S), NEW c,
           NEW f \in S, f = [kind |-> "checkpoint", number |-> n + 1]
    PROVE  Delivers(Append(F, f), c, n + 1)
<1> DEFINE G == Append(F, f)
<1>1. Len(F) \in Nat /\ Len(G) = Len(F) + 1 /\ G[Len(F) + 1] = f
  BY AppendEnd
<1> HIDE DEF G
<1>2. 0 \in 0 .. Len(G) - 1 /\ 0 < n + 1
  BY <1>1
<1>3. G[Len(G) - 0] = [kind |-> "checkpoint", number |-> (n + 1) - 0]
  BY <1>1
<1>4. EndsInEvents(G, 0, n + 1)
  BY DEF EndsInEvents
<1>5. Delivers(G, c, n + 1)
  BY <1>2, <1>3, <1>4 DEF Delivers
<1> QED
  BY <1>5 DEF G

\* Positions counted from the end, when the first element of G goes.
LEMMA DroppedEnd ==
    ASSUME NEW S, NEW B \in Seq(S), NEW G \in Seq(S), G # <<>>
    PROVE  /\ Len(B \o Tail(G)) = Len(B \o G) - 1
           /\ Len(B \o G) = Len(B) + Len(G)
           /\ Len(B) \in Nat /\ Len(G) \in Nat \ {0}
           /\ (B \o G)[Len(B) + 1] = Head(G)
           /\ \A m \in 0 .. Len(G) - 2 :
                (B \o Tail(G))[Len(B \o Tail(G)) - m] = (B \o G)[Len(B \o G) - m]
<1>1. /\ Len(G) \in Nat \ {0} /\ Len(B) \in Nat
      /\ Tail(G) \in Seq(S) /\ Len(Tail(G)) = Len(G) - 1
      /\ \A i \in 1 .. Len(Tail(G)) : Tail(G)[i] = G[i + 1]
  BY HeadTailProperties, EmptySeq
<1>2. /\ Len(B \o G) = Len(B) + Len(G)
      /\ \A i \in 1 .. Len(B) + Len(G) :
            (B \o G)[i] = IF i <= Len(B) THEN B[i] ELSE G[i - Len(B)]
  BY ConcatProperties
<1> DEFINE H == Tail(G)
<1>3. H \in Seq(S) /\ Len(H) = Len(G) - 1 /\ \A i \in 1 .. Len(H) : H[i] = G[i + 1]
  BY <1>1
<1>4. Head(G) = G[1]
  BY <1>1
<1> HIDE DEF H
<1>5. /\ Len(B \o H) = Len(B) + Len(H)
      /\ \A i \in 1 .. Len(B) + Len(H) :
            (B \o H)[i] = IF i <= Len(B) THEN B[i] ELSE H[i - Len(B)]
  BY <1>3, ConcatProperties
<1>6. ASSUME NEW m \in 0 .. Len(G) - 2
      PROVE  (B \o H)[Len(B \o H) - m] = (B \o G)[Len(B \o G) - m]
  <2> DEFINE i == Len(B) + Len(G) - 1 - m
  <2>1. /\ i \in 1 .. Len(B) + Len(H) /\ i > Len(B) /\ i + 1 \in 1 .. Len(B) + Len(G)
        /\ Len(B \o H) - m = i /\ Len(B \o G) - m = i + 1
        /\ i - Len(B) \in 1 .. Len(H) /\ (i + 1) - Len(B) = (i - Len(B)) + 1
    BY <1>1, <1>2, <1>3, <1>5
  <2> HIDE DEF i
  <2>2. (B \o H)[i] = H[i - Len(B)]
    BY <1>1, <1>5, <2>1
  <2>3. (B \o G)[i + 1] = G[(i + 1) - Len(B)]
    BY <1>1, <1>2, <2>1
  <2>4. H[i - Len(B)] = G[(i - Len(B)) + 1]
    BY <1>3, <2>1
  <2> QED
    BY <2>1, <2>2, <2>3, <2>4
<1>7. (B \o G)[Len(B) + 1] = Head(G)
  <2>1. Len(B) + 1 \in 1 .. Len(B) + Len(G) /\ (Len(B) + 1) - Len(B) = 1
    BY <1>1
  <2> QED
    BY <1>1, <1>2, <1>4, <2>1
<1>8. Len(B \o H) = Len(B \o G) - 1
  BY <1>1, <1>2, <1>3, <1>5
<1> QED
  BY <1>1, <1>2, <1>6, <1>7, <1>8 DEF H

\* What neither shows anything nor changes what the frames behind it show.
LEMMA DeliversWithout ==
    ASSUME NEW n \in Nat, NEW S, NEW B \in Seq(S), NEW G \in Seq(S), G # <<>>, NEW c, NEW d,
           Head(G).kind \notin {"checkpoint", "event"}, Delivers(B \o G, c, n)
    PROVE  Delivers(B \o Tail(G), d, n)
<1> DEFINE F == B \o G
           H == B \o Tail(G)
           p == Len(B) + 1
<1>1. /\ Len(H) = Len(F) - 1 /\ Len(F) = Len(B) + Len(G)
      /\ Len(B) \in Nat /\ Len(G) \in Nat \ {0} /\ F[p] = Head(G)
      /\ \A m \in 0 .. Len(G) - 2 : H[Len(H) - m] = F[Len(F) - m]
  BY DroppedEnd
<1> HIDE DEF F, H
<1>2. ASSUME NEW m \in Nat, F[Len(F) - m] = [kind |-> "event", number |-> n - m] PROVE Len(F) - m # p
  BY <1>1, <1>2
<1>3. ~EndsInEvents(F, Len(F), n)
  <2> SUFFICES ASSUME EndsInEvents(F, Len(F), n) PROVE FALSE
    OBVIOUS
  <2> DEFINE m == Len(G) - 1
  <2>1. m \in 0 .. Len(F) - 1 /\ m \in Nat /\ Len(F) - m = p
    BY <1>1
  <2> HIDE DEF m
  <2>2. F[Len(F) - m] = [kind |-> "event", number |-> n - m]
    BY <2>1 DEF EndsInEvents
  <2> QED
    BY <1>2, <2>1, <2>2
<1>4. PICK k \in 0 .. Len(F) - 1 :
         /\ k < n
         /\ EndsInEvents(F, k, n)
         /\ F[Len(F) - k] = [kind |-> "checkpoint", number |-> n - k]
  BY <1>3 DEF Delivers, F
<1>5. Len(F) - k # p
  BY <1>1, <1>4
<1>6. k <= Len(G) - 2
  <2> DEFINE m == Len(G) - 1
  <2>1. m \in Nat /\ Len(F) - m = p
    BY <1>1
  <2>2. m = Len(G) - 1
    OBVIOUS
  <2> HIDE DEF m
  <2>3. k # m
    BY <1>5, <2>1
  <2>4. ~(m \in 0 .. k - 1)
    <3> SUFFICES ASSUME m \in 0 .. k - 1 PROVE FALSE
      OBVIOUS
    <3>1. F[Len(F) - m] = [kind |-> "event", number |-> n - m]
      BY <1>4 DEF EndsInEvents
    <3> QED
      BY <1>2, <2>1, <3>1
  <2> QED
    BY <1>1, <2>1, <2>2, <2>3, <2>4
<1>7. k \in 0 .. Len(H) - 1
  BY <1>1, <1>6
<1>8. EndsInEvents(H, k, n)
  <2> SUFFICES ASSUME NEW m \in 0 .. k - 1
               PROVE  H[Len(H) - m] = [kind |-> "event", number |-> n - m]
    BY DEF EndsInEvents
  <2>1. m \in 0 .. Len(G) - 2
    BY <1>1, <1>6
  <2> QED
    BY <1>1, <1>4, <2>1 DEF EndsInEvents
<1>9. H[Len(H) - k] = [kind |-> "checkpoint", number |-> n - k]
  <2>1. k \in 0 .. Len(G) - 2
    BY <1>1, <1>6
  <2> QED
    BY <1>1, <1>4, <2>1
<1> QED
  BY <1>4, <1>7, <1>8, <1>9 DEF Delivers, H

-----------------------------------------------------------------------------
(* The tab handles a frame.                                                *)

\* A record that is applied, or makes the tab subscribe again.
LEMMA ApplyOK ==
    ASSUME NEW n \in Nat, NEW b, TabOK(b, n), b.subscribed, NEW f \in Records(n)
    PROVE  /\ TabOK(Apply(b, f), n)
           /\ Apply(b, f).copy >= b.copy
           /\ \/ Apply(b, f).subscribed /\ Apply(b, f).request = b.request
              \/ ~Apply(b, f).subscribed /\ Apply(b, f).request = "posted"
<1>1. /\ b \in Views(n) /\ b.exact = TRUE /\ b.subscribed = TRUE /\ b.buffered = <<>>
      /\ b.copy \in 0 .. n /\ f.number \in 0 .. n /\ f.kind \in {"checkpoint", "event"}
      /\ b.resync \in BOOLEAN
  BY DEF TabOK, Views, Records
<1> DEFINE r == [b EXCEPT !.resync = TRUE, !.subscribed = FALSE,
                          !.buffered = <<>>, !.request = "posted"]
           e == \/ f.kind = "checkpoint"
                \/ b.exact /\ f.number = b.copy + 1
           c == f.number
           s == [b EXCEPT !.copy = c, !.exact = e]
<1>2. Resync(b) = b \/ Resync(b) = r
  BY DEF Resync
<1>3. Shows(b, f) = s
  BY DEF Shows
<1>4. TabOK(r, n) /\ ~r.subscribed /\ r.request = "posted" /\ r.copy = b.copy
  <2> DEFINE q == <<>>
  <2>1. q \in Seq(Records(n))
    BY EmptySeq
  <2> HIDE DEF q
  <2>2. [b EXCEPT !.resync = TRUE, !.subscribed = FALSE,
                  !.buffered = q, !.request = "posted"] \in Views(n)
    BY <1>1, <2>1 DEF Views
  <2>3. r \in Views(n)
    BY <2>2 DEF q
  <2>4. r.subscribed = FALSE /\ r.request = "posted" /\ r.exact = b.exact
    BY <1>1 DEF Views
  <2>5. r.copy = b.copy
    BY <1>1 DEF Views
  <2> QED
    BY <1>1, <2>3, <2>4, <2>5 DEF TabOK
<1>5. ASSUME ~(f.kind = "event" /\ (b.copy = 0 \/ f.number > b.copy + 1)),
             ~(f.number <= b.copy)
      PROVE  TabOK(s, n) /\ s.subscribed /\ s.request = b.request /\ s.copy >= b.copy
  <2>1. e = TRUE
    BY <1>1, <1>5
  <2>2. c \in 0 .. n /\ c >= b.copy
    BY <1>1, <1>5
  <2> HIDE DEF e, c
  <2>3. s \in Views(n)
    BY <1>1, <2>1, <2>2 DEF Views
  <2>4. s.exact = e /\ s.subscribed = b.subscribed
    BY <1>1 DEF Views
  <2>5. s.buffered = b.buffered /\ s.request = b.request /\ s.copy = c
    BY <1>1 DEF Views
  <2> QED
    BY <1>1, <2>1, <2>2, <2>3, <2>4, <2>5 DEF TabOK
<1>6. \/ Apply(b, f) = Resync(b)
      \/ Apply(b, f) = b
      \/ /\ Apply(b, f) = s
         /\ ~(f.kind = "event" /\ (b.copy = 0 \/ f.number > b.copy + 1))
         /\ ~(f.number <= b.copy)
  BY <1>3 DEF Apply
<1> HIDE DEF r, s
<1> QED
  BY <1>1, <1>2, <1>4, <1>5, <1>6

\* Applying the first frame leaves the rest to deliver the same record, if
\* the tab does not subscribe again.
LEMMA DeliversTail ==
    ASSUME NEW n \in Nat, NEW S, NEW G \in Seq(S), G # <<>>,
           NEW b, TabOK(b, n), b.subscribed, Head(G) \in Records(n),
           Delivers(G, b.copy, n), Apply(b, Head(G)).subscribed
    PROVE  Delivers(Tail(G), Apply(b, Head(G)).copy, n)
<1> DEFINE H == Tail(G)
           f == Head(G)
           r == Apply(b, f)
<1>1. /\ Len(H) = Len(G) - 1 /\ Len(G) \in Nat \ {0} /\ G[1] = f
      /\ \A m \in 0 .. Len(G) - 2 : H[Len(H) - m] = G[Len(G) - m]
  <2>1. <<>> \in Seq(S) /\ Tail(G) \in Seq(S)
    BY HeadTailProperties
  <2>2. <<>> \o Tail(G) = Tail(G) /\ <<>> \o G = G
    BY <2>1, ConcatEmptySeq
  <2>3. /\ Len(<<>> \o Tail(G)) = Len(<<>> \o G) - 1
        /\ Len(G) \in Nat \ {0}
        /\ (<<>> \o G)[Len(<<>>) + 1] = Head(G)
        /\ \A m \in 0 .. Len(G) - 2 :
             (<<>> \o Tail(G))[Len(<<>> \o Tail(G)) - m] = (<<>> \o G)[Len(<<>> \o G) - m]
    BY <2>1, DroppedEnd
  <2>4. Len(<<>>) + 1 = 1
    BY <2>1
  <2> QED
    BY <2>2, <2>3, <2>4
<1>2. /\ b \in Views(n) /\ b.copy \in 0 .. n /\ f.number \in 0 .. n
      /\ f.kind \in {"checkpoint", "event"}
  BY DEF TabOK, Views, Records
<1>3. /\ r.subscribed
      /\ \/ f.number <= b.copy /\ r.copy = b.copy
         \/ f.number > b.copy /\ r.copy = f.number
         \/ /\ f.kind = "event" /\ (b.copy = 0 \/ f.number > b.copy + 1)
            /\ r.copy = b.copy
  <2>1. Shows(b, f).copy = f.number
    BY <1>2 DEF Shows, Views
  <2>2. Resync(b) = b \/ ~Resync(b).subscribed
    BY <1>2 DEF Resync, Views
  <2> HIDE DEF f
  <2>3. r.subscribed
    BY DEF f
  <2> QED
    BY <1>2, <2>1, <2>2, <2>3 DEF Apply
<1> HIDE DEF H, f, r
<1>4. ASSUME NEW k \in 0 .. Len(G) - 1, EndsInEvents(G, k, n)
      PROVE  EndsInEvents(H, k, n)
  <2> SUFFICES ASSUME NEW m \in 0 .. k - 1
               PROVE  H[Len(H) - m] = [kind |-> "event", number |-> n - m]
    BY DEF EndsInEvents
  <2>1. m \in 0 .. Len(G) - 2
    BY <1>1
  <2> QED
    BY <1>1, <1>4, <2>1 DEF EndsInEvents
<1>5. ASSUME NEW k \in 0 .. Len(G) - 1, k < n, EndsInEvents(G, k, n),
             G[Len(G) - k] = [kind |-> "checkpoint", number |-> n - k]
      PROVE  Delivers(H, r.copy, n)
  <2>1. EndsInEvents(H, k, n)
    BY <1>4, <1>5
  <2>2. CASE k < Len(G) - 1
    <3>1. k \in 0 .. Len(G) - 2 /\ k \in 0 .. Len(H) - 1
      BY <1>1, <2>2
    <3> QED
      BY <1>1, <1>5, <2>1, <3>1 DEF Delivers
  <2>3. CASE k = Len(G) - 1
    <3>1. f = [kind |-> "checkpoint", number |-> n - k] /\ Len(H) = k
      BY <1>1, <1>5, <2>3
    <3>2. f.kind = "checkpoint" /\ f.number = n - k
      BY <3>1
    <3>3. r.copy # 0 /\ r.copy + k >= n
      BY <1>2, <1>3, <1>5, <3>2
    <3> QED
      BY <2>1, <3>1, <3>3 DEF Delivers
  <2> QED
    BY <1>1, <1>5, <2>2, <2>3
<1>6. ASSUME b.copy # 0, b.copy + Len(G) >= n, EndsInEvents(G, Len(G), n)
      PROVE  Delivers(H, r.copy, n)
  <2>1. f = [kind |-> "event", number |-> n - (Len(G) - 1)]
    <3>1. Len(G) - 1 \in 0 .. Len(G) - 1 /\ Len(G) - (Len(G) - 1) = 1
      BY <1>1
    <3>2. G[Len(G) - (Len(G) - 1)] = [kind |-> "event", number |-> n - (Len(G) - 1)]
      BY <1>6, <3>1 DEF EndsInEvents
    <3> QED
      BY <1>1, <3>1, <3>2
  <2>2. f.kind = "event" /\ f.number = n - (Len(G) - 1)
    BY <2>1
  <2>3. r.copy # 0 /\ r.copy + Len(H) >= n
    BY <1>1, <1>2, <1>3, <1>6, <2>2
  <2>4. EndsInEvents(G, Len(H), n)
    BY <1>1, <1>6 DEF EndsInEvents
  <2>5. EndsInEvents(H, Len(H), n)
    BY <1>1, <1>4, <2>4
  <2> QED
    BY <2>3, <2>5 DEF Delivers
<1>7. \/ b.copy # 0 /\ b.copy + Len(G) >= n /\ EndsInEvents(G, Len(G), n)
      \/ \E k \in 0 .. Len(G) - 1 :
            /\ k < n
            /\ EndsInEvents(G, k, n)
            /\ G[Len(G) - k] = [kind |-> "checkpoint", number |-> n - k]
  BY DEF Delivers
<1>8. Delivers(H, r.copy, n)
  BY <1>5, <1>6, <1>7
<1> QED
  BY <1>8 DEF H, f, r

-----------------------------------------------------------------------------
\* The recursive function of ApplyBuffered, as an equation.
Applies(f, b, frames, m) ==
    f = [n \in 0 .. m |->
            IF n = 0 THEN b
            ELSE IF f[n - 1].subscribed THEN Apply(f[n - 1], frames[n])
            ELSE f[n - 1]]

\* The equations of ApplyBuffered have a solution.
LEMMA AppliesExists ==
    ASSUME NEW b, NEW frames, NEW m \in Nat
    PROVE  \E f : Applies(f, b, frames, m)
<1> DEFINE Next1(v, i) == IF v.subscribed THEN Apply(v, frames[i]) ELSE v
           T == {n \in Nat : \E f : Applies(f, b, frames, n)}
<1>1. 0 \in T
  <2>1. Applies([n \in 0 .. 0 |-> b], b, frames, 0)
    BY DEF Applies
  <2> QED
    BY <2>1
<1>2. ASSUME NEW n \in T PROVE n + 1 \in T
  <2>1. PICK f : Applies(f, b, frames, n)
    OBVIOUS
  <2> DEFINE last == Next1(f[n], n + 1)
             g == [i \in 0 .. n + 1 |-> IF i = n + 1 THEN last ELSE f[i]]
  <2> HIDE DEF last
  <2>2. ASSUME NEW i \in 0 .. n + 1
        PROVE  g[i] = IF i = 0 THEN b ELSE Next1(g[i - 1], i)
    <3>1. CASE i = n + 1
      <4>1. g[i] = last /\ g[i - 1] = f[n] /\ i # 0
        BY <3>1
      <4> QED
        BY <3>1, <4>1 DEF last
    <3>2. CASE i # n + 1
      <4>1. i \in 0 .. n /\ g[i] = f[i] /\ (i # 0 => g[i - 1] = f[i - 1])
        BY <3>2
      <4>2. f[i] = IF i = 0 THEN b ELSE Next1(f[i - 1], i)
        BY <2>1, <4>1 DEF Applies
      <4> HIDE DEF Next1
      <4> QED
        BY <4>1, <4>2
    <3> QED
      BY <3>1, <3>2
  <2>3. Applies(g, b, frames, n + 1)
    BY <2>2 DEF Applies
  <2> QED
    BY <2>3
<1>3. T = Nat
  BY <1>1, <1>2, SetInduction
<1> QED
  BY <1>3

-----------------------------------------------------------------------------
(* The tab takes up what it buffered.                                      *)

\* The second of two sequences, as the rest of both.
LEMMA RestOfBoth ==
    ASSUME NEW S, NEW s \in Seq(S), NEW t \in Seq(S)
    PROVE  SubSeq(s \o t, Len(s) + 1, Len(s \o t)) = t
<1> DEFINE W == s \o t
           r == SubSeq(W, Len(s) + 1, Len(W))
<1>1. /\ Len(s) \in Nat /\ Len(t) \in Nat /\ W \in Seq(S) /\ Len(W) = Len(s) + Len(t)
      /\ \A i \in 1 .. Len(s) + Len(t) : W[i] = IF i <= Len(s) THEN s[i] ELSE t[i - Len(s)]
  BY ConcatProperties
<1> HIDE DEF W
<1>2. \A i \in Len(s) + 1 .. Len(W) : W[i] \in S
  BY <1>1
<1>3. Len(s) + 1 \in Int /\ Len(W) \in Int
  BY <1>1
<1>4. /\ r \in Seq(S)
      /\ Len(r) = IF Len(s) + 1 <= Len(W) THEN Len(W) - (Len(s) + 1) + 1 ELSE 0
      /\ \A i \in 1 .. Len(W) - (Len(s) + 1) + 1 : r[i] = W[(Len(s) + 1) + i - 1]
  BY <1>2, <1>3, SubSeqProperties
<1> HIDE DEF r
<1>5. Len(r) = Len(t)
  BY <1>1, <1>4
<1>6. ASSUME NEW i \in 1 .. Len(r) PROVE r[i] = t[i]
  <2>1. /\ i \in 1 .. Len(W) - (Len(s) + 1) + 1 /\ (Len(s) + 1) + i - 1 = Len(s) + i
        /\ Len(s) + i \in 1 .. Len(s) + Len(t) /\ ~(Len(s) + i <= Len(s))
        /\ (Len(s) + i) - Len(s) = i
    BY <1>1, <1>5
  <2>2. W[Len(s) + i] = t[(Len(s) + i) - Len(s)]
    BY <1>1, <2>1
  <2> QED
    BY <1>4, <2>1, <2>2
<1>7. r = t
  BY <1>4, <1>5, <1>6, SeqEqual
<1> QED
  BY <1>7 DEF r, W

\* The buffered frames are applied: those behind them still deliver what all
\* of them did, if the tab does not subscribe again.
LEMMA ApplyBufferedOK ==
    ASSUME NEW n \in Nat, NEW b, TabOK(b, n), b.subscribed, b.request = "none",
           NEW frames \in Seq(Records(n)), NEW R \in Seq(Frames(n))
    PROVE  /\ TabOK(ApplyBuffered(b, frames), n)
           /\ ApplyBuffered(b, frames).copy >= b.copy
           /\ ApplyBuffered(b, frames).request # "granted"
           /\ Delivers(frames \o R, b.copy, n) /\ ApplyBuffered(b, frames).subscribed =>
                Delivers(R, ApplyBuffered(b, frames).copy, n)
           /\ ApplyBuffered(b, frames).subscribed => ApplyBuffered(b, frames).buffered = <<>>
           /\ ~ApplyBuffered(b, frames).subscribed =>
                ApplyBuffered(b, frames).request = "posted"
<1> DEFINE ap == CHOOSE f : Applies(f, b, frames, Len(frames))
           W == frames \o R
           Rest(k) == SubSeq(W, k + 1, Len(W))
<1>1. ApplyBuffered(b, frames) = ap[Len(frames)]
  BY Zenon DEF ApplyBuffered, Applies
<1>2. Len(frames) \in Nat
  OBVIOUS
<1>3. Applies(ap, b, frames, Len(frames))
  BY <1>2, AppliesExists
<1> HIDE DEF ap
<1>4. frames \in Seq(Frames(n))
  <2>1. Records(n) \subseteq Frames(n)
    BY DEF Records, Frames
  <2> QED
    BY <2>1, SeqMonotonic
<1>5. /\ W \in Seq(Frames(n)) /\ Len(W) = Len(frames) + Len(R) /\ Len(R) \in Nat
      /\ \A i \in 1 .. Len(frames) : W[i] = frames[i]
  BY <1>4
<1>6. Rest(Len(frames)) = R
  BY <1>4, RestOfBoth
<1> HIDE DEF W
<1> DEFINE Good(k) ==
              /\ TabOK(ap[k], n)
              /\ ap[k].copy >= b.copy
              /\ \/ ap[k].subscribed /\ ap[k].request = "none"
                 \/ ~ap[k].subscribed /\ ap[k].request = "posted"
              /\ Delivers(W, b.copy, n) /\ ap[k].subscribed => Delivers(Rest(k), ap[k].copy, n)
           T == {k \in Nat : k <= Len(frames) => Good(k)}
<1>7. 0 \in T
  <2>1. ap[0] = b
    BY <1>2, <1>3 DEF Applies
  <2>2. Rest(0) = W
    BY <1>5, SubSeqFull
  <2>3. b.copy >= b.copy
    BY DEF TabOK, Views
  <2> QED
    BY <2>1, <2>2, <2>3
<1>8. ASSUME NEW k \in T PROVE k + 1 \in T
  <2> SUFFICES ASSUME k + 1 <= Len(frames) PROVE Good(k + 1)
    OBVIOUS
  <2>1. k \in Nat /\ Good(k)
    BY <1>2
  <2> DEFINE s == ap[k]
             f == frames[k + 1]
             G == Rest(k)
  <2>2. ap[k + 1] = IF s.subscribed THEN Apply(s, f) ELSE s
    BY <1>2, <1>3, <2>1 DEF Applies
  <2>3. f \in Records(n)
    BY <2>1
  <2>4. G \in Seq(Frames(n)) /\ G # <<>> /\ Head(G) = f /\ Tail(G) = Rest(k + 1)
    <3>1. k + 1 \in 1 .. Len(W) /\ Len(W) \in k + 1 .. Len(W) /\ Len(W) \in Int /\ k + 1 \in Int
      BY <1>2, <1>5, <2>1
    <3>2. \A i \in k + 1 .. Len(W) : W[i] \in Frames(n)
      BY <1>5, <3>1
    <3>3. G \in Seq(Frames(n)) /\ Len(G) = Len(W) - (k + 1) + 1
      BY <3>1, <3>2, SubSeqProperties
    <3>4. Head(G) = W[k + 1] /\ Tail(G) = SubSeq(W, (k + 1) + 1, Len(W))
      BY <1>5, <3>1, HeadTailOfSubSeq
    <3>5. W[k + 1] = f
      BY <1>2, <1>5, <2>1
    <3>6. G # <<>>
      <4>1. Len(G) # 0
        BY <1>2, <1>5, <2>1, <3>3
      <4> HIDE DEF G
      <4> QED
        BY <4>1
    <3> QED
      BY <3>3, <3>4, <3>5, <3>6
  <2> HIDE DEF s, f, G, Rest
  <2>5. /\ TabOK(s, n)
        /\ s.copy >= b.copy
        /\ \/ s.subscribed /\ s.request = "none"
           \/ ~s.subscribed /\ s.request = "posted"
        /\ Delivers(W, b.copy, n) /\ s.subscribed => Delivers(G, s.copy, n)
    BY <2>1 DEF s, G
  <2>6. CASE ~s.subscribed
    BY <2>2, <2>5, <2>6
  <2>7. CASE s.subscribed
    <3>1. /\ TabOK(Apply(s, f), n)
          /\ Apply(s, f).copy >= s.copy
          /\ \/ Apply(s, f).subscribed /\ Apply(s, f).request = s.request
             \/ ~Apply(s, f).subscribed /\ Apply(s, f).request = "posted"
      BY <2>3, <2>5, <2>7, ApplyOK
    <3>2. ASSUME Delivers(W, b.copy, n), Apply(s, f).subscribed
          PROVE  Delivers(Tail(G), Apply(s, f).copy, n)
      BY <2>3, <2>4, <2>5, <2>7, <3>2, DeliversTail
    <3>3. Apply(s, f).copy >= b.copy
      <4>1. b.copy \in Int /\ s.copy \in Int /\ Apply(s, f).copy \in Int
        BY <2>5, <3>1 DEF TabOK, Views
      <4> QED
        BY <2>5, <3>1, <4>1
    <3> QED
      BY <2>2, <2>4, <2>5, <2>7, <3>1, <3>2, <3>3
  <2> QED
    BY <2>6, <2>7
<1>9. T = Nat
  BY <1>7, <1>8, SetInduction
<1>10. Good(Len(frames))
  BY <1>2, <1>9
<1>11. ap[Len(frames)].subscribed => ap[Len(frames)].buffered = <<>>
  BY <1>10 DEF TabOK
<1> QED
  BY <1>1, <1>6, <1>10, <1>11 DEF W

-----------------------------------------------------------------------------
(* The store: pruning and the next record.                                 *)

\* The store keeps the last checkpoint and, in order, events after it.
StoreOK(s, n) ==
    /\ s \in [checkpoint : 0 .. n, replay : Seq(1 .. n), floor : 0 .. n]
    /\ s.checkpoint # 0 => s.floor # 0
    /\ \A i \in 1 .. Len(s.replay) : s.replay[i] > s.checkpoint
    /\ \A j \in 1 .. Len(s.replay) : \A i \in 1 .. j - 1 : s.replay[i] < s.replay[j]

\* ReplayWhole, of a store and the last record.
Whole(s, n) ==
    /\ s.checkpoint # 0
    /\ s.replay = [i \in 1 .. n - s.checkpoint |-> s.checkpoint + i]

LEMMA WholeLength ==
    ASSUME NEW n \in Nat, NEW s, StoreOK(s, n), Whole(s, n)
    PROVE  /\ Len(s.replay) = n - s.checkpoint
           /\ \A i \in 1 .. Len(s.replay) : s.replay[i] = s.checkpoint + i
<1>1. s.checkpoint \in 0 .. n /\ n - s.checkpoint \in Nat /\ s.replay \in Seq(1 .. n)
  BY DEF StoreOK
<1>2. DOMAIN s.replay = 1 .. n - s.checkpoint
  BY DEF Whole
<1>3. Len(s.replay) = n - s.checkpoint
  BY <1>1, <1>2
<1> QED
  BY <1>1, <1>3 DEF Whole

\* Pruning leaves the store in order; a replay that is whole afterwards was
\* whole before.
LEMMA DroppedOK ==
    ASSUME NEW n \in Nat, NEW s, StoreOK(s, n), NEW count \in 0 .. Len(s.replay)
    PROVE  /\ StoreOK(Dropped(s, count), n)
           /\ Whole(Dropped(s, count), n) => Whole(s, n)
           /\ Dropped(s, count).checkpoint = s.checkpoint
<1> DEFINE q == SubSeq(s.replay, count + 1, Len(s.replay))
           e == s.replay[count]
           r == [s EXCEPT !.replay = q, !.floor = e]
<1>1. CASE count = 0
  BY <1>1 DEF Dropped
<1>2. CASE count # 0
  <2>1. Dropped(s, count) = r
    BY <1>2 DEF Dropped
  <2>2. /\ s.replay \in Seq(1 .. n) /\ s.checkpoint \in 0 .. n /\ Len(s.replay) \in Nat
        /\ s \in [checkpoint : 0 .. n, replay : Seq(1 .. n), floor : 0 .. n]
    BY DEF StoreOK
  <2>3. e \in 1 .. n
    BY <1>2, <2>2
  <2>4. /\ q \in Seq(1 .. n) /\ Len(q) = Len(s.replay) - count
        /\ \A i \in 1 .. Len(q) : q[i] = s.replay[count + i]
    <3>1. \A i \in count + 1 .. Len(s.replay) : s.replay[i] \in 1 .. n
      BY <2>2
    <3>2. /\ q \in Seq(1 .. n)
          /\ Len(q) = IF count + 1 <= Len(s.replay) THEN Len(s.replay) - (count + 1) + 1 ELSE 0
          /\ \A i \in 1 .. Len(s.replay) - (count + 1) + 1 : q[i] = s.replay[(count + 1) + i - 1]
      BY <2>2, <3>1, SubSeqProperties
    <3>3. Len(q) = Len(s.replay) - count
      BY <2>2, <3>2
    <3>4. ASSUME NEW i \in 1 .. Len(q) PROVE q[i] = s.replay[count + i]
      <4>1. i \in 1 .. Len(s.replay) - (count + 1) + 1 /\ (count + 1) + i - 1 = count + i
        BY <2>2, <3>3
      <4> QED
        BY <3>2, <4>1
    <3> QED
      BY <3>2, <3>3, <3>4
  <2> HIDE DEF q, e
  <2>5. r.checkpoint = s.checkpoint /\ r.replay = q /\ r.floor = e
    BY <2>2
  <2>6. r \in [checkpoint : 0 .. n, replay : Seq(1 .. n), floor : 0 .. n]
    <3>1. e \in 0 .. n /\ q \in Seq(1 .. n)
      BY <2>3, <2>4
    <3> QED
      BY <2>2, <3>1
  <2> HIDE DEF r
  <2>7. \A i \in 1 .. Len(q) : count + i \in 1 .. Len(s.replay)
    BY <2>2, <2>4
  <2>8. \A i \in 1 .. Len(q) : q[i] > s.checkpoint
    BY <2>4, <2>7 DEF StoreOK
  <2>9. ASSUME NEW j \in 1 .. Len(q), NEW i \in 1 .. j - 1 PROVE q[i] < q[j]
    <3>1. i \in 1 .. Len(q) /\ count + i \in 1 .. (count + j) - 1
      BY <2>2, <2>4
    <3> QED
      BY <2>4, <2>7, <3>1 DEF StoreOK
  <2>10. StoreOK(r, n)
    BY <2>3, <2>5, <2>6, <2>8, <2>9 DEF StoreOK
  <2>11. ~Whole(r, n)
    <3> SUFFICES ASSUME Whole(r, n) PROVE FALSE
      OBVIOUS
    <3>1. /\ Len(q) = n - s.checkpoint
          /\ \A i \in 1 .. Len(q) : q[i] = s.checkpoint + i
      BY <2>5, <2>10, WholeLength
    <3>2. s.replay[count] > s.checkpoint /\ count \in 1 .. Len(s.replay)
      BY <1>2, <2>2 DEF StoreOK
    <3>3. CASE Len(q) = 0
      <4>1. s.checkpoint = n
        BY <2>2, <3>1, <3>3
      <4> QED
        BY <2>3, <3>2, <4>1 DEF e
    <3>4. CASE Len(q) # 0
      <4>1. 1 \in 1 .. Len(q) /\ count + 1 \in 1 .. Len(s.replay) /\ count \in 1 .. (count + 1) - 1
        BY <2>2, <2>4, <3>2, <3>4
      <4>2. q[1] = s.checkpoint + 1 /\ q[1] = s.replay[count + 1]
        BY <2>4, <3>1, <4>1
      <4>3. s.replay[count] < s.replay[count + 1]
        BY <4>1 DEF StoreOK
      <4> QED
        BY <2>2, <2>3, <3>2, <4>2, <4>3 DEF e
    <3> QED
      BY <3>3, <3>4
  <2> QED
    BY <2>1, <2>5, <2>10, <2>11
<1> QED
  BY <1>1, <1>2

LEMMA PrunedOK ==
    ASSUME NEW n \in Nat, NEW s, StoreOK(s, n), NEW expired \in 0 .. Len(s.replay)
    PROVE  /\ StoreOK(Pruned(s, expired), n)
           /\ Whole(Pruned(s, expired), n) => Whole(s, n)
           /\ Pruned(s, expired).checkpoint = s.checkpoint
<1> DEFINE over == Len(s.replay) - ReplayLimit
           count == IF over > expired THEN over ELSE expired
<1>1. Len(s.replay) \in Nat /\ ReplayLimit \in Nat
  BY LimitsAssumption DEF StoreOK
<1>2. count \in 0 .. Len(s.replay)
  BY <1>1
<1>3. Pruned(s, expired) = Dropped(s, count)
  BY DEF Pruned
<1> HIDE DEF count
<1> QED
  BY <1>2, <1>3, DroppedOK

LEMMA StoreGrows ==
    ASSUME NEW n \in Nat, NEW s, StoreOK(s, n)
    PROVE  StoreOK(s, n + 1)
<1>1. s.replay \in Seq(1 .. n + 1)
  <2>1. 1 .. n \subseteq 1 .. n + 1
    OBVIOUS
  <2> QED
    BY <2>1, SeqMonotonic DEF StoreOK
<1>2. s \in [checkpoint : 0 .. n + 1, replay : Seq(1 .. n + 1), floor : 0 .. n + 1]
  BY <1>1 DEF StoreOK
<1> QED
  BY <1>2 DEF StoreOK

\* A record is ingested.
LEMMA IngestedOK ==
    ASSUME NEW n \in Nat, NEW s, StoreOK(s, n),
           NEW k \in {"checkpoint", "event"}, NEW f, f = [kind |-> k, number |-> n + 1]
    PROVE  /\ StoreOK(Ingested(s, f), n + 1)
           /\ k = "event" /\ Whole(Ingested(s, f), n + 1) => Whole(s, n)
<1>0. f.kind = k /\ f.number = n + 1
  OBVIOUS
<1>1. /\ s.replay \in Seq(1 .. n) /\ s.checkpoint \in 0 .. n /\ Len(s.replay) \in Nat
      /\ s \in [checkpoint : 0 .. n, replay : Seq(1 .. n), floor : 0 .. n]
  BY DEF StoreOK
<1>2. CASE k = "checkpoint"
  <2> DEFINE q == <<>>
             r == [checkpoint |-> n + 1, replay |-> q, floor |-> n + 1]
  <2>1. Ingested(s, f) = r
    BY <1>0, <1>2 DEF Ingested
  <2>2. q \in Seq(1 .. n + 1) /\ Len(q) = 0
    BY EmptySeq
  <2> HIDE DEF q
  <2>3. StoreOK(r, n + 1)
    BY <2>2 DEF StoreOK
  <2> QED
    BY <1>2, <2>1, <2>3
<1>3. CASE k = "event"
  <2> DEFINE e == n + 1
             q == Append(s.replay, e)
             r == [s EXCEPT !.replay = q]
  <2>1. Ingested(s, f) = r
    BY <1>0, <1>3 DEF Ingested
  <2>2. StoreOK(s, n + 1)
    BY StoreGrows
  <2>3. /\ s.replay \in Seq(1 .. e) /\ e \in 1 .. e
        /\ s \in [checkpoint : 0 .. e, replay : Seq(1 .. e), floor : 0 .. e]
    BY <2>2 DEF StoreOK
  <2>4. /\ q \in Seq(1 .. e) /\ Len(q) = Len(s.replay) + 1
        /\ \A i \in 1 .. Len(s.replay) : q[i] = s.replay[i]
        /\ q[Len(s.replay) + 1] = e
    BY <2>3, AppendProperties
  <2> HIDE DEF q
  <2>5. r.checkpoint = s.checkpoint /\ r.replay = q /\ r.floor = s.floor
    BY <2>3
  <2>6. r \in [checkpoint : 0 .. e, replay : Seq(1 .. e), floor : 0 .. e]
    BY <2>3, <2>4
  <2> HIDE DEF r
  <2>11. Len(q) = Len(s.replay) + 1 /\ q[Len(s.replay) + 1] = n + 1
    BY <2>4
  <2>7. ASSUME NEW i \in 1 .. Len(q) PROVE q[i] > s.checkpoint
    <3>1. CASE i = Len(s.replay) + 1
      BY <1>1, <2>11, <3>1
    <3>2. CASE i # Len(s.replay) + 1
      <4>1. i \in 1 .. Len(s.replay)
        BY <1>1, <2>11, <3>2
      <4> QED
        BY <2>4, <4>1 DEF StoreOK
    <3> QED
      BY <3>1, <3>2
  <2>8. ASSUME NEW j \in 1 .. Len(q), NEW i \in 1 .. j - 1 PROVE q[i] < q[j]
    <3>1. i \in 1 .. Len(s.replay) /\ q[i] = s.replay[i] /\ s.replay[i] \in 1 .. n
      <4>1. i \in 1 .. Len(s.replay)
        BY <1>1, <2>11
      <4> QED
        BY <1>1, <2>4, <4>1
    <3>2. CASE j = Len(s.replay) + 1
      BY <2>11, <3>1, <3>2
    <3>3. CASE j # Len(s.replay) + 1
      <4>1. j \in 1 .. Len(s.replay)
        <5> DEFINE len == Len(s.replay)
        <5>1. j \in 1 .. len + 1 /\ len \in Nat /\ j # len + 1
          BY <1>1, <2>4, <3>3
        <5> HIDE DEF len
        <5>2. j \in 1 .. len
          BY <5>1
        <5> QED
          BY <5>2 DEF len
      <4>2. q[j] = s.replay[j]
        BY <2>4, <4>1
      <4> QED
        BY <3>1, <4>1, <4>2 DEF StoreOK
    <3> QED
      BY <3>2, <3>3
  <2>9. StoreOK(r, e)
    BY <2>2, <2>5, <2>6, <2>7, <2>8 DEF StoreOK
  <2>10. ASSUME Whole(r, e) PROVE Whole(s, n)
    <3>1. /\ Len(q) = e - s.checkpoint
          /\ \A i \in 1 .. Len(q) : q[i] = s.checkpoint + i
      BY <2>5, <2>9, <2>10, WholeLength
    <3>2. Len(s.replay) = n - s.checkpoint
      BY <1>1, <2>4, <3>1
    <3>3. \A i \in 1 .. n - s.checkpoint : s.replay[i] = s.checkpoint + i
      BY <1>1, <2>4, <3>1, <3>2
    <3>4. s.replay = [i \in 1 .. n - s.checkpoint |-> s.checkpoint + i]
      <4>1. s.replay \in [1 .. Len(s.replay) -> 1 .. n]
        BY <1>1, LenProperties
      <4> QED
        BY <3>2, <3>3, <4>1
    <3>5. s.checkpoint # 0
      BY <2>5, <2>10 DEF Whole
    <3> QED
      BY <3>4, <3>5 DEF Whole
  <2> QED
    BY <1>3, <2>1, <2>9, <2>10
<1> QED
  BY <1>2, <1>3

-----------------------------------------------------------------------------
(* What a subscription is sent, and the inductive invariant.               *)

\* Where the elements of two sequences are in both.
Joins(S, s, t) ==
    /\ s \o t \in Seq(S) /\ Len(s \o t) = Len(s) + Len(t)
    /\ \A i \in 1 .. Len(s) : (s \o t)[i] = s[i]
    /\ \A i \in 1 .. Len(t) : (s \o t)[Len(s) + i] = t[i]

LEMMA JoinsFacts ==
    ASSUME NEW S, NEW s \in Seq(S), NEW t \in Seq(S)
    PROVE  Joins(S, s, t)
  BY DEF Joins

\* The frames of the replayed events.
LEMMA EventsOK ==
    ASSUME NEW n \in Nat, NEW numbers \in Seq(1 .. n)
    PROVE  /\ Events(numbers) \in Seq(Frames(n))
           /\ Len(Events(numbers)) = Len(numbers)
           /\ \A i \in 1 .. Len(numbers) :
                Events(numbers)[i] = [kind |-> "event", number |-> numbers[i]]
<1> DEFINE E == [i \in 1 .. Len(numbers) |-> [kind |-> "event", number |-> numbers[i]]]
<1>1. Len(numbers) \in Nat /\ \A i \in 1 .. Len(numbers) : numbers[i] \in 1 .. n
  OBVIOUS
<1>2. E \in [1 .. Len(numbers) -> Frames(n)]
  BY <1>1 DEF Frames
<1>3. E \in Seq(Frames(n)) /\ Len(E) = Len(numbers)
  BY <1>1, <1>2
<1>4. \A i \in 1 .. Len(numbers) : E[i] = [kind |-> "event", number |-> numbers[i]]
  OBVIOUS
<1>5. Events(numbers) = E
  BY DEF Events
<1> HIDE DEF E
<1> QED
  BY <1>3, <1>4, <1>5

\* What selectOwner sends: of the frames but the first each has a number, and
\* a replay that continues the checkpoint brings any tab up to date.
LEMMA ReplayOK ==
    ASSUME NEW n \in Nat, NEW s, StoreOK(s, n), NEW cursor \in 0 .. n
    PROVE  /\ ReplayFrames(s, cursor) \in Seq(Frames(n))
           /\ \A i \in 2 .. Len(ReplayFrames(s, cursor)) : ReplayFrames(s, cursor)[i].number # 0
           /\ cursor = 0 /\ Whole(s, n) => \A c : Delivers(ReplayFrames(s, cursor), c, n)
<1> DEFINE reset == [kind |-> "reset", number |-> 0]
           cp == [kind |-> "checkpoint", number |-> s.checkpoint]
<1>1. /\ s.replay \in Seq(1 .. n) /\ s.checkpoint \in 0 .. n /\ Len(s.replay) \in Nat
      /\ s.floor \in 0 .. n /\ (s.checkpoint # 0 => s.floor # 0)
  BY DEF StoreOK
<1>2. reset \in Frames(n) /\ cp \in Frames(n)
  BY <1>1 DEF Frames
<1>3. CASE s.checkpoint = 0
  <2>1. ReplayFrames(s, cursor) = <<reset>>
    BY <1>3 DEF ReplayFrames
  <2>2. <<reset>> \in Seq(Frames(n)) /\ Len(<<reset>>) = 1
    BY <1>2
  <2> QED
    BY <1>3, <2>1, <2>2 DEF Whole
<1>4. CASE s.checkpoint # 0 /\ ~(cursor < s.floor)
  <2> DEFINE I == {i \in 1 .. Len(s.replay) : s.replay[i] > cursor}
             numbers == Selected(s.replay, I)
  <2>1. ReplayFrames(s, cursor) = Events(numbers)
    BY <1>4 DEF ReplayFrames
  <2>2. I \in SUBSET (1 .. Len(s.replay))
    OBVIOUS
  <2> HIDE DEF I
  <2>3. numbers \in Seq(1 .. n)
    BY <1>1, <2>2, SelectedPlaces
  <2> HIDE DEF numbers
  <2>4. /\ Events(numbers) \in Seq(Frames(n))
        /\ Len(Events(numbers)) = Len(numbers)
        /\ \A i \in 1 .. Len(numbers) :
             Events(numbers)[i] = [kind |-> "event", number |-> numbers[i]]
    BY <2>3, EventsOK
  <2>5. ASSUME NEW i \in 2 .. Len(Events(numbers)) PROVE Events(numbers)[i].number # 0
    <3>1. i \in 1 .. Len(numbers)
      BY <2>3, <2>4
    <3>2. numbers[i] # 0
      BY <2>3, <3>1
    <3>3. Events(numbers)[i] = [kind |-> "event", number |-> numbers[i]]
      BY <2>4, <3>1
    <3> QED
      BY <3>2, <3>3
  <2>6. cursor # 0
    BY <1>1, <1>4
  <2> QED
    BY <2>1, <2>4, <2>5, <2>6
<1>5. CASE s.checkpoint # 0 /\ cursor < s.floor
  <2> DEFINE E == Events(s.replay)
             F == (<<reset>> \o <<cp>>) \o E
  <2>1. ReplayFrames(s, cursor) = F
    BY <1>5 DEF ReplayFrames
  <2>2. /\ E \in Seq(Frames(n)) /\ Len(E) = Len(s.replay)
        /\ \A i \in 1 .. Len(s.replay) : E[i] = [kind |-> "event", number |-> s.replay[i]]
    BY <1>1, EventsOK
  <2> HIDE DEF E
  <2> DEFINE P == <<reset>> \o <<cp>>
  <2>3. P \in Seq(Frames(n)) /\ Len(P) = 2 /\ P[2] = cp
    BY <1>2
  <2> HIDE DEF P
  <2>4. F \in Seq(Frames(n)) /\ Len(F) = 2 + Len(s.replay) /\ F[2] = cp
        /\ \A i \in 1 .. Len(s.replay) : F[2 + i] = E[i]
    <3>1. Joins(Frames(n), P, E)
      BY <2>2, <2>3, JoinsFacts
    <3>2. /\ P \o E \in Seq(Frames(n)) /\ Len(P \o E) = Len(P) + Len(E)
          /\ \A i \in 1 .. Len(P) : (P \o E)[i] = P[i]
          /\ \A i \in 1 .. Len(E) : (P \o E)[Len(P) + i] = E[i]
      BY <3>1 DEF Joins
    <3>3. 2 \in 1 .. Len(P)
      BY <2>3
    <3>4. (P \o E)[2] = cp
      BY <2>3, <3>2, <3>3
    <3>5. F = P \o E
      BY DEF P
    <3> QED
      BY <2>2, <2>3, <3>2, <3>4, <3>5
  <2> HIDE DEF F
  <2>5. ASSUME NEW i \in 2 .. Len(F) PROVE F[i].number # 0
    <3>1. CASE i = 2
      BY <1>5, <2>4, <3>1
    <3>2. CASE i # 2
      <4> DEFINE j == i - 2
      <4>1. j \in 1 .. Len(s.replay) /\ i = 2 + j
        BY <1>1, <2>4, <3>2
      <4> HIDE DEF j
      <4>2. F[i] = [kind |-> "event", number |-> s.replay[j]]
        BY <2>2, <2>4, <4>1
      <4>3. s.replay[j] # 0
        BY <1>1, <4>1
      <4> QED
        BY <4>2, <4>3
    <3> QED
      BY <3>1, <3>2
  <2>6. ASSUME Whole(s, n), NEW c PROVE Delivers(F, c, n)
    <3> DEFINE k == Len(s.replay)
    <3>1. k = n - s.checkpoint /\ \A i \in 1 .. k : s.replay[i] = s.checkpoint + i
      BY <2>6, WholeLength
    <3>0. k \in Nat /\ Len(F) = 2 + k
      BY <1>1, <2>4
    <3>2. k \in 0 .. Len(F) - 1 /\ k < n /\ Len(F) - k = 2 /\ n - k = s.checkpoint
      <4> DEFINE d == s.checkpoint
      <4>1. d \in 0 .. n /\ d # 0 /\ k = n - d
        BY <1>1, <1>5, <3>1
      <4> HIDE DEF k, d
      <4>2. k \in 0 .. Len(F) - 1 /\ k < n /\ Len(F) - k = 2 /\ n - k = d
        BY <3>0, <4>1
      <4> QED
        BY <4>2 DEF d
    <3>3. F[Len(F) - k] = [kind |-> "checkpoint", number |-> n - k]
      BY <2>4, <3>2
    <3>4. ASSUME NEW m \in 0 .. k - 1
          PROVE  F[Len(F) - m] = [kind |-> "event", number |-> n - m]
      <4> DEFINE i == k - m
      <4>1. i \in 1 .. k /\ Len(F) - m = 2 + i /\ s.checkpoint + i = n - m
        <5> DEFINE d == s.checkpoint
        <5>1. d \in 0 .. n /\ k = n - d /\ m \in 0 .. k - 1
          BY <1>1, <3>1
        <5> HIDE DEF k, d
        <5>2. i \in 1 .. k /\ Len(F) - m = 2 + i /\ d + i = n - m
          BY <3>0, <5>1
        <5> QED
          BY <5>2 DEF d
      <4> HIDE DEF i
      <4>2. F[2 + i] = [kind |-> "event", number |-> s.replay[i]]
        BY <2>2, <2>4, <4>1
      <4>3. s.replay[i] = n - m
        BY <3>1, <4>1
      <4> QED
        BY <4>1, <4>2, <4>3
    <3>5. EndsInEvents(F, k, n)
      BY <3>4 DEF EndsInEvents
    <3> HIDE DEF k
    <3> QED
      BY <3>2, <3>3, <3>5 DEF Delivers
  <2> QED
    BY <2>1, <2>4, <2>5, <2>6
<1> QED
  BY <1>3, <1>4, <1>5

-----------------------------------------------------------------------------
\* One tab, of which nobody keeps an old connection.
Alone == (\A t, u \in Tabs : t = u) /\ MaxLingering = 0

\* A tab that has its subscription, or whose answer is under way.
Joined(b) == b.subscribed \/ b.request = "granted"

\* Types of what the helper recorded for the owner and what the owner heard.
Commands ==
    [hearing : BOOLEAN, demanded : BOOLEAN, counted : BOOLEAN,
     asked : BOOLEAN, owes : BOOLEAN, unheard : BOOLEAN]

\* A checkpoint is owed, or an occasion for one went unheard.
Pend(c) == c.owes \/ c.asked \/ (c.counted /\ ~c.demanded) \/ c.unheard
Pending == Pend(command)

\* A tab b and its connection l; a says whether a checkpoint is pending, and e
\* whether what is on its way may end before the last record.
PairOK(b, l, a, n, e) ==
    /\ LinkOK(l, n)
    /\ TabOK(b, n)
    /\ l.awaiting # 0 => a
    /\ l.open /\ Joined(b) => l.subscribed
    /\ l.subscribed /\ Joined(b) =>
         e \/ l.awaiting # 0 \/ Delivers(b.buffered \o Content(l), b.copy, n)

\* The replay of a new subscription cannot be relied on, and of a single tab's
\* only if a checkpoint is pending.
Excused == ~Whole(store, sequence) /\ (Alone => Pending)

\* The inductive invariant.
Inv ==
    /\ sequence \in Nat
    /\ command \in Commands
    /\ link \in [Tabs -> Links(sequence)]
    /\ tab \in [Tabs -> Views(sequence)]
    /\ Alone => lingering = 0
    /\ StoreOK(store, sequence)
    /\ \A t \in Tabs : PairOK(tab[t], link[t], Pending, sequence, Excused)

\* More that is pending and more that is excused ask less of a pair, and a
\* connection without a subscription asks for neither.
LEMMA PairStays ==
    ASSUME NEW b, NEW l, NEW a, NEW n, NEW e, PairOK(b, l, a, n, e),
           NEW a2, NEW e2, ((a => a2) /\ (e => e2)) \/ ~l.subscribed
    PROVE  PairOK(b, l, a2, n, e2)
  BY DEF PairOK, LinkOK

-----------------------------------------------------------------------------
(* What the owner has heard, and owes.                                     *)

\* A count that reaches zero may take back a demand that was not heard yet;
\* any other keeps what is pending.
LEMMA CountsOK ==
    ASSUME NEW c \in Commands, NEW some \in BOOLEAN
    PROVE  /\ Counts(c, some) \in Commands
           /\ Counts(c, some).hearing = c.hearing
           /\ some /\ Pend(c) => Pend(Counts(c, some))
           /\ some /\ ~c.demanded => Pend(Counts(c, some))
  BY DEF Commands, Counts, Pend

LEMMA AsksOK ==
    ASSUME NEW c \in Commands
    PROVE  /\ Asks(c) \in Commands
           /\ Asks(c).hearing = c.hearing
           /\ Asks(c).asked /\ (c.hearing => Asks(c).owes)
           /\ Pend(Asks(c))
  BY DEF Commands, Asks, Pend

\* A release keeps what is pending for the other subscriptions.
LEMMA ReleasedOK ==
    ASSUME Inv, NEW t \in Tabs
    PROVE  /\ Released(t) \in Commands
           /\ Pending => Pend(Released(t)) \/ ~Others(t)
<1>1. command \in Commands /\ Others(t) \in BOOLEAN
  BY DEF Inv, Others
<1> QED
  BY <1>1, CountsOK DEF Released, Pending

\* The first subscription finds a checkpoint owed, or an owner that is still
\* demanded.
LEMMA ReacquiredOK ==
    ASSUME Inv, NEW t \in Tabs
    PROVE  /\ Reacquired(t) \in Commands
           /\ Pending => Pend(Reacquired(t)) \/ ~Others(t)
           /\ ~Released(t).demanded => Pend(Reacquired(t))
  BY ReleasedOK, CountsOK DEF Reacquired

\* The controls of a broadcast.
LEMMA RelayedOK ==
    ASSUME NEW c \in Commands, NEW refused
    PROVE  /\ Relayed(c, refused) \in Commands
           /\ Compacting => /\ Relayed(c, refused).asked
                            /\ Relayed(c, refused).hearing => Relayed(c, refused).owes
           /\ Pend(c) => Pend(Relayed(c, refused)) \/ \A t \in Tabs : ~link'[t].subscribed
<1> DEFINE some == lingering > 0 \/ \E t \in Tabs : link'[t].subscribed
           released == IF refused = {} THEN c ELSE Counts(c, some)
<1>1. some \in BOOLEAN /\ (~some => \A t \in Tabs : ~link'[t].subscribed)
  OBVIOUS
<1>2. Relayed(c, refused) = IF Compacting THEN Asks(released) ELSE released
  BY DEF Relayed
<1> HIDE DEF some
<1>3. /\ released \in Commands
      /\ Pend(c) => Pend(released) \/ ~some
  BY <1>1, CountsOK
<1> HIDE DEF released
<1> QED
  BY <1>1, <1>2, <1>3, AsksOK

\* A closed connection asks nothing.
LEMMA NoLinkOK ==
    ASSUME NEW n \in Nat, NEW b, TabOK(b, n), NEW a, NEW e
    PROVE  PairOK(b, NoLink, a, n, e) /\ NoLink \in Links(n) /\ NoLink.awaiting = 0
<1> DEFINE q == <<>>
           r == [open |-> FALSE, subscribed |-> FALSE, blocked |-> FALSE,
                 queued |-> q, awaiting |-> 0, wire |-> q]
<1>1. q \in Seq(Frames(n)) /\ Len(q) = 0
  BY EmptySeq
<1>2. NoLink = r
  BY DEF NoLink
<1> HIDE DEF q
<1>3. r \in Links(n)
  BY <1>1 DEF Links
<1>4. LinkOK(r, n)
  BY <1>1, <1>3, LimitsAssumption DEF LinkOK
<1> QED
  BY <1>2, <1>3, <1>4 DEF PairOK

LEMMA TabGrows ==
    ASSUME NEW n \in Nat, NEW b, TabOK(b, n)
    PROVE  TabOK(b, n + 1)
<1>1. Records(n) \subseteq Records(n + 1)
  BY DEF Records
<1>2. b.buffered \in Seq(Records(n + 1)) /\ b.copy \in 0 .. n + 1
  BY <1>1, SeqMonotonic DEF TabOK, Views
<1>3. b \in Views(n + 1)
  BY <1>2 DEF TabOK, Views
<1> QED
  BY <1>3 DEF TabOK

-----------------------------------------------------------------------------
(* What a broadcast and a subscription do to a tab and its connection.     *)

\* Types of the frames on their way.
LEMMA FlightTypes ==
    ASSUME NEW n \in Nat, NEW b, TabOK(b, n), NEW l, LinkOK(l, n)
    PROVE  /\ b.buffered \in Seq(Frames(n)) /\ b.copy \in 0 .. n
           /\ l.wire \in Seq(Frames(n)) /\ l.queued \in Seq(Frames(n))
           /\ Content(l) \in Seq(Frames(n))
           /\ b.buffered \o Content(l) \in Seq(Frames(n))
<1>1. Records(n) \subseteq Frames(n)
  BY DEF Records, Frames
<1>2. b.buffered \in Seq(Frames(n)) /\ b.copy \in 0 .. n
  BY <1>1, SeqMonotonic DEF TabOK, Views
<1>3. l.wire \in Seq(Frames(n)) /\ l.queued \in Seq(Frames(n))
  BY DEF LinkOK, Links
<1>4. Content(l) \in Seq(Frames(n))
  BY <1>3 DEF Content
<1> HIDE DEF Content
<1> QED
  BY <1>2, <1>3, <1>4

\* The connection l of a tab b becomes l2 as record f, the next event, is
\* broadcast; what is pending stays so if the connection is subscribed, and
\* something is if a compaction began.
Follows(b, l, l2, a, a2, n, e, e2, f) ==
    /\ PairOK(b, l, a, n, e)
    /\ f = [kind |-> "event", number |-> n + 1]
    /\ l2 = Broadcast(l, f) \/ l2 = NoLink
    /\ ((a => a2) /\ (e => e2)) \/ ~l2.subscribed
    /\ Began(l, l2) => a2

LEMMA EventPair ==
    ASSUME NEW n \in Nat, NEW b, NEW l, NEW l2, NEW a, NEW a2, NEW e, NEW e2, NEW f,
           Follows(b, l, l2, a, a2, n, e, e2, f)
    PROVE  PairOK(b, l2, a2, n + 1, e2) /\ l2 \in Links(n + 1)
<1> SUFFICES ASSUME PairOK(b, l, a, n, e), f = [kind |-> "event", number |-> n + 1],
                    l2 = Broadcast(l, f) \/ l2 = NoLink,
                    ((a => a2) /\ (e => e2)) \/ ~l2.subscribed, Began(l, l2) => a2
             PROVE  PairOK(b, l2, a2, n + 1, e2) /\ l2 \in Links(n + 1)
  BY DEF Follows
<1>1. LinkOK(l, n) /\ TabOK(b, n) /\ TabOK(b, n + 1) /\ n + 1 \in Nat
  BY TabGrows DEF PairOK
<1>2. CASE l2 = NoLink
  BY <1>1, <1>2, NoLinkOK
<1>3. CASE l2 = Broadcast(l, f)
  <2>1. f \in Frames(n + 1) /\ f.number = n + 1 /\ f.kind = "event"
    BY DEF Frames
  <2>2. /\ LinkOK(l2, n + 1) /\ l2.subscribed = l.subscribed
        /\ ~l.subscribed => l2 = l
        /\ l.subscribed =>
             \/ l2.awaiting # 0
             \/ l.awaiting = 0 /\ Content(l2) = Append(Content(l), f)
    BY <1>1, <1>3, <2>1, BroadcastOK
  <2>3. l2.awaiting # 0 => a2
    BY <2>2 DEF Began, PairOK, LinkOK
  <2>4. l2.open /\ Joined(b) => l2.subscribed
    BY <2>2 DEF PairOK, LinkOK
  <2>5. ASSUME ~e2, l2.subscribed, Joined(b), l2.awaiting = 0
        PROVE  Delivers(b.buffered \o Content(l2), b.copy, n + 1)
    <3> DEFINE F == b.buffered \o Content(l)
    <3>1. Delivers(F, b.copy, n)
      BY <2>2, <2>5 DEF PairOK
    <3>2. /\ F \in Seq(Frames(n)) /\ b.buffered \in Seq(Frames(n)) /\ b.copy \in 0 .. n
          /\ Content(l) \in Seq(Frames(n))
      BY <1>1, FlightTypes
    <3>3. Frames(n) \subseteq Frames(n + 1)
      BY DEF Frames
    <3>4. /\ F \in Seq(Frames(n + 1)) /\ b.buffered \in Seq(Frames(n + 1))
          /\ Content(l) \in Seq(Frames(n + 1))
      BY <3>2, <3>3, SeqMonotonic
    <3>5. Appended(b.buffered, Content(l), f)
      BY <2>1, <3>4, AppendedFacts
    <3> HIDE DEF F
    <3>6. Delivers(Append(F, f), b.copy, n + 1)
      BY <2>1, <3>1, <3>2, <3>4, DeliversEvent
    <3>7. Content(l2) = Append(Content(l), f)
      BY <2>2, <2>5
    <3>8. b.buffered \o Append(Content(l), f) = Append(F, f)
      BY <3>5 DEF Appended, F
    <3> QED
      BY <3>6, <3>7, <3>8
  <2>6. l2 \in Links(n + 1)
    BY <2>2 DEF LinkOK
  <2> QED
    BY <1>1, <2>2, <2>3, <2>4, <2>5, <2>6 DEF PairOK
<1> QED
  BY <1>2, <1>3

\* The next checkpoint, also if it settles what was pending.
LEMMA CheckpointPair ==
    ASSUME NEW n \in Nat, NEW b, NEW l, NEW a, NEW e, PairOK(b, l, a, n, e),
           NEW f, f = [kind |-> "checkpoint", number |-> n + 1],
           NEW l2, l2 = Broadcast(l, f) \/ l2 = NoLink,
           NEW a2, Began(l, l2) => a2, NEW e2
    PROVE  PairOK(b, l2, a2, n + 1, e2) /\ l2 \in Links(n + 1)
<1>1. LinkOK(l, n) /\ TabOK(b, n) /\ TabOK(b, n + 1) /\ n + 1 \in Nat
  BY TabGrows DEF PairOK
<1>2. CASE l2 = NoLink
  BY <1>1, <1>2, NoLinkOK
<1>3. CASE l2 = Broadcast(l, f)
  <2>1. f \in Frames(n + 1) /\ f.number = n + 1 /\ f.kind = "checkpoint"
    BY DEF Frames
  <2>2. /\ LinkOK(l2, n + 1) /\ l2.subscribed = l.subscribed
        /\ ~l.subscribed => l2 = l
        /\ l.subscribed =>
             \/ /\ l.awaiting = 0
                /\ l2.awaiting # 0
             \/ \E w \in Seq(Frames(n + 1)) : Content(l2) = Append(w, f)
        /\ l.awaiting # 0 => l2.awaiting = 0
    BY <1>1, <1>3, <2>1, BroadcastOK
  <2>3. l2.awaiting # 0 => a2
    BY <2>2 DEF Began
  <2>4. l2.open /\ Joined(b) => l2.subscribed
    BY <2>2 DEF PairOK, LinkOK
  <2>5. ASSUME l2.subscribed, l2.awaiting = 0
        PROVE  Delivers(b.buffered \o Content(l2), b.copy, n + 1)
    <3>1. PICK w \in Seq(Frames(n + 1)) : Content(l2) = Append(w, f)
      BY <2>2, <2>5
    <3>2. b.buffered \in Seq(Frames(n + 1))
      BY <1>1, <2>2, FlightTypes
    <3> DEFINE F == b.buffered \o w
    <3>3. F \in Seq(Frames(n + 1))
      BY <3>2
    <3>4. Appended(b.buffered, w, f)
      BY <2>1, <3>2, AppendedFacts
    <3> HIDE DEF F
    <3>5. Delivers(Append(F, f), b.copy, n + 1)
      BY <2>1, <3>3, DeliversCheckpoint
    <3>6. b.buffered \o Append(w, f) = Append(F, f)
      BY <3>4 DEF Appended, F
    <3> QED
      BY <3>1, <3>5, <3>6
  <2>6. l2 \in Links(n + 1)
    BY <2>2 DEF LinkOK
  <2> QED
    BY <1>1, <2>2, <2>3, <2>4, <2>5, <2>6 DEF PairOK
<1> QED
  BY <1>2, <1>3

\* A frame that only the helper's queue held back is written.
LEMMA SameFramesPair ==
    ASSUME NEW n \in Nat, NEW b, NEW l, NEW a, NEW e, PairOK(b, l, a, n, e),
           NEW l2, LinkOK(l2, n), l2.open = l.open, l2.subscribed = l.subscribed,
           l2.awaiting = l.awaiting, Content(l2) = Content(l)
    PROVE  PairOK(b, l2, a, n, e)
  BY DEF PairOK

\* A new subscription of t: what is on its way then brings the tab up to date,
\* or it is excused.
Fresh(r, a, n, e) ==
    /\ LinkOK(r, n) /\ r.subscribed
    /\ r.awaiting # 0 => a
    /\ e \/ r.awaiting # 0 \/ \A c : Delivers(Content(r), c, n)

\* What is excused after a step that leaves the last record.
Excuse2 == ~Whole(store', sequence) /\ (Alone => Pending')

\* A subscription gets a connection that leads its tab to the last record, or
\* a checkpoint is pending.
LEMMA SelectOwnerOK ==
    ASSUME Inv, NEW t \in Tabs, NEW l, LinkOK(l, sequence), l.open,
           NEW cursor \in 0 .. sequence, SelectOwner(t, l, cursor)
    PROVE  /\ StoreOK(store', sequence)
           /\ Whole(store', sequence) => Whole(store, sequence)
           /\ command' \in Commands
           /\ (Pending => Pending') \/ ~Others(t)
           /\ \E r : /\ link' = [link EXCEPT ![t] = r]
                     /\ \/ r = NoLink
                        \/ /\ LinkOK(r, sequence) /\ r.subscribed
                           /\ r.awaiting # 0 => Pending'
                           /\ l.wire = <<>> /\ cursor = 0 =>
                                Fresh(r, Pending', sequence, Excuse2)
<1> DEFINE n == sequence
<1>1. n \in Nat /\ StoreOK(store, n) /\ (Alone => lingering = 0) /\ link \in [Tabs -> Links(n)]
  BY DEF Inv
<1> HIDE DEF n
<1> DEFINE stays == ~Others(t) /\ Released(t).demanded
           acquired == [Reacquired(t) EXCEPT !.unheard = IF stays THEN TRUE ELSE @]
<1>2. PICK expired \in 0 .. Len(store.replay), refused \in BOOLEAN :
        LET kept == IF store.checkpoint = 0 THEN store ELSE Pruned(store, expired)
            fresh == [l EXCEPT !.subscribed = TRUE, !.queued = <<>>, !.awaiting = 0]
            after == SendAll(fresh, ReplayFrames(kept, cursor))
        IN  /\ refused => Began(fresh, after) \/ kept.checkpoint = 0
            /\ IF refused THEN Fault ELSE UNCHANGED faults
            /\ store' = kept
            /\ link' = [link EXCEPT ![t] = IF refused THEN NoLink ELSE after]
            /\ command' =
                  IF refused THEN Counts(Reacquired(t), Others(t))
                  ELSE IF kept.checkpoint = 0 \/ Began(fresh, link'[t]) THEN Asks(acquired)
                  ELSE acquired
  BY DEF SelectOwner
<1> DEFINE kept == IF store.checkpoint = 0 THEN store ELSE Pruned(store, expired)
           q == <<>>
           z == 0
           fresh == [l EXCEPT !.subscribed = TRUE, !.queued = q, !.awaiting = z]
           F == ReplayFrames(kept, cursor)
           after == SendAll(fresh, F)
<1>3. /\ store' = kept
      /\ link' = [link EXCEPT ![t] = IF refused THEN NoLink ELSE after]
      /\ command' = IF refused THEN Counts(Reacquired(t), Others(t))
                    ELSE IF kept.checkpoint = 0 \/ Began(fresh, link'[t]) THEN Asks(acquired)
                    ELSE acquired
  BY <1>2
<1>4. StoreOK(kept, n) /\ (Whole(kept, n) => Whole(store, n))
  BY <1>1, PrunedOK
<1> HIDE DEF kept
<1>5. /\ F \in Seq(Frames(n))
      /\ \A i \in 2 .. Len(F) : F[i].number # 0
      /\ cursor = 0 /\ Whole(kept, n) => \A c : Delivers(F, c, n)
  BY <1>1, <1>4, ReplayOK DEF n
<1> HIDE DEF F
<1>6. LinkOK(fresh, n) /\ fresh.subscribed /\ fresh.queued = <<>> /\ fresh.awaiting = 0
      /\ fresh.wire = l.wire
  <2>1. l \in Links(n) /\ Len(l.wire) <= WireLimit
    BY DEF LinkOK, n
  <2>2. q \in Seq(Frames(n)) /\ z \in 0 .. n
    BY <1>1, EmptySeq
  <2>3. q = <<>> /\ z = 0
    OBVIOUS
  <2> HIDE DEF q, z
  <2>4. fresh \in Links(n)
    BY <2>1, <2>2 DEF Links
  <2>5. fresh.subscribed = TRUE /\ fresh.queued = q /\ fresh.awaiting = z
    BY <2>1 DEF Links
  <2>6. fresh.wire = l.wire /\ fresh.open = l.open
    BY <2>1 DEF Links
  <2> HIDE DEF fresh
  <2> QED
    BY <2>1, <2>3, <2>4, <2>5, <2>6 DEF LinkOK
<1> HIDE DEF fresh
<1>7. LinkOK(after, n) /\ after.subscribed /\ Carries(after, fresh.wire, F)
  BY <1>1, <1>5, <1>6, SendAllOK
<1> HIDE DEF after
<1>a. Others(t) \in BOOLEAN /\ stays \in BOOLEAN /\ (Alone => ~Others(t))
  BY <1>1 DEF Others, Alone
<1>b. /\ Reacquired(t) \in Commands
      /\ Pending => Pend(Reacquired(t)) \/ ~Others(t)
      /\ ~Released(t).demanded => Pend(Reacquired(t))
  BY ReacquiredOK
<1>c. /\ acquired \in Commands
      /\ Pend(Reacquired(t)) => Pend(acquired)
      /\ stays => Pend(acquired)
  <2> DEFINE q1 == Reacquired(t)
             q2 == stays
  <2>1. acquired = [q1 EXCEPT !.unheard = IF q2 THEN TRUE ELSE @] /\ q1 \in Commands
        /\ q2 \in BOOLEAN
    BY <1>a, <1>b
  <2> HIDE DEF q1, q2, acquired
  <2>2. /\ acquired \in Commands
        /\ Pend(q1) => Pend(acquired)
        /\ q2 => Pend(acquired)
    BY <2>1 DEF Commands, Pend
  <2> QED
    BY <2>2 DEF q1, q2
<1>d. /\ Alone => Pend(acquired)
      /\ Pending => Pend(acquired) \/ ~Others(t)
  BY <1>a, <1>b, <1>c
<1> HIDE DEF stays, acquired
<1>9. CASE refused
  <2>1. link' = [link EXCEPT ![t] = NoLink]
    BY <1>3, <1>9
  <2>2. command' = Counts(Reacquired(t), Others(t))
    BY <1>3, <1>9
  <2>3. command' \in Commands /\ (Others(t) /\ Pending => Pend(command'))
    BY <1>a, <1>b, <2>2, CountsOK
  <2>4. (Pending => Pending') \/ ~Others(t)
    BY <2>3 DEF Pending, Pend
  <2> QED
    BY <1>3, <1>4, <2>1, <2>3, <2>4 DEF n
<1>10. CASE ~refused
  <2>1. link' = [link EXCEPT ![t] = after] /\ link'[t] = after
    BY <1>1, <1>3, <1>10
  <2>2. /\ command' = IF kept.checkpoint = 0 \/ Began(fresh, after)
                      THEN Asks(acquired) ELSE acquired
    BY <1>3, <1>10, <2>1
  <2>3. /\ command' \in Commands
        /\ Pend(acquired) => Pend(command')
        /\ Began(fresh, after) => Pend(command')
    BY <1>c, <2>2, AsksOK
  <2>4. Pending' <=> Pend(command')
    BY DEF Pending, Pend
  <2>5. after.awaiting # 0 => Pending'
    BY <1>6, <2>3, <2>4 DEF Began
  <2>6. (Alone => Pending') /\ ((Pending => Pending') \/ ~Others(t))
    BY <1>d, <2>3, <2>4
  <2>7. ASSUME l.wire = <<>>, cursor = 0, Whole(kept, n), after.awaiting = 0, NEW c
        PROVE  Delivers(Content(after), c, n)
    <3>2. Content(after) = <<>> \o F
      BY <1>6, <1>7, <2>7 DEF Carries
    <3>3. <<>> \o F = F
      BY <1>5, ConcatEmptySeq
    <3> QED
      BY <1>5, <2>7, <3>2, <3>3
  <2>8. l.wire = <<>> /\ cursor = 0 => Fresh(after, Pending', n, Excuse2)
    BY <1>3, <1>7, <2>5, <2>6, <2>7 DEF Fresh, Excuse2, n
  <2> QED
    BY <1>3, <1>4, <1>7, <2>1, <2>3, <2>5, <2>6, <2>8 DEF n
<1> QED
  BY <1>9, <1>10

-----------------------------------------------------------------------------
(* Frames that move from the wire to the tab.                              *)

\* The first element of the first of two sequences.
Shifts(s, t) ==
    /\ s \o t # <<>> /\ Head(s \o t) = Head(s)
    /\ Tail(s) \o t = Tail(s \o t)

LEMMA ShiftsFacts ==
    ASSUME NEW S, NEW s \in Seq(S), s # <<>>, NEW t \in Seq(S)
    PROVE  Shifts(s, t)
<1> DEFINE W == s \o t
           a == Tail(s)
<1>1. Len(s) \in Nat \ {0} /\ Len(t) \in Nat
  BY EmptySeq
<1>2. /\ W \in Seq(S) /\ Len(W) = Len(s) + Len(t)
      /\ \A i \in 1 .. Len(s) + Len(t) : W[i] = IF i <= Len(s) THEN s[i] ELSE t[i - Len(s)]
  BY ConcatProperties
<1>3. W # <<>>
  <2>1. Len(W) # 0
    BY <1>1, <1>2
  <2> HIDE DEF W
  <2> QED
    BY <2>1
<1>4. a \in Seq(S) /\ Len(a) = Len(s) - 1 /\ \A i \in 1 .. Len(a) : a[i] = s[i + 1]
  BY HeadTailProperties
<1> HIDE DEF a
<1> DEFINE H == a \o t
<1>5. /\ H \in Seq(S) /\ Len(H) = Len(a) + Len(t)
      /\ \A i \in 1 .. Len(a) + Len(t) : H[i] = IF i <= Len(a) THEN a[i] ELSE t[i - Len(a)]
  BY <1>4, ConcatProperties
<1> HIDE DEF W, H
<1>6. /\ Tail(W) \in Seq(S) /\ Len(Tail(W)) = Len(W) - 1
      /\ \A i \in 1 .. Len(Tail(W)) : Tail(W)[i] = W[i + 1]
  BY <1>2, <1>3, HeadTailProperties
<1>7. Len(H) = Len(Tail(W))
  BY <1>1, <1>2, <1>4, <1>5, <1>6
<1>8. ASSUME NEW i \in 1 .. Len(H) PROVE H[i] = Tail(W)[i]
  <2>1. i \in 1 .. Len(a) + Len(t) /\ i \in 1 .. Len(Tail(W)) /\ i + 1 \in 1 .. Len(s) + Len(t)
    BY <1>1, <1>2, <1>4, <1>5, <1>7
  <2>2. Tail(W)[i] = W[i + 1]
    BY <1>6, <2>1
  <2>3. CASE i <= Len(a)
    <3>1. i \in 1 .. Len(a) /\ i + 1 <= Len(s)
      BY <1>1, <1>4, <2>3
    <3>2. H[i] = a[i] /\ W[i + 1] = s[i + 1] /\ a[i] = s[i + 1]
      BY <1>2, <1>4, <1>5, <2>1, <3>1
    <3> QED
      BY <2>2, <3>2
  <2>4. CASE ~(i <= Len(a))
    <3>1. ~(i + 1 <= Len(s)) /\ (i + 1) - Len(s) = i - Len(a)
      BY <1>1, <1>4, <2>4
    <3>2. H[i] = t[i - Len(a)] /\ W[i + 1] = t[(i + 1) - Len(s)]
      BY <1>2, <1>5, <2>1, <2>4, <3>1
    <3> QED
      BY <2>2, <3>1, <3>2
  <2> QED
    BY <2>3, <2>4
<1>9. H = Tail(W)
  BY <1>5, <1>6, <1>7, <1>8, SeqEqual
<1>10. Head(W) = Head(s)
  <2>1. 1 \in 1 .. Len(s) + Len(t) /\ 1 <= Len(s)
    BY <1>1
  <2>2. W[1] = s[1]
    BY <1>2, <2>1
  <2> QED
    BY <1>2, <1>3, <2>2
<1> QED
  BY <1>3, <1>9, <1>10 DEF Shifts, H, W, a

\* The first frame is taken from the wire.
LEMMA TakenOK ==
    ASSUME NEW n \in Nat, NEW l, LinkOK(l, n), l.wire # <<>>,
           NEW l2, l2 = [l EXCEPT !.wire = Tail(@)]
    PROVE  /\ LinkOK(l2, n) /\ l2.open = l.open /\ l2.subscribed = l.subscribed
           /\ l2.awaiting = l.awaiting
           /\ Content(l) # <<>> /\ Head(Content(l)) = Head(l.wire)
           /\ Content(l2) = Tail(Content(l))
           /\ Head(l.wire) \in Frames(n)
<1>1. /\ l \in Links(n) /\ l.wire \in Seq(Frames(n)) /\ l.queued \in Seq(Frames(n))
      /\ Len(l.wire) <= WireLimit /\ WireLimit \in Nat
  BY LimitsAssumption DEF LinkOK, Links
<1> DEFINE w == l.wire
           q == l.queued
           v == Tail(w)
<1>2. /\ w \in Seq(Frames(n)) /\ q \in Seq(Frames(n)) /\ w # <<>>
  BY <1>1
<1>3. /\ v \in Seq(Frames(n)) /\ Len(v) = Len(w) - 1 /\ Len(w) \in Nat
      /\ Head(w) \in Frames(n)
  BY <1>2, HeadTailProperties
<1>4. Shifts(w, q)
  BY <1>2, ShiftsFacts
<1> HIDE DEF v
<1> DEFINE r == [l EXCEPT !.wire = v]
<1>5. l2 = r
  BY DEF v
<1>6. r \in Links(n)
  BY <1>1, <1>3 DEF Links
<1>7. r.wire = v /\ r.queued = q /\ r.open = l.open
  BY <1>1 DEF Links
<1>8. r.subscribed = l.subscribed /\ r.awaiting = l.awaiting
  BY <1>1 DEF Links
<1> HIDE DEF r
<1>9. LinkOK(r, n)
  <2>1. Len(v) <= WireLimit
    BY <1>1, <1>3
  <2> QED
    BY <1>6, <1>7, <1>8, <2>1 DEF LinkOK
<1> QED
  BY <1>3, <1>4, <1>5, <1>7, <1>8, <1>9 DEF Content, Shifts, v

\* A frame that is buffered stays in its place.
Buffers(s, t) == Append(s, Head(t)) \o Tail(t) = s \o t

LEMMA BuffersFacts ==
    ASSUME NEW S, NEW s \in Seq(S), NEW t \in Seq(S), t # <<>>
    PROVE  Buffers(s, t)
<1>1. Head(t) \in S /\ Tail(t) \in Seq(S)
  BY HeadTailProperties
<1>2. Append(s, Head(t)) = s \o <<Head(t)>> /\ <<Head(t)>> \in Seq(S)
  BY <1>1, AppendIsConcat
<1>3. (s \o <<Head(t)>>) \o Tail(t) = s \o (<<Head(t)>> \o Tail(t))
  BY <1>1, <1>2, ConcatAssociative
<1>4. <<Head(t)>> \o Tail(t) = t
  <2>1. Len(t) \in Nat \ {0}
    BY EmptySeq
  <2>2. 1 \in 1 .. Len(t) /\ Len(t) \in 1 .. Len(t)
    BY <2>1
  <2>3. SubSeq(t, 1, Len(t)) = <<t[1]>> \o SubSeq(t, 1 + 1, Len(t))
    BY <2>2, SubSeqRecursiveFirst
  <2>4. Tail(t) = SubSeq(t, 2, Len(t)) /\ Head(t) = t[1] /\ SubSeq(t, 1, Len(t)) = t
    BY TailIsSubSeq, SubSeqFull
  <2> QED
    BY <2>3, <2>4
<1> QED
  BY <1>2, <1>3, <1>4 DEF Buffers

-----------------------------------------------------------------------------
(* What the tab's own steps do to it and its connection.                   *)

\* The tab receives the frame that was written first.
LEMMA ReceivePair ==
    ASSUME NEW n \in Nat, NEW b, NEW l, NEW a, NEW e, PairOK(b, l, a, n, e), l.wire # <<>>,
           NEW l2, l2 = [l EXCEPT !.wire = Tail(@)],
           NEW b2, b2 = Handled(b, Head(l.wire))
    PROVE  PairOK(b2, l2, a, n, e)
<1> DEFINE f == Head(l.wire)
           G == Content(l)
           B == b.buffered
<1>1. LinkOK(l, n) /\ TabOK(b, n)
  BY DEF PairOK
<1>2. /\ LinkOK(l2, n) /\ l2.open = l.open /\ l2.subscribed = l.subscribed
      /\ l2.awaiting = l.awaiting
      /\ G # <<>> /\ Head(G) = f /\ Content(l2) = Tail(G) /\ f \in Frames(n)
  BY <1>1, TakenOK
<1>3. B \in Seq(Frames(n)) /\ G \in Seq(Frames(n)) /\ b.copy \in 0 .. n
  BY <1>1, FlightTypes
<1>4. f.kind \in {"hello", "reset", "checkpoint", "event"} /\ f.number \in 0 .. n
  BY <1>2 DEF Frames
<1>5. /\ b \in Views(n) /\ b.exact = TRUE /\ b.subscribed \in BOOLEAN
      /\ b.request \in {"none", "posted", "granted"} /\ B \in Seq(Records(n))
      /\ (b.subscribed => B = <<>>)
  BY <1>1 DEF TabOK, Views
<1> HIDE DEF f, G, B
\* What remains to be shown, once the tab itself is known to be well formed.
<1>6. ASSUME TabOK(b2, n), Joined(b2) => Joined(b),
             NEW B2, b2.buffered = B2,
             Joined(b2) /\ Delivers(B \o G, b.copy, n) => Delivers(B2 \o Tail(G), b2.copy, n)
      PROVE  PairOK(b2, l2, a, n, e)
  <2>1. l2.awaiting # 0 => a
    BY <1>2 DEF PairOK
  <2>2. l2.open /\ Joined(b2) => l2.subscribed
    BY <1>2, <1>6 DEF PairOK
  <2>3. l.subscribed /\ Joined(b) => e \/ l.awaiting # 0 \/ Delivers(B \o G, b.copy, n)
    BY DEF PairOK, B, G
  <2>4. l2.subscribed /\ Joined(b2) =>
          e \/ l2.awaiting # 0 \/ Delivers(b2.buffered \o Content(l2), b2.copy, n)
    BY <1>2, <1>6, <2>3
  <2> QED
    BY <1>2, <1>6, <2>1, <2>2, <2>4 DEF PairOK
<1>7. CASE f.kind = "hello"
  <2> DEFINE r == [b EXCEPT !.request = "posted"]
  <2>1. b2 = r
    BY <1>7 DEF Handled, f
  <2>2. r \in Views(n)
    BY <1>5 DEF Views
  <2>3. r.exact = b.exact /\ r.subscribed = b.subscribed /\ r.copy = b.copy
    BY <1>5 DEF Views
  <2>4. r.buffered = B /\ r.request = "posted"
    BY <1>5 DEF Views, B
  <2> HIDE DEF r
  <2>5. TabOK(r, n)
    BY <1>5, <2>2, <2>3, <2>4 DEF TabOK
  <2>6. Joined(r) => Joined(b)
    BY <2>3, <2>4 DEF Joined
  <2>7. Delivers(B \o G, b.copy, n) => Delivers(B \o Tail(G), b2.copy, n)
    BY <1>2, <1>3, <1>7, DeliversWithout
  <2> QED
    BY <1>6, <2>1, <2>4, <2>5, <2>6, <2>7
<1>8. CASE f.kind = "reset"
  <2> DEFINE z == 0
             r == [b EXCEPT !.copy = z]
  <2>1. b2 = IF b.subscribed THEN r ELSE b
    BY <1>8 DEF Handled, f
  <2>2. z \in 0 .. n
    OBVIOUS
  <2> HIDE DEF z
  <2>3. r \in Views(n)
    BY <1>5, <2>2 DEF Views
  <2>4. r.exact = b.exact /\ r.subscribed = b.subscribed
    BY <1>5 DEF Views
  <2>5. r.buffered = B /\ r.request = b.request
    BY <1>5 DEF Views, B
  <2> HIDE DEF r
  <2>6. TabOK(r, n)
    BY <1>5, <2>3, <2>4, <2>5 DEF TabOK
  <2>7. Joined(r) => Joined(b)
    BY <2>4, <2>5 DEF Joined
  <2>8. Delivers(B \o G, b.copy, n) => Delivers(B \o Tail(G), b2.copy, n)
    BY <1>2, <1>3, <1>8, DeliversWithout
  <2>9. b.buffered = B
    BY DEF B
  <2> QED
    BY <1>1, <1>6, <2>1, <2>5, <2>6, <2>7, <2>8, <2>9
<1>9. CASE f.kind \in {"checkpoint", "event"} /\ b.subscribed
  <2>1. f \in Records(n)
    BY <1>2, <1>9 DEF Frames, Records
  <2>2. b2 = Apply(b, f)
    BY <1>9 DEF Handled, f
  <2>3. /\ TabOK(b2, n)
        /\ \/ b2.subscribed /\ b2.request = b.request
           \/ ~b2.subscribed /\ b2.request = "posted"
    BY <1>1, <1>9, <2>1, <2>2, ApplyOK
  <2>4. Joined(b2) => b2.subscribed
    BY <2>3 DEF Joined
  <2>5. b2.subscribed => b2.buffered = <<>>
    BY <2>3 DEF TabOK
  <2>6. <<>> \o G = G /\ <<>> \o Tail(G) = Tail(G)
    <3>1. Tail(G) \in Seq(Frames(n))
      BY <1>2, <1>3, HeadTailProperties
    <3> QED
      BY <1>3, <3>1, ConcatEmptySeq
  <2>7. Delivers(G, b.copy, n) /\ b2.subscribed => Delivers(Tail(G), b2.copy, n)
    BY <1>1, <1>2, <1>3, <1>9, <2>1, <2>2, DeliversTail
  <2>8. Joined(b2) => Joined(b)
    BY <1>9 DEF Joined
  <2>9. Joined(b2) /\ Delivers(B \o G, b.copy, n) =>
          Delivers(b2.buffered \o Tail(G), b2.copy, n)
    BY <1>5, <1>9, <2>4, <2>5, <2>6, <2>7
  <2> QED
    BY <1>6, <2>3, <2>8, <2>9
<1>10. CASE f.kind \in {"checkpoint", "event"} /\ ~b.subscribed
  <2> DEFINE B2 == Append(B, f)
             r == [b EXCEPT !.buffered = B2]
  <2>1. f \in Records(n)
    BY <1>2, <1>10 DEF Frames, Records
  <2>2. b2 = r
    BY <1>10 DEF Handled, f, B
  <2>3. B2 \in Seq(Records(n))
    BY <1>5, <2>1
  <2>4. B2 \o Tail(G) = B \o G
    <3>1. Buffers(B, G)
      BY <1>2, <1>3, BuffersFacts
    <3> QED
      BY <1>2, <3>1 DEF Buffers
  <2> HIDE DEF B2
  <2>5. r \in Views(n)
    BY <1>5, <2>3 DEF Views
  <2>6. r.exact = b.exact /\ r.subscribed = b.subscribed /\ r.copy = b.copy
    BY <1>5 DEF Views
  <2>7. r.buffered = B2 /\ r.request = b.request
    BY <1>5 DEF Views
  <2> HIDE DEF r
  <2>8. TabOK(r, n)
    BY <1>5, <1>10, <2>5, <2>6, <2>7 DEF TabOK
  <2>9. Joined(r) => Joined(b)
    BY <2>6, <2>7 DEF Joined
  <2> QED
    BY <1>6, <2>2, <2>4, <2>6, <2>7, <2>8, <2>9
<1> QED
  BY <1>4, <1>5, <1>7, <1>8, <1>9, <1>10

\* The answer names the subscription, and what was buffered is applied.
LEMMA GrantedPair ==
    ASSUME NEW n \in Nat, NEW b, NEW l, NEW a, NEW e, PairOK(b, l, a, n, e),
           b.request = "granted",
           NEW b2, b2 = ApplyBuffered(
                          [b EXCEPT !.subscribed = TRUE, !.request = "none", !.buffered = <<>>],
                          b.buffered)
    PROVE  PairOK(b2, l, a, n, e)
<1>1. LinkOK(l, n) /\ TabOK(b, n)
  BY DEF PairOK
<1>2. b \in Views(n) /\ b.exact = TRUE /\ b.buffered \in Seq(Records(n)) /\ b.copy \in 0 .. n
  BY <1>1 DEF TabOK, Views
<1>3. Content(l) \in Seq(Frames(n))
  BY <1>1, FlightTypes
<1> DEFINE q == <<>>
           s == [b EXCEPT !.subscribed = TRUE, !.request = "none", !.buffered = q]
<1>4. b2 = ApplyBuffered(s, b.buffered)
  OBVIOUS
<1>5. q \in Seq(Records(n)) /\ q = <<>>
  BY EmptySeq
<1> HIDE DEF q
<1>6. s \in Views(n)
  BY <1>2, <1>5 DEF Views
<1>7. s.exact = b.exact /\ s.subscribed = TRUE /\ s.copy = b.copy
  BY <1>2 DEF Views
<1>8. s.buffered = q /\ s.request = "none"
  BY <1>2 DEF Views
<1> HIDE DEF s
<1>9. TabOK(s, n) /\ s.subscribed
  BY <1>2, <1>5, <1>6, <1>7, <1>8 DEF TabOK
<1>10. /\ TabOK(b2, n) /\ b2.request # "granted"
       /\ Delivers(b.buffered \o Content(l), s.copy, n) /\ b2.subscribed =>
            Delivers(Content(l), b2.copy, n)
       /\ b2.subscribed => b2.buffered = <<>>
  BY <1>2, <1>3, <1>4, <1>8, <1>9, ApplyBufferedOK
<1>11. <<>> \o Content(l) = Content(l)
  BY <1>3, ConcatEmptySeq
<1>12. l.subscribed /\ Joined(b2) =>
         e \/ l.awaiting # 0 \/ Delivers(b2.buffered \o Content(l), b2.copy, n)
  <2>1. Joined(b) /\ (Joined(b2) => b2.subscribed)
    BY <1>10 DEF Joined
  <2> QED
    BY <1>7, <1>10, <1>11, <2>1 DEF PairOK
<1>13. l.open /\ Joined(b2) => l.subscribed
  BY DEF PairOK, Joined
<1>14. l.awaiting # 0 => a
  BY DEF PairOK
<1> QED
  BY <1>1, <1>10, <1>12, <1>13, <1>14 DEF PairOK

-----------------------------------------------------------------------------
(* The owner's steps keep the invariant.                                   *)

\* The first state.
LEMMA InvInit == Init => Inv
<1> SUFFICES ASSUME Init PROVE Inv
  OBVIOUS
<1> DEFINE q == <<>>
           s == [checkpoint |-> 0, replay |-> q, floor |-> 0]
           b == [subscribed |-> FALSE, request |-> "none", buffered |-> q,
                 resync |-> FALSE, copy |-> 0, exact |-> TRUE]
<1>1. sequence = 0 /\ lingering = 0 /\ store = s /\ command = NoCommand
      /\ link = [t \in Tabs |-> NoLink] /\ tab = [t \in Tabs |-> b]
  BY DEF Init, EmptyStore, NoTab
<1>2. q \in Seq(1 .. 0) /\ Len(q) = 0 /\ q \in Seq(Records(0)) /\ q = <<>>
  BY EmptySeq
<1> HIDE DEF q
<1>3. StoreOK(s, 0)
  BY <1>2 DEF StoreOK
<1>4. b \in Views(0)
  BY <1>2 DEF Views
<1>5. TabOK(b, 0)
  BY <1>4 DEF TabOK
<1> HIDE DEF b, s
<1>6. NoLink \in Links(0) /\ PairOK(b, NoLink, Pending, 0, Excused)
  BY <1>5, NoLinkOK
<1>7. command \in Commands
  BY <1>1 DEF NoCommand, Commands
<1> QED
  BY <1>1, <1>3, <1>4, <1>6, <1>7 DEF Inv

\* What a step of one tab and its connection leaves to be shown.
LEMMA OneTab ==
    ASSUME Inv, NEW t \in Tabs, NEW b, NEW l,
           UNCHANGED sequence,
           tab' = [tab EXCEPT ![t] = b], link' = [link EXCEPT ![t] = l],
           Alone => lingering' = 0,
           command' \in Commands,
           (Pending => Pending') \/ \A u \in Tabs \ {t} : ~link[u].subscribed,
           StoreOK(store', sequence), Whole(store', sequence) => Whole(store, sequence),
           PairOK(b, l, Pending', sequence, Excuse2)
    PROVE  Inv'
<1>1. /\ sequence \in Nat /\ link \in [Tabs -> Links(sequence)]
      /\ tab \in [Tabs -> Views(sequence)]
      /\ \A u \in Tabs : PairOK(tab[u], link[u], Pending, sequence, Excused)
  BY DEF Inv
<1>2. (Pending => Pending') => (Excused => Excuse2)
  BY DEF Excused, Excuse2
<1>3. ASSUME NEW u \in Tabs PROVE PairOK(tab'[u], link'[u], Pending', sequence, Excuse2)
  <2>1. CASE u = t
    BY <1>1, <2>1
  <2>2. CASE u # t
    <3>1. tab'[u] = tab[u] /\ link'[u] = link[u]
      BY <1>1, <2>2
    <3>2. PairOK(tab[u], link[u], Pending, sequence, Excused)
      BY <1>1
    <3>3. ((Pending => Pending') /\ (Excused => Excuse2)) \/ ~link[u].subscribed
      BY <1>2, <2>2
    <3>4. PairOK(tab[u], link[u], Pending', sequence, Excuse2)
      BY <3>2, <3>3, PairStays
    <3> QED
      BY <3>1, <3>4
  <2> QED
    BY <2>1, <2>2
<1>4. l \in Links(sequence) /\ b \in Views(sequence)
  BY DEF PairOK, LinkOK, TabOK
<1>5. link' \in [Tabs -> Links(sequence)] /\ tab' \in [Tabs -> Views(sequence)]
  BY <1>1, <1>4
<1>6. (Excused' <=> Excuse2) /\ sequence' = sequence
  BY DEF Excused, Excuse2, Alone
<1>7. Alone' <=> Alone
  BY DEF Alone
<1>8. \A u \in Tabs : PairOK(tab'[u], link'[u], Pending', sequence', Excused')
  BY <1>3, <1>6
<1> QED
  BY <1>1, <1>5, <1>6, <1>7, <1>8 DEF Inv

\* The same if nothing but the tab and its connection changes.
LEMMA OtherTabsStay ==
    ASSUME Inv, NEW t \in Tabs, NEW b, NEW l,
           UNCHANGED <<sequence, store, lingering, command>>,
           tab' = [tab EXCEPT ![t] = b], link' = [link EXCEPT ![t] = l],
           PairOK(b, l, Pending, sequence, Excused)
    PROVE  Inv'
<1>1. StoreOK(store', sequence) /\ (Alone => lingering' = 0) /\ command' \in Commands
  BY DEF Inv
<1>2. Pending' <=> Pending
  BY DEF Pending, Pend
<1>3. Excused => Excuse2
  BY <1>2 DEF Excused, Excuse2
<1>4. PairOK(b, l, Pending', sequence, Excuse2)
  BY <1>2, <1>3, PairStays
<1> QED
  BY <1>1, <1>2, <1>4, OneTab

\* The invariant, for one tab.
LEMMA PairOf ==
    ASSUME Inv, NEW t \in Tabs
    PROVE  /\ PairOK(tab[t], link[t], Pending, sequence, Excused)
           /\ sequence \in Nat /\ LinkOK(link[t], sequence) /\ TabOK(tab[t], sequence)
           /\ tab = [tab EXCEPT ![t] = tab[t]] /\ link = [link EXCEPT ![t] = link[t]]
  BY DEF Inv, PairOK

-----------------------------------------------------------------------------
\* A record reaches the store and the tabs.  An event leaves what is pending, if
\* a subscription remains; a checkpoint may settle it.
LEMMA PublishStep ==
    ASSUME Inv, NEW kind \in {"checkpoint", "event"}, NEW refused \in SUBSET Tabs,
           Publish(kind, refused),
           command' \in Commands,
           kind = "event" => (Pending => Pending') \/ \A t \in Tabs : ~link'[t].subscribed,
           Compacting => Pending'
    PROVE  Inv'
<1> DEFINE n == sequence
           f == [kind |-> kind, number |-> n + 1]
           s == Ingested(store, f)
<1>1. /\ n \in Nat /\ StoreOK(store, n) /\ link \in [Tabs -> Links(n)]
      /\ tab \in [Tabs -> Views(n)] /\ (Alone => lingering = 0)
      /\ \A t \in Tabs : PairOK(tab[t], link[t], Pending, n, Excused)
  BY DEF Inv
<1>2. /\ sequence' = n + 1
      /\ link' = [t \in Tabs |-> Limited(link[t], Broadcast(link[t], f), t \in refused)]
      /\ tab' = tab /\ lingering' = lingering
  BY DEF Publish
<1>3. PICK expired \in 0 .. Len(s.replay) : store' = Pruned(s, expired)
  BY DEF Publish
<1>4. n + 1 \in Nat
  BY <1>1
<1> HIDE DEF n
<1>5. StoreOK(s, n + 1) /\ (kind = "event" /\ Whole(s, n + 1) => Whole(store, n))
  BY <1>1, IngestedOK
<1> HIDE DEF s
<1>6. StoreOK(store', n + 1) /\ (Whole(store', n + 1) => Whole(s, n + 1))
  BY <1>3, <1>4, <1>5, PrunedOK
<1> DEFINE c2 == ~Whole(store', n + 1) /\ (Alone => Pending')
<1>7. kind = "event" /\ (Pending => Pending') => (Excused => c2)
  BY <1>5, <1>6 DEF Excused, n
<1> HIDE DEF c2
<1> HIDE DEF f
<1>8. ASSUME NEW t \in Tabs
      PROVE  PairOK(tab[t], link'[t], Pending', n + 1, c2) /\ link'[t] \in Links(n + 1)
  <2>1. link'[t] = Broadcast(link[t], f) \/ link'[t] = NoLink
    BY <1>2 DEF Limited
  <2>2. PairOK(tab[t], link[t], Pending, n, Excused) /\ (Began(link[t], link'[t]) => Pending')
    BY <1>1 DEF Compacting
  <2>3. CASE kind = "event"
    <3> DEFINE b == tab[t]
               l == link[t]
               l2 == link'[t]
               a2 == Pending'
               c == Excused
    <3>1. f = [kind |-> "event", number |-> n + 1]
      BY <2>3 DEF f
    <3>2. ((Pending => a2) /\ (c => c2)) \/ ~l2.subscribed
      BY <1>7, <2>3
    <3>4. PairOK(b, l, Pending, n, c)
      BY <2>2
    <3>5. Began(l, l2) => a2
      BY <2>2
    <3>6. l2 = Broadcast(l, f) \/ l2 = NoLink
      BY <2>1
    <3>7. n \in Nat
      BY <1>1
    <3> HIDE DEF b, l, l2, a2, c
    <3>8. Follows(b, l, l2, Pending, a2, n, c, c2, f)
      BY <3>1, <3>2, <3>4, <3>5, <3>6 DEF Follows
    <3>9. PairOK(b, l2, a2, n + 1, c2) /\ l2 \in Links(n + 1)
      BY <3>7, <3>8, EventPair
    <3> QED
      BY <3>9 DEF b, l2, a2
  <2>4. CASE kind = "checkpoint"
    <3>1. f = [kind |-> "checkpoint", number |-> n + 1]
      BY <2>4 DEF f
    <3> QED
      BY <1>1, <2>1, <2>2, <3>1, CheckpointPair
  <2> QED
    BY <2>3, <2>4
<1>9. link' \in [Tabs -> Links(n + 1)]
  <2>1. link' = [t \in Tabs |-> link'[t]]
    BY <1>2
  <2> QED
    BY <1>8, <2>1
<1>10. tab' \in [Tabs -> Views(n + 1)]
  <2>1. \A t \in Tabs : tab[t] \in Views(n + 1)
    BY <1>8 DEF PairOK, TabOK
  <2> QED
    BY <1>1, <1>2, <2>1
<1>11. Excused' = c2
  BY <1>2 DEF Excused, c2, Alone
<1>12. Alone' <=> Alone
  BY DEF Alone
<1>13. \A t \in Tabs : PairOK(tab'[t], link'[t], Pending', sequence', Excused')
  BY <1>2, <1>8, <1>11
<1> QED
  BY <1>1, <1>2, <1>4, <1>6, <1>9, <1>10, <1>12, <1>13 DEF Inv

\* A checkpoint settles what the owner was asked, but for the compactions that it
\* begins itself: the owner heard of them, or did not.
LEMMA ErasedOK ==
    ASSUME NEW c \in Commands, NEW refused, Compacting \in BOOLEAN
    PROVE  /\ Erased(Relayed(c, refused)) \in Commands
           /\ Compacting => Pend(Erased(Relayed(c, refused)))
<1> DEFINE r == Relayed(c, refused)
           k == Compacting
<1>1. r \in Commands /\ (k => (r.hearing => r.owes)) /\ k \in BOOLEAN
  BY RelayedOK
<1>2. Erased(r) = [r EXCEPT !.asked = FALSE, !.unheard = k /\ ~r.hearing]
  BY DEF Erased
<1> HIDE DEF r, k
<1>3. Erased(r) \in Commands /\ (k => Pend(Erased(r)))
  BY <1>1, <1>2 DEF Commands, Pend
<1> QED
  BY <1>3 DEF r, k

\* Events, checkpoints and answers of the owner.
LEMMA OwnerSteps ==
    ASSUME Inv, OwnerEvent \/ OwnerCheckpoint \/ OwnerAnswers
    PROVE  Inv'
<1>1. command \in Commands /\ Compacting \in BOOLEAN
  BY DEF Inv, Compacting
<1>2. (Pending <=> Pend(command)) /\ (Pending' <=> Pend(command'))
  BY DEF Pending, Pend
<1>3. CASE OwnerEvent
  <2>1. PICK refused \in SUBSET Tabs :
           /\ Publish("event", refused)
           /\ LET c == Relayed(command, refused) IN
              \/ command' = c
              \/ store.checkpoint # 0 /\ Compacting /\ command' = ErasedLater(c)
    BY <1>3 DEF OwnerEvent
  <2> DEFINE c == Relayed(command, refused)
             was == command.asked
  <2>2. /\ c \in Commands /\ was \in BOOLEAN
        /\ Compacting => c.asked /\ (c.hearing => c.owes)
        /\ Pending => Pend(c) \/ \A t \in Tabs : ~link'[t].subscribed
    <3>1. was \in BOOLEAN
      BY <1>1 DEF Commands
    <3> QED
      BY <1>1, <1>2, <3>1, RelayedOK
  <2>3. \/ command' = c
        \/ /\ Compacting
           /\ command' = [c EXCEPT !.asked = was, !.unheard = IF c.hearing THEN @ ELSE TRUE]
    BY <2>1 DEF ErasedLater
  <2> HIDE DEF c, was
  <2>4. command' \in Commands
    BY <2>2, <2>3 DEF Commands
  <2>5. Pend(command') \/ (command' = c /\ ~Compacting)
    BY <2>2, <2>3 DEF Commands, Pend
  <2>6. /\ (Pending => Pending') \/ \A t \in Tabs : ~link'[t].subscribed
        /\ Compacting => Pending'
    BY <1>2, <2>2, <2>5
  <2> QED
    BY <2>1, <2>4, <2>6, PublishStep
<1>4. CASE OwnerCheckpoint
  <2>1. PICK refused \in SUBSET Tabs :
           /\ Publish("checkpoint", refused)
           /\ command' = Erased(Relayed(command, refused))
    BY <1>4 DEF OwnerCheckpoint
  <2>2. command' \in Commands /\ (Compacting => Pending')
    BY <1>1, <1>2, <2>1, ErasedOK
  <2> QED
    BY <2>1, <2>2, PublishStep
<1>5. CASE OwnerAnswers
  <2> DEFINE c == [command EXCEPT !.owes = FALSE]
  <2>1. PICK refused \in SUBSET Tabs :
           /\ Publish("checkpoint", refused)
           /\ command' = Erased(Relayed(c, refused))
    BY <1>5 DEF OwnerAnswers
  <2>2. c \in Commands
    BY <1>1 DEF Commands
  <2> HIDE DEF c
  <2>3. command' \in Commands /\ (Compacting => Pending')
    BY <1>1, <1>2, <2>1, <2>2, ErasedOK
  <2> QED
    BY <2>1, <2>3, PublishStep
<1> QED
  BY <1>3, <1>4, <1>5

\* An evicted store has nothing that could be whole.
LEMMA EvictStep ==
    ASSUME Inv, Evict
    PROVE  Inv'
<1> DEFINE q == <<>>
           s == [checkpoint |-> 0, replay |-> q, floor |-> 0]
<1>1. store' = s /\ UNCHANGED <<sequence, command, link, tab, lingering>>
  BY DEF Evict, EmptyStore
<1>2. sequence \in Nat
  BY DEF Inv
<1>3. q \in Seq(1 .. sequence) /\ Len(q) = 0
  BY EmptySeq
<1> HIDE DEF q
<1>4. StoreOK(s, sequence) /\ ~Whole(s, sequence)
  BY <1>2, <1>3 DEF StoreOK, Whole
<1> HIDE DEF s
<1>5. (Pending' <=> Pending) /\ (Excused => Excused')
  BY <1>1, <1>4 DEF Excused, Alone, Pending, Pend
<1>6. ASSUME NEW t \in Tabs PROVE PairOK(tab[t], link[t], Pending', sequence, Excused')
  <2>1. PairOK(tab[t], link[t], Pending, sequence, Excused)
    BY DEF Inv
  <2> QED
    BY <1>5, <2>1, PairStays
<1>7. Alone' <=> Alone
  BY DEF Alone
<1> QED
  BY <1>1, <1>4, <1>6, <1>7 DEF Inv

-----------------------------------------------------------------------------
(* The steps of the tabs keep the invariant.                               *)

\* What a connect makes of the two ends.
LEMMA NewTab ==
    ASSUME NEW copy \in Nat, NEW exact \in BOOLEAN
    PROVE  [NoTab EXCEPT !.copy = copy, !.exact = exact]
             = [subscribed |-> FALSE, request |-> "none", buffered |-> <<>>, resync |-> FALSE,
                copy |-> copy, exact |-> exact]
<1> DEFINE q == <<>>
           m == [NoTab EXCEPT !.copy = copy, !.exact = exact]
<1>1. NoTab = [subscribed |-> FALSE, request |-> "none", buffered |-> q,
               resync |-> FALSE, copy |-> 0, exact |-> TRUE]
  BY DEF NoTab
<1>2. q \in Seq({})
  BY EmptySeq
<1> HIDE DEF q
<1>3. NoTab \in [subscribed : BOOLEAN, request : {"none"}, buffered : Seq({}),
                 resync : BOOLEAN, copy : Nat, exact : BOOLEAN]
  BY <1>1, <1>2
<1>4. /\ m \in [subscribed : BOOLEAN, request : {"none"}, buffered : Seq({}),
                resync : BOOLEAN, copy : Nat, exact : BOOLEAN]
      /\ m.subscribed = FALSE /\ m.request = "none" /\ m.buffered = q
      /\ m.resync = FALSE /\ m.copy = copy /\ m.exact = exact
  BY <1>1, <1>3
<1> HIDE DEF m
<1>5. m = [subscribed |-> FALSE, request |-> "none", buffered |-> q, resync |-> FALSE,
           copy |-> copy, exact |-> exact]
  BY <1>4
<1> QED
  BY <1>5 DEF m, q

LEMMA NewLink ==
    ASSUME NEW S, NEW h \in S
    PROVE  [NoLink EXCEPT !.open = TRUE, !.queued = h]
             = [open |-> TRUE, subscribed |-> FALSE, blocked |-> FALSE,
                queued |-> h, awaiting |-> 0, wire |-> <<>>]
<1> DEFINE q == <<>>
           T == {q, h}
           m == [NoLink EXCEPT !.open = TRUE, !.queued = h]
<1>1. NoLink = [open |-> FALSE, subscribed |-> FALSE, blocked |-> FALSE,
                queued |-> q, awaiting |-> 0, wire |-> q]
  BY DEF NoLink
<1>2. q \in T /\ h \in T
  OBVIOUS
<1> HIDE DEF q, T
<1>3. NoLink \in [open : BOOLEAN, subscribed : BOOLEAN, blocked : BOOLEAN,
                  queued : T, awaiting : Nat, wire : T]
  BY <1>1, <1>2
<1>4. /\ m \in [open : BOOLEAN, subscribed : BOOLEAN, blocked : BOOLEAN,
                 queued : T, awaiting : Nat, wire : T]
      /\ m.open = TRUE /\ m.subscribed = FALSE /\ m.blocked = FALSE
      /\ m.queued = h /\ m.awaiting = 0 /\ m.wire = q
  BY <1>1, <1>2, <1>3
<1> HIDE DEF m
<1>5. m = [open |-> TRUE, subscribed |-> FALSE, blocked |-> FALSE,
           queued |-> h, awaiting |-> 0, wire |-> q]
  BY <1>4
<1> QED
  BY <1>5 DEF m, q

\* A new connection starts empty, or with a subscription.
LEMMA ConnectStep ==
    ASSUME Inv, NEW t \in Tabs, Connect(t)
    PROVE  Inv'
<1> DEFINE n == sequence
           q == <<>>
           b == [subscribed |-> FALSE, request |-> "none", buffered |-> q, resync |-> FALSE,
                 copy |-> tab[t].copy, exact |-> tab[t].exact]
           h == <<[kind |-> "hello", number |-> 0]>>
           o == [open |-> TRUE, subscribed |-> FALSE, blocked |-> FALSE,
                 queued |-> h, awaiting |-> 0, wire |-> q]
           opened == Flush(o)
<1>1. /\ n \in Nat /\ StoreOK(store, n) /\ (Alone => lingering = 0)
      /\ PairOK(tab[t], link[t], Pending, n, Excused) /\ TabOK(tab[t], n)
      /\ link = [link EXCEPT ![t] = link[t]]
  BY PairOf DEF Inv
<1>2. tab[t] \in Views(n) /\ tab[t].copy \in 0 .. n /\ tab[t].exact = TRUE
  BY <1>1 DEF TabOK, Views
<1>3. UNCHANGED <<sequence, lingering>> /\ tab' = [tab EXCEPT ![t] = b]
  <2>1. [NoTab EXCEPT !.copy = tab[t].copy, !.exact = tab[t].exact] = b
    <3>1. tab[t].copy \in Nat /\ tab[t].exact \in BOOLEAN
      <4>1. n \in Nat /\ tab[t].copy \in 0 .. n /\ tab[t].exact = TRUE
        BY <1>1, <1>2
      <4> DEFINE old == tab[t].copy
                 was == tab[t].exact
      <4> HIDE DEF n, old, was
      <4>2. n \in Nat /\ old \in 0 .. n /\ was = TRUE
        BY <4>1 DEF old, was
      <4>3. old \in Nat /\ was \in BOOLEAN
        BY <4>2
      <4> QED
        BY <4>3 DEF old, was
    <3> QED
      BY <3>1, NewTab
  <2>2. /\ UNCHANGED <<sequence, lingering>>
        /\ tab' = [tab EXCEPT ![t] =
              [NoTab EXCEPT !.copy = tab[t].copy, !.exact = tab[t].exact]]
    BY DEF Connect
  <2> QED
    BY <2>1, <2>2
<1>4. \/ /\ link' = [link EXCEPT ![t] = opened]
         /\ UNCHANGED <<command, store, faults>>
      \/ SelectOwner(t, opened, tab[t].copy)
  <2>1. [NoLink EXCEPT !.open = TRUE, !.queued = h] = o
    BY NewLink
  <2> HIDE DEF h, q
  <2>2. \/ /\ link' = [link EXCEPT ![t] = Flush([NoLink EXCEPT !.open = TRUE, !.queued = h])]
           /\ UNCHANGED <<command, store, faults>>
        \/ SelectOwner(t, Flush([NoLink EXCEPT !.open = TRUE, !.queued = h]), tab[t].copy)
    BY DEF Connect, h
  <2> QED
    BY <2>1, <2>2
<1>5. /\ q \in Seq(Records(n)) /\ q \in Seq(Frames(n)) /\ Len(q) = 0 /\ q = <<>>
      /\ h \in Seq(Frames(n))
  BY <1>1, EmptySeq DEF Frames
<1> HIDE DEF q, h
<1>6. b \in Views(n)
  BY <1>2, <1>5 DEF Views
<1>7. TabOK(b, n) /\ ~Joined(b)
  BY <1>2, <1>5, <1>6 DEF TabOK, Joined
<1>8. o \in Links(n)
  BY <1>1, <1>5 DEF Links
<1>9. LinkOK(o, n)
  BY <1>5, <1>8, LimitsAssumption DEF LinkOK
<1>10. o.open /\ o.awaiting = 0
  OBVIOUS
<1> HIDE DEF o
<1>11. LinkOK(opened, n) /\ opened.open /\ opened.awaiting = 0
  BY <1>1, <1>9, <1>10, FlushOK
<1> HIDE DEF opened, b
<1>12. CASE /\ link' = [link EXCEPT ![t] = opened]
            /\ UNCHANGED <<command, store, faults>>
  <2>1. PairOK(b, opened, Pending, n, Excused)
    BY <1>7, <1>11 DEF PairOK
  <2> HIDE DEF n
  <2> QED
    BY <1>3, <1>12, <2>1, OtherTabsStay DEF n
<1>13. CASE SelectOwner(t, opened, tab[t].copy)
  <2>1. /\ StoreOK(store', n)
        /\ Whole(store', n) => Whole(store, n)
        /\ command' \in Commands
        /\ (Pending => Pending') \/ \A u \in Tabs \ {t} : ~link[u].subscribed
        /\ \E r : /\ link' = [link EXCEPT ![t] = r]
                  /\ \/ r = NoLink
                     \/ LinkOK(r, n) /\ (r.awaiting # 0 => Pending') /\ r.subscribed
    BY <1>2, <1>11, <1>13, SelectOwnerOK DEF Others
  <2>2. PICK r : /\ link' = [link EXCEPT ![t] = r]
                 /\ \/ r = NoLink
                    \/ LinkOK(r, n) /\ (r.awaiting # 0 => Pending') /\ r.subscribed
    BY <2>1
  <2>3. PairOK(b, r, Pending', n, Excuse2)
    <3>1. CASE r = NoLink
      BY <1>1, <1>7, <3>1, NoLinkOK
    <3>2. CASE LinkOK(r, n) /\ (r.awaiting # 0 => Pending')
      BY <1>7, <3>2 DEF PairOK
    <3> QED
      BY <2>2, <3>1, <3>2
  <2> QED
    BY <1>1, <1>3, <2>1, <2>2, <2>3, OneTab DEF n
<1> QED
  BY <1>4, <1>12, <1>13

\* The new subscription replaces what was on its way.
LEMMA HandleSubscriptionStep ==
    ASSUME Inv, NEW t \in Tabs, HandleSubscription(t)
    PROVE  Inv'
<1> DEFINE n == sequence
           q == <<>>
           b == [tab[t] EXCEPT !.request = "granted", !.buffered = q]
           l == [link[t] EXCEPT !.wire = q]
<1>1. /\ n \in Nat /\ (Alone => lingering = 0) /\ link \in [Tabs -> Links(n)]
      /\ tab \in [Tabs -> Views(n)]
      /\ LinkOK(link[t], n) /\ TabOK(tab[t], n)
  BY PairOf DEF Inv
<1>2. link[t].open /\ SelectOwner(t, l, 0) /\ UNCHANGED <<sequence, lingering>>
      /\ tab' = [tab EXCEPT ![t].request = "granted", ![t].buffered = q]
  BY DEF HandleSubscription
<1>3. tab' = [tab EXCEPT ![t] = b]
  BY <1>1, <1>2
<1>4. /\ q \in Seq(Records(n)) /\ q \in Seq(Frames(n)) /\ Len(q) = 0 /\ q = <<>>
  BY <1>1, EmptySeq
<1> HIDE DEF q
<1>5. b \in Views(n)
  BY <1>1, <1>4 DEF TabOK, Views
<1>6. b.exact = tab[t].exact /\ b.subscribed = tab[t].subscribed
  BY <1>1 DEF TabOK, Views
<1>7. b.buffered = q
  BY <1>1 DEF TabOK, Views
<1> HIDE DEF b
<1>8. TabOK(b, n)
  BY <1>1, <1>4, <1>5, <1>6, <1>7 DEF TabOK
<1>9. l \in Links(n)
  BY <1>1, <1>4 DEF LinkOK, Links
<1>10. l.wire = q /\ l.open = link[t].open
  BY <1>1 DEF LinkOK, Links
<1>11. l.subscribed = link[t].subscribed /\ l.awaiting = link[t].awaiting
  BY <1>1 DEF LinkOK, Links
<1> HIDE DEF l
<1>12. LinkOK(l, n) /\ l.open /\ l.wire = <<>>
  BY <1>1, <1>2, <1>4, <1>9, <1>10, <1>11, LimitsAssumption DEF LinkOK
<1>13. 0 \in 0 .. sequence
  BY <1>1
<1>14. /\ StoreOK(store', n)
       /\ Whole(store', n) => Whole(store, n)
       /\ command' \in Commands
       /\ (Pending => Pending') \/ \A u \in Tabs \ {t} : ~link[u].subscribed
       /\ \E r : /\ link' = [link EXCEPT ![t] = r]
                 /\ \/ r = NoLink
                    \/ Fresh(r, Pending', n, Excuse2)
  BY <1>2, <1>12, <1>13, SelectOwnerOK DEF Others
<1>15. PICK r : /\ link' = [link EXCEPT ![t] = r]
                /\ \/ r = NoLink
                   \/ Fresh(r, Pending', n, Excuse2)
  BY <1>14
<1>16. PairOK(b, r, Pending', n, Excuse2)
  <2>1. CASE r = NoLink
    BY <1>1, <1>8, <2>1, NoLinkOK
  <2>2. CASE Fresh(r, Pending', n, Excuse2)
    <3>1. Content(r) \in Seq(Frames(n))
      BY <1>1, <1>8, <2>2, FlightTypes DEF Fresh
    <3>2. b.buffered \o Content(r) = Content(r)
      BY <1>4, <1>7, <3>1, ConcatEmptySeq
    <3> QED
      BY <1>8, <2>2, <3>2 DEF Fresh, PairOK
  <2> QED
    BY <1>15, <2>1, <2>2
<1> QED
  BY <1>1, <1>2, <1>3, <1>14, <1>15, <1>16, OneTab

\* The buffered frames are taken up in their order.
LEMMA SubscriptionGrantedStep ==
    ASSUME Inv, NEW t \in Tabs, SubscriptionGranted(t)
    PROVE  Inv'
<1> DEFINE b == ApplyBuffered(
                  [tab[t] EXCEPT !.subscribed = TRUE, !.request = "none", !.buffered = <<>>],
                  tab[t].buffered)
<1>1. /\ tab[t].request = "granted" /\ tab' = [tab EXCEPT ![t] = b]
      /\ UNCHANGED <<sequence, command, store, link, lingering>>
  BY DEF SubscriptionGranted
<1>2. /\ PairOK(tab[t], link[t], Pending, sequence, Excused) /\ sequence \in Nat
      /\ link' = [link EXCEPT ![t] = link[t]]
  BY <1>1, PairOf
<1>3. PairOK(b, link[t], Pending, sequence, Excused)
  BY <1>1, <1>2, GrantedPair
<1> HIDE DEF b
<1> QED
  BY <1>1, <1>2, <1>3, OtherTabsStay

\* The end of a resynchronisation changes no frame.
LEMMA ResyncCompletedStep ==
    ASSUME Inv, NEW t \in Tabs, ResyncCompleted(t)
    PROVE  Inv'
<1> DEFINE b == [tab[t] EXCEPT !.resync = FALSE]
<1>1. /\ tab' = [tab EXCEPT ![t].resync = FALSE]
      /\ UNCHANGED <<sequence, command, store, link, lingering>>
  BY DEF ResyncCompleted
<1>2. /\ PairOK(tab[t], link[t], Pending, sequence, Excused) /\ sequence \in Nat
      /\ link' = [link EXCEPT ![t] = link[t]] /\ TabOK(tab[t], sequence)
      /\ tab \in [Tabs -> Views(sequence)]
  BY <1>1, PairOf DEF Inv
<1>3. tab' = [tab EXCEPT ![t] = b]
  BY <1>1, <1>2
<1>4. b \in Views(sequence)
  BY <1>2 DEF Views
<1>5. b.exact = tab[t].exact /\ b.subscribed = tab[t].subscribed
  BY <1>2 DEF Views
<1>6. b.buffered = tab[t].buffered /\ b.request = tab[t].request
  BY <1>2 DEF Views
<1>7. b.copy = tab[t].copy
  BY <1>2 DEF Views
<1> HIDE DEF b
<1>8. TabOK(b, sequence)
  BY <1>2, <1>4, <1>5, <1>6 DEF TabOK
<1>9. PairOK(b, link[t], Pending, sequence, Excused)
  BY <1>2, <1>5, <1>6, <1>7, <1>8 DEF PairOK, Joined
<1> QED
  BY <1>1, <1>2, <1>3, <1>9, OtherTabsStay

\* A frame moves from the wire to the tab.
LEMMA ReceiveStep ==
    ASSUME Inv, NEW t \in Tabs, Receive(t)
    PROVE  Inv'
<1> DEFINE b == Handled(tab[t], Head(link[t].wire))
           l == [link[t] EXCEPT !.wire = Tail(@)]
<1>1. /\ link[t].wire # <<>> /\ UNCHANGED <<sequence, command, store, lingering>>
      /\ link' = [link EXCEPT ![t].wire = Tail(@)]
      /\ tab' = [tab EXCEPT ![t] = Handled(@, Head(link[t].wire))]
  BY DEF Receive
<1>2. /\ PairOK(tab[t], link[t], Pending, sequence, Excused) /\ sequence \in Nat
      /\ link \in [Tabs -> Links(sequence)] /\ tab \in [Tabs -> Views(sequence)]
  BY PairOf DEF Inv
<1>3. link' = [link EXCEPT ![t] = l] /\ tab' = [tab EXCEPT ![t] = b]
  BY <1>1, <1>2
<1>4. PairOK(b, l, Pending, sequence, Excused)
  BY <1>1, <1>2, ReceivePair
<1> HIDE DEF b, l
<1> QED
  BY <1>1, <1>3, <1>4, OtherTabsStay

\* A drain moves frames from the queue to the wire.
LEMMA DrainStep ==
    ASSUME Inv, NEW t \in Tabs, Drain(t)
    PROVE  Inv'
<1> DEFINE r == [link[t] EXCEPT !.blocked = FALSE]
           l == Flush(r)
<1>1. /\ link' = [link EXCEPT ![t] = Flush([@ EXCEPT !.blocked = FALSE])]
      /\ UNCHANGED <<sequence, command, store, tab, lingering>>
  BY DEF Drain
<1>2. /\ PairOK(tab[t], link[t], Pending, sequence, Excused) /\ sequence \in Nat
      /\ LinkOK(link[t], sequence) /\ link[t] \in Links(sequence)
      /\ link \in [Tabs -> Links(sequence)] /\ tab' = [tab EXCEPT ![t] = tab[t]]
  BY <1>1, PairOf DEF Inv
<1>3. link' = [link EXCEPT ![t] = l]
  BY <1>1, <1>2
<1>4. r \in Links(sequence)
  BY <1>2 DEF Links
<1>5. r.wire = link[t].wire /\ r.open = link[t].open
  BY <1>2 DEF Links
<1>6. r.queued = link[t].queued /\ r.subscribed = link[t].subscribed
  BY <1>2 DEF Links
<1>7. r.awaiting = link[t].awaiting
  BY <1>2 DEF Links
<1> HIDE DEF r
<1>8. LinkOK(r, sequence) /\ Content(r) = Content(link[t])
  BY <1>2, <1>4, <1>5, <1>6, <1>7 DEF LinkOK, Content
<1>9. /\ LinkOK(l, sequence) /\ l.open = link[t].open /\ l.subscribed = link[t].subscribed
      /\ l.awaiting = link[t].awaiting /\ Content(l) = Content(link[t])
  BY <1>2, <1>5, <1>6, <1>7, <1>8, FlushOK
<1> HIDE DEF l
<1>10. PairOK(tab[t], l, Pending, sequence, Excused)
  BY <1>2, <1>9, SameFramesPair
<1> QED
  BY <1>1, <1>2, <1>3, <1>10, OtherTabsStay

\* A broken connection takes its frames along.
LEMMA DisconnectStep ==
    ASSUME Inv, NEW t \in Tabs, Disconnect(t)
    PROVE  Inv'
<1>1. /\ link' = [link EXCEPT ![t] = NoLink]
      /\ UNCHANGED <<sequence, store, tab>>
      /\ lingering' = lingering \/ lingering < MaxLingering
      /\ command' \in {command, Released(t)}
  BY DEF Disconnect
<1>2. /\ sequence \in Nat /\ TabOK(tab[t], sequence) /\ (Alone => lingering = 0)
      /\ StoreOK(store, sequence) /\ tab' = [tab EXCEPT ![t] = tab[t]]
  BY <1>1, PairOf DEF Inv
<1>3. Alone => lingering' = 0
  BY <1>1, <1>2 DEF Alone
<1>4. PairOK(tab[t], NoLink, Pending', sequence, Excuse2)
  BY <1>2, NoLinkOK
<1>5. command \in Commands /\ (Pending' <=> Pend(command'))
  BY DEF Inv, Pending, Pend
<1>6. Released(t) \in Commands /\ (Pending => Pend(Released(t)) \/ ~Others(t))
  BY ReleasedOK
<1>7. command' \in Commands /\ (Pending => Pending' \/ ~Others(t))
  BY <1>1, <1>5, <1>6 DEF Pending
<1>8. (Pending => Pending') \/ \A u \in Tabs \ {t} : ~link[u].subscribed
  BY <1>7 DEF Others
<1> QED
  BY <1>1, <1>2, <1>3, <1>4, <1>7, <1>8, OneTab

\* Steps that touch no tab, and leave what is pending if anybody is subscribed.
LEMMA NoTabChanges ==
    ASSUME Inv, UNCHANGED <<sequence, store, link, tab>>, Alone => lingering' = 0,
           command' \in Commands,
           (Pending => Pending') \/ \A t \in Tabs : ~link[t].subscribed
    PROVE  Inv'
<1>1. (Alone' <=> Alone) /\ ((Pending => Pending') => (Excused => Excused'))
  BY DEF Alone, Excused
<1>2. ASSUME NEW t \in Tabs PROVE PairOK(tab[t], link[t], Pending', sequence, Excused')
  <2>1. PairOK(tab[t], link[t], Pending, sequence, Excused)
    BY DEF Inv
  <2> QED
    BY <1>1, <2>1, PairStays
<1> QED
  BY <1>1, <1>2 DEF Inv

\* The connection that the browser left is removed, perhaps unrecorded.
LEMMA LingeringClosesStep ==
    ASSUME Inv, LingeringCloses
    PROVE  Inv'
<1> DEFINE some == lingering' > 0 \/ \E t \in Tabs : link[t].subscribed
<1>1. /\ UNCHANGED <<sequence, store, link, tab>>
      /\ command' = Counts(command, some) \/ command' = command
      /\ Alone => lingering' = 0
  BY DEF LingeringCloses, Inv
<1>2. command \in Commands /\ (Pending <=> Pend(command)) /\ (Pending' <=> Pend(command'))
  BY DEF Inv, Pending, Pend
<1>3. some \in BOOLEAN /\ (~some => \A t \in Tabs : ~link[t].subscribed)
  OBVIOUS
<1> HIDE DEF some
<1>4. Counts(command, some) \in Commands
      /\ (some /\ Pend(command) => Pend(Counts(command, some)))
  BY <1>2, <1>3, CountsOK
<1>5. /\ command' \in Commands
      /\ (Pending => Pending') \/ \A t \in Tabs : ~link[t].subscribed
  BY <1>1, <1>2, <1>3, <1>4
<1> QED
  BY <1>1, <1>5, NoTabChanges

\* An opened stream makes the owner owe what is on record; a broken one takes
\* nothing back.
LEMMA StreamSteps ==
    ASSUME Inv, StreamBreaks \/ StreamOpens
    PROVE  Inv'
<1> DEFINE c == command
           broken == [c EXCEPT !.hearing = FALSE]
           open == [c EXCEPT !.hearing = TRUE]
           greeted == Counts(open, c.counted)
<1>1. /\ UNCHANGED <<sequence, store, link, tab, lingering>>
      /\ \/ command' = broken
         \/ command' = IF c.asked THEN Asks(greeted) ELSE greeted
  BY DEF StreamBreaks, StreamOpens
<1>2. c \in Commands /\ (Pending <=> Pend(c)) /\ (Pending' <=> Pend(command'))
      /\ (Alone => lingering' = 0)
  BY <1>1 DEF Inv, Pending, Pend
<1> HIDE DEF c
<1>3. broken \in Commands /\ (Pend(c) => Pend(broken))
  BY <1>2 DEF Commands, Pend
<1>4. /\ greeted \in Commands
      /\ Pend(c) => Pend(greeted) \/ c.asked
  BY <1>2 DEF Commands, Counts, Pend
<1>5. Asks(greeted) \in Commands /\ Pend(Asks(greeted))
  BY <1>4, AsksOK
<1> HIDE DEF broken, greeted
<1>6. command' \in Commands /\ (Pending => Pending')
  BY <1>1, <1>2, <1>3, <1>4, <1>5
<1> QED
  BY <1>1, <1>2, <1>6, NoTabChanges

\* A stuttering step keeps the invariant.
LEMMA Stutters ==
    ASSUME Inv, UNCHANGED vars
    PROVE  Inv'
<1>1. /\ UNCHANGED <<sequence, command, store, link, tab, lingering>>
      /\ command \in Commands /\ (Alone => lingering' = 0)
  BY DEF vars, Inv
<1>2. Pending' <=> Pending
  BY <1>1 DEF Pending, Pend
<1> QED
  BY <1>1, <1>2, NoTabChanges

\* Every step keeps the invariant.
LEMMA InvStep == Inv /\ [Next]_vars => Inv'
<1> SUFFICES ASSUME Inv, [Next]_vars PROVE Inv'
  OBVIOUS
<1>1. CASE OwnerEvent \/ OwnerCheckpoint \/ OwnerAnswers
  BY <1>1, OwnerSteps
<1>2. CASE Evict
  BY <1>2, EvictStep
<1>3. CASE \E t \in Tabs :
             \/ Connect(t) \/ HandleSubscription(t) \/ SubscriptionGranted(t)
             \/ ResyncCompleted(t) \/ Receive(t) \/ Drain(t) \/ Disconnect(t)
  BY <1>3, ConnectStep, HandleSubscriptionStep, SubscriptionGrantedStep,
     ResyncCompletedStep, ReceiveStep, DrainStep, DisconnectStep
<1>4. CASE LingeringCloses
  BY <1>4, LingeringClosesStep
<1>5. CASE StreamBreaks \/ StreamOpens
  BY <1>5, StreamSteps
<1>6. CASE UNCHANGED vars
  BY <1>6, Stutters
<1> QED
  BY <1>1, <1>2, <1>3, <1>4, <1>5, <1>6 DEF Next

-----------------------------------------------------------------------------
(* The properties follow from the invariant.                               *)

LEMMA InvOwed ==
    ASSUME Inv
    PROVE  CompactionIsOwed
  BY DEF Inv, PairOK, CompactionIsOwed, Pending, Pend, Owed

LEMMA EmptyJoin ==
    ASSUME NEW S, NEW s \in Seq(S), NEW u \in Seq(S), Len(s) = 0, Len(u) = 0
    PROVE  Len(s \o u) = 0
  BY DEF Joins

\* With nothing on its way, a tab shows the last record.
LEMMA NothingDelivers ==
    ASSUME NEW n \in Nat, NEW S, NEW F \in Seq(S), Len(F) = 0, NEW c \in 0 .. n, Delivers(F, c, n)
    PROVE  c = n
<1>1. c # 0 /\ c + Len(F) >= n
  BY DEF Delivers
<1> QED
  BY <1>1

\* A quiet tab that is not excused is current.
LEMMA QuietTabCurrent ==
    ASSUME Inv, ~Excused, NEW t \in Tabs, Quiet(t)
    PROVE  tab[t].copy = sequence
<1> DEFINE n == sequence
           F == tab[t].buffered \o Content(link[t])
<1>1. /\ n \in Nat /\ PairOK(tab[t], link[t], Pending, n, Excused)
      /\ TabOK(tab[t], n) /\ LinkOK(link[t], n)
  BY DEF Inv, PairOK
<1>2. /\ tab[t].subscribed /\ link[t].open
      /\ link[t].wire = <<>> /\ link[t].queued = <<>> /\ link[t].awaiting = 0
  BY DEF Quiet
<1>3. tab[t].buffered = <<>> /\ Joined(tab[t])
  BY <1>1, <1>2 DEF TabOK, Joined
<1>4. Delivers(F, tab[t].copy, n)
  BY <1>1, <1>2, <1>3 DEF PairOK
<1>5. /\ F \in Seq(Frames(n)) /\ tab[t].copy \in 0 .. n
      /\ tab[t].buffered \in Seq(Frames(n)) /\ Content(link[t]) \in Seq(Frames(n))
      /\ link[t].wire \in Seq(Frames(n)) /\ link[t].queued \in Seq(Frames(n))
  BY <1>1, FlightTypes
<1>6. Len(F) = 0
  <2>1. /\ Len(tab[t].buffered) = 0 /\ Len(link[t].wire) = 0 /\ Len(link[t].queued) = 0
    BY <1>2, <1>3
  <2>2. Len(Content(link[t])) = 0
    BY <1>5, <2>1, EmptyJoin DEF Content
  <2> QED
    BY <1>5, <2>1, <2>2, EmptyJoin
<1> DEFINE c == tab[t].copy
<1> HIDE DEF F, n, c
<1>7. c = n
  BY <1>1, <1>4, <1>5, <1>6, NothingDelivers DEF c
<1> QED
  BY <1>7 DEF c, n

\* What WholeReplayMeansCurrent asks of the store.
LEMMA ReplayWholeIsWhole ==
    ASSUME StoreOK(store, sequence), sequence \in Nat, ReplayWhole
    PROVE  Whole(store, sequence)
  BY DEF Whole, ReplayWhole, StoreOK

-----------------------------------------------------------------------------
(* Every step moves at most one tab, and that one forward or to nothing:   *)
(* the steps of PublishedViews.                                            *)

\* What PublishedViews sees of a state.
LEMMA ShownCopies ==
    ASSUME Inv
    PROVE  /\ sequence \in Nat
           /\ Shown = [t \in Tabs |-> tab[t].copy]
           /\ \A t \in Tabs : tab[t].copy \in 0 .. sequence /\ TabOK(tab[t], sequence)
<1>1. /\ sequence \in Nat /\ DOMAIN tab = Tabs
      /\ \A t \in Tabs : TabOK(tab[t], sequence)
  BY DEF Inv, PairOK
<1>2. \A t \in Tabs : tab[t].exact /\ tab[t].copy \in 0 .. sequence
  BY <1>1 DEF TabOK, Views
<1> QED
  BY <1>1, <1>2 DEF Shown

\* A step that leaves the tabs alone.
LEMMA NoTabMoves ==
    ASSUME Inv, UNCHANGED tab, sequence' = sequence \/ sequence' = sequence + 1
    PROVE  [Published!Next]_<<sequence, Shown>>
<1>1. UNCHANGED Shown
  BY DEF Shown
<1> QED
  BY <1>1 DEF Published!Next, Published!Publish

\* A step of one tab.
LEMMA OneTabMoves ==
    ASSUME Inv, Inv', UNCHANGED sequence, NEW t \in Tabs, NEW b,
           tab' = [tab EXCEPT ![t] = b], b.copy >= tab[t].copy \/ b.copy = 0
    PROVE  [Published!Next]_<<sequence, Shown>>
<1>1. /\ sequence \in Nat /\ Shown = [u \in Tabs |-> tab[u].copy]
      /\ \A u \in Tabs : tab[u].copy \in 0 .. sequence
      /\ Shown' = [u \in Tabs |-> tab'[u].copy]
      /\ \A u \in Tabs : tab'[u].copy \in 0 .. sequence
  <2>1. DOMAIN tab' = Tabs /\ \A u \in Tabs : TabOK(tab'[u], sequence')
    BY DEF Inv, PairOK
  <2>2. \A u \in Tabs : tab'[u].exact /\ tab'[u].copy \in 0 .. sequence'
    BY <2>1 DEF TabOK, Views
  <2>3. Shown' = [u \in Tabs |-> tab'[u].copy]
    BY <2>1, <2>2 DEF Shown
  <2> QED
    BY <2>2, <2>3, ShownCopies
<1>2. tab'[t] = b /\ \A u \in Tabs : u # t => tab'[u] = tab[u]
  BY DEF Inv
<1> DEFINE n == b.copy
<1>3. Shown' = [Shown EXCEPT ![t] = n] /\ DOMAIN Shown = Tabs /\ Shown[t] = tab[t].copy
  BY <1>1, <1>2
<1>4. n \in 0 .. sequence /\ Shown[t] \in 0 .. sequence
  BY <1>1, <1>2, <1>3
<1>5. n = Shown[t] \/ n = 0 \/ n \in Shown[t] + 1 .. sequence
  BY <1>1, <1>3, <1>4
<1> HIDE DEF n
<1>6. CASE n = Shown[t]
  <2>1. Shown' = Shown
    BY <1>1, <1>3, <1>6
  <2> QED
    BY <2>1
<1>7. CASE n = 0
  BY <1>3, <1>7 DEF Published!Next, Published!Clear
<1>8. CASE n \in Shown[t] + 1 .. sequence
  BY <1>3, <1>8 DEF Published!Next, Published!Advance
<1> QED
  BY <1>5, <1>6, <1>7, <1>8

\* A frame moves the tab forward, to nothing, or not at all.
LEMMA HandledMoves ==
    ASSUME NEW n \in Nat, NEW b, TabOK(b, n), NEW f \in Frames(n)
    PROVE  Handled(b, f).copy >= b.copy \/ Handled(b, f).copy = 0
<1>1. b \in Views(n) /\ b.copy \in 0 .. n
  BY DEF TabOK, Views
<1> DEFINE r == [b EXCEPT !.request = "posted"]
           z == [b EXCEPT !.copy = 0]
           q == [b EXCEPT !.buffered = Append(@, f)]
<1>2. r.copy = b.copy /\ z.copy = 0
  BY <1>1 DEF Views
<1>3. q.copy = b.copy
  BY <1>1 DEF Views
<1>4. CASE f.kind \in {"checkpoint", "event"} /\ b.subscribed
  <2>1. f \in Records(n)
    BY <1>4 DEF Frames, Records
  <2>2. Handled(b, f) = Apply(b, f)
    BY <1>4 DEF Handled
  <2> QED
    BY <1>4, <2>1, <2>2, ApplyOK
<1>5. CASE ~(f.kind \in {"checkpoint", "event"} /\ b.subscribed)
  <2>1. Handled(b, f) = r \/ Handled(b, f) = z \/ Handled(b, f) = b \/ Handled(b, f) = q
    BY <1>5 DEF Handled, Frames
  <2> HIDE DEF r, z, q
  <2> QED
    BY <1>1, <1>2, <1>3, <2>1
<1> QED
  BY <1>4, <1>5

\* So does what it buffered.
LEMMA GrantedMoves ==
    ASSUME NEW n \in Nat, NEW b, TabOK(b, n)
    PROVE  ApplyBuffered(
               [b EXCEPT !.subscribed = TRUE, !.request = "none", !.buffered = <<>>],
               b.buffered).copy >= b.copy
<1>1. b \in Views(n) /\ b.exact = TRUE /\ b.buffered \in Seq(Records(n)) /\ b.copy \in 0 .. n
  BY DEF TabOK, Views
<1> DEFINE q == <<>>
           s == [b EXCEPT !.subscribed = TRUE, !.request = "none", !.buffered = q]
<1>2. q \in Seq(Records(n)) /\ q = <<>> /\ q \in Seq(Frames(n))
  BY EmptySeq
<1> HIDE DEF q
<1>3. s \in Views(n)
  BY <1>1, <1>2 DEF Views
<1>4. s.exact = b.exact /\ s.subscribed = TRUE /\ s.copy = b.copy
  BY <1>1 DEF Views
<1>5. s.buffered = q /\ s.request = "none"
  BY <1>1 DEF Views
<1> HIDE DEF s
<1>6. TabOK(s, n) /\ s.subscribed
  BY <1>1, <1>2, <1>3, <1>4, <1>5 DEF TabOK
<1>7. ApplyBuffered(s, b.buffered).copy >= s.copy
  BY <1>1, <1>2, <1>5, <1>6, ApplyBufferedOK
<1> QED
  BY <1>4, <1>7 DEF s, q

\* The steps of a tab that read what it was sent.
LEMMA ReadingSteps ==
    ASSUME Inv, Inv', NEW t \in Tabs, Receive(t) \/ SubscriptionGranted(t)
    PROVE  [Published!Next]_<<sequence, Shown>>
<1>1. sequence \in Nat /\ TabOK(tab[t], sequence)
  BY ShownCopies
<1>2. CASE Receive(t)
  <2> DEFINE f == Head(link[t].wire)
             b == Handled(tab[t], f)
  <2>1. /\ UNCHANGED sequence /\ link[t].wire # <<>>
        /\ tab' = [tab EXCEPT ![t] = Handled(@, f)]
    BY <1>2 DEF Receive
  <2>2. f \in Frames(sequence)
    <3>1. link[t].wire \in Seq(Frames(sequence))
      BY DEF Inv, Links
    <3> QED
      BY <2>1, <3>1
  <2>3. tab' = [tab EXCEPT ![t] = b]
    BY <2>1 DEF Inv
  <2>4. b.copy >= tab[t].copy \/ b.copy = 0
    BY <1>1, <2>2, HandledMoves
  <2> HIDE DEF b
  <2> QED
    BY <2>1, <2>3, <2>4, OneTabMoves
<1>3. CASE SubscriptionGranted(t)
  <2> DEFINE b == ApplyBuffered(
                    [tab[t] EXCEPT !.subscribed = TRUE, !.request = "none", !.buffered = <<>>],
                    tab[t].buffered)
  <2>1. UNCHANGED sequence /\ tab' = [tab EXCEPT ![t] = b]
    BY <1>3 DEF SubscriptionGranted
  <2>2. b.copy >= tab[t].copy
    BY <1>1, GrantedMoves
  <2> HIDE DEF b
  <2> QED
    BY <2>1, <2>2, OneTabMoves
<1> QED
  BY <1>2, <1>3

\* The steps of a tab that keep what it shows.
LEMMA KeepingSteps ==
    ASSUME Inv, Inv', NEW t \in Tabs,
           Connect(t) \/ HandleSubscription(t) \/ ResyncCompleted(t)
    PROVE  [Published!Next]_<<sequence, Shown>>
<1>1. /\ sequence \in Nat /\ tab[t] \in Views(sequence)
      /\ tab[t].copy >= tab[t].copy
  BY ShownCopies DEF TabOK
<1>2. CASE Connect(t)
  <2> DEFINE b == [NoTab EXCEPT !.copy = tab[t].copy, !.exact = tab[t].exact]
  <2>1. UNCHANGED sequence /\ tab' = [tab EXCEPT ![t] = b]
    BY <1>2 DEF Connect
  <2>2. b.copy = tab[t].copy
    BY DEF NoTab
  <2> HIDE DEF b
  <2> QED
    BY <1>1, <2>1, <2>2, OneTabMoves
<1>3. CASE HandleSubscription(t)
  <2> DEFINE b == [tab[t] EXCEPT !.request = "granted", !.buffered = <<>>]
  <2>1. /\ UNCHANGED sequence
        /\ tab' = [tab EXCEPT ![t].request = "granted", ![t].buffered = <<>>]
    BY <1>3 DEF HandleSubscription
  <2>2. tab' = [tab EXCEPT ![t] = b]
    BY <2>1 DEF Inv
  <2>3. b.copy = tab[t].copy
    BY <1>1 DEF Views
  <2> HIDE DEF b
  <2> QED
    BY <1>1, <2>1, <2>2, <2>3, OneTabMoves
<1>4. CASE ResyncCompleted(t)
  <2> DEFINE b == [tab[t] EXCEPT !.resync = FALSE]
  <2>1. UNCHANGED sequence /\ tab' = [tab EXCEPT ![t].resync = FALSE]
    BY <1>4 DEF ResyncCompleted
  <2>2. tab' = [tab EXCEPT ![t] = b]
    BY <2>1 DEF Inv
  <2>3. b.copy = tab[t].copy
    BY <1>1 DEF Views
  <2> HIDE DEF b
  <2> QED
    BY <1>1, <2>1, <2>2, <2>3, OneTabMoves
<1> QED
  BY <1>2, <1>3, <1>4

\* Every step of the relay is a step of the views, or none.
LEMMA StepsPublished ==
    ASSUME Inv, Inv', [Next]_vars
    PROVE  [Published!Next]_<<sequence, Shown>>
<1>1. CASE OwnerEvent \/ OwnerCheckpoint \/ OwnerAnswers
  <2>1. sequence' = sequence + 1 /\ UNCHANGED tab
    BY <1>1 DEF OwnerEvent, OwnerCheckpoint, OwnerAnswers, Publish
  <2> QED
    BY <2>1, NoTabMoves
<1>2. CASE Evict \/ LingeringCloses \/ StreamBreaks \/ StreamOpens \/ UNCHANGED vars
  <2>1. UNCHANGED <<sequence, tab>>
    BY <1>2 DEF Evict, LingeringCloses, StreamBreaks, StreamOpens, vars
  <2> QED
    BY <2>1, NoTabMoves
<1>3. ASSUME NEW t \in Tabs, Drain(t) \/ Disconnect(t)
      PROVE  [Published!Next]_<<sequence, Shown>>
  <2>1. UNCHANGED <<sequence, tab>>
    BY <1>3 DEF Drain, Disconnect
  <2> QED
    BY <2>1, NoTabMoves
<1> QED
  BY <1>1, <1>2, <1>3, ReadingSteps, KeepingSteps DEF Next

-----------------------------------------------------------------------------
\* The invariant the other theorems follow from: the store's replay, and for
\* every tab and its connection what is on its way.
\* (OwnerRelayStore, RelaySseClientQueue, RelayConnectionManager)
THEOREM Invariance == Spec => []Inv
<1>1. Init => Inv
  BY InvInit
<1>2. Inv /\ [Next]_vars => Inv'
  BY InvStep
<1> QED
  BY <1>1, <1>2, PTL DEF Spec

\* The relay implements PublishedViews: for any number of tabs, faults and
\* lingering connections, a tab only ever shows states the owner was in, and
\* one after the other; what pruning, compaction or a broken connection left
\* out is asked for again, and no late frame takes a tab back.
\* (applyEvent, applyCheckpoint, applyOwnerFrame)
THEOREM RefinesPublishedViews == Spec => ShowsPublishedStates
<1>1. Init => Published!Init
  BY DEF Init, NoTab, Shown, Published!Init
<1>2. Inv /\ Inv' /\ [Next]_vars => [Published!Next]_<<sequence, Shown>>
  BY StepsPublished
<1> QED
  BY <1>1, <1>2, Invariance, PTL DEF Spec, ShowsPublishedStates, Published!Spec

\* While a compacted connection waits for a checkpoint, the owner owes one or
\* will as soon as it hears the helper again: no waiting connection is
\* forgotten, unless its request was erased while the command stream was
\* broken. (requestCompaction, installCompaction, ingest)
THEOREM CompactionsOwed == Spec => []CompactionIsOwed
<1>1. Inv => CompactionIsOwed
  BY InvOwed
<1> QED
  BY <1>1, Invariance, PTL

\* With any number of tabs: while the retained replay continues the retained
\* checkpoint, a tab that waits for nothing shows the last record, whatever
\* the owner did not hear. (selectOwner, replay)
THEOREM WholeReplaysCurrent == Spec => []WholeReplayMeansCurrent
<1>1. ASSUME Inv, ReplayWhole PROVE QuietMeansCurrent
  <2>1. ~Excused
    BY <1>1, ReplayWholeIsWhole DEF Inv, Excused
  <2> QED
    BY <1>1, <2>1, QuietTabCurrent DEF QuietMeansCurrent
<1>2. Inv => WholeReplayMeansCurrent
  BY <1>1 DEF WholeReplayMeansCurrent
<1> QED
  BY <1>2, Invariance, PTL

\* With a single tab and no connection that outlives its browser, a tab that
\* waits for nothing shows the last record, however the store was pruned or
\* evicted and however often the owner's command stream broke: a subscription
\* that the owner heard, or is told of when it hears again, gets a checkpoint.
\* What the theorem leaves out is an owner that did not hear the last
\* subscription go, until its next checkpoint.
\* (setDemanded, acquireSubscription, selectOwner)
THEOREM OneTabIsCurrent == Spec => []OneTabCurrent
<1>1. ASSUME Inv, MaxLingering = 0, \A t, u \in DOMAIN tab : t = u, ~command.unheard
      PROVE  QuietMeansCurrent
  <2>1. DOMAIN tab = Tabs
    BY <1>1 DEF Inv
  <2>2. Alone
    BY <1>1, <2>1 DEF Alone
  <2>3. ASSUME NEW t \in Tabs, Quiet(t) PROVE tab[t].copy = sequence
    <3>1. ~Pending
      BY <1>1, <2>3 DEF Quiet, Owed, Pending, Pend
    <3>2. ~Excused
      BY <2>2, <3>1 DEF Excused
    <3> QED
      BY <1>1, <2>3, <3>2, QuietTabCurrent
  <2> QED
    BY <2>3 DEF QuietMeansCurrent
<1>2. Inv => OneTabCurrent
  BY <1>1 DEF OneTabCurrent
<1> QED
  BY <1>2, Invariance, PTL
=============================================================================
