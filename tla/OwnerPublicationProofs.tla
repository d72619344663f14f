----------------------- MODULE OwnerPublicationProofs -----------------------
(***************************************************************************)
(* Proofs about OwnerPublication, for every value of its constants: types, *)
(* that no request is ever refused for its sequence numbers, that an idle  *)
(* transport is caught up, that an acknowledged cursor is ingested, and    *)
(* that a clean close has delivered everything.                            *)
(*                                                                         *)
(* The invariant IInv says how the numbers of the queue, of the batch in   *)
(* flight and of every request still on its way lie relative to each other *)
(* and to the helper's cursor.  It is a predicate of the owner record, the *)
(* helper record and the set of requests, so that the functions the        *)
(* handlers are composed of are proved to keep it one by one.              *)
(***************************************************************************)
EXTENDS OwnerPublication, SequenceTheorems, TLAPS

\* The lowest owner sequence number a batch covers.
Low(b) == IF b.checkpoint # 0 THEN b.checkpoint ELSE FirstSequence(b)

Same(r, s) == r.checkpoint = s.checkpoint /\ r.events = s.events

Proper(b) == ~IsEmpty(b) /\ WellFormed(b)

\* The helper answers r as a duplicate, or r continues or restarts it.
Sound(h, r) ==
    \/ h.known /\ LastSequence(r) <= h.cursor
    \/ /\ h.cursor < Low(r)
       /\ r.checkpoint # 0 \/ h.cursor + 1 = Low(r)

\* Everything queued is newer than anything posted or ingested.
QueueInv(o, h, n) ==
    ~IsEmpty(o.queued) =>
        /\ WellFormed(o.queued)
        /\ LastSequence(o.queued) = o.published
        /\ h.cursor < Low(o.queued)
        /\ \A r \in n : LastSequence(r) < Low(o.queued)

\* The batch in flight is newer than every other request, and the queue
\* continues it.
FlightInv(o, h, n) ==
    o.inFlight # NoFlight =>
        /\ Proper(o.inFlight)
        /\ Sound(h, o.inFlight)
        /\ h.cursor <= LastSequence(o.inFlight)
        /\ LastSequence(o.inFlight) <= o.published
        /\ \A r \in n : Same(r, o.inFlight) \/ LastSequence(r) < Low(o.inFlight)
        /\ IsEmpty(o.queued) => LastSequence(o.inFlight) = o.published
        /\ ~IsEmpty(o.queued) =>
               /\ LastSequence(o.inFlight) < Low(o.queued)
               /\ o.queued.checkpoint = 0 =>
                      Low(o.queued) = LastSequence(o.inFlight) + 1

\* With nothing in flight, the queue continues what the helper has.
IdleInv(o, h) ==
    /\ IsEmpty(o.queued) => h.cursor = o.published
    /\ ~IsEmpty(o.queued) /\ o.queued.checkpoint = 0 =>
           Low(o.queued) = h.cursor + 1

\* Every request on its way is sound, and two of them are attempts of one
\* batch or cover disjoint ranges.
NetInv(o, h, n) ==
    /\ \A r \in n : /\ Proper(r) /\ Sound(h, r) /\ r.attempt >= 1
                    /\ LastSequence(r) <= o.published
    /\ \A r, s \in n : Same(r, s) \/ LastSequence(r) < Low(s)
                                  \/ LastSequence(s) < Low(r)

NumbersInv(o, h) ==
    /\ h.cursor <= o.published
    /\ o.acknowledgedCursor <= h.cursor
    /\ ~h.known => h.cursor = 0
    /\ o.published <= o.sequence
    /\ o.acceptingPublications => o.published = o.sequence

CoreInv(o, h, n) ==
    /\ QueueInv(o, h, n)
    /\ FlightInv(o, h, n)
    /\ NetInv(o, h, n)
    /\ NumbersInv(o, h)

\* After a failed last publication a closing transport keeps a queue that
\* continues nothing; it never flushes it.
OwnerInv(o, h, n) ==
    /\ CoreInv(o, h, n)
    /\ ~o.closing /\ o.inFlight = NoFlight => IdleInv(o, h)

\* An answer is on its way only to a posted batch; a positive one says that
\* the batch in flight is ingested.
ReplyInv ==
    /\ reply # NoReply =>
           owner.inFlight # NoFlight /\ owner.inFlight.attempt >= 1
    /\ reply.status = 200 =>
        /\ owner.inFlight # NoFlight /\ owner.inFlight.attempt >= 1
        /\ helper.known /\ LastSequence(owner.inFlight) = helper.cursor
        /\ reply.cursor = helper.cursor

\* close cancels the batch window for good.
ClosedInv(o) == o.closing => ~o.flushTimer /\ ~o.acceptingPublications

IInv ==
    TypeOK /\ OwnerInv(owner, helper, net) /\ ReplyInv /\ ClosedInv(owner)

-----------------------------------------------------------------------------
(* Batches.                                                                *)

LEMMA Ends ==
    ASSUME NEW e \in Seq(Nat), e # <<>>
    PROVE  /\ Len(e) \in Nat /\ Len(e) >= 1
           /\ 1 \in 1 .. Len(e) /\ Len(e) \in 1 .. Len(e)
           /\ Head(e) = e[1] /\ e[1] \in Nat /\ e[Len(e)] \in Nat
<1>1. Len(e) \in Nat \ {0}
  BY EmptySeq
<1>2. 1 \in 1 .. Len(e) /\ Len(e) \in 1 .. Len(e)
  BY <1>1
<1>3. e[1] \in Nat /\ e[Len(e)] \in Nat
  BY <1>2, ElementOfSeq
<1>4. Head(e) = e[1]
  OBVIOUS
<1> QED
  BY <1>1, <1>2, <1>3, <1>4

\* The numbers of a proper batch are ordered: lowest, first event, last.
LEMMA BatchNumbers ==
    ASSUME NEW b, b.checkpoint \in Nat, b.events \in Seq(Nat), Proper(b)
    PROVE  /\ Low(b) \in Nat /\ FirstSequence(b) \in Nat /\ LastSequence(b) \in Nat
           /\ Low(b) <= FirstSequence(b) /\ FirstSequence(b) <= LastSequence(b)
           /\ b.checkpoint = 0 => FirstSequence(b) = Low(b)
<1>1. CASE b.events = <<>>
  BY <1>1 DEF Low, FirstSequence, LastSequence, Proper, IsEmpty
<1>2. CASE b.events # <<>>
  <2>1. /\ Len(b.events) \in Nat /\ Len(b.events) >= 1
        /\ Len(b.events) \in 1 .. Len(b.events)
        /\ Head(b.events) = b.events[1] /\ b.events[1] \in Nat
        /\ b.events[Len(b.events)] \in Nat
    BY <1>2, Ends
  <2>2. \A i \in 1 .. Len(b.events) : b.events[i] = b.events[1] + i - 1
    BY DEF Proper, WellFormed
  <2>3. b.events[Len(b.events)] = b.events[1] + Len(b.events) - 1
    BY <2>1, <2>2
  <2>4. b.checkpoint # 0 => b.events[1] = b.checkpoint + 1
    BY <1>2 DEF Proper, WellFormed
  <2> QED
    BY <1>2, <2>1, <2>3, <2>4 DEF Low, FirstSequence, LastSequence
<1> QED
  BY <1>1, <1>2

\* Low and LastSequence depend only on what a batch carries.
LEMMA SameNumbers ==
    ASSUME NEW r, NEW s, Same(r, s)
    PROVE  /\ Low(r) = Low(s) /\ LastSequence(r) = LastSequence(s)
           /\ Proper(r) <=> Proper(s)
           /\ \A h : Sound(h, r) <=> Sound(h, s)
  BY DEF Same, Low, FirstSequence, LastSequence, Proper, IsEmpty, WellFormed, Sound

\* ingest installs a sound request, finds it a duplicate, or asks for the
\* first checkpoint.
LEMMA SoundVerdict ==
    ASSUME NEW h \in HelperRecords, NEW r \in Requests, Proper(r), Sound(h, r),
           ~h.known => h.cursor = 0
    PROVE  /\ \/ Verdict(h, r) \in {"install", "duplicate"}
              \/ Verdict(h, r) = "checkpoint_required" /\ FirstSequence(r) = 1
           /\ Verdict(h, r) = "duplicate" <=> h.known /\ LastSequence(r) <= h.cursor
<1>1. /\ Low(r) \in Nat /\ FirstSequence(r) \in Nat /\ LastSequence(r) \in Nat
      /\ Low(r) <= FirstSequence(r) /\ FirstSequence(r) <= LastSequence(r)
      /\ r.checkpoint = 0 => FirstSequence(r) = Low(r)
  BY BatchNumbers DEF Requests
<1>2. h.cursor \in Nat /\ h.known \in BOOLEAN /\ r.checkpoint \in Nat
  BY DEF HelperRecords, Requests
<1>3. r.checkpoint # 0 => Low(r) = r.checkpoint
  BY DEF Low
<1>4. CASE h.known /\ LastSequence(r) <= h.cursor
  BY <1>4 DEF Verdict
<1>5. CASE ~(h.known /\ LastSequence(r) <= h.cursor)
  <2>1. h.cursor < Low(r) /\ (r.checkpoint # 0 \/ h.cursor + 1 = Low(r))
    BY <1>5 DEF Sound
  <2> QED
    BY <2>1, <1>1, <1>2, <1>3, <1>5 DEF Verdict
<1> QED
  BY <1>4, <1>5

\* Appending the next number keeps a queue well formed.
LEMMA AppendNext ==
    ASSUME NEW q \in Batches, WellFormed(q), NEW n \in Nat,
           ~IsEmpty(q) => LastSequence(q) = n
    PROVE  LET p == [q EXCEPT !.events = Append(@, n + 1)]
           IN  /\ p \in Batches /\ ~IsEmpty(p) /\ WellFormed(p)
               /\ LastSequence(p) = n + 1
               /\ ~IsEmpty(q) => Low(p) = Low(q)
               /\ IsEmpty(q) => Low(p) = n + 1 /\ p.checkpoint = 0
<1> DEFINE p == [q EXCEPT !.events = Append(@, n + 1)]
<1>1. /\ p.checkpoint = q.checkpoint /\ p.events = Append(q.events, n + 1)
      /\ q.checkpoint \in Nat /\ q.events \in Seq(Nat)
      /\ p \in Batches
  <2>1. q.checkpoint \in Nat /\ q.events \in Seq(Nat)
    BY DEF Batches
  <2>2. Append(q.events, n + 1) \in Seq(Nat)
    BY <2>1, AppendProperties
  <2> QED
    BY <2>1, <2>2 DEF Batches
<1>2. /\ p.events \in Seq(Nat) /\ p.events # <<>>
      /\ Len(p.events) = Len(q.events) + 1 /\ Len(q.events) \in Nat
      /\ p.events[Len(q.events) + 1] = n + 1
      /\ \A i \in 1 .. Len(q.events) : p.events[i] = q.events[i]
      /\ Head(p.events) = p.events[1]
  <2>1. /\ p.events \in Seq(Nat) /\ Len(p.events) = Len(q.events) + 1
        /\ Len(q.events) \in Nat
        /\ p.events[Len(q.events) + 1] = n + 1
        /\ \A i \in 1 .. Len(q.events) : p.events[i] = q.events[i]
    BY <1>1, AppendProperties, LenProperties
  <2>2. p.events # <<>>
    BY <2>1, EmptySeq
  <2> QED
    BY <2>1, <2>2, Ends
<1> DEFINE goal == /\ p \in Batches /\ ~IsEmpty(p) /\ WellFormed(p)
                   /\ LastSequence(p) = n + 1
                   /\ ~IsEmpty(q) => Low(p) = Low(q)
                   /\ IsEmpty(q) => Low(p) = n + 1 /\ p.checkpoint = 0
<1> SUFFICES goal
  OBVIOUS
<1> HIDE DEF p
<1>3. CASE q.events = <<>>
  <2>1. Len(q.events) = 0
    BY <1>3
  <2>2. q.checkpoint # 0 => q.checkpoint = n
    BY <1>3 DEF LastSequence, IsEmpty
  <2>3. p.events[1] = n + 1 /\ Len(p.events) = 1
    BY <2>1, <1>2
  <2> QED
    BY <1>1, <1>2, <1>3, <2>2, <2>3
    DEF WellFormed, IsEmpty, LastSequence, FirstSequence, Low, Batches
<1>4. CASE q.events # <<>>
  <2>1. Len(q.events) >= 1 /\ ~IsEmpty(q) /\ Head(q.events) = q.events[1]
    BY <1>4, <1>1 DEF IsEmpty
  <2>2. q.events[Len(q.events)] = n
    BY <1>4, <2>1 DEF LastSequence
  <2>3. \A i \in 1 .. Len(q.events) : q.events[i] = q.events[1] + i - 1
    BY DEF WellFormed
  <2>4. q.events[1] \in Nat
    BY <1>1, <2>1
  <2>5. n = q.events[1] + Len(q.events) - 1
    <3>1. Len(q.events) \in 1 .. Len(q.events)
      BY <2>1, <1>2
    <3> QED
      BY <3>1, <2>2, <2>3
  <2>6. p.events[1] = q.events[1]
    BY <2>1, <1>2
  <2>7. \A i \in 1 .. Len(p.events) : p.events[i] = p.events[1] + i - 1
    <3> SUFFICES ASSUME NEW i \in 1 .. Len(p.events)
                 PROVE  p.events[i] = p.events[1] + i - 1
      OBVIOUS
    <3>1. CASE i = Len(q.events) + 1
      BY <3>1, <1>2, <2>5, <2>6, <2>4
    <3>2. CASE i # Len(q.events) + 1
      <4>1. i \in 1 .. Len(q.events)
        BY <3>2, <1>2
      <4> QED
        BY <4>1, <1>2, <2>3, <2>6
    <3> QED
      BY <3>1, <3>2
  <2>8. q.checkpoint # 0 => q.events[1] = q.checkpoint + 1
    BY <1>4 DEF WellFormed
  <2> QED
    BY <1>1, <1>2, <1>4, <2>1, <2>6, <2>7, <2>8
    DEF WellFormed, IsEmpty, LastSequence, FirstSequence, Low, Batches
<1> QED
  BY <1>3, <1>4

-----------------------------------------------------------------------------
(* The owner's functions keep the invariant.                               *)

\* The invariant looks only at the numbers of the owner record.
LEMMA Frame ==
    ASSUME NEW o \in OwnerRecords, NEW p \in OwnerRecords,
           NEW h \in HelperRecords, NEW n \in SUBSET Requests,
           CoreInv(o, h, n),
           p.published = o.published, p.queued = o.queued,
           p.inFlight = o.inFlight, p.acknowledgedCursor = o.acknowledgedCursor,
           p.published <= p.sequence,
           p.acceptingPublications => p.published = p.sequence
    PROVE  /\ CoreInv(p, h, n)
           /\ IdleInv(o, h) => IdleInv(p, h)
  BY DEF CoreInv, QueueInv, FlightInv, NetInv, NumbersInv, IdleInv

\* Compaction restarts the stream of publications above everything so far.
LEMMA CompactKeeps ==
    ASSUME NEW o \in OwnerRecords, NEW h \in HelperRecords,
           NEW n \in SUBSET Requests, CoreInv(o, h, n)
    PROVE  /\ Compact(o) \in OwnerRecords
           /\ CoreInv(Compact(o), h, n)
           /\ IdleInv(Compact(o), h)
           /\ Compact(o).inFlight = o.inFlight
           /\ Compact(o).closing = o.closing
           /\ Compact(o).queued.checkpoint # 0
<1> DEFINE p == Compact(o)
<1>0. /\ [checkpoint |-> o.sequence + 1, events |-> <<>>] \in Batches
      /\ o.sequence + 1 \in Nat
  <2>1. <<>> \in Seq(Nat)
    BY EmptySeq
  <2>2. o.sequence + 1 \in Nat
    BY DEF OwnerRecords
  <2> QED
    BY <2>1, <2>2 DEF Batches
<1>1. /\ p \in OwnerRecords
      /\ p.sequence = o.sequence + 1 /\ p.published = o.sequence + 1
      /\ p.queued = [checkpoint |-> o.sequence + 1, events |-> <<>>]
      /\ p.inFlight = o.inFlight /\ p.closing = o.closing
      /\ p.acknowledgedCursor = o.acknowledgedCursor
      /\ p.demanded = o.demanded
      /\ p.acceptingPublications = o.acceptingPublications
  BY <1>0 DEF Compact, OwnerRecords
<1>2. /\ o.sequence \in Nat /\ h.cursor \in Nat /\ o.published \in Nat
      /\ o.published <= o.sequence
  BY DEF OwnerRecords, HelperRecords, CoreInv, NumbersInv
<1>3. /\ ~IsEmpty(p.queued) /\ WellFormed(p.queued)
      /\ Low(p.queued) = o.sequence + 1 /\ LastSequence(p.queued) = o.sequence + 1
      /\ p.queued.checkpoint = o.sequence + 1
  BY <1>1, <1>2 DEF IsEmpty, WellFormed, Low, LastSequence
<1> HIDE DEF p
<1>4. \A r \in n : LastSequence(r) \in Nat /\ LastSequence(r) <= o.published
  BY BatchNumbers DEF CoreInv, NetInv, Requests
<1>5. QueueInv(p, h, n)
  BY <1>1, <1>2, <1>3, <1>4 DEF QueueInv, CoreInv, NumbersInv
<1>6. FlightInv(p, h, n)
  <2> SUFFICES ASSUME o.inFlight # NoFlight PROVE FlightInv(p, h, n)
    BY <1>1 DEF FlightInv
  <2>1. LastSequence(o.inFlight) \in Nat
    BY BatchNumbers DEF CoreInv, FlightInv, OwnerRecords, Requests
  <2> QED
    BY <1>1, <1>2, <1>3, <2>1 DEF CoreInv, FlightInv
<1>7. NetInv(p, h, n)
  BY <1>1, <1>2, <1>4 DEF CoreInv, NetInv
<1>8. NumbersInv(p, h)
  BY <1>1, <1>2 DEF CoreInv, NumbersInv
<1>9. IdleInv(p, h)
  BY <1>2, <1>3 DEF IdleInv
<1> QED
  BY <1>1, <1>2, <1>3, <1>5, <1>6, <1>7, <1>8, <1>9 DEF CoreInv, p

\* Flushing turns a queue that continues the helper into the batch in flight.
LEMMA FlushKeeps ==
    ASSUME NEW o \in OwnerRecords, NEW h \in HelperRecords,
           NEW n \in SUBSET Requests, CoreInv(o, h, n),
           o.inFlight = NoFlight => IdleInv(o, h)
    PROVE  /\ Flush(o) \in OwnerRecords
           /\ CoreInv(Flush(o), h, n)
           /\ Flush(o).inFlight = NoFlight => IdleInv(Flush(o), h)
           /\ o.inFlight # NoFlight => Flush(o).inFlight = o.inFlight
           /\ Flush(o).closing = o.closing
<1>1. CASE o.inFlight # NoFlight \/ IsEmpty(o.queued)
  BY <1>1 DEF Flush
<1>2. CASE ~(o.inFlight # NoFlight \/ IsEmpty(o.queued))
  <2> DEFINE p == Flush(o)
             f == [checkpoint |-> o.queued.checkpoint,
                   events |-> o.queued.events, attempt |-> 0]
  <2>1. f \in Requests /\ Same(f, o.queued)
    BY RetryAttemptsAssumption DEF OwnerRecords, Batches, Requests, Same
  <2>a. NoBatch \in Batches
    BY EmptySeq DEF NoBatch, Batches
  <2>2. /\ p \in OwnerRecords
        /\ p.sequence = o.sequence /\ p.queued = NoBatch /\ p.inFlight = f
        /\ p.published = o.published
        /\ p.closing = o.closing
        /\ p.acknowledgedCursor = o.acknowledgedCursor
        /\ p.demanded = o.demanded
        /\ p.acceptingPublications = o.acceptingPublications
    BY <1>2, <2>1, <2>a DEF Flush, OwnerRecords
  <2>3. /\ Low(f) = Low(o.queued) /\ LastSequence(f) = LastSequence(o.queued)
        /\ Proper(f) /\ f.checkpoint = o.queued.checkpoint
    <3>1. Proper(o.queued)
      BY <1>2 DEF Proper, CoreInv, QueueInv
    <3> QED
      BY <3>1, <2>1, SameNumbers
  <2> HIDE DEF p, f
  <2>4. /\ Low(f) \in Nat /\ LastSequence(f) \in Nat /\ Low(f) <= LastSequence(f)
        /\ h.cursor \in Nat /\ o.published \in Nat
    <3>1. /\ Low(f) \in Nat /\ FirstSequence(f) \in Nat /\ LastSequence(f) \in Nat
          /\ Low(f) <= FirstSequence(f) /\ FirstSequence(f) <= LastSequence(f)
      BY <2>1, <2>3, BatchNumbers DEF Requests
    <3> QED
      BY <3>1 DEF HelperRecords, OwnerRecords
  <2>5. /\ LastSequence(f) = o.published /\ h.cursor < Low(f)
        /\ \A r \in n : LastSequence(r) < Low(f)
    BY <1>2, <2>3 DEF CoreInv, QueueInv
  <2>6. Sound(h, f)
    BY <1>2, <2>3, <2>4, <2>5 DEF Sound, IdleInv
  <2>7. IsEmpty(p.queued)
    BY <2>2 DEF IsEmpty, NoBatch
  <2>8. QueueInv(p, h, n)
    BY <2>7 DEF QueueInv
  <2>9. FlightInv(p, h, n)
    BY <2>2, <2>3, <2>4, <2>5, <2>6, <2>7 DEF FlightInv
  <2>10. NetInv(p, h, n) /\ NumbersInv(p, h)
    BY <2>2 DEF CoreInv, NetInv, NumbersInv
  <2>11. f # NoFlight
    BY <2>3 DEF Proper, IsEmpty, NoFlight
  <2> QED
    BY <1>2, <2>2, <2>8, <2>9, <2>10, <2>11 DEF CoreInv, p
<1> QED
  BY <1>1, <1>2

\* What a function of the owner record has to keep: types, the invariant, a
\* batch that is in flight, and the closing flag.
Keeps(o, p, h, n) ==
    /\ p \in OwnerRecords
    /\ OwnerInv(p, h, n)
    /\ o.inFlight # NoFlight => p.inFlight = o.inFlight
    /\ p.closing = o.closing

LEMMA EnqueueCheckpointKeeps ==
    ASSUME NEW o \in OwnerRecords, NEW h \in HelperRecords,
           NEW n \in SUBSET Requests, OwnerInv(o, h, n)
    PROVE  Keeps(o, EnqueueCheckpoint(o), h, n)
<1> DEFINE c == Compact(o)
           p == EnqueueCheckpoint(o)
<1>1. /\ c \in OwnerRecords /\ CoreInv(c, h, n) /\ IdleInv(c, h)
      /\ c.inFlight = o.inFlight /\ c.closing = o.closing
  BY CompactKeeps DEF OwnerInv
<1> HIDE DEF c
<1>2. c.published <= c.sequence /\ (c.acceptingPublications => c.published = c.sequence)
  BY <1>1 DEF CoreInv, NumbersInv
<1>3. /\ p \in OwnerRecords /\ p.sequence = c.sequence /\ p.queued = c.queued
      /\ p.published = c.published
      /\ p.acceptingPublications = c.acceptingPublications
      /\ p.inFlight = c.inFlight /\ p.closing = c.closing
      /\ p.acknowledgedCursor = c.acknowledgedCursor
  BY <1>1 DEF EnqueueCheckpoint, OwnerRecords, c
<1> HIDE DEF p
<1>5. CoreInv(p, h, n) /\ IdleInv(p, h)
  BY <1>1, <1>2, <1>3, Frame
<1> QED
  BY <1>1, <1>3, <1>5 DEF Keeps, OwnerInv, p

\* The event is the successor of everything queued, in flight or ingested.
LEMMA AppendKeeps ==
    ASSUME NEW o \in OwnerRecords, NEW h \in HelperRecords,
           NEW n \in SUBSET Requests, OwnerInv(o, h, n),
           ~o.closing, o.acceptingPublications
    PROVE  LET p == [o EXCEPT !.sequence = @ + 1, !.published = o.sequence + 1,
                              !.publicationError = FALSE,
                              !.queued.events = Append(@, o.sequence + 1)]
           IN  Keeps(o, p, h, n)
<1> DEFINE p == [o EXCEPT !.sequence = @ + 1, !.published = o.sequence + 1,
                          !.publicationError = FALSE,
                          !.queued.events = Append(@, o.sequence + 1)]
           q == [o.queued EXCEPT !.events = Append(@, o.sequence + 1)]
<1>1. /\ o.queued \in Batches /\ WellFormed(o.queued) /\ o.sequence \in Nat
      /\ ~IsEmpty(o.queued) => LastSequence(o.queued) = o.sequence
      /\ h.cursor \in Nat /\ o.published = o.sequence
  BY DEF OwnerRecords, HelperRecords, OwnerInv, CoreInv, QueueInv, NumbersInv,
         IsEmpty, WellFormed
<1>2. /\ q \in Batches /\ ~IsEmpty(q) /\ WellFormed(q)
      /\ LastSequence(q) = o.sequence + 1
      /\ ~IsEmpty(o.queued) => Low(q) = Low(o.queued)
      /\ IsEmpty(o.queued) => Low(q) = o.sequence + 1 /\ q.checkpoint = 0
  BY <1>1, AppendNext
<1>3. q.checkpoint = o.queued.checkpoint
  BY <1>1 DEF Batches
<1>4. p.queued = q
  BY <1>1 DEF OwnerRecords, Batches
<1> HIDE DEF q
<1>5. /\ p \in OwnerRecords /\ p.sequence = o.sequence + 1
      /\ p.published = o.sequence + 1
      /\ p.inFlight = o.inFlight /\ p.closing = o.closing
      /\ p.acknowledgedCursor = o.acknowledgedCursor
      /\ p.demanded = o.demanded
      /\ p.acceptingPublications = o.acceptingPublications
  <2>1. q = [o.queued EXCEPT !.events = Append(@, o.sequence + 1)]
    BY DEF q
  <2>2. o.sequence + 1 \in Nat
    BY <1>1
  <2>3. p = [o EXCEPT !.sequence = o.sequence + 1, !.published = o.sequence + 1,
                      !.publicationError = FALSE,
                      !.queued = [o.queued EXCEPT !.events = Append(@, o.sequence + 1)]]
    OBVIOUS
  <2>4. p = [o EXCEPT !.sequence = o.sequence + 1, !.published = o.sequence + 1,
                      !.publicationError = FALSE,
                      !.queued = q]
    BY <2>1, <2>3
  <2> HIDE DEF p
  <2> QED
    BY <2>4, <2>2, <1>2 DEF OwnerRecords
<1> HIDE DEF p
<1>6. \A r \in n : LastSequence(r) \in Nat /\ LastSequence(r) <= o.sequence
  BY <1>1, BatchNumbers DEF OwnerInv, CoreInv, NetInv, Requests
<1>7. o.inFlight # NoFlight =>
          LastSequence(o.inFlight) \in Nat /\ LastSequence(o.inFlight) <= o.sequence
  BY <1>1, BatchNumbers DEF OwnerInv, CoreInv, FlightInv, OwnerRecords, Requests
<1>8. h.cursor <= o.sequence
  BY <1>1 DEF OwnerInv, CoreInv, NumbersInv
<1>9. QueueInv(p, h, n)
  <2>1. CASE IsEmpty(o.queued)
    BY <2>1, <1>1, <1>2, <1>4, <1>5, <1>6, <1>8 DEF QueueInv
  <2>2. CASE ~IsEmpty(o.queued)
    BY <2>2, <1>1, <1>2, <1>4, <1>5 DEF QueueInv, OwnerInv, CoreInv
  <2> QED
    BY <2>1, <2>2
<1>10. FlightInv(p, h, n)
  <2> SUFFICES ASSUME o.inFlight # NoFlight PROVE FlightInv(p, h, n)
    BY <1>5 DEF FlightInv
  <2>1. CASE IsEmpty(o.queued)
    BY <2>1, <1>1, <1>2, <1>4, <1>5, <1>7 DEF FlightInv, OwnerInv, CoreInv
  <2>2. CASE ~IsEmpty(o.queued)
    BY <2>2, <1>1, <1>2, <1>3, <1>4, <1>5, <1>7 DEF FlightInv, OwnerInv, CoreInv
  <2> QED
    BY <2>1, <2>2
<1>11. NetInv(p, h, n) /\ NumbersInv(p, h)
  <2>1. NetInv(p, h, n)
    BY <1>1, <1>5, <1>6 DEF OwnerInv, CoreInv, NetInv
  <2>2. NumbersInv(p, h)
    BY <1>1, <1>5, <1>8 DEF OwnerInv, CoreInv, NumbersInv
  <2> QED
    BY <2>1, <2>2
<1>12. o.inFlight = NoFlight => IdleInv(p, h)
  <2> SUFFICES ASSUME o.inFlight = NoFlight PROVE IdleInv(p, h)
    OBVIOUS
  <2>1. IdleInv(o, h)
    BY DEF OwnerInv
  <2>2. CASE IsEmpty(o.queued)
    <3>1. Low(q) = h.cursor + 1
      BY <2>1, <2>2, <1>2, <1>1 DEF IdleInv
    <3> QED
      BY <3>1, <1>2, <1>4 DEF IdleInv
  <2>3. CASE ~IsEmpty(o.queued)
    BY <2>1, <2>3, <1>2, <1>3, <1>4 DEF IdleInv
  <2> QED
    BY <2>2, <2>3
<1>13. Keeps(o, p, h, n)
  BY <1>5, <1>9, <1>10, <1>11, <1>12 DEF Keeps, OwnerInv, CoreInv
<1> QED
  BY <1>13 DEF p

LEMMA EnqueueEventKeeps ==
    ASSUME NEW o \in OwnerRecords, NEW h \in HelperRecords,
           NEW n \in SUBSET Requests, OwnerInv(o, h, n), NEW immediate \in BOOLEAN,
           ~o.closing, o.acceptingPublications
    PROVE  Keeps(o, EnqueueEvent(o, immediate), h, n)
<1> DEFINE a == [o EXCEPT !.sequence = @ + 1, !.published = o.sequence + 1,
                          !.publicationError = FALSE,
                          !.queued.events = Append(@, o.sequence + 1)]
           b == IF Len(a.queued.events) > QueueLimit THEN Compact(a) ELSE a
           t == [b EXCEPT !.flushTimer = TRUE]
<1>1. Keeps(o, a, h, n)
  BY AppendKeeps
<1>e. EnqueueEvent(o, immediate) = IF immediate THEN Flush(b) ELSE t
  BY DEF EnqueueEvent
<1> HIDE DEF a
<1>2. Keeps(o, b, h, n)
  <2>1. a \in OwnerRecords /\ CoreInv(a, h, n)
    BY <1>1 DEF Keeps, OwnerInv
  <2>2. /\ Compact(a) \in OwnerRecords /\ CoreInv(Compact(a), h, n)
        /\ IdleInv(Compact(a), h)
        /\ Compact(a).inFlight = a.inFlight /\ Compact(a).closing = a.closing
    BY <2>1, CompactKeeps
  <2>3. Keeps(o, Compact(a), h, n)
    BY <2>2, <1>1 DEF Keeps, OwnerInv
  <2> QED
    BY <2>3, <1>1
<1> HIDE DEF b
<1>3. /\ b \in OwnerRecords /\ CoreInv(b, h, n)
      /\ b.closing = o.closing /\ ~b.closing
      /\ b.inFlight = NoFlight => IdleInv(b, h)
      /\ o.inFlight # NoFlight => b.inFlight = o.inFlight
  BY <1>2 DEF Keeps, OwnerInv
<1>4. Keeps(o, Flush(b), h, n)
  <2>1. /\ Flush(b) \in OwnerRecords /\ CoreInv(Flush(b), h, n)
        /\ Flush(b).inFlight = NoFlight => IdleInv(Flush(b), h)
        /\ b.inFlight # NoFlight => Flush(b).inFlight = b.inFlight
        /\ Flush(b).closing = b.closing
    BY <1>3, FlushKeeps
  <2> QED
    BY <1>3, <2>1 DEF Keeps, OwnerInv
<1>5. Keeps(o, t, h, n)
  <2>1. /\ t \in OwnerRecords /\ t.sequence = b.sequence /\ t.queued = b.queued
        /\ t.published = b.published
        /\ t.inFlight = b.inFlight /\ t.closing = b.closing
        /\ t.acknowledgedCursor = b.acknowledgedCursor
        /\ t.demanded = b.demanded
        /\ t.acceptingPublications = b.acceptingPublications
    BY <1>3 DEF OwnerRecords
  <2>2. CoreInv(t, h, n) /\ (IdleInv(b, h) => IdleInv(t, h))
    <3>1. /\ t.published <= t.sequence
          /\ t.acceptingPublications => t.published = t.sequence
      BY <2>1, <1>3 DEF CoreInv, NumbersInv
    <3> HIDE DEF t
    <3> QED
      BY <1>3, <2>1, <3>1, Frame
  <2> HIDE DEF t
  <2> QED
    BY <2>1, <2>2, <1>3 DEF Keeps, OwnerInv
<1> QED
  BY <1>4, <1>5, <1>e

\* The fields of the owner after a checkpoint was enqueued.
LEMMA CheckpointFields ==
    ASSUME NEW o \in OwnerRecords
    PROVE  LET c == EnqueueCheckpoint(o)
           IN  /\ c \in OwnerRecords /\ c.sequence = o.sequence + 1
               /\ c.queued = [checkpoint |-> o.sequence + 1, events |-> <<>>]
               /\ c.published = o.sequence + 1
               /\ c.acceptingPublications = o.acceptingPublications
               /\ c.inFlight = o.inFlight /\ c.closing = o.closing
               /\ c.acknowledgedCursor = o.acknowledgedCursor
<1> DEFINE k == [checkpoint |-> o.sequence + 1, events |-> <<>>]
           d == Compact(o)
<1>1. o.sequence + 1 \in Nat /\ k \in Batches
  BY EmptySeq DEF OwnerRecords, Batches
<1> HIDE DEF k
<1>2. d = [o EXCEPT !.sequence = o.sequence + 1, !.published = o.sequence + 1,
                    !.queued = k]
  BY DEF Compact, k
<1> HIDE DEF d
<1>3. /\ d \in OwnerRecords /\ d.sequence = o.sequence + 1 /\ d.queued = k
      /\ d.published = o.sequence + 1
      /\ d.acceptingPublications = o.acceptingPublications
      /\ d.inFlight = o.inFlight /\ d.closing = o.closing
      /\ d.acknowledgedCursor = o.acknowledgedCursor
  BY <1>1, <1>2 DEF OwnerRecords
<1>4. EnqueueCheckpoint(o) = [d EXCEPT !.publicationError = FALSE, !.flushTimer = TRUE]
  BY DEF EnqueueCheckpoint, d
<1> QED
  BY <1>3, <1>4 DEF OwnerRecords, k

LEMMA SetDemandedKeeps ==
    ASSUME NEW o \in OwnerRecords, NEW h \in HelperRecords,
           NEW n \in SUBSET Requests, OwnerInv(o, h, n), NEW demanded \in BOOLEAN
    PROVE  Keeps(o, SetDemanded(o, demanded), h, n)
<1>1. CASE o.demanded = demanded
  BY <1>1 DEF SetDemanded, Keeps
<1>2. CASE o.demanded # demanded /\ demanded
  <2> DEFINE p == SetDemanded(o, demanded)
             c == EnqueueCheckpoint(o)
  <2>1. Keeps(o, c, h, n)
    BY EnqueueCheckpointKeeps
  <2>2. /\ p \in OwnerRecords /\ p.sequence = c.sequence /\ p.queued = c.queued
        /\ p.inFlight = c.inFlight /\ p.closing = c.closing
        /\ p.acknowledgedCursor = c.acknowledgedCursor
        /\ p.published = c.published
        /\ p.acceptingPublications = c.acceptingPublications
    <3> DEFINE e == [o EXCEPT !.demanded = TRUE]
    <3>1. /\ e \in OwnerRecords /\ e.sequence = o.sequence
          /\ e.inFlight = o.inFlight /\ e.closing = o.closing
          /\ e.acceptingPublications = o.acceptingPublications
          /\ e.acknowledgedCursor = o.acknowledgedCursor /\ o.sequence \in Nat
      BY DEF OwnerRecords
    <3>2. p = EnqueueCheckpoint(e)
      BY <1>2 DEF SetDemanded
    <3> HIDE DEF e, p, c
    <3>3. /\ p \in OwnerRecords /\ p.sequence = o.sequence + 1
          /\ p.queued = [checkpoint |-> o.sequence + 1, events |-> <<>>]
          /\ p.published = o.sequence + 1
          /\ p.acceptingPublications = o.acceptingPublications
          /\ p.inFlight = o.inFlight /\ p.closing = o.closing
          /\ p.acknowledgedCursor = o.acknowledgedCursor
      BY <3>1, <3>2, CheckpointFields
    <3>4. /\ c.sequence = o.sequence + 1
          /\ c.queued = [checkpoint |-> o.sequence + 1, events |-> <<>>]
          /\ c.published = o.sequence + 1
          /\ c.acceptingPublications = o.acceptingPublications
          /\ c.inFlight = o.inFlight /\ c.closing = o.closing
          /\ c.acknowledgedCursor = o.acknowledgedCursor
      BY CheckpointFields DEF c
    <3> QED
      BY <3>1, <3>3, <3>4
  <2> HIDE DEF p, c
  <2>3. c \in OwnerRecords /\ CoreInv(c, h, n)
    BY <2>1 DEF Keeps, OwnerInv
  <2>4. CoreInv(p, h, n) /\ (IdleInv(c, h) => IdleInv(p, h))
    BY <2>2, <2>3, Frame DEF CoreInv, NumbersInv
  <2>5. Keeps(o, p, h, n)
    BY <2>1, <2>2, <2>4 DEF Keeps, OwnerInv
  <2> QED
    BY <2>5 DEF p
<1>3. CASE o.demanded # demanded /\ ~demanded
  <2> DEFINE p == [o EXCEPT !.demanded = FALSE]
  <2>1. /\ p \in OwnerRecords /\ p.sequence = o.sequence /\ p.queued = o.queued
        /\ p.published = o.published
        /\ p.acceptingPublications = o.acceptingPublications
        /\ p.inFlight = o.inFlight /\ p.closing = o.closing
        /\ p.acknowledgedCursor = o.acknowledgedCursor
    BY DEF OwnerRecords
  <2>2. SetDemanded(o, demanded) = p
    BY <1>3 DEF SetDemanded
  <2> HIDE DEF p
  <2>3. CoreInv(p, h, n) /\ (IdleInv(o, h) => IdleInv(p, h))
    BY <2>1, Frame DEF OwnerInv, CoreInv, NumbersInv
  <2> QED
    BY <2>1, <2>2, <2>3 DEF Keeps, OwnerInv
<1> QED
  BY <1>1, <1>2, <1>3

\* A flush after a change of flags.
LEMMA FlagsFlushKeeps ==
    ASSUME NEW o \in OwnerRecords, NEW p \in OwnerRecords,
           NEW h \in HelperRecords, NEW n \in SUBSET Requests,
           OwnerInv(o, h, n), ~o.closing,
           p.sequence = o.sequence, p.published = o.published, p.queued = o.queued,
           p.inFlight = o.inFlight, p.acknowledgedCursor = o.acknowledgedCursor,
           p.acceptingPublications => o.acceptingPublications
    PROVE  /\ Flush(p) \in OwnerRecords
           /\ OwnerInv(Flush(p), h, n)
           /\ o.inFlight # NoFlight => Flush(p).inFlight = o.inFlight
           /\ Flush(p).closing = p.closing
<1>1. CoreInv(p, h, n) /\ (p.inFlight = NoFlight => IdleInv(p, h))
  <2>1. /\ p.published <= p.sequence
        /\ p.acceptingPublications => p.published = p.sequence
    BY DEF OwnerInv, CoreInv, NumbersInv
  <2> QED
    BY <2>1, Frame DEF OwnerInv
<1> QED
  BY <1>1, FlushKeeps DEF OwnerInv

LEMMA ResumeKeeps ==
    ASSUME NEW o \in OwnerRecords, NEW h \in HelperRecords,
           NEW n \in SUBSET Requests, OwnerInv(o, h, n), ~o.closing
    PROVE  /\ Keeps(o, Resume(o), h, n)
           /\ Resume(o).acceptingPublications = o.acceptingPublications
<1> DEFINE p == [o EXCEPT !.publicationError = FALSE]
<1>1. /\ p \in OwnerRecords /\ p.sequence = o.sequence /\ p.queued = o.queued
      /\ p.published = o.published
      /\ p.inFlight = o.inFlight /\ p.closing = o.closing
      /\ p.acknowledgedCursor = o.acknowledgedCursor
      /\ p.acceptingPublications = o.acceptingPublications
  BY DEF OwnerRecords
<1>2. Resume(o) = IF o.publicationError THEN Flush(p) ELSE o
  BY DEF Resume
<1> HIDE DEF p
<1>3. /\ Flush(p) \in OwnerRecords /\ OwnerInv(Flush(p), h, n)
      /\ o.inFlight # NoFlight => Flush(p).inFlight = o.inFlight
      /\ Flush(p).closing = p.closing
  BY <1>1, FlagsFlushKeeps
<1>4. Flush(p).acceptingPublications = p.acceptingPublications
  BY <1>1 DEF Flush, OwnerRecords
<1> QED
  BY <1>1, <1>2, <1>3, <1>4 DEF Keeps

LEMMA HelloKeeps ==
    ASSUME NEW o \in OwnerRecords, NEW h \in HelperRecords,
           NEW n \in SUBSET Requests, OwnerInv(o, h, n), ~o.closing,
           NEW subscribers \in Nat
    PROVE  Keeps(o, Hello(o, subscribers), h, n)
<1> DEFINE r == Resume(o)
<1>1. Keeps(o, r, h, n)
  BY ResumeKeeps
<1>2. Hello(o, subscribers) = SetDemanded(r, subscribers > 0)
  BY DEF Hello
<1> HIDE DEF r
<1>3. Keeps(r, SetDemanded(r, subscribers > 0), h, n)
  <2>1. r \in OwnerRecords /\ OwnerInv(r, h, n)
    BY <1>1 DEF Keeps
  <2>2. (subscribers > 0) \in BOOLEAN
    OBVIOUS
  <2> QED
    BY <2>1, <2>2, SetDemandedKeeps
<1> QED
  BY <1>1, <1>2, <1>3 DEF Keeps

\* A rejected publication spends a number of a draining transport.
LEMMA RejectedKeeps ==
    ASSUME NEW o \in OwnerRecords, NEW h \in HelperRecords,
           NEW n \in SUBSET Requests, OwnerInv(o, h, n),
           ~o.acceptingPublications, NEW demanded \in BOOLEAN
    PROVE  /\ Keeps(o, Rejected(o), h, n)
           /\ Keeps(o, [Rejected(o) EXCEPT !.demanded = demanded], h, n)
<1>1. o.sequence \in Nat /\ o.published \in Nat /\ o.published <= o.sequence
  BY DEF OwnerRecords, OwnerInv, CoreInv, NumbersInv
<1>2. ASSUME NEW p \in OwnerRecords, p.sequence = o.sequence + 1,
             p.queued = o.queued, p.published = o.published,
             p.inFlight = o.inFlight, p.closing = o.closing,
             p.acknowledgedCursor = o.acknowledgedCursor,
             ~p.acceptingPublications
      PROVE  Keeps(o, p, h, n)
  <2>1. CoreInv(p, h, n) /\ (IdleInv(o, h) => IdleInv(p, h))
    BY <1>1, <1>2, Frame DEF OwnerInv
  <2> QED
    BY <1>2, <2>1 DEF Keeps, OwnerInv
<1> DEFINE p == Rejected(o)
           q == [p EXCEPT !.demanded = demanded]
<1>3. /\ p \in OwnerRecords /\ p.sequence = o.sequence + 1
      /\ p.queued = o.queued /\ p.published = o.published
      /\ p.inFlight = o.inFlight /\ p.closing = o.closing
      /\ p.acknowledgedCursor = o.acknowledgedCursor
      /\ ~p.acceptingPublications
  BY <1>1 DEF Rejected, OwnerRecords
<1> HIDE DEF p
<1>4. /\ q \in OwnerRecords /\ q.sequence = o.sequence + 1
      /\ q.queued = o.queued /\ q.published = o.published
      /\ q.inFlight = o.inFlight /\ q.closing = o.closing
      /\ q.acknowledgedCursor = o.acknowledgedCursor
      /\ ~q.acceptingPublications
  BY <1>3 DEF OwnerRecords
<1> HIDE DEF q
<1> QED
  BY <1>2, <1>3, <1>4 DEF p, q

\* A failed batch leaves the flight and, unless the transport closes, a
\* recovery checkpoint replaces the queue.
LEMMA FailKeeps ==
    ASSUME NEW o \in OwnerRecords, NEW h \in HelperRecords,
           NEW n \in SUBSET Requests, OwnerInv(o, h, n), ClosedInv(o)
    PROVE  /\ Fail(o) \in OwnerRecords
           /\ OwnerInv(Fail(o), h, n)
           /\ ClosedInv(Fail(o))
<1> DEFINE d == [o EXCEPT !.inFlight = NoFlight, !.publicationError = TRUE]
<1>1. NoFlight \in Requests
  BY EmptySeq, RetryAttemptsAssumption DEF NoFlight, Requests
<1>2. /\ d \in OwnerRecords /\ d.sequence = o.sequence /\ d.queued = o.queued
      /\ d.published = o.published
      /\ d.inFlight = NoFlight /\ d.closing = o.closing
      /\ d.acknowledgedCursor = o.acknowledgedCursor
      /\ d.demanded = o.demanded /\ d.flushTimer = o.flushTimer
      /\ d.acceptingPublications = o.acceptingPublications
  BY <1>1 DEF OwnerRecords
<1>3. Fail(o) = IF o.closing THEN d ELSE Compact(d)
  BY DEF Fail
<1> HIDE DEF d
<1>4. CoreInv(d, h, n)
  BY <1>2 DEF OwnerInv, CoreInv, QueueInv, FlightInv, NetInv, NumbersInv
<1>5. CASE o.closing
  BY <1>2, <1>3, <1>4, <1>5 DEF OwnerInv, ClosedInv
<1>6. CASE ~o.closing
  <2>1. /\ Compact(d) \in OwnerRecords /\ CoreInv(Compact(d), h, n)
        /\ IdleInv(Compact(d), h) /\ Compact(d).closing = d.closing
    BY <1>2, <1>4, CompactKeeps
  <2> QED
    BY <2>1, <1>2, <1>3, <1>6 DEF OwnerInv, ClosedInv
<1> QED
  BY <1>5, <1>6

\* The ingested batch leaves the flight: the queue now continues the helper.
LEMMA SucceedKeeps ==
    ASSUME NEW o \in OwnerRecords, NEW h \in HelperRecords,
           NEW n \in SUBSET Requests, OwnerInv(o, h, n), ClosedInv(o),
           o.inFlight # NoFlight, h.known, LastSequence(o.inFlight) = h.cursor
    PROVE  /\ Succeed(o, h.cursor) \in OwnerRecords
           /\ OwnerInv(Succeed(o, h.cursor), h, n)
           /\ ClosedInv(Succeed(o, h.cursor))
<1> DEFINE d == [o EXCEPT !.inFlight = NoFlight, !.acknowledgedCursor = h.cursor]
<1>1. NoFlight \in Requests
  BY EmptySeq, RetryAttemptsAssumption DEF NoFlight, Requests
<1>2. /\ d \in OwnerRecords /\ d.sequence = o.sequence /\ d.queued = o.queued
      /\ d.published = o.published
      /\ d.inFlight = NoFlight /\ d.closing = o.closing
      /\ d.acknowledgedCursor = h.cursor /\ h.cursor \in Nat
      /\ d.demanded = o.demanded /\ d.flushTimer = o.flushTimer
      /\ d.acceptingPublications = o.acceptingPublications
  BY <1>1 DEF OwnerRecords, HelperRecords
<1>3. Succeed(o, h.cursor) = Flush(d)
  BY DEF Succeed
<1> HIDE DEF d
<1>4. CoreInv(d, h, n)
  BY <1>2 DEF OwnerInv, CoreInv, QueueInv, FlightInv, NetInv, NumbersInv
<1>5. IdleInv(d, h)
  BY <1>2 DEF OwnerInv, CoreInv, FlightInv, IdleInv
<1>6. /\ Flush(d) \in OwnerRecords /\ CoreInv(Flush(d), h, n)
      /\ Flush(d).inFlight = NoFlight => IdleInv(Flush(d), h)
      /\ Flush(d).closing = d.closing
  BY <1>2, <1>4, <1>5, FlushKeeps
<1>7. /\ Flush(d).flushTimer = d.flushTimer
      /\ Flush(d).acceptingPublications = d.acceptingPublications
  BY <1>2 DEF Flush, OwnerRecords
<1> QED
  BY <1>2, <1>3, <1>6, <1>7 DEF OwnerInv, ClosedInv

\* Closing flushes what is queued; nothing will arm the batch window again.
LEMMA CloseKeeps ==
    ASSUME NEW o \in OwnerRecords, NEW h \in HelperRecords,
           NEW n \in SUBSET Requests, OwnerInv(o, h, n), ~o.closing
    PROVE  /\ Close(o) \in OwnerRecords
           /\ OwnerInv(Close(o), h, n)
           /\ o.inFlight # NoFlight => Close(o).inFlight = o.inFlight
           /\ ClosedInv(Close(o))
<1> DEFINE p == [o EXCEPT !.closing = TRUE, !.acceptingPublications = FALSE,
                          !.flushTimer = FALSE, !.demanded = FALSE]
<1>1. /\ p \in OwnerRecords /\ p.sequence = o.sequence /\ p.queued = o.queued
      /\ p.published = o.published
      /\ p.inFlight = o.inFlight /\ p.closing
      /\ p.acknowledgedCursor = o.acknowledgedCursor
      /\ ~p.demanded /\ ~p.flushTimer /\ ~p.acceptingPublications
  BY DEF OwnerRecords
<1>2. Close(o) = Flush(p)
  BY DEF Close
<1> HIDE DEF p
<1>3. /\ Flush(p) \in OwnerRecords /\ OwnerInv(Flush(p), h, n)
      /\ o.inFlight # NoFlight => Flush(p).inFlight = o.inFlight
  BY <1>1, FlagsFlushKeeps
<1>4. /\ Flush(p).flushTimer = p.flushTimer
      /\ Flush(p).acceptingPublications = p.acceptingPublications
  BY <1>1 DEF Flush, OwnerRecords
<1> QED
  BY <1>1, <1>2, <1>3, <1>4 DEF ClosedInv

-----------------------------------------------------------------------------
(* The channel and the helper.                                             *)

\* Posting an attempt adds one more copy of the batch in flight.
LEMMA PostKeeps ==
    ASSUME NEW o \in OwnerRecords, NEW h \in HelperRecords,
           NEW n \in SUBSET Requests, OwnerInv(o, h, n), ClosedInv(o),
           o.inFlight # NoFlight, NEW a \in 1 .. RetryAttempts
    PROVE  LET p == [o EXCEPT !.inFlight.attempt = a]
           IN  /\ p \in OwnerRecords /\ p.inFlight \in Requests
               /\ OwnerInv(p, h, n \cup {p.inFlight}) /\ ClosedInv(p)
<1> DEFINE f == [o.inFlight EXCEPT !.attempt = a]
           p == [o EXCEPT !.inFlight = f]
           m == n \cup {f}
<1>1. o.inFlight \in Requests /\ a \in 0 .. RetryAttempts /\ a >= 1
  BY RetryAttemptsAssumption DEF OwnerRecords
<1>2. /\ f \in Requests /\ Same(f, o.inFlight) /\ f.attempt = a
  BY <1>1 DEF Requests, Same
<1>3. [o EXCEPT !.inFlight.attempt = a] = p
  OBVIOUS
<1> HIDE DEF f
<1>4. /\ p \in OwnerRecords /\ p.sequence = o.sequence /\ p.queued = o.queued
      /\ p.published = o.published
      /\ p.inFlight = f /\ p.closing = o.closing
      /\ p.acknowledgedCursor = o.acknowledgedCursor
      /\ p.demanded = o.demanded /\ p.flushTimer = o.flushTimer
      /\ p.acceptingPublications = o.acceptingPublications
  BY <1>2 DEF OwnerRecords
<1> HIDE DEF p
<1>5. /\ Low(f) = Low(o.inFlight) /\ LastSequence(f) = LastSequence(o.inFlight)
      /\ Proper(f) /\ Sound(h, f)
  BY <1>2, SameNumbers DEF OwnerInv, CoreInv, FlightInv
<1>6. \A r \in n : Same(r, f) \/ LastSequence(r) < Low(f)
  <2>1. \A r \in n : Same(r, o.inFlight) \/ LastSequence(r) < Low(o.inFlight)
    BY DEF OwnerInv, CoreInv, FlightInv
  <2> QED
    BY <2>1, <1>2, <1>5 DEF Same
<1>7. QueueInv(p, h, m)
  BY <1>4, <1>5 DEF OwnerInv, CoreInv, QueueInv, FlightInv
<1>8. FlightInv(p, h, m)
  <2>1. Same(f, f)
    BY DEF Same
  <2> QED
    BY <1>4, <1>5, <1>6, <2>1 DEF OwnerInv, CoreInv, FlightInv
<1>9. NetInv(p, h, m)
  <2>1. ASSUME NEW r \in m
        PROVE  /\ Proper(r) /\ Sound(h, r) /\ r.attempt >= 1
               /\ LastSequence(r) <= o.published
    BY <1>1, <1>2, <1>5 DEF OwnerInv, CoreInv, NetInv, FlightInv
  <2>2. ASSUME NEW r \in m, NEW s \in m
        PROVE  Same(r, s) \/ LastSequence(r) < Low(s) \/ LastSequence(s) < Low(r)
    <3>1. CASE r \in n /\ s \in n
      BY <3>1 DEF OwnerInv, CoreInv, NetInv
    <3>2. CASE r = f \/ s = f
      BY <3>2, <1>6 DEF Same
    <3> QED
      BY <3>1, <3>2
  <2> QED
    BY <2>1, <2>2, <1>4 DEF NetInv
<1>10. NumbersInv(p, h)
  BY <1>4 DEF OwnerInv, CoreInv, NumbersInv
<1>11. f # NoFlight
  BY <1>1, <1>2 DEF NoFlight
<1> QED
  BY <1>2, <1>3, <1>4, <1>7, <1>8, <1>9, <1>10, <1>11
  DEF OwnerInv, CoreInv, ClosedInv

LEMMA ShrinkNet ==
    ASSUME NEW o, NEW h, NEW n, NEW r, OwnerInv(o, h, n)
    PROVE  OwnerInv(o, h, n \ {r})
  BY DEF OwnerInv, CoreInv, QueueInv, FlightInv, NetInv

\* Of the helper only the cursor matters.
LEMMA HelperFrame ==
    ASSUME NEW o, NEW n, NEW h, NEW g, OwnerInv(o, h, n),
           g.cursor = h.cursor, g.known = h.known
    PROVE  OwnerInv(o, g, n)
  BY DEF OwnerInv, CoreInv, QueueInv, FlightInv, NetInv, NumbersInv, IdleInv, Sound

\* An installed request leaves every other one sound: what lies below it is
\* a duplicate now, what lies above continues it or brings its checkpoint.
LEMMA IngestKeeps ==
    ASSUME NEW o \in OwnerRecords, NEW h \in HelperRecords,
           NEW n \in SUBSET Requests, OwnerInv(o, h, n),
           NEW r \in n, ~(h.known /\ LastSequence(r) <= h.cursor)
    PROVE  /\ Install(h, r) \in HelperRecords
           /\ Install(h, r).cursor = LastSequence(r) /\ Install(h, r).known
           /\ OwnerInv(o, Install(h, r), n \ {r})
           /\ o.inFlight # NoFlight => h.cursor < LastSequence(o.inFlight)
<1> DEFINE g == Install(h, r)
           m == n \ {r}
<1>1. /\ Proper(r) /\ h.cursor < Low(r) /\ LastSequence(r) <= o.published
      /\ r.attempt >= 1
  BY DEF OwnerInv, CoreInv, NetInv, Sound
<1>2. \A s \in n \cup {o.inFlight} : Proper(s) =>
          Low(s) \in Nat /\ LastSequence(s) \in Nat /\ Low(s) <= LastSequence(s)
  <2> SUFFICES ASSUME NEW s \in Requests, Proper(s)
               PROVE  /\ Low(s) \in Nat /\ LastSequence(s) \in Nat
                      /\ Low(s) <= LastSequence(s)
    BY DEF OwnerRecords
  <2>1. /\ Low(s) \in Nat /\ FirstSequence(s) \in Nat /\ LastSequence(s) \in Nat
        /\ Low(s) <= FirstSequence(s) /\ FirstSequence(s) <= LastSequence(s)
    BY BatchNumbers DEF Requests
  <2> QED
    BY <2>1
<1>3. Low(r) \in Nat /\ LastSequence(r) \in Nat /\ Low(r) <= LastSequence(r)
  BY <1>1, <1>2
<1>4. /\ g \in HelperRecords /\ g.cursor = LastSequence(r) /\ g.known
  <2>1. (h.checkpointRequested /\ r.checkpoint = 0) \in BOOLEAN
    OBVIOUS
  <2> QED
    BY <1>3, <2>1 DEF Install, HelperRecords
<1> HIDE DEF g
<1>5. h.cursor \in Nat /\ o.published \in Nat
  BY DEF HelperRecords, OwnerRecords
\* A proper batch above r stays sound.
<1>6. ASSUME NEW s \in n \cup {o.inFlight}, Proper(s), Sound(h, s),
             \/ Same(r, s) \/ LastSequence(r) < Low(s) \/ LastSequence(s) < Low(r)
      PROVE  Sound(g, s)
  <2>1. Low(s) \in Nat /\ LastSequence(s) \in Nat /\ Low(s) <= LastSequence(s)
    BY <1>2, <1>6
  <2>2. CASE Same(r, s)
    BY <2>2, SameNumbers, <1>3, <1>4 DEF Sound
  <2>3. CASE LastSequence(r) < Low(s)
    BY <2>1, <2>3, <1>1, <1>3, <1>4, <1>5, <1>6 DEF Sound
  <2>4. CASE LastSequence(s) < Low(r)
    BY <2>1, <2>4, <1>3, <1>4 DEF Sound
  <2> QED
    BY <1>6, <2>2, <2>3, <2>4
<1>7. QueueInv(o, g, m)
  BY <1>4 DEF OwnerInv, CoreInv, QueueInv
<1>8. FlightInv(o, g, m)
  <2> SUFFICES ASSUME o.inFlight # NoFlight PROVE FlightInv(o, g, m)
    BY DEF FlightInv
  <2>1. /\ Proper(o.inFlight) /\ Sound(h, o.inFlight)
        /\ Same(r, o.inFlight) \/ LastSequence(r) < Low(o.inFlight)
    BY DEF OwnerInv, CoreInv, FlightInv
  <2>2. Sound(g, o.inFlight)
    BY <2>1, <1>6
  <2>3. g.cursor <= LastSequence(o.inFlight)
    BY <2>1, <1>2, <1>3, <1>4, SameNumbers
  <2> QED
    BY <2>2, <2>3 DEF OwnerInv, CoreInv, FlightInv
<1>9. NetInv(o, g, m)
  <2>1. ASSUME NEW s \in m PROVE Sound(g, s)
    BY <1>6 DEF OwnerInv, CoreInv, NetInv
  <2> QED
    BY <2>1 DEF OwnerInv, CoreInv, NetInv
<1>10. NumbersInv(o, g)
  <2>1. o.acknowledgedCursor \in Nat
    BY DEF OwnerRecords
  <2> QED
    BY <2>1, <1>1, <1>3, <1>4, <1>5 DEF OwnerInv, CoreInv, NumbersInv
<1>11. ~o.closing /\ o.inFlight = NoFlight => IdleInv(o, g)
  <2> SUFFICES ASSUME ~o.closing, o.inFlight = NoFlight PROVE IdleInv(o, g)
    OBVIOUS
  <2>1. IdleInv(o, h)
    BY DEF OwnerInv
  <2>2. ~IsEmpty(o.queued)
    BY <2>1, <1>1, <1>3, <1>5 DEF IdleInv
  <2>3. o.queued.checkpoint # 0
    <3>1. LastSequence(r) < Low(o.queued)
      BY <2>2 DEF OwnerInv, CoreInv, QueueInv
    <3> QED
      BY <3>1, <2>1, <2>2, <1>1, <1>3, <1>5 DEF IdleInv
  <2> QED
    BY <2>2, <2>3 DEF IdleInv
<1>12. o.inFlight # NoFlight => h.cursor < LastSequence(o.inFlight)
  <2> SUFFICES ASSUME o.inFlight # NoFlight
               PROVE  h.cursor < LastSequence(o.inFlight)
    OBVIOUS
  <2>1. /\ Proper(o.inFlight)
        /\ Same(r, o.inFlight) \/ LastSequence(r) < Low(o.inFlight)
    BY DEF OwnerInv, CoreInv, FlightInv
  <2>2. LastSequence(r) <= LastSequence(o.inFlight)
    BY <2>1, <1>2, <1>3, SameNumbers
  <2>3. LastSequence(o.inFlight) \in Nat
    BY <2>1, <1>2
  <2> QED
    BY <2>2, <2>3, <1>1, <1>3, <1>5
<1> QED
  BY <1>4, <1>7, <1>8, <1>9, <1>10, <1>11, <1>12 DEF OwnerInv, CoreInv, g

-----------------------------------------------------------------------------
(* The invariant is inductive.                                             *)

Streams == [up : BOOLEAN, controls : Seq(Controls)]

LEMMA WriteTyped ==
    ASSUME NEW s \in Streams, NEW c \in Controls
    PROVE  Write(s, c) \in Streams
<1>1. s.controls \in Seq(Controls) /\ s.up \in BOOLEAN
  BY DEF Streams
<1>2. Append(s.controls, c) \in Seq(Controls)
  BY <1>1, AppendProperties
<1> QED
  BY <1>1, <1>2 DEF Write, Streams

LEMMA InitInv == Init => IInv
<1> SUFFICES ASSUME Init PROVE IInv
  OBVIOUS
<1>1. <<>> \in Seq(Nat) /\ <<>> \in Seq(Controls)
  BY EmptySeq
<1>2. NoBatch \in Batches /\ NoFlight \in Requests
  BY <1>1, RetryAttemptsAssumption DEF NoBatch, NoFlight, Batches, Requests
<1>3. TypeOK
  BY <1>1, <1>2 DEF Init, TypeOK, OwnerRecords, HelperRecords, NoReply
<1>4. IsEmpty(owner.queued)
  BY DEF Init, IsEmpty, NoBatch
<1>5. /\ owner.sequence = 0 /\ owner.published = 0 /\ owner.acknowledgedCursor = 0
      /\ owner.inFlight = NoFlight /\ ~owner.closing
      /\ helper.cursor = 0 /\ net = {} /\ reply.status = 0
  BY DEF Init, NoReply
<1>6. CoreInv(owner, helper, net) /\ IdleInv(owner, helper)
  BY <1>4, <1>5 DEF CoreInv, QueueInv, FlightInv, NetInv, NumbersInv, IdleInv
<1> QED
  BY <1>3, <1>5, <1>6 DEF IInv, OwnerInv, ReplyInv, ClosedInv, Init

\* A step of an open owner that keeps its invariant keeps IInv.
LEMMA OwnerStep ==
    ASSUME IInv, ~owner.closing, Keeps(owner, owner', helper, net),
           UNCHANGED <<helper, net, reply>>,
           stream' \in Streams, faults' \in Nat
    PROVE  IInv'
<1>1. TypeOK'
  BY DEF IInv, TypeOK, Keeps, Streams
<1>2. OwnerInv(owner, helper, net)' /\ ClosedInv(owner)'
  BY DEF Keeps, ClosedInv
<1>3. ReplyInv'
  BY DEF IInv, ReplyInv, Keeps
<1> QED
  BY <1>1, <1>2, <1>3 DEF IInv

\* A step that only touches the parts of the helper the invariant ignores.
LEMMA HelperStep ==
    ASSUME IInv, UNCHANGED <<owner, net, reply>>, helper' \in HelperRecords,
           helper'.cursor = helper.cursor, helper'.known = helper.known,
           stream' \in Streams, faults' \in Nat
    PROVE  IInv'
<1>1. OwnerInv(owner, helper', net)
  BY HelperFrame DEF IInv
<1> QED
  BY <1>1 DEF IInv, TypeOK, Streams, ReplyInv

\* RetryOrFail keeps the invariant when it consumes the answer.
LEMMA RetryStep ==
    ASSUME IInv, RetryOrFail, owner.inFlight # NoFlight, reply' = NoReply,
           UNCHANGED <<helper, stream>>, faults' \in Nat
    PROVE  IInv'
<1>1. /\ owner \in OwnerRecords /\ helper \in HelperRecords /\ net \in SUBSET Requests
      /\ OwnerInv(owner, helper, net) /\ ClosedInv(owner)
  BY DEF IInv, TypeOK
<1>2. reply'.status = 0 /\ NoReply \in [status : {0, 200, 409, 500, 503}, cursor : Nat]
  BY DEF NoReply
<1>3. CASE owner.inFlight.attempt < RetryAttempts
  <2> DEFINE a == owner.inFlight.attempt + 1
  <2>1. /\ owner' = [owner EXCEPT !.inFlight.attempt = a]
        /\ net' = net \cup {owner'.inFlight}
    BY <1>3 DEF RetryOrFail
  <2>2. a \in 1 .. RetryAttempts
    BY <1>1, <1>3, RetryAttemptsAssumption DEF OwnerRecords, Requests
  <2> HIDE DEF a
  <2>3. /\ owner' \in OwnerRecords /\ owner'.inFlight \in Requests
        /\ OwnerInv(owner', helper, net') /\ ClosedInv(owner')
    BY <1>1, <2>1, <2>2, PostKeeps
  <2> QED
    BY <1>1, <1>2, <2>1, <2>3 DEF IInv, TypeOK, ReplyInv
<1>4. CASE ~(owner.inFlight.attempt < RetryAttempts)
  <2>1. owner' = Fail(owner) /\ net' = net
    BY <1>4 DEF RetryOrFail
  <2>2. /\ owner' \in OwnerRecords /\ OwnerInv(owner', helper, net)
        /\ ClosedInv(owner')
    BY <1>1, <2>1, FailKeeps
  <2> QED
    BY <1>1, <1>2, <2>1, <2>2 DEF IInv, TypeOK, ReplyInv
<1> QED
  BY <1>3, <1>4

LEMMA IngestStep ==
    ASSUME IInv, NEW r \in net, Ingest(r)
    PROVE  IInv'
<1>1. /\ owner \in OwnerRecords /\ helper \in HelperRecords /\ net \in SUBSET Requests
      /\ OwnerInv(owner, helper, net) /\ ClosedInv(owner) /\ r \in Requests
      /\ net' = net \ {r} /\ owner' = owner /\ faults' = faults
  BY DEF IInv, TypeOK, Ingest
<1>2. Proper(r) /\ Sound(helper, r) /\ r.attempt >= 1
  BY <1>1 DEF OwnerInv, CoreInv, NetInv
<1>3. /\ Verdict(helper, r) \in {"install", "duplicate", "checkpoint_required"}
      /\ Verdict(helper, r) = "duplicate" <=>
             helper.known /\ LastSequence(r) <= helper.cursor
  <2>1. ~helper.known => helper.cursor = 0
    BY <1>1 DEF OwnerInv, CoreInv, NumbersInv
  <2> QED
    BY <2>1, <1>1, <1>2, SoundVerdict
<1>4. LastSequence(r) \in Nat /\ helper.cursor \in Nat
  BY <1>1, <1>2, BatchNumbers DEF Requests, HelperRecords
<1>5. r # NoFlight
  BY <1>2 DEF Proper, IsEmpty, NoFlight
<1>6. CASE Verdict(helper, r) = "duplicate"
  <2>1. Answer(r, 200, helper.cursor) /\ UNCHANGED <<helper, stream>>
    BY <1>6 DEF Ingest
  <2>2. OwnerInv(owner, helper, net \ {r})
    BY <1>1, ShrinkNet
  <2>3. CASE r = owner.inFlight
    <3>1. reply' = [status |-> 200, cursor |-> helper.cursor]
      BY <2>1, <2>3 DEF Answer
    <3>2. helper.cursor <= LastSequence(r) /\ LastSequence(r) <= helper.cursor
      BY <1>1, <1>3, <1>5, <1>6, <2>3 DEF OwnerInv, CoreInv, FlightInv
    <3>3. reply' \in [status : {0, 200, 409, 500, 503}, cursor : Nat]
      BY <3>1, <1>4
    <3>4. ReplyInv'
      BY <1>1, <1>2, <1>3, <1>4, <1>5, <1>6, <2>1, <2>3, <3>1, <3>2 DEF ReplyInv
    <3> QED
      BY <1>1, <2>1, <2>2, <3>3, <3>4 DEF IInv, TypeOK
  <2>4. CASE r # owner.inFlight
    <3>1. reply' = reply
      BY <2>1, <2>4 DEF Answer
    <3> QED
      BY <1>1, <2>1, <2>2, <3>1 DEF IInv, TypeOK, ReplyInv
  <2> QED
    BY <2>3, <2>4
<1>7. CASE Verdict(helper, r) = "install"
  <2>1. /\ helper' = Install(helper, r) /\ Answer(r, 200, LastSequence(r))
        /\ \/ stream' = stream
           \/ stream' = Write(stream, Control("checkpoint.requested", 0))
    BY <1>7 DEF Ingest
  <2>5. stream' \in [up : BOOLEAN, controls : Seq(Controls)]
    <3>1. stream \in Streams /\ Control("checkpoint.requested", 0) \in Controls
      BY DEF IInv, TypeOK, Streams, Control, Controls
    <3> QED
      BY <2>1, <3>1, WriteTyped DEF Streams
  <2>2. /\ helper' \in HelperRecords
        /\ helper'.cursor = LastSequence(r) /\ helper'.known
        /\ OwnerInv(owner, helper', net \ {r})
        /\ owner.inFlight # NoFlight => helper.cursor < LastSequence(owner.inFlight)
    BY <1>1, <1>3, <1>7, <2>1, IngestKeeps
  <2>3. CASE r = owner.inFlight
    <3>1. reply' = [status |-> 200, cursor |-> LastSequence(r)]
      BY <2>1, <2>3 DEF Answer
    <3>2. reply' \in [status : {0, 200, 409, 500, 503}, cursor : Nat]
      BY <3>1, <1>4
    <3>3. ReplyInv'
      BY <1>1, <1>2, <1>5, <2>2, <2>3, <3>1 DEF ReplyInv
    <3> QED
      BY <1>1, <2>1, <2>2, <2>5, <3>2, <3>3 DEF IInv, TypeOK
  <2>4. CASE r # owner.inFlight
    <3>1. reply' = reply
      BY <2>1, <2>4 DEF Answer
    <3>2. reply.status # 200
      BY <2>2, <1>4 DEF IInv, ReplyInv
    <3> QED
      BY <1>1, <2>1, <2>2, <2>5, <3>1, <3>2 DEF IInv, TypeOK, ReplyInv
  <2> QED
    BY <2>3, <2>4
<1>8. CASE Verdict(helper, r) = "checkpoint_required"
  <2>1. /\ Answer(r, 409, 0)
        /\ helper' = [helper EXCEPT !.checkpointRequested = TRUE]
        /\ stream' = IF helper.checkpointRequested THEN stream
                     ELSE Write(stream, Control("checkpoint.requested", 0))
    BY <1>8 DEF Ingest
  <2>2. /\ helper' \in HelperRecords /\ helper'.cursor = helper.cursor
        /\ helper'.known = helper.known
    BY <2>1, <1>1 DEF HelperRecords
  <2>3. stream' \in Streams
    <3>1. stream \in Streams /\ Control("checkpoint.requested", 0) \in Controls
      BY DEF IInv, TypeOK, Streams, Control, Controls
    <3> QED
      BY <2>1, <3>1, WriteTyped
  <2>4. OwnerInv(owner, helper', net \ {r})
    BY <1>1, <2>2, ShrinkNet, HelperFrame
  <2>5. /\ reply' \in [status : {0, 200, 409, 500, 503}, cursor : Nat]
        /\ reply'.status = 200 => reply' = reply
        /\ reply' = reply \/ r = owner.inFlight
    BY <2>1 DEF Answer, IInv, TypeOK
  <2>6. ReplyInv'
    BY <1>1, <1>2, <1>5, <2>2, <2>5 DEF IInv, ReplyInv
  <2> QED
    BY <1>1, <2>2, <2>3, <2>4, <2>5, <2>6 DEF IInv, TypeOK, Streams
<1> QED
  BY <1>3, <1>6, <1>7, <1>8

LEMMA TurnAwayStep ==
    ASSUME IInv, NEW r \in net, TurnAway(r)
    PROVE  IInv'
<1>1. OwnerInv(owner, helper, net \ {r})
  BY ShrinkNet DEF IInv
<1>2. /\ net' = net \ {r} /\ UNCHANGED <<owner, helper, stream>>
      /\ faults' \in Nat
      /\ reply' = reply \/ \E s \in {409, 500, 503} :
                               reply' = [status |-> s, cursor |-> 0]
  BY DEF TurnAway, Answer, Fault, IInv, TypeOK
<1>3. /\ reply' \in [status : {0, 200, 409, 500, 503}, cursor : Nat]
      /\ reply'.status = 200 => reply' = reply
  BY <1>2 DEF IInv, TypeOK
<1>4. reply' = reply \/ (owner.inFlight # NoFlight /\ owner.inFlight.attempt >= 1)
  <2>1. Proper(r) /\ r.attempt >= 1
    BY DEF IInv, OwnerInv, CoreInv, NetInv
  <2>2. r # NoFlight
    BY <2>1 DEF Proper, IsEmpty, NoFlight
  <2>3. reply' = reply \/ r = owner.inFlight
    BY DEF TurnAway, Answer
  <2> QED
    BY <2>1, <2>2, <2>3
<1> QED
  BY <1>1, <1>2, <1>3, <1>4 DEF IInv, TypeOK, ReplyInv

\* The handlers of the owner's own events and of its controls, which run only
\* while it is open.
LEMMA OwnerActs ==
    ASSUME IInv, SourceChange \/ TranscriptHistory \/ FlushTimer \/ ReceiveControl
    PROVE  /\ ~owner.closing /\ Keeps(owner, owner', helper, net)
           /\ UNCHANGED <<helper, net, reply>>
           /\ stream' \in Streams /\ faults' \in Nat
<1>a. /\ owner \in OwnerRecords /\ helper \in HelperRecords /\ net \in SUBSET Requests
      /\ OwnerInv(owner, helper, net) /\ ClosedInv(owner)
      /\ stream \in Streams /\ faults \in Nat
      /\ faults + 1 \in Nat
  BY DEF IInv, TypeOK, Streams
<1>c. [up |-> FALSE, controls |-> <<>>] \in Streams
  BY EmptySeq DEF Streams
<1>f. ASSUME ~owner.closing, ~owner.acceptingPublications, owner' = Rejected(owner)
      PROVE  Keeps(owner, owner', helper, net)
  BY <1>a, <1>f, RejectedKeeps
<1>1. CASE SourceChange
  <2> SUFFICES Keeps(owner, owner', helper, net)
    BY <1>1, <1>a DEF SourceChange
  <2>1. CASE owner' = EnqueueCheckpoint(owner)
    BY <2>1, <1>a, EnqueueCheckpointKeeps
  <2>2. CASE owner.acceptingPublications
             /\ \E immediate \in BOOLEAN : owner' = EnqueueEvent(owner, immediate)
    BY <1>1, <2>2, <1>a, EnqueueEventKeeps DEF SourceChange
  <2>3. CASE ~owner.acceptingPublications /\ owner' = Rejected(owner)
    BY <1>1, <2>3, <1>f DEF SourceChange
  <2> QED
    BY <1>1, <2>1, <2>2, <2>3 DEF SourceChange
<1>2. CASE TranscriptHistory
  <2> SUFFICES Keeps(owner, owner', helper, net)
    BY <1>2, <1>a DEF TranscriptHistory
  <2>1. CASE owner.acceptingPublications
    BY <1>2, <2>1, <1>a, EnqueueEventKeeps DEF TranscriptHistory
  <2>2. CASE ~owner.acceptingPublications
    BY <1>2, <2>2, <1>f DEF TranscriptHistory
  <2> QED
    BY <2>1, <2>2
<1>3. CASE FlushTimer
  <2> DEFINE p == [owner EXCEPT !.flushTimer = FALSE]
  <2>1. ~owner.closing
    BY <1>3, <1>a DEF FlushTimer, ClosedInv
  <2>2. /\ p \in OwnerRecords /\ p.sequence = owner.sequence
        /\ p.queued = owner.queued /\ p.inFlight = owner.inFlight
        /\ p.acknowledgedCursor = owner.acknowledgedCursor
        /\ p.published = owner.published /\ p.closing = owner.closing
        /\ p.acceptingPublications = owner.acceptingPublications
    BY <1>a DEF OwnerRecords
  <2>3. owner' = Flush(p)
    BY <1>3 DEF FlushTimer
  <2> HIDE DEF p
  <2>4. Keeps(owner, owner', helper, net)
    <3>1. /\ owner' \in OwnerRecords /\ OwnerInv(owner', helper, net)
          /\ owner.inFlight # NoFlight => owner'.inFlight = owner.inFlight
          /\ owner'.closing = p.closing
      BY <1>a, <2>1, <2>2, <2>3, FlagsFlushKeeps
    <3> QED
      BY <2>2, <3>1 DEF Keeps
  <2> QED
    BY <1>3, <1>a, <2>1, <2>4 DEF FlushTimer
<1>4. CASE ReceiveControl
  <2> DEFINE c == Head(stream.controls)
  <2>1. /\ c \in Controls /\ c.subscribers \in Nat
        /\ [stream EXCEPT !.controls = Tail(@)] \in Streams
    <3>1. stream.controls \in Seq(Controls) /\ stream.controls # <<>>
      BY <1>4, <1>a DEF ReceiveControl, Streams
    <3>2. Head(stream.controls) \in Controls /\ Tail(stream.controls) \in Seq(Controls)
      BY <3>1, HeadTailProperties
    <3> QED
      BY <3>2, <1>a DEF Controls, Streams
  <2>2. ~owner.closing
    BY <1>4 DEF ReceiveControl
  <2> HIDE DEF c
  <2>3. CASE Publishes(owner, c) /\ ~owner.acceptingPublications
    <3> DEFINE resumed == IF c.kind = "hello" THEN Resume(owner) ELSE owner
               d == resumed.demanded \/ c.kind # "checkpoint.requested"
    <3>1. /\ owner' = [Rejected(resumed) EXCEPT !.demanded = d]
          /\ stream' = [up |-> FALSE, controls |-> <<>>]
      <4>1. Rejected(resumed).demanded = resumed.demanded
        <5>1. resumed \in OwnerRecords
          BY <1>a, <2>2, ResumeKeeps DEF Keeps
        <5> QED
          BY <5>1 DEF Rejected, OwnerRecords
      <4> QED
        BY <1>4, <2>3, <4>1 DEF ReceiveControl, c
    <3>2. Keeps(owner, resumed, helper, net) /\ ~resumed.acceptingPublications
      <4>1. Keeps(owner, owner, helper, net)
        BY <1>a DEF Keeps
      <4> QED
        BY <4>1, <1>a, <2>2, <2>3, ResumeKeeps
    <3> HIDE DEF resumed
    <3>3. d \in BOOLEAN
      BY <3>2 DEF Keeps, OwnerRecords
    <3> HIDE DEF d
    <3>4. Keeps(resumed, owner', helper, net)
      BY <1>a, <3>1, <3>2, <3>3, RejectedKeeps DEF Keeps
    <3>5. Keeps(owner, owner', helper, net)
      BY <3>2, <3>4 DEF Keeps
    <3> QED
      BY <1>4, <1>a, <1>c, <2>2, <3>1, <3>5 DEF ReceiveControl
  <2>4. CASE ~Publishes(owner, c) \/ owner.acceptingPublications
    <3>1. /\ stream' = [stream EXCEPT !.controls = Tail(@)]
          /\ \/ owner' = Hello(owner, c.subscribers)
             \/ owner' = SetDemanded(owner, c.subscribers > 0)
             \/ owner' = EnqueueCheckpoint(owner)
             \/ owner' = [owner EXCEPT !.acceptingPublications = FALSE]
      BY <1>4, <2>4 DEF ReceiveControl, c
    <3> SUFFICES Keeps(owner, owner', helper, net)
      BY <1>4, <1>a, <2>1, <2>2, <3>1 DEF ReceiveControl
    <3>2. CASE owner' = Hello(owner, c.subscribers)
      BY <3>2, <1>a, <2>1, <2>2, HelloKeeps
    <3>3. CASE owner' = SetDemanded(owner, c.subscribers > 0)
      <4>1. (c.subscribers > 0) \in BOOLEAN
        OBVIOUS
      <4> QED
        BY <3>3, <4>1, <1>a, SetDemandedKeeps
    <3>4. CASE owner' = EnqueueCheckpoint(owner)
      BY <3>4, <1>a, EnqueueCheckpointKeeps
    <3>5. CASE owner' = [owner EXCEPT !.acceptingPublications = FALSE]
      <4>1. /\ owner' \in OwnerRecords /\ owner'.sequence = owner.sequence
            /\ owner'.queued = owner.queued /\ owner'.inFlight = owner.inFlight
            /\ owner'.published = owner.published
            /\ owner'.acknowledgedCursor = owner.acknowledgedCursor
            /\ owner'.closing = owner.closing /\ ~owner'.acceptingPublications
        BY <1>a, <3>5 DEF OwnerRecords
      <4>2. /\ CoreInv(owner', helper, net)
            /\ IdleInv(owner, helper) => IdleInv(owner', helper)
        BY <1>a, <4>1, Frame DEF OwnerInv, CoreInv, NumbersInv
      <4> QED
        BY <1>a, <4>1, <4>2 DEF Keeps, OwnerInv
    <3> QED
      BY <3>1, <3>2, <3>3, <3>4, <3>5
  <2> QED
    BY <2>3, <2>4
<1> QED
  BY <1>1, <1>2, <1>3, <1>4

LEMMA StepInv == IInv /\ [Next]_vars => IInv'
<1> SUFFICES ASSUME IInv, [Next]_vars PROVE IInv'
  OBVIOUS
<1>a. /\ owner \in OwnerRecords /\ helper \in HelperRecords /\ net \in SUBSET Requests
      /\ OwnerInv(owner, helper, net) /\ ClosedInv(owner)
      /\ stream \in Streams /\ faults \in Nat
      /\ faults + 1 \in Nat
  BY DEF IInv, TypeOK, Streams
<1>c. [up |-> FALSE, controls |-> <<>>] \in Streams
  BY EmptySeq DEF Streams
<1>d. \A k \in {"hello", "demand.changed", "checkpoint.requested", "drain"} :
          \A m \in Nat : Control(k, m) \in Controls
  BY DEF Control, Controls
<1>e. helper.subscribers \in Nat
  BY <1>a DEF HelperRecords
<1>1. CASE SourceChange \/ TranscriptHistory \/ FlushTimer \/ ReceiveControl
  BY <1>1, OwnerActs, OwnerStep
<1>3. CASE Post
  <2>1. /\ owner.inFlight # NoFlight /\ 1 \in 1 .. RetryAttempts
        /\ owner' = [owner EXCEPT !.inFlight.attempt = 1]
        /\ net' = net \cup {owner'.inFlight}
    BY <1>3, RetryAttemptsAssumption DEF Post
  <2>2. /\ owner' \in OwnerRecords /\ owner'.inFlight \in Requests
        /\ OwnerInv(owner', helper, net') /\ ClosedInv(owner')
    BY <1>a, <2>1, PostKeeps
  <2>3. reply = NoReply /\ reply.status # 200
    BY <1>3 DEF IInv, ReplyInv, Post
  <2> QED
    BY <1>3, <1>a, <2>1, <2>2, <2>3 DEF IInv, TypeOK, ReplyInv, Post
<1>4. CASE DetailUploadFails
  <2>1. /\ owner' \in OwnerRecords /\ OwnerInv(owner', helper, net)
        /\ ClosedInv(owner')
    BY <1>4, <1>a, FailKeeps DEF DetailUploadFails
  <2>2. reply = NoReply /\ reply.status # 200
    BY <1>4 DEF IInv, ReplyInv, DetailUploadFails
  <2> QED
    BY <1>4, <1>a, <2>1, <2>2 DEF IInv, TypeOK, ReplyInv, DetailUploadFails, Fault
<1>5. CASE Timeout
  <2>1. owner.inFlight # NoFlight
    BY <1>5 DEF Timeout, NoFlight
  <2>2. faults' \in Nat
    BY <1>5, <1>a DEF Timeout, Fault
  <2> QED
    BY <1>5, <2>1, <2>2, RetryStep DEF Timeout
<1>6. CASE ReceiveReply
  <2>1. CASE reply.status = 200
    <3>1. /\ owner.inFlight # NoFlight /\ helper.known
          /\ LastSequence(owner.inFlight) = helper.cursor
          /\ reply.cursor = helper.cursor
      BY <2>1 DEF IInv, ReplyInv
    <3>2. ~(reply.cursor < owner.acknowledgedCursor)
      <4>1. owner.acknowledgedCursor <= helper.cursor
        BY <1>a DEF OwnerInv, CoreInv, NumbersInv
      <4>2. owner.acknowledgedCursor \in Nat /\ helper.cursor \in Nat
        BY <1>a DEF OwnerRecords, HelperRecords
      <4> QED
        BY <4>1, <4>2, <3>1
    <3>3. owner' = Succeed(owner, helper.cursor) /\ net' = net
      BY <1>6, <2>1, <3>1, <3>2 DEF ReceiveReply
    <3>4. /\ owner' \in OwnerRecords /\ OwnerInv(owner', helper, net)
          /\ ClosedInv(owner')
      BY <1>a, <3>1, <3>3, SucceedKeeps
    <3>5. reply' = NoReply /\ NoReply.status = 0
          /\ NoReply \in [status : {0, 200, 409, 500, 503}, cursor : Nat]
      BY <1>6 DEF ReceiveReply, NoReply
    <3> QED
      BY <1>6, <3>3, <3>4, <3>5 DEF IInv, TypeOK, ReplyInv, ReceiveReply
  <2>2. CASE reply.status # 200 /\ reply.status < 500
    <3>1. owner' = Fail(owner) /\ net' = net
      BY <1>6, <2>2 DEF ReceiveReply
    <3>2. /\ owner' \in OwnerRecords /\ OwnerInv(owner', helper, net)
          /\ ClosedInv(owner')
      BY <1>a, <3>1, FailKeeps
    <3>3. reply' = NoReply /\ NoReply.status = 0
          /\ NoReply \in [status : {0, 200, 409, 500, 503}, cursor : Nat]
      BY <1>6 DEF ReceiveReply, NoReply
    <3> QED
      BY <1>6, <3>1, <3>2, <3>3 DEF IInv, TypeOK, ReplyInv, ReceiveReply
  <2>3. CASE reply.status # 200 /\ ~(reply.status < 500)
    <3>1. RetryOrFail
      BY <1>6, <2>3 DEF ReceiveReply
    <3>2. owner.inFlight # NoFlight /\ faults' = faults
      BY <1>6 DEF ReceiveReply, IInv, ReplyInv
    <3> QED
      BY <1>6, <3>1, <3>2, <1>a, RetryStep DEF ReceiveReply
  <2> QED
    BY <2>1, <2>2, <2>3
<1>7. CASE StreamOpen
  <2>1. StreamPrefix(helper) \in Seq(Controls)
    <3>1. /\ Control("hello", helper.subscribers) \in Controls
          /\ Control("checkpoint.requested", 0) \in Controls
      BY <1>d, <1>e
    <3> QED
      BY <3>1 DEF StreamPrefix
  <2>2. stream' \in Streams
    BY <1>7, <2>1 DEF StreamOpen, Streams
  <2> QED
    BY <1>7, <1>a, <2>2, HelperStep DEF StreamOpen
<1>8. CASE StreamBreak
  BY <1>8, <1>a, <1>c, HelperStep DEF StreamBreak, Fault
<1>10. CASE DemandChanged
  <2>1. PICK m \in 0 .. MaxSubscribers :
            /\ \/ helper' = [helper EXCEPT !.tabs = m, !.subscribers = m]
               \/ helper' = [helper EXCEPT !.tabs = m]
            /\ \/ stream' = Write(stream, Control("demand.changed", m))
               \/ stream' = stream
            /\ faults' \in {faults, faults + 1}
    BY <1>10 DEF DemandChanged, Fault
  <2>2. m \in Nat
    BY MaxSubscribersAssumption
  <2>3. stream' \in Streams
    BY <2>1, <2>2, <1>a, <1>d, WriteTyped
  <2>4. /\ helper' \in HelperRecords /\ helper'.cursor = helper.cursor
        /\ helper'.known = helper.known
    BY <2>1, <2>2, <1>a DEF HelperRecords
  <2> QED
    BY <1>10, <1>a, <2>1, <2>3, <2>4, HelperStep DEF DemandChanged
<1>11. CASE CheckpointNeeded
  <2>1. stream' \in Streams /\ faults' \in {faults, faults + 1}
    BY <1>11, <1>a, <1>d, WriteTyped DEF CheckpointNeeded, Fault
  <2>2. /\ helper' \in HelperRecords /\ helper'.cursor = helper.cursor
        /\ helper'.known = helper.known
    BY <1>11, <1>a DEF CheckpointNeeded, HelperRecords
  <2> QED
    BY <1>11, <1>a, <2>1, <2>2, HelperStep DEF CheckpointNeeded
<1>12. CASE BeginDrain
  <2>1. stream' \in Streams
    BY <1>12, <1>a, <1>d, WriteTyped DEF BeginDrain
  <2>2. /\ helper' \in HelperRecords /\ helper'.cursor = helper.cursor
        /\ helper'.known = helper.known
    BY <1>12, <1>a DEF BeginDrain, HelperRecords
  <2> QED
    BY <1>12, <1>a, <2>1, <2>2, HelperStep DEF BeginDrain
<1>13. CASE CloseOwner
  <2>1. /\ owner' \in OwnerRecords /\ OwnerInv(owner', helper, net)
        /\ owner.inFlight # NoFlight => owner'.inFlight = owner.inFlight
        /\ ClosedInv(owner')
    BY <1>13, <1>a, CloseKeeps DEF CloseOwner
  <2> QED
    BY <1>13, <2>1 DEF IInv, TypeOK, ReplyInv, CloseOwner
<1>14. ASSUME NEW r \in net, LoseRequest(r) \/ Ingest(r) \/ TurnAway(r)
       PROVE  IInv'
  <2>1. CASE LoseRequest(r)
    <3>1. OwnerInv(owner, helper, net \ {r})
      BY <1>a, ShrinkNet
    <3> QED
      BY <2>1, <3>1, <1>a DEF LoseRequest, Fault, IInv, TypeOK, ReplyInv
  <2>2. CASE Ingest(r)
    BY <2>2, IngestStep
  <2>3. CASE TurnAway(r)
    BY <2>3, TurnAwayStep
  <2> QED
    BY <1>14, <2>1, <2>2, <2>3
<1>15. CASE UNCHANGED vars
  BY <1>15 DEF vars, IInv, TypeOK, ReplyInv
<1> QED
  BY <1>1, <1>3, <1>4, <1>5, <1>6, <1>7, <1>8, <1>10, <1>11, <1>12,
     <1>13, <1>14, <1>15 DEF Next

-----------------------------------------------------------------------------
(* A clean close.                                                          *)

\* A flush that leaves nothing in flight found nothing queued.
LEMMA FlushNothing ==
    ASSUME NEW o \in OwnerRecords, Flush(o).inFlight = NoFlight
    PROVE  o.inFlight = NoFlight /\ IsEmpty(o.queued) /\ Flush(o) = o
<1> SUFFICES ASSUME ~(o.inFlight # NoFlight \/ IsEmpty(o.queued)) PROVE FALSE
  BY DEF Flush
<1> DEFINE f == [checkpoint |-> o.queued.checkpoint, events |-> o.queued.events, attempt |-> 0]
<1>1. f \in Requests
  BY RetryAttemptsAssumption DEF OwnerRecords, Batches, Requests
<1>2. f # NoFlight
  BY DEF IsEmpty, NoFlight
<1> HIDE DEF f
<1>3. NoBatch \in Batches
  BY EmptySeq DEF NoBatch, Batches
<1>4. Flush(o) = [o EXCEPT !.inFlight = f, !.queued = NoBatch]
  BY DEF Flush, f
<1>5. Flush(o).inFlight = f
  BY <1>1, <1>3, <1>4 DEF OwnerRecords
<1> QED
  BY <1>2, <1>5

\* The owner after its last publication failed.
LEMMA FailMarks ==
    ASSUME NEW o \in OwnerRecords
    PROVE  Fail(o).publicationError
<1> DEFINE p == [o EXCEPT !.inFlight = NoFlight, !.publicationError = TRUE]
<1>1. p \in OwnerRecords /\ p.publicationError
  <2>1. NoFlight \in Requests
    BY EmptySeq, RetryAttemptsAssumption DEF NoFlight, Requests
  <2> QED
    BY <2>1 DEF OwnerRecords
<1>2. Fail(o) = p \/ Fail(o) = Compact(p)
  BY DEF Fail
<1> HIDE DEF p
<1>3. Compact(p).publicationError = p.publicationError
  BY <1>1 DEF Compact, OwnerRecords
<1> QED
  BY <1>1, <1>2, <1>3

\* A closed transport that is clean has handed over what it took.
LEMMA CleanCloseStep ==
    ASSUME IInv, CleanCloseDeliversAll, [Next]_vars
    PROVE  CleanCloseDeliversAll'
<1> SUFFICES ASSUME owner'.closing, owner'.inFlight = NoFlight, ~owner'.publicationError
             PROVE  helper'.cursor = owner'.published
  BY DEF CleanCloseDeliversAll
<1>1. /\ owner \in OwnerRecords /\ helper \in HelperRecords /\ net \in SUBSET Requests
      /\ OwnerInv(owner, helper, net) /\ ClosedInv(owner) /\ ReplyInv
  BY DEF IInv, TypeOK
<1>2. owner' # Fail(owner)
  BY <1>1, FailMarks
<1>3. CASE CloseOwner
  <2> DEFINE p == [owner EXCEPT !.closing = TRUE, !.acceptingPublications = FALSE,
                               !.flushTimer = FALSE, !.demanded = FALSE]
  <2>1. /\ p \in OwnerRecords /\ p.queued = owner.queued /\ p.inFlight = owner.inFlight
        /\ p.published = owner.published
    BY <1>1 DEF OwnerRecords
  <2>2. owner' = Flush(p) /\ ~owner.closing /\ helper' = helper
    BY <1>3 DEF CloseOwner, Close
  <2> HIDE DEF p
  <2>3. owner.inFlight = NoFlight /\ IsEmpty(owner.queued) /\ owner' = p
    BY <2>1, <2>2, FlushNothing
  <2> QED
    BY <1>1, <2>1, <2>2, <2>3 DEF OwnerInv, IdleInv
<1>4. CASE ReceiveReply /\ reply.status = 200
  <2> DEFINE p == [owner EXCEPT !.inFlight = NoFlight, !.acknowledgedCursor = reply.cursor]
  <2>1. /\ owner.inFlight # NoFlight /\ LastSequence(owner.inFlight) = helper.cursor
        /\ reply.cursor \in Nat
    BY <1>1, <1>4 DEF ReplyInv, IInv, TypeOK
  <2>2. owner' = Flush(p) /\ helper' = helper
    BY <1>2, <1>4 DEF ReceiveReply, Succeed
  <2>3. p \in OwnerRecords /\ p.queued = owner.queued /\ p.published = owner.published
    <3>1. NoFlight \in Requests
      BY EmptySeq, RetryAttemptsAssumption DEF NoFlight, Requests
    <3> QED
      BY <1>1, <2>1, <3>1 DEF OwnerRecords
  <2> HIDE DEF p
  <2>4. IsEmpty(owner.queued) /\ owner' = p
    BY <2>2, <2>3, FlushNothing
  <2> QED
    BY <1>1, <2>1, <2>2, <2>3, <2>4 DEF OwnerInv, CoreInv, FlightInv
<1>5. ASSUME NEW r \in net, Ingest(r)
      PROVE  helper'.cursor = owner'.published
  <2>1. owner' = owner /\ helper.cursor = owner.published
    BY <1>5 DEF Ingest, CleanCloseDeliversAll
  <2>2. /\ Proper(r) /\ Sound(helper, r) /\ LastSequence(r) <= owner.published
        /\ r \in Requests /\ (~helper.known => helper.cursor = 0)
    BY <1>1 DEF OwnerInv, CoreInv, NetInv, NumbersInv
  <2>3. /\ Low(r) \in Nat /\ FirstSequence(r) \in Nat /\ LastSequence(r) \in Nat
        /\ Low(r) <= FirstSequence(r) /\ FirstSequence(r) <= LastSequence(r)
    BY <2>2, BatchNumbers DEF Requests
  <2>4. helper.known /\ LastSequence(r) <= helper.cursor
    BY <1>1, <2>1, <2>2, <2>3 DEF Sound, HelperRecords
  <2>5. Verdict(helper, r) = "duplicate"
    BY <2>4 DEF Verdict
  <2>6. helper' = helper
    BY <1>5, <2>5 DEF Ingest
  <2> QED
    BY <2>1, <2>6
<1>6. CASE owner' = owner /\ helper'.cursor = helper.cursor
  BY <1>6 DEF CleanCloseDeliversAll
<1>7. CASE RetryOrFail /\ owner.inFlight # NoFlight
  <2>1. owner' = [owner EXCEPT !.inFlight.attempt = @ + 1] /\ owner.inFlight.attempt < RetryAttempts
    BY <1>2, <1>7 DEF RetryOrFail
  <2> QED
    BY <1>1, <2>1, RetryAttemptsAssumption DEF OwnerRecords, Requests, NoFlight
<1>8. CASE Post
  BY <1>1, <1>8, RetryAttemptsAssumption DEF Post, OwnerRecords, Requests, NoFlight
<1>9. ~(SourceChange \/ TranscriptHistory \/ FlushTimer \/ ReceiveControl)
  BY OwnerActs DEF Keeps
<1>10. CASE BeginDrain
  BY <1>1, <1>6, <1>10 DEF BeginDrain, HelperRecords
<1>11. CASE Timeout
  BY <1>7, <1>11 DEF Timeout, NoFlight
<1>12. CASE ReceiveReply /\ reply.status # 200
  BY <1>1, <1>2, <1>7, <1>12 DEF ReceiveReply, ReplyInv
<1>13. ASSUME NEW r \in net, LoseRequest(r) \/ TurnAway(r)
       PROVE  helper'.cursor = owner'.published
  BY <1>6, <1>13 DEF LoseRequest, TurnAway
<1>14. CASE StreamOpen \/ StreamBreak \/ UNCHANGED vars
  BY <1>6, <1>14 DEF StreamOpen, StreamBreak, vars
<1>15. ~(DemandChanged \/ CheckpointNeeded)
  BY DEF DemandChanged, CheckpointNeeded, Bounded
<1> QED
  BY <1>2, <1>3, <1>4, <1>5, <1>8, <1>9, <1>10, <1>11, <1>12, <1>13, <1>14, <1>15
  DEF Next, DetailUploadFails

-----------------------------------------------------------------------------
(* Theorems.                                                               *)

LEMMA Inductive == Spec => []IInv
<1>1. Init => IInv
  BY InitInv
<1>2. IInv /\ [Next]_vars => IInv'
  BY StepInv
<1> QED
  BY <1>1, <1>2, PTL DEF Spec

\* Every variable of the publication path keeps its type: the queue, the
\* batch in flight and every request are batches of sequence numbers.
THEOREM TypeCorrect == Spec => []TypeOK
<1>1. IInv => TypeOK
  BY DEF IInv
<1> QED
  BY <1>1, Inductive, PTL

\* Whatever requests are lost, late, duplicated or superseded, ingest of
\* dataPlaneRoutes never refuses one of this transport for its numbers.
THEOREM RequestsNeverRefused == Spec => []NeverRefused
<1>1. IInv => NeverRefused
  <2> SUFFICES ASSUME IInv, NEW r \in net
               PROVE  \/ Verdict(helper, r) \in {"install", "duplicate"}
                      \/ Verdict(helper, r) = "checkpoint_required"
                         /\ FirstSequence(r) = 1
    BY DEF NeverRefused
  <2>1. helper \in HelperRecords /\ r \in Requests /\ Proper(r) /\ Sound(helper, r)
        /\ (~helper.known => helper.cursor = 0)
    BY DEF IInv, TypeOK, OwnerInv, CoreInv, NetInv, NumbersInv
  <2> QED
    BY <2>1, SoundVerdict
<1> QED
  BY <1>1, Inductive, PTL

\* What the transport posts passes the parser of the helper, for every limit
\* of the queue and every number of attempts.
THEOREM PostedBatchesWellFormed == Spec => []BatchesWellFormed
<1>1. IInv => BatchesWellFormed
  <2> SUFFICES ASSUME IInv PROVE BatchesWellFormed
    OBVIOUS
  <2>1. IsEmpty(owner.queued) => WellFormed(owner.queued)
    BY DEF IsEmpty, WellFormed
  <2>2. WellFormed(NoFlight)
    BY DEF NoFlight, WellFormed
  <2> QED
    BY <2>1, <2>2
    DEF BatchesWellFormed, IInv, OwnerInv, CoreInv, QueueInv, FlightInv, NetInv, Proper
<1> QED
  BY <1>1, Inductive, PTL

\* An open transport that has nothing queued and nothing in flight has handed
\* everything over to the helper.
THEOREM IdleTransportCaughtUp == Spec => []IdleMeansCaughtUp
<1>1. IInv => IdleMeansCaughtUp
  BY DEF IInv, OwnerInv, IdleInv, IdleMeansCaughtUp
<1> QED
  BY <1>1, Inductive, PTL

\* The acknowledged cursor never overtakes the helper's, and no answer
\* regresses it.
THEOREM AcknowledgedIngested == Spec => []AcknowledgedIsIngested
<1>1. IInv => AcknowledgedIsIngested
  BY DEF IInv, OwnerInv, CoreInv, NumbersInv, ReplyInv, AcknowledgedIsIngested
<1> QED
  BY <1>1, Inductive, PTL

\* A transport that closed without an error delivered everything that was
\* published before, however its last batches were lost, retried or answered
\* late. (drain, close, publishWithRetry)
THEOREM CleanCloseDelivers == Spec => []CleanCloseDeliversAll
<1>1. Init => CleanCloseDeliversAll
  BY DEF Init, CleanCloseDeliversAll
<1>2. IInv /\ CleanCloseDeliversAll /\ [Next]_vars => CleanCloseDeliversAll'
  BY CleanCloseStep
<1> QED
  BY <1>1, <1>2, Inductive, PTL DEF Spec
=============================================================================
