-------------------------- MODULE CoordinationProofs --------------------------
(***************************************************************************)
(* The small protocols, for every instance of their constants: the edits   *)
(* that queue for files, the requests that queue for a model provider, the *)
(* commands that queue for a terminal, and the callers of the store lock.  *)
(*                                                                         *)
(* Files.  The edits concerned with a path form a line in which everybody  *)
(* waits for another and nobody waits in a circle; the map has the last of *)
(* the line, so it is free only when the line is empty.                    *)
(*                                                                         *)
(* Requests.  drain takes from the queue whoever has only takable requests *)
(* ahead of it, so it stops at a request that cannot be admitted and that  *)
(* nobody precedes; whoever it takes preceded all that stay.               *)
(*                                                                         *)
(* Terminals.  pump ends with an empty queue, with a head that has its     *)
(* ticket, or without room; between two pumps room is only taken.          *)
(*                                                                         *)
(* Store lock.  As long as nobody dies and no live owner is slow to write  *)
(* its file, the directory has one owner and nobody finds reason to remove *)
(* it.  Of two callers whoever dies leaves the other one alone, so that    *)
(* they implement exclusive use.                                           *)
(***************************************************************************)
EXTENDS StoreLock, Coordination, SelectionProofs, FiniteSetTheorems, TLAPS

-----------------------------------------------------------------------------
(* Edits of files.                                                         *)

\* An edit names finitely many paths, so it has a first and a last.
LEMMA NamesAreBounded ==
    ASSUME NEW e \in Edits
    PROVE  \E b \in Nat : \A p \in Files!Names(e) : p <= b
<1> DEFINE w == Wanted[e]
           Bounds(b, n) == \A i \in 1 .. Len(w) : i <= n => w[i] <= b
           bad == {n \in Nat : ~\E b \in Nat : Bounds(b, n)}
<1>1. /\ Len(w) \in Nat /\ DOMAIN w = 1 .. Len(w)
      /\ \A i \in 1 .. Len(w) : w[i] \in Nat
  BY EditsAssumption
<1>2. SUFFICES bad = {}
  <2>1. PICK b \in Nat : Bounds(b, Len(w))
    BY <1>1, <1>2
  <2>2. \A i \in DOMAIN w : w[i] <= b
    BY <1>1, <2>1
  <2> QED
    BY <2>2 DEF Files!Names
<1>3. SUFFICES ASSUME bad # {}
               PROVE  FALSE
  OBVIOUS
<1>4. PICK n \in bad : \A m \in bad : n <= m
  <2>1. bad \in SUBSET Nat
    OBVIOUS
  <2> HIDE DEF bad
  <2> QED
    BY <1>3, <2>1, LeastNumber
<1>5. n # 0
  <2>1. Bounds(0, 0)
    BY <1>1
  <2> QED
    BY <2>1
<1>6. PICK b \in Nat : Bounds(b, n - 1)
  <2>1. n - 1 \in Nat /\ ~(n <= n - 1)
    <3>1. n \in Nat
      BY <1>4
    <3> HIDE DEF bad
    <3> QED
      BY <1>5, <3>1
  <2>2. n - 1 \notin bad
    BY <1>4, <2>1
  <2> QED
    BY <2>1, <2>2
<1>7. CASE n \in 1 .. Len(w)
  <2>1. w[n] \in Nat
    BY <1>1, <1>7
  <2> DEFINE c == b + w[n]
  <2>2. c \in Nat /\ b <= c /\ w[n] <= c
    <3> DEFINE x == w[n]
    <3>1. x \in Nat /\ b \in Nat
      BY <1>6, <2>1
    <3> HIDE DEF x
    <3>2. b + x \in Nat /\ b <= b + x /\ x <= b + x
      BY <3>1
    <3> QED
      BY <3>2 DEF x
  <2> HIDE DEF c
  <2>3. ASSUME NEW i \in 1 .. Len(w), i <= n
        PROVE  w[i] <= c
    <3>1. CASE i = n
      BY <2>2, <3>1
    <3>2. CASE i # n
      <4>1. i <= n - 1
        <5>1. n \in Nat /\ i \in Nat
          BY <1>4
        <5> QED
          BY <2>3, <3>2, <5>1
      <4>2. w[i] \in Nat /\ w[i] <= b
        BY <1>1, <1>6, <4>1
      <4>3. \A x \in Nat : x <= b => x <= c
        <5>1. b \in Nat
          OBVIOUS
        <5> HIDE DEF bad
        <5> QED
          BY <2>2, <5>1
      <4> HIDE DEF w, bad
      <4> QED
        BY <4>2, <4>3
    <3> QED
      BY <3>1, <3>2
  <2>4. Bounds(c, n)
    BY <2>3
  <2> QED
    BY <1>4, <2>2, <2>4
<1>8. CASE n \notin 1 .. Len(w)
  <2>1. ASSUME NEW i \in 1 .. Len(w), i <= n
        PROVE  w[i] <= b
    <3>1. n \in Nat /\ i \in Nat /\ i # n
      BY <1>4, <1>8
    <3>2. i <= n - 1
      BY <2>1, <3>1
    <3> QED
      BY <1>6, <3>2
  <2> QED
    BY <1>4, <2>1
<1> QED
  BY <1>7, <1>8

LEMMA LeastPath ==
    ASSUME NEW e \in Edits, Files!Missing(e) # {}
    PROVE  Files!NextPath(e) \in Files!Missing(e)
<1>1. Files!Missing(e) \in SUBSET Nat
  BY EditsAssumption DEF Files!Missing, Files!Names
<1>2. \E p \in Files!Missing(e) : \A q \in Files!Missing(e) : p <= q
  BY <1>1, LeastNumber
<1> QED
  BY <1>2 DEF Files!NextPath, Files!Min

LEMMA GreatestPath ==
    ASSUME NEW e \in Edits, held[e] \subseteq Files!Names(e), held[e] # {}
    PROVE  Files!LastPath(e) \in held[e]
<1> DEFINE above == {n \in Nat : \A p \in held[e] : p <= n}
<1>1. held[e] \subseteq Nat
  BY EditsAssumption DEF Files!Names
<1>2. above # {}
  BY NamesAreBounded
<1>3. PICK n \in above : \A m \in above : n <= m
  <2>1. above \in SUBSET Nat
    OBVIOUS
  <2> HIDE DEF above
  <2> QED
    BY <1>2, <2>1, LeastNumber
<1>4. n \in held[e]
  <2>1. SUFFICES ASSUME n \notin held[e]
                 PROVE  FALSE
    OBVIOUS
  <2>2. \A p \in held[e] : p <= n - 1
    BY <1>1, <2>1
  <2>3. n - 1 \in Nat
    BY <1>1, <2>2
  <2> QED
    BY <1>3, <2>2, <2>3
<1>5. \E p \in held[e] : \A q \in held[e] : p >= q
  BY <1>1, <1>4
<1> QED
  BY <1>5 DEF Files!LastPath, Files!Max

-----------------------------------------------------------------------------
EditStages == {"idle", "asking", "waiting", "editing", "leaving", "gone"}

FilesTyped ==
    /\ pathLocks \in [Files!Paths -> Edits \cup {NoEdit}]
    /\ stage \in [Edits -> EditStages]
    /\ held \in [Edits -> SUBSET Files!Paths]
    /\ ahead \in [Edits -> Edits \cup {NoEdit}]
    /\ \A e \in Edits : held[e] \subseteq Files!Names(e)
    /\ \A e \in Edits : stage[e] \in {"idle", "gone"} => held[e] = {}
    /\ \A e \in Edits : stage[e] = "waiting" => Files!Missing(e) # {} /\ ahead[e] \in Edits

\* The edits that wait for a path, and all that are concerned with it.
Waiting(p) == {e \in Edits : stage[e] = "waiting" /\ Files!NextPath(e) = p}
Engaged(p) == {e \in Edits : p \in held[e]} \cup Waiting(p)

\* A promise is resolved on the way out, when its edit is done with the path,
\* and the map has promises of engaged edits.
Promises ==
    /\ \A e \in Edits, p \in Files!Paths :
         <<e, p>> \in resolved => stage[e] \in {"leaving", "gone"} /\ e \notin Engaged(p)
    /\ \A p \in Files!Paths : pathLocks[p] # NoEdit => pathLocks[p] \in Engaged(p)

\* The engaged edits of a path form a line: everybody waits for another, the
\* last one is in the map, nobody waits in a circle.
Lined(p) ==
    /\ \A e, d \in Edits : p \in held[e] /\ p \in held[d] => e = d
    /\ \A e \in Edits : e \in Waiting(p) /\ <<ahead[e], p>> \in resolved =>
         \A d \in Edits : p \notin held[d]
                          /\ (d \in Waiting(p) /\ <<ahead[d], p>> \in resolved => d = e)
    /\ \A e, d \in Edits : e \in Waiting(p) /\ d \in Waiting(p) /\ ahead[e] = ahead[d] => e = d
    /\ \A e \in Edits : e \in Waiting(p) =>
         ahead[e] # pathLocks[p] /\ (ahead[e] \in Engaged(p) \/ <<ahead[e], p>> \in resolved)
    /\ pathLocks[p] = NoEdit => \A e \in Edits : e \notin Engaged(p)
    /\ \A S \in SUBSET Edits : S # {} /\ (\A e \in S : e \in Waiting(p)) =>
         \E e \in S : ahead[e] \notin S

FilesInv == FilesTyped /\ Promises /\ \A p \in Files!Paths \ abandoned : Lined(p)

\* A path that an edit asks for or leaves is one of the paths.
LEMMA NamedPaths ==
    ASSUME NEW e \in Edits
    PROVE  /\ Files!Names(e) \subseteq Files!Paths
           /\ Files!Missing(e) # {} => /\ Files!NextPath(e) \in Files!Names(e)
                                       /\ Files!NextPath(e) \notin held[e]
<1>1. Files!Missing(e) # {} => Files!NextPath(e) \in Files!Missing(e)
  BY LeastPath
<1>2. Files!Names(e) \subseteq Files!Paths
  BY DEF Files!Paths
<1> QED
  BY <1>1, <1>2 DEF Files!Missing

\* What an edit does with one path changes nothing at the others.
LEMMA Elsewhere ==
    ASSUME FilesTyped, NEW p \in Files!Paths, Lined(p),
           pathLocks'[p] = pathLocks[p],
           \A d \in Edits : /\ p \in held'[d] <=> p \in held[d]
                            /\ d \in Waiting(p)' <=> d \in Waiting(p)
                            /\ d \in Waiting(p) => ahead'[d] = ahead[d]
                            /\ <<d, p>> \in resolved' <=> <<d, p>> \in resolved
    PROVE  Lined(p)'
<1>1. \A e \in Edits : e \in Waiting(p) => ahead[e] \in Edits
  BY DEF FilesTyped, Waiting
<1>2. \A e \in Edits : e \in Engaged(p)' <=> e \in Engaged(p)
  BY DEF Engaged
<1> HIDE DEF Engaged
<1>3. \A e \in Edits : e \in Waiting(p) /\ <<ahead[e], p>> \in resolved =>
        \A d \in Edits : p \notin held[d]
                         /\ (d \in Waiting(p) /\ <<ahead[d], p>> \in resolved => d = e)
  BY DEF Lined
<1>4. \A S \in SUBSET Edits : S # {} /\ (\A e \in S : e \in Waiting(p)') =>
         \E e \in S : ahead'[e] \notin S
  <2>1. TAKE S \in SUBSET Edits
  <2>2. HAVE S # {} /\ (\A e \in S : e \in Waiting(p)')
  <2>3. \A e \in S : e \in Waiting(p) /\ ahead'[e] = ahead[e]
    BY <2>2
  <2> QED
    BY <2>2, <2>3 DEF Lined
<1> HIDE DEF Waiting
<1> QED
  BY <1>1, <1>2, <1>3, <1>4 DEF Lined

-----------------------------------------------------------------------------
\* The first one at a free path.
LEMMA FirstInLine ==
    ASSUME FilesTyped, NEW e \in Edits, NEW p \in Files!Paths, Lined(p), pathLocks[p] = NoEdit,
           NoEdit \notin Edits, pathLocks'[p] = e, p \in held'[e], e \notin Waiting(p)',
           \A d \in Edits \ {e} : /\ p \in held'[d] <=> p \in held[d]
                                  /\ d \in Waiting(p)' <=> d \in Waiting(p)
    PROVE  Lined(p)'
<1>1. \A d \in Edits : p \notin held[d] /\ d \notin Waiting(p)
  BY DEF Lined, Engaged
<1>2. \A d \in Edits : d \notin Waiting(p)' /\ (p \in held'[d] <=> d = e)
  BY <1>1
<1> HIDE DEF Waiting
<1> QED
  BY <1>2 DEF Lined

\* One more at the end of the line.
LEMMA LastInLine ==
    ASSUME FilesTyped, Promises, NEW e \in Edits, NEW p \in Files!Paths, Lined(p),
           NoEdit \notin Edits, pathLocks[p] # NoEdit, e \notin Engaged(p),
           stage[e] = "asking",
           pathLocks'[p] = e, held' = held, ahead' = [ahead EXCEPT ![e] = pathLocks[p]],
           resolved' = resolved, e \in Waiting(p)',
           \A d \in Edits \ {e} : d \in Waiting(p)' <=> d \in Waiting(p)
    PROVE  Lined(p)'
<1> DEFINE last == pathLocks[p]
<1>1. last \in Edits /\ last \in Engaged(p) /\ last # e
  BY DEF FilesTyped, Promises
<1>2. /\ ahead'[e] = last
      /\ \A d \in Edits \ {e} : ahead'[d] = ahead[d]
  BY DEF FilesTyped
<1>3. \A d \in Edits : d \in Waiting(p) =>
        /\ d # e /\ ahead[d] \in Edits /\ ahead[d] # last
        /\ ahead[d] \in Engaged(p) \/ <<ahead[d], p>> \in resolved
  <2>1. \A d \in Edits : d \in Waiting(p) => ahead[d] \in Edits
    BY DEF FilesTyped, Waiting
  <2> QED
    BY <2>1 DEF Lined, Engaged
<1>4. <<e, p>> \notin resolved /\ <<last, p>> \notin resolved
  BY <1>1 DEF Promises
<1>5. \A d \in Edits : d \in Waiting(p) => ahead[d] # e
  BY <1>3, <1>4
<1>6. \A d \in Edits : p \in held'[d] <=> p \in held[d]
  OBVIOUS
<1>7. p \notin held[e] /\ e \notin Waiting(p)
  BY DEF Engaged
<1>8. \A d \in Edits : d \in Engaged(p)' <=> d \in Engaged(p) \/ d = e
  BY <1>6 DEF Engaged
<1> HIDE DEF last, Waiting, Engaged
<1>9. \A S \in SUBSET Edits : S # {} /\ (\A d \in S : d \in Waiting(p)') =>
         \E d \in S : ahead'[d] \notin S
  <2>1. TAKE S \in SUBSET Edits
  <2>2. HAVE S # {} /\ (\A d \in S : d \in Waiting(p)')
  <2>3. \A d \in S \ {e} : d \in Waiting(p)
    BY <2>2
  <2>4. CASE S \ {e} = {}
    <3>1. S = {e}
      BY <2>2, <2>4
    <3> QED
      BY <1>1, <1>2, <3>1
  <2>5. CASE S \ {e} # {}
    <3>1. PICK d \in S \ {e} : ahead[d] \notin S \ {e}
      <4>1. S \ {e} \in SUBSET Edits
        OBVIOUS
      <4> QED
        BY <2>3, <2>5, <4>1 DEF Lined
    <3>2. ahead[d] # e /\ ahead'[d] = ahead[d]
      BY <1>2, <1>5, <2>3, <3>1
    <3> QED
      BY <3>1, <3>2
  <2> QED
    BY <2>4, <2>5
<1>10. \A d \in Edits : d \in Waiting(p)' /\ <<ahead'[d], p>> \in resolved' =>
         \A k \in Edits : p \notin held'[k]
                          /\ (k \in Waiting(p)' /\ <<ahead'[k], p>> \in resolved' => k = d)
  <2>1. ASSUME NEW d \in Edits, d \in Waiting(p)', <<ahead'[d], p>> \in resolved'
        PROVE  d # e /\ d \in Waiting(p) /\ <<ahead[d], p>> \in resolved
    BY <1>2, <1>4, <2>1
  <2> QED
    BY <1>6, <2>1 DEF Lined
<1>11. \A d, k \in Edits : d \in Waiting(p)' /\ k \in Waiting(p)' /\ ahead'[d] = ahead'[k] => d = k
  <2>1. \A d \in Edits : d \in Waiting(p)' => d = e \/ d \in Waiting(p)
    OBVIOUS
  <2>2. \A d \in Edits \ {e} : d \in Waiting(p)' => ahead'[d] # ahead'[e]
    <3>1. TAKE d \in Edits \ {e}
    <3>2. HAVE d \in Waiting(p)'
    <3>3. d \in Waiting(p) /\ ahead'[d] = ahead[d]
      BY <1>2, <2>1, <3>2
    <3>4. ahead[d] # last
      BY <1>3, <3>3
    <3> QED
      BY <1>2, <3>3, <3>4
  <2>3. \A d, k \in Edits \ {e} : d \in Waiting(p)' /\ k \in Waiting(p)' /\ ahead'[d] = ahead'[k] => d = k
    BY <1>2, <2>1 DEF Lined
  <2> QED
    BY <2>2, <2>3
<1>12. \A d \in Edits : d \in Waiting(p)' =>
         ahead'[d] # e /\ (ahead'[d] \in Engaged(p)' \/ <<ahead'[d], p>> \in resolved')
  BY <1>1, <1>2, <1>3, <1>5, <1>8
<1> QED
  BY <1>6, <1>9, <1>10, <1>11, <1>12 DEF Lined

\* The one whose turn has come takes the path.
LEMMA TurnTaken ==
    ASSUME FilesTyped, NEW e \in Edits, NEW p \in Files!Paths, Lined(p),
           e \in Waiting(p), <<ahead[e], p>> \in resolved,
           NoEdit \notin Edits, pathLocks' = pathLocks, resolved' = resolved,
           ahead' = [ahead EXCEPT ![e] = NoEdit],
           p \in held'[e], e \notin Waiting(p)',
           \A d \in Edits \ {e} : /\ p \in held'[d] <=> p \in held[d]
                                  /\ d \in Waiting(p)' <=> d \in Waiting(p)
    PROVE  Lined(p)'
<1>1. \A d \in Edits : p \notin held[d] /\ (d \in Waiting(p) /\ <<ahead[d], p>> \in resolved => d = e)
  BY DEF Lined
<1>2. \A d \in Edits : p \in held'[d] <=> d = e
  BY <1>1
<1>3. \A d \in Edits : d \in Waiting(p)' <=> d \in Waiting(p) /\ d # e
  OBVIOUS
<1>4. \A d \in Edits : d \in Engaged(p)' <=> d \in Engaged(p)
  BY <1>1, <1>2, <1>3 DEF Engaged
<1>5. \A d \in Edits \ {e} : ahead'[d] = ahead[d]
  BY DEF FilesTyped
<1>6. \A d \in Edits : d \in Waiting(p) => ahead[d] \in Edits
  BY DEF FilesTyped, Waiting
<1> HIDE DEF Waiting, Engaged
<1>7. \A S \in SUBSET Edits : S # {} /\ (\A d \in S : d \in Waiting(p)') =>
         \E d \in S : ahead'[d] \notin S
  <2>1. TAKE S \in SUBSET Edits
  <2>2. HAVE S # {} /\ (\A d \in S : d \in Waiting(p)')
  <2>3. \A d \in S : d \in Waiting(p) /\ ahead'[d] = ahead[d]
    BY <1>3, <1>5, <2>2
  <2>4. PICK d \in S : ahead[d] \notin S
    BY <2>2, <2>3 DEF Lined
  <2> QED
    BY <2>3, <2>4
<1>8. \A d \in Edits : d \in Waiting(p)' => ~(<<ahead'[d], p>> \in resolved')
  BY <1>1, <1>3, <1>5
<1>9. \A d \in Edits : d \in Waiting(p)' =>
         ahead'[d] # pathLocks'[p] /\ (ahead'[d] \in Engaged(p)' \/ <<ahead'[d], p>> \in resolved')
  BY <1>3, <1>4, <1>5, <1>6 DEF Lined
<1>10. pathLocks'[p] = NoEdit => \A d \in Edits : d \notin Engaged(p)'
  BY <1>4 DEF Lined
<1>11. \A d, k \in Edits : d \in Waiting(p)' /\ k \in Waiting(p)' /\ ahead'[d] = ahead'[k] => d = k
  BY <1>3, <1>5 DEF Lined
<1> QED
  BY <1>2, <1>7, <1>8, <1>9, <1>10, <1>11 DEF Lined

\* The holder leaves; if nobody came after it, nobody waits.
LEMMA HolderLeaves ==
    ASSUME FilesTyped, Promises, NEW e \in Edits, NEW p \in Files!Paths, Lined(p),
           NoEdit \notin Edits, p \in held[e], stage[e] = "leaving", ahead' = ahead,
           resolved' = resolved \cup {<<e, p>>},
           pathLocks'[p] = (IF pathLocks[p] = e THEN NoEdit ELSE pathLocks[p]),
           p \notin held'[e],
           \A d \in Edits \ {e} : p \in held'[d] <=> p \in held[d],
           \A d \in Edits : d \in Waiting(p)' <=> d \in Waiting(p)
    PROVE  Lined(p)'
<1>1. \A d \in Edits : p \notin held'[d]
  BY DEF Lined
<1>2. \A d \in Edits : d \in Waiting(p) =>
        /\ ahead[d] \in Edits /\ ahead[d] # pathLocks[p]
        /\ <<ahead[d], p>> \notin resolved /\ ahead[d] \in Engaged(p)
  <2>1. \A d \in Edits : d \in Waiting(p) => ahead[d] \in Edits
    BY DEF FilesTyped, Waiting
  <2>2. \A d \in Edits : d \in Waiting(p) => <<ahead[d], p>> \notin resolved
    BY DEF Lined
  <2> QED
    BY <2>1, <2>2 DEF Lined
<1>3. \A d \in Edits : d \in Engaged(p) => d = e \/ d \in Waiting(p)
  BY DEF Lined, Engaged
<1>4. e \notin Waiting(p)
  BY DEF Waiting
<1>5. \A d \in Edits : d \in Engaged(p)' <=> d \in Waiting(p)
  BY <1>1 DEF Engaged
<1> HIDE DEF Waiting, Engaged
<1>6. pathLocks[p] = e => \A d \in Edits : d \notin Waiting(p)
  <2>1. SUFFICES ASSUME pathLocks[p] = e, \E d \in Edits : d \in Waiting(p)
                 PROVE  FALSE
    OBVIOUS
  <2> DEFINE S == {d \in Edits : d \in Waiting(p)}
  <2>2. S \in SUBSET Edits /\ S # {} /\ \A d \in S : d \in Waiting(p)
    BY <2>1
  <2>3. PICK d \in S : ahead[d] \notin S
    <3> HIDE DEF S
    <3> QED
      BY <2>2 DEF Lined
  <2>4. ahead[d] \in Edits /\ ahead[d] # e /\ ahead[d] \in Engaged(p)
    BY <1>2, <2>1, <2>3
  <2> QED
    BY <1>3, <2>3, <2>4
<1>7. pathLocks'[p] = NoEdit => \A d \in Edits : d \notin Engaged(p)'
  <2>1. CASE pathLocks[p] = e
    BY <1>5, <1>6, <2>1
  <2>2. CASE pathLocks[p] # e
    <3>1. e \in Engaged(p)
      BY DEF Engaged
    <3> QED
      BY <2>2, <3>1 DEF Lined
  <2> QED
    BY <2>1, <2>2
<1>8. \A d \in Edits : d \in Waiting(p)' =>
         ahead'[d] # pathLocks'[p] /\ (ahead'[d] \in Engaged(p)' \/ <<ahead'[d], p>> \in resolved')
  BY <1>2, <1>3, <1>5, <1>6
<1>9. \A d \in Edits : d \in Waiting(p)' /\ <<ahead'[d], p>> \in resolved' =>
         \A k \in Edits : p \notin held'[k]
                          /\ (k \in Waiting(p)' /\ <<ahead'[k], p>> \in resolved' => k = d)
  <2>1. \A d \in Edits : d \in Waiting(p)' /\ <<ahead'[d], p>> \in resolved' =>
          d \in Waiting(p) /\ ahead[d] = e
    BY <1>2
  <2> QED
    BY <1>1, <2>1 DEF Lined
<1>10. \A S \in SUBSET Edits : S # {} /\ (\A d \in S : d \in Waiting(p)') =>
         \E d \in S : ahead'[d] \notin S
  BY DEF Lined
<1>11. \A d, k \in Edits : d \in Waiting(p)' /\ k \in Waiting(p)' /\ ahead'[d] = ahead'[k] => d = k
  BY DEF Lined
<1> QED
  BY <1>1, <1>7, <1>8, <1>9, <1>10, <1>11 DEF Lined

-----------------------------------------------------------------------------
\* The paths are the edits' own, so a step touches one line at most.
LEMMA FilesStep ==
    ASSUME FilesInv, [Files!Next]_(Files!vars)
    PROVE  FilesInv'
<1> USE DEF Files!Goto
<1>1. CASE UNCHANGED Files!vars
  <2>1. /\ UNCHANGED <<pathLocks, resolved, stage, held, ahead, abandoned>>
        /\ \A e \in Edits : (Files!Missing(e))' = Files!Missing(e)
                            /\ (Files!NextPath(e))' = Files!NextPath(e)
    BY <1>1 DEF Files!vars, Files!Missing, Files!NextPath
  <2>2. \A p \in Files!Paths : Waiting(p)' = Waiting(p) /\ Engaged(p)' = Engaged(p)
    BY <2>1 DEF Waiting, Engaged
  <2>3. FilesTyped' /\ Promises'
    BY <2>1, <2>2 DEF FilesInv, FilesTyped, Promises
  <2>4. \A p \in Files!Paths \ abandoned' : Lined(p)'
    BY <2>1, <2>2 DEF FilesInv, Lined
  <2> QED
    BY <2>3, <2>4 DEF FilesInv
<1>2. ASSUME NEW e \in Edits, Files!Begin(e) \/ Files!Step(e) \/ Files!TimeOut(e)
      PROVE  FilesInv'
  <2> USE DEF FilesInv
  \* Only e is anywhere else than before.
  <2> DEFINE q == Files!NextPath(e)
             l == Files!LastPath(e)
  <2>1. \A d \in Edits \ {e} : /\ stage'[d] = stage[d] /\ held'[d] = held[d] /\ ahead'[d] = ahead[d]
                               /\ (Files!Missing(d))' = Files!Missing(d)
                               /\ (Files!NextPath(d))' = Files!NextPath(d)
    <3>1. \A d \in Edits \ {e} : stage'[d] = stage[d] /\ held'[d] = held[d] /\ ahead'[d] = ahead[d]
      BY <1>2 DEF FilesTyped, Files!Begin, Files!Step, Files!Ask, Files!Proceed, Files!Run,
                  Files!Finish, Files!Release, Files!Leave, Files!TimeOut
    <3> QED
      BY <3>1 DEF Files!Missing, Files!NextPath
  <2>2. \A d \in Edits \ {e}, p \in Files!Paths : /\ d \in Waiting(p)' <=> d \in Waiting(p)
                                                  /\ d \in Engaged(p)' <=> d \in Engaged(p)
    BY <2>1 DEF Waiting, Engaged
  \* A move of e that leaves its paths alone.
  <2>3. ASSUME UNCHANGED <<pathLocks, resolved, held, ahead, abandoned>>, NEW s \in EditStages \ {"waiting"},
               stage[e] # "waiting", stage' = [stage EXCEPT ![e] = s],
               s \in {"idle", "gone"} => held[e] = {},
               stage[e] \in {"leaving", "gone"} => s \in {"leaving", "gone"}
        PROVE  FilesInv'
    <3>1. FilesTyped'
      BY <2>1, <2>3 DEF FilesTyped, EditStages
    <3>2. \A p \in Files!Paths : Waiting(p)' = Waiting(p) /\ Engaged(p)' = Engaged(p)
      BY <2>2, <2>3 DEF Waiting, Engaged, FilesTyped
    <3>3. Promises'
      BY <2>1, <2>3, <3>2 DEF Promises, FilesTyped
    <3>4. \A p \in Files!Paths \ abandoned : Lined(p)'
      BY <2>3, <3>2 DEF Lined
    <3> QED
      BY <2>3, <3>1, <3>3, <3>4
  <2>4. CASE Files!Begin(e)
    BY <2>3, <2>4 DEF Files!Begin, EditStages
  <2>5. CASE Files!Run(e)
    BY <2>3, <2>5 DEF Files!Run, EditStages
  <2>6. CASE Files!Finish(e)
    BY <2>3, <2>6 DEF Files!Finish, EditStages
  <2>7. CASE Files!Leave(e)
    BY <2>3, <2>7 DEF Files!Leave, EditStages
  <2>8. CASE Files!Ask(e) /\ pathLocks[q] = NoEdit
    <3>1. /\ stage[e] = "asking" /\ stage' = stage /\ ahead' = ahead
          /\ resolved' = resolved /\ abandoned' = abandoned
          /\ pathLocks' = [pathLocks EXCEPT ![q] = e]
          /\ held' = [held EXCEPT ![e] = @ \cup {q}]
      BY <2>8 DEF Files!Ask
    <3>2. q \in Files!Names(e) /\ q \in Files!Paths /\ q \notin held[e]
      BY <2>8, NamedPaths DEF Files!Ask
    <3> HIDE DEF q
    <3>3. FilesTyped'
      BY <2>1, <3>1, <3>2 DEF FilesTyped, EditStages
    <3>4. \A p \in Files!Paths : e \notin Waiting(p) /\ e \notin Waiting(p)'
      BY <3>1 DEF Waiting
    <3>5. /\ held'[e] = held[e] \cup {q}
          /\ \A p \in Files!Paths : /\ e \in Engaged(p)' <=> p \in held'[e]
                                    /\ e \in Engaged(p) <=> p \in held[e]
      BY <3>1, <3>4 DEF Engaged, FilesTyped
    <3>6. /\ pathLocks'[q] = e
          /\ \A p \in Files!Paths \ {q} : pathLocks'[p] = pathLocks[p]
      BY <3>1, <3>2 DEF FilesTyped
    <3>7. Promises'
      BY <2>1, <2>2, <3>1, <3>2, <3>5, <3>6 DEF Promises, FilesTyped
    <3>8. ASSUME NEW p \in Files!Paths \ abandoned
          PROVE  Lined(p)'
      <4>1. CASE p = q
        BY <2>1, <2>2, <2>8, <3>2, <3>4, <3>5, <3>6, <4>1, FirstInLine, EditsAssumption
      <4>2. CASE p # q
        BY <2>1, <2>2, <3>1, <3>4, <3>5, <3>6, <4>2, Elsewhere
      <4> QED
        BY <4>1, <4>2
    <3> QED
      BY <3>1, <3>3, <3>7, <3>8
  <2>9. CASE Files!Ask(e) /\ pathLocks[q] # NoEdit
    <3>1. /\ stage[e] = "asking" /\ stage' = [stage EXCEPT ![e] = "waiting"]
          /\ ahead' = [ahead EXCEPT ![e] = pathLocks[q]]
          /\ resolved' = resolved /\ abandoned' = abandoned /\ held' = held
          /\ pathLocks' = [pathLocks EXCEPT ![q] = e]
          /\ Files!Missing(e) # {}
      BY <2>9 DEF Files!Ask
    <3>2. q \in Files!Names(e) /\ q \in Files!Paths /\ q \notin held[e]
      BY <2>9, NamedPaths DEF Files!Ask
    <3>3. (Files!Missing(e))' = Files!Missing(e) /\ (Files!NextPath(e))' = q
      BY <3>1 DEF Files!Missing, Files!NextPath
    <3> HIDE DEF q
    <3>4. pathLocks[q] \in Edits
      BY <2>9, <3>2 DEF FilesTyped
    <3>5. FilesTyped'
      <4>1. \A d \in Edits : stage'[d] = "waiting" => (Files!Missing(d))' # {} /\ ahead'[d] \in Edits
        BY <2>1, <3>1, <3>3, <3>4 DEF FilesTyped
      <4> QED
        BY <2>1, <3>1, <3>2, <3>4, <4>1 DEF FilesTyped, EditStages
    <3>6. \A p \in Files!Paths : e \notin Waiting(p) /\ (e \in Waiting(p)' <=> p = q)
      BY <3>1, <3>3 DEF Waiting, FilesTyped
    <3>7. \A p \in Files!Paths : /\ e \in Engaged(p)' <=> p \in held[e] \/ p = q
                                 /\ e \in Engaged(p) <=> p \in held[e]
      BY <3>1, <3>6 DEF Engaged, FilesTyped
    <3>8. /\ pathLocks'[q] = e
          /\ \A p \in Files!Paths \ {q} : pathLocks'[p] = pathLocks[p]
      BY <3>1, <3>2 DEF FilesTyped
    <3>9. Promises'
      BY <2>1, <2>2, <3>1, <3>2, <3>7, <3>8 DEF Promises, FilesTyped
    <3>10. ASSUME NEW p \in Files!Paths \ abandoned
           PROVE  Lined(p)'
      <4>1. CASE p = q
        BY <2>2, <2>9, <3>1, <3>2, <3>6, <3>7, <3>8, <4>1, LastInLine, EditsAssumption
      <4>2. CASE p # q
        BY <2>1, <2>2, <3>1, <3>6, <3>7, <3>8, <4>2, Elsewhere
      <4> QED
        BY <4>1, <4>2
    <3> QED
      BY <3>1, <3>5, <3>9, <3>10
  <2>10. CASE Files!Proceed(e)
    <3>1. /\ stage[e] = "waiting" /\ stage' = [stage EXCEPT ![e] = "asking"]
          /\ <<ahead[e], q>> \in resolved
          /\ ahead' = [ahead EXCEPT ![e] = NoEdit]
          /\ resolved' = resolved /\ abandoned' = abandoned /\ pathLocks' = pathLocks
          /\ held' = [held EXCEPT ![e] = @ \cup {q}]
      BY <2>10 DEF Files!Proceed
    <3>2. q \in Files!Names(e) /\ q \in Files!Paths /\ q \notin held[e]
      BY <3>1, NamedPaths DEF FilesTyped
    <3>3. \A p \in Files!Paths : (e \in Waiting(p) <=> p = q) /\ e \notin Waiting(p)'
      BY <3>1 DEF Waiting, FilesTyped
    <3> HIDE DEF q
    <3>4. FilesTyped'
      BY <2>1, <3>1, <3>2 DEF FilesTyped, EditStages
    <3>5. /\ held'[e] = held[e] \cup {q}
          /\ \A p \in Files!Paths : e \in Engaged(p)' <=> e \in Engaged(p)
      BY <3>1, <3>3 DEF Engaged, FilesTyped
    <3>6. Promises'
      BY <2>1, <2>2, <3>1, <3>5 DEF Promises, FilesTyped
    <3>7. ASSUME NEW p \in Files!Paths \ abandoned
          PROVE  Lined(p)'
      <4>1. CASE p = q
        BY <2>1, <2>2, <3>1, <3>2, <3>3, <3>5, <4>1, TurnTaken, EditsAssumption
      <4>2. CASE p # q
        BY <2>1, <2>2, <3>1, <3>3, <3>5, <4>2, Elsewhere
      <4> QED
        BY <4>1, <4>2
    <3> QED
      BY <3>1, <3>4, <3>6, <3>7
  <2>11. CASE Files!Release(e)
    <3>1. /\ stage[e] = "leaving" /\ stage' = stage /\ ahead' = ahead /\ abandoned' = abandoned
          /\ resolved' = resolved \cup {<<e, l>>}
          /\ pathLocks' = (IF pathLocks[l] = e THEN [pathLocks EXCEPT ![l] = NoEdit] ELSE pathLocks)
          /\ held' = [held EXCEPT ![e] = @ \ {l}]
      BY <2>11 DEF Files!Release, Files!Resolves
    <3>2. l \in held[e] /\ l \in Files!Paths
      BY <2>11, GreatestPath DEF Files!Release, FilesTyped
    <3> HIDE DEF l
    <3>3. FilesTyped'
      <4>1. pathLocks' \in [Files!Paths -> Edits \cup {NoEdit}]
        BY <3>1, <3>2 DEF FilesTyped
      <4>2. \A d \in Edits : held'[d] \subseteq held[d]
        BY <2>1, <3>1 DEF FilesTyped
      <4> QED
        BY <2>1, <3>1, <4>1, <4>2 DEF FilesTyped, EditStages
    <3>4. \A p \in Files!Paths : e \notin Waiting(p) /\ e \notin Waiting(p)'
      BY <3>1 DEF Waiting
    <3>5. /\ held'[e] = held[e] \ {l}
          /\ \A p \in Files!Paths : /\ e \in Engaged(p)' <=> p \in held'[e]
                                    /\ e \in Engaged(p) <=> p \in held[e]
      BY <3>1, <3>4 DEF Engaged, FilesTyped
    <3>6. /\ pathLocks'[l] = (IF pathLocks[l] = e THEN NoEdit ELSE pathLocks[l])
          /\ \A p \in Files!Paths \ {l} : pathLocks'[p] = pathLocks[p]
      BY <3>1, <3>2 DEF FilesTyped
    <3>7. Promises'
      <4>1. \A d \in Edits, p \in Files!Paths : <<d, p>> \in resolved' =>
              <<d, p>> \in resolved \/ (d = e /\ p = l)
        BY <3>1
      <4>2. \A p \in Files!Paths : pathLocks'[p] # NoEdit =>
              pathLocks'[p] = pathLocks[p] /\ (p = l => pathLocks[p] # e)
        BY <3>6
      <4> QED
        BY <2>1, <2>2, <3>1, <3>5, <4>1, <4>2 DEF Promises, FilesTyped
    <3>8. ASSUME NEW p \in Files!Paths \ abandoned
          PROVE  Lined(p)'
      <4>1. CASE p = l
        BY <2>1, <2>2, <3>1, <3>2, <3>4, <3>5, <3>6, <4>1, HolderLeaves, EditsAssumption
      <4>2. CASE p # l
        BY <2>1, <2>2, <3>1, <3>4, <3>5, <3>6, <4>2, Elsewhere
      <4> QED
        BY <4>1, <4>2
    <3> QED
      BY <3>1, <3>3, <3>7, <3>8
  <2>12. CASE Files!TimeOut(e)
    <3>1. /\ stage[e] = "waiting" /\ stage' = [stage EXCEPT ![e] = "leaving"] /\ held' = held
          /\ ahead' = [ahead EXCEPT ![e] = NoEdit] /\ abandoned' = abandoned \cup {q}
          /\ resolved' = resolved \cup {<<e, q>>}
          /\ pathLocks' = (IF pathLocks[q] = e THEN [pathLocks EXCEPT ![q] = NoEdit] ELSE pathLocks)
      BY <2>12 DEF Files!TimeOut, Files!Resolves
    <3>2. q \in Files!Names(e) /\ q \in Files!Paths /\ q \notin held[e]
      BY <3>1, NamedPaths DEF FilesTyped
    <3>3. \A p \in Files!Paths : (e \in Waiting(p) <=> p = q) /\ e \notin Waiting(p)'
      BY <3>1 DEF Waiting, FilesTyped
    <3> HIDE DEF q
    <3>4. FilesTyped'
      <4>1. pathLocks' \in [Files!Paths -> Edits \cup {NoEdit}]
        BY <3>1, <3>2 DEF FilesTyped
      <4> QED
        BY <2>1, <3>1, <4>1 DEF FilesTyped, EditStages
    <3>5. \A p \in Files!Paths : /\ e \in Engaged(p)' <=> p \in held[e]
                                 /\ e \in Engaged(p) <=> p \in held[e] \/ p = q
      BY <3>1, <3>3 DEF Engaged
    <3>6. /\ pathLocks'[q] = (IF pathLocks[q] = e THEN NoEdit ELSE pathLocks[q])
          /\ \A p \in Files!Paths \ {q} : pathLocks'[p] = pathLocks[p]
      BY <3>1, <3>2 DEF FilesTyped
    <3>7. Promises'
      <4>1. \A d \in Edits, p \in Files!Paths : <<d, p>> \in resolved' =>
              <<d, p>> \in resolved \/ (d = e /\ p = q)
        BY <3>1
      <4>2. \A p \in Files!Paths : pathLocks'[p] # NoEdit =>
              pathLocks'[p] = pathLocks[p] /\ (p = q => pathLocks[p] # e)
        BY <3>6
      <4>3. stage'[e] = "leaving"
        BY <3>1 DEF FilesTyped
      <4> QED
        BY <2>1, <2>2, <3>2, <3>5, <4>1, <4>2, <4>3 DEF Promises, FilesTyped
    <3>8. ASSUME NEW p \in Files!Paths \ abandoned'
          PROVE  Lined(p)'
      <4>1. p # q /\ p \notin abandoned
        BY <3>1
      <4> QED
        BY <2>1, <2>2, <3>1, <3>3, <3>6, <4>1, Elsewhere
    <3> QED
      BY <3>4, <3>7, <3>8
  <2> QED
    BY <1>2, <2>4, <2>5, <2>6, <2>7, <2>8, <2>9, <2>10, <2>11, <2>12 DEF Files!Step
<1> QED
  BY <1>1, <1>2 DEF Files!Next

LEMMA FilesInvariance ==
    Files!Spec => []FilesInv
<1>1. Files!Init => FilesInv
  BY DEF Files!Init, FilesInv, FilesTyped, Promises, Lined, Engaged, Waiting, EditStages
<1>2. FilesInv /\ [Files!Next]_(Files!vars) => FilesInv'
  BY FilesStep
<1> QED
  BY <1>1, <1>2, PTL DEF Files!Spec

\* Two edits never hold one path together unless a waiting edit gave up on it.
\* (withFileLock)
THEOREM OneAtATime ==
    Files!Spec => []OneEditPerPath
<1>1. FilesInv => Files!OneEditPerPath
  BY DEF FilesInv, Lined, Files!OneEditPerPath
<1> QED
  BY <1>1, FilesInvariance, PTL DEF OneEditPerPath

\* When no edit is under way the map is empty, also after edits that gave up.
\* (withFileLock)
THEOREM MapEmpties ==
    Files!Spec => []NothingLeftLocked
<1>1. FilesInv => Files!NothingLeftLocked
  BY DEF FilesInv, FilesTyped, Promises, Engaged, Waiting, Files!NothingLeftLocked
<1> QED
  BY <1>1, FilesInvariance, PTL DEF NothingLeftLocked

-----------------------------------------------------------------------------
(* Model requests of one provider.                                         *)

\* What the scheduler takes from the libraries is what their lemmas are about.
LEMMA SizeIsOne ==
    \A S : Model!Cardinality(S) = Cardinality(S)
BY DEF Model!Cardinality, Cardinality

LEMMA SelectionIsOne ==
    ASSUME NEW s, NEW I
    PROVE  Model!Selected(s, I) = Selected(s, I)
BY DEF Model!Selected, Selected

\* A queue without repetition.
Line(q) ==
    /\ q \in Seq(Requests)
    /\ \A i, j \in 1 .. Len(q) : q[i] = q[j] => i = j

LEMMA LinePositions ==
    ASSUME NEW q, Line(q), NEW r \in Model!Queued(q)
    PROVE  /\ Model!Position(r, q) \in 1 .. Len(q) /\ q[Model!Position(r, q)] = r
           /\ r \in Requests
<1>1. DOMAIN q = 1 .. Len(q)
  BY DEF Line
<1>2. \E i \in DOMAIN q : q[i] = r
  BY DEF Model!Queued
<1>3. Model!Position(r, q) \in DOMAIN q /\ q[Model!Position(r, q)] = r
  BY <1>2 DEF Model!Position
<1> QED
  BY <1>1, <1>3 DEF Line

LEMMA LineWithout ==
    ASSUME NEW q, Line(q), NEW gone
    PROVE  /\ Line(Model!Without(q, gone))
           /\ Model!Queued(Model!Without(q, gone)) = Model!Queued(q) \ gone
<1> DEFINE I == {i \in DOMAIN q : q[i] \notin gone}
           r == Model!Without(q, gone)
<1>1. q \in Seq(Requests) /\ DOMAIN q = 1 .. Len(q) /\ I \in SUBSET (1 .. Len(q))
  BY DEF Line
<1>2. r = Selected(q, I)
  BY SelectionIsOne DEF Model!Without
<1>3. r \in Seq(Requests) /\ \E h : Places(h, r, q, I)
  BY <1>1, <1>2, SelectedPlaces
<1>4. PICK h : Places(h, r, q, I)
  BY <1>3
<1> HIDE DEF r
<1>5. /\ \A i \in 1 .. Len(r) : h[i] \in I /\ r[i] = q[h[i]]
      /\ \A k \in I : \E i \in 1 .. Len(r) : h[i] = k
      /\ \A i, j \in 1 .. Len(r) : h[i] = h[j] => i = j
  <2>1. \A i \in 1 .. Len(r) : h[i] \in I /\ r[i] = q[h[i]]
    BY <1>4 DEF Places
  <2>2. \A k \in I : \E i \in 1 .. Len(r) : h[i] = k
    BY <1>4 DEF Places
  <2>3. ASSUME NEW i \in 1 .. Len(r), NEW j \in 1 .. Len(r), h[i] = h[j]
        PROVE  i = j
    <3>1. h[i] \in Nat /\ h[j] \in Nat
      BY <1>1, <2>1
    <3>2. (i < j => h[i] < h[j]) /\ (j < i => h[j] < h[i])
      BY <1>4 DEF Places
    <3> QED
      BY <1>3, <2>3, <3>1, <3>2
  <2> QED
    BY <2>1, <2>2, <2>3
<1>6. Line(r)
  <2>1. ASSUME NEW i \in 1 .. Len(r), NEW j \in 1 .. Len(r), r[i] = r[j]
        PROVE  i = j
    <3>1. q[h[i]] = q[h[j]] /\ h[i] \in 1 .. Len(q) /\ h[j] \in 1 .. Len(q)
      BY <1>1, <1>5, <2>1
    <3>2. h[i] = h[j]
      BY <3>1 DEF Line
    <3> QED
      BY <1>5, <3>2
  <2> QED
    BY <1>3, <2>1 DEF Line
<1>7. DOMAIN r = 1 .. Len(r)
  BY <1>3
<1>8. ASSUME NEW x
      PROVE  x \in Model!Queued(r) <=> x \in Model!Queued(q) \ gone
  <2>1. x \in Model!Queued(r) <=> \E i \in 1 .. Len(r) : x = r[i]
    BY <1>7 DEF Model!Queued
  <2>2. x \in Model!Queued(q) \ gone <=> \E k \in I : x = q[k]
    BY DEF Model!Queued
  <2> QED
    BY <1>5, <2>1, <2>2
<1> QED
  BY <1>6, <1>8 DEF r

LEMMA LineAppend ==
    ASSUME NEW q, Line(q), NEW r \in Requests, r \notin Model!Queued(q)
    PROVE  Line(Append(q, r)) /\ Model!Queued(Append(q, r)) = Model!Queued(q) \cup {r}
<1> DEFINE s == Append(q, r)
<1>1. /\ q \in Seq(Requests) /\ s \in Seq(Requests) /\ Len(s) = Len(q) + 1 /\ Len(q) \in Nat
      /\ s[Len(q) + 1] = r /\ \A i \in 1 .. Len(q) : s[i] = q[i]
  BY DEF Line
<1>2. DOMAIN q = 1 .. Len(q) /\ DOMAIN s = 1 .. Len(q) + 1
  BY <1>1
<1> HIDE DEF s
<1>3. \A i \in 1 .. Len(q) : q[i] # r
  BY <1>2 DEF Model!Queued
<1>4. ASSUME NEW i \in 1 .. Len(s), NEW j \in 1 .. Len(s), s[i] = s[j]
      PROVE  i = j
  <2>1. \A n \in 1 .. Len(s) : n \in 1 .. Len(q) \/ n = Len(q) + 1
    BY <1>1
  <2> QED
    BY <1>1, <1>3, <1>4, <2>1 DEF Line
<1>5. Model!Queued(s) = Model!Queued(q) \cup {r}
  <2>1. \A n \in 1 .. Len(q) + 1 : n \in 1 .. Len(q) \/ n = Len(q) + 1
    BY <1>1
  <2>2. Len(q) + 1 \in 1 .. Len(q) + 1 /\ \A n \in 1 .. Len(q) : n \in 1 .. Len(q) + 1
    BY <1>1
  <2> QED
    BY <1>1, <1>2, <2>1, <2>2 DEF Model!Queued
<1> QED
  BY <1>1, <1>4, <1>5 DEF Line, s

LEMMA LineIsFinite ==
    ASSUME NEW q, Line(q)
    PROVE  IsFiniteSet(Model!Queued(q))
<1>1. q \in [1 .. Len(q) -> Model!Queued(q)] /\ Len(q) \in Nat
  BY DEF Line, Model!Queued
<1>2. q \in Surjection(1 .. Len(q), Model!Queued(q))
  BY <1>1 DEF Surjection, Model!Queued
<1>3. IsFiniteSet(1 .. Len(q))
  BY <1>1, FS_Interval
<1> QED
  BY <1>2, <1>3, FS_Surjection

-----------------------------------------------------------------------------
\* The order in which drain looks at the queue.
Rank(r) ==
    IF Priority[r] = "interactive" THEN 0 ELSE IF Priority[r] = "background" THEN 1 ELSE 2

\* A queue with nobody in it is empty.
LEMMA NobodyQueued ==
    ASSUME NEW q, Line(q), Model!Queued(q) = {}
    PROVE  q = <<>>
<1>1. q \in Seq(Requests) /\ DOMAIN q = 1 .. Len(q) /\ Len(q) \in Nat
  BY DEF Line
<1>2. Len(q) = 0
  <2>1. ASSUME Len(q) # 0
        PROVE  q[1] \in Model!Queued(q)
    <3>1. 1 \in DOMAIN q
      BY <1>1, <2>1
    <3> QED
      BY <3>1 DEF Model!Queued
  <2> QED
    BY <2>1
<1> QED
  BY <1>1, <1>2

LEMMA Ranks ==
    ASSUME NEW r \in Requests, NEW k \in Requests
    PROVE  /\ Rank(r) \in Nat
           /\ Model!Before(r, k) <=> Rank(r) < Rank(k)
           /\ Priority[r] = Priority[k] <=> Rank(r) = Rank(k)
           /\ r \in Model!Of("maintenance") <=> Rank(r) = 2
           /\ Rank(r) <= 2
<1>1. /\ Priority[r] \in {"interactive", "background", "maintenance"}
      /\ Priority[k] \in {"interactive", "background", "maintenance"}
  BY SchedulerAssumption
<1> QED
  BY <1>1 DEF Rank, Model!Before, Model!Of

LEMMA AheadMeans ==
    ASSUME NEW q, Line(q), NEW r \in Model!Queued(q), NEW k \in Model!Queued(q)
    PROVE  k \in Model!Ahead(r, q) <=>
             Rank(k) < Rank(r) \/ (Rank(k) = Rank(r) /\ Model!Position(k, q) < Model!Position(r, q))
  BY LinePositions, Ranks DEF Model!Ahead

LEMMA AheadOrder ==
    ASSUME NEW q, Line(q)
    PROVE  /\ \A r, k, j \in Model!Queued(q) :
                j \in Model!Ahead(k, q) /\ k \in Model!Ahead(r, q) => j \in Model!Ahead(r, q)
           /\ \A r, k \in Model!Queued(q) : r = k \/ r \in Model!Ahead(k, q) \/ k \in Model!Ahead(r, q)
<1>1. \A r \in Model!Queued(q) : Rank(r) \in Nat /\ Model!Position(r, q) \in Nat /\ q[Model!Position(r, q)] = r
  BY LinePositions, Ranks DEF Line
<1> QED
  BY <1>1, AheadMeans

\* Of those in a queue, one comes first.
LEMMA FirstOf ==
    ASSUME NEW q, Line(q), NEW S \in SUBSET Model!Queued(q), S # {}
    PROVE  \E r \in S : Model!Ahead(r, q) \cap S = {}
<1>1. \A r \in S : Rank(r) \in Nat /\ Model!Position(r, q) \in Nat
  BY LinePositions, Ranks DEF Line
<1> DEFINE ranks == {Rank(r) : r \in S}
<1>2. \E n \in ranks : \A m \in ranks : n <= m
  <2>1. ranks \in SUBSET Nat
    BY <1>1
  <2>2. ranks # {}
    OBVIOUS
  <2> HIDE DEF ranks
  <2> QED
    BY <2>1, <2>2, LeastNumber
<1>3. PICK a \in S : \A r \in S : Rank(a) <= Rank(r)
  BY <1>2
<1> DEFINE peers == {r \in S : Rank(r) = Rank(a)}
           places == {Model!Position(r, q) : r \in peers}
<1>4. \E n \in places : \A m \in places : n <= m
  <2>1. places \in SUBSET Nat /\ Model!Position(a, q) \in places
    BY <1>1
  <2> QED
    BY <2>1, LeastNumber
<1>5. PICK r \in peers : \A k \in peers : Model!Position(r, q) <= Model!Position(k, q)
  BY <1>4
<1>6. \A k \in S : k \notin Model!Ahead(r, q)
  BY <1>1, <1>3, <1>5, AheadMeans
<1> QED
  BY <1>6

-----------------------------------------------------------------------------
\* drain stops at an empty queue or at one that it cannot admit, and nobody
\* is ahead of that one any more.
LEMMA TakenStops ==
    ASSUME NEW q, Line(q), NEW current, NEW max,
           Model!Queued(q) \ Model!Taken(current, q, max) # {}
    PROVE  \E r \in Model!Queued(q) \ Model!Taken(current, q, max) :
             /\ ~Model!CanAdmit(r, current \cup (Model!Taken(current, q, max) \ aborted),
                          Model!Queued(q) \ Model!Taken(current, q, max), max)
             /\ \A k \in Model!Queued(q) \ Model!Taken(current, q, max) : ~Model!Before(k, r)
<1> DEFINE T == Model!Taken(current, q, max)
           Admits(k) == Model!CanAdmit(k, current \cup (Model!Ahead(k, q) \ aborted),
                                 Model!Queued(q) \ Model!Ahead(k, q), max)
<1>1. \A r : r \in T <=> r \in Model!Queued(q) /\ \A k \in Model!Ahead(r, q) \cup {r} : Admits(k)
  BY DEF Model!Taken
<1>2. \A r : Model!Ahead(r, q) \subseteq Model!Queued(q)
  BY DEF Model!Ahead
<1> HIDE DEF T, Admits
<1>3. PICK r \in Model!Queued(q) \ T : Model!Ahead(r, q) \cap (Model!Queued(q) \ T) = {}
  <2>1. Model!Queued(q) \ T # {}
    BY DEF T
  <2> QED
    BY <2>1, FirstOf
<1>4. Model!Ahead(r, q) \subseteq T
  BY <1>2, <1>3
<1>5. ~Admits(r)
  BY <1>1, <1>3, <1>4
<1>6. T \subseteq Model!Ahead(r, q)
  <2>1. ASSUME NEW t \in T, t \notin Model!Ahead(r, q)
        PROVE  FALSE
    <3>1. t \in Model!Queued(q) /\ t # r
      BY <1>1, <1>3, <2>1
    <3>2. r \in Model!Ahead(t, q)
      BY <1>3, <2>1, <3>1, AheadOrder
    <3> QED
      BY <1>1, <1>5, <2>1, <3>2
  <2> QED
    BY <2>1
<1>7. T = Model!Ahead(r, q)
  BY <1>4, <1>6
<1>8. ~Model!CanAdmit(r, current \cup (T \ aborted), Model!Queued(q) \ T, max)
  BY <1>5, <1>7 DEF Admits
<1>9. ASSUME NEW k \in Model!Queued(q) \ T, Model!Before(k, r)
      PROVE  FALSE
  <2>1. k \in Model!Ahead(r, q)
    BY <1>9 DEF Model!Ahead
  <2> QED
    BY <1>7, <1>9, <2>1
<1> QED
  BY <1>3, <1>8, <1>9 DEF T

\* Whoever is taken was ahead of all that stay.
LEMMA TakenFirst ==
    ASSUME NEW q, Line(q), NEW current, NEW max,
           NEW r \in Model!Taken(current, q, max),
           NEW k \in Model!Queued(q) \ Model!Taken(current, q, max)
    PROVE  r \in Model!Ahead(k, q)
<1> DEFINE Admits(j) == Model!CanAdmit(j, current \cup (Model!Ahead(j, q) \ aborted),
                                 Model!Queued(q) \ Model!Ahead(j, q), max)
<1>1. \A j : j \in Model!Taken(current, q, max) <=>
               j \in Model!Queued(q) /\ \A i \in Model!Ahead(j, q) \cup {j} : Admits(i)
  BY DEF Model!Taken
<1>2. \A j : Model!Ahead(j, q) \subseteq Model!Queued(q)
  BY DEF Model!Ahead
<1> HIDE DEF Admits
<1>3. r # k /\ r \in Model!Queued(q)
  BY <1>1
<1>4. SUFFICES ASSUME k \in Model!Ahead(r, q)
               PROVE  FALSE
  BY <1>3, AheadOrder
<1>5. \A i \in Model!Ahead(k, q) \cup {k} : i \in Model!Ahead(r, q)
  BY <1>2, <1>3, <1>4, AheadOrder
<1> QED
  BY <1>1, <1>5

-----------------------------------------------------------------------------
RequestInv ==
    /\ limit \in Nat \ {0}
    /\ Line(pending)
    /\ active \subseteq Requests /\ IsFiniteSet(active) /\ active \cap Model!Queued(pending) = {}
    /\ aborted \subseteq Model!Queued(pending)
    /\ Model!WaitingMeansBusy

LEMMA MaintenanceLast ==
    ASSUME NEW W \in SUBSET Requests, NEW r \in W \cap Model!Of("maintenance"),
           \A k \in W : ~Model!Before(k, r)
    PROVE  W \subseteq Model!Of("maintenance")
<1>1. r \in Requests
  OBVIOUS
<1>2. \A k \in W : ~(Rank(k) < Rank(r)) /\ Rank(k) <= 2 /\ Rank(k) \in Nat
  BY <1>1, Ranks
<1>3. Rank(r) = 2
  BY <1>1, Ranks
<1> QED
  BY <1>2, <1>3, Ranks

LEMMA DrainKeeps ==
    ASSUME NEW q, Line(q), limit' \in Nat \ {0}, NEW current \in SUBSET Requests,
           IsFiniteSet(current), current \cap Model!Queued(q) = {}, aborted \subseteq Model!Queued(q),
           Model!Drain(current, q)
    PROVE  RequestInv'
<1> DEFINE T == Model!Taken(current, q, limit')
<1>1. /\ active' = current \cup (T \ aborted) /\ pending' = Model!Without(q, T) /\ aborted' = aborted \ T
  BY DEF Model!Drain
<1>2. Line(pending') /\ Model!Queued(pending') = Model!Queued(q) \ T
  BY <1>1, LineWithout
<1>3. T \subseteq Model!Queued(q)
  BY DEF Model!Taken
<1>4. Model!Queued(q) \subseteq Requests /\ IsFiniteSet(Model!Queued(q))
  BY LinePositions, LineIsFinite
<1>5. IsFiniteSet(active')
  <2>1. IsFiniteSet(T \ aborted)
    BY <1>3, <1>4, FS_Subset
  <2> QED
    BY <1>1, <2>1, FS_Union
<1>6. Model!WaitingMeansBusy'
  <2>1. CASE Model!Queued(q) \ T = {}
    <3>1. pending' = <<>>
      BY <1>2, <2>1, NobodyQueued
    <3> QED
      BY <1>2, <2>1, <3>1 DEF Model!WaitingMeansBusy
  <2>2. CASE Model!Queued(q) \ T # {}
    <3>1. PICK r \in Model!Queued(q) \ T :
            /\ ~Model!CanAdmit(r, active', Model!Queued(q) \ T, limit')
            /\ \A k \in Model!Queued(q) \ T : ~Model!Before(k, r)
      BY <1>1, <2>2, TakenStops
    <3>2. Model!Cardinality(active') \in Nat /\ (active' = {} => Model!Cardinality(active') = 0)
      BY <1>5, FS_CardinalityType, SizeIsOne, FS_EmptySet
    <3>3. CASE Model!Cardinality(active') >= limit'
      BY <3>2, <3>3 DEF Model!WaitingMeansBusy
    <3>4. CASE ~(Model!Cardinality(active') >= limit')
      <4>1. r \in Model!Of("maintenance") /\ ~(active' = {} /\ Model!Queued(q) \ T \subseteq Model!Of("maintenance"))
        BY <3>1, <3>2, <3>4 DEF Model!CanAdmit
      <4>2. Model!Queued(q) \ T \subseteq Model!Of("maintenance")
        BY <1>4, <3>1, <4>1, MaintenanceLast
      <4> QED
        BY <1>2, <4>1, <4>2 DEF Model!WaitingMeansBusy, Model!Of
    <3> QED
      BY <3>3, <3>4
  <2> QED
    BY <2>1, <2>2
<1>7. active' \subseteq Requests /\ active' \cap Model!Queued(pending') = {}
  BY <1>1, <1>2, <1>3, <1>4
<1> QED
  BY <1>1, <1>2, <1>5, <1>6, <1>7 DEF RequestInv

LEMMA AcquireKeeps ==
    ASSUME RequestInv, NEW r \in Requests, Model!Acquire(r)
    PROVE  RequestInv'
<1>1. Model!Cardinality(active) \in Nat /\ (active = {} <=> Model!Cardinality(active) = 0)
  BY FS_CardinalityType, SizeIsOne, FS_EmptySet DEF RequestInv
<1>2. IsFiniteSet(active \cup {r}) /\ Model!Cardinality(active \cup {r}) = Model!Cardinality(active) + 1
  BY FS_AddElement, SizeIsOne DEF RequestInv, Model!Acquire
<1>3. CASE Model!CanAdmit(r, active, Model!Queued(pending), limit)
  <2>1. active' = active \cup {r} /\ UNCHANGED <<pending, limit, aborted>>
    BY <1>3 DEF Model!Acquire
  <2>2. Model!WaitingMeansBusy'
    BY <1>1, <1>2, <2>1 DEF RequestInv, Model!WaitingMeansBusy, Model!Of
  <2> QED
    BY <1>2, <2>1, <2>2 DEF RequestInv, Model!Acquire
<1>4. CASE ~Model!CanAdmit(r, active, Model!Queued(pending), limit)
  <2>1. pending' = Append(pending, r) /\ UNCHANGED <<active, limit, aborted>>
    BY <1>4 DEF Model!Acquire
  <2>2. Line(pending') /\ Model!Queued(pending') = Model!Queued(pending) \cup {r}
    BY <2>1, LineAppend DEF RequestInv, Model!Acquire
  <2>3. CASE ~(Model!Cardinality(active) < limit)
    <3>1. Model!Cardinality(active) >= limit /\ active # {}
      BY <1>1, <2>3 DEF RequestInv
    <3> QED
      BY <2>1, <2>2, <3>1 DEF RequestInv, Model!WaitingMeansBusy, Model!Acquire
  <2>4. CASE Model!Cardinality(active) < limit
    <3>1. r \in Model!Of("maintenance")
          /\ ~(active = {} /\ Model!Queued(pending) \subseteq Model!Of("maintenance"))
      BY <1>4, <2>4 DEF Model!CanAdmit
    <3>2. Model!Queued(pending) \subseteq Model!Of("maintenance")
      BY <1>1, <2>4 DEF RequestInv, Model!WaitingMeansBusy
    <3>3. Model!WaitingMeansBusy'
      BY <2>1, <2>2, <3>1, <3>2 DEF Model!WaitingMeansBusy, Model!Of
    <3> QED
      BY <2>1, <2>2, <3>3 DEF RequestInv, Model!Acquire
  <2> QED
    BY <2>3, <2>4
<1> QED
  BY <1>3, <1>4

LEMMA RequestStep ==
    ASSUME RequestInv, [Model!Next]_(Model!vars)
    PROVE  RequestInv'
<1>1. CASE UNCHANGED Model!vars
  BY <1>1 DEF Model!vars, RequestInv, Model!WaitingMeansBusy, Line, Model!Queued
<1>2. ASSUME NEW r \in Requests, Model!Release(r)
      PROVE  RequestInv'
  <2>1. IsFiniteSet(active \ {r})
    BY FS_RemoveElement DEF RequestInv
  <2> QED
    BY <1>2, <2>1, DrainKeeps DEF Model!Release, RequestInv
<1>3. ASSUME NEW max \in Limits, Model!SetMaxConcurrent(max)
      PROVE  RequestInv'
  <2>1. limit' \in Nat \ {0}
    BY <1>3, SchedulerAssumption DEF Model!SetMaxConcurrent
  <2> QED
    BY <1>3, <2>1, DrainKeeps DEF Model!SetMaxConcurrent, RequestInv
<1>4. ASSUME NEW r \in Requests, Model!Abort(r)
      PROVE  RequestInv'
  BY <1>4 DEF Model!Abort, RequestInv, Model!WaitingMeansBusy
<1>5. ASSUME NEW r \in Requests, Model!OnAbort(r)
      PROVE  RequestInv'
  <2>1. /\ Line(pending') /\ Model!Queued(pending') = Model!Queued(pending) \ {r}
        /\ aborted' = aborted \ {r} /\ UNCHANGED <<limit, active>>
    BY <1>5, LineWithout DEF Model!OnAbort, RequestInv
  <2>2. pending # <<>>
    BY <1>5 DEF Model!OnAbort, RequestInv, Model!Queued
  <2> QED
    BY <2>1, <2>2 DEF RequestInv, Model!WaitingMeansBusy
<1> QED
  BY <1>1, <1>2, <1>3, <1>4, <1>5, AcquireKeeps DEF Model!Next

LEMMA RequestInvariant == Model!Spec => []RequestInv
<1>1. Model!Init => RequestInv
  BY FS_EmptySet, SchedulerAssumption DEF Model!Init, RequestInv, Line, Model!Queued, Model!WaitingMeansBusy
<1> QED
  BY <1>1, RequestStep, PTL DEF Model!Spec

\* No wake-up is lost, for any number of requests and whatever limits are
\* set: while requests wait the provider is busy, and up to its limit if any
\* of them is more than maintenance.  (release, drain, onAbort)
THEOREM WaitersSeeBusy == Model!Spec => []WaitingMeansBusy
<1>1. RequestInv => Model!WaitingMeansBusy
  BY DEF RequestInv
<1> QED
  BY <1>1, RequestInvariant, PTL DEF WaitingMeansBusy

AdmitsInOrder ==
    \A r \in active' \ active : \A k \in Model!Queued(pending') :
      /\ ~Model!Before(k, r)
      /\ Priority[k] = Priority[r] /\ r \in Model!Queued(pending) =>
           Model!Position(r, pending) < Model!Position(k, pending)
      /\ Priority[k] = Priority[r] => r \in Model!Queued(pending)

LEMMA DrainInOrder ==
    ASSUME RequestInv, NEW current \in SUBSET active, Model!Drain(current, pending)
    PROVE  AdmitsInOrder
<1> DEFINE T == Model!Taken(current, pending, limit')
<1>1. active' = current \cup (T \ aborted) /\ pending' = Model!Without(pending, T)
  BY DEF Model!Drain
<1>2. Line(pending) /\ Model!Queued(pending') = Model!Queued(pending) \ T
  BY <1>1, LineWithout DEF RequestInv
<1>3. SUFFICES ASSUME NEW r \in active' \ active, NEW k \in Model!Queued(pending')
               PROVE  /\ ~Model!Before(k, r)
                      /\ Priority[k] = Priority[r] /\ r \in Model!Queued(pending) =>
                           Model!Position(r, pending) < Model!Position(k, pending)
                      /\ Priority[k] = Priority[r] => r \in Model!Queued(pending)
  BY DEF AdmitsInOrder
<1>4. r \in T /\ r \in Model!Queued(pending) /\ k \in Model!Queued(pending) \ T
  BY <1>1, <1>2 DEF Model!Taken
<1>5. r \in Model!Ahead(k, pending)
  BY <1>2, <1>4, TakenFirst
<1>6. /\ r \in Requests /\ k \in Requests
      /\ Rank(r) < Rank(k) \/ (Rank(r) = Rank(k) /\ Model!Position(r, pending) < Model!Position(k, pending))
  BY <1>2, <1>4, <1>5, AheadMeans, LinePositions
<1>7. /\ Rank(r) \in Nat /\ Rank(k) \in Nat
      /\ Model!Before(k, r) <=> Rank(k) < Rank(r)
      /\ Priority[k] = Priority[r] <=> Rank(k) = Rank(r)
  BY <1>6, Ranks
<1> QED
  BY <1>4, <1>6, <1>7

\* Whoever gets a permit, newly come or from the queue, leaves nobody of a
\* higher priority waiting, and nobody of its own who came before.
\* (drain, acquire: newcomers do not look at the queue)
THEOREM PermitsInOrder == Model!Spec => AdmittedInOrder
<1>1. ASSUME RequestInv, [Model!Next]_(Model!vars)
      PROVE  [AdmitsInOrder]_(Model!vars)
  <2>1. CASE UNCHANGED Model!vars
    BY <2>1
  <2>2. ASSUME NEW r \in Requests, Model!Acquire(r)
        PROVE  AdmitsInOrder
    <3>1. CASE Model!CanAdmit(r, active, Model!Queued(pending), limit)
      <4>1. active' = active \cup {r} /\ pending' = pending
        BY <2>2, <3>1 DEF Model!Acquire
      <4>2. Model!Cardinality(active) \in Nat /\ limit \in Nat /\ Model!Cardinality(active) < limit
        BY <1>1, <3>1, FS_CardinalityType, SizeIsOne DEF RequestInv, Model!CanAdmit
      <4>3. Model!Queued(pending) \subseteq Model!Of("maintenance")
        BY <1>1, <4>2 DEF RequestInv, Model!WaitingMeansBusy
      <4>4. r \in Model!Of("maintenance") => Model!Queued(pending) = {}
        <5>1. r \in Model!Of("maintenance") => pending = <<>>
          BY <1>1, <3>1 DEF Model!CanAdmit, RequestInv, Model!WaitingMeansBusy
        <5> QED
          BY <5>1 DEF Model!Queued
      <4>5. \A k \in Model!Queued(pending) : Rank(k) = 2 /\ Rank(r) # 2 /\ Rank(r) <= 2
                                       /\ Rank(r) \in Nat /\ k \in Requests
        BY <4>3, <4>4, Ranks DEF Model!Of
      <4>6. \A k \in Model!Queued(pending) : ~Model!Before(k, r) /\ Priority[k] # Priority[r]
        BY <4>5, Ranks
      <4> QED
        BY <4>1, <4>6 DEF AdmitsInOrder
    <3>2. CASE ~Model!CanAdmit(r, active, Model!Queued(pending), limit)
      BY <2>2, <3>2 DEF Model!Acquire, AdmitsInOrder
    <3> QED
      BY <3>1, <3>2
  <2>3. ASSUME NEW r \in Requests, Model!Release(r)
        PROVE  AdmitsInOrder
    BY <1>1, <2>3, DrainInOrder DEF Model!Release
  <2>4. ASSUME NEW max \in Limits, Model!SetMaxConcurrent(max)
        PROVE  AdmitsInOrder
    BY <1>1, <2>4, DrainInOrder DEF Model!SetMaxConcurrent
  <2>5. ASSUME NEW r \in Requests, Model!Abort(r) \/ Model!OnAbort(r)
        PROVE  AdmitsInOrder
    BY <2>5 DEF Model!Abort, Model!OnAbort, AdmitsInOrder
  <2> QED
    BY <1>1, <2>1, <2>2, <2>3, <2>4, <2>5 DEF Model!Next
<1> QED
  BY <1>1, RequestInvariant, PTL
     DEF Model!Spec, AdmittedInOrder, Model!AdmittedInOrder, AdmitsInOrder

-----------------------------------------------------------------------------
(* Terminals of a session.                                                 *)

PoolTyped ==
    pool \in [Terminals -> [status : {"idle", "running", "closed"}, detached : BOOLEAN,
                            by : Commands \cup {Nobody}]]

\* The head of a queue has its ticket if there is room for it.
Offered(queue, given, p) ==
    queue # <<>> /\ Terminal!CanAdmit(Head(queue), p) => Head(queue) \in given

LEMMA PumpOffers ==
    ASSUME NEW queue, NEW given, NEW p
    PROVE  Offered(queue, Terminal!Pump(queue, given, p), p)
  BY DEF Offered, Terminal!Pump

LEMMA TrimmedTyped ==
    ASSUME NEW p, NEW q \in Terminal!Trimmed(p),
           p \in [Terminals -> [status : {"idle", "running", "closed"}, detached : BOOLEAN,
                                by : Commands \cup {Nobody}]]
    PROVE  q \in [Terminals -> [status : {"idle", "running", "closed"}, detached : BOOLEAN,
                                by : Commands \cup {Nobody}]]
<1>1. PICK gone : q = [t \in Terminals |-> IF t \in gone THEN Terminal!Closed ELSE p[t]]
  BY DEF Terminal!Trimmed
<1> QED
  BY <1>1 DEF Terminal!Closed

\* A terminal of the pool becomes x; there may be no such terminal.
Put(t, x) == [pool EXCEPT ![t] = x]

LEMMA PutTyped ==
    ASSUME PoolTyped, NEW t, NEW x \in [status : {"idle", "running", "closed"},
                                        detached : BOOLEAN, by : Commands \cup {Nobody}],
           pool' = Put(t, x)
    PROVE  PoolTyped'
<1>1. CASE t \in Terminals
  BY <1>1 DEF PoolTyped, Put
<1>2. CASE t \notin Terminals
  <2>1. Put(t, x) = pool
    BY <1>2 DEF PoolTyped, Put
  <2> QED
    BY <2>1 DEF PoolTyped
<1> QED
  BY <1>1, <1>2

LEMMA PoolStep ==
    ASSUME PoolTyped, [Terminal!Next]_(Terminal!vars)
    PROVE  PoolTyped'
<1> USE DEF PoolTyped, Terminal!Reserved
<1>1. CASE UNCHANGED Terminal!vars
  BY <1>1 DEF Terminal!vars
<1>2. ASSUME NEW r \in Commands, Terminal!Call(r) \/ Terminal!CallTargeted(r) \/ Terminal!Admitted(r)
      PROVE  PoolTyped'
  <2>1. UNCHANGED pool \/ \E t : pool' = Terminal!Reserved(r, t)
    BY <1>2 DEF Terminal!Call, Terminal!CallTargeted, Terminal!Admitted
  <2>2. ASSUME NEW t, pool' = Terminal!Reserved(r, t)
        PROVE  PoolTyped'
    BY <2>2, PutTyped DEF Put
  <2> QED
    BY <2>1, <2>2
<1>3. ASSUME NEW r \in Commands, Terminal!WaitsAgain(r) \/ Terminal!Cancel(r) \/ Terminal!TimeOut(r)
      PROVE  PoolTyped'
  BY <1>3 DEF Terminal!WaitsAgain, Terminal!Cancel, Terminal!TimeOut
<1>4. ASSUME NEW r \in Commands, Terminal!Start(r) \/ Terminal!DetachForeground(r)
      PROVE  PoolTyped'
  <2>1. CASE Terminal!LeavePool(r, "running")
    <3> DEFINE out == Terminal!Cardinality(Terminal!Detached(pool)) < DetachedLimit
    <3> DEFINE x == [status |-> "running", by |-> Nobody, detached |-> out]
    <3>1. pool' = Put(on[r], x)
      BY <2>1 DEF Terminal!LeavePool, Put
    <3>2. out \in BOOLEAN
      OBVIOUS
    <3>3. x \in [status : {"idle", "running", "closed"}, detached : BOOLEAN,
                 by : Commands \cup {Nobody}]
      <4> HIDE DEF out
      <4> QED
        BY <3>2
    <3> HIDE DEF x
    <3> QED
      BY <3>1, <3>3, PutTyped
  <2>2. CASE pool' = [pool EXCEPT ![on[r]].status = "running"]
    BY <2>2
  <2> QED
    BY <1>4, <2>1, <2>2 DEF Terminal!Start, Terminal!DetachForeground
<1>5. ASSUME NEW r \in Commands, Terminal!DoesNotStart(r) \/ Terminal!Return(r)
      PROVE  PoolTyped'
  BY <1>5 DEF Terminal!DoesNotStart, Terminal!Return
<1>6. ASSUME NEW t \in Terminals, Terminal!CommandEnds(t)
      PROVE  PoolTyped'
  <2> DEFINE rejoined == [pool EXCEPT ![t].status = "idle", ![t].detached = FALSE]
  <2>1. rejoined \in [Terminals -> [status : {"idle", "running", "closed"}, detached : BOOLEAN,
                                    by : Commands \cup {Nobody}]]
    OBVIOUS
  <2>2. pool' \in Terminal!Trimmed(rejoined)
    BY <1>6 DEF Terminal!CommandEnds
  <2> HIDE DEF rejoined
  <2> QED
    BY <2>1, <2>2, TrimmedTyped
<1>7. ASSUME NEW t \in Terminals, Terminal!Close(t)
      PROVE  PoolTyped'
  BY <1>7 DEF Terminal!Close, Terminal!Closed
<1> QED
  BY <1>1, <1>2, <1>3, <1>4, <1>5, <1>6, <1>7 DEF Terminal!Next

\* A terminal that is taken by name makes no room.
LEMMA TakenMakesNoRoom ==
    ASSUME PoolTyped, NEW r, NEW t \in Terminal!Idle(pool), NEW c,
           Terminal!CanAdmit(c, Terminal!Reserved(r, t))
    PROVE  Terminal!CanAdmit(c, pool)
<1> DEFINE p == Terminal!Reserved(r, t)
<1>1. /\ \A u \in Terminals \ {t} : p[u] = pool[u]
      /\ t \in Terminals /\ p[t] = [status |-> "idle", detached |-> FALSE, by |-> r]
      /\ pool[t].status = "idle" /\ ~pool[t].detached /\ pool[t].by = Nobody
  BY DEF PoolTyped, Terminal!Reserved, Terminal!Idle, Terminal!Pooled
<1> HIDE DEF p
<1>2. Terminal!Detached(p) = Terminal!Detached(pool)
  BY <1>1 DEF Terminal!Detached
<1>3. Terminal!Pooled(p) = Terminal!Pooled(pool)
  BY <1>1 DEF Terminal!Pooled
<1>4. Terminal!Idle(p) \subseteq Terminal!Idle(pool)
  <2>1. ASSUME NEW u \in Terminal!Idle(p)
        PROVE  u \in Terminal!Idle(pool)
    <3>1. u \in Terminal!Pooled(pool) /\ p[u].status = "idle" /\ p[u].by = Nobody
      BY <1>3, <2>1 DEF Terminal!Idle
    <3>2. u \in Terminals /\ t \in Terminal!Pooled(pool)
      BY <3>1 DEF Terminal!Pooled, Terminal!Idle
    <3> QED
      BY <1>1, <3>1, <3>2 DEF Terminal!Idle
  <2> QED
    BY <2>1
<1>5. Terminal!CanAdmit(c, p)
  BY DEF p
<1> QED
  BY <1>2, <1>3, <1>4, <1>5 DEF Terminal!CanAdmit

\* Every step that makes room, or changes the head, ends with pump.
LEMMA OfferedStep ==
    ASSUME PoolTyped, Terminal!RoomIsOffered, [Terminal!Next]_(Terminal!vars)
    PROVE  Terminal!RoomIsOffered'
<1>1. Offered(waiters, tickets, pool)
  BY DEF Offered, Terminal!RoomIsOffered
<1>2. SUFFICES Offered(waiters', tickets', pool')
  BY DEF Offered, Terminal!RoomIsOffered, Terminal!CanAdmit, Terminal!Detached,
         Terminal!Pooled, Terminal!Idle
<1>3. ASSUME NEW given, tickets' = Terminal!Pump(waiters', given, pool')
      PROVE  Offered(waiters', tickets', pool')
  BY <1>3, PumpOffers
<1>4. CASE UNCHANGED Terminal!vars
  BY <1>1, <1>4 DEF Terminal!vars
<1>5. CASE Terminal!Notify /\ waiters' = waiters
  BY <1>3, <1>5 DEF Terminal!Notify
<1>6. ASSUME NEW r \in Commands, NEW queue, NEW given, Offered(queue, given, pool),
             Terminal!Enqueue(r, queue, given), pool' = pool
      PROVE  Offered(waiters', tickets', pool')
  BY <1>3, <1>6 DEF Terminal!Enqueue
<1>7. ASSUME NEW r \in Commands, Terminal!Call(r)
      PROVE  Offered(waiters', tickets', pool')
  <2>1. CASE waiters' = <<>>
    BY <2>1 DEF Offered
  <2>2. CASE Terminal!Enqueue(r, waiters, tickets) /\ pool' = pool
    BY <1>1, <1>6, <2>2
  <2> QED
    BY <1>7, <2>1, <2>2 DEF Terminal!Call
<1>8. ASSUME NEW r \in Commands, Terminal!CallTargeted(r)
      PROVE  Offered(waiters', tickets', pool')
  BY <1>1, <1>8, TakenMakesNoRoom DEF Offered, Terminal!CallTargeted
<1>9. ASSUME NEW r \in Commands, Terminal!Admitted(r)
      PROVE  Offered(waiters', tickets', pool')
  BY <1>3, <1>9 DEF Terminal!Admitted
<1>10. ASSUME NEW r \in Commands, Terminal!WaitsAgain(r)
       PROVE  Offered(waiters', tickets', pool')
  BY <1>6, <1>10, PumpOffers DEF Terminal!WaitsAgain
<1>11. ASSUME NEW r \in Commands, Terminal!Cancel(r) \/ Terminal!TimeOut(r)
       PROVE  Offered(waiters', tickets', pool')
  BY <1>3, <1>11 DEF Terminal!Cancel, Terminal!TimeOut
<1>12. ASSUME NEW r \in Commands,
              \/ Terminal!Start(r) \/ Terminal!DoesNotStart(r)
              \/ Terminal!DetachForeground(r) \/ Terminal!Return(r)
       PROVE  Offered(waiters', tickets', pool')
  BY <1>5, <1>12 DEF Terminal!Start, Terminal!DoesNotStart, Terminal!DetachForeground,
                     Terminal!Return
<1>13. ASSUME NEW t \in Terminals, Terminal!CommandEnds(t) \/ Terminal!Close(t)
       PROVE  Offered(waiters', tickets', pool')
  BY <1>3, <1>5, <1>13 DEF Terminal!CommandEnds, Terminal!Close
<1> QED
  BY <1>4, <1>7, <1>8, <1>9, <1>10, <1>11, <1>12, <1>13 DEF Terminal!Next

\* Whoever heads the queue was offered the room there is, whatever the sizes
\* of the pool and the queue.  (notifyAdmission, pump)
THEOREM RoomOffered == Terminal!Spec => []RoomIsOffered
<1>1. Terminal!Init => PoolTyped /\ Terminal!RoomIsOffered
  BY DEF Terminal!Init, PoolTyped, Terminal!Closed, Terminal!RoomIsOffered
<1> QED
  BY <1>1, PoolStep, OfferedStep, PTL DEF Terminal!Spec, RoomIsOffered

-----------------------------------------------------------------------------
(* The store lock.                                                         *)

\* From the lock directory to its removal.
Owns(c) == pc[c] \in {"write", "operate", "orphan", "stat", "remove"}

AllAlive == \A c \in Callers : Alive(c)

Undisturbed == crashed = {} /\ ~SlowWrites /\ ~disowned

\* A failed write or cleanup may leave the file of a caller that is done.
Holds(c) == Owns(c) \/ c \in files

\* Contenders only look: they never find reason to remove anything.
NobodyReclaims ==
  \A c \in Callers :
    /\ pc[c] \notin {"rmToken", "rmdir"}
    /\ pc[c] = "judge" => seen[c] \notin {EmptyStale} \cup 1..MaxFailures

\* The directory has one holder, and the owner its file.
OneOwner ==
  /\ \A c, d \in Callers : Holds(c) /\ Holds(d) => c = d
  /\ exists <=> \E c \in Callers : Holds(c)
  /\ blank = {}
  /\ \A c \in Callers : Owns(c) /\ pc[c] # "write" => c \in files
  /\ \A c \in running : pc[c] \in {"operate", "orphan"}

IInv == TypeOK /\ (Undisturbed => NobodyReclaims /\ OneOwner)

-----------------------------------------------------------------------------
LEMMA TypedAtFirst == Init => TypeOK
<1> SUFFICES ASSUME Init PROVE TypeOK
  OBVIOUS
<1>1. /\ pc \in [Callers -> Stages]
      /\ seen \in [Callers -> Callers \cup {Nothing, EmptyFresh, EmptyStale}
                                     \cup 1..MaxFailures]
  BY DEF Init, Stages
<1>2. exists \in BOOLEAN /\ disowned \in BOOLEAN
  BY Zenon DEF Init
<1>3. blank \subseteq 1..failures /\ failures \in 0..MaxFailures
  BY CallersAssumption DEF Init
<1>4. files \subseteq Callers /\ running \subseteq Callers /\ crashed \subseteq Processes
  BY DEF Init
<1>5. files \cup blank # {} => exists
  BY DEF Init
<1> QED
  BY <1>1, <1>2, <1>3, <1>4, <1>5 DEF TypeOK

\* One more failure leaves room for one more number.
LEMMA FailureCounts ==
  ASSUME TypeOK, Failure
  PROVE  /\ failures' \in 0..MaxFailures
         /\ blank \cup {failures'} \subseteq 1..failures'
<1>1. failures \in Nat /\ failures' = failures + 1 /\ failures' <= MaxFailures
  BY CallersAssumption DEF TypeOK, Failure
<1>2. 1..failures \subseteq 1..failures'
  BY <1>1
<1> QED
  BY <1>1, <1>2, CallersAssumption DEF TypeOK

\* Every variable keeps its type, whoever dies; in particular there are no
\* owner files without a lock directory.  (withRetrievalStoreLock)
THEOREM TypeCorrect == Spec => []TypeOK
<1>1. Init => TypeOK
  BY TypedAtFirst
<1>2. TypeOK /\ [Next]_vars => TypeOK'
  <2> SUFFICES ASSUME TypeOK, [Next]_vars PROVE TypeOK'
    OBVIOUS
  <2> USE CallersAssumption, SeenAssumption DEF TypeOK, Stages, Goto, At, ledger
  <2>1. ASSUME NEW c \in Callers, Call(c) PROVE TypeOK'
    BY <2>1 DEF Call
  <2>2. ASSUME NEW c \in Callers, MakeDirectory(c) PROVE TypeOK'
    BY <2>2 DEF MakeDirectory
  <2>3. ASSUME NEW c \in Callers, DirectoryExists(c) PROVE TypeOK'
    BY <2>3 DEF DirectoryExists
  <2>4. ASSUME NEW c \in Callers, WriteOwner(c) PROVE TypeOK'
    BY <2>4 DEF WriteOwner
  <2>5. ASSUME NEW c \in Callers, DirectoryGone(c) PROVE TypeOK'
    BY <2>5 DEF DirectoryGone
  <2>6. ASSUME NEW c \in Callers, Inspect(c) PROVE TypeOK'
    <3>1. blank \subseteq 1..MaxFailures
      OBVIOUS
    <3>2. Owners \subseteq Callers \cup {EmptyFresh, EmptyStale} \cup 1..MaxFailures
      BY <3>1 DEF Owners
    <3>3. seen' = seen
          \/ \E owner \in Owners : seen' = [seen EXCEPT ![c] = owner]
      BY <2>6 DEF Inspect
    <3>4. /\ seen' \in [Callers -> Callers \cup {Nothing, EmptyFresh, EmptyStale}
                                         \cup 1..MaxFailures]
      BY <3>2, <3>3
    <3>5. pc' \in [Callers -> Stages]
      BY <2>6 DEF Inspect
    <3> QED
      BY <2>6, <3>4, <3>5 DEF Inspect
  <2>7. ASSUME NEW c \in Callers, Judge(c) PROVE TypeOK'
    BY <2>7 DEF Judge
  <2>8. ASSUME NEW c \in Callers, RemoveToken(c) PROVE TypeOK'
    BY <2>8 DEF RemoveToken
  <2>9. ASSUME NEW c \in Callers, RemoveDirectory(c) PROVE TypeOK'
    BY <2>9 DEF RemoveDirectory
  <2>10. ASSUME NEW c \in Callers, Retry(c) \/ GiveUp(c) PROVE TypeOK'
    BY <2>10 DEF Retry, GiveUp
  <2>11. ASSUME NEW c \in Callers, OperationSettles(c) \/ OperationTimesOut(c) PROVE TypeOK'
    BY <2>11 DEF OperationSettles, OperationTimesOut
  <2>12. ASSUME NEW c \in Callers, FindOwnFile(c) PROVE TypeOK'
    BY <2>12 DEF FindOwnFile
  <2>13. ASSUME NEW c \in Callers, RemoveAll(c) PROVE TypeOK'
    BY <2>13 DEF RemoveAll
  <2>14. ASSUME NEW p \in Processes, Crash(p) PROVE TypeOK'
    BY <2>14 DEF Crash
  <2>15. ASSUME NEW c \in Callers, MakeDirectoryFails(c) \/ ReclaimFails(c)
         PROVE  TypeOK'
    <3>1. blank \subseteq 1..failures' /\ failures' \in 0..MaxFailures
      BY <2>15, FailureCounts DEF MakeDirectoryFails, ReclaimFails
    <3> QED
      BY <2>15, <3>1 DEF MakeDirectoryFails, ReclaimFails
  <2>16. ASSUME NEW c \in Callers, WriteOwnerFails(c) PROVE TypeOK'
    <3>1. blank' \subseteq 1..failures' /\ failures' \in 0..MaxFailures
      BY <2>16, FailureCounts DEF WriteOwnerFails
    <3>2. disowned' \in BOOLEAN
      BY <2>16 DEF WriteOwnerFails
    <3> QED
      BY <2>16, <3>1, <3>2 DEF WriteOwnerFails
  <2>17. ASSUME NEW c \in Callers, CleanupFails(c) PROVE TypeOK'
    <3>1. files' \subseteq files /\ blank' \subseteq blank
      BY <2>17 DEF CleanupFails
    <3>2. blank' \subseteq 1..failures' /\ failures' \in 0..MaxFailures
      BY <2>17, <3>1, FailureCounts DEF CleanupFails
    <3>3. disowned' \in BOOLEAN
      BY <2>17 DEF CleanupFails
    <3>4. pc' \in [Callers -> Stages] /\ UNCHANGED <<seen, exists, running, crashed>>
      BY <2>17 DEF CleanupFails
    <3> QED
      BY <3>1, <3>2, <3>3, <3>4
  <2>18. CASE UNCHANGED vars
    BY <2>18 DEF vars, ledger
  <2> QED
    BY <2>1, <2>2, <2>3, <2>4, <2>5, <2>6, <2>7, <2>8, <2>9, <2>10, <2>11,
       <2>12, <2>13, <2>14, <2>15, <2>16, <2>17, <2>18 DEF Next, Step, CallFails
<1> QED
  BY <1>1, <1>2, PTL DEF Spec

-----------------------------------------------------------------------------
\* What a caller does.
Moves(c) ==
  Step(c) \/ Call(c) \/ GiveUp(c) \/ OperationTimesOut(c) \/ CallFails(c)

\* A step of the callers keeps one owner and gives nobody reason to reclaim.
LEMMA OwnerStep ==
  ASSUME TypeOK, NobodyReclaims, OneOwner, AllAlive, ~SlowWrites,
         NEW c \in Callers, Moves(c), ~disowned'
  PROVE  NobodyReclaims' /\ OneOwner'
<1> USE SeenAssumption DEF TypeOK, Stages, Goto, At, NobodyReclaims, OneOwner,
        Owns, Holds
<1>1. CASE Call(c)
  BY <1>1 DEF Call
<1>2. CASE MakeDirectory(c)
  BY <1>2 DEF MakeDirectory
<1>3. CASE DirectoryExists(c)
  BY <1>3 DEF DirectoryExists
<1>4. CASE WriteOwner(c)
  BY <1>4 DEF WriteOwner
<1>5. CASE DirectoryGone(c) \/ MakeDirectoryFails(c)
  BY <1>5 DEF DirectoryGone, MakeDirectoryFails
<1>6. CASE Inspect(c)
  <2>1. CASE ~exists
    BY <1>6, <2>1 DEF Inspect
  <2>2. CASE exists
    \* An empty directory's owner is about to write its file.
    <3>1. files = {} => ~LooksStale
      BY <2>2 DEF LooksStale
    <3>2. Owners \subseteq files \cup {EmptyFresh}
      BY <3>1 DEF Owners
    <3>3. seen'[c] \in files \cup {EmptyFresh}
      BY <1>6, <2>2, <3>2 DEF Inspect
    <3>4. seen'[c] \notin {EmptyStale} \cup 1..MaxFailures
      BY <3>3, CallersAssumption
    <3>5. /\ pc' = [pc EXCEPT ![c] = "judge"]
          /\ \A d \in Callers : d # c => seen'[d] = seen[d]
          /\ UNCHANGED <<exists, files, blank, running>>
      BY <1>6, <2>2 DEF Inspect
    <3> QED
      BY <1>6, <3>4, <3>5 DEF Inspect
  <2> QED
    BY <2>1, <2>2
<1>7. CASE Judge(c)
  \* Whoever was seen is alive.
  <2>1. ~Abandoned(seen[c])
    BY <1>7 DEF Judge, Abandoned, AllAlive
  <2> QED
    BY <1>7, <2>1 DEF Judge
<1>8. CASE RemoveToken(c) \/ RemoveDirectory(c)
  BY <1>8 DEF RemoveToken, RemoveDirectory
<1>9. CASE Retry(c) \/ GiveUp(c)
  BY <1>9 DEF Retry, GiveUp
<1>10. CASE OperationSettles(c) \/ OperationTimesOut(c)
  BY <1>10 DEF OperationSettles, OperationTimesOut
<1>11. CASE FindOwnFile(c)
  BY <1>11 DEF FindOwnFile
<1>12. CASE RemoveAll(c)
  BY <1>12 DEF RemoveAll
<1>13. CASE WriteOwnerFails(c)
  BY <1>13 DEF WriteOwnerFails
<1>14. CASE ReclaimFails(c)
  BY <1>14 DEF ReclaimFails
<1>15. CASE CleanupFails(c)
  \* The file is still there: its caller holds on to the directory.
  <2>1. c \in files /\ c \in files' /\ files' \subseteq files /\ blank' = {}
    BY <1>15 DEF CleanupFails
  <2> QED
    BY <1>15, <2>1 DEF CleanupFails
<1> QED
  BY <1>1, <1>2, <1>3, <1>4, <1>5, <1>6, <1>7, <1>8, <1>9, <1>10, <1>11,
     <1>12, <1>13, <1>14, <1>15 DEF Moves, Step, CallFails

\* Only a death changes who lives, and what was left behind stays left behind.
LEMMA LivesOn ==
  ASSUME TypeOK, NEW c \in Callers, Moves(c)
  PROVE  crashed' = crashed /\ (disowned => disowned')
<1>1. CASE ~CallFails(c)
  <2>1. ledger' = ledger
    BY <1>1 DEF Moves, Step, Call, GiveUp, OperationTimesOut,
       MakeDirectory, DirectoryExists, WriteOwner, DirectoryGone, Inspect,
       Judge, RemoveToken, RemoveDirectory, Retry, OperationSettles,
       FindOwnFile, RemoveAll
  <2> QED
    BY <2>1 DEF ledger
<1>2. CASE CallFails(c)
  <2>1. CASE MakeDirectoryFails(c) \/ ReclaimFails(c)
    BY <2>1 DEF MakeDirectoryFails, ReclaimFails
  <2>2. CASE WriteOwnerFails(c)
    <3>1. crashed' = crashed /\ (disowned' = disowned \/ disowned')
      BY <2>2 DEF WriteOwnerFails
    <3> QED
      BY <3>1
  <2>3. CASE CleanupFails(c)
    <3>1. crashed' = crashed /\ (disowned' = disowned \/ disowned')
      BY <2>3 DEF CleanupFails
    <3> QED
      BY <3>1
  <2> QED
    BY <1>2, <2>1, <2>2, <2>3 DEF CallFails
<1> QED
  BY <1>1, <1>2

\* As long as nobody dies, no live owner is slow to write its file and none
\* leaves the directory without it, operations on one store are never under
\* way together: however many callers contend, time out, outlive their
\* caller's patience and retry, and whichever file system call fails.
\* (withRetrievalStoreLock)
THEOREM OperationsExclusive == Spec => []OneOperationWhileAllLive
<1>1. Init => IInv
  BY TypedAtFirst
  DEF Init, IInv, NobodyReclaims, OneOwner, Owns, Holds
<1>2. TypeOK' /\ IInv /\ [Next]_vars => IInv'
  <2> SUFFICES ASSUME TypeOK', IInv, [Next]_vars, Undisturbed'
               PROVE  NobodyReclaims' /\ OneOwner'
    BY DEF IInv
  <2>1. CASE \E c \in Callers : Moves(c)
    <3>1. PICK c \in Callers : Moves(c)
      BY <2>1
    <3>2. Undisturbed
      BY <3>1, LivesOn DEF Undisturbed, IInv
    <3> QED
      BY <3>1, <3>2, OwnerStep DEF IInv, Undisturbed, AllAlive, Alive
  <2>2. CASE \E p \in Processes : Crash(p)
    BY <2>2 DEF Crash, Undisturbed
  <2>3. CASE UNCHANGED vars
    BY <2>3 DEF IInv, vars, NobodyReclaims, OneOwner, Owns, Holds, Undisturbed
  <2> QED
    BY <2>1, <2>2, <2>3 DEF Next, Moves
<1>3. IInv => OneOperationWhileAllLive
  <2> SUFFICES ASSUME IInv, Undisturbed, NEW c \in running, NEW d \in running
               PROVE  c = d
    BY DEF OneOperationWhileAllLive, AtMostOneOperation, Undisturbed
  <2>1. c \in Callers /\ d \in Callers
    BY DEF IInv, TypeOK
  <2>2. Owns(c) /\ Owns(d)
    BY <2>1 DEF IInv, OneOwner, Owns
  <2> QED
    BY <2>1, <2>2 DEF IInv, OneOwner, Holds
<1> QED
  BY <1>1, <1>2, <1>3, TypeCorrect, PTL DEF Spec

-----------------------------------------------------------------------------
(* Two callers, whoever dies.                                              *)

\* The dead are at rest.
Resting == \A c \in Callers : pc[c] = "dead" <=> ~Alive(c)

\* An operation that is under way has its file.
Orderly ==
  \A c \in running : exists /\ c \in files /\ pc[c] \in {"operate", "orphan"}

TwoInv ==
  /\ TypeOK
  /\ Resting
  /\ ~disowned => Orderly /\ (AllAlive => NobodyReclaims /\ OneOwner)

\* Beside a dead caller the other one is alone.
LEMMA LastStep ==
  ASSUME TypeOK, Resting, Orderly, NEW c \in Callers, NEW d \in Callers,
         Callers = {c, d}, c # d, ~Alive(d), Moves(c)
  PROVE  Orderly'
<1> USE DEF TypeOK, Stages, Goto, At, Orderly
<1>1. d \notin running
  BY DEF Resting
<1>2. CASE Call(c) \/ MakeDirectory(c) \/ DirectoryExists(c)
  BY <1>1, <1>2 DEF Call, MakeDirectory, DirectoryExists
<1>3. CASE WriteOwner(c) \/ DirectoryGone(c) \/ MakeDirectoryFails(c)
  BY <1>1, <1>3 DEF WriteOwner, DirectoryGone, MakeDirectoryFails
<1>4. CASE Inspect(c)
  BY <1>1, <1>4 DEF Inspect
<1>5. CASE Judge(c)
  BY <1>1, <1>5 DEF Judge
<1>6. CASE RemoveToken(c) \/ RemoveDirectory(c)
  BY <1>1, <1>6 DEF RemoveToken, RemoveDirectory
<1>7. CASE Retry(c) \/ GiveUp(c)
  BY <1>1, <1>7 DEF Retry, GiveUp
<1>8. CASE OperationSettles(c) \/ OperationTimesOut(c)
  BY <1>1, <1>8 DEF OperationSettles, OperationTimesOut
<1>9. CASE FindOwnFile(c) \/ RemoveAll(c)
  BY <1>1, <1>9 DEF FindOwnFile, RemoveAll
<1>10. CASE WriteOwnerFails(c) \/ ReclaimFails(c)
  BY <1>1, <1>10 DEF WriteOwnerFails, ReclaimFails
<1>11. CASE CleanupFails(c)
  BY <1>1, <1>11 DEF CleanupFails
<1> QED
  BY <1>2, <1>3, <1>4, <1>5, <1>6, <1>7, <1>8, <1>9, <1>10, <1>11
  DEF Moves, Step, CallFails

\* Whoever moves is alive, and rests no more than before.
LEMMA MoversRest ==
  ASSUME TypeOK, Resting, NEW c \in Callers, Moves(c)
  PROVE  Alive(c) /\ Resting'
<1>1. pc[c] # "dead"
  BY DEF Moves, Step, CallFails, At, Call, GiveUp, OperationTimesOut,
     MakeDirectory, DirectoryExists, WriteOwner, DirectoryGone, Inspect,
     Judge, RemoveToken, RemoveDirectory, Retry, OperationSettles,
     FindOwnFile, RemoveAll, MakeDirectoryFails, WriteOwnerFails, ReclaimFails,
     CleanupFails
<1>2. \E point \in Stages \ {"dead"} : pc' = [pc EXCEPT ![c] = point]
  BY DEF Stages, Moves, Step, CallFails, Goto, Call, GiveUp, OperationTimesOut,
     MakeDirectory, DirectoryExists, WriteOwner, DirectoryGone, Inspect,
     Judge, RemoveToken, RemoveDirectory, Retry, OperationSettles,
     FindOwnFile, RemoveAll, MakeDirectoryFails, WriteOwnerFails, ReclaimFails,
     CleanupFails
<1> QED
  BY <1>1, <1>2, LivesOn DEF Resting, Alive, TypeOK, Stages

\* As long as both live nothing is reclaimed, and after that the survivor is
\* alone.
LEMMA TwoCallersOrderly ==
  ASSUME NEW a, NEW b, Callers = {a, b}, ~SlowWrites
  PROVE  Spec => []TwoInv
<1>1. Init => TwoInv
  BY TypedAtFirst
  DEF Init, TwoInv, NobodyReclaims, OneOwner, Owns, Holds, Orderly, Resting, Alive
<1>2. TypeOK' /\ TwoInv /\ [Next]_vars => TwoInv'
  <2> SUFFICES ASSUME TypeOK', TwoInv, [Next]_vars
               PROVE  /\ Resting'
                      /\ ~disowned' =>
                           Orderly' /\ (AllAlive' => NobodyReclaims' /\ OneOwner')
    BY DEF TwoInv
  <2>1. ASSUME NEW c \in Callers, Moves(c), ~disowned'
        PROVE  Orderly' /\ (AllAlive' => NobodyReclaims' /\ OneOwner')
    <3>1. crashed' = crashed /\ ~disowned
      BY <2>1, LivesOn DEF TwoInv
    <3>2. CASE AllAlive
      <4>1. NobodyReclaims' /\ OneOwner'
        BY <2>1, <3>1, <3>2, OwnerStep DEF TwoInv
      <4>2. running' \subseteq Callers
        BY DEF TypeOK
      <4>3. Orderly'
        BY <4>1, <4>2 DEF Orderly, OneOwner, Owns, Holds
      <4> QED
        BY <4>1, <4>3
    <3>3. CASE ~AllAlive
      <4>1. Alive(c)
        BY <2>1, MoversRest DEF TwoInv
      <4>2. PICK d \in Callers : ~Alive(d)
        BY <3>3 DEF AllAlive
      <4>3. c # d /\ Callers = {c, d}
        BY <4>1, <4>2
      <4>4. Orderly'
        BY <2>1, <3>1, <4>2, <4>3, LastStep DEF TwoInv
      <4> QED
        BY <3>1, <4>2, <4>4 DEF AllAlive, Alive
    <3> QED
      BY <3>2, <3>3
  <2>2. ASSUME NEW c \in Callers, Moves(c) PROVE Resting'
    BY <2>2, MoversRest DEF TwoInv
  <2>3. ASSUME NEW p \in Processes, Crash(p)
        PROVE  /\ Resting'
               /\ ~disowned' =>
                    Orderly' /\ (AllAlive' => NobodyReclaims' /\ OneOwner')
    <3>1. Resting'
      BY <2>3 DEF Crash, TwoInv, TypeOK, Resting, Alive
    <3>2. ASSUME ~disowned' PROVE Orderly'
      BY <2>3, <3>2 DEF Crash, TwoInv, TypeOK, Orderly
    <3>3. ASSUME AllAlive', ~disowned' PROVE NobodyReclaims' /\ OneOwner'
      <4>1. AllAlive /\ UNCHANGED <<pc, seen, exists, files, blank, running, disowned>>
        BY <2>3, <3>3 DEF Crash, TwoInv, TypeOK, AllAlive, Alive
      <4> QED
        BY <3>3, <4>1 DEF TwoInv, NobodyReclaims, OneOwner, Owns, Holds
    <3> QED
      BY <3>1, <3>2, <3>3
  <2>4. CASE UNCHANGED vars
    BY <2>4 DEF TwoInv, vars, Orderly, Resting, NobodyReclaims, OneOwner, Owns,
       Holds, AllAlive, Alive
  <2> QED
    BY <2>1, <2>2, <2>3, <2>4 DEF Next, Moves
<1> QED
  BY <1>1, <1>2, TypeCorrect, PTL DEF Spec

\* Whose operation is under way is the only owner that lives.
LEMMA TwoAlone ==
  ASSUME NEW a, NEW b, Callers = {a, b}, TwoInv, ~disowned, NEW c \in running,
         NEW d \in Callers, Owns(d)
  PROVE  c = d
<1>1. c \in Callers /\ Owns(c)
  BY DEF TwoInv, TypeOK, Orderly, Owns
<1>2. CASE AllAlive
  BY <1>1, <1>2 DEF TwoInv, OneOwner, Holds
<1>3. CASE ~AllAlive
  BY <1>1, <1>3 DEF TwoInv, Resting, AllAlive, Owns
<1> QED
  BY <1>2, <1>3

\* Two callers are exclusive whoever dies at whatever file system call, and
\* neither takes away the other's owner file while its operation is under way;
\* whichever call fails, as long as no failed write or cleanup of a live caller
\* leaves the directory without its file.
\* (withRetrievalStoreLock, reclaimLockOwner)
THEOREM TwoCallersExclusive ==
  ASSUME NEW a, NEW b, Callers = {a, b}, ~SlowWrites
  PROVE  Spec => [](~disowned => AtMostOneOperation /\ OperationHasItsFile)
<1>1. TwoInv => (~disowned => AtMostOneOperation /\ OperationHasItsFile)
  <2> SUFFICES ASSUME TwoInv, ~disowned
               PROVE  AtMostOneOperation /\ OperationHasItsFile
    OBVIOUS
  <2>1. running \subseteq Callers
    BY DEF TwoInv, TypeOK
  <2>2. OperationHasItsFile
    BY <2>1 DEF TwoInv, Orderly, OperationHasItsFile
  <2>3. ASSUME NEW c \in running, NEW d \in running PROVE c = d
    <3>1. d \in Callers /\ Owns(d)
      BY <2>1 DEF TwoInv, Orderly, Owns
    <3> QED
      BY <3>1, TwoAlone
  <2> QED
    BY <2>2, <2>3 DEF AtMostOneOperation
<1> QED
  BY <1>1, TwoCallersOrderly, PTL

-----------------------------------------------------------------------------
(* Exclusive use, as its callers see it.                                   *)

\* Nothing more is promised once a live caller left the directory without its
\* file.
Seen == IF disowned THEN {} ELSE running

Exclusive == INSTANCE ExclusiveUse WITH running <- Seen

StoreLockIsExclusive == Exclusive!Spec

\* For two callers the store lock implements exclusive use, whoever dies and
\* whichever call fails: an operation begins only when none is under way, and
\* ends when it settles, when its process dies, or when a live caller leaves
\* the directory without its file.  Every other step is a stutter.
\* (withRetrievalStoreLock)
THEOREM TwoCallersImplementExclusiveUse ==
  ASSUME NEW a, NEW b, Callers = {a, b}, ~SlowWrites
  PROVE  Spec => StoreLockIsExclusive
<1>1. Init => Exclusive!Init
  BY DEF Init, Exclusive!Init, Seen
<1>2. ASSUME TwoInv, [Next]_vars
      PROVE  [Exclusive!Next]_Seen
  <2>1. CASE disowned'
    BY <2>1 DEF Seen, Exclusive!Next, Exclusive!End
  <2>2. ASSUME ~disowned', NEW c \in Callers, Moves(c)
        PROVE  [Exclusive!Next]_Seen
    <3>1. ~disowned /\ Seen = running /\ Seen' = running'
      BY <1>2, <2>2, LivesOn DEF Seen, TwoInv
    <3>2. CASE WriteOwner(c)
      <4>1. Owns(c) /\ c \notin running
        BY <1>2, <3>1, <3>2 DEF TwoInv, Orderly, Owns, WriteOwner, At
      <4>2. running = {}
        BY <1>2, <3>1, <4>1, TwoAlone
      <4> QED
        BY <3>1, <3>2, <4>2 DEF WriteOwner, Exclusive!Begin, Exclusive!Next
    <3>3. CASE OperationSettles(c)
      <4>1. \A d \in running : d = c
        <5>1. Owns(c)
          BY <3>3 DEF OperationSettles, Owns
        <5> QED
          BY <1>2, <3>1, <5>1, TwoAlone
      <4> QED
        BY <3>1, <3>3, <4>1 DEF OperationSettles, Exclusive!End, Exclusive!Next
    <3>4. CASE ~WriteOwner(c) /\ ~OperationSettles(c)
      <4>1. running' = running
        BY <2>2, <3>4
        DEF Moves, Step, CallFails, Call, GiveUp, OperationTimesOut,
            MakeDirectory, DirectoryExists, DirectoryGone, Inspect, Judge,
            RemoveToken, RemoveDirectory, Retry, FindOwnFile, RemoveAll,
            MakeDirectoryFails, WriteOwnerFails, ReclaimFails, CleanupFails
      <4> QED
        BY <3>1, <4>1
    <3> QED
      BY <3>2, <3>3, <3>4
  <2>3. ASSUME ~disowned', NEW p \in Processes, Crash(p)
        PROVE  [Exclusive!Next]_Seen
    <3>1. ~disowned /\ Seen = running /\ Seen' = running'
      BY <2>3 DEF Crash, Seen
    <3>2. running' \subseteq running
      BY <2>3 DEF Crash
    <3>3. \A c, d \in running : c = d
      BY <1>2, <3>1, TwoAlone DEF TwoInv, TypeOK, Orderly, Owns
    <3>4. running' = running \/ running' = {}
      BY <3>2, <3>3
    <3> QED
      BY <3>1, <3>4 DEF Exclusive!End, Exclusive!Next
  <2>4. CASE UNCHANGED vars
    BY <2>4 DEF vars, Seen
  <2> QED
    BY <1>2, <2>1, <2>2, <2>3, <2>4 DEF Next, Moves
<1> QED
  BY <1>1, <1>2, TwoCallersOrderly, PTL DEF Spec, StoreLockIsExclusive, Exclusive!Spec
=============================================================================
