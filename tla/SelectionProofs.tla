--------------------------- MODULE SelectionProofs ---------------------------
(***************************************************************************)
(* What Selected computes.  It is defined by recursion over the positions  *)
(* of the sequence, and its facts are proved by induction over them: a set *)
(* of numbers that has 0, and with each number the next, has them all.     *)
(***************************************************************************)
EXTENDS Selection, WellFoundedInduction, TLAPS

\* A set of natural numbers has a least one.
LEMMA LeastNumber ==
  ASSUME NEW T \in SUBSET Nat, T # {}
  PROVE  \E x \in T : \A y \in T : x <= y
<1>1. OpToRel(<, Nat) = {p \in Nat \X Nat : p[1] < p[2]}
  BY Zenon DEF OpToRel
<1>2. IsWellFoundedOn({p \in Nat \X Nat : p[1] < p[2]}, Nat)
  BY NatLessThanWellFounded, <1>1, Zenon
<1>3. PICK x \in T : \A y \in T : <<y, x>> \notin {p \in Nat \X Nat : p[1] < p[2]}
  BY <1>2, WFMin
<1>4. ASSUME NEW y \in T PROVE x <= y
  <2>1. <<y, x>> \notin {p \in Nat \X Nat : p[1] < p[2]}
    BY <1>3
  <2> QED
    BY <2>1
<1> QED
  BY <1>4

LEMMA SetInduction ==
  ASSUME NEW T \in SUBSET Nat, 0 \in T, \A n \in T : n + 1 \in T
  PROVE  T = Nat
<1> SUFFICES ASSUME T # Nat PROVE FALSE
  OBVIOUS
<1>1. PICK x \in Nat \ T : \A y \in Nat \ T : x <= y
  BY LeastNumber
<1>2. x - 1 \in T
  BY <1>1
<1> QED
  BY <1>1, <1>2

\* The recursive function of Selected, as an equation.
Builds(f, s, I, m) ==
  f = [n \in 0 .. m |->
         IF n = 0 THEN <<>>
         ELSE IF n \in I THEN Append(f[n - 1], s[n]) ELSE f[n - 1]]

LEMMA BuildsExists ==
  ASSUME NEW s, NEW I, NEW m \in Nat
  PROVE  \E f : Builds(f, s, I, m)
<1> DEFINE T == {n \in Nat : \E f : Builds(f, s, I, n)}
<1>1. 0 \in T
  <2>1. Builds([n \in 0 .. 0 |-> <<>>], s, I, 0)
    BY DEF Builds
  <2> QED
    BY <2>1
<1>2. ASSUME NEW n \in T PROVE n + 1 \in T
  <2>1. PICK f : Builds(f, s, I, n)
    OBVIOUS
  <2> DEFINE last == IF n + 1 \in I THEN Append(f[n], s[n + 1]) ELSE f[n]
             g == [i \in 0 .. n + 1 |-> IF i = n + 1 THEN last ELSE f[i]]
  <2>2. ASSUME NEW i \in 0 .. n + 1
        PROVE  g[i] = IF i = 0 THEN <<>>
                      ELSE IF i \in I THEN Append(g[i - 1], s[i]) ELSE g[i - 1]
    <3>1. CASE i = n + 1
      BY <3>1
    <3>2. CASE i # n + 1
      <4>1. i \in 0 .. n /\ g[i] = f[i] /\ (i # 0 => g[i - 1] = f[i - 1])
        BY <3>2
      <4> QED
        BY <2>1, <4>1 DEF Builds
    <3> QED
      BY <3>1, <3>2
  <2>3. Builds(g, s, I, n + 1)
    BY <2>2 DEF Builds
  <2> QED
    BY <2>3
<1>3. T = Nat
  BY <1>1, <1>2, SetInduction
<1> QED
  BY <1>3

\* r is s at the positions in I, in order: h says where each element was.
Places(h, r, s, I) ==
  /\ h \in [1 .. Len(r) -> I]
  /\ \A i, j \in 1 .. Len(r) : i < j => h[i] < h[j]
  /\ \A k \in I : \E i \in 1 .. Len(r) : h[i] = k
  /\ \A i \in 1 .. Len(r) : r[i] = s[h[i]]

SelectedUpTo(f, s, I, S, n) ==
  f[n] \in Seq(S) /\ \E h : Places(h, f[n], s, I \cap (1 .. n))

\* One more position.
LEMMA OneMorePosition ==
  ASSUME NEW S, NEW s \in Seq(S), NEW I \in SUBSET (1 .. Len(s)), NEW f,
         Builds(f, s, I, Len(s)), NEW n \in Nat, n + 1 <= Len(s),
         SelectedUpTo(f, s, I, S, n)
  PROVE  SelectedUpTo(f, s, I, S, n + 1)
<1>1. PICK h : f[n] \in Seq(S) /\ Places(h, f[n], s, I \cap (1 .. n))
  BY DEF SelectedUpTo
<1>2. f[n + 1] = IF n + 1 \in I THEN Append(f[n], s[n + 1]) ELSE f[n]
  <2>1. n + 1 \in 0 .. Len(s) /\ n + 1 # 0 /\ (n + 1) - 1 = n
    OBVIOUS
  <2> QED
    BY <2>1 DEF Builds
<1>3. CASE n + 1 \in I
  <2> DEFINE r == f[n + 1]
             g == [i \in 1 .. Len(r) |-> IF i = Len(r) THEN n + 1 ELSE h[i]]
  <2>1. /\ r \in Seq(S) /\ Len(r) = Len(f[n]) + 1 /\ r[Len(r)] = s[n + 1]
        /\ Len(f[n]) \in Nat
        /\ \A i \in 1 .. Len(f[n]) : r[i] = f[n][i]
    BY <1>1, <1>2, <1>3
  <2> HIDE DEF r
  <2>2. \A i \in 1 .. Len(f[n]) : h[i] \in I \cap (1 .. n) /\ f[n][i] = s[h[i]]
    BY <1>1 DEF Places
  <2>3. g \in [1 .. Len(r) -> I \cap (1 .. n + 1)]
    BY <2>1, <2>2, <1>3
  <2>4. \A i, j \in 1 .. Len(r) : i < j => g[i] < g[j]
    <3> TAKE i, j \in 1 .. Len(r)
    <3> HAVE i < j
    <3>1. i \in 1 .. Len(f[n]) /\ g[i] = h[i]
      BY <2>1
    <3>2. CASE j = Len(r)
      BY <3>1, <3>2, <2>2
    <3>3. CASE j # Len(r)
      <4>1. j \in 1 .. Len(f[n]) /\ g[j] = h[j]
        BY <2>1, <3>3
      <4> QED
        BY <3>1, <4>1, <1>1 DEF Places
    <3> QED
      BY <3>2, <3>3
  <2>5. \A k \in I \cap (1 .. n + 1) : \E i \in 1 .. Len(r) : g[i] = k
    <3> TAKE k \in I \cap (1 .. n + 1)
    <3>1. CASE k = n + 1
      BY <2>1, <3>1
    <3>2. CASE k # n + 1
      <4>1. k \in I \cap (1 .. n)
        BY <3>2
      <4>2. PICK i \in 1 .. Len(f[n]) : h[i] = k
        BY <1>1, <4>1 DEF Places
      <4>3. i \in 1 .. Len(r) /\ i # Len(r)
        BY <2>1
      <4> QED
        BY <4>2, <4>3
    <3> QED
      BY <3>1, <3>2
  <2>6. \A i \in 1 .. Len(r) : r[i] = s[g[i]]
    BY <2>1, <2>2
  <2>7. Places(g, r, s, I \cap (1 .. n + 1))
    BY <2>3, <2>4, <2>5, <2>6 DEF Places
  <2> QED
    BY <2>1, <2>7 DEF SelectedUpTo, r
<1>4. CASE n + 1 \notin I
  <2>1. I \cap (1 .. n + 1) = I \cap (1 .. n)
    BY <1>4
  <2> QED
    BY <1>1, <1>2, <1>4, <2>1 DEF SelectedUpTo
<1> QED
  BY <1>3, <1>4

\* Selected keeps the elements at the positions in I, and their order.
LEMMA SelectedPlaces ==
  ASSUME NEW S, NEW s \in Seq(S), NEW I \in SUBSET (1 .. Len(s))
  PROVE  /\ Selected(s, I) \in Seq(S)
         /\ \E h : Places(h, Selected(s, I), s, I)
<1> DEFINE upTo == CHOOSE f : Builds(f, s, I, Len(s))
<1>0. Selected(s, I) = upTo[Len(s)]
  BY Zenon DEF Selected, Builds
<1>1. PICK f : Builds(f, s, I, Len(s)) /\ Selected(s, I) = f[Len(s)]
  <2>1. Len(s) \in Nat
    OBVIOUS
  <2>2. Builds(upTo, s, I, Len(s))
    BY <2>1, BuildsExists
  <2> QED
    BY <1>0, <2>2
<1> DEFINE T == {n \in Nat : n <= Len(s) => SelectedUpTo(f, s, I, S, n)}
<1>2. 0 \in T
  <2>1. f[0] = <<>>
    BY <1>1 DEF Builds
  <2>2. Places([i \in 1 .. 0 |-> 0], <<>>, s, I \cap (1 .. 0))
    BY DEF Places
  <2>3. SelectedUpTo(f, s, I, S, 0)
    BY <2>1, <2>2 DEF SelectedUpTo
  <2> QED
    BY <2>3
<1>3. ASSUME NEW n \in T PROVE n + 1 \in T
  BY <1>1, OneMorePosition
<1>4. T = Nat
  BY <1>2, <1>3, SetInduction
<1>5. SelectedUpTo(f, s, I, S, Len(s))
  BY <1>4
<1>6. I \cap (1 .. Len(s)) = I
  OBVIOUS
<1> QED
  BY <1>1, <1>5, <1>6 DEF SelectedUpTo
=============================================================================
