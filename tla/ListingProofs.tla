--------------------------- MODULE ListingProofs ---------------------------
(***************************************************************************)
(* Proofs that a listing of the repository holds every record once, newest *)
(* first, and that records keep their order in it, for any number of       *)
(* records.                                                                *)
(*                                                                         *)
(* What a loop of the source computes is proved by induction on its        *)
(* counter.  Induction is used in the form of a lemma about sets, which    *)
(* follows from the well-foundedness of the natural numbers.               *)
(***************************************************************************)
EXTENDS NodeListing, SequenceTheorems, WellFoundedInduction, TLAPS

-----------------------------------------------------------------------------
(***************************************************************************)
(* Induction and recursion.                                                *)
(***************************************************************************)
LEMMA NatSetInduction ==
    ASSUME NEW S, 0 \in S, \A n \in Nat : n \in S => n + 1 \in S
    PROVE  Nat \subseteq S
PROOF
<1> SUFFICES ASSUME NEW k \in Nat, k \notin S PROVE FALSE
  OBVIOUS
<1> DEFINE T == Nat \ S
           R == OpToRel(<, Nat)
<1>1. IsWellFoundedOn(R, Nat)
  BY NatLessThanWellFounded
<1>2. PICK x \in T : \A y \in T : <<y, x>> \notin R
  <2>1. T \subseteq Nat /\ T # {}
    OBVIOUS
  <2> HIDE DEF T, R
  <2>2. QED
    BY <1>1, <2>1, WFMin
<1>3. x # 0 /\ x - 1 \in T
  <2>1. x \in Nat /\ x # 0
    OBVIOUS
  <2>2. x - 1 \in Nat /\ (x - 1) + 1 = x
    BY <2>1
  <2>3. QED
    BY <2>1, <2>2
<1>4. <<x - 1, x>> \in R
  BY <1>3 DEF OpToRel
<1>5. QED
  BY <1>2, <1>3, <1>4

\* The function f on 0..n starts with c, and D[j] makes its value at j of the one
\* before.
DefinedBy(f, V, c, n, D) ==
    /\ f \in [0..n -> V]
    /\ f[0] = c
    /\ \A j \in 1..n : f[j] = D[j][f[j - 1]]

\* There is one for every first value and every step.
LEMMA RecursiveFunction ==
    ASSUME NEW V, NEW c \in V, NEW n \in Nat, NEW D \in [1..n -> [V -> V]]
    PROVE  \E f : DefinedBy(f, V, c, n, D)
PROOF
<1> DEFINE Upto(k) == \E f : DefinedBy(f, V, c, k, D)
           S == {k \in Nat : k <= n => Upto(k)}
<1>1. 0 \in S
  <2> DEFINE f == [i \in 0..0 |-> c]
  <2>1. DefinedBy(f, V, c, 0, D)
    BY DEF DefinedBy
  <2> HIDE DEF f
  <2>2. Upto(0)
    BY <2>1
  <2>3. QED
    BY <2>2
<1>2. ASSUME NEW k \in Nat, k \in S PROVE k + 1 \in S
  <2> SUFFICES ASSUME k + 1 <= n PROVE Upto(k + 1)
    OBVIOUS
  <2>1. PICK f : DefinedBy(f, V, c, k, D)
    BY <1>2
  <2> DEFINE g == [i \in 0..(k + 1) |-> IF i <= k THEN f[i] ELSE D[k + 1][f[k]]]
  <2>2. D[k + 1][f[k]] \in V
    BY <2>1 DEF DefinedBy
  <2>3. g \in [0..(k + 1) -> V]
    BY <2>1, <2>2 DEF DefinedBy
  <2>4. g[0] = c
    BY <2>1 DEF DefinedBy
  <2>5. \A i \in 0..k : g[i] = f[i]
    OBVIOUS
  <2>6. g[k + 1] = D[k + 1][f[k]]
    OBVIOUS
  <2> HIDE DEF g
  <2>7. ASSUME NEW j \in 1..(k + 1) PROVE g[j] = D[j][g[j - 1]]
    <3>1. CASE j <= k
      <4>1. j \in 1..k /\ j \in 0..k /\ j - 1 \in 0..k
        BY <3>1
      <4>2. QED
        BY <2>1, <2>5, <4>1 DEF DefinedBy
    <3>2. CASE j = k + 1
      <4>1. j - 1 = k /\ k \in 0..k
        BY <3>2
      <4>2. QED
        BY <2>5, <2>6, <3>2, <4>1
    <3>3. QED
      BY <3>1, <3>2
  <2>8. QED
    BY <2>3, <2>4, <2>7 DEF DefinedBy
<1>3. Nat \subseteq S
  <2> HIDE DEF S
  <2>1. QED
    BY <1>1, <1>2, NatSetInduction
<1>4. QED
  BY <1>3

-----------------------------------------------------------------------------
(***************************************************************************)
(* What the selection of some members of a sequence shows.                 *)
(***************************************************************************)
\* r is made of the members of s up to position k that are in chosen, and e gives
\* their positions.
Picks(s, chosen, k, r, e) ==
    /\ e \in [1..Len(r) -> 1..k]
    /\ \A p \in 1..Len(r) : r[p] = s[e[p]] /\ s[e[p]] \in chosen
    /\ \A p, q \in 1..Len(r) : p < q => e[p] < e[q]
    /\ \A a \in 1..k : s[a] \in chosen => \E p \in 1..Len(r) : e[p] = a

LEMMA PicksNext ==
    ASSUME NEW V, NEW s \in Seq(V), NEW chosen, NEW k \in Nat, k + 1 <= Len(s),
           NEW r \in Seq(V), NEW e, Picks(s, chosen, k, r, e)
    PROVE  \E d : Picks(s, chosen, k + 1,
                        IF s[k + 1] \in chosen THEN Append(r, s[k + 1]) ELSE r, d)
PROOF
<1>1. CASE s[k + 1] \notin chosen
  <2>1. Picks(s, chosen, k + 1, r, e)
    <3>1. e \in [1..Len(r) -> 1..(k + 1)]
      BY DEF Picks
    <3>2. \A a \in 1..(k + 1) : s[a] \in chosen => \E p \in 1..Len(r) : e[p] = a
      <4>1. ASSUME NEW a \in 1..(k + 1), s[a] \in chosen PROVE a \in 1..k
        BY <1>1, <4>1
      <4>2. QED
        BY <4>1 DEF Picks
    <3>3. QED
      BY <3>1, <3>2 DEF Picks
  <2>2. QED
    BY <1>1, <2>1
<1>2. CASE s[k + 1] \in chosen
  <2> DEFINE t == Append(r, s[k + 1])
             d == [p \in 1..Len(t) |-> IF p <= Len(r) THEN e[p] ELSE k + 1]
  <2>1. /\ Len(r) \in Nat /\ Len(t) = Len(r) + 1
        /\ \A p \in 1..Len(r) : t[p] = r[p]
        /\ t[Len(r) + 1] = s[k + 1]
    OBVIOUS
  <2> HIDE DEF t
  <2>2. ASSUME NEW p \in 1..Len(r) PROVE e[p] \in 1..k /\ d[p] = e[p]
    <3>1. e[p] \in 1..k
      BY DEF Picks
    <3>2. p \in 1..Len(t) /\ p <= Len(r)
      BY <2>1
    <3>3. d[p] = e[p]
      BY <3>2
    <3>4. QED
      BY <3>1, <3>3
  <2>3. d[Len(r) + 1] = k + 1
    BY <2>1
  <2>4. d \in [1..Len(t) -> 1..(k + 1)]
    BY <2>1 DEF Picks
  <2>5. DOMAIN d = 1..Len(t)
    OBVIOUS
  <2> HIDE DEF d
  <2>6. \A p \in 1..Len(t) : p \in 1..Len(r) \/ p = Len(r) + 1
    BY <2>1
  <2>7. \A p \in 1..Len(t) : t[p] = s[d[p]] /\ s[d[p]] \in chosen
    BY <1>2, <2>1, <2>2, <2>3, <2>6 DEF Picks
  <2>8. ASSUME NEW p \in 1..Len(t), NEW q \in 1..Len(t), p < q PROVE d[p] < d[q]
    <3>1. p \in 1..Len(r)
      BY <2>1, <2>8
    <3>2. CASE q \in 1..Len(r)
      BY <2>2, <2>8, <3>1, <3>2 DEF Picks
    <3>3. CASE q = Len(r) + 1
      BY <2>2, <2>3, <3>1, <3>3
    <3>4. QED
      BY <2>6, <3>2, <3>3
  <2>9. ASSUME NEW a \in 1..(k + 1), s[a] \in chosen PROVE \E p \in 1..Len(t) : d[p] = a
    <3>1. CASE a \in 1..k
      <4>1. PICK p \in 1..Len(r) : e[p] = a
        BY <2>9, <3>1 DEF Picks
      <4>2. p \in 1..Len(t) /\ d[p] = a
        BY <2>1, <2>2, <4>1
      <4>3. QED
        BY <4>2
    <3>2. CASE a = k + 1
      BY <2>1, <2>3, <3>2
    <3>3. QED
      BY <3>1, <3>2
  <2>10. Picks(s, chosen, k + 1, t, d)
    BY <2>4, <2>7, <2>8, <2>9 DEF Picks
  <2>11. QED
    BY <1>2, <2>10 DEF t
<1>3. QED
  BY <1>1, <1>2

LEMMA SelectedPicks ==
    ASSUME NEW V, NEW s \in Seq(V), NEW chosen
    PROVE  /\ Selected(s, chosen) \in Seq(V)
           /\ \E e : Picks(s, chosen, Len(s), Selected(s, chosen), e)
PROOF
<1> DEFINE Step(r, i) == IF s[i] \in chosen THEN Append(r, s[i]) ELSE r
           Body(f) == [i \in 0..Len(s) |-> IF i = 0 THEN <<>> ELSE Step(f[i - 1], i)]
           kept == CHOOSE f : f = Body(f)
<1>1. Len(s) \in Nat
  OBVIOUS
<1>2. Selected(s, chosen) = kept[Len(s)]
  BY DEF Selected
<1>3. \E f : f = Body(f)
  <2> DEFINE D == [i \in 1..Len(s) |-> [r \in Seq(V) |-> Step(r, i)]]
  <2>1. <<>> \in Seq(V)
    OBVIOUS
  <2>2. \A i \in 1..Len(s) : [r \in Seq(V) |-> Step(r, i)] \in [Seq(V) -> Seq(V)]
    OBVIOUS
  <2>3. D \in [1..Len(s) -> [Seq(V) -> Seq(V)]]
    BY <2>2
  <2>4. \A i \in 1..Len(s) : \A r \in Seq(V) : D[i][r] = Step(r, i)
    OBVIOUS
  <2> HIDE DEF D, Step
  <2>5. PICK f : DefinedBy(f, Seq(V), <<>>, Len(s), D)
    BY <1>1, <2>1, <2>3, RecursiveFunction
  <2>6. \A i \in 1..Len(s) : f[i] = Step(f[i - 1], i)
    <3>1. \A i \in 1..Len(s) : i - 1 \in 0..Len(s)
      BY <1>1
    <3>2. QED
      BY <2>4, <2>5, <3>1 DEF DefinedBy
  <2>7. \A i \in 0..Len(s) : f[i] = IF i = 0 THEN <<>> ELSE Step(f[i - 1], i)
    BY <1>1, <2>5, <2>6 DEF DefinedBy
  <2>8. f = Body(f)
    BY <2>5, <2>7 DEF DefinedBy
  <2>9. QED
    BY <2>8
<1>4. kept = Body(kept)
  <2> HIDE DEF Body
  <2>1. QED
    BY <1>3
<1> HIDE DEF kept
<1>5. kept[0] = <<>> /\ \A i \in 1..Len(s) : kept[i] = Step(kept[i - 1], i)
  <2>1. Body(kept)[0] = <<>> /\ \A i \in 1..Len(s) : Body(kept)[i] = Step(kept[i - 1], i)
    BY <1>1
  <2> HIDE DEF Body
  <2>2. QED
    BY <1>4, <2>1
<1> DEFINE S == {k \in Nat : k <= Len(s) => /\ kept[k] \in Seq(V)
                                            /\ \E e : Picks(s, chosen, k, kept[k], e)}
<1>6. 0 \in S
  <2>1. <<>> \in Seq(V) /\ Len(<<>>) = 0 /\ 1..0 = {}
    OBVIOUS
  <2>2. \E e : e \in [{} -> {}]
    <3>1. [i \in {} |-> i] \in [{} -> {}]
      OBVIOUS
    <3>2. QED
      BY <3>1
  <2>3. \E e : Picks(s, chosen, 0, <<>>, e)
    BY <2>1, <2>2 DEF Picks
  <2>4. QED
    BY <1>5, <2>1, <2>3
<1>7. ASSUME NEW k \in Nat, k \in S PROVE k + 1 \in S
  <2> SUFFICES ASSUME k + 1 <= Len(s)
               PROVE  /\ kept[k + 1] \in Seq(V)
                      /\ \E e : Picks(s, chosen, k + 1, kept[k + 1], e)
    OBVIOUS
  <2>1. kept[k + 1] = Step(kept[k], k + 1)
    BY <1>1, <1>5
  <2>2. kept[k] \in Seq(V) /\ \E e : Picks(s, chosen, k, kept[k], e)
    BY <1>1, <1>7
  <2>3. kept[k + 1] \in Seq(V)
    BY <1>1, <2>1, <2>2
  <2>4. QED
    BY <2>1, <2>2, <2>3, PicksNext
<1>8. Nat \subseteq S
  <2> HIDE DEF S
  <2>1. QED
    BY <1>6, <1>7, NatSetInduction
<1>9. QED
  BY <1>1, <1>2, <1>8

-----------------------------------------------------------------------------
(***************************************************************************)
(* The sort.                                                               *)
(***************************************************************************)
\* m's key comes before n's.
KeyBefore(m, n) == \E p, q \in 1..Len(KeyOrder) : p < q /\ KeyOrder[p] = m /\ KeyOrder[q] = n

Made(m) == nodes[m].created

Dated == \A m \in Recorded : Made(m) \in Nat

\* t holds the records, those made at the same time in the order of their keys.
Arranged(t, L) ==
    /\ t \in [1..L -> Recorded]
    /\ \A m \in Recorded : \E p \in 1..L : t[p] = m
    /\ \A p, q \in 1..L : p < q /\ Made(t[p]) = Made(t[q]) => KeyBefore(t[p], t[q])

\* After position b no record is newer than one in front of it.
Settled(t, L, b) == \A p, q \in 1..L : p < q /\ b < q => Made(t[q]) <= Made(t[p])

\* The record at k is one of the oldest up to there.
Oldest(t, k) == \A p \in 1..k : Made(t[k]) <= Made(t[p])

\* One comparison.
LEMMA CompareStep ==
    ASSUME Dated, NEW L \in Nat, NEW t, Arranged(t, L), NEW j \in Nat, 1 <= j, j + 1 <= L
    PROVE  /\ Arranged(CompareAt(t, j), L)
           /\ \A b \in Nat : j + 1 <= b /\ Settled(t, L, b) => Settled(CompareAt(t, j), L, b)
           /\ Oldest(t, j) => Oldest(CompareAt(t, j), j + 1)
PROOF
<1> DEFINE u == CompareAt(t, j)
<1>1. /\ j \in 1..L /\ j + 1 \in 1..L
      /\ t \in [1..L -> Recorded]
      /\ \A p \in 1..L : t[p] \in Recorded /\ Made(t[p]) \in Nat
  BY DEF Arranged, Dated
<1>2. CASE ~OutOfOrder(t[j], t[j + 1])
  <2>1. u = t
    BY <1>2 DEF CompareAt
  <2>2. Made(t[j + 1]) <= Made(t[j])
    BY <1>1, <1>2 DEF OutOfOrder, Made
  <2>3. ASSUME Oldest(t, j), NEW p \in 1..(j + 1) PROVE Made(t[j + 1]) <= Made(t[p])
    <3>1. CASE p \in 1..j
      <4>1. Made(t[j]) <= Made(t[p]) /\ p \in 1..L
        BY <1>1, <2>3, <3>1 DEF Oldest
      <4>2. QED
        BY <1>1, <2>2, <4>1
    <3>2. CASE p = j + 1
      BY <1>1, <3>2
    <3>3. QED
      BY <3>1, <3>2
  <2>4. QED
    BY <2>1, <2>3 DEF Oldest
<1>3. CASE OutOfOrder(t[j], t[j + 1])
  <2>1. /\ u \in [1..L -> Recorded]
        /\ u[j] = t[j + 1] /\ u[j + 1] = t[j]
        /\ \A p \in 1..L : p # j /\ p # j + 1 => u[p] = t[p]
    BY <1>1, <1>3 DEF CompareAt
  <2>2. Made(t[j]) < Made(t[j + 1])
    BY <1>1, <1>3 DEF OutOfOrder, Made
  <2> HIDE DEF u
  <2> DEFINE w == [p \in 1..L |-> IF p = j THEN j + 1 ELSE IF p = j + 1 THEN j ELSE p]
  <2>3. \A p \in 1..L : w[p] \in 1..L /\ w[w[p]] = p
    BY <1>1
  <2>4. \A p, q \in 1..L : p < q => w[p] < w[q] \/ (p = j /\ q = j + 1)
    BY <1>1
  <2>5. \A p \in 1..L : j + 1 < p => w[p] = p
    BY <1>1
  <2>6. \A p \in 1..L : u[p] = t[w[p]]
    BY <1>1, <2>1
  <2> HIDE DEF w
  <2>7. Arranged(u, L)
    <3>1. ASSUME NEW m \in Recorded PROVE \E p \in 1..L : u[p] = m
      <4>1. PICK p \in 1..L : t[p] = m
        BY DEF Arranged
      <4>2. w[p] \in 1..L /\ u[w[p]] = m
        BY <2>3, <2>6, <4>1
      <4>3. QED
        BY <4>2
    <3>2. ASSUME NEW p \in 1..L, NEW q \in 1..L, p < q, Made(u[p]) = Made(u[q])
          PROVE  KeyBefore(u[p], u[q])
      <4>1. ~(p = j /\ q = j + 1)
        BY <1>1, <2>1, <2>2, <3>2
      <4>2. w[p] \in 1..L /\ w[q] \in 1..L /\ w[p] < w[q]
        BY <2>3, <2>4, <3>2, <4>1
      <4>3. u[p] = t[w[p]] /\ u[q] = t[w[q]]
        BY <2>6
      <4>4. QED
        BY <3>2, <4>2, <4>3 DEF Arranged
    <3>3. QED
      BY <2>1, <3>1, <3>2 DEF Arranged
  <2>8. ASSUME NEW b \in Nat, j + 1 <= b, Settled(t, L, b),
               NEW p \in 1..L, NEW q \in 1..L, p < q, b < q
        PROVE  Made(u[q]) <= Made(u[p])
    <3>1. w[q] = q /\ w[p] \in 1..L /\ w[p] < q
      BY <2>3, <2>4, <2>5, <2>8
    <3>2. u[p] = t[w[p]] /\ u[q] = t[q]
      BY <2>6, <3>1
    <3>3. QED
      BY <2>8, <3>1, <3>2 DEF Settled
  <2>9. ASSUME Oldest(t, j), NEW p \in 1..(j + 1) PROVE Made(u[j + 1]) <= Made(u[p])
    <3>1. CASE p = j + 1
      BY <1>1, <2>1, <3>1
    <3>2. CASE p = j
      BY <1>1, <2>1, <2>2, <3>2
    <3>3. CASE p \in 1..j /\ p # j
      <4>1. Made(t[j]) <= Made(t[p]) /\ u[p] = t[p]
        BY <1>1, <2>1, <2>9, <3>3 DEF Oldest
      <4>2. QED
        BY <2>1, <4>1
    <3>4. QED
      BY <3>1, <3>2, <3>3
  <2>10. QED
    BY <2>7, <2>8, <2>9 DEF Settled, Oldest, u
<1>4. QED
  BY <1>2, <1>3

\* One pass over the first n neighbours leaves the oldest of them behind.
LEMMA PassSettles ==
    ASSUME Dated, NEW L \in Nat, NEW s, Arranged(s, L), NEW n \in Nat, n + 1 <= L
    PROVE  /\ Arranged(Pass(s, n), L)
           /\ Settled(s, L, n + 1) => Settled(Pass(s, n), L, n)
PROOF
<1> DEFINE Body(f) == [j \in 0..n |-> IF j = 0 THEN s ELSE CompareAt(f[j - 1], j)]
           after == CHOOSE f : f = Body(f)
<1>1. Pass(s, n) = after[n]
  BY DEF Pass
<1>2. \E f : f = Body(f)
  <2> DEFINE V == {t \in [1..L -> Recorded] : Arranged(t, L)}
             D == [j \in 1..n |-> [t \in V |-> CompareAt(t, j)]]
  <2>1. s \in V
    BY DEF Arranged
  <2>2. ASSUME NEW j \in 1..n, NEW t \in V PROVE CompareAt(t, j) \in V
    <3>1. Arranged(CompareAt(t, j), L)
      <4>1. Arranged(t, L) /\ j \in Nat /\ 1 <= j /\ j + 1 <= L
        OBVIOUS
      <4>2. QED
        BY <4>1, CompareStep
    <3>2. QED
      BY <3>1 DEF Arranged
  <2> HIDE DEF V
  <2>3. D \in [1..n -> [V -> V]]
    BY <2>2
  <2>4. \A j \in 1..n : \A t \in V : D[j][t] = CompareAt(t, j)
    OBVIOUS
  <2> HIDE DEF D
  <2>5. PICK f : DefinedBy(f, V, s, n, D)
    BY <2>1, <2>3, RecursiveFunction
  <2>6. \A j \in 1..n : f[j] = CompareAt(f[j - 1], j)
    <3>1. \A j \in 1..n : j - 1 \in 0..n
      OBVIOUS
    <3>2. QED
      BY <2>4, <2>5, <3>1 DEF DefinedBy
  <2>7. \A j \in 0..n : f[j] = IF j = 0 THEN s ELSE CompareAt(f[j - 1], j)
    BY <2>5, <2>6 DEF DefinedBy
  <2>8. f = Body(f)
    BY <2>5, <2>7 DEF DefinedBy
  <2>9. QED
    BY <2>8
<1>3. after = Body(after)
  <2> HIDE DEF Body
  <2>1. QED
    BY <1>2
<1> HIDE DEF after
<1>4. after[0] = s /\ \A j \in 1..n : after[j] = CompareAt(after[j - 1], j)
  <2>1. Body(after)[0] = s /\ \A j \in 1..n : Body(after)[j] = CompareAt(after[j - 1], j)
    OBVIOUS
  <2> HIDE DEF Body
  <2>2. QED
    BY <1>3, <2>1
<1> DEFINE S == {k \in Nat : k <= n => /\ Arranged(after[k], L)
                                       /\ Settled(s, L, n + 1) => Settled(after[k], L, n + 1)
                                       /\ Oldest(after[k], k + 1)}
<1>5. 0 \in S
  <2>1. \A p \in 1..(0 + 1) : p = 1 /\ Made(s[p]) \in Nat
    BY DEF Arranged, Dated
  <2>2. Oldest(s, 0 + 1)
    BY <2>1 DEF Oldest
  <2>3. QED
    BY <1>4, <2>2
<1>6. ASSUME NEW k \in Nat, k \in S PROVE k + 1 \in S
  <2> SUFFICES ASSUME k + 1 <= n
               PROVE  /\ Arranged(after[k + 1], L)
                      /\ Settled(s, L, n + 1) => Settled(after[k + 1], L, n + 1)
                      /\ Oldest(after[k + 1], (k + 1) + 1)
    OBVIOUS
  <2>1. after[k + 1] = CompareAt(after[k], k + 1)
    BY <1>4
  <2>2. /\ Arranged(after[k], L)
        /\ Settled(s, L, n + 1) => Settled(after[k], L, n + 1)
        /\ Oldest(after[k], k + 1)
    BY <1>6
  <2>3. k + 1 \in Nat /\ 1 <= k + 1 /\ (k + 1) + 1 <= L /\ (k + 1) + 1 <= n + 1 /\ n + 1 \in Nat
    OBVIOUS
  <2> HIDE DEF S
  <2>4. QED
    BY <2>1, <2>2, <2>3, CompareStep
<1>7. Nat \subseteq S
  <2> HIDE DEF S
  <2>1. QED
    BY <1>5, <1>6, NatSetInduction
<1>8. /\ Arranged(after[n], L)
      /\ Settled(s, L, n + 1) => Settled(after[n], L, n + 1)
      /\ Oldest(after[n], n + 1)
  BY <1>7
<1>9. ASSUME Settled(after[n], L, n + 1), NEW p \in 1..L, NEW q \in 1..L, p < q, n < q
      PROVE  Made(after[n][q]) <= Made(after[n][p])
  <2>1. CASE n + 1 < q
    BY <1>9, <2>1 DEF Settled
  <2>2. CASE q = n + 1
    BY <1>8, <1>9, <2>2 DEF Oldest
  <2>3. n + 1 < q \/ q = n + 1
    BY <1>9
  <2>4. QED
    BY <2>1, <2>2, <2>3
<1>10. QED
  BY <1>1, <1>8, <1>9 DEF Settled

\* The whole sort.
LEMMA SortSettles ==
    ASSUME Dated, NEW L \in Nat, NEW s, Arranged(s, L), Len(s) = L
    PROVE  Arranged(sortNodes(s), L) /\ Settled(sortNodes(s), L, 1)
PROOF
<1> DEFINE Body(f) == [i \in 0..L |-> IF i = 0 THEN s ELSE Pass(f[i - 1], L - i)]
           after == CHOOSE f : f = Body(f)
<1>1. sortNodes(s) = IF L < 2 THEN s ELSE after[L - 1]
  BY DEF sortNodes
<1>2. CASE L < 2
  BY <1>1, <1>2 DEF Settled
<1>3. CASE ~(L < 2)
  <2>1. \A i \in 1..L : L - i \in Nat /\ (L - i) + 1 <= L /\ i - 1 \in 0..L
    OBVIOUS
  <2>2. \E f : f = Body(f)
    <3> DEFINE V == {t \in [1..L -> Recorded] : Arranged(t, L)}
               D == [i \in 1..L |-> [t \in V |-> Pass(t, L - i)]]
    <3>1. s \in V
      BY DEF Arranged
    <3>2. ASSUME NEW i \in 1..L, NEW t \in V PROVE Pass(t, L - i) \in V
      <4>1. Arranged(Pass(t, L - i), L)
        <5>1. Arranged(t, L)
          OBVIOUS
        <5>2. QED
          BY <2>1, <5>1, PassSettles
      <4>2. QED
        BY <4>1 DEF Arranged
    <3> HIDE DEF V
    <3>3. D \in [1..L -> [V -> V]]
      BY <3>2
    <3>4. \A i \in 1..L : \A t \in V : D[i][t] = Pass(t, L - i)
      OBVIOUS
    <3> HIDE DEF D
    <3>5. PICK f : DefinedBy(f, V, s, L, D)
      BY <3>1, <3>3, RecursiveFunction
    <3>6. \A i \in 1..L : f[i] = Pass(f[i - 1], L - i)
      BY <2>1, <3>4, <3>5 DEF DefinedBy
    <3>7. \A i \in 0..L : f[i] = IF i = 0 THEN s ELSE Pass(f[i - 1], L - i)
      BY <3>5, <3>6 DEF DefinedBy
    <3>8. f = Body(f)
      BY <3>5, <3>7 DEF DefinedBy
    <3>9. QED
      BY <3>8
  <2>3. after = Body(after)
    <3> HIDE DEF Body
    <3>1. QED
      BY <2>2
  <2> HIDE DEF after
  <2>4. after[0] = s /\ \A i \in 1..L : after[i] = Pass(after[i - 1], L - i)
    <3>1. Body(after)[0] = s /\ \A i \in 1..L : Body(after)[i] = Pass(after[i - 1], L - i)
      OBVIOUS
    <3> HIDE DEF Body
    <3>2. QED
      BY <2>3, <3>1
  <2> DEFINE S == {k \in Nat : k <= L - 1 => /\ Arranged(after[k], L)
                                             /\ Settled(after[k], L, L - k)}
  <2>5. 0 \in S
    <3>1. Settled(s, L, L - 0)
      BY DEF Settled
    <3>2. QED
      BY <2>4, <3>1
  <2>6. ASSUME NEW k \in Nat, k \in S PROVE k + 1 \in S
    <3> SUFFICES ASSUME k + 1 <= L - 1
                 PROVE  Arranged(after[k + 1], L) /\ Settled(after[k + 1], L, L - (k + 1))
      OBVIOUS
    <3>1. after[k + 1] = Pass(after[k], L - (k + 1))
      BY <2>4
    <3>2. Arranged(after[k], L) /\ Settled(after[k], L, L - k)
      BY <2>6
    <3>3. L - (k + 1) \in Nat /\ (L - (k + 1)) + 1 = L - k /\ L - k <= L
      OBVIOUS
    <3> HIDE DEF S
    <3>4. QED
      BY <3>1, <3>2, <3>3, PassSettles
  <2>7. Nat \subseteq S
    <3> HIDE DEF S
    <3>1. QED
      BY <2>5, <2>6, NatSetInduction
  <2>8. L - 1 \in S /\ L - 1 <= L - 1 /\ L - (L - 1) = 1
    BY <1>3, <2>7
  <2>9. QED
    BY <1>1, <1>3, <2>8
<1>4. QED
  BY <1>2, <1>3

-----------------------------------------------------------------------------
(***************************************************************************)
(* Sequences in an order.                                                  *)
(***************************************************************************)
\* Q[m] holds what may stand behind m.
OrderedBy(s, Q) == \A p, q \in 1..Len(s) : p < q => s[q] \in Q[s[p]]

\* Two sequences of the same members in the same order are equal.
LEMMA OneOrder ==
    ASSUME NEW V, NEW s \in Seq(V), NEW t \in Seq(V), NEW Q,
           \A m, n \in V : m \in Q[n] => n \notin Q[m],
           OrderedBy(s, Q), OrderedBy(t, Q),
           \A p \in 1..Len(s) : \E q \in 1..Len(t) : t[q] = s[p],
           \A q \in 1..Len(t) : \E p \in 1..Len(s) : s[p] = t[q]
    PROVE  s = t
PROOF
<1>1. /\ Len(s) \in Nat /\ Len(t) \in Nat
      /\ \A p \in 1..Len(s) : s[p] \in V
      /\ \A q \in 1..Len(t) : t[q] \in V
  OBVIOUS
<1>2. \A p, q \in 1..Len(s) : p < q => s[p] # s[q]
  BY <1>1 DEF OrderedBy
<1>3. \A p, q \in 1..Len(t) : p < q => t[p] # t[q]
  BY <1>1 DEF OrderedBy
<1> DEFINE Same(p) == p <= Len(s) /\ p <= Len(t) => s[p] = t[p]
           S == {k \in Nat : \A p \in 1..k : Same(p)}
<1>4. 0 \in S
  OBVIOUS
<1>5. ASSUME NEW k \in Nat, k \in S PROVE k + 1 \in S
  <2> SUFFICES ASSUME k + 1 <= Len(s), k + 1 <= Len(t) PROVE s[k + 1] = t[k + 1]
    <3>1. Same(k + 1)
      OBVIOUS
    <3> HIDE DEF Same
    <3>2. \A p \in 1..(k + 1) : p \in 1..k \/ p = k + 1
      OBVIOUS
    <3>3. QED
      BY <1>5, <3>1, <3>2
  <2>1. k + 1 \in 1..Len(s) /\ k + 1 \in 1..Len(t)
    BY <1>1
  <2>2. ASSUME NEW p \in 1..k
        PROVE  p \in 1..Len(s) /\ p \in 1..Len(t) /\ s[p] = t[p] /\ p < k + 1
    <3>1. p \in 1..Len(s) /\ p \in 1..Len(t) /\ p <= Len(s) /\ p <= Len(t) /\ p < k + 1
      <4> DEFINE a == Len(s)
                 b == Len(t)
      <4>1. a \in Nat /\ b \in Nat /\ k + 1 <= a /\ k + 1 <= b
        BY <1>1
      <4> HIDE DEF a, b
      <4>2. p \in 1..a /\ p \in 1..b /\ p <= a /\ p <= b /\ p < k + 1
        BY <4>1
      <4>3. QED
        BY <4>2 DEF a, b
    <3>2. s[p] = t[p]
      BY <1>5, <3>1
    <3>3. QED
      BY <3>1, <3>2
  <2> HIDE DEF S
  <2>3. PICK a \in 1..Len(t) : t[a] = s[k + 1]
    BY <2>1
  <2>4. PICK b \in 1..Len(s) : s[b] = t[k + 1]
    BY <2>1
  <2>5. ~(a < k + 1)
    <3>1. SUFFICES ASSUME a < k + 1 PROVE FALSE
      OBVIOUS
    <3>2. a \in 1..k
      BY <1>1, <3>1
    <3>3. QED
      BY <1>2, <2>1, <2>2, <2>3, <3>2
  <2>6. ~(b < k + 1)
    <3>1. SUFFICES ASSUME b < k + 1 PROVE FALSE
      OBVIOUS
    <3>2. b \in 1..k
      BY <1>1, <3>1
    <3>3. QED
      BY <1>3, <2>1, <2>2, <2>4, <3>2
  <2>7. CASE a = k + 1 \/ b = k + 1
    BY <2>3, <2>4, <2>7
  <2>8. CASE k + 1 < a /\ k + 1 < b
    <3>1. t[a] \in Q[t[k + 1]] /\ s[b] \in Q[s[k + 1]]
      BY <2>1, <2>8 DEF OrderedBy
    <3>2. s[k + 1] \in Q[t[k + 1]] /\ t[k + 1] \in Q[s[k + 1]]
      BY <2>3, <2>4, <3>1
    <3>3. QED
      BY <1>1, <2>1, <3>2
  <2>9. QED
    BY <1>1, <2>5, <2>6, <2>7, <2>8
<1>6. Nat \subseteq S
  <2> HIDE DEF S
  <2>1. QED
    BY <1>4, <1>5, NatSetInduction
<1>7. \A p \in 1..Len(s) : p <= Len(t) => s[p] = t[p]
  <2>1. Len(s) \in S
    BY <1>1, <1>6
  <2>2. QED
    BY <1>1, <2>1
<1> HIDE DEF S
<1>8. ~(Len(s) < Len(t))
  <2>1. SUFFICES ASSUME Len(s) < Len(t) PROVE FALSE
    OBVIOUS
  <2>2. Len(s) + 1 \in 1..Len(t)
    BY <1>1, <2>1
  <2>3. PICK p \in 1..Len(s) : s[p] = t[Len(s) + 1]
    BY <2>2
  <2>4. p \in 1..Len(t) /\ p < Len(s) + 1 /\ s[p] = t[p]
    BY <1>1, <1>7, <2>1
  <2>5. QED
    BY <1>3, <2>2, <2>3, <2>4
<1>9. ~(Len(t) < Len(s))
  <2>1. SUFFICES ASSUME Len(t) < Len(s) PROVE FALSE
    OBVIOUS
  <2>2. Len(t) + 1 \in 1..Len(s)
    BY <1>1, <2>1
  <2>3. PICK p \in 1..Len(t) : t[p] = s[Len(t) + 1]
    BY <2>2
  <2>4. p \in 1..Len(s) /\ p < Len(t) + 1 /\ s[p] = t[p]
    BY <1>1, <1>7, <2>1
  <2>5. QED
    BY <1>2, <2>2, <2>3, <2>4
<1>10. Len(s) = Len(t)
  BY <1>1, <1>8, <1>9
<1>11. QED
  BY <1>1, <1>7, <1>10, SeqEqual

\* Selecting from a sequence keeps the order.
LEMMA SelectedOrdered ==
    ASSUME NEW V, NEW s \in Seq(V), NEW Q, OrderedBy(s, Q), NEW chosen
    PROVE  OrderedBy(Selected(s, chosen), Q)
PROOF
<1>1. Len(s) \in Nat
  OBVIOUS
<1>2. PICK e : Picks(s, chosen, Len(s), Selected(s, chosen), e)
  BY SelectedPicks
<1> DEFINE r == Selected(s, chosen)
<1> HIDE DEF r
<1>3. ASSUME NEW p \in 1..Len(r), NEW q \in 1..Len(r), p < q PROVE r[q] \in Q[r[p]]
  <2>1. e[p] \in 1..Len(s) /\ e[q] \in 1..Len(s) /\ e[p] < e[q]
    BY <1>2, <1>3 DEF Picks, r
  <2>2. r[p] = s[e[p]] /\ r[q] = s[e[q]]
    BY <1>2 DEF Picks, r
  <2>3. QED
    BY <2>1, <2>2 DEF OrderedBy
<1>4. QED
  BY <1>3 DEF OrderedBy, r

\* A sequence is one of the values it holds.
LEMMA MembersTyped ==
    ASSUME NEW V, NEW s \in Seq(V), NEW C, \A p \in 1..Len(s) : s[p] \in C
    PROVE  s \in Seq(C)
PROOF
<1>1. Len(s) \in Nat /\ s \in [1..Len(s) -> V]
  BY LenProperties
<1>2. s \in [1..Len(s) -> C]
  BY <1>1
<1>3. QED
  BY <1>1, <1>2, SeqDef

\* The selected members are those in chosen.
LEMMA SelectedMembers ==
    ASSUME NEW V, NEW s \in Seq(V), NEW chosen
    PROVE  LET r == Selected(s, chosen)
           IN  /\ r \in Seq(V)
               /\ \A p \in 1..Len(r) : r[p] \in chosen /\ \E a \in 1..Len(s) : s[a] = r[p]
               /\ \A a \in 1..Len(s) : s[a] \in chosen => \E p \in 1..Len(r) : r[p] = s[a]
               /\ ToSet(r) = ToSet(s) \cap chosen
PROOF
<1> DEFINE r == Selected(s, chosen)
<1>1. r \in Seq(V)
  BY SelectedPicks
<1>2. PICK e : Picks(s, chosen, Len(s), r, e)
  BY SelectedPicks
<1> HIDE DEF r
<1>3. /\ \A p \in 1..Len(r) : e[p] \in 1..Len(s) /\ r[p] = s[e[p]] /\ r[p] \in chosen
      /\ \A a \in 1..Len(s) : s[a] \in chosen => \E p \in 1..Len(r) : r[p] = s[a]
  BY <1>2 DEF Picks
<1>4. \A p \in 1..Len(r) : \E a \in 1..Len(s) : s[a] = r[p]
  BY <1>3
<1>5. DOMAIN r = 1..Len(r) /\ DOMAIN s = 1..Len(s)
  BY <1>1
<1>6. ToSet(r) = ToSet(s) \cap chosen
  <2>1. ToSet(r) = {r[p] : p \in 1..Len(r)} /\ ToSet(s) = {s[a] : a \in 1..Len(s)}
    BY <1>5 DEF ToSet
  <2>2. ASSUME NEW v \in ToSet(r) PROVE v \in ToSet(s) \cap chosen
    <3>1. PICK p \in 1..Len(r) : v = r[p]
      BY <2>1
    <3>2. e[p] \in 1..Len(s) /\ v = s[e[p]] /\ v \in chosen
      BY <1>3, <3>1
    <3>3. QED
      BY <2>1, <3>2
  <2>3. ASSUME NEW v \in ToSet(s), v \in chosen PROVE v \in ToSet(r)
    <3>1. PICK a \in 1..Len(s) : v = s[a]
      BY <2>1
    <3>2. PICK p \in 1..Len(r) : v = r[p]
      BY <1>3, <2>3, <3>1
    <3>3. QED
      BY <2>1, <3>2
  <2>4. QED
    BY <2>2, <2>3
<1>7. QED
  BY <1>1, <1>3, <1>4, <1>6 DEF r

\* s lists the members of A, in the order Q.
Lists(V, s, A, Q) ==
    /\ s \in Seq(V)
    /\ \A p \in 1..Len(s) : s[p] \in A
    /\ \A m \in A : \E p \in 1..Len(s) : s[p] = m
    /\ OrderedBy(s, Q)

\* What two lists have in common stands in one order in both when their orders
\* agree on it.
LEMMA SameOrder ==
    ASSUME NEW V, NEW A, NEW B, NEW s, NEW t, NEW P, NEW R,
           Lists(V, s, A, P), Lists(V, t, B, R),
           \A m, n \in A : m \in P[n] => n \notin P[m],
           \A m, n \in A \cap B : n \in R[m] <=> n \in P[m]
    PROVE  Selected(s, B) = Selected(t, A)
PROOF
<1> DEFINE X == Selected(s, B)
           Y == Selected(t, A)
           C == A \cap B
<1>1. /\ X \in Seq(V)
      /\ \A p \in 1..Len(X) : X[p] \in B /\ \E a \in 1..Len(s) : s[a] = X[p]
      /\ \A a \in 1..Len(s) : s[a] \in B => \E p \in 1..Len(X) : X[p] = s[a]
      /\ OrderedBy(X, P)
  BY SelectedMembers, SelectedOrdered DEF Lists
<1>2. /\ Y \in Seq(V)
      /\ \A p \in 1..Len(Y) : Y[p] \in A /\ \E a \in 1..Len(t) : t[a] = Y[p]
      /\ \A a \in 1..Len(t) : t[a] \in A => \E p \in 1..Len(Y) : Y[p] = t[a]
      /\ OrderedBy(Y, R)
  BY SelectedMembers, SelectedOrdered DEF Lists
<1> HIDE DEF X, Y
<1>3. (\A p \in 1..Len(X) : X[p] \in C) /\ (\A p \in 1..Len(Y) : Y[p] \in C)
  BY <1>1, <1>2 DEF Lists
<1>4. \A m \in C : (\E p \in 1..Len(X) : X[p] = m) /\ (\E p \in 1..Len(Y) : Y[p] = m)
  <2> SUFFICES ASSUME NEW m \in C
               PROVE  (\E p \in 1..Len(X) : X[p] = m) /\ (\E p \in 1..Len(Y) : Y[p] = m)
    OBVIOUS
  <2>1. PICK a \in 1..Len(s) : s[a] = m
    BY DEF Lists
  <2>2. PICK b \in 1..Len(t) : t[b] = m
    BY DEF Lists
  <2>3. s[a] \in B /\ t[b] \in A
    BY <2>1, <2>2
  <2>4. \E p \in 1..Len(X) : X[p] = m
    BY <1>1, <2>1, <2>3
  <2>5. \E p \in 1..Len(Y) : Y[p] = m
    BY <1>2, <2>2, <2>3
  <2>6. QED
    BY <2>4, <2>5
<1>5. /\ X \in Seq(C) /\ OrderedBy(X, P)
      /\ Y \in Seq(C) /\ OrderedBy(Y, P)
  <2>1. X \in Seq(C) /\ Y \in Seq(C)
    BY <1>1, <1>2, <1>3, MembersTyped
  <2>2. OrderedBy(Y, P)
    <3>1. ASSUME NEW p \in 1..Len(Y), NEW q \in 1..Len(Y), p < q PROVE Y[q] \in P[Y[p]]
      <4>1. Y[p] \in C /\ Y[q] \in C /\ Y[q] \in R[Y[p]]
        BY <1>2, <1>3, <3>1 DEF OrderedBy
      <4>2. QED
        BY <4>1
    <3>2. QED
      BY <3>1 DEF OrderedBy
  <2>3. QED
    BY <1>1, <2>1, <2>2
<1>6. X = Y
  <2>1. \A m, n \in C : m \in P[n] => n \notin P[m]
    OBVIOUS
  <2> HIDE DEF C
  <2>2. QED
    BY <1>3, <1>4, <1>5, <2>1, OneOrder
<1>7. QED
  BY <1>6 DEF X, Y

-----------------------------------------------------------------------------
(***************************************************************************)
(* The listing.                                                            *)
(***************************************************************************)
\* m stands in front of n in a listing.
Before(m, n) == Made(m) > Made(n) \/ (Made(m) = Made(n) /\ KeyBefore(m, n))

Following == [m \in MACs |-> {n \in MACs : Before(m, n)}]

Listed == Lists(MACs, List, Recorded, Following)

LEMMA BeforeOneWay ==
    ASSUME Dated, NEW m \in Recorded, NEW n \in Recorded, Before(m, n)
    PROVE  ~Before(n, m)
PROOF
<1>1. Made(m) \in Nat /\ Made(n) \in Nat
  BY DEF Dated
<1>2. ~(KeyBefore(m, n) /\ KeyBefore(n, m))
  <2>1. SUFFICES ASSUME KeyBefore(m, n), KeyBefore(n, m) PROVE FALSE
    OBVIOUS
  <2>2. Len(KeyOrder) \in Nat
    BY KeyOrderAssumption
  <2>3. PICK p, q \in 1..Len(KeyOrder) : p < q /\ KeyOrder[p] = m /\ KeyOrder[q] = n
    BY <2>1 DEF KeyBefore
  <2>4. PICK a, b \in 1..Len(KeyOrder) : a < b /\ KeyOrder[a] = n /\ KeyOrder[b] = m
    BY <2>1 DEF KeyBefore
  <2>5. p = b /\ q = a
    BY <2>3, <2>4, KeyOrderAssumption
  <2>6. QED
    BY <2>2, <2>3, <2>4, <2>5
<1>3. QED
  BY <1>1, <1>2 DEF Before

\* The records in the order of their keys, as they are read.
LEMMA ReadArranged == LET s == Selected(KeyOrder, Recorded) IN
                      Len(s) \in Nat /\ Arranged(s, Len(s))
PROOF
<1> DEFINE s == Selected(KeyOrder, Recorded)
<1>1. KeyOrder \in Seq(MACs) /\ Len(KeyOrder) \in Nat
  BY KeyOrderAssumption
<1>2. /\ s \in Seq(MACs)
      /\ \A p \in 1..Len(s) : s[p] \in Recorded
      /\ \A a \in 1..Len(KeyOrder) : KeyOrder[a] \in Recorded => \E p \in 1..Len(s) : s[p] = KeyOrder[a]
  BY <1>1, SelectedMembers
<1>3. PICK e : Picks(KeyOrder, Recorded, Len(KeyOrder), s, e)
  BY <1>1, SelectedPicks
<1> HIDE DEF s
<1>4. Len(s) \in Nat /\ s \in [1..Len(s) -> Recorded]
  BY <1>2
<1>5. ASSUME NEW m \in Recorded PROVE \E p \in 1..Len(s) : s[p] = m
  <2>1. PICK a \in 1..Len(KeyOrder) : KeyOrder[a] = m
    BY KeyOrderAssumption DEF Recorded
  <2>2. QED
    BY <1>2, <2>1
<1>6. ASSUME NEW p \in 1..Len(s), NEW q \in 1..Len(s), p < q PROVE KeyBefore(s[p], s[q])
  <2>1. e[p] \in 1..Len(KeyOrder) /\ e[q] \in 1..Len(KeyOrder) /\ e[p] < e[q]
    BY <1>3, <1>6 DEF Picks
  <2>2. s[p] = KeyOrder[e[p]] /\ s[q] = KeyOrder[e[q]]
    BY <1>3 DEF Picks
  <2>3. QED
    BY <2>1, <2>2 DEF KeyBefore
<1>7. QED
  BY <1>4, <1>5, <1>6 DEF Arranged, s

LEMMA ListListed ==
    ASSUME Dated
    PROVE  Listed
PROOF
<1> DEFINE s == Selected(KeyOrder, Recorded)
           L == Len(s)
<1>1. L \in Nat /\ Arranged(s, L) /\ List = sortNodes(s)
  BY ReadArranged DEF List
<1> HIDE DEF s
<1>2. Arranged(List, L) /\ Settled(List, L, 1)
  BY <1>1, SortSettles
<1> HIDE DEF L
<1>3. List \in [1..L -> Recorded] /\ Recorded \subseteq MACs
  BY <1>2 DEF Arranged, Recorded
<1>4. List \in Seq(MACs) /\ Len(List) = L
  <2>1. List \in [1..L -> MACs]
    BY <1>3
  <2>2. List \in Seq(MACs)
    BY <1>1, <2>1, SeqDef
  <2>3. DOMAIN List = 1..L /\ DOMAIN List = 1..Len(List) /\ Len(List) \in Nat
    BY <2>1, <2>2, LenProperties
  <2>4. QED
    BY <1>1, <2>2, <2>3
<1>5. ASSUME NEW p \in 1..L, NEW q \in 1..L, p < q PROVE Before(List[p], List[q])
  <2>1. Made(List[p]) \in Nat /\ Made(List[q]) \in Nat
    BY <1>3 DEF Dated
  <2>2. Made(List[q]) <= Made(List[p])
    BY <1>1, <1>2, <1>5 DEF Settled
  <2>3. Made(List[p]) = Made(List[q]) => KeyBefore(List[p], List[q])
    BY <1>2, <1>5 DEF Arranged
  <2>4. QED
    BY <2>1, <2>2, <2>3 DEF Before
<1>6. OrderedBy(List, Following)
  BY <1>3, <1>4, <1>5 DEF OrderedBy, Following
<1>7. QED
  BY <1>2, <1>3, <1>4, <1>6 DEF Listed, Lists, Arranged

-----------------------------------------------------------------------------
(***************************************************************************)
(* The repository.                                                         *)
(***************************************************************************)
ListingInv == now \in Nat /\ StoreTypeOK

\* The records before and after a step that are the same machine's.
CreationKept ==
    \A m \in MACs : nodes[m] # NoNode /\ nodes'[m] # NoNode => nodes'[m].created = nodes[m].created

LEMMA ListingStep ==
    ASSUME ListingInv, [ListingNext]_listingVars
    PROVE  ListingInv' /\ CreationKept
PROOF
<1> USE DEF ListingInv
<1>1. \A m \in MACs : nodes[m] # NoNode => nodes[m] \in Node
  BY DEF StoreTypeOK
<1>2. CASE ListingSave
  <2>1. PICK m \in MACs, s \in Status, c \in 0..now : Save(m, Copy(s, c))
    BY <1>2 DEF ListingSave
  <2> DEFINE node == Copy(s, c)
             n == Stored(m, node)
  <2>2. node \in Node
    <3>1. NewNode \in Node
      BY DEF NewNode, Node, Status
    <3>2. c \in Nat
      OBVIOUS
    <3>3. QED
      BY <3>1, <3>2 DEF Copy, Node
  <2> HIDE DEF node
  <2>3. n \in Node /\ (nodes[m] # NoNode => n.created = nodes[m].created)
    <3>1. nodes[m] # NoNode => nodes[m].created \in Nat
      BY <1>1 DEF Node
    <3>2. CASE nodes[m] = NoNode
      BY <2>2, <3>2 DEF Stored, Node
    <3>3. CASE nodes[m] # NoNode
      BY <2>2, <3>1, <3>3 DEF Stored, Node
    <3>4. QED
      BY <3>2, <3>3
  <2>4. nodes' = [nodes EXCEPT ![m] = n] /\ UNCHANGED <<db, now>>
    BY <1>2, <2>1 DEF ListingSave, Save, node
  <2> HIDE DEF n
  <2>5. StoreTypeOK'
    BY <2>3, <2>4 DEF StoreTypeOK
  <2>6. CreationKept
    BY <2>3, <2>4 DEF StoreTypeOK, CreationKept
  <2>7. QED
    BY <2>4, <2>5, <2>6
<1>3. CASE ListingUpdate
  <2>1. PICK m \in MACs, s \in Status : UpdateStatus(m, s)
    BY <1>3 DEF ListingUpdate
  <2> DEFINE n == [nodes[m] EXCEPT !.status = s]
  <2>2. nodes' = [nodes EXCEPT ![m] = n] /\ UNCHANGED <<db, now>>
    BY <1>3, <2>1 DEF ListingUpdate, UpdateStatus
  <2>3. n \in Node /\ n.created = nodes[m].created
    BY <1>1, <2>1 DEF UpdateStatus, Found, Node
  <2> HIDE DEF n
  <2>4. QED
    BY <2>2, <2>3 DEF StoreTypeOK, CreationKept
<1>4. CASE ListingDelete
  BY <1>4 DEF ListingDelete, Delete, StoreTypeOK, CreationKept
<1>5. CASE ListingClose \/ ListingOpen
  BY <1>5 DEF ListingClose, ListingOpen, Close, InitializeDB, StoreTypeOK, CreationKept
<1>6. CASE ListingTick
  BY <1>6 DEF ListingTick, Tick, storeVars, StoreTypeOK, CreationKept
<1>7. CASE UNCHANGED listingVars
  BY <1>7 DEF listingVars, storeVars, StoreTypeOK, CreationKept
<1>8. QED
  BY <1>2, <1>3, <1>4, <1>5, <1>6, <1>7 DEF ListingNext

LEMMA ListingInvariance == ListingSpec => []ListingInv
PROOF
<1>1. ListingInit => ListingInv
  BY DEF ListingInit, ClockInit, StoreInit, ListingInv, StoreTypeOK
<1>2. ListingInv /\ [ListingNext]_listingVars => ListingInv'
  BY ListingStep
<1>3. QED
  BY <1>1, <1>2, PTL DEF ListingSpec

LEMMA InvListed ==
    ASSUME ListingInv
    PROVE  Dated /\ Listed
PROOF
<1>1. Dated
  BY DEF ListingInv, StoreTypeOK, Dated, Made, Recorded, Node
<1>2. QED
  BY <1>1, ListListed

\* A listing shows every record once, newest first, those of one time in the
\* order of their keys, and each record is listed under one of the statuses
\* (List and ListByStatus).
THEOREM ListingSorted == ListingSpec => []ListSorted
PROOF
<1>1. ListingInv => ListSorted
  <2> SUFFICES ASSUME ListingInv PROVE ListSorted
    OBVIOUS
  <2>1. Listed
    BY InvListed
  <2>2. ToSet(List) = Recorded
    <3>1. DOMAIN List = 1..Len(List)
      BY <2>1 DEF Listed, Lists
    <3>2. QED
      BY <2>1, <3>1 DEF Listed, Lists, ToSet
  <2>3. \A i, j \in 1..Len(List) : i < j => InOrder(List, i, j)
    <3>1. \A i, j \in 1..Len(List) : i < j => Before(List[i], List[j])
      BY <2>1 DEF Listed, Lists, OrderedBy, Following, Recorded
    <3>2. QED
      BY <3>1 DEF Before, KeyBefore, Made, InOrder
  <2>4. \A s \in Status : ToSet(ListByStatus(s)) = {m \in Recorded : nodes[m].status = s}
    <3>1. ASSUME NEW s \in Status
          PROVE  ToSet(ListByStatus(s)) = ToSet(List) \cap {m \in Recorded : nodes[m].status = s}
      BY <2>1, SelectedMembers DEF Listed, Lists, ListByStatus
    <3>2. QED
      BY <2>2, <3>1
  <2>5. \A m \in Recorded : nodes[m].status \in Status
    BY DEF ListingInv, StoreTypeOK, Recorded, Node
  <2>6. Recorded = UNION {ToSet(ListByStatus(s)) : s \in Status}
    BY <2>4, <2>5
  <2>7. QED
    BY <2>2, <2>3, <2>6 DEF ListSorted
<1>2. QED
  BY <1>1, ListingInvariance, PTL

\* Records keep their order in the listing until they are deleted, whichever old
\* copies are saved (Save keeps the creation time of an existing record).
THEOREM ListingOrderKept == ListingSpec => ListOrderKept
PROOF
<1> DEFINE A == Selected(List, Recorded') = Selected(List', Recorded)
<1>1. ListingInv' => Dated' /\ Listed'
  BY InvListed, PTL
<1>2. ListingInv /\ [ListingNext]_listingVars => A
  <2> SUFFICES ASSUME ListingInv, [ListingNext]_listingVars PROVE A
    OBVIOUS
  <2>1. ListingInv' /\ CreationKept
    BY ListingStep
  <2>2. Dated /\ Listed /\ Dated' /\ Listed'
    BY <1>1, <2>1, InvListed
  <2>3. Lists(MACs, List, Recorded, Following)
    BY <2>2 DEF Listed
  <2>4. Lists(MACs, List', Recorded', Following')
    BY <2>2 DEF Listed
  <2>5. \A m, n \in Recorded : m \in Following[n] => n \notin Following[m]
    BY <2>2, BeforeOneWay DEF Recorded, Following
  <2>6. \A m, n \in Recorded \cap Recorded' : n \in Following'[m] <=> n \in Following[m]
    <3>1. \A m \in Recorded \cap Recorded' : Made(m)' = Made(m)
      BY <2>1 DEF CreationKept, Made, Recorded
    <3>2. \A m, n \in Recorded \cap Recorded' : Before(m, n)' <=> Before(m, n)
      BY <3>1 DEF Before, KeyBefore
    <3>3. QED
      BY <3>2 DEF Recorded, Following
  <2>7. QED
    BY <2>3, <2>4, <2>5, <2>6, SameOrder
<1>3. QED
  BY <1>2, ListingInvariance, PTL DEF ListOrderKept, ListingSpec
=============================================================================
