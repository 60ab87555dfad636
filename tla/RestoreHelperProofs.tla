------------------------- MODULE RestoreHelperProofs -------------------------
(***************************************************************************)
(* Proofs about RestoreHelper, for any tables, batches and connections: a  *)
(* byte goes to the table it belongs to, a failure stays with its table,   *)
(* and a restore without errors has loaded everything.                     *)
(*                                                                         *)
(* The connections and the helper walk the same list, each its own way.    *)
(* The inductive invariant relates the places: what is before the helper's *)
(* is over for its connection, and where the readers are follows from it.  *)
(***************************************************************************)
EXTENDS RestoreHelper, TLAPS, NaturalsInduction, WellFoundedInduction,
  SequenceTheorems

-----------------------------------------------------------------------------
(* Induction and recursion on numbers                                      *)

\* A set of numbers has a least one.
LEMMA LeastNumber ==
  ASSUME NEW T, T \subseteq Nat, T # {}
  PROVE  \E n \in T : \A m \in T : n <= m
<1> DEFINE R == OpToRel(<, Nat)
<1>1. PICK x \in T : \A y \in T : ~(<<y, x>> \in R)
  <2> HIDE DEF R
  <2> QED
    BY WFMin, NatLessThanWellFounded DEF R
<1>2. \A a, b \in Nat : a < b => <<a, b>> \in R
  <2>1. R = {ss \in Nat \X Nat : ss[1] < ss[2]}
    BY DEF OpToRel
  <2> QED
    BY <2>1
<1>3. \A y \in T : x <= y
  <2> SUFFICES ASSUME NEW y \in T PROVE x <= y
    OBVIOUS
  <2>1. x \in Nat /\ y \in Nat
    OBVIOUS
  <2>2. ~(y < x)
    <3> HIDE DEF R
    <3> QED
      BY <1>1, <1>2, <2>1, Zenon
  <2> QED
    BY <2>1, <2>2
<1> QED
  BY <1>3

\* A set that holds 0, and with a number the next, holds all numbers.
LEMMA Induction ==
  ASSUME NEW T, 0 \in T, \A k \in Nat : k \in T => k + 1 \in T
  PROVE  Nat \subseteq T
<1> DEFINE Out == {k \in Nat : k \notin T}
<1> SUFFICES ASSUME Out # {} PROVE FALSE
  OBVIOUS
<1>1. Out \subseteq Nat
  OBVIOUS
<1>2. PICK n \in Out : \A m \in Out : n <= m
  <2> HIDE DEF Out
  <2> QED
    BY <1>1, LeastNumber
<1>3. n \in Nat /\ n \notin T /\ n # 0
  OBVIOUS
<1>4. n - 1 \in Nat /\ n - 1 \notin Out
  BY <1>2, <1>3
<1>5. n - 1 \in T /\ (n - 1) + 1 = n
  BY <1>3, <1>4
<1> QED
  BY <1>3, <1>4, <1>5

\* f begins with a and goes on by step, up to n.
Iterates(f, S, n, a, step) ==
  /\ f \in [0..n -> S] /\ f[0] = a
  /\ \A i \in 1..n : f[i] = step[<<i, f[i - 1]>>]

\* There is a function that begins with a and goes on by step.
LEMMA RecursionExists ==
  ASSUME NEW S, NEW n \in Nat, NEW a \in S, NEW step \in [(1..n) \X S -> S]
  PROVE  \E f : Iterates(f, S, n, a, step)
<1> DEFINE Upto(f, k) == /\ f \in [0..k -> S] /\ f[0] = a
                         /\ \A i \in 1..k : f[i] = step[<<i, f[i - 1]>>]
           T == {k \in Nat : k <= n => \E f : Upto(f, k)}
<1>1. 0 \in T
  <2>1. Upto([i \in 0..0 |-> a], 0)
    OBVIOUS
  <2> QED
    BY <2>1
<1>2. ASSUME NEW k \in Nat, k \in T PROVE k + 1 \in T
  <2> SUFFICES ASSUME k + 1 <= n PROVE \E f : Upto(f, k + 1)
    OBVIOUS
  <2>1. PICK f : Upto(f, k)
    BY <1>2
  <2> DEFINE h == [i \in 0..k + 1 |-> IF i = k + 1 THEN step[<<i, f[k]>>] ELSE f[i]]
  <2>2. f \in [0..k -> S] /\ f[0] = a
    BY <2>1
  <2>3. f[k] \in S /\ step[<<k + 1, f[k]>>] \in S
    BY <2>2
  <2>4. h \in [0..k + 1 -> S] /\ h[0] = a
    <3>1. ASSUME NEW i \in 0..k + 1 PROVE h[i] \in S
      <4>1. CASE i = k + 1
        BY <4>1, <2>3
      <4>2. CASE i # k + 1
        BY <4>2, <2>2
      <4> QED
        BY <4>1, <4>2
    <3> QED
      BY <3>1, <2>2
  <2>5. ASSUME NEW i \in 1..k + 1 PROVE h[i] = step[<<i, h[i - 1]>>]
    <3>1. CASE i = k + 1
      <4>1. h[i - 1] = f[k] /\ h[i] = step[<<i, f[k]>>]
        BY <3>1
      <4> QED
        BY <4>1
    <3>2. CASE i # k + 1
      <4>1. i \in 1..k /\ h[i - 1] = f[i - 1] /\ h[i] = f[i]
        BY <3>2
      <4>2. f[i] = step[<<i, f[i - 1]>>]
        BY <4>1, <2>1
      <4> HIDE DEF h
      <4> QED
        BY <4>1, <4>2
    <3> QED
      BY <3>1, <3>2
  <2>6. Upto(h, k + 1)
    <3> HIDE DEF h
    <3> QED
      BY <2>4, <2>5
  <2> QED
    BY <2>6
<1>3. n \in T
  <2> HIDE DEF T
  <2> QED
    BY <1>1, <1>2, Induction
<1> QED
  BY <1>3 DEF Iterates

-----------------------------------------------------------------------------
(* Sums                                                                    *)

LEMMA SumsUnfold ==
  ASSUME NEW n \in Nat, NEW f \in [1..n -> Nat]
  PROVE  /\ Sums(f) \in [0..n -> Nat]
         /\ Sums(f)[0] = 0
         /\ \A i \in 1..n : Sums(f)[i] = Sums(f)[i - 1] + f[i]
<1> DEFINE step == [p \in (1..n) \X Nat |-> p[2] + f[p[1]]]
           IsSum(g) == g = [i \in 0..n |-> IF i = 0 THEN 0 ELSE g[i - 1] + f[i]]
<1>1. step \in [(1..n) \X Nat -> Nat]
  OBVIOUS
<1>2. PICK g : Iterates(g, Nat, n, 0, step)
  <2>1. 0 \in Nat
    OBVIOUS
  <2> HIDE DEF step
  <2> QED
    BY <1>1, <2>1, RecursionExists
<1>3. g \in [0..n -> Nat] /\ g[0] = 0 /\ \A i \in 1..n : g[i] = g[i - 1] + f[i]
  <2>1. g \in [0..n -> Nat] /\ g[0] = 0
    BY <1>2 DEF Iterates
  <2>2. ASSUME NEW i \in 1..n PROVE g[i] = g[i - 1] + f[i]
    <3>1. g[i - 1] \in Nat
      BY <2>1
    <3>2. step[<<i, g[i - 1]>>] = g[i - 1] + f[i]
      BY <3>1
    <3> QED
      BY <3>2, <1>2 DEF Iterates
  <2> QED
    BY <2>1, <2>2
<1>4. IsSum(g)
  BY <1>3
<1>5. Len(f) = n
  OBVIOUS
<1>6. Sums(f) = CHOOSE h : IsSum(h)
  BY <1>5 DEF Sums
<1>7. IsSum(Sums(f))
  <2> HIDE DEF IsSum
  <2> QED
    BY <1>4, <1>6
<1> DEFINE s == Sums(f)
<1> HIDE DEF s
<1>8. s = [i \in 0..n |-> IF i = 0 THEN 0 ELSE s[i - 1] + f[i]]
  BY <1>7 DEF s
<1>9. DOMAIN s = 0..n /\ s[0] = 0 /\ \A i \in 1..n : s[i] = s[i - 1] + f[i]
  BY <1>8
<1>10. \A i \in 0..n : s[i] \in Nat
  <2> DEFINE T == {i \in Nat : i <= n => s[i] \in Nat}
  <2>1. 0 \in T
    BY <1>9
  <2>2. ASSUME NEW k \in Nat, k \in T PROVE k + 1 \in T
    <3> SUFFICES ASSUME k + 1 <= n PROVE s[k + 1] \in Nat
      OBVIOUS
    <3>1. s[k] \in Nat /\ k + 1 \in 1..n
      BY <2>2
    <3>2. s[k + 1] = s[k] + f[k + 1] /\ f[k + 1] \in Nat
      BY <3>1, <1>9
    <3> QED
      BY <3>1, <3>2
  <2>3. Nat \subseteq T
    <3> HIDE DEF T
    <3> QED
      BY <2>1, <2>2, Induction
  <2> QED
    BY <2>3
<1>11. s = [i \in 0..n |-> s[i]]
  BY <1>8
<1>12. s \in [0..n -> Nat]
  BY <1>10, <1>11
<1> QED
  BY <1>9, <1>12 DEF s

\* A sum grows, from i to j by at most b for each place.
LEMMA SumsGrow ==
  ASSUME NEW n \in Nat, NEW f \in [1..n -> Nat], NEW i \in 0..n, NEW j \in i..n
  PROVE  /\ Sums(f)[i] <= Sums(f)[j]
         /\ \A b \in Nat : (\A k \in 1..n : f[k] <= b) =>
              Sums(f)[j] - Sums(f)[i] <= (j - i) * b
<1> DEFINE s == Sums(f)
           T == {d \in Nat : i + d <= n =>
                   /\ s[i] <= s[i + d]
                   /\ \A b \in Nat : (\A k \in 1..n : f[k] <= b) =>
                        s[i + d] - s[i] <= d * b}
<1>1. s \in [0..n -> Nat] /\ \A k \in 1..n : s[k] = s[k - 1] + f[k]
  BY SumsUnfold
<1> HIDE DEF s
<1>2. 0 \in T
  BY <1>1
<1>3. ASSUME NEW d \in Nat, d \in T PROVE d + 1 \in T
  <2> SUFFICES ASSUME i + (d + 1) <= n
               PROVE  /\ s[i] <= s[i + (d + 1)]
                      /\ \A b \in Nat : (\A k \in 1..n : f[k] <= b) =>
                           s[i + (d + 1)] - s[i] <= (d + 1) * b
    OBVIOUS
  <2>1. i + d \in 0..n /\ i + (d + 1) \in 1..n /\ (i + (d + 1)) - 1 = i + d
    OBVIOUS
  <2>2. s[i + (d + 1)] = s[i + d] + f[i + (d + 1)] /\ f[i + (d + 1)] \in Nat
    BY <1>1, <2>1
  <2>3. s[i] \in Nat /\ s[i + d] \in Nat
    BY <1>1, <2>1
  <2>4. s[i] <= s[i + d]
    BY <1>3, <2>1
  <2>5. ASSUME NEW b \in Nat, \A k \in 1..n : f[k] <= b
        PROVE  s[i + (d + 1)] - s[i] <= (d + 1) * b
    <3>1. s[i + d] - s[i] <= d * b
      BY <1>3, <2>1, <2>5
    <3>2. f[i + (d + 1)] <= b
      BY <2>1, <2>5
    <3>3. (d + 1) * b = d * b + b /\ d * b \in Nat
      OBVIOUS
    <3> QED
      BY <2>2, <2>3, <3>1, <3>2, <3>3
  <2> QED
    BY <2>2, <2>3, <2>4, <2>5
<1>4. Nat \subseteq T
  <2> HIDE DEF T
  <2> QED
    BY <1>2, <1>3, Induction
<1>5. i + (j - i) = j /\ j <= n /\ j - i \in Nat
  OBVIOUS
<1> QED
  BY <1>4, <1>5 DEF s

\* Terms that are smaller have smaller sums.
LEMMA SumsCompare ==
  ASSUME NEW n \in Nat, NEW f \in [1..n -> Nat], NEW g \in [1..n -> Nat],
         \A k \in 1..n : f[k] <= g[k]
  PROVE  \A i \in 0..n : Sums(f)[i] <= Sums(g)[i]
<1> DEFINE s == Sums(f)
           t == Sums(g)
           T == {i \in Nat : i <= n => s[i] <= t[i]}
<1>1. /\ s \in [0..n -> Nat] /\ s[0] = 0
      /\ \A k \in 1..n : s[k] = s[k - 1] + f[k]
  BY SumsUnfold
<1>2. /\ t \in [0..n -> Nat] /\ t[0] = 0
      /\ \A k \in 1..n : t[k] = t[k - 1] + g[k]
  BY SumsUnfold
<1> HIDE DEF s, t
<1>3. 0 \in T
  BY <1>1, <1>2
<1>4. ASSUME NEW i \in Nat, i \in T PROVE i + 1 \in T
  <2> SUFFICES ASSUME i + 1 <= n PROVE s[i + 1] <= t[i + 1]
    OBVIOUS
  <2>1. i \in 0..n /\ i + 1 \in 1..n /\ (i + 1) - 1 = i /\ s[i] <= t[i]
    BY <1>4
  <2>2. s[i + 1] = s[i] + f[i + 1] /\ t[i + 1] = t[i] + g[i + 1]
    BY <1>1, <1>2, <2>1
  <2>3. s[i] \in Nat /\ t[i] \in Nat /\ f[i + 1] \in Nat /\ g[i + 1] \in Nat
    BY <1>1, <1>2, <2>1
  <2> QED
    BY <2>1, <2>2, <2>3
<1>5. Nat \subseteq T
  <2> HIDE DEF T
  <2> QED
    BY <1>3, <1>4, Induction
<1> QED
  BY <1>5 DEF s, t

-----------------------------------------------------------------------------
(* The oid list                                                            *)

LEMMA Concatenated ==
  ASSUME NEW X, NEW s \in Seq(X), NEW r \in Seq(X)
  PROVE  /\ s \o r \in Seq(X) /\ Len(s \o r) = Len(s) + Len(r)
         /\ \A k \in 1..Len(s) : (s \o r)[k] = s[k]
         /\ \A k \in 1..Len(r) : (s \o r)[Len(s) + k] = r[k]
OBVIOUS

\* f are the beginnings of FlattenSeq(ss).
Flattens(f, X, ss, n) ==
  /\ f \in [0..n -> Seq(X)] /\ f[0] = <<>>
  /\ \A i \in 1..n : f[i] = f[i - 1] \o ss[i]
  /\ FlattenSeq(ss) = f[n]

LEMMA FlattenUnfold ==
  ASSUME NEW X, NEW n \in Nat \ {0}, NEW ss \in [1..n -> Seq(X)]
  PROVE  \E f : Flattens(f, X, ss, n)
<1> DEFINE step == [p \in (1..n) \X Seq(X) |-> p[2] \o ss[p[1]]]
           IsFlat(g) == g = [i \in 1..n |-> IF i = 1 THEN ss[i] ELSE g[i - 1] \o ss[i]]
<1>0. 1 \in 1..n /\ n \in 1..n /\ 1 - 1 = 0
  OBVIOUS
<1>1. step \in [(1..n) \X Seq(X) -> Seq(X)]
  OBVIOUS
<1>2. PICK f : Iterates(f, Seq(X), n, <<>>, step)
  <2>1. <<>> \in Seq(X)
    OBVIOUS
  <2> HIDE DEF step
  <2> QED
    BY <1>1, <2>1, RecursionExists
<1>3. /\ f \in [0..n -> Seq(X)] /\ f[0] = <<>>
      /\ \A i \in 1..n : f[i] = f[i - 1] \o ss[i]
  <2>1. f \in [0..n -> Seq(X)] /\ f[0] = <<>>
    BY <1>2 DEF Iterates
  <2>2. ASSUME NEW i \in 1..n PROVE f[i] = f[i - 1] \o ss[i]
    <3>1. f[i - 1] \in Seq(X)
      BY <2>1
    <3>2. step[<<i, f[i - 1]>>] = f[i - 1] \o ss[i]
      BY <3>1
    <3> QED
      BY <3>2, <1>2 DEF Iterates
  <2> QED
    BY <2>1, <2>2
<1> DEFINE g == [i \in 1..n |-> f[i]]
<1>4. IsFlat(g)
  <2>1. f[1] = ss[1]
    <3>1. f[1] = f[1 - 1] \o ss[1]
      BY <1>0, <1>3
    <3>2. ss[1] \in Seq(X)
      OBVIOUS
    <3>3. <<>> \o ss[1] = ss[1]
      BY <3>2
    <3> QED
      BY <3>1, <3>3, <1>0, <1>3
  <2>2. ASSUME NEW i \in 1..n
        PROVE  g[i] = IF i = 1 THEN ss[i] ELSE g[i - 1] \o ss[i]
    <3>1. CASE i = 1
      BY <3>1, <2>1
    <3>2. CASE i # 1
      <4>1. i - 1 \in 1..n /\ g[i - 1] = f[i - 1]
        BY <3>2
      <4>2. g[i] = f[i]
        OBVIOUS
      <4> HIDE DEF g
      <4> QED
        BY <3>2, <4>1, <4>2, <1>3
    <3> QED
      BY <3>1, <3>2
  <2>3. g = [i \in 1..n |-> g[i]]
    OBVIOUS
  <2> HIDE DEF g
  <2> QED
    BY <2>2, <2>3
<1>5. Len(ss) = n /\ n # 0
  OBVIOUS
<1>6. FlattenSeq(ss) = (CHOOSE h : IsFlat(h))[n]
  BY <1>5 DEF FlattenSeq
<1> DEFINE h == CHOOSE h : IsFlat(h)
<1>7. IsFlat(h)
  <2> HIDE DEF IsFlat
  <2> QED
    BY <1>4
<1>8. FlattenSeq(ss) = h[n]
  BY <1>6
<1> HIDE DEF h, g
<1>9. \A i \in 1..n : h[i] = IF i = 1 THEN ss[i] ELSE h[i - 1] \o ss[i]
  BY <1>7
<1>10. \A i \in 1..n : h[i] = f[i]
  <2> DEFINE T == {k \in Nat : k + 1 <= n => h[k + 1] = f[k + 1]}
  <2>1. 0 \in T
    <3>1. ss[1] \in Seq(X) /\ <<>> \o ss[1] = ss[1]
      BY <1>0
    <3>2. f[1] = f[1 - 1] \o ss[1]
      BY <1>0, <1>3
    <3>3. h[1] = ss[1]
      BY <1>0, <1>9
    <3>4. f[1] = ss[1]
      BY <3>1, <3>2, <1>0, <1>3
    <3> QED
      BY <3>3, <3>4
  <2>2. ASSUME NEW k \in Nat, k \in T PROVE k + 1 \in T
    <3> SUFFICES ASSUME (k + 1) + 1 <= n PROVE h[(k + 1) + 1] = f[(k + 1) + 1]
      OBVIOUS
    <3>1. h[k + 1] = f[k + 1]
      BY <2>2
    <3>2. (k + 1) + 1 \in 1..n /\ ((k + 1) + 1) - 1 = k + 1 /\ (k + 1) + 1 # 1
      OBVIOUS
    <3>3. f[(k + 1) + 1] = f[k + 1] \o ss[(k + 1) + 1]
      BY <3>2, <1>3
    <3>4. h[(k + 1) + 1] = h[k + 1] \o ss[(k + 1) + 1]
      BY <3>2, <1>9
    <3> QED
      BY <3>1, <3>3, <3>4
  <2>3. Nat \subseteq T
    <3> HIDE DEF T
    <3> QED
      BY <2>1, <2>2, Induction
  <2>4. ASSUME NEW i \in 1..n PROVE h[i] = f[i]
    <3>1. i - 1 \in Nat /\ (i - 1) + 1 = i
      OBVIOUS
    <3>2. i - 1 \in T
      BY <3>1, <2>3
    <3>3. h[(i - 1) + 1] = f[(i - 1) + 1]
      BY <3>1, <3>2
    <3> QED
      BY <3>1, <3>3
  <2> QED
    BY <2>4
<1>11. Flattens(f, X, ss, n)
  BY <1>0, <1>3, <1>8, <1>10 DEF Flattens
<1> QED
  BY <1>11

\* What stands where in a list of lists, up to the m-th.
Laid(s, X, ss, m, upto) ==
  /\ s \in Seq(X) /\ Len(s) = upto[m]
  /\ \A i \in 1..m : \A b \in 1..Len(ss[i]) :
       upto[i - 1] + b \in 1..Len(s) /\ s[upto[i - 1] + b] = ss[i][b]
  /\ \A k \in 1..Len(s) : \E i \in 1..m : \E b \in 1..Len(ss[i]) :
       k = upto[i - 1] + b

LEMMA FlattenPlaces ==
  ASSUME NEW X, NEW n \in Nat \ {0}, NEW ss \in [1..n -> Seq(X)]
  PROVE  Laid(FlattenSeq(ss), X, ss, n, Sums([i \in 1..n |-> Len(ss[i])]))
<1> DEFINE lens == [i \in 1..n |-> Len(ss[i])]
           up == Sums(lens)
<1>1. PICK f : Flattens(f, X, ss, n)
  BY FlattenUnfold
<1>2. /\ f \in [0..n -> Seq(X)] /\ f[0] = <<>>
      /\ \A i \in 1..n : f[i] = f[i - 1] \o ss[i]
  BY <1>1 DEF Flattens
<1>3. lens \in [1..n -> Nat]
  OBVIOUS
<1>4. /\ up \in [0..n -> Nat] /\ up[0] = 0
      /\ \A i \in 1..n : up[i] = up[i - 1] + lens[i]
  <2> HIDE DEF lens
  <2> QED
    BY <1>3, SumsUnfold
<1>5. \A i \in 1..n : up[i] = up[i - 1] + Len(ss[i])
  BY <1>4
<1> HIDE DEF up, lens
<1> DEFINE T == {m \in Nat : m <= n => Laid(f[m], X, ss, m, up)}
<1>6. 0 \in T
  <2>1. f[0] \in Seq(X) /\ Len(f[0]) = up[0] /\ Len(f[0]) = 0
    BY <1>2, <1>4
  <2>2. 1..0 = {} /\ 1..Len(f[0]) = {}
    BY <2>1
  <2>3. Laid(f[0], X, ss, 0, up)
    BY <2>1, <2>2 DEF Laid
  <2> QED
    BY <2>3
<1>7. ASSUME NEW m \in Nat, m \in T PROVE m + 1 \in T
  <2> SUFFICES ASSUME m + 1 <= n PROVE Laid(f[m + 1], X, ss, m + 1, up)
    OBVIOUS
  <2> DEFINE s == f[m]
             t == f[m + 1]
             r == ss[m + 1]
  <2>1. /\ s \in Seq(X) /\ Len(s) = up[m]
        /\ \A i \in 1..m : \A b \in 1..Len(ss[i]) :
             up[i - 1] + b \in 1..Len(s) /\ s[up[i - 1] + b] = ss[i][b]
        /\ \A k \in 1..Len(s) : \E i \in 1..m : \E b \in 1..Len(ss[i]) :
             k = up[i - 1] + b
    BY <1>7 DEF Laid
  <2>2. m + 1 \in 1..n /\ (m + 1) - 1 = m
    OBVIOUS
  <2>3. t = s \o r /\ r \in Seq(X)
    BY <2>2, <1>2
  <2>4. up[m + 1] = up[m] + Len(r)
    BY <2>2, <1>5
  <2> HIDE DEF s, t, r
  <2>5. /\ t \in Seq(X) /\ Len(t) = Len(s) + Len(r)
        /\ \A k \in 1..Len(s) : t[k] = s[k]
        /\ \A k \in 1..Len(r) : t[Len(s) + k] = r[k]
    <3>1. s \in Seq(X) /\ r \in Seq(X)
      BY <2>1, <2>3
    <3>2. /\ s \o r \in Seq(X) /\ Len(s \o r) = Len(s) + Len(r)
          /\ \A k \in 1..Len(s) : (s \o r)[k] = s[k]
          /\ \A k \in 1..Len(r) : (s \o r)[Len(s) + k] = r[k]
      BY <3>1, Concatenated
    <3> QED
      BY <2>3, <3>2
  <2>6. Len(s) \in Nat /\ Len(r) \in Nat
    BY <2>1, <2>3
  <2>7. Len(t) = up[m + 1]
    BY <2>1, <2>4, <2>5
  <2>8. ASSUME NEW i \in 1..m + 1, NEW b \in 1..Len(ss[i])
        PROVE  up[i - 1] + b \in 1..Len(t) /\ t[up[i - 1] + b] = ss[i][b]
    <3>1. CASE i = m + 1
      <4>1. b \in 1..Len(r) /\ up[i - 1] = Len(s) /\ ss[i] = r
        BY <3>1, <2>1, <2>2 DEF r
      <4> QED
        BY <4>1, <2>5, <2>6
    <3>2. CASE i # m + 1
      <4>1. i \in 1..m
        BY <3>2
      <4>2. up[i - 1] + b \in 1..Len(s) /\ s[up[i - 1] + b] = ss[i][b]
        BY <4>1, <2>1
      <4> QED
        BY <4>2, <2>5, <2>6, SMTT(30)
    <3> QED
      BY <3>1, <3>2
  <2>9. ASSUME NEW k \in 1..Len(t)
        PROVE  \E i \in 1..m + 1 : \E b \in 1..Len(ss[i]) : k = up[i - 1] + b
    <3>1. CASE k <= Len(s)
      <4>1. k \in 1..Len(s)
        BY <3>1, <2>6
      <4>2. PICK i \in 1..m : \E b \in 1..Len(ss[i]) : k = up[i - 1] + b
        BY <4>1, <2>1
      <4>3. i \in 1..m + 1
        OBVIOUS
      <4> QED
        BY <4>2, <4>3
    <3>2. CASE k > Len(s)
      <4>1. k - Len(s) \in 1..Len(r) /\ k = Len(s) + (k - Len(s))
        BY <3>2, <2>5, <2>6
      <4>2. k = up[(m + 1) - 1] + (k - Len(s))
        BY <4>1, <2>1, <2>2
      <4>3. m + 1 \in 1..m + 1 /\ Len(ss[m + 1]) = Len(r)
        BY DEF r
      <4> QED
        BY <4>1, <4>2, <4>3
    <3> QED
      BY <3>1, <3>2, <2>6
  <2>10. Laid(t, X, ss, m + 1, up)
    BY <2>5, <2>7, <2>8, <2>9 DEF Laid
  <2> QED
    BY <2>10 DEF t
<1>8. Nat \subseteq T
  <2> HIDE DEF T
  <2> QED
    BY <1>6, <1>7, Induction
<1>9. Laid(f[n], X, ss, n, up)
  BY <1>8
<1>10. FlattenSeq(ss) = f[n]
  BY <1>1 DEF Flattens
<1> QED
  BY <1>9, <1>10 DEF up, lens

-----------------------------------------------------------------------------
(* The inductive invariant                                                 *)

TableCount == Len(Sizes)
EntryCount == Len(Entries)
ListLength == Len(oidWithBatchList)

\* The connection that restores entry i.
Owner(i) == ((i - 1) % NumConns) + 1

\* A turn is an entry and one of its batches; Place is its place in the list.
Turns == {p \in (DOMAIN Entries) \X BatchNumbers : p[2] < BatchesOf(Entries[p[1]])}
Turn(c)   == <<entry[c], batch[c]>>
PipeOf(p) == <<Entries[p[1]], p[2]>>
PipesUpTo == Sums([i \in DOMAIN Entries |-> BatchesOf(Entries[i])])
Place(p)  == PipesUpTo[p[1] - 1] + p[2] + 1

Looping == helperPc \in {"create", "open", "position", "copy"}
Busy(c) == stage[c] \notin {"idle", "done"}

\* Where the helper is in the list, in the table and past which table.
HelperInv ==
  /\ at \in 1..ListLength + 1
  /\ Looping \/ helperPc = "failed" => at <= ListLength
  /\ Looping /\ helperPc # "create" => Oid # skipOid
  /\ Looping /\ helperPc # "copy" => copied = 0
  /\ helperPc = "copy" => copied <= Size
  /\ Looping => skipOid <= Oid

PosInv == \A b \in BatchNumbers : pos[b] <= StreamSize(b)

\* A reader that is positioned is where the helper believes it is.
SeekInv ==
  setup.reader # "subset" =>
    /\ discardErr = {}
    /\ Looping => \A b \in BatchNumbers :
         pos[b] = IF helperPc = "copy" /\ b = BatchNum /\ b < setup.files
                  THEN Start + copied ELSE lastByte[b]

\* A subset reader is after the current table if its batch is over, or the table
\* passed over, else before it.
StreamPlace(b) ==
  StreamEnd[setup][b][IF b < BatchNum \/ skipOid = Oid THEN Oid ELSE Oid - 1]
CopiedFrom(b) == IF helperPc = "copy" /\ b = BatchNum THEN copied ELSE 0
SubsetInv ==
  setup.reader = "subset" /\ Looping /\ ~Shifted =>
    \A b \in BatchNumbers :
      b < setup.files /\ b \notin discardErr =>
        pos[b] = StreamPlace(b) + CopiedFrom(b)

\* Every connection keeps to its own entries, a table has a verdict once its
\* entry is over, and a cancelled restore has a table to show for it.
ConnInv ==
  /\ \A c \in Conns :
       /\ Owner(entry[c]) = c
       /\ Busy(c) => Turn(c) \in Turns
       /\ stage[c] = "done" => cancelled \/ entry[c] > EntryCount
  /\ \A i \in DOMAIN Entries :
       status[Entries[i]] = "todo" <=> entry[Owner(i)] <= i
  /\ cancelled => \E t \in Restored : status[t] \in Bad
  /\ \A t \in Restored : status[t] = "restored" => rows[t] = Expected(t)

\* Only a table whose COPY failed is passed over.
SkipInv ==
  /\ \A t \in skipFiles : status[t] = "copyFailed"
  /\ skipOid # 0 => status[skipOid] = "copyFailed"

\* The COPY of turn p is over.
Beyond(p) ==
  LET c == Owner(p[1])
  IN  \/ p[1] < entry[c]
      \/ /\ p[1] = entry[c] /\ Busy(c)
         /\ p[2] < batch[c] \/ (p[2] = batch[c] /\ stage[c] \in {"eof", "failed"})

\* The helper leaves a pipe behind only when its COPY is over: none waits for
\* a helper that has passed it, and none meets its error file.
PassedInv ==
  /\ \A p \in Turns : Place(p) < at => Beyond(p)
  /\ helperPc \in {"position", "copy"} =>
       \A p \in Turns : Place(p) = at =>
         \/ Beyond(p)
         \/ stage[Owner(p[1])] = "reading" /\ Turn(Owner(p[1])) = p
  /\ errorFile => at > ListLength
  /\ \A c \in Conns : stage[c] # "found"
  /\ \A t \in Restored : status[t] # "agentFailed"

\* A table no reader failed on has the rows of its batches that are over.
RowsInv ==
  /\ \A c \in Conns :
       Busy(c) /\ stage[c] # "failed" /\ Entry(c) \notin hit =>
         rows[Entry(c)] =
           Loaded(Entry(c))[IF stage[c] = "eof" THEN batch[c] + 1 ELSE batch[c]]
  /\ \A i \in DOMAIN Entries :
       entry[Owner(i)] < i \/ (entry[Owner(i)] = i /\ ~Busy(Owner(i)))
         => rows[Entries[i]] = 0
  /\ \A t \in Restored : status[t] = "short" => t \in hit

\* Without any failure a COPY is over only when the helper has left its pipe,
\* and the pipes up to copyQueue ahead are there.
QueueInv ==
  /\ \A p \in Turns : Beyond(p) => Place(p) < at
  /\ Looping => \A n \in at..ListLength :
       n < at + copyQueue \/ (n = at + copyQueue /\ helperPc # "create")
         => pipe[oidWithBatchList[n]] = "fifo"

IInv ==
  /\ TypeOK /\ HelperInv /\ PosInv /\ SeekInv /\ SubsetInv /\ ConnInv /\ SkipInv
  /\ ~HardFailed => PassedInv /\ RowsInv
  /\ NothingFailed /\ ~HardFailed => QueueInv

-----------------------------------------------------------------------------
(* The tables and their turns                                              *)

LEMMA Assumed ==
  /\ Sizes \in [1..TableCount -> Nat] /\ TableCount \in Nat
  /\ Tables = 1..TableCount
  /\ Entries \in [1..EntryCount -> Tables] /\ EntryCount \in Nat \ {0}
  /\ DOMAIN Entries = 1..EntryCount
  /\ \A i, j \in DOMAIN Entries : i < j => Entries[i] < Entries[j]
  /\ Batches \in Nat \ {0} /\ NumConns \in Nat \ {0}
  /\ Restored \subseteq Tables
  /\ \A i \in DOMAIN Entries : Entries[i] \in Restored
<1>1. Sizes \in Seq(Nat) /\ Entries \in Seq(Tables) /\ Entries # <<>>
  BY RestoreAssumptions
<1>2. Sizes \in [1..TableCount -> Nat] /\ TableCount \in Nat /\ Tables = 1..TableCount
  BY <1>1 DEF Tables, TableCount
<1>3. Entries \in [1..EntryCount -> Tables] /\ EntryCount \in Nat
      /\ DOMAIN Entries = 1..EntryCount
  BY <1>1 DEF EntryCount
<1>4. EntryCount # 0
  BY <1>1, EmptySeq DEF EntryCount
<1>5. Restored \subseteq Tables /\ \A i \in DOMAIN Entries : Entries[i] \in Restored
  BY <1>3 DEF Restored
<1> QED
  BY <1>2, <1>3, <1>4, <1>5, RestoreAssumptions

\* The entries are in the order of the file, so none comes twice.
LEMMA EntriesOnce ==
  ASSUME NEW i \in DOMAIN Entries, NEW j \in DOMAIN Entries
  PROVE  /\ Entries[i] = Entries[j] => i = j
         /\ Entries[i] < Entries[j] <=> i < j
         /\ Entries[i] \in Nat \ {0}
<1>1. i \in Nat /\ j \in Nat /\ Entries[i] \in Nat \ {0} /\ Entries[j] \in Nat \ {0}
  BY Assumed
<1>2. (i < j => Entries[i] < Entries[j]) /\ (j < i => Entries[j] < Entries[i])
  BY Assumed
<1> QED
  BY <1>1, <1>2

LEMMA SetupFacts ==
  ASSUME setup \in Setups
  PROVE  /\ setup.files \in Nat /\ setup.files <= Batches
         /\ setup.files \in {Batches - 1, Batches}
         /\ setup.replicated \subseteq Tables
         /\ setup.reader \in {"seekable", "discard", "subset"}
         /\ setup.latest \in BOOLEAN
         /\ \A t : BatchesOf(t) \in 1..Batches
         /\ \A t \in Tables : t \notin setup.replicated => BatchesOf(t) = Batches
<1>1. /\ setup.reader \in {"seekable", "discard", "subset"}
      /\ setup.replicated \subseteq Tables
      /\ setup.files \in {Batches - 1, Batches}
      /\ setup.latest \in BOOLEAN
  BY RestoreAssumptions
<1>2. Batches \in Nat \ {0}
  BY RestoreAssumptions
<1>3. \A t : BatchesOf(t) \in 1..Batches
  BY <1>2 DEF BatchesOf, BatchesFor
<1>4. \A t \in Tables : t \notin setup.replicated => BatchesOf(t) = Batches
  BY DEF BatchesOf, BatchesFor
<1> QED
  BY <1>1, <1>2, <1>3, <1>4

\* How many pipes the first entries have.
LEMMA PipesCounted ==
  ASSUME setup \in Setups
  PROVE  /\ PipesUpTo \in [0..EntryCount -> Nat] /\ PipesUpTo[0] = 0
         /\ \A i \in DOMAIN Entries :
              PipesUpTo[i] = PipesUpTo[i - 1] + BatchesOf(Entries[i])
         /\ \A i \in 0..EntryCount : \A j \in i..EntryCount :
              /\ PipesUpTo[i] <= PipesUpTo[j]
              /\ PipesUpTo[j] - PipesUpTo[i] <= (j - i) * Batches
<1> DEFINE n == EntryCount
           f == [i \in 1..n |-> BatchesOf(Entries[i])]
<1>1. n \in Nat /\ DOMAIN Entries = 1..n /\ Batches \in Nat
  BY Assumed
<1>2. f \in [1..n -> Nat] /\ \A k \in 1..n : f[k] <= Batches
  BY SetupFacts
<1>3. PipesUpTo = Sums(f)
  BY <1>1 DEF PipesUpTo
<1>4. \A i \in 1..n : f[i] = BatchesOf(Entries[i])
  OBVIOUS
<1> HIDE DEF n, f
<1>5. /\ PipesUpTo \in [0..n -> Nat] /\ PipesUpTo[0] = 0
      /\ \A i \in 1..n : PipesUpTo[i] = PipesUpTo[i - 1] + f[i]
  BY <1>1, <1>2, <1>3, SumsUnfold
<1>6. ASSUME NEW i \in 0..n, NEW j \in i..n
      PROVE  /\ PipesUpTo[i] <= PipesUpTo[j]
             /\ PipesUpTo[j] - PipesUpTo[i] <= (j - i) * Batches
  BY <1>1, <1>2, <1>3, SumsGrow
<1> QED
  BY <1>1, <1>4, <1>5, <1>6 DEF n

\* The oid list: each turn is in it, once, and nothing else.
LEMMA ListPlaces ==
  ASSUME setup \in Setups
  PROVE  /\ ListLength = PipesUpTo[EntryCount]
         /\ ListLength \in Nat
         /\ oidWithBatchList \in [1..ListLength -> Pipes]
         /\ \A p \in Turns : /\ Place(p) \in 1..ListLength
                             /\ oidWithBatchList[Place(p)] = PipeOf(p)
         /\ \A n \in 1..ListLength : \E p \in Turns : Place(p) = n
<1> DEFINE n == EntryCount
           row(i) == [b \in 1..BatchesOf(Entries[i]) |-> <<Entries[i], b - 1>>]
           ss == [i \in 1..n |-> row(i)]
           lens == [i \in 1..n |-> Len(ss[i])]
           up == [i \in 1..n |-> BatchesOf(Entries[i])]
<1>1. n \in Nat \ {0} /\ DOMAIN Entries = 1..n /\ Batches \in Nat \ {0}
  BY Assumed
<1>2. ASSUME NEW i \in 1..n
      PROVE  /\ row(i) \in Seq(Pipes) /\ Len(row(i)) = BatchesOf(Entries[i])
             /\ \A b \in 1..BatchesOf(Entries[i]) : row(i)[b] = <<Entries[i], b - 1>>
  <2>1. BatchesOf(Entries[i]) \in 1..Batches /\ Entries[i] \in Restored
    BY <1>1, SetupFacts, Assumed
  <2>2. \A b \in 1..BatchesOf(Entries[i]) : <<Entries[i], b - 1>> \in Pipes
    BY <1>1, <2>1 DEF Pipes, BatchNumbers
  <2>3. row(i) \in Seq(Pipes) /\ Len(row(i)) = BatchesOf(Entries[i])
    BY <2>1, <2>2
  <2> QED
    BY <2>3
<1>3. oidWithBatchList = FlattenSeq(ss)
  BY <1>1 DEF oidWithBatchList, OidList, BatchesOf
<1>4. ss \in [1..n -> Seq(Pipes)] /\ \A i \in 1..n : ss[i] = row(i)
  <2> HIDE DEF row
  <2> QED
    BY <1>2
<1> HIDE DEF row, ss
<1>5. lens = up
  BY <1>2, <1>4
<1>6. PipesUpTo = Sums(lens)
  BY <1>1, <1>5 DEF PipesUpTo
<1> HIDE DEF lens, up
<1>7. Laid(oidWithBatchList, Pipes, ss, n, PipesUpTo)
  BY <1>1, <1>3, <1>4, <1>6, FlattenPlaces DEF lens
<1>8. /\ oidWithBatchList \in Seq(Pipes) /\ ListLength \in Nat
           /\ ListLength = PipesUpTo[n]
      /\ \A i \in 1..n : \A b \in 1..Len(ss[i]) :
           /\ PipesUpTo[i - 1] + b \in 1..ListLength
           /\ oidWithBatchList[PipesUpTo[i - 1] + b] = ss[i][b]
      /\ \A k \in 1..ListLength :
           \E i \in 1..n : \E b \in 1..Len(ss[i]) : k = PipesUpTo[i - 1] + b
  BY <1>7 DEF Laid, ListLength
<1>9. ASSUME NEW p \in Turns
      PROVE  /\ Place(p) \in 1..ListLength
             /\ oidWithBatchList[Place(p)] = PipeOf(p)
  <2>1. /\ p[1] \in 1..n /\ p[2] \in BatchNumbers
        /\ p[2] < BatchesOf(Entries[p[1]])
    BY <1>1 DEF Turns
  <2>2. p[2] + 1 \in 1..Len(ss[p[1]]) /\ (p[2] + 1) - 1 = p[2]
        /\ PipesUpTo[p[1] - 1] \in Nat
    <3>1. Len(ss[p[1]]) = BatchesOf(Entries[p[1]]) /\ p[2] \in Nat
      BY <1>2, <1>4, <2>1, <1>1 DEF BatchNumbers
    <3>2. BatchesOf(Entries[p[1]]) \in Nat
      BY SetupFacts
    <3>3. PipesUpTo[p[1] - 1] \in Nat
      <4>1. p[1] - 1 \in 0..EntryCount
        BY <2>1, <1>1 DEF n
      <4> QED
        BY <4>1, PipesCounted
    <3> QED
      BY <2>1, <3>1, <3>2, <3>3
  <2>3. ss[p[1]][p[2] + 1] = PipeOf(p)
    <3>1. p[2] + 1 \in 1..BatchesOf(Entries[p[1]])
      BY <1>2, <1>4, <2>1, <2>2
    <3>2. row(p[1])[p[2] + 1] = <<Entries[p[1]], (p[2] + 1) - 1>>
      BY <1>2, <2>1, <3>1
    <3> QED
      BY <3>2, <2>1, <2>2, <1>4 DEF PipeOf
  <2>4. Place(p) = PipesUpTo[p[1] - 1] + (p[2] + 1)
    BY <2>1, <2>2, <1>1 DEF Place, BatchNumbers
  <2> QED
    BY <2>1, <2>2, <2>3, <2>4, <1>8
<1>10. ASSUME NEW k \in 1..ListLength PROVE \E p \in Turns : Place(p) = k
  <2>1. PICK i \in 1..n : \E b \in 1..Len(ss[i]) : k = PipesUpTo[i - 1] + b
    BY <1>8
  <2>2. PICK b \in 1..Len(ss[i]) : k = PipesUpTo[i - 1] + b
    BY <2>1
  <2>3. b \in 1..BatchesOf(Entries[i]) /\ BatchesOf(Entries[i]) \in 1..Batches
    BY <1>2, <1>4, SetupFacts
  <2>4. <<i, b - 1>> \in Turns
    BY <1>1, <2>3 DEF Turns, BatchNumbers
  <2>5. PipesUpTo[i - 1] \in Nat
    <3>1. i - 1 \in 0..EntryCount
      BY <1>1 DEF n
    <3> QED
      BY <3>1, PipesCounted
  <2>6. Place(<<i, b - 1>>) = k
    BY <2>2, <2>3, <2>5 DEF Place
  <2> QED
    BY <2>4, <2>6
<1>11. oidWithBatchList \in [1..ListLength -> Pipes]
  BY <1>8 DEF ListLength
<1> QED
  BY <1>8, <1>9, <1>10, <1>11 DEF n

-----------------------------------------------------------------------------
(* Division                                                                *)

LEMMA DivMod ==
  ASSUME NEW n \in Nat \ {0}, NEW x \in Nat
  PROVE  x = n * (x \div n) + (x % n) /\ x % n \in 0..(n - 1) /\ x \div n \in Nat
OBVIOUS

LEMMA Multiples ==
  ASSUME NEW n \in Nat \ {0}, NEW k \in Int
  PROVE  /\ k >= 1 => n * k >= n
         /\ k <= 0 => n * k <= 0
         /\ k >= 2 => n * k >= n + n
OBVIOUS

\* A connection keeps to its own places in the list of tables.
LEMMA OwnerKept ==
  ASSUME NEW n \in Nat \ {0}, NEW x \in Nat
  PROVE  (x + n) % n = x % n
<1> DEFINE q == x \div n
           r == x % n
           p == (x + n) \div n
           s == (x + n) % n
           k == p - q
<1>1. x = n * q + r /\ r \in 0..(n - 1) /\ q \in Nat
  BY DivMod
<1>2. x + n \in Nat
  OBVIOUS
<1>3. x + n = n * p + s /\ s \in 0..(n - 1) /\ p \in Nat
  BY DivMod, <1>2
<1> HIDE DEF q, r, p, s
<1>4. n * k = n + r - s
  BY <1>1, <1>3
<1>5. k \in Int /\ k >= 1 /\ k < 2
  BY <1>4, <1>1, <1>3, Multiples
<1>6. k = 1
  BY <1>5
<1>7. r = s
  BY <1>1, <1>3, <1>4, <1>6
<1> QED
  BY <1>7 DEF r, s

\* Between two places of a connection there is none of its own.
LEMMA OwnersApart ==
  ASSUME NEW n \in Nat \ {0}, NEW x \in Nat, NEW y \in Nat,
         x % n = y % n, x <= y, y < x + n
  PROVE  y = x
<1> DEFINE q == x \div n
           r == x % n
           p == y \div n
           k == p - q
<1>1. x = n * q + r /\ r \in 0..(n - 1) /\ q \in Nat
  BY DivMod
<1>2. y = n * p + r /\ p \in Nat
  BY DivMod
<1> HIDE DEF q, r, p
<1>3. n * k = y - x
  BY <1>1, <1>2
<1>4. k \in Int /\ k < 1
  BY <1>3, <1>1, <1>2, Multiples
<1>5. n * k <= 0
  BY <1>4, Multiples
<1> QED
  BY <1>3, <1>5


LEMMA Owners ==
  /\ \A c \in Conns : c \in Nat \ {0} /\ Owner(c) = c
  /\ \A i \in Nat \ {0} : /\ Owner(i) \in Conns /\ Owner(i + NumConns) = Owner(i)
                          /\ Owner(i) <= i
  /\ \A i, j \in Nat \ {0} : Owner(i) = Owner(j) /\ i < j => i + NumConns <= j
<1>1. NumConns \in Nat \ {0} /\ Conns = 1..NumConns
  BY Assumed DEF Conns
<1>2. ASSUME NEW i \in Nat \ {0}
      PROVE  /\ Owner(i) = ((i - 1) % NumConns) + 1 /\ i - 1 \in Nat
             /\ (i - 1) % NumConns \in 0..NumConns - 1
  <2>1. i - 1 \in Nat
    OBVIOUS
  <2> QED
    BY <1>1, <2>1, DivMod DEF Owner
<1>3. ASSUME NEW c \in Conns PROVE c \in Nat \ {0} /\ Owner(c) = c
  <2>1. c \in Nat \ {0} /\ c - 1 \in Nat /\ c - 1 < NumConns
    BY <1>1
  <2> DEFINE r == (c - 1) % NumConns
  <2>2. r \in 0..NumConns - 1 /\ Owner(c) = r + 1
    BY <1>2, <2>1
  <2>3. r = c - 1
    <3> DEFINE q == (c - 1) \div NumConns
    <3>1. c - 1 = NumConns * q + r /\ q \in Nat
      BY <1>1, <2>1, DivMod
    <3> HIDE DEF q, r
    <3>2. NumConns * q < NumConns
      BY <3>1, <2>1, <2>2, <1>1
    <3>3. ~(q >= 1)
      BY <3>1, <3>2, <1>1, Multiples
    <3>4. q = 0
      BY <3>1, <3>3
    <3> QED
      BY <3>1, <3>4, <2>2, <1>1
  <2> HIDE DEF r
  <2> QED
    BY <2>1, <2>2, <2>3
<1>4. ASSUME NEW i \in Nat \ {0}
      PROVE  /\ Owner(i) \in Conns /\ Owner(i + NumConns) = Owner(i)
             /\ Owner(i) <= i
  <2>1. Owner(i) \in Conns
    <3> DEFINE r == (i - 1) % NumConns
    <3>1. r \in 0..NumConns - 1 /\ Owner(i) = r + 1
      BY <1>2
    <3> HIDE DEF r
    <3> QED
      BY <3>1, <1>1
  <2>2. Owner(i + NumConns) = Owner(i)
    <3>1. i + NumConns \in Nat \ {0} /\ (i + NumConns) - 1 = (i - 1) + NumConns
      BY <1>1
    <3>2. ((i - 1) + NumConns) % NumConns = (i - 1) % NumConns
      BY <1>1, <1>2, OwnerKept
    <3> QED
      BY <3>1, <3>2 DEF Owner
  <2>3. Owner(i) <= i
    <3> DEFINE r == (i - 1) % NumConns
               q == (i - 1) \div NumConns
    <3>1. i - 1 = NumConns * q + r /\ q \in Nat /\ r \in 0..NumConns - 1
          /\ Owner(i) = r + 1
      BY <1>1, <1>2, DivMod
    <3> HIDE DEF q, r
    <3>2. NumConns * q \in Nat
      BY <3>1, <1>1
    <3> QED
      BY <3>1, <3>2
  <2> QED
    BY <2>1, <2>2, <2>3
<1>5. ASSUME NEW i \in Nat \ {0}, NEW j \in Nat \ {0}, Owner(i) = Owner(j), i < j
      PROVE  i + NumConns <= j
  <2>1. i - 1 \in Nat /\ j - 1 \in Nat
    OBVIOUS
  <2>2. (i - 1) % NumConns = (j - 1) % NumConns
    <3> DEFINE r == (i - 1) % NumConns
               v == (j - 1) % NumConns
    <3>1. r \in 0..NumConns - 1 /\ Owner(i) = r + 1
      BY <1>2
    <3>2. v \in 0..NumConns - 1 /\ Owner(j) = v + 1
      BY <1>2
    <3> HIDE DEF r, v
    <3>3. r = v
      BY <3>1, <3>2, <1>1, <1>5
    <3> QED
      BY <3>3 DEF r, v
  <2> SUFFICES ASSUME j < i + NumConns PROVE FALSE
    BY <1>1
  <2>3. i - 1 <= j - 1 /\ j - 1 < (i - 1) + NumConns
    BY <1>1, <1>5
  <2>4. j - 1 = i - 1
    BY <1>1, <2>1, <2>2, <2>3, OwnersApart
  <2> QED
    BY <2>4, <1>5
<1> QED
  BY <1>3, <1>4, <1>5

-----------------------------------------------------------------------------
(* Places                                                                  *)

LEMMA TurnFacts ==
  ASSUME setup \in Setups, NEW p \in Turns
  PROVE  /\ p[1] \in 1..EntryCount /\ p[1] \in DOMAIN Entries
         /\ EntryCount \in Nat /\ DOMAIN Entries = 1..EntryCount
         /\ p[2] \in Nat /\ p[2] < BatchesOf(Entries[p[1]])
         /\ p[2] \in BatchNumbers
         /\ p = <<p[1], p[2]>>
         /\ Place(p) \in Nat
         /\ Place(p) = PipesUpTo[p[1] - 1] + p[2] + 1
         /\ PipesUpTo[p[1] - 1] \in Nat /\ PipesUpTo[p[1]] \in Nat
         /\ BatchesOf(Entries[p[1]]) \in Nat \ {0}
         /\ PipesUpTo[p[1]] = PipesUpTo[p[1] - 1] + BatchesOf(Entries[p[1]])
         /\ PipeOf(p) \in Pipes
<1>1. p[1] \in DOMAIN Entries /\ p[2] \in BatchNumbers
      /\ p[2] < BatchesOf(Entries[p[1]]) /\ p = <<p[1], p[2]>>
  BY DEF Turns
<1>2. p[1] \in 1..EntryCount /\ p[2] \in Nat
  BY <1>1, Assumed DEF BatchNumbers
<1>3. p[1] - 1 \in 0..EntryCount /\ EntryCount \in Nat
  BY <1>2, Assumed, SMTT(30)
<1>4. PipesUpTo[p[1] - 1] \in Nat /\ PipesUpTo[p[1]] \in Nat
  <2>1. p[1] \in 0..EntryCount
    BY <1>2, <1>3
  <2> QED
    BY <1>3, <2>1, PipesCounted
<1>6. PipesUpTo[p[1]] = PipesUpTo[p[1] - 1] + BatchesOf(Entries[p[1]])
  BY <1>1, PipesCounted
<1>7. BatchesOf(Entries[p[1]]) \in Nat \ {0}
  BY SetupFacts, Assumed
<1>5. PipeOf(p) \in Pipes
  BY <1>1, Assumed DEF PipeOf, Pipes
<1>8. Place(p) = PipesUpTo[p[1] - 1] + p[2] + 1 /\ Place(p) \in Nat
  BY <1>2, <1>4 DEF Place
<1>9. EntryCount \in Nat /\ DOMAIN Entries = 1..EntryCount
  BY Assumed
<1> QED
  BY <1>1, <1>2, <1>4, <1>5, <1>6, <1>7, <1>8, <1>9, Zenon

\* The list is in the order of the entries and of their batches.
LEMMA PlacesOrdered ==
  ASSUME setup \in Setups, NEW p \in Turns, NEW q \in Turns
  PROVE  /\ p[1] < q[1] => Place(p) < Place(q)
         /\ p[1] = q[1] => Place(q) - Place(p) = q[2] - p[2]
         /\ Place(p) = Place(q) => p = q
<1>1. /\ p[1] \in 1..EntryCount /\ p[2] \in Nat /\ p = <<p[1], p[2]>>
      /\ p[2] < BatchesOf(Entries[p[1]])
      /\ Place(p) = PipesUpTo[p[1] - 1] + p[2] + 1 /\ PipesUpTo[p[1] - 1] \in Nat
  BY TurnFacts
<1>2. /\ q[1] \in 1..EntryCount /\ q[2] \in Nat /\ q = <<q[1], q[2]>>
      /\ q[2] < BatchesOf(Entries[q[1]])
      /\ Place(q) = PipesUpTo[q[1] - 1] + q[2] + 1 /\ PipesUpTo[q[1] - 1] \in Nat
  BY TurnFacts
<1>3. p[1] = q[1] => Place(q) - Place(p) = q[2] - p[2]
  BY <1>1, <1>2
<1>4. ASSUME NEW u \in Turns, NEW v \in Turns, u[1] < v[1]
      PROVE  Place(u) < Place(v)
  <2>1. /\ u[1] \in 1..EntryCount /\ EntryCount \in Nat /\ u[2] \in Nat
        /\ u[2] < BatchesOf(Entries[u[1]]) /\ BatchesOf(Entries[u[1]]) \in Nat
        /\ Place(u) = PipesUpTo[u[1] - 1] + u[2] + 1 /\ PipesUpTo[u[1] - 1] \in Nat
        /\ PipesUpTo[u[1]] = PipesUpTo[u[1] - 1] + BatchesOf(Entries[u[1]])
    BY TurnFacts
  <2>2. /\ v[1] \in 1..EntryCount /\ v[2] \in Nat
        /\ Place(v) = PipesUpTo[v[1] - 1] + v[2] + 1 /\ PipesUpTo[v[1] - 1] \in Nat
    BY TurnFacts
  <2>3. u[1] \in 0..EntryCount /\ v[1] - 1 \in u[1]..EntryCount
    BY <2>1, <2>2, <1>4
  <2>4. PipesUpTo[u[1]] <= PipesUpTo[v[1] - 1]
    BY <2>3, PipesCounted
  <2> QED
    BY <2>1, <2>2, <2>4
<1>5. ASSUME Place(p) = Place(q) PROVE p = q
  <2>1. Place(p) \in Nat /\ Place(q) \in Nat
    BY TurnFacts
  <2>2. ~(p[1] < q[1]) /\ ~(q[1] < p[1])
    BY <1>4, <1>5, <2>1
  <2>3. p[1] = q[1]
    BY <2>2, <1>1, <1>2
  <2>4. p[2] = q[2]
    BY <2>3, <1>1, <1>2, <1>5
  <2> QED
    BY <2>3, <2>4, <1>1, <1>2
<1> QED
  BY <1>3, <1>4, <1>5

\* What comes after a turn: the next batch, or the next entry.
LEMMA NextPlace ==
  ASSUME setup \in Setups, NEW p \in Turns, NEW q \in Turns,
         Place(q) = Place(p) + 1
  PROVE  \/ q[1] = p[1] /\ q[2] = p[2] + 1
         \/ q[1] = p[1] + 1 /\ q[2] = 0 /\ p[2] + 1 = BatchesOf(Entries[p[1]])
<1> DEFINE i == p[1]
           j == q[1]
           b == p[2]
           d == q[2]
           n(k) == BatchesOf(Entries[k])
           up == PipesUpTo
<1>1. /\ i \in 1..EntryCount /\ b \in Nat /\ b < n(i) /\ n(i) \in Nat \ {0}
      /\ Place(p) = up[i - 1] + b + 1 /\ up[i - 1] \in Nat
      /\ up[i] = up[i - 1] + n(i) /\ up[i] \in Nat /\ Place(p) \in Nat
  BY TurnFacts
<1>2. /\ j \in 1..EntryCount /\ d \in Nat /\ Place(q) \in Nat
      /\ Place(q) = up[j - 1] + d + 1 /\ up[j - 1] \in Nat
      /\ EntryCount \in Nat
  BY TurnFacts
<1>3. CASE j < i
  <2>1. Place(q) < Place(p)
    BY <1>3, PlacesOrdered
  <2> QED
    BY <2>1, <1>1, <1>2
<1>4. ASSUME NEW k \in 1..EntryCount
      PROVE  up[k] = up[k - 1] + n(k) /\ n(k) \in Nat \ {0}
  <2>1. k \in DOMAIN Entries /\ Batches \in Nat
    BY Assumed
  <2>2. up[k] = up[k - 1] + n(k)
    BY <2>1, PipesCounted
  <2>3. n(k) \in 1..Batches
    BY SetupFacts
  <2> QED
    BY <2>1, <2>2, <2>3
<1>5. \A k \in 0..EntryCount : \A l \in k..EntryCount :
        up[k] <= up[l] /\ up[k] \in Nat
  BY PipesCounted
<1> HIDE DEF i, j, b, d, n, up
<1>6. \/ j = i /\ d = b + 1
      \/ j = i + 1 /\ d = 0 /\ b + 1 = n(i)
  <2>1. CASE j = i
    BY <1>1, <1>2, <2>1
  <2>2. CASE i < j
    <3>1. i \in 0..EntryCount /\ j - 1 \in i..EntryCount
      BY <1>1, <1>2, <2>2
    <3>2. up[i] <= up[j - 1]
      BY <3>1, <1>5
    <3>3. b + 1 = n(i) /\ d = 0 /\ up[j - 1] = up[i]
      BY <1>1, <1>2, <3>2
    <3>4. j = i + 1
      <4> SUFFICES ASSUME i + 1 < j PROVE FALSE
        BY <1>1, <1>2, <2>2
      <4>1. i + 1 \in 1..EntryCount /\ (i + 1) - 1 = i /\ i + 1 \in 0..EntryCount
            /\ j - 1 \in i + 1..EntryCount
        BY <1>1, <1>2
      <4>2. up[i + 1] = up[i] + n(i + 1) /\ n(i + 1) \in Nat \ {0}
        BY <4>1, <1>4
      <4>3. up[i + 1] <= up[j - 1]
        BY <4>1, <1>5
      <4> QED
        BY <3>3, <4>2, <4>3, <1>1
    <3> QED
      BY <3>3, <3>4
  <2> QED
    BY <2>1, <2>2, <1>1, <1>2, <1>3 DEF i, j
<1> QED
  BY <1>6 DEF i, j, b, d, n

LEMMA CopyQueueFacts ==
  ASSUME setup \in Setups
  PROVE  /\ copyQueue \in Nat
         /\ copyQueue = NumConns * Batches \/ copyQueue = ListLength
<1>1. NumConns * Batches \in Nat /\ ListLength \in Nat
  <2>1. NumConns \in Nat /\ Batches \in Nat
    BY Assumed
  <2> QED
    BY <2>1, ListPlaces
<1> DEFINE m == NumConns * Batches
           n == ListLength
<1> HIDE DEF m, n
<1>2. copyQueue = CHOOSE x \in {m, n} : \A y \in {m, n} : x <= y
  BY DEF copyQueue, Min, m, n, ListLength
<1>3. \E x \in {m, n} : \A y \in {m, n} : x <= y
  BY <1>1 DEF m, n
<1>4. copyQueue \in {m, n}
  BY <1>2, <1>3
<1> QED
  BY <1>1, <1>4 DEF m, n

\* A connection with entry i has its entry before over: its pipes are at most
\* copyQueue ahead of a helper that has passed that one.
LEMMA QueueReaches ==
  ASSUME setup \in Setups, NEW p \in Turns,
         at \in 1..ListLength, at <= Place(p),
         \A q \in Turns : q[1] + NumConns = p[1] => Place(q) < at
  PROVE  Place(p) < at + copyQueue
<1>1. /\ p[1] \in 1..EntryCount /\ p[2] \in Nat /\ Place(p) \in Nat
      /\ p[2] < BatchesOf(Entries[p[1]])
      /\ Place(p) = PipesUpTo[p[1] - 1] + p[2] + 1 /\ PipesUpTo[p[1] - 1] \in Nat
      /\ p[1] \in Nat /\ EntryCount \in Nat
  BY TurnFacts
<1>2. NumConns \in Nat \ {0} /\ Batches \in Nat \ {0}
      /\ BatchesOf(Entries[p[1]]) \in 1..Batches
      /\ EntryCount \in Nat /\ DOMAIN Entries = 1..EntryCount
  BY Assumed, SetupFacts
<1>3. Place(p) <= ListLength /\ ListLength \in Nat
  BY ListPlaces
<1>4. ASSUME NEW i \in 0..p[1] - 1, p[1] - i <= NumConns, PipesUpTo[i] < at
      PROVE  Place(p) < at + NumConns * Batches
  <2>1. i \in 0..EntryCount /\ p[1] - 1 \in i..EntryCount
    BY <1>1, <1>2
  <2>2. PipesUpTo[p[1] - 1] - PipesUpTo[i] <= ((p[1] - 1) - i) * Batches
        /\ PipesUpTo[i] \in Nat
    BY <2>1, PipesCounted
  <2> DEFINE d == (p[1] - 1) - i
  <2>3. d \in Nat /\ d + 1 <= NumConns
    <3>1. i \in Nat /\ i <= p[1] - 1 /\ NumConns \in Nat
      BY <1>1, <1>2
    <3> QED
      BY <3>1, <1>1, <1>4
  <2> HIDE DEF d
  <2>4. d * Batches + Batches <= NumConns * Batches
    <3>1. d * Batches + Batches = (d + 1) * Batches
      BY <2>3, <1>2
    <3>2. (d + 1) * Batches + (NumConns - (d + 1)) * Batches = NumConns * Batches
      BY <2>3, <1>2
    <3>3. (NumConns - (d + 1)) * Batches >= 0
      BY <2>3, <1>2
    <3>4. d * Batches \in Nat /\ (d + 1) * Batches \in Nat
          /\ (NumConns - (d + 1)) * Batches \in Int /\ NumConns * Batches \in Int
      BY <2>3, <1>2
    <3> QED
      BY <3>1, <3>2, <3>3, <3>4, <1>2
  <2>5. d * Batches \in Nat /\ NumConns * Batches \in Nat
    BY <2>3, <1>2
  <2>6. PipesUpTo[p[1] - 1] - PipesUpTo[i] <= d * Batches
    BY <2>2 DEF d
  <2>7. Place(p) <= PipesUpTo[p[1] - 1] + Batches /\ at \in Nat /\ Batches \in Nat
        /\ PipesUpTo[p[1] - 1] \in Nat /\ Place(p) \in Nat
    BY <1>1, <1>2
  <2> QED
    BY <2>2, <2>4, <2>5, <2>6, <2>7, <1>4
<1>5. Place(p) < at + NumConns * Batches
  <2>1. CASE p[1] <= NumConns
    <3>1. 0 \in 0..p[1] - 1 /\ p[1] - 0 <= NumConns
      BY <2>1, <1>1
    <3>2. PipesUpTo[0] < at
      BY PipesCounted, ListPlaces
    <3> QED
      BY <3>1, <3>2, <1>4
  <2>2. CASE p[1] > NumConns
    <3> DEFINE i == p[1] - NumConns
               q == <<i, BatchesOf(Entries[i]) - 1>>
    <3>1. i \in DOMAIN Entries /\ i \in 1..p[1] - 1 /\ i + NumConns = p[1]
          /\ p[1] - i <= NumConns
      <4> DEFINE k == p[1]
      <4>1. k \in 1..EntryCount /\ EntryCount \in Nat /\ NumConns \in Nat \ {0}
            /\ k > NumConns
        BY <2>2, <1>1, <1>2
      <4> HIDE DEF k
      <4>2. k - NumConns \in 1..EntryCount /\ k - NumConns \in 1..k - 1
            /\ (k - NumConns) + NumConns = k /\ k - (k - NumConns) <= NumConns
        BY <4>1
      <4> QED
        BY <4>2, <1>2 DEF k
    <3> HIDE DEF i
    <3>2. BatchesOf(Entries[i]) \in 1..Batches
      BY SetupFacts
    <3>3. q \in Turns /\ q[1] = i /\ q[2] = BatchesOf(Entries[i]) - 1
      BY <3>1, <3>2, <1>2 DEF Turns, BatchNumbers
    <3> HIDE DEF q
    <3>4. Place(q) < at
      BY <3>1, <3>3
    <3>5. PipesUpTo[i] = PipesUpTo[i - 1] + BatchesOf(Entries[i])
      BY <3>1, PipesCounted
    <3>6. Place(q) = PipesUpTo[i - 1] + q[2] + 1 /\ PipesUpTo[i - 1] \in Nat
      BY <3>3, TurnFacts
    <3>7. PipesUpTo[i] < at
      BY <3>2, <3>3, <3>4, <3>5, <3>6
    <3>8. i \in 0..p[1] - 1
      BY <3>1, <1>1
    <3> QED
      BY <3>1, <3>7, <3>8, <1>4
  <2> QED
    BY <2>1, <2>2, <1>1, <1>2
<1>6. CASE copyQueue = NumConns * Batches
  BY <1>5, <1>6
<1>7. CASE copyQueue = ListLength
  <2>1. at \in Nat \ {0} /\ Place(p) \in Nat
    BY <1>1, <1>3
  <2> QED
    BY <1>3, <1>7, <2>1
<1> QED
  BY <1>6, <1>7, CopyQueueFacts


-----------------------------------------------------------------------------
(* The data file and the streams                                           *)

LEMMA SumsFlat ==
  ASSUME NEW n \in Nat, NEW f \in [1..n -> Nat], NEW i \in 0..n, NEW j \in i..n,
         \A k \in i + 1..j : f[k] = 0
  PROVE  Sums(f)[j] = Sums(f)[i]
<1> DEFINE s == Sums(f)
           T == {d \in Nat : i + d <= j => s[i + d] = s[i]}
<1>1. s \in [0..n -> Nat] /\ \A k \in 1..n : s[k] = s[k - 1] + f[k]
  BY SumsUnfold
<1> HIDE DEF s
<1>2. 0 \in T
  BY <1>1
<1>3. ASSUME NEW d \in Nat, d \in T PROVE d + 1 \in T
  <2> SUFFICES ASSUME i + (d + 1) <= j PROVE s[i + (d + 1)] = s[i]
    OBVIOUS
  <2>1. i + (d + 1) \in 1..n /\ (i + (d + 1)) - 1 = i + d /\ i + d \in 0..n
        /\ i + (d + 1) \in i + 1..j
    OBVIOUS
  <2>2. s[i + (d + 1)] = s[i + d] + f[i + (d + 1)] /\ f[i + (d + 1)] = 0
    BY <1>1, <2>1
  <2>3. s[i + d] = s[i] /\ s[i + d] \in Nat
    BY <1>1, <1>3, <2>1
  <2> QED
    BY <2>2, <2>3
<1>4. Nat \subseteq T
  <2> HIDE DEF T
  <2> QED
    BY <1>2, <1>3, Induction
<1>5. i + (j - i) = j /\ j - i \in Nat
  OBVIOUS
<1>6. j - i \in T
  <2> HIDE DEF T
  <2> QED
    BY <1>4, <1>5
<1>7. s[i + (j - i)] = s[i]
  BY <1>5, <1>6
<1>8. s[j] = s[i]
  BY <1>5, <1>7
<1> QED
  BY <1>8 DEF s

\* Where the tables are in the data file.
LEMMA EndFacts ==
  /\ EndByte \in [0..TableCount -> Nat] /\ EndByte[0] = 0
  /\ \A t \in Tables : EndByte[t] = EndByte[t - 1] + Sizes[t]
  /\ \A i \in 0..TableCount : \A j \in i..TableCount : EndByte[i] <= EndByte[j]
  /\ FileSize = EndByte[TableCount] /\ FileSize \in Nat
<1>1. Sizes \in [1..TableCount -> Nat] /\ TableCount \in Nat /\ Tables = 1..TableCount
  BY Assumed
<1>2. /\ EndByte \in [0..TableCount -> Nat] /\ EndByte[0] = 0
      /\ \A t \in Tables : EndByte[t] = EndByte[t - 1] + Sizes[t]
  BY <1>1, SumsUnfold DEF EndByte
<1>3. \A i \in 0..TableCount : \A j \in i..TableCount : EndByte[i] <= EndByte[j]
  BY <1>1, SumsGrow DEF EndByte
<1>4. FileSize = EndByte[TableCount] /\ TableCount \in 0..TableCount
  BY <1>1 DEF FileSize, TableCount
<1> QED
  BY <1>2, <1>3, <1>4

\* The part of a table in the stream of batch b.
InStream(b, t) == IF t \in StreamTables(setup, b) THEN Sizes[t] ELSE 0

LEMMA StreamIsSum ==
  ASSUME setup \in Setups, NEW b \in BatchNumbers
  PROVE  /\ StreamEnd[setup][b] = Sums([t \in 1..TableCount |-> InStream(b, t)])
         /\ [t \in 1..TableCount |-> InStream(b, t)] \in [1..TableCount -> Nat]
<1>1. Sizes \in [1..TableCount -> Nat] /\ Tables = 1..TableCount
  BY Assumed
<1>2. \A t \in 1..TableCount : InStream(b, t) \in Nat
  BY <1>1 DEF InStream
<1>3. StreamEnd[setup][b] =
        Sums([t \in 1..TableCount |-> IF t \in StreamTables(setup, b)
                                      THEN Sizes[t] ELSE 0])
  BY <1>1 DEF StreamEnd
<1> QED
  BY <1>2, <1>3 DEF InStream

\* The stream of a batch holds its tables in the order of the data file.
LEMMA StreamFacts ==
  ASSUME setup \in Setups, NEW b \in BatchNumbers
  PROVE  /\ StreamEnd[setup][b] \in [0..TableCount -> Nat]
         /\ StreamEnd[setup][b][0] = 0
         /\ \A t \in Tables :
              StreamEnd[setup][b][t] = StreamEnd[setup][b][t - 1] + InStream(b, t)
         /\ \A i \in 0..TableCount : \A j \in i..TableCount :
              StreamEnd[setup][b][i] <= StreamEnd[setup][b][j]
         /\ StreamSize(b) = StreamEnd[setup][b][TableCount]
         /\ StreamSize(b) \in Nat /\ StreamSize(b) <= FileSize
<1> DEFINE n == TableCount
           f == [t \in 1..n |-> InStream(b, t)]
           e == StreamEnd[setup][b]
<1>1. Sizes \in [1..n -> Nat] /\ Tables = 1..n /\ n \in Nat
  BY Assumed
<1>2. e = Sums(f) /\ f \in [1..n -> Nat]
  BY StreamIsSum
<1>3. \A t \in 1..n : f[t] = InStream(b, t) /\ f[t] <= Sizes[t]
  BY <1>1 DEF InStream
<1>4. StreamSize(b) = e[n]
  BY DEF StreamSize, TableCount
<1> HIDE DEF f, e, n
<1>5. /\ e \in [0..n -> Nat] /\ e[0] = 0
      /\ \A t \in 1..n : e[t] = e[t - 1] + f[t]
  BY <1>1, <1>2, SumsUnfold
<1>6. \A i \in 0..n : \A j \in i..n : e[i] <= e[j]
  BY <1>1, <1>2, SumsGrow
<1>7. e[n] \in Nat /\ e[n] <= FileSize
  <2>1. \A i \in 0..n : Sums(f)[i] <= Sums(Sizes)[i]
    BY <1>1, <1>2, <1>3, SumsCompare
  <2>2. n \in 0..n
    BY <1>1
  <2>3. Sums(Sizes)[n] = FileSize
    BY EndFacts DEF EndByte, n
  <2> QED
    BY <1>2, <1>5, <2>1, <2>2, <2>3
<1> QED
  BY <1>1, <1>3, <1>4, <1>5, <1>6, <1>7 DEF e, n

\* Readers other than subset readers read the whole data file.
LEMMA WholeStream ==
  ASSUME setup \in Setups, NEW b \in BatchNumbers, setup.reader # "subset"
  PROVE  StreamEnd[setup][b] = EndByte /\ StreamSize(b) = FileSize
<1>1. Sizes \in [1..TableCount -> Nat] /\ Tables = 1..TableCount
  BY Assumed
<1>2. \A t \in 1..TableCount : InStream(b, t) = Sizes[t]
  BY <1>1 DEF InStream, StreamTables
<1>3. [t \in 1..TableCount |-> InStream(b, t)] = Sizes
  BY <1>1, <1>2
<1>4. StreamEnd[setup][b] = EndByte
  BY <1>3, StreamIsSum DEF EndByte
<1> QED
  BY <1>4 DEF StreamSize, FileSize

\* Tables that are not in a subset stream take no place there.
LEMMA StreamGap ==
  ASSUME setup \in Setups, NEW b \in BatchNumbers, setup.reader = "subset",
         NEW i \in 0..TableCount, NEW j \in i..TableCount,
         \A t \in i + 1..j : t \in Restored => BatchesOf(t) <= b
  PROVE  StreamEnd[setup][b][j] = StreamEnd[setup][b][i]
<1> DEFINE n == TableCount
           f == [t \in 1..n |-> InStream(b, t)]
<1>1. n \in Nat
  BY Assumed
<1>2. StreamEnd[setup][b] = Sums(f) /\ f \in [1..n -> Nat]
  BY StreamIsSum
<1>3. ASSUME NEW t \in i + 1..j PROVE f[t] = 0
  <2>1. t \in 1..n
    BY <1>1
  <2>2. b \in Nat /\ BatchesOf(t) \in Nat /\ Batches \in Nat
    BY SetupFacts, Assumed DEF BatchNumbers
  <2>3. t \notin StreamTables(setup, b)
    BY <2>2 DEF StreamTables, BatchesOf
  <2> QED
    BY <2>1, <2>3 DEF InStream
<1> HIDE DEF f, n
<1>4. i \in 0..n /\ j \in i..n
  BY DEF n
<1> QED
  BY <1>1, <1>2, <1>3, <1>4, SumsFlat

\* What the first batches of a table hold.
LEMMA LoadedFacts ==
  ASSUME setup \in Setups, NEW t \in Tables
  PROVE  /\ \A b \in BatchNumbers : InFile(b, t) \in Nat
         /\ Loaded(t) \in [0..Batches -> Nat] /\ Loaded(t)[0] = 0
         /\ \A b \in BatchNumbers :
              Loaded(t)[b + 1] = Loaded(t)[b] + InFile(b, t)
<1> DEFINE f == [n \in 1..Batches |-> InFile(n - 1, t)]
<1>1. Batches \in Nat \ {0} /\ Sizes[t] \in Nat
  BY Assumed
<1>2. \A b : InFile(b, t) \in Nat
  BY <1>1 DEF InFile
<1>3. f \in [1..Batches -> Nat] /\ \A n \in 1..Batches : f[n] = InFile(n - 1, t)
  BY <1>2
<1>4. Loaded(t) = Sums(f)
  BY DEF Loaded
<1> HIDE DEF f
<1>5. /\ Loaded(t) \in [0..Batches -> Nat] /\ Loaded(t)[0] = 0
      /\ \A n \in 1..Batches : Loaded(t)[n] = Loaded(t)[n - 1] + f[n]
  BY <1>1, <1>3, <1>4, SumsUnfold
<1>6. ASSUME NEW b \in BatchNumbers
      PROVE  Loaded(t)[b + 1] = Loaded(t)[b] + InFile(b, t)
  <2>1. b + 1 \in 1..Batches /\ (b + 1) - 1 = b
    BY <1>1 DEF BatchNumbers
  <2> QED
    BY <1>3, <1>5, <2>1
<1> QED
  BY <1>2, <1>5, <1>6

-----------------------------------------------------------------------------
(* The helper's turn                                                       *)

\* The helper is at turn p.
HelperAt(p) ==
  /\ p \in Turns /\ Place(p) = at
  /\ Oid = Entries[p[1]] /\ BatchNum = p[2] /\ Current = PipeOf(p)

LEMMA HelperTurn ==
  ASSUME setup \in Setups, at \in 1..ListLength
  PROVE  /\ \E p \in Turns : HelperAt(p)
         /\ Oid \in Restored /\ Oid \in Tables /\ Oid \in 1..TableCount
         /\ BatchNum \in BatchNumbers /\ BatchNum < BatchesOf(Oid)
         /\ Current \in Pipes
<1>1. PICK p \in Turns : Place(p) = at
  BY ListPlaces
<1>2. oidWithBatchList[at] = PipeOf(p)
  BY <1>1, ListPlaces
<1>3. Oid = Entries[p[1]] /\ BatchNum = p[2] /\ Current = PipeOf(p)
  BY <1>2 DEF Oid, BatchNum, Current, PipeOf
<1>4. /\ p[1] \in DOMAIN Entries /\ p[2] \in BatchNumbers
      /\ p[2] < BatchesOf(Entries[p[1]]) /\ PipeOf(p) \in Pipes
  BY TurnFacts
<1>5. Oid \in Restored /\ Oid \in Tables /\ Oid \in 1..TableCount
  BY <1>3, <1>4, Assumed
<1> QED
  BY <1>1, <1>3, <1>4, <1>5 DEF HelperAt

\* Nothing that is fixed by the setup changes.
LEMMA Kept ==
  ASSUME setup' = setup
  PROVE  /\ oidWithBatchList' = oidWithBatchList /\ ListLength' = ListLength
         /\ copyQueue' = copyQueue /\ PipesUpTo' = PipesUpTo /\ Turns' = Turns
         /\ \A p : (Place(p))' = Place(p)
         /\ \A t : (BatchesOf(t))' = BatchesOf(t) /\ (Loaded(t))' = Loaded(t)
                   /\ (Expected(t))' = Expected(t)
         /\ \A b, t : (InFile(b, t))' = InFile(b, t)
         /\ \A b : (StreamSize(b))' = StreamSize(b)
<1>1. oidWithBatchList' = oidWithBatchList
  BY DEF oidWithBatchList
<1>2. ListLength' = ListLength /\ copyQueue' = copyQueue
  BY <1>1 DEF ListLength, copyQueue
<1>3. \A t : (BatchesOf(t))' = BatchesOf(t)
  BY DEF BatchesOf
<1>4. PipesUpTo' = PipesUpTo
  <2> DEFINE F(s) == Sums([i \in DOMAIN Entries |-> BatchesFor(s, Entries[i])])
  <2>1. PipesUpTo = F(setup) /\ PipesUpTo' = F(setup')
    BY DEF PipesUpTo, BatchesOf
  <2> HIDE DEF F
  <2> QED
    BY <2>1
<1>5. Turns' = Turns
  BY <1>3 DEF Turns
<1>6. \A p : (Place(p))' = Place(p)
  BY <1>4 DEF Place
<1>7. \A b, t : (InFile(b, t))' = InFile(b, t)
  BY DEF InFile
<1>8. \A t : (Loaded(t))' = Loaded(t)
  <2> DEFINE G(s, t) == Sums([n \in 1..Batches |->
                                IF n - 1 < s.files THEN Sizes[t] ELSE 0])
  <2>1. \A t : Loaded(t) = G(setup, t) /\ (Loaded(t))' = G(setup', t)
    BY DEF Loaded, InFile
  <2> HIDE DEF G
  <2> QED
    BY <2>1
<1>9. \A t : (Expected(t))' = Expected(t)
  BY <1>3, <1>8 DEF Expected
<1>10. \A b : (StreamSize(b))' = StreamSize(b)
  BY DEF StreamSize
<1> QED
  BY <1>1, <1>2, <1>3, <1>4, <1>5, <1>6, <1>7, <1>8, <1>9, <1>10

-----------------------------------------------------------------------------
(* What a step of a connection does                                        *)

LEMMA TurnTaken ==
  ASSUME TypeOK, ConnInv, NEW c \in Conns, Busy(c)
  PROVE  /\ Turn(c) \in Turns /\ Owner(entry[c]) = c
         /\ entry[c] \in DOMAIN Entries /\ entry[c] \in 1..EntryCount
         /\ Entry(c) \in Restored /\ Entry(c) \in Tables
         /\ batch[c] \in BatchNumbers /\ batch[c] \in Nat
         /\ batch[c] < BatchesOf(Entry(c))
         /\ status[Entry(c)] = "todo"
<1>1. setup \in Setups /\ batch[c] \in BatchNumbers
  BY DEF TypeOK
<1>2. Turn(c) \in Turns /\ Owner(entry[c]) = c
  BY DEF ConnInv
<1>3. Turn(c)[1] = entry[c] /\ Turn(c)[2] = batch[c]
  BY DEF Turn
<1>4. entry[c] \in DOMAIN Entries /\ entry[c] \in 1..EntryCount
      /\ batch[c] \in Nat /\ batch[c] < BatchesOf(Entry(c))
  BY <1>1, <1>2, <1>3, TurnFacts DEF Entry
<1>5. Entry(c) \in Restored /\ Entry(c) \in Tables
  BY <1>4, Assumed DEF Entry
<1>6. status[Entry(c)] = "todo"
  <2>1. entry[Owner(entry[c])] <= entry[c]
    BY <1>2, <1>4
  <2> QED
    BY <1>4, <2>1 DEF ConnInv, Entry
<1> QED
  BY <1>1, <1>2, <1>4, <1>5, <1>6

Verdicts == {"restored", "copyFailed", "short", "agentFailed"}

ConnFrame ==
  /\ UNCHANGED <<inputVars, readerVars, loopVars, pipe>>
  /\ errorFile' \in BOOLEAN /\ (errorFile' => errorFile)
  /\ skipFiles \subseteq skipFiles'

\* The connection gets on with its COPY.
ConnWorks(c) ==
  /\ stage[c] \in {"check", "remove"} \cup InCopy
  /\ \E to \in {"found", "remove", "test", "open", "blocked", "failed"} :
       /\ stage' = [stage EXCEPT ![c] = to]
       /\ to = "found" => errorFile
       /\ stage[c] = "reading" => to = "failed"
  /\ UNCHANGED <<entry, batch, rows, status, cancelled, skipFiles>>

ConnFinishes(c) ==
  \E how \in Verdicts :
    /\ Finish(c, how)
    /\ stage[c] = "found" <=> how = "agentFailed"
    /\ stage[c] = "failed" <=> how = "copyFailed"
    /\ stage[c] = "eof" <=> how \in {"restored", "short"}
    /\ how \in {"restored", "short"} => batch[c] + 1 = BatchesOf(Entry(c))
    /\ how = "restored" => rows[Entry(c)] = Expected(Entry(c))
    /\ how = "short" => rows[Entry(c)] # Expected(Entry(c))
    /\ skipFiles' \subseteq skipFiles \cup {Entry(c)}
    /\ how # "copyFailed" => skipFiles' = skipFiles
    /\ UNCHANGED <<batch, rows>>

ConnContinues(c) ==
  /\ stage[c] = "eof"
  /\ batch[c] + 1 < BatchesOf(Entry(c))
  /\ batch' = [batch EXCEPT ![c] = @ + 1]
  /\ stage' = [stage EXCEPT ![c] = "check"]
  /\ UNCHANGED <<entry, rows, status, cancelled, skipFiles>>

LEMMA ConnSteps ==
  ASSUME TypeOK, ConnInv, NEW c \in Conns, Conn(c) \/ CopyFails(c)
  PROVE  /\ ConnFrame
         /\ \/ ConnWorks(c) \/ NextTable(c) \/ Stops(c) \/ ConnFinishes(c)
            \/ ConnContinues(c)
<1> USE DEF inputVars, readerVars, loopVars, fileVars
<1>0. errorFile \in BOOLEAN
  BY DEF TypeOK
<1>1. CASE NextTable(c)
  BY <1>0, <1>1 DEF NextTable, ConnFrame
<1>2. CASE Stops(c)
  BY <1>0, <1>2 DEF Stops, ConnFrame
<1>3. CASE LookForErrorFile(c)
  BY <1>0, <1>3 DEF LookForErrorFile, ConnFrame, ConnWorks, Go, ErrorFileSeen
<1>4. CASE RemoveErrorFile(c)
  <2>1. ConnFrame
    <3>1. errorFile' = (errorFile /\ ~setup.latest)
      BY <1>4 DEF RemoveErrorFile
    <3>2. errorFile' \in BOOLEAN /\ (errorFile' => errorFile)
      BY <3>1
    <3> QED
      BY <1>4, <3>2 DEF RemoveErrorFile, ConnFrame
  <2>2. CASE stage[c] = "found" /\ Finish(c, "agentFailed")
    BY <1>4, <2>1, <2>2 DEF RemoveErrorFile, ConnFinishes, Verdicts
  <2>3. CASE Go(c, "remove", "test") /\ UNCHANGED <<entry, status, cancelled>>
    BY <1>4, <2>1, <2>3 DEF RemoveErrorFile, ConnWorks, Go
  <2> QED
    BY <1>4, <2>2, <2>3 DEF RemoveErrorFile
<1>5. CASE WaitForPipe(c)
  BY <1>0, <1>5 DEF WaitForPipe, ConnFrame, ConnWorks, Go, InCopy
<1>6. CASE OpenPipe(c)
  BY <1>0, <1>6 DEF OpenPipe, ConnFrame, ConnWorks, Go, InCopy
<1>7. CASE CopyCancelled(c) \/ CopyFails(c) \/ PipeTimesOut(c)
  BY <1>0, <1>7
  DEF CopyCancelled, CopyFails, PipeTimesOut, ConnFrame, ConnWorks, Go, InCopy
<1>8. CASE CreateSkipFile(c)
  <2>1. ConnFrame
    BY <1>0, <1>8 DEF CreateSkipFile, ConnFrame
  <2> QED
    BY <1>8, <2>1 DEF CreateSkipFile, ConnFinishes, Verdicts
<1>9. CASE CopyEnds(c)
  <2>1. ConnFrame /\ stage[c] = "eof" /\ skipFiles' = skipFiles /\ UNCHANGED rows
    BY <1>0, <1>9 DEF CopyEnds, ConnFrame
  <2>2. CASE batch[c] + 1 < BatchesOf(Entry(c))
    BY <1>9, <2>1, <2>2 DEF CopyEnds, ConnContinues, Go
  <2>3. CASE ~(batch[c] + 1 < BatchesOf(Entry(c)))
    <3>1. Busy(c)
      BY <2>1 DEF Busy
    <3>2. batch[c] \in Nat /\ batch[c] < BatchesOf(Entry(c))
          /\ BatchesOf(Entry(c)) \in Nat
      <4>1. setup \in Setups /\ Batches \in Nat
        BY Assumed DEF TypeOK
      <4> QED
        BY <3>1, <4>1, TurnTaken, SetupFacts
    <3>3. batch[c] + 1 = BatchesOf(Entry(c))
      BY <2>3, <3>2
    <3> DEFINE how == IF rows[Entry(c)] = Expected(Entry(c)) THEN "restored"
                      ELSE "short"
    <3>4. Finish(c, how) /\ UNCHANGED batch
      BY <1>9, <2>3 DEF CopyEnds
    <3>5. how \in {"restored", "short"} /\ how \in Verdicts
          /\ (how = "restored" => rows[Entry(c)] = Expected(Entry(c)))
          /\ (how = "short" => rows[Entry(c)] # Expected(Entry(c)))
      BY DEF Verdicts
    <3> HIDE DEF how
    <3>6. how # "agentFailed" /\ how # "copyFailed"
      BY <3>5
    <3>7. ConnFinishes(c)
      BY <2>1, <3>3, <3>4, <3>5, <3>6 DEF ConnFinishes
    <3> QED
      BY <2>1, <3>7
  <2> QED
    BY <2>2, <2>3
<1> QED
  BY <1>1, <1>2, <1>3, <1>4, <1>5, <1>6, <1>7, <1>8, <1>9 DEF Conn

\* The end of a table, place by place.
LEMMA FinishFacts ==
  ASSUME TypeOK, ConnInv, NEW c \in Conns, Busy(c), NEW how \in Verdicts,
         Finish(c, how)
  PROVE  /\ entry' \in [Conns -> 1 .. Len(Entries) + NumConns]
         /\ entry'[c] = entry[c] + NumConns
         /\ \A d \in Conns \ {c} : entry'[d] = entry[d] /\ stage'[d] = stage[d]
         /\ status' \in [Restored -> {"todo"} \cup Verdicts]
         /\ status'[Entry(c)] = how
         /\ \A t \in Restored \ {Entry(c)} : status'[t] = status[t]
         /\ cancelled' \in BOOLEAN
         /\ cancelled => cancelled'
         /\ cancelled' => cancelled \/ how # "restored"
         /\ stage'[c] \in {"idle", "done"}
         /\ stage'[c] = "done" => cancelled'
<1>1. /\ entry \in [Conns -> 1 .. Len(Entries) + NumConns]
      /\ stage \in [Conns -> {"idle", "check", "found", "remove", "test", "open",
                              "blocked", "reading", "eof", "failed", "done"}]
      /\ status \in [Restored -> {"todo"} \cup Verdicts]
      /\ cancelled \in BOOLEAN /\ onErrorContinue \in BOOLEAN
  BY DEF TypeOK, Verdicts
<1>2. entry[c] \in 1..EntryCount /\ Entry(c) \in Restored
  BY TurnTaken
<1>3. EntryCount \in Nat /\ NumConns \in Nat \ {0}
  BY Assumed
<1>4. /\ entry' = [entry EXCEPT ![c] = @ + NumConns]
      /\ status' = [status EXCEPT ![Entry(c)] = how]
      /\ cancelled' = (cancelled \/ Ends(how))
      /\ stage' = [stage EXCEPT ![c] = IF Ends(how) THEN "done" ELSE "idle"]
  BY DEF Finish
<1>5. /\ entry' \in [Conns -> 1 .. Len(Entries) + NumConns]
      /\ entry'[c] = entry[c] + NumConns
      /\ \A d \in Conns \ {c} : entry'[d] = entry[d]
  <2>1. entry[c] + NumConns \in 1..Len(Entries) + NumConns
    BY <1>2, <1>3 DEF EntryCount
  <2> QED
    BY <1>1, <1>4, <2>1
<1>6. /\ status' \in [Restored -> {"todo"} \cup Verdicts]
      /\ status'[Entry(c)] = how
      /\ \A t \in Restored \ {Entry(c)} : status'[t] = status[t]
  BY <1>1, <1>2, <1>4
<1>7. Ends(how) \in BOOLEAN /\ (Ends(how) => how # "restored")
  BY DEF Ends
<1>8. /\ cancelled' \in BOOLEAN
      /\ cancelled => cancelled'
      /\ cancelled' => cancelled \/ how # "restored"
  BY <1>1, <1>4, <1>7, Zenon
<1>9. /\ stage'[c] \in {"idle", "done"}
      /\ stage'[c] = "done" => Ends(how)
      /\ \A d \in Conns \ {c} : stage'[d] = stage[d]
  BY <1>1, <1>4
<1>10. stage'[c] = "done" => cancelled'
  BY <1>4, <1>9, Zenon
<1> QED
  BY <1>5, <1>6, <1>8, <1>9, <1>10

-----------------------------------------------------------------------------
(* What a step of the helper does to the connections                       *)

HelperNext ==
  \/ Helper \/ PositionFails \/ ReadFails \/ StopHelper \/ UNCHANGED vars

Stages == {"idle", "check", "found", "remove", "test", "open", "blocked",
           "reading", "eof", "failed", "done"}
InPipe(c) == stage[c] \in {"blocked", "reading"}

\* A pipe has one reader at most, the connection whose turn it is.
LEMMA OneReader ==
  ASSUME TypeOK, ConnInv, NEW p, NEW c \in ReadersOf(p)
  PROVE  /\ c \in Conns /\ InPipe(c) /\ Busy(c) /\ p = <<Entry(c), batch[c]>>
         /\ p[1] = Entry(c) /\ p[2] = batch[c] /\ PipeOf(Turn(c)) = p
         /\ p[1] \in Restored /\ status[p[1]] = "todo"
         /\ \A d \in Conns : Busy(d) /\ Entry(d) = p[1] => d = c
<1>1. c \in Conns /\ InPipe(c) /\ Busy(c) /\ p = <<Entry(c), batch[c]>>
  BY DEF ReadersOf, InPipe, Busy, Pipe
<1>2. p[1] = Entry(c) /\ p[2] = batch[c] /\ PipeOf(Turn(c)) = p
  BY <1>1 DEF PipeOf, Turn, Entry
<1>3. p[1] \in Restored /\ status[p[1]] = "todo"
  BY <1>1, <1>2, TurnTaken
<1>4. ASSUME NEW d \in Conns, Busy(d), Entry(d) = p[1] PROVE d = c
  <2>1. entry[d] \in DOMAIN Entries /\ entry[c] \in DOMAIN Entries
        /\ Owner(entry[d]) = d /\ Owner(entry[c]) = c
    BY <1>1, <1>4, TurnTaken
  <2>2. entry[d] = entry[c]
    BY <1>2, <1>4, <2>1, EntriesOnce DEF Entry
  <2> QED
    BY <2>1, <2>2
<1> QED
  BY <1>1, <1>2, <1>3, <1>4

StageMoves ==
  /\ stage' \in [Conns -> Stages]
  /\ \A c \in Conns : \/ stage'[c] = stage[c]
                      \/ InPipe(c) /\ stage'[c] \in {"reading", "eof"}
RowsMove ==
  /\ rows' \in [Restored -> Nat]
  /\ \A t \in Restored : \/ rows'[t] = rows[t]
                         \/ \E c \in Conns : InPipe(c) /\ Entry(c) = t

LEMMA ClosedPipe ==
  ASSUME TypeOK, ConnInv, NEW p, CloseWriter(p)
  PROVE  /\ StageMoves /\ RowsMove
         /\ \A c \in Conns : stage'[c] = IF c \in ReadersOf(p) THEN "eof" ELSE stage[c]
         /\ ReadersOf(p) = {} => rows' = rows
         /\ ReadersOf(p) # {} =>
              /\ p[1] \in Restored /\ rows'[p[1]] = rows[p[1]] + copied
              /\ \A t \in Restored \ {p[1]} : rows'[t] = rows[t]
<1>1. stage \in [Conns -> Stages] /\ rows \in [Restored -> Nat] /\ copied \in Nat
  BY DEF TypeOK, Stages
<1>2. /\ stage' = [c \in Conns |-> IF c \in ReadersOf(p) THEN "eof" ELSE stage[c]]
      /\ rows' = IF ReadersOf(p) = {} THEN rows
                 ELSE [rows EXCEPT ![p[1]] = @ + copied]
  BY DEF CloseWriter
<1>3. \A c \in Conns : stage'[c] = IF c \in ReadersOf(p) THEN "eof" ELSE stage[c]
  BY <1>2
<1>4. StageMoves
  <2>1. "eof" \in Stages
    BY DEF Stages
  <2>2. \A c \in ReadersOf(p) : InPipe(c)
    BY OneReader
  <2> QED
    BY <1>1, <1>2, <2>1, <2>2 DEF StageMoves
<1>5. ReadersOf(p) = {} => rows' = rows
  BY <1>2
<1>6. ASSUME ReadersOf(p) # {}
      PROVE  /\ p[1] \in Restored /\ rows'[p[1]] = rows[p[1]] + copied
             /\ \A t \in Restored \ {p[1]} : rows'[t] = rows[t]
             /\ rows' \in [Restored -> Nat]
             /\ \E c \in Conns : InPipe(c) /\ Entry(c) = p[1]
  <2>1. PICK c : c \in ReadersOf(p)
    BY <1>6
  <2>2. p[1] \in Restored /\ c \in Conns /\ InPipe(c) /\ Entry(c) = p[1]
    BY <2>1, OneReader
  <2>3. rows' = [rows EXCEPT ![p[1]] = @ + copied]
    BY <1>2, <1>6
  <2> QED
    BY <1>1, <2>2, <2>3
<1>7. RowsMove
  <2>1. CASE ReadersOf(p) = {}
    BY <1>1, <1>5, <2>1 DEF RowsMove
  <2>2. CASE ReadersOf(p) # {}
    BY <1>6, <2>2 DEF RowsMove
  <2> QED
    BY <2>1, <2>2
<1> QED
  BY <1>3, <1>4, <1>5, <1>6, <1>7

HelperFrame ==
  /\ UNCHANGED <<inputVars, entry, batch, status, cancelled>>
  /\ StageMoves /\ RowsMove

LEMMA HelperSteps ==
  ASSUME TypeOK, ConnInv, HelperNext
  PROVE  HelperFrame
<1> USE DEF inputVars, connVars
<1>0. stage \in [Conns -> Stages] /\ rows \in [Restored -> Nat]
  BY DEF TypeOK, Stages
<1>1. ASSUME UNCHANGED <<inputVars, connVars>> PROVE HelperFrame
  BY <1>0, <1>1 DEF HelperFrame, StageMoves, RowsMove
<1>2. ASSUME NEW p, CloseWriter(p),
             UNCHANGED <<inputVars, entry, batch, status, cancelled>>
      PROVE  HelperFrame
  BY <1>2, ClosedPipe DEF HelperFrame
<1>3. CASE HelperCreates \/ HelperSkips \/ HelperPositions \/ HelperCopies
           \/ HelperWritesErrorFile \/ HelperLeaves \/ PositionFails \/ StopHelper
           \/ UNCHANGED vars
  BY <1>1, <1>3 DEF HelperCreates, HelperSkips, HelperPositions, HelperCopies,
    HelperWritesErrorFile, HelperLeaves, PositionFails, StopHelper, vars
<1>4. CASE HelperOpens
  <2>1. CASE UNCHANGED stage
    BY <1>1, <1>4, <2>1 DEF HelperOpens
  <2>2. CASE \E c \in ReadersOf(Current) : stage' = [stage EXCEPT ![c] = "reading"]
    <3>1. PICK c \in ReadersOf(Current) : stage' = [stage EXCEPT ![c] = "reading"]
      BY <2>2
    <3>2. InPipe(c) /\ "reading" \in Stages
      BY OneReader DEF Stages
    <3>3. StageMoves
      BY <1>0, <3>1, <3>2 DEF StageMoves
    <3> QED
      BY <1>0, <1>4, <3>3 DEF HelperOpens, HelperFrame, RowsMove
  <2> QED
    BY <1>4, <2>1, <2>2 DEF HelperOpens
<1>5. CASE BrokenPipe
  BY <1>2, <1>5 DEF BrokenPipe, CopyStops, CloseAndDelete
<1>6. CASE ReadFails
  BY <1>2, <1>6 DEF ReadFails, CopyStops, CloseAndDelete
<1>7. CASE HelperEndsTable
  BY <1>2, <1>7 DEF HelperEndsTable, CloseAndDelete
<1>8. CASE HelperClosesWriter
  BY <1>2, <1>8 DEF HelperClosesWriter
<1>9. ASSUME NEW p \in Pipes, HelperReleases(p) PROVE HelperFrame
  <2>1. stage' = [c \in Conns |-> IF c \in ReadersOf(p) /\ ~wasSigpiped THEN "eof"
                                  ELSE stage[c]]
    BY <1>9 DEF HelperReleases
  <2>2. "eof" \in Stages /\ \A c \in ReadersOf(p) : InPipe(c)
    BY OneReader DEF Stages
  <2>3. StageMoves
    BY <1>0, <2>1, <2>2 DEF StageMoves
  <2> QED
    BY <1>0, <1>9, <2>3 DEF HelperReleases, HelperFrame, RowsMove
<1>10. ASSUME NEW p \in Pipes, HelperRemoves(p) PROVE HelperFrame
  BY <1>1, <1>10 DEF HelperRemoves
<1> QED
  BY <1>3, <1>4, <1>5, <1>6, <1>7, <1>8, <1>9, <1>10 DEF HelperNext, Helper, Cleanup

LEMMA StepKinds ==
  ASSUME [Next]_vars
  PROVE  (\E c \in Conns : Conn(c) \/ CopyFails(c)) \/ HelperNext
BY DEF Next, HelperNext, Over

-----------------------------------------------------------------------------
(* Where the helper is                                                     *)

LEMMA AdvanceFacts ==
  ASSUME TypeOK, at \in 1..ListLength, NEW err \in BOOLEAN, Advance(err)
  PROVE  /\ copied' = 0 /\ lastError' \in BOOLEAN
         /\ \/ err /\ ~onErrorContinue /\ at' = at /\ helperPc' = "error"
            \/ at' = at + 1 /\ at + 1 \in 1..ListLength /\ helperPc' = "create"
            \/ /\ at' = at + 1 /\ at = ListLength
               /\ helperPc' \in {"error", "cleanup"}
<1>1. setup \in Setups /\ lastError \in BOOLEAN /\ onErrorContinue \in BOOLEAN
  BY DEF TypeOK
<1>2. ListLength \in Nat
  BY <1>1, ListPlaces
<1>3. copied' = 0 /\ lastError' = (lastError \/ err)
  BY DEF Advance
<1>4. lastError' \in BOOLEAN
  BY <1>3
<1>5. CASE err /\ ~onErrorContinue
  BY <1>3, <1>4, <1>5 DEF Advance
<1>6. CASE ~(err /\ ~onErrorContinue)
  <2>1. at' = at + 1
    BY <1>6 DEF Advance
  <2>2. CASE at < ListLength
    <3>1. helperPc' = "create"
      BY <1>6, <2>2 DEF Advance, ListLength
    <3> QED
      BY <1>2, <1>3, <1>4, <2>1, <2>2, <3>1
  <2>3. CASE ~(at < ListLength)
    <3>1. helperPc' \in {"error", "cleanup"}
      BY <1>6, <2>3 DEF Advance, ListLength
    <3>2. at = ListLength
      BY <1>2, <2>3
    <3> QED
      BY <1>3, <1>4, <2>1, <3>1, <3>2
  <2> QED
    BY <2>2, <2>3
<1> QED
  BY <1>5, <1>6

\* The next place of the list: the table's next batch, or the next table.
LEMMA NextOid ==
  ASSUME setup \in Setups, setup' = setup, at \in 1..ListLength,
         at' = at + 1, at + 1 \in 1..ListLength
  PROVE  /\ Oid' \in Restored
         /\ \/ Oid' = Oid /\ BatchNum' = BatchNum + 1
            \/ /\ BatchNum' = 0 /\ BatchNum + 1 = BatchesOf(Oid) /\ Oid < Oid'
               /\ \A t \in Restored : t <= Oid \/ Oid' <= t
<1>1. PICK p \in Turns : HelperAt(p)
  BY HelperTurn
<1>2. PICK q \in Turns : Place(q) = at + 1
  BY ListPlaces
<1>3. oidWithBatchList' = oidWithBatchList
  BY Kept
<1>4. Oid' = oidWithBatchList[at + 1][1] /\ BatchNum' = oidWithBatchList[at + 1][2]
  BY <1>3 DEF Oid, BatchNum
<1>5. oidWithBatchList[at + 1] = PipeOf(q)
  BY <1>2, ListPlaces
<1>6. Oid' = Entries[q[1]] /\ BatchNum' = q[2]
  BY <1>4, <1>5 DEF PipeOf
<1>7. Oid = Entries[p[1]] /\ BatchNum = p[2]
  BY <1>1 DEF HelperAt
<1>8. \/ q[1] = p[1] /\ q[2] = p[2] + 1
      \/ q[1] = p[1] + 1 /\ q[2] = 0 /\ p[2] + 1 = BatchesOf(Entries[p[1]])
  BY <1>1, <1>2, NextPlace DEF HelperAt
<1>9. p[1] \in DOMAIN Entries /\ q[1] \in DOMAIN Entries
  BY <1>1, TurnFacts
<1>10. Oid' \in Restored
  BY <1>6, <1>9, Assumed
<1>11. ASSUME q[1] = p[1] + 1
       PROVE  Oid < Oid' /\ \A t \in Restored : t <= Oid \/ Oid' <= t
  <2> DEFINE i == p[1]
  <2>1. i \in DOMAIN Entries /\ i + 1 \in DOMAIN Entries
        /\ Oid = Entries[i] /\ Oid' = Entries[i + 1] /\ i \in Nat
    BY <1>6, <1>7, <1>9, <1>11, Assumed
  <2> HIDE DEF i
  <2>2. i < i + 1
    BY <2>1
  <2>3. Oid < Oid'
    BY <2>1, <2>2, EntriesOnce
  <2>4. ASSUME NEW k \in DOMAIN Entries
        PROVE  Entries[k] <= Entries[i] \/ Entries[i + 1] <= Entries[k]
    <3>1. k \in Nat
      BY Assumed
    <3>2. CASE k < i
      BY <2>1, <3>2, EntriesOnce
    <3>3. CASE k = i
      BY <2>1, <3>3, EntriesOnce
    <3>4. CASE k = i + 1
      BY <2>1, <3>4, EntriesOnce
    <3>5. CASE k > i + 1
      BY <2>1, <3>5, EntriesOnce
    <3> QED
      BY <2>1, <3>1, <3>2, <3>3, <3>4, <3>5
  <2> QED
    BY <2>1, <2>3, <2>4 DEF Restored
<1> QED
  BY <1>6, <1>7, <1>8, <1>10, <1>11

LEMMA SameTurn ==
  ASSUME setup' = setup, at' = at
  PROVE  /\ Oid' = Oid /\ BatchNum' = BatchNum /\ Current' = Current
         /\ Size' = Size /\ Start' = Start
<1>1. oidWithBatchList' = oidWithBatchList
  BY Kept
<1>2. Oid' = Oid /\ BatchNum' = BatchNum
  BY <1>1 DEF Oid, BatchNum
<1>3. Size' = Size
  BY <1>2, Kept DEF Size
<1> QED
  BY <1>2, <1>3 DEF Current, Start

\* The current table in the data file and in the stream of its batch.
LEMMA TableFacts ==
  ASSUME setup \in Setups, at \in 1..ListLength
  PROVE  /\ Size \in Nat /\ Start \in Nat /\ Sizes[Oid] \in Nat
         /\ Start + Sizes[Oid] = EndByte[Oid] /\ EndByte[Oid] \in 0..FileSize
         /\ BatchNum < setup.files => Size = Sizes[Oid]
         /\ ~(BatchNum < setup.files) => Size = 0
         /\ Size <= Sizes[Oid]
<1>1. Oid \in Tables /\ BatchNum \in BatchNumbers /\ Oid \in 1..TableCount
  BY HelperTurn
<1>2. Sizes[Oid] \in Nat /\ TableCount \in Nat
  BY <1>1, Assumed
<1>3. (BatchNum < setup.files => Size = Sizes[Oid])
      /\ (~(BatchNum < setup.files) => Size = 0)
  BY DEF Size, InFile
<1>4. Oid \in 0..TableCount /\ Oid - 1 \in 0..TableCount
      /\ TableCount \in Oid..TableCount
  BY <1>1, <1>2
<1>5. EndByte[Oid] <= EndByte[TableCount]
  BY <1>4, EndFacts
<1>6. Start \in Nat /\ EndByte[Oid] \in Nat /\ FileSize \in Nat
      /\ EndByte[Oid] = Start + Sizes[Oid] /\ EndByte[Oid] <= FileSize
  BY <1>1, <1>4, <1>5, EndFacts DEF Start
<1> QED
  BY <1>2, <1>3, <1>6

LEMMA AdvanceHelper ==
  ASSUME TypeOK, HelperInv, Looping, setup' = setup, NEW err \in BOOLEAN,
         Advance(err), skipOid' \in Restored \cup {0}, skipOid' <= Oid
  PROVE  /\ HelperInv' /\ at' \in Nat /\ copied' \in Nat /\ lastError' \in BOOLEAN
         /\ helperPc' \in {"create", "error", "cleanup"}
<1>1. setup \in Setups /\ setup' \in Setups
  BY DEF TypeOK
<1>2. ListLength \in Nat /\ ListLength' = ListLength
  BY <1>1, ListPlaces, Kept
<1>3. at \in 1..ListLength
  <2>1. at \in 1..ListLength + 1 /\ at <= ListLength
    BY DEF HelperInv
  <2> QED
    BY <1>2, <2>1
<1>4. /\ copied' = 0 /\ lastError' \in BOOLEAN
      /\ \/ at' = at /\ helperPc' = "error"
         \/ at' = at + 1 /\ at + 1 \in 1..ListLength /\ helperPc' = "create"
         \/ at' = at + 1 /\ at = ListLength /\ helperPc' \in {"error", "cleanup"}
  BY <1>3, AdvanceFacts
<1>5. at' \in 1..ListLength + 1 /\ at' \in Nat
  BY <1>2, <1>3, <1>4
<1>6. CASE helperPc' = "create"
  <2>1. at' = at + 1 /\ at + 1 \in 1..ListLength
    BY <1>4, <1>6
  <2>2. Oid <= Oid'
    <3>1. Oid' \in Restored /\ Oid \in Restored /\ (Oid' = Oid \/ Oid < Oid')
      BY <1>1, <1>3, <2>1, NextOid, HelperTurn
    <3>2. Oid \in Nat /\ Oid' \in Nat
      BY <3>1, Assumed
    <3> QED
      BY <3>1, <3>2
  <2>3. skipOid' <= Oid'
    <3>1. Oid \in Restored /\ Oid' \in Restored
      BY <1>1, <1>3, <2>1, HelperTurn, NextOid
    <3>2. \A t \in Restored : t \in Nat
      BY Assumed
    <3> QED
      BY <2>2, <3>1, <3>2
  <2>4. at' <= ListLength /\ copied' = 0
    BY <1>4, <2>1, <1>2
  <2>5. HelperInv'
    BY <1>2, <1>5, <1>6, <2>3, <2>4 DEF HelperInv, Looping
  <2> QED
    BY <1>4, <1>5, <1>6, <2>5
<1>7. CASE helperPc' \in {"error", "cleanup"}
  <2>1. HelperInv'
    BY <1>2, <1>5, <1>7 DEF HelperInv, Looping
  <2> QED
    BY <1>4, <1>5, <1>7, <2>1
<1> QED
  BY <1>4, <1>6, <1>7

HelperPcs == {"create", "open", "position", "copy", "failed", "error", "cleanup",
              "gone"}
LoopTypes ==
  /\ helperPc \in HelperPcs /\ at \in Nat /\ skipOid \in Restored \cup {0}
  /\ copied \in Nat /\ wasSigpiped \in BOOLEAN /\ lastError \in BOOLEAN

\* The helper's loop keeps to the list.
LEMMA LoopSteps ==
  ASSUME TypeOK, HelperInv, setup' = setup, HelperNext
  PROVE  HelperInv' /\ LoopTypes'
<1>1. setup \in Setups /\ LoopTypes
  BY DEF TypeOK, LoopTypes, HelperPcs
<1>2. ListLength \in Nat /\ ListLength' = ListLength
  BY <1>1, ListPlaces, Kept
<1>3. skipOid \in Restored \cup {0}
  BY DEF TypeOK
<1> USE DEF loopVars
\* The helper stays at its place.
<1>4. ASSUME at' = at, skipOid' = skipOid, copied' = copied,
             wasSigpiped' \in BOOLEAN, lastError' = lastError, helperPc' \in HelperPcs,
             \/ helperPc' \in {"error", "cleanup", "gone"} \cup {helperPc}
             \/ Looping /\ helperPc' = "failed"
             \/ helperPc = "create" /\ helperPc' = "open" /\ Oid # skipOid
             \/ helperPc = "open" /\ helperPc' = "position"
             \/ helperPc = "position" /\ helperPc' = "copy"
      PROVE  HelperInv' /\ LoopTypes'
  <2>1. Oid' = Oid /\ Size' = Size
    BY <1>4, SameTurn
  <2>2. LoopTypes'
    BY <1>1, <1>4 DEF LoopTypes
  <2>3. HelperInv'
    <3>1. at' \in 1..ListLength' + 1
      BY <1>2, <1>4 DEF HelperInv
    <3>2. Looping' \/ helperPc' = "failed" => at' <= ListLength'
      BY <1>2, <1>4 DEF HelperInv, Looping
    <3>3. Looping' /\ helperPc' # "create" => Oid' # skipOid'
      BY <1>4, <2>1 DEF HelperInv, Looping
    <3>4. Looping' /\ helperPc' # "copy" => copied' = 0
      BY <1>4 DEF HelperInv, Looping
    <3>5. helperPc' = "copy" => copied' <= Size'
      <4> SUFFICES ASSUME helperPc' = "copy" PROVE copied <= Size
        BY <1>4, <2>1
      <4>1. CASE helperPc = "copy"
        BY <4>1 DEF HelperInv
      <4>2. CASE helperPc # "copy"
        <5>1. Looping /\ copied = 0
          BY <1>4, <4>2 DEF HelperInv, Looping
        <5>2. at \in 1..ListLength
          BY <1>2, <5>1 DEF HelperInv
        <5>3. Size \in Nat
          BY <1>1, <5>2, TableFacts
        <5> QED
          BY <5>1, <5>3
      <4> QED
        BY <4>1, <4>2
    <3>6. Looping' => skipOid' <= Oid'
      BY <1>4, <2>1 DEF HelperInv, Looping
    <3> QED
      BY <3>1, <3>2, <3>3, <3>4, <3>5, <3>6 DEF HelperInv
  <2> QED
    BY <2>2, <2>3
\* The helper goes on.
<1>5. ASSUME NEW err \in BOOLEAN, Advance(err), Looping, skipOid' \in Restored \cup {0},
             skipOid' = skipOid \/ skipOid' = Oid, wasSigpiped' \in BOOLEAN
      PROVE  HelperInv' /\ LoopTypes'
  <2>1. at \in 1..ListLength /\ skipOid <= Oid
    BY <1>2, <1>5 DEF HelperInv
  <2>2. Oid \in Nat
    BY <1>1, <2>1, HelperTurn, Assumed
  <2>3. skipOid' <= Oid
    BY <1>5, <2>1, <2>2
  <2>4. /\ HelperInv' /\ at' \in Nat /\ copied' \in Nat /\ lastError' \in BOOLEAN
        /\ helperPc' \in {"create", "error", "cleanup"}
    BY <1>5, <2>3, AdvanceHelper
  <2> QED
    BY <1>5, <2>4 DEF LoopTypes, HelperPcs
<1>6. wasSigpiped \in BOOLEAN
  BY DEF TypeOK
<1>7. CASE HelperCreates
  <2>1. CASE Oid = skipOid
    <3>1. Advance(FALSE) /\ Looping /\ skipOid' = skipOid /\ wasSigpiped' = wasSigpiped
      BY <1>7, <2>1 DEF HelperCreates, Looping
    <3> QED
      BY <1>3, <1>5, <1>6, <3>1
  <2>2. CASE Oid # skipOid
    <3>1. /\ helperPc = "create" /\ helperPc' = "open" /\ "open" \in HelperPcs
          /\ UNCHANGED <<at, copied, lastError, skipOid, wasSigpiped>>
      BY <1>7, <2>2 DEF HelperCreates, HelperPcs
    <3> QED
      BY <1>4, <1>6, <2>2, <3>1
  <2> QED
    BY <2>1, <2>2
<1>8. CASE HelperOpens
  <2>1. /\ helperPc = "open" /\ Looping /\ helperPc' \in {"failed", "position"}
        /\ UNCHANGED <<at, copied, lastError, skipOid, wasSigpiped>>
    BY <1>8 DEF HelperOpens, Looping
  <2> QED
    BY <1>4, <1>6, <2>1 DEF HelperPcs
<1>9. CASE HelperSkips
  <2> DEFINE err == DiscardFrom(BatchNum) # {} /\
                    Max(DiscardFrom(BatchNum)) \in {b \in DiscardFrom(BatchNum) :
                      DiscardFails(b)}
  <2>1. Advance(err) /\ Looping /\ skipOid' = Oid /\ wasSigpiped' = wasSigpiped
        /\ Oid \in skipFiles
    BY <1>9 DEF HelperSkips, Looping
  <2>2. err \in BOOLEAN
    OBVIOUS
  <2>3. Oid \in Restored
    BY <2>1 DEF TypeOK
  <2> HIDE DEF err
  <2> QED
    BY <1>5, <1>6, <2>1, <2>2, <2>3
<1>10. CASE HelperPositions
  <2>1. /\ helperPc = "position" /\ helperPc' = "copy"
        /\ UNCHANGED <<at, copied, lastError, skipOid, wasSigpiped>>
    BY <1>10 DEF HelperPositions
  <2> QED
    BY <1>4, <1>6, <2>1 DEF HelperPcs
<1>11. CASE PositionFails
  <2>1. /\ helperPc = "position" /\ helperPc' = "failed" /\ Looping
        /\ UNCHANGED <<at, copied, lastError, skipOid, wasSigpiped>>
    BY <1>11 DEF PositionFails, Looping
  <2> QED
    BY <1>4, <1>6, <2>1 DEF HelperPcs
<1>12. CASE HelperCopies
  <2>1. /\ helperPc = "copy" /\ copied < Size /\ copied' = copied + 1
        /\ UNCHANGED <<helperPc, at, skipOid, wasSigpiped, lastError>>
    BY <1>12 DEF HelperCopies, Copying
  <2>2. Oid' = Oid /\ Size' = Size
    BY <2>1, SameTurn
  <2>3. copied \in Nat /\ Looping /\ Looping'
    BY <2>1 DEF TypeOK, Looping
  <2>4. at \in 1..ListLength
    BY <1>2, <2>3 DEF HelperInv
  <2>5. Size \in Nat
    BY <1>1, <2>4, TableFacts
  <2>6. copied' <= Size' /\ copied' \in Nat
    BY <2>1, <2>2, <2>3, <2>5
  <2>7. HelperInv'
    BY <1>2, <2>1, <2>2, <2>3, <2>4, <2>6 DEF HelperInv
  <2>8. LoopTypes'
    BY <1>1, <2>1, <2>6 DEF LoopTypes
  <2> QED
    BY <2>7, <2>8
<1>13. CASE BrokenPipe \/ ReadFails
  <2>1. Advance(TRUE) /\ Looping /\ skipOid' = skipOid
        /\ (wasSigpiped' = TRUE \/ wasSigpiped' = wasSigpiped)
    BY <1>13 DEF BrokenPipe, ReadFails, CopyStops, Copying, Looping
  <2> QED
    BY <1>3, <1>5, <1>6, <2>1
<1>14. CASE HelperEndsTable
  <2>1. Looping /\ helperPc = "copy" /\ skipOid' = skipOid
        /\ (wasSigpiped' = TRUE \/ wasSigpiped' = wasSigpiped)
    BY <1>14 DEF HelperEndsTable, Looping
  <2>2. CASE Advance(FALSE)
    BY <1>3, <1>5, <1>6, <2>1, <2>2
  <2>3. CASE helperPc' = "error" /\ UNCHANGED <<at, copied, lastError>>
    BY <1>4, <1>6, <2>1, <2>3 DEF HelperPcs
  <2> QED
    BY <1>14, <2>2, <2>3 DEF HelperEndsTable
<1>15. CASE HelperClosesWriter \/ HelperWritesErrorFile \/ HelperLeaves \/ StopHelper
  <2>1. /\ helperPc' \in {"error", "cleanup", "gone"}
        /\ UNCHANGED <<at, skipOid, copied, wasSigpiped, lastError>>
    BY <1>15 DEF HelperClosesWriter, HelperWritesErrorFile, HelperLeaves, StopHelper
  <2> QED
    BY <1>4, <1>6, <2>1 DEF HelperPcs
<1>16. CASE (\E p \in Pipes : HelperReleases(p) \/ HelperRemoves(p)) \/ UNCHANGED vars
  <2>1. UNCHANGED loopVars
    BY <1>16 DEF HelperReleases, HelperRemoves, vars
  <2> QED
    BY <1>1, <1>4, <1>6, <2>1 DEF LoopTypes
<1> QED
  BY <1>7, <1>8, <1>9, <1>10, <1>11, <1>12, <1>13, <1>14, <1>15, <1>16
  DEF HelperNext, Helper, Cleanup

\* A connection leaves the helper where it is.
LEMMA LoopKept ==
  ASSUME TypeOK, HelperInv, ConnFrame
  PROVE  HelperInv' /\ LoopTypes'
<1>1. UNCHANGED <<setup, helperPc, at, skipOid, copied, wasSigpiped, lastError>>
  BY DEF ConnFrame, inputVars, loopVars
<1>2. Oid' = Oid /\ Size' = Size /\ ListLength' = ListLength
  BY <1>1, SameTurn, Kept
<1>3. HelperInv'
  BY <1>1, <1>2 DEF HelperInv, Looping
<1> QED
  BY <1>1, <1>3 DEF TypeOK, LoopTypes, HelperPcs

-----------------------------------------------------------------------------
(* Where the readers are                                                   *)

LEMMA MinPair ==
  ASSUME NEW x \in Nat, NEW y \in Nat
  PROVE  Min({x, y}) \in Nat /\ Min({x, y}) = IF x <= y THEN x ELSE y
<1>1. Min({x, y}) = CHOOSE m \in {x, y} : \A k \in {x, y} : m <= k
  BY DEF Min
<1>2. \E m \in {x, y} : \A k \in {x, y} : m <= k
  OBVIOUS
<1>3. Min({x, y}) \in {x, y} /\ \A k \in {x, y} : Min({x, y}) <= k
  BY <1>1, <1>2
<1> QED
  BY <1>3

ReaderTypes ==
  /\ pos \in [BatchNumbers -> 0..FileSize]
  /\ lastByte \in [BatchNumbers -> 0..FileSize]
  /\ discardErr \subseteq BatchNumbers
  /\ hit \subseteq Restored

\* The place of the helper while it is in its loop.
LEMMA LoopPlace ==
  ASSUME TypeOK, HelperInv, Looping
  PROVE  at \in 1..ListLength /\ setup \in Setups
<1>1. setup \in Setups
  BY DEF TypeOK
<1>2. ListLength \in Nat
  BY <1>1, ListPlaces
<1> QED
  BY <1>1, <1>2 DEF HelperInv

\* Bytes are only copied from a data file that is there.
LEMMA CopyPlace ==
  ASSUME TypeOK, HelperInv, Copying
  PROVE  /\ Looping /\ helperPc = "copy" /\ BatchNum < setup.files /\ Oid # skipOid
         /\ copied < Size /\ Size = Sizes[Oid] /\ copied \in Nat /\ Size \in Nat
<1>1. helperPc = "copy" /\ copied < Size /\ Looping /\ copied \in Nat
  BY DEF Copying, Looping, TypeOK
<1>2. at \in 1..ListLength /\ setup \in Setups
  BY <1>1, LoopPlace
<1>3. BatchNum < setup.files /\ Size = Sizes[Oid] /\ Size \in Nat
  BY <1>1, <1>2, TableFacts
<1>4. Oid # skipOid
  BY <1>1 DEF HelperInv
<1> QED
  BY <1>1, <1>3, <1>4

\* What is thrown away after an error.
LEMMA DiscardFacts ==
  ASSUME TypeOK, HelperInv, PosInv, Copying, DiscardRest
  PROVE  /\ pos' \in [BatchNumbers -> 0..FileSize]
         /\ discardErr \subseteq discardErr' /\ discardErr' \subseteq BatchNumbers
         /\ \A b \in BatchNumbers : pos'[b] <= StreamSize(b)
         /\ \A b \in BatchNumbers \ {BatchNum} : pos'[b] = pos[b]
         /\ pos[BatchNum] + Size - copied <= StreamSize(BatchNum) =>
              pos'[BatchNum] = pos[BatchNum] + Size - copied
<1> DEFINE end == pos[BatchNum] + Size - copied
           size == StreamSize(BatchNum)
<1>1. copied < Size /\ copied \in Nat /\ Size \in Nat /\ Looping
  BY CopyPlace
<1>2. at \in 1..ListLength /\ setup \in Setups
  BY <1>1, LoopPlace
<1>3. BatchNum \in BatchNumbers
  BY <1>2, HelperTurn
<1>4. pos \in [BatchNumbers -> 0..FileSize] /\ discardErr \subseteq BatchNumbers
  BY DEF TypeOK
<1>5. size \in Nat /\ size <= FileSize /\ FileSize \in Nat
  BY <1>2, <1>3, StreamFacts, EndFacts
<1>6. end \in Nat
  BY <1>1, <1>3, <1>4, <1>5
<1>7. pos' = [pos EXCEPT ![BatchNum] = Min({end, size})]
      /\ discardErr' = IF end > size THEN discardErr \cup {BatchNum} ELSE discardErr
  BY DEF DiscardRest
<1> HIDE DEF end, size
<1>8. Min({end, size}) \in 0..FileSize /\ Min({end, size}) <= size
      /\ (end <= size => Min({end, size}) = end)
  BY <1>5, <1>6, MinPair
<1>9. pos' \in [BatchNumbers -> 0..FileSize] /\ pos'[BatchNum] = Min({end, size})
      /\ \A b \in BatchNumbers \ {BatchNum} : pos'[b] = pos[b]
  BY <1>3, <1>4, <1>7, <1>8
<1>10. \A b \in BatchNumbers : pos'[b] <= StreamSize(b)
  BY <1>8, <1>9 DEF PosInv, size
<1>11. discardErr \subseteq discardErr' /\ discardErr' \subseteq BatchNumbers
  BY <1>3, <1>4, <1>7
<1> QED
  BY <1>8, <1>9, <1>10, <1>11 DEF end, size

\* BrokenPipe and ReadFails: the rest may be thrown away.
LEMMA StopFacts ==
  ASSUME TypeOK, HelperInv, PosInv, BrokenPipe \/ ReadFails
  PROVE  /\ Copying /\ Advance(TRUE) /\ NoteLastByte /\ hit' \subseteq Restored
         /\ UNCHANGED <<setup, onErrorContinue, skipFiles, skipOid>>
         /\ \/ DiscardRest /\ RestDiscarded /\ ~Dead
            \/ UNCHANGED pos /\ discardErr' = discardErr
                             /\ (Dead \/ AtEnd \/ ~RestDiscarded)
            \/ /\ UNCHANGED pos /\ discardErr' = discardErr \cup {BatchNum}
               /\ RestDiscarded /\ ~Dead
         /\ pos' \in [BatchNumbers -> 0..FileSize] /\ discardErr' \subseteq BatchNumbers
         /\ \A b \in BatchNumbers : pos'[b] <= StreamSize(b)
<1>1. /\ Copying /\ Advance(TRUE) /\ NoteLastByte
      /\ UNCHANGED <<setup, onErrorContinue, skipFiles, skipOid>>
  BY DEF BrokenPipe, ReadFails, CopyStops, inputVars
<1>2. Looping
  BY <1>1, CopyPlace
<1>3. at \in 1..ListLength /\ setup \in Setups
  BY <1>2, LoopPlace
<1>4. BatchNum \in BatchNumbers /\ Oid \in Restored
  BY <1>3, HelperTurn
<1>5. hit' \subseteq Restored
  BY <1>4 DEF BrokenPipe, ReadFails, TypeOK
<1>6. \/ DiscardRest /\ RestDiscarded /\ ~Dead
      \/ UNCHANGED pos /\ discardErr' = discardErr /\ (Dead \/ AtEnd \/ ~RestDiscarded)
      \/ /\ UNCHANGED pos /\ discardErr' = discardErr \cup {BatchNum}
         /\ RestDiscarded /\ ~Dead
  <2>1. CASE BrokenPipe
    BY <2>1 DEF BrokenPipe
  <2>2. CASE ReadFails
    BY <2>2 DEF ReadFails
  <2> QED
    BY <2>1, <2>2
<1>7. /\ pos' \in [BatchNumbers -> 0..FileSize] /\ discardErr' \subseteq BatchNumbers
      /\ \A b \in BatchNumbers : pos'[b] <= StreamSize(b)
  <2>1. CASE DiscardRest
    BY <1>1, <2>1, DiscardFacts
  <2>2. CASE UNCHANGED pos /\ discardErr' \in {discardErr, discardErr \cup {BatchNum}}
    BY <1>4, <2>2 DEF TypeOK, PosInv
  <2> QED
    BY <1>6, <2>1, <2>2
<1> QED
  BY <1>1, <1>5, <1>6, <1>7

\* What HelperSkips takes from the streams.
LEMMA SkipFacts ==
  ASSUME TypeOK, HelperInv, PosInv, HelperSkips
  PROVE  /\ Looping /\ helperPc = "open" /\ Oid \in skipFiles /\ skipOid' = Oid
         /\ UNCHANGED <<setup, skipFiles, lastByte>>
         /\ pos' \in [BatchNumbers -> 0..FileSize] /\ discardErr' \subseteq BatchNumbers
         /\ discardErr \subseteq discardErr'
         /\ \A b \in BatchNumbers : pos'[b] <= StreamSize(b)
         /\ \A b \in BatchNumbers \ DiscardFrom(BatchNum) : pos'[b] = pos[b]
         /\ setup.reader # "subset" => pos' = pos /\ discardErr' = discardErr
         /\ \A b \in DiscardFrom(BatchNum) :
              b \notin discardErr' => pos'[b] = pos[b] + Sizes[Oid]
         /\ \A b \in DiscardFrom(BatchNum) :
              b \notin discardErr' => b \notin discardErr
<1> DEFINE discards == DiscardFrom(BatchNum)
           failing  == {b \in discards : DiscardFails(b)}
           p(b) == IF b \notin discards \/ b \in discardErr THEN pos[b]
                   ELSE Min({pos[b] + Sizes[Oid], StreamSize(b)})
<1>1. /\ Looping /\ helperPc = "open" /\ Oid \in skipFiles /\ skipOid' = Oid
      /\ UNCHANGED <<setup, skipFiles, lastByte>>
      /\ pos' = [b \in BatchNumbers |-> p(b)]
      /\ discardErr' = discardErr \cup failing
  BY DEF HelperSkips, Looping, inputVars
<1>2. at \in 1..ListLength /\ setup \in Setups
  BY <1>1, LoopPlace
<1>3. Sizes[Oid] \in Nat
  BY <1>2, TableFacts
<1>4. pos \in [BatchNumbers -> 0..FileSize] /\ discardErr \subseteq BatchNumbers
      /\ \A b \in BatchNumbers : pos[b] <= StreamSize(b)
  BY DEF TypeOK, PosInv
<1>5. discards \subseteq BatchNumbers /\ failing \subseteq discards
  BY DEF DiscardFrom
<1>6. ASSUME NEW b \in BatchNumbers
      PROVE  /\ p(b) \in 0..FileSize /\ p(b) <= StreamSize(b)
             /\ /\ pos[b] + Sizes[Oid] <= StreamSize(b)
                /\ b \in discards /\ b \notin discardErr
                => p(b) = pos[b] + Sizes[Oid]
  <2>1. StreamSize(b) \in Nat /\ StreamSize(b) <= FileSize /\ FileSize \in Nat
    BY <1>2, StreamFacts, EndFacts
  <2>2. pos[b] \in Nat /\ pos[b] + Sizes[Oid] \in Nat /\ pos[b] <= StreamSize(b)
        /\ pos[b] \in 0..FileSize
    BY <1>3, <1>4, <2>1
  <2> DEFINE m == Min({pos[b] + Sizes[Oid], StreamSize(b)})
  <2>3. /\ m \in Nat
        /\ m = IF pos[b] + Sizes[Oid] <= StreamSize(b) THEN pos[b] + Sizes[Oid]
               ELSE StreamSize(b)
    BY <2>1, <2>2, MinPair
  <2> HIDE DEF m
  <2>4. m \in 0..FileSize /\ m <= StreamSize(b)
    BY <2>1, <2>2, <2>3
  <2>5. p(b) = IF b \notin discards \/ b \in discardErr THEN pos[b] ELSE m
    BY DEF m
  <2> HIDE DEF p, discards
  <2> QED
    BY <2>2, <2>3, <2>4, <2>5
<1>7. \A b \in BatchNumbers : pos'[b] = p(b)
  BY <1>1
<1>8. \A b \in BatchNumbers \ discards : p(b) = pos[b]
  OBVIOUS
<1>9. setup.reader # "subset" => discards = {} /\ failing = {}
  BY DEF DiscardFrom
<1>10. ASSUME NEW b \in discards, b \notin discardErr'
       PROVE  b \notin discardErr /\ pos[b] + Sizes[Oid] <= StreamSize(b)
  <2>1. b \notin discardErr /\ b \notin failing
    BY <1>1, <1>10
  <2>2. ~DiscardFails(b)
    BY <2>1
  <2>3. ~(pos[b] + Sizes[Oid] > StreamSize(b))
    BY <2>2 DEF DiscardFails
  <2>4. b \in BatchNumbers
    BY <1>5
  <2>5. StreamSize(b) \in Nat /\ pos[b] \in Nat /\ FileSize \in Nat
    BY <1>2, <1>4, <2>4, StreamFacts, EndFacts
  <2> QED
    BY <1>3, <2>1, <2>3, <2>5
<1> HIDE DEF p, failing
<1>11. pos' \in [BatchNumbers -> 0..FileSize]
  BY <1>1, <1>6
<1>12. setup.reader # "subset" => pos' = pos /\ discardErr' = discardErr
  BY <1>1, <1>4, <1>7, <1>8, <1>9, <1>11
<1>13. discardErr' \subseteq BatchNumbers /\ discardErr \subseteq discardErr'
  BY <1>1, <1>4, <1>5
<1>14. \A b \in discards : b \notin discardErr' => pos'[b] = pos[b] + Sizes[Oid]
  BY <1>5, <1>6, <1>7, <1>10
<1> QED
  BY <1>1, <1>6, <1>7, <1>8, <1>10, <1>11, <1>12, <1>13, <1>14

\* No reader passes the end of its stream.
LEMMA PosSteps ==
  ASSUME TypeOK, HelperInv, PosInv, SeekInv, HelperNext
  PROVE  ReaderTypes' /\ PosInv'
<1>1. /\ pos \in [BatchNumbers -> 0..FileSize]
           /\ lastByte \in [BatchNumbers -> 0..FileSize]
      /\ discardErr \subseteq BatchNumbers /\ hit \subseteq Restored /\ setup \in Setups
  BY DEF TypeOK
<1>2. \A b \in BatchNumbers : pos[b] <= StreamSize(b)
  BY DEF PosInv
<1>3. ASSUME UNCHANGED setup, hit' \subseteq Restored,
             discardErr' \subseteq BatchNumbers,
             lastByte' \in [BatchNumbers -> 0..FileSize],
             pos' \in [BatchNumbers -> 0..FileSize],
             \A b \in BatchNumbers : pos'[b] <= StreamSize(b)
      PROVE  ReaderTypes' /\ PosInv'
  BY <1>3, Kept DEF ReaderTypes, PosInv
<1>4. ASSUME UNCHANGED <<setup, readerVars>> PROVE ReaderTypes' /\ PosInv'
  BY <1>1, <1>2, <1>3, <1>4 DEF readerVars
<1>5. CASE HelperSkips
  <2>1. hit' = hit
    BY <1>5 DEF HelperSkips
  <2> QED
    BY <1>1, <1>3, <1>5, <2>1, SkipFacts
<1>6. CASE HelperPositions
  <2>1. /\ Looping /\ helperPc = "position"
        /\ UNCHANGED <<setup, lastByte, discardErr, hit>>
        /\ pos' = IF setup.reader = "subset" \/ BatchNum >= setup.files THEN pos
                  ELSE [pos EXCEPT ![BatchNum] = @ + Start - lastByte[BatchNum]]
    BY <1>6 DEF HelperPositions, Looping, inputVars
  <2>2. at \in 1..ListLength
    BY <2>1, LoopPlace
  <2>3. BatchNum \in BatchNumbers /\ Start \in Nat /\ Start <= FileSize
        /\ FileSize \in Nat
    <3>1. /\ Start \in Nat /\ Sizes[Oid] \in Nat /\ EndByte[Oid] \in 0..FileSize
          /\ Start + Sizes[Oid] = EndByte[Oid]
      BY <1>1, <2>2, TableFacts
    <3> QED
      BY <1>1, <2>2, <3>1, HelperTurn, EndFacts
  <2>4. CASE pos' = pos
    BY <1>1, <1>2, <1>3, <2>1, <2>4
  <2>5. CASE setup.reader # "subset" /\ ~(BatchNum >= setup.files)
    <3>1. pos[BatchNum] = lastByte[BatchNum]
      BY <2>1, <2>3, <2>5 DEF SeekInv
    <3>2. pos' = [pos EXCEPT ![BatchNum] = @ + Start - lastByte[BatchNum]]
      BY <2>1, <2>5
    <3>3. pos[BatchNum] + Start - lastByte[BatchNum] = Start
      BY <1>1, <2>3, <3>1
    <3>4. pos' \in [BatchNumbers -> 0..FileSize]
          /\ \A b \in BatchNumbers : pos'[b] = pos[b] \/ pos'[b] = Start
      BY <1>1, <2>3, <3>2, <3>3
    <3>5. \A b \in BatchNumbers : StreamSize(b) = FileSize
      BY <1>1, <2>5, WholeStream
    <3>6. \A b \in BatchNumbers : pos'[b] <= StreamSize(b)
      BY <1>2, <2>3, <3>4, <3>5
    <3> QED
      BY <1>1, <1>3, <2>1, <3>4, <3>6
  <2> QED
    BY <2>1, <2>4, <2>5
<1>7. CASE HelperCopies
  <2>1. /\ Copying /\ ~AtEnd /\ UNCHANGED <<setup, lastByte, discardErr, hit>>
        /\ pos' = [pos EXCEPT ![BatchNum] = @ + 1]
    BY <1>7 DEF HelperCopies, inputVars
  <2>2. at \in 1..ListLength
    BY <2>1, CopyPlace, LoopPlace
  <2>3. BatchNum \in BatchNumbers
    BY <1>1, <2>2, HelperTurn
  <2>4. StreamSize(BatchNum) \in Nat /\ StreamSize(BatchNum) <= FileSize
        /\ FileSize \in Nat /\ pos[BatchNum] \in Nat
    BY <1>1, <2>3, StreamFacts, EndFacts
  <2>5. pos[BatchNum] + 1 <= StreamSize(BatchNum) /\ pos[BatchNum] + 1 \in 0..FileSize
    BY <1>2, <2>1, <2>3, <2>4 DEF AtEnd
  <2>6. pos' \in [BatchNumbers -> 0..FileSize]
    BY <1>1, <2>1, <2>5
  <2>7. \A b \in BatchNumbers : pos'[b] <= StreamSize(b)
    BY <1>1, <1>2, <2>1, <2>5
  <2> QED
    BY <1>1, <1>3, <2>1, <2>6, <2>7
<1>8. CASE BrokenPipe \/ ReadFails
  <2>1. /\ Copying /\ NoteLastByte /\ hit' \subseteq Restored /\ UNCHANGED setup
        /\ pos' \in [BatchNumbers -> 0..FileSize] /\ discardErr' \subseteq BatchNumbers
        /\ \A b \in BatchNumbers : pos'[b] <= StreamSize(b)
    BY <1>8, StopFacts
  <2>2. /\ copied < Size /\ Size = Sizes[Oid] /\ copied \in Nat /\ Size \in Nat
        /\ at \in 1..ListLength
    BY <2>1, CopyPlace, LoopPlace
  <2>3. Start \in Nat /\ Start + Sizes[Oid] = EndByte[Oid]
          /\ EndByte[Oid] \in 0..FileSize
        /\ BatchNum \in BatchNumbers
    BY <1>1, <2>2, TableFacts, HelperTurn
  <2>4. Start + copied \in 0..FileSize
    BY <2>2, <2>3, EndFacts
  <2>5. lastByte' \in [BatchNumbers -> 0..FileSize]
    BY <1>1, <2>1, <2>3, <2>4 DEF NoteLastByte
  <2> QED
    BY <1>3, <2>1, <2>5
<1>9. CASE HelperEndsTable
  <2>1. /\ Looping /\ UNCHANGED <<setup, pos, discardErr, hit>>
        /\ lastByte' = [lastByte EXCEPT ![BatchNum] =
                          IF BatchNum < setup.files THEN EndByte[Oid] ELSE @]
    BY <1>9 DEF HelperEndsTable, Looping, inputVars
  <2>2. at \in 1..ListLength
    BY <2>1, LoopPlace
  <2>3. EndByte[Oid] \in 0..FileSize /\ BatchNum \in BatchNumbers
    BY <1>1, <2>2, TableFacts, HelperTurn
  <2>4. lastByte' \in [BatchNumbers -> 0..FileSize]
    BY <1>1, <2>1, <2>3
  <2> QED
    BY <1>1, <1>2, <1>3, <2>1, <2>4
<1>10. CASE HelperCreates \/ HelperOpens \/ HelperClosesWriter \/ HelperWritesErrorFile
            \/ HelperLeaves \/ PositionFails \/ StopHelper \/ UNCHANGED vars
  <2>1. UNCHANGED <<setup, readerVars>>
    BY <1>10 DEF HelperCreates, HelperOpens, HelperClosesWriter, HelperWritesErrorFile,
      HelperLeaves, PositionFails, StopHelper, inputVars, vars
  <2> QED
    BY <1>4, <2>1
<1>11. ASSUME NEW p \in Pipes, HelperReleases(p) \/ HelperRemoves(p)
       PROVE  ReaderTypes' /\ PosInv'
  <2>1. UNCHANGED <<setup, readerVars>>
    BY <1>11 DEF HelperReleases, HelperRemoves, inputVars
  <2> QED
    BY <1>4, <2>1
<1> QED
  BY <1>5, <1>6, <1>7, <1>8, <1>9, <1>10, <1>11 DEF HelperNext, Helper, Cleanup

\* The helper knows where a reader that it positions is.
LEMMA SeekSteps ==
  ASSUME TypeOK, HelperInv, PosInv, SeekInv, HelperNext
  PROVE  SeekInv'
<1>1. /\ pos \in [BatchNumbers -> 0..FileSize]
           /\ lastByte \in [BatchNumbers -> 0..FileSize]
      /\ setup \in Setups /\ copied \in Nat
  BY DEF TypeOK
<1>2. UNCHANGED <<setup, onErrorContinue>>
  BY DEF HelperNext, Helper, HelperCreates, HelperOpens, HelperSkips, HelperPositions,
    HelperCopies, BrokenPipe, CopyStops, HelperEndsTable, HelperClosesWriter,
    HelperWritesErrorFile, Cleanup, HelperReleases, HelperRemoves, HelperLeaves,
    PositionFails, ReadFails, StopHelper, inputVars, vars
<1> SUFFICES ASSUME setup.reader # "subset" PROVE SeekInv'
  BY <1>2 DEF SeekInv
<1>3. /\ discardErr = {}
      /\ Looping => \A b \in BatchNumbers :
           pos[b] = IF helperPc = "copy" /\ b = BatchNum /\ b < setup.files
                    THEN Start + copied ELSE lastByte[b]
  BY DEF SeekInv
\* Outside the loop, and where the place is left alone, there is little to show.
<1>4. ASSUME discardErr' = discardErr, ~Looping' PROVE SeekInv'
  BY <1>3, <1>4 DEF SeekInv
<1>5. ASSUME UNCHANGED <<pos, lastByte, discardErr, at>>, Looping, helperPc # "copy",
             helperPc' # "copy"
      PROVE  SeekInv'
  BY <1>2, <1>3, <1>5 DEF SeekInv
\* The pipe is over: lastByte is where the reader is.
<1>6. ASSUME UNCHANGED <<discardErr>>, NEW err \in BOOLEAN, Advance(err), Looping,
             \A b \in BatchNumbers : pos'[b] = lastByte'[b]
      PROVE  SeekInv'
  <2>1. helperPc' # "copy"
    BY <1>6 DEF Advance
  <2> QED
    BY <1>3, <1>6, <2>1 DEF SeekInv
<1>7. CASE HelperCreates
  <2>1. UNCHANGED <<pos, lastByte, discardErr>> /\ Looping /\ helperPc = "create"
    BY <1>7 DEF HelperCreates, readerVars, Looping
  <2>2. CASE Advance(FALSE)
    BY <1>3, <1>6, <2>1, <2>2
  <2>3. CASE helperPc' = "open" /\ UNCHANGED at
    BY <1>5, <2>1, <2>3
  <2> QED
    BY <1>7, <2>2, <2>3 DEF HelperCreates
<1>8. CASE HelperOpens
  <2>1. UNCHANGED <<pos, lastByte, discardErr, at>> /\ Looping /\ helperPc = "open"
        /\ helperPc' \in {"failed", "position"}
    BY <1>8 DEF HelperOpens, readerVars, Looping
  <2> QED
    BY <1>5, <2>1
<1>9. CASE HelperSkips
  <2>1. pos' = pos /\ discardErr' = discardErr /\ lastByte' = lastByte /\ Looping
        /\ helperPc = "open"
    BY <1>9, SkipFacts
  <2> DEFINE err == DiscardFrom(BatchNum) # {} /\
                    Max(DiscardFrom(BatchNum)) \in {b \in DiscardFrom(BatchNum) :
                      DiscardFails(b)}
  <2>2. Advance(err)
    BY <1>9 DEF HelperSkips
  <2>3. err \in BOOLEAN
    OBVIOUS
  <2> HIDE DEF err
  <2> QED
    BY <1>3, <1>6, <2>1, <2>2, <2>3
<1>10. CASE HelperPositions
  <2>1. /\ Looping /\ helperPc = "position" /\ helperPc' = "copy"
        /\ UNCHANGED <<at, copied, lastByte, discardErr>>
        /\ pos' = IF BatchNum >= setup.files THEN pos
                  ELSE [pos EXCEPT ![BatchNum] = @ + Start - lastByte[BatchNum]]
    BY <1>10 DEF HelperPositions, Looping
  <2>2. at \in 1..ListLength /\ copied = 0
    BY <2>1, LoopPlace DEF HelperInv
  <2>3. BatchNum \in BatchNumbers /\ Start \in Nat /\ BatchNum \in Nat
        /\ setup.files \in Nat
    <3>1. BatchNum \in BatchNumbers /\ Start \in Nat
      BY <1>1, <2>2, TableFacts, HelperTurn
    <3> QED
      BY <1>1, <3>1, SetupFacts, Assumed DEF BatchNumbers
  <2>4. BatchNum' = BatchNum /\ Start' = Start
    BY <1>2, <2>1, SameTurn
  <2>5. \A b \in BatchNumbers : pos[b] = lastByte[b] /\ pos[b] \in Nat
    BY <1>1, <1>3, <2>1, EndFacts
  <2>6. ASSUME NEW b \in BatchNumbers
        PROVE  pos'[b] = IF b = BatchNum /\ b < setup.files THEN Start + copied
                         ELSE lastByte[b]
    <3>1. CASE b = BatchNum /\ b < setup.files
      <4>1. pos'[b] = pos[b] + Start - lastByte[b]
        BY <1>1, <2>1, <2>3, <3>1
      <4> QED
        BY <2>2, <2>3, <2>5, <3>1, <4>1
    <3>2. CASE ~(b = BatchNum /\ b < setup.files)
      <4>1. pos'[b] = pos[b]
        BY <1>1, <2>1, <2>3, <3>2
      <4> QED
        BY <2>5, <3>2, <4>1
    <3> QED
      BY <3>1, <3>2
  <2> QED
    BY <1>2, <1>3, <2>1, <2>4, <2>6 DEF SeekInv
<1>11. CASE HelperCopies
  <2>1. /\ Copying /\ UNCHANGED <<at, helperPc, lastByte, discardErr>>
        /\ copied' = copied + 1 /\ pos' = [pos EXCEPT ![BatchNum] = @ + 1]
    BY <1>11 DEF HelperCopies
  <2>2. Looping /\ helperPc = "copy" /\ BatchNum < setup.files
    BY <2>1, CopyPlace
  <2>3. at \in 1..ListLength
    BY <2>2, LoopPlace
  <2>4. BatchNum \in BatchNumbers /\ Start \in Nat
    BY <1>1, <2>3, TableFacts, HelperTurn
  <2>5. BatchNum' = BatchNum /\ Start' = Start
    BY <1>2, <2>1, SameTurn
  <2>6. pos'[BatchNum] = Start + copied'
    <3>1. pos[BatchNum] = Start + copied
      BY <1>3, <2>2, <2>4
    <3>2. pos'[BatchNum] = pos[BatchNum] + 1
      BY <1>1, <2>1, <2>4
    <3> QED
      BY <1>1, <2>1, <2>4, <3>1, <3>2
  <2>7. \A b \in BatchNumbers : b # BatchNum => pos'[b] = lastByte[b]
    BY <1>1, <1>3, <2>1, <2>2
  <2> QED
    BY <1>2, <1>3, <2>1, <2>2, <2>5, <2>6, <2>7 DEF SeekInv
<1>12. CASE BrokenPipe \/ ReadFails
  <2>1. /\ Copying /\ Advance(TRUE) /\ NoteLastByte
        /\ UNCHANGED pos /\ discardErr' = discardErr
    <3>1. ~RestDiscarded
      BY DEF RestDiscarded
    <3> QED
      BY <1>12, <3>1, StopFacts
  <2>2. Looping /\ helperPc = "copy" /\ BatchNum < setup.files
    BY <2>1, CopyPlace
  <2>3. at \in 1..ListLength
    BY <2>2, LoopPlace
  <2>4. BatchNum \in BatchNumbers
    BY <1>1, <2>3, HelperTurn
  <2>5. \A b \in BatchNumbers : pos'[b] = lastByte'[b]
    BY <1>1, <1>3, <2>1, <2>2, <2>4 DEF NoteLastByte
  <2> QED
    BY <1>6, <2>1, <2>2, <2>5
<1>13. CASE HelperEndsTable
  <2>1. /\ Looping /\ helperPc = "copy" /\ copied = Size
             /\ UNCHANGED <<pos, discardErr>>
        /\ lastByte' = [lastByte EXCEPT ![BatchNum] =
                          IF BatchNum < setup.files THEN EndByte[Oid] ELSE @]
        /\ \/ Advance(FALSE)
           \/ helperPc' = "error"
    BY <1>13 DEF HelperEndsTable, Looping
  <2>2. at \in 1..ListLength
    BY <2>1, LoopPlace
  <2>3. /\ Start + Sizes[Oid] = EndByte[Oid] /\ BatchNum \in BatchNumbers
        /\ BatchNum < setup.files => Size = Sizes[Oid]
    BY <1>1, <2>2, TableFacts, HelperTurn
  <2>4. CASE helperPc' = "error"
    BY <1>4, <2>1, <2>4 DEF Looping
  <2>5. CASE Advance(FALSE)
    <3>1. \A b \in BatchNumbers : pos'[b] = lastByte'[b]
      BY <1>1, <1>3, <2>1, <2>3
    <3> QED
      BY <1>6, <2>1, <2>5, <3>1
  <2> QED
    BY <2>1, <2>4, <2>5
<1>14. CASE HelperClosesWriter \/ HelperWritesErrorFile \/ HelperLeaves \/ StopHelper
            \/ PositionFails
  <2>1. discardErr' = discardErr /\ ~Looping'
    BY <1>14 DEF HelperClosesWriter, HelperWritesErrorFile, HelperLeaves, StopHelper,
      PositionFails, readerVars, Looping
  <2> QED
    BY <1>4, <2>1
<1>15. CASE (\E p \in Pipes : HelperReleases(p) \/ HelperRemoves(p)) \/ UNCHANGED vars
  <2>1. UNCHANGED <<readerVars, loopVars>>
    BY <1>15 DEF HelperReleases, HelperRemoves, vars
  <2>2. BatchNum' = BatchNum /\ Start' = Start
    BY <1>2, <2>1, SameTurn DEF loopVars
  <2> QED
    BY <1>2, <1>3, <2>1, <2>2 DEF SeekInv, readerVars, loopVars, Looping
<1> QED
  BY <1>7, <1>8, <1>9, <1>10, <1>11, <1>12, <1>13, <1>14, <1>15
  DEF HelperNext, Helper, Cleanup

\* The stream of a batch holds a table that has that batch.
LEMMA StreamStep ==
  ASSUME setup \in Setups, setup.reader = "subset", NEW b \in BatchNumbers,
         NEW t \in Restored, b < BatchesOf(t)
  PROVE  /\ StreamEnd[setup][b][t] = StreamEnd[setup][b][t - 1] + Sizes[t]
         /\ StreamEnd[setup][b][t] <= StreamSize(b)
         /\ StreamEnd[setup][b][t - 1] \in Nat /\ StreamEnd[setup][b][t] \in Nat
<1>1. t \in Tables /\ Tables = 1..TableCount /\ TableCount \in Nat
  BY Assumed
<1>2. t \in StreamTables(setup, b)
  BY DEF StreamTables, BatchesOf
<1>3. InStream(b, t) = Sizes[t]
  BY <1>2 DEF InStream
<1>4. StreamEnd[setup][b][t] = StreamEnd[setup][b][t - 1] + Sizes[t]
  BY <1>1, <1>3, StreamFacts
<1>5. t \in 0..TableCount /\ t - 1 \in 0..TableCount /\ TableCount \in t..TableCount
  BY <1>1
<1>6. StreamEnd[setup][b][t] <= StreamEnd[setup][b][TableCount]
  BY <1>5, StreamFacts
<1> QED
  BY <1>4, <1>5, <1>6, StreamFacts

\* After its pipe a live stream is behind the table in the batches that are over.
PassedTable ==
  \A b \in BatchNumbers :
    b < setup.files /\ b \notin discardErr' =>
      pos'[b] = StreamEnd[setup][b][IF b <= BatchNum \/ skipOid' = Oid THEN Oid
                                    ELSE Oid - 1]

LEMMA SubsetNext ==
  ASSUME TypeOK, HelperInv, Looping, setup' = setup, setup.reader = "subset",
         skipOid' = skipOid \/ skipOid' = Oid, NEW err \in BOOLEAN, Advance(err),
         PassedTable
  PROVE  SubsetInv'
<1>1. at \in 1..ListLength /\ setup \in Setups
  BY LoopPlace
<1> SUFFICES ASSUME Looping' PROVE SubsetInv'
  BY DEF SubsetInv
<1>2. at' = at + 1 /\ at + 1 \in 1..ListLength /\ helperPc' = "create"
  BY <1>1, AdvanceFacts DEF Looping
<1>3. /\ Oid' \in Restored /\ Oid \in Restored
      /\ BatchNum \in BatchNumbers /\ BatchNum < BatchesOf(Oid)
      /\ \/ Oid' = Oid /\ BatchNum' = BatchNum + 1
         \/ /\ BatchNum' = 0 /\ BatchNum + 1 = BatchesOf(Oid) /\ Oid < Oid'
            /\ \A t \in Restored : t <= Oid \/ Oid' <= t
  BY <1>1, <1>2, NextOid, HelperTurn
<1>4. \A t \in Restored : t \in Nat \ {0} /\ t \in 1..TableCount
  BY Assumed
<1>5. skipOid' <= Oid
  <2>1. skipOid <= Oid
    BY DEF HelperInv
  <2> QED
    BY <1>3, <1>4, <2>1
<1>6. skipOid' \in Nat
  BY <1>3, <1>4 DEF TypeOK
<1>7. \A b : (CopiedFrom(b))' = 0
  BY <1>2 DEF CopiedFrom
<1>8. ASSUME NEW b \in BatchNumbers, b < setup.files, b \notin discardErr'
      PROVE  pos'[b] = (StreamPlace(b))'
  <2> DEFINE E(t) == StreamEnd[setup][b][t]
  <2>0. \A t : E(t) = StreamEnd[setup'][b][t]
    OBVIOUS
  <2>1. pos'[b] = E(IF b <= BatchNum \/ skipOid' = Oid THEN Oid ELSE Oid - 1)
    BY <1>8 DEF PassedTable
  <2>2. (StreamPlace(b))' = E(IF b < BatchNum'
          \/ skipOid' = Oid' THEN Oid' ELSE Oid' - 1)
    BY DEF StreamPlace
  <2>3. b \in Nat /\ BatchNum \in Nat /\ BatchesOf(Oid) \in Nat
    BY <1>1, <1>3, SetupFacts, Assumed DEF BatchNumbers
  <2>4. CASE Oid' = Oid /\ BatchNum' = BatchNum + 1
    <3>1. b < BatchNum' <=> b <= BatchNum
      BY <2>3, <2>4
    <3> HIDE DEF E
    <3> QED
      BY <2>1, <2>2, <2>4, <3>1
  <2>5. CASE /\ BatchNum' = 0 /\ BatchNum + 1 = BatchesOf(Oid) /\ Oid < Oid'
             /\ \A t \in Restored : t <= Oid \/ Oid' <= t
    <3>1. Oid \in Nat \ {0} /\ Oid' \in Nat \ {0} /\ Oid \in 1..TableCount
          /\ Oid' \in 1..TableCount /\ TableCount \in Nat
      BY <1>3, <1>4, Assumed
    <3>2. ~(b < BatchNum') /\ skipOid' # Oid'
      BY <1>5, <1>6, <2>3, <2>5, <3>1
    <3>3. (StreamPlace(b))' = E(Oid' - 1)
      BY <2>2, <3>2
    <3>4. E(Oid' - 1) = E(Oid)
      <4> DEFINE x == Oid
                 y == Oid'
      <4>1. /\ x \in 1..TableCount /\ y \in 1..TableCount /\ x < y /\ TableCount \in Nat
            /\ \A t \in Restored : t <= x \/ y <= t
        BY <2>5, <3>1
      <4> HIDE DEF x, y
      <4>2. x \in 0..TableCount /\ y - 1 \in x..TableCount
        BY <4>1
      <4>3. \A t \in x + 1..y - 1 : t \notin Restored
        BY <4>1
      <4>4. StreamEnd[setup][b][y - 1] = StreamEnd[setup][b][x]
        BY <1>1, <4>2, <4>3, StreamGap
      <4> QED
        BY <4>4 DEF x, y
    <3>5. b > BatchNum => E(Oid) = E(Oid - 1)
      <4> SUFFICES ASSUME b > BatchNum PROVE E(Oid) = E(Oid - 1)
        OBVIOUS
      <4>1. BatchesOf(Oid) <= b
        BY <2>3, <2>5
      <4>2. Oid - 1 \in 0..TableCount /\ Oid \in Oid - 1..TableCount
            /\ \A t \in (Oid - 1) + 1..Oid : t = Oid
        BY <3>1
      <4> QED
        BY <1>1, <4>1, <4>2, StreamGap
    <3>6. pos'[b] = E(Oid)
      <4>1. CASE b <= BatchNum
        BY <2>1, <4>1
      <4>2. CASE b > BatchNum
        <5>1. E(IF b <= BatchNum \/ skipOid' = Oid THEN Oid ELSE Oid - 1) = E(Oid)
          BY <3>5, <4>2
        <5> QED
          BY <2>1, <5>1
      <4> QED
        BY <2>3, <4>1, <4>2
    <3> HIDE DEF E
    <3> QED
      BY <3>3, <3>4, <3>6
  <2> QED
    BY <1>3, <2>4, <2>5
<1>9. \A b \in BatchNumbers : pos'[b] \in Nat => pos'[b] + 0 = pos'[b]
  OBVIOUS
<1>10. ASSUME NEW b \in BatchNumbers, b < setup.files, b \notin discardErr'
       PROVE  pos'[b] = (StreamPlace(b))' + (CopiedFrom(b))'
  <2> DEFINE k == IF b <= BatchNum \/ skipOid' = Oid THEN Oid ELSE Oid - 1
  <2>1. k \in 0..TableCount
    BY <1>3, <1>4, Assumed
  <2>2. StreamEnd[setup][b][k] \in Nat
    BY <1>1, <2>1, StreamFacts
  <2>3. pos'[b] \in Nat
    BY <1>10, <2>2 DEF PassedTable
  <2> QED
    BY <1>7, <1>8, <1>10, <2>3
<1> QED
  BY <1>10 DEF SubsetInv

\* A subset reader keeps its place, if what is discarded was in its stream.
LEMMA SubsetSteps ==
  ASSUME TypeOK, HelperInv, PosInv, SubsetInv, HelperNext
  PROVE  SubsetInv'
<1>1. pos \in [BatchNumbers -> 0..FileSize] /\ setup \in Setups /\ copied \in Nat
      /\ onErrorContinue \in BOOLEAN
  BY DEF TypeOK
<1>2. UNCHANGED <<setup, onErrorContinue>>
  BY DEF HelperNext, Helper, HelperCreates, HelperOpens, HelperSkips, HelperPositions,
    HelperCopies, BrokenPipe, CopyStops, HelperEndsTable, HelperClosesWriter,
    HelperWritesErrorFile, Cleanup, HelperReleases, HelperRemoves, HelperLeaves,
    PositionFails, ReadFails, StopHelper, inputVars, vars
<1> SUFFICES ASSUME setup.reader = "subset", Looping', ~Shifted' PROVE SubsetInv'
  BY <1>2 DEF SubsetInv
\* The places before the step, while a pipe is open.
<1>3. ASSUME skipFiles' = skipFiles, Looping, NEW b \in BatchNumbers, b < setup.files,
             b \notin discardErr
      PROVE  pos[b] = StreamPlace(b) + CopiedFrom(b)
  <2>1. ~Shifted
    BY <1>2, <1>3 DEF Shifted
  <2> QED
    BY <1>3, <2>1 DEF SubsetInv
<1>4. ASSUME skipFiles' = skipFiles, Looping, helperPc # "create",
             NEW b \in BatchNumbers, b < setup.files, b \notin discardErr
      PROVE  pos[b] = StreamEnd[setup][b][IF b < BatchNum THEN Oid ELSE Oid - 1]
                        + CopiedFrom(b)
  <2>1. Oid # skipOid
    BY <1>4 DEF HelperInv
  <2>2. StreamPlace(b) = StreamEnd[setup][b][IF b < BatchNum THEN Oid ELSE Oid - 1]
    BY <2>1 DEF StreamPlace
  <2> QED
    BY <1>3, <1>4, <2>2
\* The helper stays at its place, and the readers too.
<1>5. ASSUME UNCHANGED <<skipFiles, pos, discardErr, at, skipOid, copied>>, Looping,
             \A b : (CopiedFrom(b))' = CopiedFrom(b)
      PROVE  SubsetInv'
  <2>1. BatchNum' = BatchNum /\ Oid' = Oid
    BY <1>2, <1>5, SameTurn
  <2>2. \A b : (StreamPlace(b))' = StreamPlace(b)
    BY <1>2, <1>5, <2>1 DEF StreamPlace
  <2>3. ASSUME NEW b \in BatchNumbers, b < setup.files, b \notin discardErr
        PROVE  pos'[b] = (StreamPlace(b))' + (CopiedFrom(b))'
    BY <1>3, <1>5, <2>2, <2>3
  <2> QED
    BY <1>2, <1>5, <2>3 DEF SubsetInv
<1>6. ASSUME Looping PROVE at \in 1..ListLength /\ BatchNum \in BatchNumbers
                           /\ Oid \in Restored /\ BatchNum < BatchesOf(Oid)
                           /\ BatchNum \in Nat /\ Oid \in Nat \ {0}
                                /\ Oid \in 1..TableCount
  <2>1. at \in 1..ListLength
    BY <1>6, LoopPlace
  <2>2. BatchNum \in BatchNumbers /\ Oid \in Restored /\ BatchNum < BatchesOf(Oid)
        /\ Oid \in 1..TableCount
    BY <1>1, <2>1, HelperTurn
  <2> QED
    BY <2>1, <2>2, Assumed DEF BatchNumbers
<1>7. ASSUME NEW b \in BatchNumbers PROVE b \in Nat
  BY Assumed DEF BatchNumbers
<1>8. CASE HelperCreates
  <2>1. UNCHANGED <<skipFiles, pos, discardErr, skipOid>> /\ Looping
          /\ helperPc = "create"
    BY <1>8 DEF HelperCreates, readerVars, Looping
  <2>2. \A b : CopiedFrom(b) = 0
    BY <2>1 DEF CopiedFrom
  <2>3. CASE Oid = skipOid /\ Advance(FALSE)
    <3>1. ASSUME NEW b \in BatchNumbers, b < setup.files, b \notin discardErr
          PROVE  pos[b] = StreamEnd[setup][b][Oid]
      <4>1. pos[b] = StreamPlace(b) + CopiedFrom(b)
        BY <1>3, <2>1, <3>1
      <4>2. StreamPlace(b) = StreamEnd[setup][b][Oid]
        BY <2>3 DEF StreamPlace
      <4>3. StreamEnd[setup][b][Oid] \in Nat
        <5>1. Oid \in 0..TableCount
          BY <1>6, <2>1
        <5> QED
          BY <1>1, <5>1, StreamFacts
      <4> QED
        BY <2>2, <4>1, <4>2, <4>3
    <3>2. PassedTable
      BY <2>1, <2>3, <3>1 DEF PassedTable
    <3> QED
      BY <1>2, <2>1, <2>3, <3>2, SubsetNext
  <2>4. CASE helperPc' = "open" /\ UNCHANGED <<at, copied>>
    <3>1. \A b : (CopiedFrom(b))' = CopiedFrom(b)
      BY <2>2, <2>4 DEF CopiedFrom
    <3> QED
      BY <1>5, <2>1, <2>4, <3>1
  <2> QED
    BY <1>8, <2>3, <2>4 DEF HelperCreates
<1>9. CASE HelperOpens
  <2>1. UNCHANGED <<skipFiles, pos, discardErr, skipOid, at, copied>> /\ Looping
        /\ helperPc = "open" /\ helperPc' \in {"failed", "position"}
    BY <1>9 DEF HelperOpens, readerVars, fileVars, Looping
  <2>2. \A b : (CopiedFrom(b))' = CopiedFrom(b)
    BY <2>1 DEF CopiedFrom
  <2> QED
    BY <1>5, <2>1, <2>2
<1>10. CASE HelperPositions
  <2>1. UNCHANGED <<skipFiles, pos, discardErr, skipOid, at, copied>> /\ Looping
        /\ helperPc = "position" /\ helperPc' = "copy"
    BY <1>10 DEF HelperPositions, fileVars, Looping
  <2>2. copied = 0
    BY <2>1 DEF HelperInv
  <2>3. \A b : (CopiedFrom(b))' = CopiedFrom(b)
    BY <2>1, <2>2 DEF CopiedFrom
  <2> QED
    BY <1>5, <2>1, <2>3
<1>11. CASE HelperCopies
  <2>1. /\ Copying /\ ~Dead
        /\ UNCHANGED <<skipFiles, discardErr, helperPc, at, skipOid>>
        /\ copied' = copied + 1 /\ pos' = [pos EXCEPT ![BatchNum] = @ + 1]
    BY <1>11 DEF HelperCopies, fileVars
  <2>2. Looping /\ helperPc = "copy"
    BY <2>1, CopyPlace
  <2>3. BatchNum \in BatchNumbers /\ BatchNum' = BatchNum /\ Oid' = Oid
        /\ Oid \in 1..TableCount
    BY <1>2, <1>6, <2>1, <2>2, SameTurn
  <2>4. \A b : (StreamPlace(b))' = StreamPlace(b)
    BY <1>2, <2>1, <2>3 DEF StreamPlace
  <2>5. ASSUME NEW b \in BatchNumbers, b < setup.files, b \notin discardErr
        PROVE  pos'[b] = (StreamPlace(b))' + (CopiedFrom(b))'
    <3>1. pos[b] = StreamPlace(b) + CopiedFrom(b)
      BY <1>3, <2>1, <2>2, <2>5
    <3>2. CASE b = BatchNum
      <4>1. CopiedFrom(b) = copied /\ (CopiedFrom(b))' = copied + 1
        BY <2>1, <2>2, <2>3, <3>2 DEF CopiedFrom
      <4>2. pos'[b] = pos[b] + 1
        BY <1>1, <2>1, <3>2
      <4>3. StreamPlace(b) \in Nat
        <5> DEFINE k == IF b < BatchNum \/ skipOid = Oid THEN Oid ELSE Oid - 1
        <5>1. k \in 0..TableCount
          BY <2>3, Assumed
        <5>2. StreamEnd[setup][b][k] \in Nat
          BY <1>1, <5>1, StreamFacts
        <5> QED
          BY <5>2 DEF StreamPlace
      <4> QED
        BY <1>1, <2>4, <3>1, <4>1, <4>2, <4>3
    <3>3. CASE b # BatchNum
      <4>1. CopiedFrom(b) = 0 /\ (CopiedFrom(b))' = 0
        BY <2>3, <3>3 DEF CopiedFrom
      <4>2. pos'[b] = pos[b]
        BY <1>1, <2>1, <3>3
      <4> QED
        BY <2>4, <3>1, <4>1, <4>2
    <3> QED
      BY <3>2, <3>3
  <2> QED
    BY <1>2, <2>1, <2>5 DEF SubsetInv
<1>12. CASE HelperSkips
  <2>1. /\ Looping /\ helperPc = "open" /\ Oid \in skipFiles /\ skipOid' = Oid
        /\ skipFiles' = skipFiles /\ discardErr \subseteq discardErr'
        /\ \A b \in BatchNumbers \ DiscardFrom(BatchNum) : pos'[b] = pos[b]
        /\ \A b \in DiscardFrom(BatchNum) :
             b \notin discardErr' => pos'[b] = pos[b] + Sizes[Oid]
    BY <1>12, SkipFacts
  <2>2. Oid \notin setup.replicated
    BY <1>2, <2>1 DEF Shifted
  <2>3. BatchesOf(Oid) = Batches
    BY <1>1, <1>6, <2>1, <2>2, SetupFacts, Assumed
  <2>4. ASSUME NEW b \in BatchNumbers, b < setup.files, b \notin discardErr'
        PROVE  pos'[b] = StreamEnd[setup][b][Oid]
    <3>1. b \notin discardErr /\ CopiedFrom(b) = 0
      BY <2>1, <2>4 DEF CopiedFrom
    <3>2. pos[b] = StreamEnd[setup][b][IF b < BatchNum THEN Oid ELSE Oid - 1] + 0
      BY <1>4, <2>1, <2>4, <3>1
    <3>3. b < BatchesOf(Oid) /\ b \in Nat /\ BatchNum \in Nat
      BY <1>6, <1>7, <2>1, <2>3, Assumed DEF BatchNumbers
    <3>4. /\ StreamEnd[setup][b][Oid] = StreamEnd[setup][b][Oid - 1] + Sizes[Oid]
          /\ StreamEnd[setup][b][Oid - 1] \in Nat /\ StreamEnd[setup][b][Oid] \in Nat
      BY <1>1, <1>6, <2>1, <3>3, StreamStep
    <3>5. CASE b < BatchNum
      <4>1. b \notin DiscardFrom(BatchNum)
        BY <3>3, <3>5 DEF DiscardFrom
      <4> QED
        BY <2>1, <3>2, <3>4, <3>5, <4>1
    <3>6. CASE ~(b < BatchNum)
      <4>1. b \in DiscardFrom(BatchNum)
        BY <2>4, <3>3, <3>6 DEF DiscardFrom
      <4> QED
        BY <2>1, <2>4, <3>2, <3>4, <3>6, <4>1
    <3> QED
      BY <3>5, <3>6
  <2>5. PassedTable
    BY <2>1, <2>4 DEF PassedTable
  <2> DEFINE err == DiscardFrom(BatchNum) # {} /\
                    Max(DiscardFrom(BatchNum)) \in {b \in DiscardFrom(BatchNum) :
                      DiscardFails(b)}
  <2>6. Advance(err)
    BY <1>12 DEF HelperSkips
  <2>7. err \in BOOLEAN
    OBVIOUS
  <2> HIDE DEF err
  <2> QED
    BY <1>2, <2>1, <2>5, <2>6, <2>7, SubsetNext
<1>13. CASE BrokenPipe \/ ReadFails
  <2>1. /\ Copying /\ Advance(TRUE) /\ UNCHANGED <<skipFiles, skipOid>>
        /\ \/ DiscardRest /\ RestDiscarded /\ ~Dead
           \/ UNCHANGED pos /\ discardErr' = discardErr
                            /\ (Dead \/ AtEnd \/ ~RestDiscarded)
           \/ /\ UNCHANGED pos /\ discardErr' = discardErr \cup {BatchNum}
              /\ RestDiscarded /\ ~Dead
    BY <1>13, StopFacts
  <2>2. /\ Looping /\ helperPc = "copy" /\ BatchNum < setup.files /\ Oid # skipOid
        /\ copied < Size /\ Size = Sizes[Oid] /\ Size \in Nat
    BY <2>1, CopyPlace
  <2>3. onErrorContinue
    <3>1. ~onErrorContinue => helperPc' = "error"
      BY <2>1 DEF Advance
    <3> QED
      BY <3>1 DEF Looping
  <2>4. RestDiscarded
    BY <2>3 DEF RestDiscarded
  <2>5. /\ BatchNum \in BatchNumbers /\ Oid \in Restored /\ BatchNum < BatchesOf(Oid)
        /\ BatchNum \in Nat
    BY <1>6, <2>2
  <2>6. /\ StreamEnd[setup][BatchNum][Oid]
             = StreamEnd[setup][BatchNum][Oid - 1] + Sizes[Oid]
        /\ StreamEnd[setup][BatchNum][Oid] <= StreamSize(BatchNum)
        /\ StreamEnd[setup][BatchNum][Oid - 1] \in Nat
        /\ StreamEnd[setup][BatchNum][Oid] \in Nat /\ StreamSize(BatchNum) \in Nat
    BY <1>1, <2>5, StreamStep, StreamFacts
  <2>7. ~Dead => pos[BatchNum] = StreamEnd[setup][BatchNum][Oid - 1] + copied
    <3> SUFFICES ASSUME ~Dead
                 PROVE  pos[BatchNum] = StreamEnd[setup][BatchNum][Oid - 1] + copied
      OBVIOUS
    <3>1. BatchNum \notin discardErr /\ CopiedFrom(BatchNum) = copied
      BY <2>2 DEF Dead, CopiedFrom
    <3> QED
      BY <1>4, <2>1, <2>2, <2>5, <3>1
  <2>8. ~Dead => ~AtEnd
    BY <1>1, <2>2, <2>6, <2>7 DEF AtEnd
  <2>9. BatchNum \notin discardErr' =>
          /\ ~Dead /\ discardErr \subseteq discardErr'
          /\ pos'[BatchNum] = StreamEnd[setup][BatchNum][Oid]
    <3> SUFFICES ASSUME BatchNum \notin discardErr'
                 PROVE  /\ ~Dead /\ discardErr \subseteq discardErr'
                        /\ pos'[BatchNum] = StreamEnd[setup][BatchNum][Oid]
      OBVIOUS
    <3>1. DiscardRest /\ ~Dead
      BY <2>1, <2>4, <2>8 DEF Dead
    <3>2. pos[BatchNum] + Size - copied = StreamEnd[setup][BatchNum][Oid]
      BY <1>1, <2>2, <2>6, <2>7, <3>1
    <3> QED
      BY <2>1, <2>6, <3>1, <3>2, DiscardFacts
  <2>10. /\ discardErr \subseteq discardErr'
         /\ \A b \in BatchNumbers \ {BatchNum} : pos'[b] = pos[b]
    <3>1. CASE DiscardRest
      BY <2>1, <3>1, DiscardFacts
    <3>2. CASE UNCHANGED pos /\ discardErr \subseteq discardErr'
      BY <3>2
    <3> QED
      BY <2>1, <3>1, <3>2
  <2>11. ASSUME NEW b \in BatchNumbers, b < setup.files, b \notin discardErr'
         PROVE  pos'[b] = StreamEnd[setup][b][IF b <= BatchNum THEN Oid ELSE Oid - 1]
    <3>1. CASE b = BatchNum
      BY <2>5, <2>9, <2>11, <3>1
    <3>2. CASE b # BatchNum
      <4>1. b \notin discardErr /\ CopiedFrom(b) = 0 /\ pos'[b] = pos[b]
        BY <2>10, <2>11, <3>2 DEF CopiedFrom
      <4>2. pos[b] = StreamEnd[setup][b][IF b < BatchNum THEN Oid ELSE Oid - 1] + 0
        BY <1>4, <2>1, <2>2, <2>11, <4>1
      <4>3. b < BatchNum <=> b <= BatchNum
        BY <1>7, <2>5, <3>2
      <4> DEFINE k == IF b < BatchNum THEN Oid ELSE Oid - 1
      <4>4. k \in 0..TableCount
        BY <1>6, <2>2, Assumed
      <4>5. StreamEnd[setup][b][k] \in Nat
        BY <1>1, <4>4, StreamFacts
      <4> QED
        BY <4>1, <4>2, <4>3, <4>5
    <3> QED
      BY <3>1, <3>2
  <2>12. PassedTable
    BY <2>1, <2>2, <2>11 DEF PassedTable
  <2> QED
    BY <1>2, <2>1, <2>2, <2>12, SubsetNext
<1>14. CASE HelperEndsTable
  <2>1. /\ Looping /\ helperPc = "copy" /\ copied = Size
        /\ UNCHANGED <<pos, discardErr, skipFiles, skipOid>>
        /\ Advance(FALSE) \/ helperPc' = "error"
    BY <1>14 DEF HelperEndsTable, Looping
  <2>2. Advance(FALSE)
    BY <2>1 DEF Looping
  <2>3. /\ BatchNum \in BatchNumbers /\ Oid \in Restored /\ BatchNum < BatchesOf(Oid)
        /\ BatchNum \in Nat /\ Oid # skipOid
    BY <1>6, <2>1 DEF HelperInv
  <2>4. /\ BatchNum < setup.files => Size = Sizes[Oid]
    BY <1>1, <1>6, <2>1, TableFacts
  <2>5. /\ StreamEnd[setup][BatchNum][Oid]
             = StreamEnd[setup][BatchNum][Oid - 1] + Sizes[Oid]
    BY <1>1, <2>3, StreamStep
  <2>6. ASSUME NEW b \in BatchNumbers, b < setup.files, b \notin discardErr
        PROVE  pos[b] = StreamEnd[setup][b][IF b <= BatchNum THEN Oid ELSE Oid - 1]
    <3>1. pos[b] = StreamEnd[setup][b][IF b < BatchNum THEN
            Oid ELSE Oid - 1] + CopiedFrom(b)
      BY <1>4, <2>1, <2>6
    <3>2. CASE b = BatchNum
      <4>1. CopiedFrom(b) = Sizes[Oid]
        BY <2>1, <2>4, <2>6, <3>2 DEF CopiedFrom
      <4> QED
        BY <2>3, <2>5, <3>1, <3>2, <4>1
    <3>3. CASE b # BatchNum
      <4>1. CopiedFrom(b) = 0
        BY <3>3 DEF CopiedFrom
      <4>2. b < BatchNum <=> b <= BatchNum
        BY <1>7, <2>3, <3>3
      <4> DEFINE k == IF b < BatchNum THEN Oid ELSE Oid - 1
      <4>3. k \in 0..TableCount
        BY <1>6, <2>1, Assumed
      <4>4. StreamEnd[setup][b][k] \in Nat
        BY <1>1, <4>3, StreamFacts
      <4> QED
        BY <3>1, <4>1, <4>2, <4>4
    <3> QED
      BY <3>2, <3>3
  <2>7. PassedTable
    BY <2>1, <2>3, <2>6 DEF PassedTable
  <2> QED
    BY <1>2, <2>1, <2>2, <2>7, SubsetNext
<1>15. CASE HelperClosesWriter \/ HelperWritesErrorFile \/ HelperLeaves \/ StopHelper
            \/ PositionFails
  BY <1>15 DEF HelperClosesWriter, HelperWritesErrorFile, HelperLeaves, StopHelper,
    PositionFails, Looping
<1>16. CASE (\E p \in Pipes : HelperReleases(p) \/ HelperRemoves(p)) \/ UNCHANGED vars
  <2>1. UNCHANGED <<skipFiles, readerVars, loopVars>>
    BY <1>16 DEF HelperReleases, HelperRemoves, vars, fileVars
  <2>2. Looping /\ BatchNum' = BatchNum
    BY <1>2, <2>1, SameTurn DEF loopVars, Looping
  <2>3. \A b : (CopiedFrom(b))' = CopiedFrom(b)
    BY <2>1, <2>2 DEF CopiedFrom, loopVars
  <2> QED
    BY <1>5, <2>1, <2>2, <2>3 DEF readerVars, loopVars
<1> QED
  BY <1>8, <1>9, <1>10, <1>11, <1>12, <1>13, <1>14, <1>15, <1>16
  DEF HelperNext, Helper, Cleanup

\* A connection leaves the readers where they are.
LEMMA ReadersKept ==
  ASSUME TypeOK, PosInv, SeekInv, SubsetInv, ConnFrame
  PROVE  ReaderTypes' /\ PosInv' /\ SeekInv' /\ SubsetInv'
<1>1. /\ UNCHANGED <<setup, helperPc, at, skipOid, copied>>
      /\ UNCHANGED <<pos, lastByte, discardErr, hit>> /\ skipFiles \subseteq skipFiles'
  BY DEF ConnFrame, inputVars, loopVars, readerVars
<1>2. BatchNum' = BatchNum /\ Oid' = Oid /\ Start' = Start
  BY <1>1, SameTurn
<1>3. ReaderTypes' /\ PosInv'
  BY <1>1, Kept DEF TypeOK, ReaderTypes, PosInv
<1>4. SeekInv'
  BY <1>1, <1>2 DEF SeekInv, Looping
<1>5. SubsetInv'
  <2>1. ~Shifted' => ~Shifted
    BY <1>1 DEF Shifted
  <2>2. \A b : (StreamPlace(b))' = StreamPlace(b) /\ (CopiedFrom(b))' = CopiedFrom(b)
    BY <1>1, <1>2 DEF StreamPlace, CopiedFrom
  <2> QED
    BY <1>1, <2>1, <2>2 DEF SubsetInv, Looping
<1> QED
  BY <1>3, <1>4, <1>5

-----------------------------------------------------------------------------
(* Types                                                                   *)

InputTypes == setup \in Setups /\ onErrorContinue \in BOOLEAN
ConnTypes ==
  /\ entry \in [Conns -> 1 .. Len(Entries) + NumConns]
  /\ batch \in [Conns -> BatchNumbers]
  /\ stage \in [Conns -> Stages]
  /\ rows \in [Restored -> Nat]
  /\ status \in [Restored -> {"todo"} \cup Verdicts]
  /\ cancelled \in BOOLEAN
FileTypes ==
  /\ pipe \in [Pipes -> {"none", "fifo", "released", "removed"}]
  /\ skipFiles \subseteq Restored
  /\ errorFile \in BOOLEAN

LEMMA TypeParts ==
  TypeOK <=> InputTypes /\ ConnTypes /\ FileTypes /\ LoopTypes /\ ReaderTypes
<1>1. Stages = {"idle", "check", "found", "remove", "test", "open", "blocked",
                "reading", "eof", "failed", "done"}
  BY DEF Stages
<1>2. {"todo"} \cup Verdicts = {"todo", "restored", "copyFailed", "short",
        "agentFailed"}
  BY DEF Verdicts
<1> QED
  BY <1>1, <1>2, Zenon
  DEF TypeOK, InputTypes, ConnTypes, FileTypes, LoopTypes, ReaderTypes, HelperPcs

LEMMA ConnTypeSteps ==
  ASSUME TypeOK, ConnInv, NEW c \in Conns, ConnFrame,
         \/ ConnWorks(c) \/ NextTable(c) \/ Stops(c) \/ ConnFinishes(c)
         \/ ConnContinues(c)
  PROVE  InputTypes' /\ ConnTypes' /\ FileTypes'
<1>1. InputTypes /\ ConnTypes /\ FileTypes
  BY TypeParts
<1>2. InputTypes'
  BY <1>1 DEF ConnFrame, inputVars, InputTypes
<1>3. pipe' = pipe /\ errorFile' \in BOOLEAN
  BY DEF ConnFrame
<1>4. ASSUME NEW s \in Stages, stage' = [stage EXCEPT ![c] = s]
      PROVE  stage' \in [Conns -> Stages]
  BY <1>1, <1>4 DEF ConnTypes
<1>5. \A s : s \in {"found", "remove", "test", "open", "blocked", "failed", "check",
                    "done"} => s \in Stages
  BY DEF Stages
<1>6. CASE ConnWorks(c)
  <2>1. stage' \in [Conns -> Stages]
    BY <1>4, <1>5, <1>6 DEF ConnWorks
  <2>2. UNCHANGED <<entry, batch, rows, status, cancelled, skipFiles>>
    BY <1>6 DEF ConnWorks
  <2> QED
    BY <1>1, <1>2, <1>3, <2>1, <2>2 DEF ConnTypes, FileTypes
<1>7. CASE NextTable(c)
  <2>1. stage' \in [Conns -> Stages]
    BY <1>4, <1>5, <1>7 DEF NextTable, Go
  <2>2. batch' \in [Conns -> BatchNumbers]
    <3>1. 0 \in BatchNumbers
      BY Assumed DEF BatchNumbers
    <3> QED
      BY <1>1, <1>7, <3>1 DEF NextTable, ConnTypes
  <2>3. UNCHANGED <<entry, rows, status, cancelled, skipFiles>>
    BY <1>7 DEF NextTable, fileVars
  <2> QED
    BY <1>1, <1>2, <1>3, <2>1, <2>2, <2>3 DEF ConnTypes, FileTypes
<1>8. CASE Stops(c)
  <2>1. stage' \in [Conns -> Stages]
    BY <1>4, <1>5, <1>8 DEF Stops, Go
  <2>2. UNCHANGED <<entry, batch, rows, status, cancelled, skipFiles>>
    BY <1>8 DEF Stops, fileVars
  <2> QED
    BY <1>1, <1>2, <1>3, <2>1, <2>2 DEF ConnTypes, FileTypes
<1>9. CASE ConnFinishes(c)
  <2>1. PICK how \in Verdicts :
          /\ Finish(c, how) /\ skipFiles' \subseteq skipFiles \cup {Entry(c)}
          /\ UNCHANGED <<batch, rows>>
          /\ stage[c] \in {"found", "failed", "eof"}
    BY <1>9 DEF ConnFinishes, Verdicts
  <2>2. Busy(c)
    BY <2>1 DEF Busy
  <2>3. stage' \in [Conns -> Stages]
    <3>1. (IF Ends(how) THEN "done" ELSE "idle") \in Stages
      BY DEF Stages
    <3>2. stage' = [stage EXCEPT ![c] = IF Ends(how) THEN "done" ELSE "idle"]
      BY <2>1 DEF Finish
    <3> QED
      BY <1>4, <3>1, <3>2
  <2>4. /\ entry' \in [Conns -> 1 .. Len(Entries) + NumConns]
        /\ status' \in [Restored -> {"todo"} \cup Verdicts]
        /\ cancelled' \in BOOLEAN
    BY <2>1, <2>2, FinishFacts
  <2>5. skipFiles' \subseteq Restored
    BY <1>1, <2>1, <2>2, TurnTaken DEF FileTypes
  <2> QED
    BY <1>1, <1>2, <1>3, <2>1, <2>3, <2>4, <2>5 DEF ConnTypes, FileTypes
<1>10. CASE ConnContinues(c)
  <2>1. stage' \in [Conns -> Stages]
    BY <1>4, <1>5, <1>10 DEF ConnContinues
  <2>2. Busy(c) /\ batch[c] + 1 < BatchesOf(Entry(c))
    BY <1>10 DEF ConnContinues, Busy
  <2>3. batch[c] + 1 \in BatchNumbers
    <3>1. batch[c] \in Nat
      BY <2>2, TurnTaken
    <3>2. BatchesOf(Entry(c)) \in 1..Batches /\ Batches \in Nat
      BY <1>1, SetupFacts, Assumed DEF InputTypes
    <3> QED
      BY <2>2, <3>1, <3>2 DEF BatchNumbers
  <2>4. batch' \in [Conns -> BatchNumbers]
    BY <1>1, <1>10, <2>3 DEF ConnContinues, ConnTypes
  <2>5. UNCHANGED <<entry, rows, status, cancelled, skipFiles>>
    BY <1>10 DEF ConnContinues
  <2> QED
    BY <1>1, <1>2, <1>3, <2>1, <2>4, <2>5 DEF ConnTypes, FileTypes
<1> QED
  BY <1>6, <1>7, <1>8, <1>9, <1>10

LEMMA HelperTypeSteps ==
  ASSUME TypeOK, HelperInv, HelperNext, HelperFrame
  PROVE  InputTypes' /\ ConnTypes' /\ FileTypes'
<1>1. InputTypes /\ ConnTypes /\ FileTypes
  BY TypeParts
<1>2. InputTypes' /\ ConnTypes'
  BY <1>1 DEF HelperFrame, inputVars, StageMoves, RowsMove, InputTypes, ConnTypes
<1> SUFFICES FileTypes'
  BY <1>2
<1> DEFINE Kinds == {"none", "fifo", "released", "removed"}
<1>3. pipe \in [Pipes -> Kinds] /\ skipFiles \subseteq Restored /\ errorFile \in BOOLEAN
  BY <1>1 DEF FileTypes
<1>4. "fifo" \in Kinds /\ "released" \in Kinds /\ "removed" \in Kinds
  OBVIOUS
<1> HIDE DEF Kinds
<1>5. ASSUME NEW p, NEW k \in Kinds,
             pipe' = pipe \/ pipe' = [pipe EXCEPT ![p] = k],
             UNCHANGED <<skipFiles, errorFile>>
      PROVE  FileTypes'
  <2>1. pipe' \in [Pipes -> Kinds]
    BY <1>3, <1>5
  <2> QED
    BY <1>3, <1>5, <2>1 DEF FileTypes, Kinds
<1>6. ASSUME UNCHANGED fileVars PROVE FileTypes'
  BY <1>1, <1>6 DEF fileVars, FileTypes
<1>7. CASE HelperCreates
  <2>1. UNCHANGED <<skipFiles, errorFile>>
        /\ \/ pipe' = pipe
           \/ pipe' = [pipe EXCEPT ![oidWithBatchList[at + copyQueue]] = "fifo"]
    BY <1>7 DEF HelperCreates
  <2> QED
    BY <1>4, <1>5, <2>1
<1>8. CASE HelperSkips
  <2>1. UNCHANGED <<skipFiles, errorFile>>
    BY <1>8 DEF HelperSkips
  <2> DEFINE deleted == {b \in BatchNumbers :
                           BatchNum <= b /\ b < BatchNum + copyQueue}
  <2>2. pipe' = [p \in Pipes |-> IF p[1] = Oid /\ p[2] \in deleted THEN "removed"
                                 ELSE pipe[p]]
    BY <1>8 DEF HelperSkips
  <2> HIDE DEF deleted
  <2>3. pipe' \in [Pipes -> Kinds]
    BY <1>3, <1>4, <2>2
  <2> QED
    BY <1>3, <2>1, <2>3 DEF FileTypes, Kinds
<1>9. CASE BrokenPipe \/ ReadFails \/ HelperEndsTable
  <2>1. UNCHANGED <<skipFiles, errorFile>>
        /\ pipe' = [pipe EXCEPT ![Current] = "removed"]
    BY <1>9 DEF BrokenPipe, ReadFails, CopyStops, HelperEndsTable, CloseAndDelete
  <2> QED
    BY <1>4, <1>5, <2>1
<1>10. CASE HelperWritesErrorFile
  BY <1>3, <1>10 DEF HelperWritesErrorFile, FileTypes, Kinds
<1>11. CASE HelperLeaves
  BY <1>3, <1>11 DEF HelperLeaves, FileTypes, Kinds
<1>12. ASSUME NEW p \in Pipes, HelperReleases(p) \/ HelperRemoves(p) PROVE FileTypes'
  <2>1. UNCHANGED <<skipFiles, errorFile>>
        /\ (pipe' = [pipe EXCEPT ![p] = "released"]
             \/ pipe' = [pipe EXCEPT ![p] = "removed"])
    BY <1>12 DEF HelperReleases, HelperRemoves
  <2> QED
    BY <1>4, <1>5, <2>1
<1>13. CASE HelperOpens \/ HelperPositions \/ HelperCopies \/ HelperClosesWriter
            \/ PositionFails \/ StopHelper \/ UNCHANGED vars
  <2>1. UNCHANGED fileVars
    BY <1>13 DEF HelperOpens, HelperPositions, HelperCopies, HelperClosesWriter,
      PositionFails, StopHelper, vars
  <2> QED
    BY <1>6, <2>1
<1> QED
  BY <1>7, <1>8, <1>9, <1>10, <1>11, <1>12, <1>13 DEF HelperNext, Helper, Cleanup

-----------------------------------------------------------------------------
(* The connections                                                         *)

\* A table is to do as long as its connection has not gone past its entry.
StatusInv ==
  \A i \in DOMAIN Entries : status[Entries[i]] = "todo" <=> entry[Owner(i)] <= i

\* The table of a connection gets its verdict, and the connection goes on.
LEMMA FinishedStatus ==
  ASSUME TypeOK, ConnInv, NEW c \in Conns, Busy(c), NEW how \in Verdicts,
         Finish(c, how)
  PROVE  StatusInv'
<1>1. /\ entry[c] \in DOMAIN Entries /\ Owner(entry[c]) = c
      /\ entry[c] \in 1..EntryCount /\ EntryCount \in Nat
  BY TurnTaken, Assumed
<1>2. /\ entry'[c] = entry[c] + NumConns /\ status'[Entry(c)] = how
      /\ \A d \in Conns \ {c} : entry'[d] = entry[d]
      /\ \A t \in Restored \ {Entry(c)} : status'[t] = status[t]
  BY FinishFacts
<1>3. NumConns \in Nat \ {0}
  BY Assumed
<1>4. ASSUME NEW i \in DOMAIN Entries
      PROVE  status'[Entries[i]] = "todo" <=> entry'[Owner(i)] <= i
  <2>1. i \in Nat \ {0} /\ Entries[i] \in Restored /\ Owner(i) \in Conns
    <3>1. i \in Nat \ {0} /\ Entries[i] \in Restored
      BY Assumed
    <3> QED
      BY <3>1, Owners
  <2>2. status[Entries[i]] = "todo" <=> entry[Owner(i)] <= i
    BY DEF ConnInv
  <2>3. entry[Owner(i)] \in Nat
    BY <2>1, <1>3 DEF TypeOK
  <2>4. CASE i = entry[c]
    <3>1. status'[Entries[i]] = how /\ Owner(i) = c /\ how # "todo"
      BY <1>1, <1>2, <2>4 DEF Entry, Verdicts
    <3>2. ~(entry'[Owner(i)] <= i)
      BY <1>1, <1>2, <1>3, <2>1, <2>4
    <3> QED
      BY <3>1, <3>2
  <2>5. CASE i # entry[c]
    <3>1. Entries[i] # Entry(c)
      BY <1>1, <2>5, EntriesOnce DEF Entry
    <3>2. status'[Entries[i]] = status[Entries[i]]
      BY <1>2, <2>1, <3>1
    <3>3. CASE Owner(i) # c
      BY <1>2, <2>1, <2>2, <3>2, <3>3
    <3>4. CASE Owner(i) = c
      <4>1. entry[c] < i => entry[c] + NumConns <= i
        <5>1. entry[c] \in Nat \ {0}
          BY <1>1
        <5> QED
          BY <1>1, <2>1, <3>4, <5>1, Owners
      <4>2. entry[c] <= i <=> entry[c] + NumConns <= i
        BY <1>1, <1>3, <2>1, <2>5, <4>1
      <4> QED
        BY <1>2, <2>2, <3>2, <3>4, <4>2
    <3> QED
      BY <3>3, <3>4
  <2> QED
    BY <2>4, <2>5
<1> QED
  BY <1>4 DEF StatusInv

LEMMA ConnInvSteps ==
  ASSUME TypeOK, ConnInv, NEW c \in Conns, ConnFrame,
         \/ ConnWorks(c) \/ NextTable(c) \/ Stops(c) \/ ConnFinishes(c)
         \/ ConnContinues(c)
  PROVE  ConnInv'
<1>1. setup' = setup /\ setup \in Setups
  BY DEF ConnFrame, inputVars, TypeOK
<1>2. Turns' = Turns /\ \A t : (Expected(t))' = Expected(t)
  BY <1>1, Kept
<1>3. /\ stage \in [Conns -> Stages] /\ batch \in [Conns -> BatchNumbers]
      /\ entry \in [Conns -> 1 .. Len(Entries) + NumConns]
  BY TypeParts DEF ConnTypes
<1>4. \A d \in Conns :
        /\ Owner(entry[d]) = d
        /\ Busy(d) => Turn(d) \in Turns
        /\ stage[d] = "done" => cancelled \/ entry[d] > EntryCount
  BY DEF ConnInv
\* The stage and the batch of one connection change.
<1>5. ASSUME UNCHANGED <<entry, rows, status, cancelled>>,
             \A d \in Conns \ {c} : stage'[d] = stage[d] /\ batch'[d] = batch[d],
             (Busy(c))' => <<entry[c], batch'[c]>> \in Turns,
             stage'[c] = "done" => cancelled \/ entry[c] > EntryCount
      PROVE  ConnInv'
  <2>1. ASSUME NEW d \in Conns
        PROVE  /\ Owner(entry'[d]) = d
               /\ (Busy(d))' => (Turn(d))' \in Turns
               /\ stage'[d] = "done" => cancelled' \/ entry'[d] > EntryCount
    <3>1. CASE d = c
      BY <1>4, <1>5, <3>1 DEF Turn, Busy
    <3>2. CASE d # c
      <4>1. stage'[d] = stage[d] /\ batch'[d] = batch[d] /\ entry'[d] = entry[d]
        BY <1>5, <3>2
      <4> QED
        BY <1>4, <1>5, <4>1 DEF Turn, Busy
    <3> QED
      BY <3>1, <3>2
  <2> QED
    BY <1>2, <1>5, <2>1 DEF ConnInv
<1>6. ASSUME NEW s, stage' = [stage EXCEPT ![c] = s]
      PROVE  stage'[c] = s /\ \A d \in Conns \ {c} : stage'[d] = stage[d]
  BY <1>3, <1>6
<1>7. CASE ConnWorks(c)
  <2>1. PICK to \in {"found", "remove", "test", "open", "blocked", "failed"} :
          stage' = [stage EXCEPT ![c] = to]
    BY <1>7 DEF ConnWorks
  <2>2. Busy(c) /\ UNCHANGED <<entry, batch, rows, status, cancelled>>
    BY <1>7 DEF ConnWorks, Busy, InCopy
  <2>3. stage'[c] # "done" /\ \A d \in Conns \ {c} : stage'[d] = stage[d]
    BY <1>6, <2>1
  <2> QED
    BY <1>4, <1>5, <2>2, <2>3 DEF Turn
<1>8. CASE NextTable(c)
  <2>1. /\ entry[c] <= EntryCount /\ stage' = [stage EXCEPT ![c] = "check"]
        /\ batch' = [batch EXCEPT ![c] = 0]
             /\ UNCHANGED <<entry, rows, status, cancelled>>
    BY <1>8 DEF NextTable, Go, EntryCount
  <2>2. <<entry[c], 0>> \in Turns
    <3>1. entry[c] \in DOMAIN Entries
      <4> DEFINE n == EntryCount
                 e == entry[c]
      <4>1. n \in Nat /\ DOMAIN Entries = 1..n /\ NumConns \in Nat
        BY Assumed
      <4>2. e \in 1..n + NumConns /\ e <= n
        BY <1>3, <2>1 DEF EntryCount
      <4> HIDE DEF n, e
      <4>3. e \in 1..n
        BY <4>1, <4>2
      <4> QED
        BY <4>1, <4>3 DEF e
    <3>2. BatchesOf(Entries[entry[c]]) \in 1..Batches /\ 0 \in BatchNumbers
          /\ Batches \in Nat
      BY <1>1, SetupFacts, Assumed DEF BatchNumbers
    <3> QED
      BY <3>1, <3>2 DEF Turns
  <2>3. stage'[c] = "check" /\ \A d \in Conns \ {c} : stage'[d] = stage[d]
    BY <1>6, <2>1
  <2>4. batch'[c] = 0 /\ \A d \in Conns \ {c} : batch'[d] = batch[d]
    BY <1>3, <2>1
  <2> QED
    BY <1>5, <2>1, <2>2, <2>3, <2>4
<1>9. CASE Stops(c)
  <2>1. /\ cancelled \/ entry[c] > EntryCount
        /\ stage' = [stage EXCEPT ![c] = "done"]
        /\ UNCHANGED <<entry, batch, rows, status, cancelled>>
    BY <1>9 DEF Stops, Go, EntryCount
  <2>2. stage'[c] = "done" /\ \A d \in Conns \ {c} : stage'[d] = stage[d]
    BY <1>6, <2>1
  <2> QED
    BY <1>5, <2>1, <2>2 DEF Busy
<1>10. CASE ConnContinues(c)
  <2>1. /\ stage[c] = "eof" /\ batch[c] + 1 < BatchesOf(Entry(c))
        /\ batch' = [batch EXCEPT ![c] = @ + 1]
        /\ stage' = [stage EXCEPT ![c] = "check"]
        /\ UNCHANGED <<entry, rows, status, cancelled>>
    BY <1>10 DEF ConnContinues
  <2>2. stage'[c] = "check" /\ \A d \in Conns \ {c} : stage'[d] = stage[d]
    BY <1>6, <2>1
  <2>3. batch'[c] = batch[c] + 1 /\ \A d \in Conns \ {c} : batch'[d] = batch[d]
    BY <1>3, <2>1
  <2>4. <<entry[c], batch[c] + 1>> \in Turns
    <3>1. Busy(c)
      BY <2>1 DEF Busy
    <3>2. entry[c] \in DOMAIN Entries /\ batch[c] \in Nat
      BY <3>1, TurnTaken
    <3>3. BatchesOf(Entry(c)) \in 1..Batches /\ Batches \in Nat
      BY <1>1, SetupFacts, Assumed
    <3>4. batch[c] + 1 \in BatchNumbers
      BY <2>1, <3>2, <3>3 DEF BatchNumbers
    <3> QED
      BY <2>1, <3>2, <3>4 DEF Turns, Entry
  <2> QED
    BY <1>5, <2>1, <2>2, <2>3, <2>4
<1>11. CASE ConnFinishes(c)
  <2>1. PICK how \in Verdicts :
          /\ Finish(c, how) /\ UNCHANGED <<batch, rows>>
          /\ stage[c] \in {"found", "failed", "eof"}
          /\ how = "restored" => rows[Entry(c)] = Expected(Entry(c))
    BY <1>11 DEF ConnFinishes, Verdicts
  <2>2. Busy(c)
    BY <2>1 DEF Busy
  <2>3. /\ entry'[c] = entry[c] + NumConns
        /\ \A d \in Conns \ {c} : entry'[d] = entry[d] /\ stage'[d] = stage[d]
        /\ status'[Entry(c)] = how
        /\ \A t \in Restored \ {Entry(c)} : status'[t] = status[t]
        /\ cancelled => cancelled'
        /\ cancelled' => cancelled \/ how # "restored"
        /\ stage'[c] \in {"idle", "done"}
        /\ stage'[c] = "done" => cancelled'
    BY <2>1, <2>2, FinishFacts
  <2>4. entry[c] \in Nat \ {0} /\ Entry(c) \in Restored /\ status[Entry(c)] = "todo"
    <3>1. entry[c] \in 1..EntryCount
      BY <2>2, TurnTaken
    <3> QED
      BY <2>2, <3>1, TurnTaken
  <2>5. ASSUME NEW d \in Conns
        PROVE  /\ Owner(entry'[d]) = d
               /\ (Busy(d))' => (Turn(d))' \in Turns
               /\ stage'[d] = "done" => cancelled' \/ entry'[d] > EntryCount
    <3>1. CASE d = c
      <4>1. Owner(entry[c] + NumConns) = Owner(entry[c])
        BY <2>4, Owners
      <4> QED
        BY <1>4, <2>3, <3>1, <4>1 DEF Busy
    <3>2. CASE d # c
      <4>1. stage'[d] = stage[d] /\ batch'[d] = batch[d] /\ entry'[d] = entry[d]
        BY <2>1, <2>3, <3>2
      <4> QED
        BY <1>4, <2>3, <4>1 DEF Turn, Busy
    <3> QED
      BY <3>1, <3>2
  <2>6. StatusInv'
    BY <2>1, <2>2, FinishedStatus
  <2>7. cancelled' => \E t \in Restored : status'[t] \in Bad
    <3>1. CASE cancelled
      <4>1. PICK t \in Restored : status[t] \in Bad
        BY <3>1 DEF ConnInv
      <4>2. status'[t] = status[t]
        BY <2>3, <2>4, <4>1 DEF Bad
      <4> QED
        BY <4>1, <4>2
    <3>2. CASE how # "restored"
      <4>1. how \in Bad
        BY <3>2 DEF Verdicts, Bad
      <4> QED
        BY <2>3, <2>4, <4>1
    <3> QED
      BY <2>3, <3>1, <3>2
  <2>8. \A t \in Restored : status'[t] = "restored" => rows'[t] = Expected(t)
    BY <2>1, <2>3 DEF ConnInv
  <2> QED
    BY <1>2, <2>5, <2>6, <2>7, <2>8 DEF ConnInv, StatusInv
<1> QED
  BY <1>7, <1>8, <1>9, <1>10, <1>11

\* What the helper does to the connections leaves them to their tables.
LEMMA ConnInvKept ==
  ASSUME TypeOK, ConnInv, HelperFrame
  PROVE  ConnInv'
<1>1. UNCHANGED <<setup, entry, batch, status, cancelled>>
  BY DEF HelperFrame, inputVars
<1>2. Turns' = Turns /\ \A t : (Expected(t))' = Expected(t)
  BY <1>1, Kept
<1>3. \A d \in Conns :
        /\ (Busy(d))' = Busy(d)
        /\ stage'[d] = "done" <=> stage[d] = "done"
  BY DEF HelperFrame, StageMoves, InPipe, Busy
<1>4. ASSUME NEW t \in Restored, status[t] = "restored" PROVE rows'[t] = rows[t]
  <2>1. ASSUME NEW c \in Conns, InPipe(c), Entry(c) = t PROVE FALSE
    <3>1. Busy(c)
      BY <2>1 DEF InPipe, Busy
    <3> QED
      BY <1>4, <2>1, <3>1, TurnTaken
  <2> QED
    BY <2>1 DEF HelperFrame, RowsMove
<1>5. \A t \in Restored : status'[t] = "restored" => rows'[t] = (Expected(t))'
  BY <1>1, <1>2, <1>4 DEF ConnInv
<1>6. ASSUME NEW d \in Conns
      PROVE  /\ Owner(entry'[d]) = d
             /\ (Busy(d))' => (Turn(d))' \in Turns'
             /\ stage'[d] = "done" => cancelled' \/ entry'[d] > EntryCount
  BY <1>1, <1>2, <1>3 DEF ConnInv, Turn
<1> QED
  BY <1>1, <1>5, <1>6 DEF ConnInv

LEMMA SkipInvSteps ==
  ASSUME TypeOK, ConnInv, SkipInv, NEW c \in Conns, ConnFrame,
         \/ ConnWorks(c) \/ NextTable(c) \/ Stops(c) \/ ConnFinishes(c)
         \/ ConnContinues(c)
  PROVE  SkipInv'
<1>1. skipOid' = skipOid
  BY DEF ConnFrame, loopVars
<1>2. CASE ConnWorks(c) \/ NextTable(c) \/ Stops(c) \/ ConnContinues(c)
  <2>1. UNCHANGED <<status, skipFiles>>
    BY <1>2 DEF ConnWorks, NextTable, Stops, ConnContinues, fileVars
  <2> QED
    BY <1>1, <2>1 DEF SkipInv
<1>3. CASE ConnFinishes(c)
  <2>1. PICK how \in Verdicts :
          /\ Finish(c, how)
          /\ skipFiles' \subseteq skipFiles \cup {Entry(c)}
          /\ how # "copyFailed" => skipFiles' = skipFiles
          /\ stage[c] \in {"found", "failed", "eof"}
    BY <1>3 DEF ConnFinishes, Verdicts
  <2>2. Busy(c)
    BY <2>1 DEF Busy
  <2>3. /\ status'[Entry(c)] = how
        /\ \A t \in Restored \ {Entry(c)} : status'[t] = status[t]
    BY <2>1, <2>2, FinishFacts
  <2>4. status[Entry(c)] = "todo" /\ Entry(c) \in Restored
    BY <2>2, TurnTaken
  <2>5. skipFiles \subseteq Restored /\ skipOid \in Restored \cup {0}
    BY DEF TypeOK
  <2>6. \A t \in skipFiles : status'[t] = "copyFailed"
    BY <2>3, <2>4, <2>5 DEF SkipInv
  <2>7. \A t \in skipFiles' : status'[t] = "copyFailed"
    BY <2>1, <2>3, <2>6
  <2>8. skipOid # 0 => status'[skipOid] = "copyFailed"
    BY <2>3, <2>4, <2>5 DEF SkipInv
  <2> QED
    BY <1>1, <2>7, <2>8 DEF SkipInv
<1> QED
  BY <1>2, <1>3

LEMMA SkipInvKept ==
  ASSUME TypeOK, SkipInv, HelperFrame, HelperNext
  PROVE  SkipInv'
<1>1. status' = status
  BY DEF HelperFrame
<1>2. skipFiles' \subseteq skipFiles
  BY DEF HelperNext, Helper, HelperCreates, HelperOpens, HelperSkips, HelperPositions,
    HelperCopies, BrokenPipe, CopyStops, HelperEndsTable, HelperClosesWriter,
    HelperWritesErrorFile, Cleanup, HelperReleases, HelperRemoves, HelperLeaves,
    PositionFails, ReadFails, StopHelper, fileVars, vars
<1>3. skipOid' = skipOid \/ (skipOid' = Oid /\ Oid \in skipFiles)
  BY DEF HelperNext, Helper, HelperCreates, HelperOpens, HelperSkips, HelperPositions,
    HelperCopies, BrokenPipe, CopyStops, HelperEndsTable, HelperClosesWriter,
    HelperWritesErrorFile, Cleanup, HelperReleases, HelperRemoves, HelperLeaves,
    PositionFails, ReadFails, StopHelper, loopVars, vars
<1> QED
  BY <1>1, <1>2, <1>3 DEF SkipInv

-----------------------------------------------------------------------------
(* The helper and the connections                                          *)

\* The helper ended before the end of the list does not come back.
LEMMA HardStays ==
  ASSUME TypeOK, HardFailed, setup' = setup, HelperNext
  PROVE  HardFailed'
<1>1. ~Looping /\ at <= ListLength /\ ListLength' = ListLength
  BY Kept DEF HardFailed, Looping, ListLength
<1>2. at' = at
  BY <1>1 DEF HelperNext, Helper, HelperCreates, HelperOpens, HelperSkips,
    HelperPositions, HelperCopies, BrokenPipe, HelperEndsTable, HelperClosesWriter,
    HelperWritesErrorFile, Cleanup, HelperReleases, HelperRemoves, HelperLeaves,
    PositionFails, ReadFails, StopHelper, Copying, Looping, loopVars, vars
<1>3. helperPc' \in {"failed", "error", "cleanup", "gone"}
  BY <1>1 DEF HelperNext, Helper, HelperCreates, HelperOpens, HelperSkips,
    HelperPositions, HelperCopies, BrokenPipe, HelperEndsTable, HelperClosesWriter,
    HelperWritesErrorFile, Cleanup, HelperReleases, HelperRemoves, HelperLeaves,
    PositionFails, ReadFails, StopHelper, Copying, Looping, loopVars, vars, HardFailed
<1> QED
  BY <1>1, <1>2, <1>3 DEF HardFailed, ListLength

\* Two turns with the same pipe are one.
LEMMA PipeOfOnce ==
  ASSUME setup \in Setups, NEW p \in Turns, NEW q \in Turns, PipeOf(p) = PipeOf(q)
  PROVE  p = q
<1>1. p[1] \in DOMAIN Entries /\ q[1] \in DOMAIN Entries
      /\ p = <<p[1], p[2]>> /\ q = <<q[1], q[2]>>
  BY TurnFacts
<1>2. Entries[p[1]] = Entries[q[1]] /\ p[2] = q[2]
  BY DEF PipeOf
<1>3. p[1] = q[1]
  BY <1>1, <1>2, EntriesOnce
<1> QED
  BY <1>1, <1>2, <1>3

\* A COPY that is not over has its pipe before it, or at the helper's place.
LEMMA Waiting ==
  ASSUME TypeOK, HelperInv, ConnInv, PassedInv, NEW c \in Conns, Busy(c),
         stage[c] \notin {"eof", "failed"}
  PROVE  /\ Turn(c) \in Turns /\ ~Beyond(Turn(c))
         /\ at <= Place(Turn(c)) /\ at \in 1..ListLength
         /\ Place(Turn(c)) \in 1..ListLength /\ Place(Turn(c)) \in at..ListLength
<1>1. /\ Turn(c) \in Turns /\ Owner(entry[c]) = c /\ entry[c] \in Nat
      /\ batch[c] \in Nat
  <2>1. Turn(c) \in Turns /\ Owner(entry[c]) = c /\ entry[c] \in 1..EntryCount
        /\ batch[c] \in Nat
    BY TurnTaken
  <2> QED
    BY <2>1
<1>2. Turn(c)[1] = entry[c] /\ Turn(c)[2] = batch[c]
  BY DEF Turn
<1>3. ~Beyond(Turn(c))
  BY <1>1, <1>2 DEF Beyond
<1>4. setup \in Setups
  BY DEF TypeOK
<1>5. Place(Turn(c)) \in 1..ListLength /\ ListLength \in Nat
  BY <1>1, <1>4, ListPlaces
<1>6. ~(Place(Turn(c)) < at)
  BY <1>1, <1>3 DEF PassedInv
<1>7. at \in 1..ListLength + 1
  BY DEF HelperInv
<1> QED
  BY <1>1, <1>3, <1>5, <1>6, <1>7

\* While the helper is at a turn, a reader of its pipe has that turn.
LEMMA ReaderTurn ==
  ASSUME TypeOK, ConnInv, at \in 1..ListLength, NEW p \in Turns, HelperAt(p),
         NEW c \in ReadersOf(Current)
  PROVE  Turn(c) = p /\ Owner(p[1]) = c /\ c \in Conns /\ Busy(c) /\ Entry(c) = Oid
         /\ batch[c] = BatchNum
<1>1. c \in Conns /\ Busy(c) /\ PipeOf(Turn(c)) = Current /\ Current[1] = Entry(c)
      /\ Current[2] = batch[c]
  BY OneReader
<1>2. Turn(c) \in Turns /\ Owner(entry[c]) = c /\ setup \in Setups
  BY <1>1, TurnTaken DEF TypeOK
<1>3. Turn(c) = p
  BY <1>1, <1>2, PipeOfOnce DEF HelperAt
<1>4. p[1] = entry[c]
  BY <1>3 DEF Turn
<1>5. Current[1] = Oid /\ Current[2] = BatchNum
  BY DEF Current
<1> QED
  BY <1>1, <1>2, <1>3, <1>4, <1>5

\* The table of the entry whose COPY failed is over.
LEMMA FailedBeyond ==
  ASSUME TypeOK, ConnInv, at \in 1..ListLength, NEW p \in Turns, HelperAt(p),
         status[Oid] = "copyFailed"
  PROVE  Beyond(p)
<1>1. p[1] \in DOMAIN Entries /\ p[1] \in Nat \ {0} /\ setup \in Setups
  <2>1. setup \in Setups
    BY DEF TypeOK
  <2>2. p[1] \in DOMAIN Entries
    BY <2>1, TurnFacts
  <2> QED
    BY <2>1, <2>2, Assumed
<1>2. ~(entry[Owner(p[1])] <= p[1])
  <2>1. Entries[p[1]] = Oid
    BY DEF HelperAt
  <2> QED
    BY <1>1, <2>1 DEF ConnInv
<1>3. Owner(p[1]) \in Conns
  BY <1>1, Owners
<1>4. entry[Owner(p[1])] \in Nat
  BY <1>3, Assumed DEF TypeOK
<1>5. p[1] < entry[Owner(p[1])]
  BY <1>1, <1>2, <1>4
<1> QED
  BY <1>5 DEF Beyond

\* A COPY that is over stays over.
LEMMA BeyondStays ==
  ASSUME TypeOK, ConnInv, NEW p \in Turns, Beyond(p), NEW c \in Conns,
         \/ ConnWorks(c) \/ NextTable(c) \/ Stops(c) \/ ConnFinishes(c)
         \/ ConnContinues(c)
  PROVE  Beyond(p)'
<1> DEFINE d == Owner(p[1])
           i == p[1]
           b == p[2]
<1>1. setup \in Setups /\ stage \in [Conns -> Stages]
        /\ batch \in [Conns -> BatchNumbers]
      /\ entry \in [Conns -> 1 .. Len(Entries) + NumConns]
  BY TypeParts DEF ConnTypes, InputTypes
<1>2. i \in Nat \ {0} /\ b \in Nat
  <2>1. p[1] \in DOMAIN Entries /\ p[2] \in Nat
    BY <1>1, TurnFacts
  <2> QED
    BY <2>1, Assumed
<1>3. d \in Conns
  BY <1>2, Owners
<1>4. entry[d] \in Nat /\ batch[d] \in Nat
  BY <1>1, <1>3, Assumed DEF BatchNumbers
<1>5. \/ i < entry[d]
      \/ /\ i = entry[d] /\ Busy(d)
         /\ b < batch[d] \/ (b = batch[d] /\ stage[d] \in {"eof", "failed"})
  BY DEF Beyond
<1>6. Beyond(p)' <=>
        \/ i < entry'[d]
        \/ /\ i = entry'[d] /\ (Busy(d))'
           /\ b < batch'[d] \/ (b = batch'[d] /\ stage'[d] \in {"eof", "failed"})
  BY DEF Beyond
<1> HIDE DEF d, i, b
<1>7. ASSUME entry'[d] = entry[d], batch'[d] = batch[d], stage'[d] = stage[d]
      PROVE  Beyond(p)'
  BY <1>5, <1>6, <1>7 DEF Busy
<1>8. CASE ConnWorks(c)
  <2>1. PICK to \in {"found", "remove", "test", "open", "blocked", "failed"} :
          stage' = [stage EXCEPT ![c] = to]
    BY <1>8 DEF ConnWorks
  <2>2. UNCHANGED <<entry, batch>> /\ stage[c] \notin {"eof", "failed"}
    BY <1>8 DEF ConnWorks, InCopy
  <2>3. stage'[c] = to /\ \A e \in Conns \ {c} : stage'[e] = stage[e]
    BY <1>1, <2>1
  <2>4. CASE d = c
    <3>1. (Busy(d))'
      BY <2>3, <2>4 DEF Busy
    <3> QED
      BY <1>5, <1>6, <2>2, <2>4, <3>1
  <2>5. CASE d # c
    BY <1>3, <1>7, <2>2, <2>3, <2>5
  <2> QED
    BY <2>4, <2>5
<1>9. CASE NextTable(c) \/ Stops(c)
  <2>1. /\ entry' = entry /\ ~Busy(c)
        /\ \A e \in Conns \ {c} : batch'[e] = batch[e] /\ stage'[e] = stage[e]
    BY <1>1, <1>9 DEF NextTable, Stops, Go, Busy
  <2>2. CASE d = c
    BY <1>5, <1>6, <2>1, <2>2
  <2>3. CASE d # c
    BY <1>3, <1>7, <2>1, <2>3
  <2> QED
    BY <2>2, <2>3
<1>10. CASE ConnContinues(c)
  <2>1. /\ entry' = entry /\ batch' = [batch EXCEPT ![c] = @ + 1]
        /\ stage' = [stage EXCEPT ![c] = "check"]
    BY <1>10 DEF ConnContinues
  <2>2. CASE d = c
    <3>1. batch'[d] = batch[d] + 1 /\ stage'[d] = "check" /\ entry'[d] = entry[d]
      BY <1>1, <1>3, <2>1, <2>2
    <3>2. (Busy(d))'
      BY <3>1 DEF Busy
    <3> QED
      BY <1>2, <1>4, <1>5, <1>6, <3>1, <3>2 DEF b
  <2>3. CASE d # c
    <3>1. batch'[d] = batch[d] /\ stage'[d] = stage[d] /\ entry'[d] = entry[d]
      BY <1>1, <1>3, <2>1, <2>3
    <3> QED
      BY <1>7, <3>1
  <2> QED
    BY <2>2, <2>3
<1>11. CASE ConnFinishes(c)
  <2>1. PICK how \in Verdicts :
          Finish(c, how) /\ UNCHANGED batch /\ stage[c] \in {"found", "failed", "eof"}
    BY <1>11 DEF ConnFinishes, Verdicts
  <2>2. Busy(c)
    BY <2>1 DEF Busy
  <2>3. /\ entry'[c] = entry[c] + NumConns
        /\ \A e \in Conns \ {c} : entry'[e] = entry[e] /\ stage'[e] = stage[e]
    BY <2>1, <2>2, FinishFacts
  <2>4. CASE d = c
    <3>1. i <= entry[d] /\ NumConns \in Nat \ {0} /\ i \in Nat
      BY <1>2, <1>4, <1>5, Assumed
    <3>2. i < entry'[d]
      BY <1>4, <2>3, <2>4, <3>1
    <3> QED
      BY <1>6, <3>2
  <2>5. CASE d # c
    BY <1>3, <1>7, <2>1, <2>3, <2>5
  <2> QED
    BY <2>4, <2>5
<1> QED
  BY <1>8, <1>9, <1>10, <1>11

LEMMA BeyondKept ==
  ASSUME TypeOK, NEW p \in Turns, Beyond(p), HelperFrame
  PROVE  Beyond(p)'
<1>1. Owner(p[1]) \in Conns
  <2>1. p[1] \in Nat \ {0}
    <3>1. setup \in Setups
      BY DEF TypeOK
    <3>2. p[1] \in DOMAIN Entries
      BY <3>1, TurnFacts
    <3> QED
      BY <3>2, Assumed
  <2> QED
    BY <2>1, Owners
<1>2. UNCHANGED <<entry, batch>>
  BY DEF HelperFrame
<1>3. LET c == Owner(p[1])
      IN  (Busy(c))' = Busy(c)
        /\ (stage[c] \in {"eof", "failed"} => stage'[c] = stage[c])
  BY <1>1 DEF HelperFrame, StageMoves, InPipe, Busy
<1> QED
  BY <1>2, <1>3 DEF Beyond

-----------------------------------------------------------------------------
(* What the helper has passed                                              *)

LEMMA PassedSteps ==
  ASSUME TypeOK, HelperInv, ConnInv, PassedInv, NEW c \in Conns, ConnFrame,
         \/ ConnWorks(c) \/ NextTable(c) \/ Stops(c) \/ ConnFinishes(c)
         \/ ConnContinues(c)
  PROVE  PassedInv'
<1>1. UNCHANGED <<setup, at, helperPc>> /\ setup \in Setups
  BY DEF ConnFrame, inputVars, loopVars, TypeOK
<1>2. /\ Turns' = Turns /\ ListLength' = ListLength
      /\ \A p : (Place(p))' = Place(p)
  BY <1>1, Kept
<1>3. /\ stage \in [Conns -> Stages] /\ batch \in [Conns -> BatchNumbers]
      /\ entry \in [Conns -> 1 .. Len(Entries) + NumConns]
      /\ ListLength \in Nat
  BY <1>1, TypeParts, ListPlaces DEF ConnTypes
<1>4. \A p \in Turns : Place(p) < at => Beyond(p)'
  BY BeyondStays DEF PassedInv
<1>5. ASSUME helperPc \in {"position", "copy"}, NEW p \in Turns, Place(p) = at
      PROVE  Beyond(p)' \/ (stage'[Owner(p[1])] = "reading" /\ (Turn(Owner(p[1])))' = p)
  <2> DEFINE d == Owner(p[1])
  <2>1. CASE Beyond(p)
    BY <2>1, BeyondStays
  <2>2. CASE stage[d] = "reading" /\ Turn(d) = p
    <3>0. d \in Conns
      <4>1. p[1] \in DOMAIN Entries
        BY <1>1, TurnFacts
      <4>2. p[1] \in Nat \ {0}
        BY <4>1, Assumed
      <4> QED
        BY <4>2, Owners
    <3>1. CASE d = c
      <4>1. ConnWorks(c)
        BY <2>2, <3>1 DEF NextTable, Stops, Go, ConnFinishes, ConnContinues, Verdicts
      <4>2. stage' = [stage EXCEPT ![c] = "failed"] /\ UNCHANGED <<entry, batch>>
        BY <2>2, <3>1, <4>1 DEF ConnWorks
      <4>3. stage'[d] = "failed" /\ (Busy(d))'
        BY <1>3, <3>1, <4>2 DEF Busy
      <4>4. p[1] = entry[d] /\ p[2] = batch[d]
        BY <2>2 DEF Turn
      <4> HIDE DEF d
      <4>5. p[1] = entry'[d] /\ p[2] = batch'[d]
        BY <4>2, <4>4
      <4>6. Beyond(p)'
        BY <4>3, <4>5 DEF Beyond, d
      <4> QED
        BY <4>6
    <3>2. CASE d # c
      <4>1. stage'[d] = stage[d] /\ entry'[d] = entry[d] /\ batch'[d] = batch[d]
        <5>1. CASE ConnWorks(c)
          BY <1>3, <3>0, <3>2, <5>1 DEF ConnWorks
        <5>2. CASE NextTable(c)
          BY <1>3, <3>0, <3>2, <5>2 DEF NextTable, Go
        <5>3. CASE Stops(c)
          BY <1>3, <3>0, <3>2, <5>3 DEF Stops, Go
        <5>4. CASE ConnContinues(c)
          BY <1>3, <3>0, <3>2, <5>4 DEF ConnContinues
        <5>5. CASE ConnFinishes(c)
          BY <1>3, <3>0, <3>2, <5>5 DEF ConnFinishes, Finish
        <5> QED
          BY <5>1, <5>2, <5>3, <5>4, <5>5
      <4> QED
        BY <2>2, <4>1 DEF Turn
    <3> QED
      BY <3>1, <3>2
  <2> QED
    BY <1>5, <2>1, <2>2 DEF PassedInv
<1>6. errorFile' => at' > ListLength'
  BY <1>1, <1>2 DEF PassedInv, ConnFrame
<1>7. \A d \in Conns : stage'[d] # "found"
  <2>1. CASE ConnWorks(c)
    <3>1. PICK to \in {"found", "remove", "test", "open", "blocked", "failed"} :
            stage' = [stage EXCEPT ![c] = to] /\ (to = "found" => errorFile)
      BY <2>1 DEF ConnWorks
    <3>2. Busy(c) /\ stage[c] \notin {"eof", "failed"}
      BY <2>1 DEF ConnWorks, Busy, InCopy
    <3>3. at \in 1..ListLength
      BY <3>2, Waiting
    <3>4. ~errorFile
      BY <1>3, <3>3 DEF PassedInv
    <3> QED
      BY <1>3, <3>1, <3>4 DEF PassedInv
  <2>2. CASE NextTable(c) \/ Stops(c)
    BY <1>3, <2>2 DEF NextTable, Stops, Go, PassedInv
  <2>3. CASE ConnFinishes(c)
    BY <1>3, <2>3 DEF ConnFinishes, Finish, PassedInv
  <2>4. CASE ConnContinues(c)
    BY <1>3, <2>4 DEF ConnContinues, PassedInv
  <2> QED
    BY <2>1, <2>2, <2>3, <2>4
<1>8. \A t \in Restored : status'[t] # "agentFailed"
  <2>1. CASE ConnFinishes(c)
    <3>1. PICK how \in Verdicts :
            /\ Finish(c, how) /\ stage[c] \in {"found", "failed", "eof"}
            /\ stage[c] = "found" <=> how = "agentFailed"
      BY <2>1 DEF ConnFinishes, Verdicts
    <3>2. Busy(c) /\ how # "agentFailed"
      BY <3>1 DEF PassedInv, Busy
    <3> QED
      BY <3>1, <3>2, FinishFacts DEF PassedInv
  <2>2. CASE status' = status
    BY <2>2 DEF PassedInv
  <2> QED
    BY <2>1, <2>2 DEF ConnWorks, NextTable, Stops, ConnContinues
<1> QED
  BY <1>1, <1>2, <1>4, <1>5, <1>6, <1>7, <1>8 DEF PassedInv

\* The helper goes on when the COPY of its place is over.
LEMMA PassedKept ==
  ASSUME TypeOK, HelperInv, ConnInv, SkipInv, PassedInv, HelperNext, HelperFrame,
         ~HardFailed, ~HardFailed'
  PROVE  PassedInv'
<1>1. UNCHANGED <<setup, entry, batch, status>> /\ setup \in Setups
  BY DEF HelperFrame, inputVars, TypeOK
<1>2. /\ Turns' = Turns /\ ListLength' = ListLength
      /\ \A p : (Place(p))' = Place(p)
  BY <1>1, Kept
<1>3. ListLength \in Nat /\ at \in Nat
  BY <1>1, ListPlaces DEF TypeOK
<1>4. \A p \in Turns : Beyond(p) => Beyond(p)'
  BY BeyondKept
<1>5. \A c \in Conns : stage'[c] # "found"
  BY DEF HelperFrame, StageMoves, PassedInv
<1>6. \A t \in Restored : status'[t] # "agentFailed"
  BY <1>1 DEF PassedInv
<1>7. \A p \in Turns : Place(p) \in Nat
  BY <1>1, TurnFacts
\* The helper stays at its place.
<1>8. ASSUME at' = at, errorFile' => at > ListLength,
             helperPc' \in {"position", "copy"} =>
               \A p \in Turns : Place(p) = at =>
                 Beyond(p)' \/ (stage'[Owner(p[1])] = "reading"
                   /\ (Turn(Owner(p[1])))' = p)
      PROVE  PassedInv'
  <2>1. \A p \in Turns : Place(p) < at => Beyond(p)'
    BY <1>4 DEF PassedInv
  <2> QED
    BY <1>2, <1>5, <1>6, <1>8, <2>1 DEF PassedInv
\* The helper goes on.
<1>9. ASSUME NEW err \in BOOLEAN, Advance(err), Looping, errorFile' = errorFile,
             \A p \in Turns : HelperAt(p) => Beyond(p)'
      PROVE  PassedInv'
  <2>1. at \in 1..ListLength
    BY <1>9, LoopPlace
  <2>2. at' = at + 1 /\ helperPc' \notin {"position", "copy"}
    <3>1. \/ at' = at /\ helperPc' = "error"
          \/ at' = at + 1 /\ helperPc' = "create"
          \/ at' = at + 1 /\ helperPc' \in {"error", "cleanup"}
      BY <1>9, <2>1, AdvanceFacts
    <3>2. ~(at' = at /\ helperPc' = "error")
      BY <1>2, <1>3, <2>1 DEF HardFailed, ListLength
    <3> QED
      BY <3>1, <3>2
  <2>3. \A p \in Turns : Place(p) = at => Beyond(p)'
    <3>1. ASSUME NEW p \in Turns, Place(p) = at PROVE HelperAt(p)
      <4>1. PICK q \in Turns : HelperAt(q)
        BY <1>1, <2>1, HelperTurn
      <4>2. p = q
        BY <1>1, <3>1, <4>1, PlacesOrdered DEF HelperAt
      <4> QED
        BY <4>1, <4>2
    <3> QED
      BY <1>9, <3>1
  <2>4. ASSUME NEW p \in Turns, Place(p) < at' PROVE Beyond(p)'
    <3>1. Place(p) \in Nat
      BY <1>7
    <3>2. Place(p) < at \/ Place(p) = at
      BY <1>3, <2>2, <2>4, <3>1
    <3> QED
      BY <1>4, <2>3, <3>2 DEF PassedInv
  <2>5. errorFile' => at' > ListLength
    BY <1>3, <1>9, <2>2 DEF PassedInv
  <2> QED
    BY <1>2, <1>5, <1>6, <2>2, <2>4, <2>5 DEF PassedInv
\* The pipe is closed: the COPY that has it is over.
<1>10. ASSUME helperPc = "copy", CloseWriter(Current), NEW p \in Turns, HelperAt(p)
       PROVE  Beyond(p)'
  <2> DEFINE c == Owner(p[1])
  <2>1. CASE Beyond(p)
    BY <1>4, <2>1
  <2>2. CASE stage[c] = "reading" /\ Turn(c) = p
    <3>1. c \in Conns
      <4>1. p[1] \in DOMAIN Entries
        BY <1>1, TurnFacts
      <4>2. p[1] \in Nat \ {0}
        BY <4>1, Assumed
      <4> QED
        BY <4>2, Owners
    <3>2. p[1] = entry[c] /\ p[2] = batch[c] /\ Current = PipeOf(p)
      BY <1>10, <2>2 DEF Turn, HelperAt
    <3> HIDE DEF c
    <3>3. Pipe(c) = Current
      BY <3>2 DEF Pipe, PipeOf, Entry
    <3>4. c \in ReadersOf(Current)
      BY <2>2, <3>1, <3>3 DEF ReadersOf
    <3>5. stage'[c] = "eof"
      BY <1>10, <3>1, <3>4, ClosedPipe
    <3>6. (Busy(c))' /\ p[1] = entry'[c] /\ p[2] = batch'[c]
      BY <1>1, <3>2, <3>5 DEF Busy
    <3>7. Beyond(p)'
      BY <3>5, <3>6 DEF Beyond, c
    <3> QED
      BY <3>7
  <2> QED
    BY <1>10, <2>1, <2>2 DEF PassedInv, HelperAt
<1>11. CASE HelperCreates
  <2>1. errorFile' = errorFile /\ Looping /\ helperPc = "create"
    BY <1>11 DEF HelperCreates, Looping
  <2>2. CASE Oid = skipOid /\ Advance(FALSE)
    <3>1. at \in 1..ListLength
      BY <2>1, LoopPlace
    <3>2. status[Oid] = "copyFailed"
      <4>1. Oid \in Nat \ {0}
        BY <1>1, <3>1, HelperTurn, Assumed
      <4> QED
        BY <2>2, <4>1 DEF SkipInv
    <3>3. \A p \in Turns : HelperAt(p) => Beyond(p)'
      BY <1>4, <3>1, <3>2, FailedBeyond
    <3> QED
      BY <1>9, <2>1, <2>2, <3>3
  <2>3. CASE helperPc' = "open" /\ UNCHANGED at
    BY <1>8, <2>1, <2>3 DEF PassedInv
  <2> QED
    BY <1>11, <2>2, <2>3 DEF HelperCreates
<1>12. CASE HelperOpens
  <2>1. helperPc = "open" /\ Looping /\ at' = at /\ errorFile' = errorFile
    BY <1>12 DEF HelperOpens, fileVars, Looping
  <2>2. at \in 1..ListLength
    BY <2>1, LoopPlace
  <2>3. CASE helperPc' = "failed"
    BY <1>8, <2>1, <2>3 DEF PassedInv
  <2>4. CASE \E c \in ReadersOf(Current) : stage' = [stage EXCEPT ![c] = "reading"]
    <3>1. PICK c \in ReadersOf(Current) : stage' = [stage EXCEPT ![c] = "reading"]
      BY <2>4
    <3>2. ASSUME NEW p \in Turns, Place(p) = at
          PROVE  stage'[Owner(p[1])] = "reading" /\ (Turn(Owner(p[1])))' = p
      <4>1. PICK q \in Turns : HelperAt(q)
        BY <1>1, <2>2, HelperTurn
      <4>2. p = q
        BY <1>1, <3>2, <4>1, PlacesOrdered DEF HelperAt
      <4>3. Turn(c) = p /\ Owner(p[1]) = c /\ c \in Conns
        BY <2>2, <4>1, <4>2, ReaderTurn
      <4>4. stage'[c] = "reading"
        BY <3>1, <4>3, TypeParts DEF ConnTypes
      <4> QED
        BY <1>1, <4>3, <4>4 DEF Turn
    <3> QED
      BY <1>8, <2>1, <3>2 DEF PassedInv
  <2> QED
    BY <1>12, <2>3, <2>4 DEF HelperOpens
<1>13. CASE HelperSkips
  <2>1. errorFile' = errorFile /\ Looping /\ Oid \in skipFiles
    BY <1>13 DEF HelperSkips, Looping
  <2>2. at \in 1..ListLength
    BY <2>1, LoopPlace
  <2>3. status[Oid] = "copyFailed"
    BY <2>1 DEF SkipInv
  <2>4. \A p \in Turns : HelperAt(p) => Beyond(p)'
    BY <1>4, <2>2, <2>3, FailedBeyond
  <2> DEFINE err == DiscardFrom(BatchNum) # {} /\
                    Max(DiscardFrom(BatchNum)) \in {b \in DiscardFrom(BatchNum) :
                      DiscardFails(b)}
  <2>5. Advance(err)
    BY <1>13 DEF HelperSkips
  <2>6. err \in BOOLEAN
    OBVIOUS
  <2> HIDE DEF err
  <2> QED
    BY <1>9, <2>1, <2>4, <2>5, <2>6
<1>14. CASE HelperPositions \/ HelperCopies
  <2>1. /\ helperPc \in {"position", "copy"} /\ at' = at
        /\ errorFile' = errorFile /\ stage' = stage
    BY <1>14 DEF HelperPositions, HelperCopies, Copying, connVars, fileVars
  <2>2. \A p \in Turns : Place(p) = at =>
          Beyond(p)' \/ (stage'[Owner(p[1])] = "reading" /\ (Turn(Owner(p[1])))' = p)
    BY <1>1, <1>4, <2>1 DEF PassedInv, Turn
  <2> QED
    BY <1>8, <2>1, <2>2 DEF PassedInv
<1>15. CASE BrokenPipe \/ ReadFails
  <2>1. Advance(TRUE) /\ Looping /\ errorFile' = errorFile /\ helperPc = "copy"
        /\ CloseWriter(Current)
    BY <1>15 DEF BrokenPipe, ReadFails, CopyStops, CloseAndDelete, Copying, Looping
  <2> QED
    BY <1>9, <1>10, <2>1
<1>16. CASE HelperEndsTable
  <2>1. Looping /\ errorFile' = errorFile /\ helperPc = "copy" /\ CloseWriter(Current)
        /\ (Advance(FALSE) \/ (helperPc' = "error" /\ at' = at))
    BY <1>16 DEF HelperEndsTable, CloseAndDelete, Looping
  <2>2. ~(helperPc' = "error" /\ at' = at)
    <3>1. at \in 1..ListLength
      BY <2>1, LoopPlace
    <3> QED
      BY <1>2, <1>3, <3>1 DEF HardFailed, ListLength
  <2> QED
    BY <1>9, <1>10, <2>1, <2>2
<1>17. CASE HelperWritesErrorFile
  <2>1. helperPc = "error" /\ helperPc' = "cleanup" /\ at' = at
    BY <1>17 DEF HelperWritesErrorFile
  <2>2. at > ListLength
    BY <1>3, <2>1 DEF HardFailed, ListLength
  <2> QED
    BY <1>8, <2>1, <2>2
<1>18. CASE HelperClosesWriter \/ HelperLeaves \/ PositionFails \/ StopHelper
  <2>1. /\ at' = at /\ errorFile' = errorFile
        /\ helperPc' \in {"error", "gone", "failed"}
    BY <1>18 DEF HelperClosesWriter, HelperLeaves, PositionFails, StopHelper, fileVars
  <2> QED
    BY <1>8, <2>1 DEF PassedInv
<1>19. ASSUME NEW p \in Pipes, HelperReleases(p) \/ HelperRemoves(p) PROVE PassedInv'
  <2>1. at' = at /\ errorFile' = errorFile /\ helperPc' = helperPc
          /\ helperPc = "cleanup"
    BY <1>19 DEF HelperReleases, HelperRemoves, loopVars
  <2> QED
    BY <1>8, <2>1 DEF PassedInv
<1>20. CASE UNCHANGED vars
  <2>1. /\ at' = at /\ errorFile' = errorFile /\ stage' = stage /\ helperPc' = helperPc
    BY <1>20 DEF vars, loopVars, fileVars, connVars
  <2>2. helperPc' \in {"position", "copy"} => \A p \in Turns : Place(p) = at =>
          Beyond(p)' \/ (stage'[Owner(p[1])] = "reading" /\ (Turn(Owner(p[1])))' = p)
    BY <1>1, <1>4, <2>1 DEF PassedInv, Turn
  <2> QED
    BY <1>8, <2>1, <2>2 DEF PassedInv
<1> QED
  BY <1>11, <1>12, <1>13, <1>14, <1>15, <1>16, <1>17, <1>18, <1>19, <1>20
  DEF HelperNext, Helper, Cleanup

-----------------------------------------------------------------------------
(* What has been loaded                                                    *)

LoadedBy(c) ==
  Loaded(Entry(c))[IF stage[c] = "eof" THEN batch[c] + 1 ELSE batch[c]]
NotBegun(i) ==
  entry[Owner(i)] < i \/ (entry[Owner(i)] = i /\ ~Busy(Owner(i)))

RowsAre ==
  /\ \A c \in Conns :
       Busy(c) /\ stage[c] # "failed" /\ Entry(c) \notin hit =>
         rows[Entry(c)] = LoadedBy(c)
  /\ \A i \in DOMAIN Entries : NotBegun(i) => rows[Entries[i]] = 0
  /\ \A t \in Restored : status[t] = "short" => t \in hit

LEMMA RowsParts == RowsInv <=> RowsAre
BY DEF RowsInv, RowsAre, LoadedBy, NotBegun

LEMMA RowsSteps ==
  ASSUME TypeOK, ConnInv, RowsInv, NEW c \in Conns, ConnFrame,
         \/ ConnWorks(c) \/ NextTable(c) \/ Stops(c) \/ ConnFinishes(c)
         \/ ConnContinues(c)
  PROVE  RowsInv'
<1>1. UNCHANGED <<setup, hit>> /\ setup \in Setups
  BY DEF ConnFrame, inputVars, readerVars, TypeOK
<1>2. \A t : (Loaded(t))' = Loaded(t) /\ (Expected(t))' = Expected(t)
  BY <1>1, Kept
<1>3. /\ stage \in [Conns -> Stages] /\ batch \in [Conns -> BatchNumbers]
      /\ entry \in [Conns -> 1 .. Len(Entries) + NumConns]
  BY TypeParts DEF ConnTypes
<1>4. /\ \A d \in Conns :
           Busy(d) /\ stage[d] # "failed" /\ Entry(d) \notin hit =>
             rows[Entry(d)] = LoadedBy(d)
      /\ \A i \in DOMAIN Entries : NotBegun(i) => rows[Entries[i]] = 0
      /\ \A t \in Restored : status[t] = "short" => t \in hit
  BY RowsParts DEF RowsAre
<1>5. rows' = rows
  BY DEF ConnWorks, NextTable, Stops, ConnFinishes, ConnContinues
<1>6. \A i \in DOMAIN Entries : Owner(i) \in Conns /\ i \in Nat \ {0}
  <2>1. \A i \in DOMAIN Entries : i \in Nat \ {0}
    BY Assumed
  <2> QED
    BY <2>1, Owners
\* One connection does something: nothing changes for the others.
<1>7. ASSUME \A d \in Conns \ {c} : /\ stage'[d] = stage[d] /\ batch'[d] = batch[d]
                                    /\ entry'[d] = entry[d],
             (Busy(c))' /\ stage'[c] # "failed" /\ (Entry(c))' \notin hit =>
               rows[(Entry(c))'] = (LoadedBy(c))',
             \A i \in DOMAIN Entries :
               Owner(i) = c /\ (NotBegun(i))' => NotBegun(i),
             \A t \in Restored : status'[t] = "short" => t \in hit
      PROVE  RowsInv'
  <2>1. ASSUME NEW d \in Conns, (Busy(d))', stage'[d] # "failed", (Entry(d))' \notin hit
        PROVE  rows[(Entry(d))'] = (LoadedBy(d))'
    <3>1. CASE d = c
      BY <1>7, <2>1, <3>1
    <3>2. CASE d # c
      <4>1. stage'[d] = stage[d] /\ batch'[d] = batch[d] /\ entry'[d] = entry[d]
        BY <1>7, <3>2
      <4>2. (Entry(d))' = Entry(d) /\ (Busy(d))' = Busy(d)
              /\ (LoadedBy(d))' = LoadedBy(d)
        BY <1>2, <4>1 DEF Entry, Busy, LoadedBy
      <4> QED
        BY <1>4, <2>1, <4>1, <4>2
    <3> QED
      BY <3>1, <3>2
  <2>2. ASSUME NEW i \in DOMAIN Entries, (NotBegun(i))' PROVE rows[Entries[i]] = 0
    <3>1. CASE Owner(i) = c
      BY <1>4, <1>7, <2>2, <3>1
    <3>2. CASE Owner(i) # c
      <4>1. stage'[Owner(i)] = stage[Owner(i)] /\ entry'[Owner(i)] = entry[Owner(i)]
        BY <1>6, <1>7, <3>2
      <4>2. NotBegun(i)
        BY <2>2, <4>1 DEF NotBegun, Busy
      <4> QED
        BY <1>4, <4>2
    <3> QED
      BY <3>1, <3>2
  <2>3. /\ \A d \in Conns :
             (Busy(d))' /\ stage'[d] # "failed" /\ (Entry(d))' \notin hit' =>
               rows'[(Entry(d))'] = (LoadedBy(d))'
        /\ \A i \in DOMAIN Entries : (NotBegun(i))' => rows'[Entries[i]] = 0
        /\ \A t \in Restored : status'[t] = "short" => t \in hit'
    BY <1>1, <1>5, <1>7, <2>1, <2>2
  <2>4. (RowsInv <=> RowsAre)'
    BY RowsParts, PTL
  <2> QED
    BY <2>3, <2>4 DEF RowsAre
<1>8. CASE ConnWorks(c)
  <2>1. PICK to \in {"found", "remove", "test", "open", "blocked", "failed"} :
          stage' = [stage EXCEPT ![c] = to]
    BY <1>8 DEF ConnWorks
  <2>2. UNCHANGED <<entry, batch, status>> /\ stage[c] \notin {"eof", "failed"}
          /\ Busy(c)
    BY <1>8 DEF ConnWorks, InCopy, Busy
  <2>3. stage'[c] = to /\ \A d \in Conns \ {c} : stage'[d] = stage[d]
    BY <1>3, <2>1
  <2>4. (Entry(c))' = Entry(c) /\ (LoadedBy(c))' = LoadedBy(c)
    BY <1>2, <2>2, <2>3 DEF Entry, LoadedBy
  <2>5. ASSUME NEW i \in DOMAIN Entries, Owner(i) = c, (NotBegun(i))' PROVE NotBegun(i)
    <3>1. (Busy(c))'
      BY <2>3 DEF Busy
    <3> QED
      BY <2>2, <2>5, <3>1 DEF NotBegun
  <2> QED
    BY <1>4, <1>7, <2>2, <2>3, <2>4, <2>5
<1>9. CASE NextTable(c)
  <2>1. /\ UNCHANGED <<entry, status>> /\ stage[c] = "idle" /\ entry[c] <= EntryCount
        /\ stage' = [stage EXCEPT ![c] = "check"] /\ batch' = [batch EXCEPT ![c] = 0]
    BY <1>9 DEF NextTable, Go, EntryCount
  <2>2. /\ stage'[c] = "check" /\ batch'[c] = 0
        /\ \A d \in Conns \ {c} : stage'[d] = stage[d] /\ batch'[d] = batch[d]
    BY <1>3, <2>1
  <2>3. entry[c] \in DOMAIN Entries /\ Owner(entry[c]) = c
    <3> DEFINE n == EntryCount
               e == entry[c]
    <3>1. n \in Nat /\ DOMAIN Entries = 1..n /\ NumConns \in Nat
      BY Assumed
    <3>2. e \in 1..n + NumConns /\ e <= n
      BY <1>3, <2>1 DEF EntryCount
    <3> HIDE DEF n, e
    <3>3. e \in 1..n
      BY <3>1, <3>2
    <3> QED
      BY <3>1, <3>3 DEF e, ConnInv
  <2>4. NotBegun(entry[c])
    BY <2>1, <2>3 DEF NotBegun, Busy
  <2>5. rows[Entry(c)] = 0 /\ Entry(c) \in Tables
    BY <1>4, <2>3, <2>4, Assumed DEF Entry
  <2>6. (Entry(c))' = Entry(c) /\ (LoadedBy(c))' = 0
    <3>1. (Entry(c))' = Entry(c)
      BY <2>1 DEF Entry
    <3>2. Loaded(Entry(c))[0] = 0
      BY <1>1, <2>5, LoadedFacts
    <3> QED
      BY <1>2, <2>2, <3>1, <3>2 DEF LoadedBy
  <2>7. ASSUME NEW i \in DOMAIN Entries, Owner(i) = c, (NotBegun(i))' PROVE NotBegun(i)
    BY <2>1, <2>7 DEF NotBegun, Busy
  <2> QED
    BY <1>4, <1>7, <2>1, <2>2, <2>5, <2>6, <2>7
<1>10. CASE Stops(c)
  <2>1. /\ UNCHANGED <<entry, batch, status>> /\ stage[c] = "idle"
        /\ stage' = [stage EXCEPT ![c] = "done"]
    BY <1>10 DEF Stops, Go
  <2>2. stage'[c] = "done" /\ \A d \in Conns \ {c} : stage'[d] = stage[d]
    BY <1>3, <2>1
  <2>3. ASSUME NEW i \in DOMAIN Entries, Owner(i) = c, (NotBegun(i))' PROVE NotBegun(i)
    BY <2>1, <2>3 DEF NotBegun, Busy
  <2> QED
    BY <1>4, <1>7, <2>1, <2>2, <2>3 DEF Busy
<1>11. CASE ConnContinues(c)
  <2>1. /\ UNCHANGED <<entry, status>> /\ stage[c] = "eof"
        /\ batch' = [batch EXCEPT ![c] = @ + 1]
        /\ stage' = [stage EXCEPT ![c] = "check"]
    BY <1>11 DEF ConnContinues
  <2>2. /\ stage'[c] = "check" /\ batch'[c] = batch[c] + 1
        /\ \A d \in Conns \ {c} : stage'[d] = stage[d] /\ batch'[d] = batch[d]
    BY <1>3, <2>1
  <2>3. (Entry(c))' = Entry(c) /\ (LoadedBy(c))' = LoadedBy(c)
    BY <1>2, <2>1, <2>2 DEF Entry, LoadedBy
  <2>4. ASSUME NEW i \in DOMAIN Entries, Owner(i) = c, (NotBegun(i))' PROVE NotBegun(i)
    <3>1. (Busy(c))'
      BY <2>2 DEF Busy
    <3> QED
      BY <2>1, <2>4, <3>1 DEF NotBegun
  <2>5. Busy(c) /\ stage[c] # "failed"
    BY <2>1 DEF Busy
  <2> QED
    BY <1>4, <1>7, <2>1, <2>2, <2>3, <2>4, <2>5
<1>12. CASE ConnFinishes(c)
  <2>1. PICK how \in Verdicts :
          /\ Finish(c, how) /\ UNCHANGED batch
          /\ stage[c] \in {"found", "failed", "eof"}
          /\ stage[c] = "eof" <=> how \in {"restored", "short"}
          /\ how \in {"restored", "short"} => batch[c] + 1 = BatchesOf(Entry(c))
          /\ how = "short" => rows[Entry(c)] # Expected(Entry(c))
    BY <1>12 DEF ConnFinishes, Verdicts
  <2>2. Busy(c)
    BY <2>1 DEF Busy
  <2>3. /\ entry'[c] = entry[c] + NumConns
        /\ \A d \in Conns \ {c} : entry'[d] = entry[d] /\ stage'[d] = stage[d]
        /\ status'[Entry(c)] = how
        /\ \A t \in Restored \ {Entry(c)} : status'[t] = status[t]
        /\ stage'[c] \in {"idle", "done"}
    BY <2>1, <2>2, FinishFacts
  <2>4. ASSUME NEW i \in DOMAIN Entries, Owner(i) = c, (NotBegun(i))' PROVE NotBegun(i)
    <3>1. entry'[c] <= i /\ entry[c] \in Nat /\ i \in Nat /\ NumConns \in Nat \ {0}
      <4>1. entry[c] \in 1..EntryCount /\ i \in Nat /\ NumConns \in Nat \ {0}
        BY <1>6, <2>2, TurnTaken, Assumed
      <4> QED
        BY <2>3, <2>4, <4>1 DEF NotBegun
    <3>2. entry[c] < i
      BY <2>3, <3>1
    <3> QED
      BY <2>4, <3>2 DEF NotBegun
  <2>5. ASSUME NEW t \in Restored, status'[t] = "short" PROVE t \in hit
    <3>1. CASE t # Entry(c)
      BY <1>4, <2>3, <2>5, <3>1
    <3>2. CASE t = Entry(c) /\ t \notin hit
      <4>1. how = "short" /\ stage[c] = "eof"
        BY <2>1, <2>3, <2>5, <3>2
      <4>2. rows[Entry(c)] = LoadedBy(c)
        BY <1>4, <2>2, <3>2, <4>1
      <4>3. LoadedBy(c) = Expected(Entry(c))
        BY <2>1, <4>1 DEF LoadedBy, Expected
      <4> QED
        BY <2>1, <4>1, <4>2, <4>3
    <3> QED
      BY <3>1, <3>2
  <2>6. ~(Busy(c))'
    BY <2>3 DEF Busy
  <2> QED
    BY <1>7, <2>1, <2>3, <2>4, <2>5, <2>6
<1> QED
  BY <1>8, <1>9, <1>10, <1>11, <1>12

\* The helper gives a COPY all its table has in the batch, unless it notes that
\* reading it failed.
LEMMA RowsKept ==
  ASSUME TypeOK, HelperInv, ConnInv, PassedInv, RowsInv, HelperNext, HelperFrame,
         ~HardFailed, ~HardFailed'
  PROVE  RowsInv'
<1>1. UNCHANGED <<setup, entry, batch, status>> /\ setup \in Setups
  BY DEF HelperFrame, inputVars, TypeOK
<1>2. \A t : (Loaded(t))' = Loaded(t)
  BY <1>1, Kept
<1>3. /\ \A d \in Conns :
           Busy(d) /\ stage[d] # "failed" /\ Entry(d) \notin hit =>
             rows[Entry(d)] = LoadedBy(d)
      /\ \A i \in DOMAIN Entries : NotBegun(i) => rows[Entries[i]] = 0
      /\ \A t \in Restored : status[t] = "short" => t \in hit
  BY RowsParts DEF RowsAre
<1>4. \A d \in Conns : (Busy(d))' = Busy(d) /\ (Entry(d))' = Entry(d)
  BY <1>1 DEF HelperFrame, StageMoves, InPipe, Busy, Entry
<1>5. \A i \in DOMAIN Entries :
        /\ Owner(i) \in Conns /\ i \in Nat \ {0}
        /\ Entries[i] \in Restored
  <2>1. \A i \in DOMAIN Entries : i \in Nat \ {0} /\ Entries[i] \in Restored
    BY Assumed
  <2> QED
    BY <2>1, Owners
<1>6. ASSUME NEW i \in DOMAIN Entries, (NotBegun(i))'
      PROVE  NotBegun(i) /\ rows'[Entries[i]] = 0
  <2>1. NotBegun(i)
    BY <1>1, <1>4, <1>5, <1>6 DEF NotBegun
  <2>2. ASSUME NEW d \in Conns, InPipe(d), Entry(d) = Entries[i] PROVE FALSE
    <3>1. Busy(d)
      BY <2>2 DEF InPipe, Busy
    <3>2. entry[d] \in DOMAIN Entries /\ Owner(entry[d]) = d
      BY <3>1, TurnTaken
    <3>3. entry[d] = i
      BY <2>2, <3>2, EntriesOnce DEF Entry
    <3>4. Owner(i) = d /\ i \in Nat
      BY <1>5, <3>2, <3>3
    <3> QED
      BY <2>1, <3>1, <3>3, <3>4 DEF NotBegun
  <2>3. rows'[Entries[i]] = rows[Entries[i]]
    BY <1>5, <2>2 DEF HelperFrame, RowsMove
  <2> QED
    BY <1>3, <2>1, <2>3
<1>7. ASSUME hit \subseteq hit',
             \A d \in Conns : Busy(d) /\ stage'[d] # "failed" /\ Entry(d) \notin hit' =>
               rows'[Entry(d)] = (LoadedBy(d))'
      PROVE  RowsInv'
  <2>1. (RowsInv <=> RowsAre)'
    BY RowsParts, PTL
  <2>2. \A i \in DOMAIN Entries : (NotBegun(i))' => rows'[Entries[i]] = 0
    BY <1>6
  <2>3. \A t \in Restored : status'[t] = "short" => t \in hit'
    BY <1>1, <1>3, <1>7
  <2>4. \A d \in Conns :
          (Busy(d))' /\ stage'[d] # "failed" /\ (Entry(d))' \notin hit' =>
            rows'[(Entry(d))'] = (LoadedBy(d))'
    BY <1>4, <1>7
  <2> QED
    BY <2>1, <2>2, <2>3, <2>4 DEF RowsAre
\* No COPY ends, and none gets anything.
<1>8. ASSUME rows' = rows, hit' = hit,
             \A d \in Conns : \/ stage'[d] = stage[d]
                              \/ stage[d] = "blocked" /\ stage'[d] = "reading"
      PROVE  RowsInv'
  <2>1. ASSUME NEW d \in Conns, Busy(d), stage'[d] # "failed", Entry(d) \notin hit
        PROVE  rows'[Entry(d)] = (LoadedBy(d))'
    <3>1. (LoadedBy(d))' = LoadedBy(d)
      BY <1>1, <1>2, <1>4, <1>8 DEF LoadedBy
    <3>2. stage[d] # "failed"
      BY <1>8, <2>1
    <3> QED
      BY <1>3, <1>8, <2>1, <3>1, <3>2
  <2> QED
    BY <1>7, <1>8, <2>1
\* The pipe of the helper's place is closed.
<1>9. ASSUME Looping, helperPc = "copy", CloseWriter(Current), hit \subseteq hit',
             ReadersOf(Current) # {} => copied = Size \/ Oid \in hit'
      PROVE  RowsInv'
  <2>1. at \in 1..ListLength
    BY <1>9, LoopPlace
  <2>2. PICK p \in Turns : HelperAt(p)
    BY <1>1, <2>1, HelperTurn
  <2>3. Current[1] = Oid
    BY DEF Current
  <2>4. /\ \A d \in Conns :
             stage'[d] = IF d \in ReadersOf(Current) THEN "eof" ELSE stage[d]
        /\ ReadersOf(Current) = {} => rows' = rows
        /\ ReadersOf(Current) # {} =>
             /\ rows'[Oid] = rows[Oid] + copied
             /\ \A t \in Restored \ {Oid} : rows'[t] = rows[t]
    BY <1>9, <2>3, ClosedPipe
  <2>5. ASSUME NEW d \in Conns, Busy(d), stage'[d] # "failed", Entry(d) \notin hit'
        PROVE  rows'[Entry(d)] = (LoadedBy(d))'
    <3>1. Entry(d) \in Restored
      BY <2>5, TurnTaken
    <3>2. CASE d \in ReadersOf(Current)
      <4>1. Entry(d) = Oid /\ batch[d] = BatchNum /\ stage'[d] = "eof"
            /\ InPipe(d)
        BY <2>1, <2>2, <2>4, <3>2, ReaderTurn, OneReader
      <4>2. copied = Size /\ rows'[Oid] = rows[Oid] + Size
        BY <1>9, <2>4, <2>5, <3>2, <4>1
      <4>3. rows[Oid] = Loaded(Oid)[BatchNum]
        <5>1. stage[d] # "failed" /\ stage[d] # "eof"
          BY <4>1 DEF InPipe
        <5> QED
          BY <1>3, <1>9, <2>5, <4>1, <5>1 DEF LoadedBy
      <4>4. Loaded(Oid)[BatchNum + 1] = Loaded(Oid)[BatchNum] + Size
        BY <1>1, <2>1, HelperTurn, LoadedFacts DEF Size
      <4>5. (LoadedBy(d))' = Loaded(Oid)[BatchNum + 1]
        BY <1>1, <1>2, <1>4, <4>1 DEF LoadedBy
      <4> QED
        BY <4>1, <4>2, <4>3, <4>4, <4>5
    <3>3. CASE d \notin ReadersOf(Current)
      <4>1. stage'[d] = stage[d] /\ (LoadedBy(d))' = LoadedBy(d)
        BY <1>1, <1>2, <1>4, <2>4, <3>3 DEF LoadedBy
      <4>2. rows'[Entry(d)] = rows[Entry(d)]
        <5>1. CASE ReadersOf(Current) = {}
          BY <2>4, <5>1
        <5>2. CASE ReadersOf(Current) # {}
          <6>1. PICK c : c \in ReadersOf(Current)
            BY <5>2
          <6>2. Entry(d) # Oid
            BY <2>3, <2>5, <3>3, <6>1, OneReader
          <6> QED
            BY <2>4, <3>1, <5>2, <6>2
        <5> QED
          BY <5>1, <5>2
      <4> QED
        BY <1>3, <1>9, <2>5, <4>1, <4>2
    <3> QED
      BY <3>2, <3>3
  <2> QED
    BY <1>7, <1>9, <2>5
<1>10. CASE HelperCreates \/ HelperSkips \/ HelperPositions \/ HelperCopies
            \/ HelperWritesErrorFile \/ HelperLeaves \/ PositionFails \/ StopHelper
            \/ UNCHANGED vars
  <2>1. rows' = rows /\ hit' = hit /\ stage' = stage
    BY <1>10 DEF HelperCreates, HelperSkips, HelperPositions, HelperCopies,
      HelperWritesErrorFile, HelperLeaves, PositionFails, StopHelper, connVars,
      readerVars, vars
  <2> QED
    BY <1>8, <2>1
<1>11. CASE HelperOpens
  <2>1. rows' = rows /\ hit' = hit
    BY <1>11 DEF HelperOpens, readerVars
  <2>2. CASE stage' = stage
    BY <1>8, <2>1, <2>2
  <2>3. CASE \E c \in ReadersOf(Current) : stage' = [stage EXCEPT ![c] = "reading"]
    <3>1. PICK c \in ReadersOf(Current) : stage' = [stage EXCEPT ![c] = "reading"]
      BY <2>3
    <3>2. InPipe(c) /\ stage \in [Conns -> Stages]
      BY OneReader, TypeParts DEF ConnTypes
    <3>3. \A d \in Conns : \/ stage'[d] = stage[d]
                           \/ stage[d] = "blocked" /\ stage'[d] = "reading"
      BY <3>1, <3>2 DEF InPipe
    <3> QED
      BY <1>8, <2>1, <3>3
  <2> QED
    BY <1>11, <2>2, <2>3 DEF HelperOpens
<1>12. CASE BrokenPipe
  <2>1. helperPc = "copy" /\ Looping /\ CloseWriter(Current) /\ ReadersOf(Current) = {}
        /\ hit' = hit
    BY <1>12 DEF BrokenPipe, CopyStops, CloseAndDelete, Copying, Looping
  <2> QED
    BY <1>9, <2>1
<1>13. CASE ReadFails
  <2>1. helperPc = "copy" /\ Looping /\ CloseWriter(Current) /\ hit' = hit \cup {Oid}
    BY <1>13 DEF ReadFails, CopyStops, CloseAndDelete, Copying, Looping
  <2> QED
    BY <1>9, <2>1
<1>14. CASE HelperEndsTable
  <2>1. helperPc = "copy" /\ Looping /\ CloseWriter(Current) /\ hit' = hit
          /\ copied = Size
    BY <1>14 DEF HelperEndsTable, CloseAndDelete, Looping
  <2> QED
    BY <1>9, <2>1
<1>15. CASE HelperClosesWriter
  <2>1. helperPc = "failed"
    BY <1>15 DEF HelperClosesWriter
  <2> QED
    BY <2>1 DEF HelperInv, HardFailed, ListLength
<1>16. ASSUME NEW p \in Pipes, HelperReleases(p) PROVE RowsInv'
  <2>1. /\ helperPc = "cleanup" /\ rows' = rows /\ hit' = hit
        /\ stage' = [c \in Conns |-> IF c \in ReadersOf(p) /\ ~wasSigpiped THEN "eof"
                                     ELSE stage[c]]
    BY <1>16 DEF HelperReleases, readerVars
  <2>2. ASSUME NEW c \in ReadersOf(p) PROVE FALSE
    <3>1. c \in Conns /\ Busy(c) /\ InPipe(c)
      BY OneReader
    <3>2. stage[c] \notin {"eof", "failed"}
      BY <3>1 DEF InPipe
    <3>3. at \in 1..ListLength
      BY <3>1, <3>2, Waiting
    <3>4. ListLength \in Nat
      BY <1>1, ListPlaces
    <3> QED
      BY <2>1, <3>3, <3>4 DEF HardFailed, ListLength
  <2>3. \A c \in Conns : stage'[c] = stage[c]
    BY <2>1, <2>2
  <2> QED
    BY <1>8, <2>1, <2>3
<1>17. ASSUME NEW p \in Pipes, HelperRemoves(p) PROVE RowsInv'
  <2>1. rows' = rows /\ hit' = hit /\ stage' = stage
    BY <1>17 DEF HelperRemoves, connVars, readerVars
  <2> QED
    BY <1>8, <2>1
<1> QED
  BY <1>10, <1>11, <1>12, <1>13, <1>14, <1>15, <1>16, <1>17
  DEF HelperNext, Helper, Cleanup

-----------------------------------------------------------------------------
(* The copy queue                                                          *)

QueueOrder == \A p \in Turns : Beyond(p) => Place(p) < at
QueueAhead ==
  Looping => \A n \in at..ListLength :
    n < at + copyQueue \/ (n = at + copyQueue /\ helperPc # "create")
      => pipe[oidWithBatchList[n]] = "fifo"

LEMMA QueueParts == QueueInv <=> QueueOrder /\ QueueAhead
BY DEF QueueInv, QueueOrder, QueueAhead

\* A failure is not forgotten.
LEMMA FailureKept ==
  ASSUME TypeOK, ConnInv, NEW c \in Conns, NothingFailed',
         \/ ConnWorks(c) \/ NextTable(c) \/ Stops(c) \/ ConnFinishes(c)
         \/ ConnContinues(c)
  PROVE  NothingFailed
<1>1. stage \in [Conns -> Stages]
  BY TypeParts DEF ConnTypes
<1>2. CASE ConnWorks(c)
  <2>1. status' = status /\ stage[c] # "failed"
        /\ \E s : stage' = [stage EXCEPT ![c] = s]
    BY <1>2 DEF ConnWorks, InCopy
  <2>2. \A d \in Conns \ {c} : stage'[d] = stage[d]
    BY <1>1, <2>1
  <2> QED
    BY <2>1, <2>2 DEF NothingFailed
<1>3. CASE NextTable(c) \/ Stops(c)
  <2>1. status' = status /\ stage[c] = "idle"
        /\ \E s : stage' = [stage EXCEPT ![c] = s]
    BY <1>3 DEF NextTable, Stops, Go
  <2>2. \A d \in Conns \ {c} : stage'[d] = stage[d]
    BY <1>1, <2>1
  <2> QED
    BY <2>1, <2>2 DEF NothingFailed
<1>4. CASE ConnContinues(c)
  <2>1. status' = status /\ stage[c] = "eof"
        /\ stage' = [stage EXCEPT ![c] = "check"]
    BY <1>4 DEF ConnContinues
  <2>2. \A d \in Conns \ {c} : stage'[d] = stage[d]
    BY <1>1, <2>1
  <2> QED
    BY <2>1, <2>2 DEF NothingFailed
<1>5. CASE ConnFinishes(c)
  <2>1. PICK how \in Verdicts :
          Finish(c, how) /\ stage[c] \in {"found", "failed", "eof"}
          /\ (stage[c] = "failed" <=> how = "copyFailed")
    BY <1>5 DEF ConnFinishes, Verdicts
  <2>2. Busy(c)
    BY <2>1 DEF Busy
  <2>3. /\ \A d \in Conns \ {c} : stage'[d] = stage[d]
        /\ status'[Entry(c)] = how
        /\ \A t \in Restored \ {Entry(c)} : status'[t] = status[t]
    BY <2>1, <2>2, FinishFacts
  <2>4. Entry(c) \in Restored /\ status[Entry(c)] = "todo"
    BY <2>2, TurnTaken
  <2>5. how # "copyFailed" /\ stage[c] # "failed"
    BY <2>1, <2>3, <2>4 DEF NothingFailed, Bad
  <2>6. \A t \in Restored : status[t] \notin Bad
    BY <2>3, <2>4 DEF NothingFailed, Bad
  <2> QED
    BY <2>3, <2>5, <2>6 DEF NothingFailed
<1> QED
  BY <1>2, <1>3, <1>4, <1>5

\* Without a failure a connection ends no COPY: only the helper does.
LEMMA NoneBeyond ==
  ASSUME TypeOK, ConnInv, NEW c \in Conns, ConnFrame, NothingFailed',
         \/ ConnWorks(c) \/ NextTable(c) \/ Stops(c) \/ ConnFinishes(c)
         \/ ConnContinues(c),
         NEW p \in Turns, Beyond(p)'
  PROVE  Beyond(p)
<1> DEFINE d == Owner(p[1])
           i == p[1]
           b == p[2]
<1>1. setup \in Setups /\ stage \in [Conns -> Stages]
        /\ batch \in [Conns -> BatchNumbers]
      /\ entry \in [Conns -> 1 .. Len(Entries) + NumConns]
  BY TypeParts DEF ConnTypes, InputTypes
<1>2. i \in Nat \ {0} /\ b \in Nat /\ b < BatchesOf(Entries[i])
  <2>1. p[1] \in DOMAIN Entries /\ p[2] \in Nat /\ p[2] < BatchesOf(Entries[p[1]])
    BY <1>1, TurnFacts
  <2> QED
    BY <2>1, Assumed
<1>3. d \in Conns
  BY <1>2, Owners
<1>4. entry[d] \in Nat \ {0} /\ batch[d] \in Nat /\ NumConns \in Nat
  BY <1>1, <1>3, Assumed DEF BatchNumbers
<1>5. \/ i < entry'[d]
      \/ /\ i = entry'[d] /\ (Busy(d))'
         /\ b < batch'[d] \/ (b = batch'[d] /\ stage'[d] \in {"eof", "failed"})
  BY DEF Beyond
<1>6. Beyond(p) <=>
        \/ i < entry[d]
        \/ /\ i = entry[d] /\ Busy(d)
           /\ b < batch[d] \/ (b = batch[d] /\ stage[d] \in {"eof", "failed"})
  BY DEF Beyond
<1>10. d = Owner(i)
  OBVIOUS
<1> HIDE DEF d, i, b
<1>7. ASSUME entry'[d] = entry[d], batch'[d] = batch[d], stage'[d] = stage[d]
      PROVE  Beyond(p)
  BY <1>5, <1>6, <1>7 DEF Busy
<1>8. CASE ConnWorks(c)
  <2>1. PICK to \in {"found", "remove", "test", "open", "blocked", "failed"} :
          stage' = [stage EXCEPT ![c] = to]
    BY <1>8 DEF ConnWorks
  <2>2. UNCHANGED <<entry, batch>> /\ Busy(c)
    BY <1>8 DEF ConnWorks, InCopy, Busy
  <2>3. stage'[c] = to /\ \A e \in Conns \ {c} : stage'[e] = stage[e]
    BY <1>1, <2>1
  <2>4. to \notin {"eof", "failed"}
    BY <2>3 DEF NothingFailed
  <2>5. CASE d = c
    BY <1>5, <1>6, <2>2, <2>3, <2>4, <2>5
  <2>6. CASE d # c
    BY <1>3, <1>7, <2>2, <2>3, <2>6
  <2> QED
    BY <2>5, <2>6
<1>9. CASE NextTable(c) \/ Stops(c) \/ ConnContinues(c)
  <2>1. CASE d # c
    BY <1>1, <1>3, <1>7, <1>9, <2>1 DEF NextTable, Stops, Go, ConnContinues
  <2>2. CASE d = c /\ NextTable(c)
    <3>1. entry'[d] = entry[d] /\ batch'[d] = 0 /\ stage'[d] = "check"
      BY <1>1, <1>3, <2>2 DEF NextTable, Go
    <3> QED
      BY <1>2, <1>5, <1>6, <3>1
  <2>3. CASE d = c /\ Stops(c)
    <3>1. entry'[d] = entry[d] /\ stage'[d] = "done"
      BY <1>1, <1>3, <2>3 DEF Stops, Go
    <3> QED
      BY <1>5, <1>6, <3>1 DEF Busy
  <2>4. CASE d = c /\ ConnContinues(c)
    <3>1. entry'[d] = entry[d] /\ batch'[d] = batch[d] + 1 /\ stage'[d] = "check"
          /\ stage[d] = "eof"
      BY <1>1, <1>3, <2>4 DEF ConnContinues
    <3>2. Busy(d)
      BY <3>1 DEF Busy
    <3>3. b < batch[d] + 1 => b < batch[d] \/ b = batch[d]
      BY <1>2, <1>4
    <3> QED
      BY <1>5, <1>6, <3>1, <3>2, <3>3
  <2> QED
    BY <1>9, <2>1, <2>2, <2>3, <2>4
<1>11. CASE ConnFinishes(c)
  <2>1. PICK how \in Verdicts :
          /\ Finish(c, how) /\ UNCHANGED batch
          /\ stage[c] \in {"found", "failed", "eof"}
          /\ stage[c] = "eof" <=> how \in {"restored", "short"}
          /\ how \in {"restored", "short"} => batch[c] + 1 = BatchesOf(Entry(c))
    BY <1>11 DEF ConnFinishes, Verdicts
  <2>2. Busy(c)
    BY <2>1 DEF Busy
  <2>3. /\ entry'[c] = entry[c] + NumConns /\ stage'[c] \in {"idle", "done"}
        /\ \A e \in Conns \ {c} : entry'[e] = entry[e] /\ stage'[e] = stage[e]
        /\ status'[Entry(c)] = how
    BY <2>1, <2>2, FinishFacts
  <2>4. CASE d # c
    BY <1>3, <1>7, <2>1, <2>3, <2>4
  <2>5. CASE d = c
    <3>1. how \notin Bad
      BY <2>2, <2>3, TurnTaken DEF NothingFailed
    <3>2. stage[d] = "eof" /\ batch[d] + 1 = BatchesOf(Entries[entry[d]])
      BY <2>1, <2>5, <3>1 DEF Bad, Verdicts, Entry
    <3>3. i < entry[d] + NumConns
      <4>1. ~(Busy(d))'
        BY <2>3, <2>5 DEF Busy
      <4> QED
        BY <1>5, <2>3, <2>5, <4>1
    <3>4. Owner(entry[d]) = d
      BY <2>2, <2>5, TurnTaken
    <3>5. ~(entry[d] < i)
      <4>1. entry[d] < i => entry[d] + NumConns <= i
        BY <1>2, <1>4, <1>10, <3>4, Owners
      <4> QED
        BY <1>2, <1>4, <3>3, <4>1
    <3>6. CASE i < entry[d]
      BY <1>6, <3>6
    <3>7. CASE i = entry[d]
      <4>1. b < batch[d] + 1
        BY <1>2, <3>2, <3>7
      <4>2. b < batch[d] \/ b = batch[d]
        BY <1>2, <1>4, <4>1
      <4> QED
        BY <1>6, <2>2, <2>5, <3>2, <3>7, <4>2
    <3> QED
      BY <1>2, <1>4, <3>5, <3>6, <3>7
  <2> QED
    BY <2>4, <2>5
<1> QED
  BY <1>8, <1>9, <1>11

LEMMA QueueSteps ==
  ASSUME TypeOK, ConnInv, QueueInv, NEW c \in Conns, ConnFrame, NothingFailed',
         \/ ConnWorks(c) \/ NextTable(c) \/ Stops(c) \/ ConnFinishes(c)
         \/ ConnContinues(c)
  PROVE  QueueInv'
<1>1. UNCHANGED <<setup, at, helperPc, pipe>>
  BY DEF ConnFrame, inputVars, loopVars
<1>2. /\ Turns' = Turns /\ ListLength' = ListLength /\ copyQueue' = copyQueue
      /\ oidWithBatchList' = oidWithBatchList /\ \A p : (Place(p))' = Place(p)
  BY <1>1, Kept
<1>3. QueueOrder'
  <2>1. \A p \in Turns : Beyond(p)' => Place(p) < at
    BY NoneBeyond, QueueParts DEF QueueOrder
  <2> QED
    BY <1>1, <1>2, <2>1 DEF QueueOrder
<1>4. QueueAhead'
  <2>1. QueueAhead
    BY QueueParts
  <2> QED
    BY <1>1, <1>2, <2>1 DEF QueueAhead, Looping
<1>5. (QueueInv <=> QueueOrder /\ QueueAhead)'
  BY QueueParts, PTL
<1> QED
  BY <1>3, <1>4, <1>5

\* No two places of the list hold the same pipe.
LEMMA PipesApart ==
  ASSUME setup \in Setups, NEW n \in 1..ListLength, NEW m \in 1..ListLength,
         oidWithBatchList[n] = oidWithBatchList[m]
  PROVE  n = m
<1>1. PICK p \in Turns : Place(p) = n
  BY ListPlaces
<1>2. PICK q \in Turns : Place(q) = m
  BY ListPlaces
<1>3. PipeOf(p) = PipeOf(q)
  BY <1>1, <1>2, ListPlaces
<1> QED
  BY <1>1, <1>2, <1>3, PipeOfOnce

LEMMA QueueKept ==
  ASSUME TypeOK, HelperInv, ConnInv, SkipInv, PassedInv, QueueInv, NothingFailed,
         HelperNext, HelperFrame, ~HardFailed, ~HardFailed'
  PROVE  QueueInv'
<1>1. UNCHANGED <<setup, entry, batch, status>> /\ setup \in Setups
  BY DEF HelperFrame, inputVars, TypeOK
<1>2. /\ Turns' = Turns /\ ListLength' = ListLength /\ copyQueue' = copyQueue
      /\ oidWithBatchList' = oidWithBatchList /\ \A p : (Place(p))' = Place(p)
  BY <1>1, Kept
<1>3. /\ ListLength \in Nat /\ at \in Nat /\ copyQueue \in Nat
      /\ pipe \in [Pipes -> {"none", "fifo", "released", "removed"}]
      /\ stage \in [Conns -> Stages]
      /\ \A n \in 1..ListLength : oidWithBatchList[n] \in Pipes
  BY <1>1, ListPlaces, CopyQueueFacts, TypeParts DEF TypeOK, ConnTypes
<1>4. QueueOrder /\ QueueAhead
  BY QueueParts
<1>5. (QueueInv <=> QueueOrder /\ QueueAhead)'
  BY QueueParts, PTL
<1>6. skipOid = 0 /\ \A t \in skipFiles : FALSE
  BY DEF SkipInv, NothingFailed, Bad, TypeOK
\* A COPY that is newly over had its pipe closed.
<1>7. ASSUME NEW p \in Turns, Beyond(p)', ~Beyond(p)
      PROVE  Owner(p[1]) \in Conns /\ InPipe(Owner(p[1]))
             /\ stage'[Owner(p[1])] = "eof" /\ Turn(Owner(p[1])) = p
  <2> DEFINE d == Owner(p[1])
             i == p[1]
             b == p[2]
  <2>1. d \in Conns
    <3>1. p[1] \in DOMAIN Entries
      BY <1>1, TurnFacts
    <3>2. p[1] \in Nat \ {0}
      BY <3>1, Assumed
    <3> QED
      BY <3>2, Owners
  <2>2. p = <<i, b>>
    BY <1>1, TurnFacts
  <2>3. \/ i < entry'[d]
        \/ /\ i = entry'[d] /\ (Busy(d))'
           /\ b < batch'[d] \/ (b = batch'[d] /\ stage'[d] \in {"eof", "failed"})
    BY <1>7 DEF Beyond
  <2>4. ~ \/ i < entry[d]
          \/ /\ i = entry[d] /\ Busy(d)
             /\ b < batch[d] \/ (b = batch[d] /\ stage[d] \in {"eof", "failed"})
    BY <1>7 DEF Beyond
  <2> HIDE DEF d, i, b
  <2>5. stage'[d] = stage[d] \/ (InPipe(d) /\ stage'[d] \in {"reading", "eof"})
    BY <2>1 DEF HelperFrame, StageMoves
  <2>6. (Busy(d))' => Busy(d)
    BY <2>5 DEF Busy, InPipe
  <2>7. i = entry[d] /\ b = batch[d] /\ InPipe(d) /\ stage'[d] = "eof"
    BY <1>1, <2>3, <2>4, <2>5, <2>6
  <2>8. Turn(d) = p
    BY <2>2, <2>7 DEF Turn
  <2> QED
    BY <2>1, <2>7, <2>8 DEF d
<1>8. ASSUME at' \in {at, at + 1},
             \A c \in Conns : InPipe(c) => stage'[c] # "eof"
      PROVE  QueueOrder'
  <2>1. ASSUME NEW p \in Turns, Beyond(p)' PROVE Place(p) < at'
    <3>1. Beyond(p)
      BY <1>7, <1>8, <2>1
    <3>2. Place(p) < at /\ Place(p) \in Nat
      BY <1>1, <1>4, <3>1, TurnFacts DEF QueueOrder
    <3> QED
      BY <1>3, <1>8, <3>2
  <2> QED
    BY <1>2, <2>1 DEF QueueOrder
<1>9. ASSUME CloseWriter(Current), Looping, at' = at + 1
      PROVE  QueueOrder'
  <2>1. at \in 1..ListLength
    BY <1>9, LoopPlace
  <2>2. ASSUME NEW p \in Turns, Beyond(p)' PROVE Place(p) < at'
    <3>1. CASE Beyond(p)
      <4>1. Place(p) < at /\ Place(p) \in Nat
        BY <1>1, <1>4, <3>1, TurnFacts DEF QueueOrder
      <4> QED
        BY <1>3, <1>9, <4>1
    <3>2. CASE ~Beyond(p)
      <4> DEFINE c == Owner(p[1])
      <4>1. c \in Conns /\ InPipe(c) /\ stage'[c] = "eof" /\ Turn(c) = p
        BY <1>7, <2>2, <3>2
      <4> HIDE DEF c
      <4>2. c \in ReadersOf(Current)
        BY <1>9, <4>1, ClosedPipe DEF InPipe
      <4>3. PICK q \in Turns : HelperAt(q)
        BY <1>1, <2>1, HelperTurn
      <4>4. Turn(c) = q
        BY <2>1, <4>2, <4>3, ReaderTurn
      <4>5. Place(p) = at
        BY <4>1, <4>3, <4>4 DEF HelperAt
      <4> QED
        BY <1>3, <1>9, <4>5
    <3> QED
      BY <3>1, <3>2
  <2> QED
    BY <1>2, <2>2 DEF QueueOrder
\* The pipe of the helper's place is removed, and the helper goes on.
<1>10. ASSUME CloseAndDelete(Current), helperPc = "copy",
              NEW err \in BOOLEAN, Advance(err)
       PROVE  QueueInv'
  <2>1. Looping /\ CloseWriter(Current) /\ pipe' = [pipe EXCEPT ![Current] = "removed"]
    BY <1>10 DEF Looping, CloseAndDelete
  <2>2. at \in 1..ListLength
    BY <2>1, LoopPlace
  <2>3. at' = at + 1 /\ (Looping' => helperPc' = "create")
    <3>1. \/ at' = at /\ helperPc' = "error"
          \/ at' = at + 1 /\ helperPc' = "create"
          \/ at' = at + 1 /\ helperPc' \in {"error", "cleanup"}
      BY <1>10, <2>2, AdvanceFacts
    <3>2. ~(at' = at /\ helperPc' = "error")
      BY <1>2, <1>3, <2>2 DEF HardFailed, ListLength
    <3> QED
      BY <3>1, <3>2 DEF Looping
  <2>4. QueueOrder'
    BY <1>9, <2>1, <2>3
  <2>5. Current = oidWithBatchList[at] /\ Current \in Pipes
    <3>1. PICK q \in Turns : HelperAt(q)
      BY <1>1, <2>2, HelperTurn
    <3>2. oidWithBatchList[Place(q)] = PipeOf(q)
      BY <1>1, ListPlaces
    <3> QED
      BY <1>1, <2>2, <3>1, <3>2, HelperTurn DEF HelperAt
  <2>6. ASSUME NEW n \in (at + 1)..ListLength, n < (at + 1) + copyQueue
        PROVE  pipe'[oidWithBatchList[n]] = "fifo"
    <3>1. n \in 1..ListLength /\ n \in at..ListLength /\ n # at /\ n \in Nat
      BY <1>3, <2>2
    <3>2. n < at + copyQueue \/ n = at + copyQueue
      BY <1>3, <2>6, <3>1
    <3>3. pipe[oidWithBatchList[n]] = "fifo"
      BY <1>4, <1>10, <2>1, <3>1, <3>2 DEF QueueAhead
    <3>4. oidWithBatchList[n] # oidWithBatchList[at]
      BY <1>1, <2>2, <3>1, PipesApart
    <3> QED
      BY <1>3, <2>1, <2>5, <3>1, <3>3, <3>4
  <2>7. QueueAhead'
    BY <1>2, <2>3, <2>6 DEF QueueAhead
  <2> QED
    BY <1>5, <2>4, <2>7
\* The helper stays at its place, and no pipe is taken away.
<1>11. ASSUME at' = at, Looping' => Looping /\ helperPc # "create" /\ pipe' = pipe,
              \A c \in Conns : InPipe(c) => stage'[c] # "eof"
       PROVE  QueueInv'
  <2>1. QueueOrder'
    BY <1>8, <1>11
  <2>2. QueueAhead'
    BY <1>2, <1>4, <1>11 DEF QueueAhead
  <2> QED
    BY <1>5, <2>1, <2>2
<1>12. \A c \in Conns : stage'[c] = stage[c] => (InPipe(c) => stage'[c] # "eof")
  BY DEF InPipe
<1>13. CASE HelperCreates
  <2>1. helperPc = "create" /\ Looping /\ stage' = stage
    BY <1>13 DEF HelperCreates, Looping, connVars
  <2>2. at \in 1..ListLength
    BY <2>1, LoopPlace
  <2>3. Oid # skipOid
    <3>1. Oid \in Tables
      BY <1>1, <2>2, HelperTurn
    <3> QED
      BY <1>6, <3>1, Assumed
  <2>4. helperPc' = "open" /\ at' = at
    BY <1>13, <2>3 DEF HelperCreates
  <2>5. QueueOrder'
    BY <1>8, <1>12, <2>1, <2>4
  <2> DEFINE ahead == at + copyQueue
  <2>6. ahead \in Nat /\ ahead >= 1
    BY <1>3, <2>2
  <2>7. /\ ahead <= ListLength =>
             pipe' = [pipe EXCEPT ![oidWithBatchList[ahead]] = "fifo"]
        /\ ~(ahead <= ListLength) => pipe' = pipe
    <3>1. ahead <= ListLength => oidWithBatchList[ahead][1] # skipOid
      <4> SUFFICES ASSUME ahead <= ListLength PROVE oidWithBatchList[ahead][1] # skipOid
        OBVIOUS
      <4>1. ahead \in 1..ListLength
        BY <1>3, <2>6
      <4>2. oidWithBatchList[ahead][1] \in Restored
        BY <1>3, <4>1 DEF Pipes
      <4> QED
        BY <1>6, <4>2, Assumed
    <3> QED
      BY <1>13, <3>1 DEF HelperCreates, ListLength
  <2>8. \A n \in at..ListLength : n < ahead => pipe[oidWithBatchList[n]] = "fifo"
    BY <1>4, <2>1 DEF QueueAhead
  <2> HIDE DEF ahead
  <2>9. ASSUME NEW n \in at..ListLength, n < ahead \/ n = ahead
        PROVE  pipe'[oidWithBatchList[n]] = "fifo"
    <3>1. n \in 1..ListLength /\ n \in Nat /\ n <= ListLength
      BY <1>3, <2>2
    <3>2. oidWithBatchList[n] \in Pipes
      BY <1>3, <3>1
    <3>3. CASE n = ahead
      <4>1. pipe' = [pipe EXCEPT ![oidWithBatchList[n]] = "fifo"]
        BY <2>7, <3>1, <3>3
      <4> QED
        BY <1>3, <3>2, <4>1
    <3>4. CASE n < ahead
      <4>1. pipe[oidWithBatchList[n]] = "fifo"
        BY <2>8, <3>4
      <4>2. CASE pipe' = pipe
        BY <4>1, <4>2
      <4>3. CASE pipe' = [pipe EXCEPT ![oidWithBatchList[ahead]] = "fifo"]
        BY <1>3, <3>2, <4>1, <4>3
      <4> QED
        BY <2>7, <4>2, <4>3
    <3> QED
      BY <2>9, <3>3, <3>4
  <2>10. QueueAhead'
    BY <1>2, <2>4, <2>9 DEF QueueAhead, ahead
  <2> QED
    BY <1>5, <2>5, <2>10
<1>14. CASE HelperOpens
  <2>1. helperPc = "open" /\ Looping /\ at' = at /\ pipe' = pipe
    BY <1>14 DEF HelperOpens, fileVars, Looping
  <2>2. CASE stage' = stage
    BY <1>11, <1>12, <2>1, <2>2
  <2>3. CASE \E c \in ReadersOf(Current) : stage' = [stage EXCEPT ![c] = "reading"]
    <3>1. PICK c \in ReadersOf(Current) : stage' = [stage EXCEPT ![c] = "reading"]
      BY <2>3
    <3>2. \A d \in Conns : InPipe(d) => stage'[d] # "eof"
      BY <1>3, <3>1 DEF InPipe
    <3> QED
      BY <1>11, <2>1, <3>2
  <2> QED
    BY <1>14, <2>2, <2>3 DEF HelperOpens
<1>15. CASE HelperSkips
  BY <1>6, <1>15 DEF HelperSkips
<1>16. CASE HelperPositions \/ HelperCopies
  <2>1. /\ helperPc \in {"position", "copy"} /\ at' = at /\ pipe' = pipe
        /\ stage' = stage
    BY <1>16 DEF HelperPositions, HelperCopies, Copying, connVars, fileVars
  <2> QED
    BY <1>11, <1>12, <2>1 DEF Looping
<1>17. CASE BrokenPipe \/ ReadFails
  <2>1. Advance(TRUE) /\ CloseAndDelete(Current) /\ helperPc = "copy"
    BY <1>17 DEF BrokenPipe, ReadFails, CopyStops, Copying
  <2> QED
    BY <1>10, <2>1
<1>18. CASE HelperEndsTable
  <2>1. CloseAndDelete(Current) /\ helperPc = "copy"
        /\ (Advance(FALSE) \/ (helperPc' = "error" /\ at' = at))
    BY <1>18 DEF HelperEndsTable
  <2>2. ~(helperPc' = "error" /\ at' = at)
    <3>1. Looping
      BY <2>1 DEF Looping
    <3>2. at \in 1..ListLength
      BY <3>1, LoopPlace
    <3> QED
      BY <1>2, <1>3, <3>2 DEF HardFailed, ListLength
  <2> QED
    BY <1>10, <2>1, <2>2
<1>19. CASE HelperClosesWriter
  <2>1. helperPc = "failed"
    BY <1>19 DEF HelperClosesWriter
  <2> QED
    BY <2>1 DEF HelperInv, HardFailed, ListLength
<1>20. CASE HelperWritesErrorFile \/ HelperLeaves \/ PositionFails \/ StopHelper
  <2>1. /\ at' = at /\ stage' = stage
        /\ helperPc' \in {"error", "gone", "failed", "cleanup"}
    BY <1>20 DEF HelperWritesErrorFile, HelperLeaves, PositionFails, StopHelper,
       connVars
  <2> QED
    BY <1>11, <1>12, <2>1 DEF Looping
<1>21. ASSUME NEW p \in Pipes, HelperReleases(p) PROVE QueueInv'
  <2>1. /\ helperPc = "cleanup" /\ helperPc' = helperPc /\ at' = at
        /\ stage' = [c \in Conns |-> IF c \in ReadersOf(p) /\ ~wasSigpiped THEN "eof"
                                     ELSE stage[c]]
    BY <1>21 DEF HelperReleases, loopVars
  <2>2. ASSUME NEW c \in ReadersOf(p) PROVE FALSE
    <3>1. c \in Conns /\ Busy(c) /\ InPipe(c)
      BY OneReader
    <3>2. stage[c] \notin {"eof", "failed"}
      BY <3>1 DEF InPipe
    <3>3. at \in 1..ListLength
      BY <3>1, <3>2, Waiting
    <3> QED
      BY <1>3, <2>1, <3>3 DEF HardFailed, ListLength
  <2>3. \A c \in Conns : stage'[c] = stage[c]
    BY <2>1, <2>2
  <2> QED
    BY <1>11, <1>12, <2>1, <2>3 DEF Looping
<1>22. ASSUME NEW p \in Pipes, HelperRemoves(p) PROVE QueueInv'
  <2>1. helperPc = "cleanup" /\ helperPc' = helperPc /\ at' = at /\ stage' = stage
    BY <1>22 DEF HelperRemoves, loopVars, connVars
  <2> QED
    BY <1>11, <1>12, <2>1 DEF Looping
<1>23. CASE UNCHANGED vars
  <2>1. UNCHANGED <<at, stage, helperPc, pipe>>
    BY <1>23 DEF vars, loopVars, connVars, fileVars
  <2>2. QueueOrder'
    BY <1>8, <1>12, <2>1
  <2>3. QueueAhead'
    BY <1>2, <1>4, <2>1 DEF QueueAhead, Looping
  <2> QED
    BY <1>5, <2>2, <2>3
<1> QED
  BY <1>13, <1>14, <1>15, <1>16, <1>17, <1>18, <1>19, <1>20, <1>21, <1>22, <1>23
  DEF HelperNext, Helper, Cleanup

-----------------------------------------------------------------------------
(* The theorems                                                            *)

\* The helper starts at the first entry's first pipe.
LEMMA FirstTurn ==
  ASSUME setup \in Setups
  PROVE  /\ <<1, 0>> \in Turns /\ Place(<<1, 0>>) = 1 /\ 1 \in 1..ListLength
         /\ at = 1 => Oid = Entries[1] /\ BatchNum = 0
<1> DEFINE p == <<1, 0>>
<1>1. /\ EntryCount \in Nat \ {0} /\ DOMAIN Entries = 1..EntryCount
      /\ Batches \in Nat \ {0} /\ BatchesOf(Entries[1]) \in Nat \ {0}
  <2>1. BatchesOf(Entries[1]) \in 1..Batches
    BY SetupFacts
  <2> QED
    BY <2>1, Assumed
<1>2. p \in Turns
  <2>1. 1 \in DOMAIN Entries /\ 0 \in BatchNumbers /\ 0 < BatchesOf(Entries[1])
    BY <1>1 DEF BatchNumbers
  <2> QED
    BY <2>1 DEF Turns
<1>3. Place(p) = 1
  <2>1. PipesUpTo[1 - 1] = 0
    BY PipesCounted
  <2> QED
    BY <2>1 DEF Place
<1>4. 1 \in 1..ListLength
  BY <1>2, <1>3, ListPlaces
<1>5. ASSUME at = 1 PROVE Oid = Entries[1] /\ BatchNum = 0
  <2>1. PICK q \in Turns : HelperAt(q)
    BY <1>4, <1>5, HelperTurn
  <2>2. q = p
    BY <1>2, <1>3, <1>5, <2>1, PlacesOrdered DEF HelperAt
  <2> QED
    BY <2>1, <2>2 DEF HelperAt
<1> QED
  BY <1>2, <1>3, <1>4, <1>5

LEMMA InitTypes == Init => TypeOK
<1> SUFFICES ASSUME Init PROVE TypeOK
  OBVIOUS
<1>1. setup \in Setups /\ onErrorContinue \in BOOLEAN
  BY DEF Init
<1>2. EntryCount \in Nat /\ NumConns \in Nat \ {0} /\ Batches \in Nat \ {0}
      /\ FileSize \in Nat
  BY Assumed, EndFacts
<1>3. entry \in [Conns -> 1 .. Len(Entries) + NumConns]
  <2>1. \A c \in Conns : c \in 1..EntryCount + NumConns
    BY <1>2 DEF Conns
  <2> QED
    BY <2>1 DEF Init, EntryCount
<1>4. batch \in [Conns -> BatchNumbers]
  BY <1>2 DEF Init, BatchNumbers
<1>5. /\ stage \in [Conns -> Stages] /\ rows \in [Restored -> Nat]
      /\ status \in [Restored -> {"todo"} \cup Verdicts] /\ cancelled \in BOOLEAN
  BY DEF Init, Stages
<1>6. /\ pipe \in [Pipes -> {"none", "fifo", "released", "removed"}]
      /\ skipFiles \subseteq Restored /\ errorFile \in BOOLEAN
  BY DEF Init
<1>7. ReaderTypes
  <2>1. 0 \in 0..FileSize
    BY <1>2
  <2> QED
    BY <2>1 DEF Init, ReaderTypes
<1>8. LoopTypes
  BY DEF Init, LoopTypes, HelperPcs
<1> QED
  BY <1>1, <1>3, <1>4, <1>5, <1>6, <1>7, <1>8, TypeParts
  DEF InputTypes, ConnTypes, FileTypes

LEMMA InitHelper == Init => HelperInv /\ PosInv /\ SeekInv /\ SubsetInv
<1> SUFFICES ASSUME Init PROVE HelperInv /\ PosInv /\ SeekInv /\ SubsetInv
  OBVIOUS
<1>1. /\ setup \in Setups /\ at = 1 /\ helperPc = "create" /\ copied = 0
      /\ skipOid = 0 /\ discardErr = {} /\ Looping
      /\ pos = [b \in BatchNumbers |-> 0] /\ lastByte = [b \in BatchNumbers |-> 0]
  BY DEF Init, Looping
<1>2. at \in 1..ListLength /\ ListLength \in Nat /\ Oid = Entries[1] /\ BatchNum = 0
  BY <1>1, FirstTurn, ListPlaces
<1>3. Oid \in 1..TableCount /\ TableCount \in Nat /\ Tables = 1..TableCount
  BY <1>1, <1>2, HelperTurn, Assumed
<1>4. HelperInv
  BY <1>1, <1>2, <1>3 DEF HelperInv
<1>5. PosInv
  <2>1. ASSUME NEW b \in BatchNumbers PROVE pos[b] <= StreamSize(b)
    <3>1. StreamSize(b) \in Nat
      BY <1>1, StreamFacts
    <3> QED
      BY <1>1, <3>1
  <2> QED
    BY <2>1 DEF PosInv
<1>6. SeekInv
  BY <1>1 DEF SeekInv
<1>7. SubsetInv
  <2>1. ASSUME setup.reader = "subset", NEW b \in BatchNumbers
        PROVE  pos[b] = StreamPlace(b) + CopiedFrom(b)
    <3>1. Oid - 1 \in 0..TableCount
      BY <1>3
    <3>2. \A t \in 0 + 1..Oid - 1 : t \in Restored => BatchesOf(t) <= b
      <4>1. ASSUME NEW t \in 0 + 1..Oid - 1, t \in Restored PROVE FALSE
        <5>1. PICK i \in DOMAIN Entries : t = Entries[i]
          BY <4>1 DEF Restored
        <5>2. t < Oid
          BY <1>3
        <5>3. i \in Nat \ {0} /\ 1 \in DOMAIN Entries
          BY Assumed
        <5>4. i < 1
          BY <1>2, <5>1, <5>2, <5>3, EntriesOnce
        <5> QED
          BY <5>3, <5>4
      <4> QED
        BY <4>1
    <3>3. StreamEnd[setup][b][Oid - 1] = StreamEnd[setup][b][0]
      <4>1. 0 \in 0..TableCount /\ Oid - 1 \in 0..TableCount
        BY <1>3
      <4> QED
        BY <1>1, <1>3, <2>1, <3>1, <3>2, <4>1, StreamGap
    <3>4. StreamEnd[setup][b][0] = 0
      BY <1>1, StreamFacts
    <3>5. ~(b < BatchNum) /\ skipOid # Oid
      BY <1>1, <1>2, <1>3, Assumed DEF BatchNumbers
    <3>6. StreamPlace(b) = 0
      BY <3>3, <3>4, <3>5 DEF StreamPlace
    <3>7. CopiedFrom(b) = 0 /\ pos[b] = 0
      BY <1>1 DEF CopiedFrom
    <3> QED
      BY <3>6, <3>7
  <2> QED
    BY <2>1 DEF SubsetInv
<1> QED
  BY <1>4, <1>5, <1>6, <1>7

LEMMA InitConns == Init => ConnInv /\ SkipInv /\ PassedInv /\ RowsInv /\ QueueInv
<1> SUFFICES ASSUME Init
             PROVE  ConnInv /\ SkipInv /\ PassedInv /\ RowsInv /\ QueueInv
  OBVIOUS
<1>1. /\ setup \in Setups /\ at = 1 /\ helperPc = "create" /\ errorFile = FALSE
      /\ skipOid = 0 /\ skipFiles = {} /\ cancelled = FALSE
      /\ entry = [c \in Conns |-> c] /\ stage = [c \in Conns |-> "idle"]
      /\ rows = [t \in Restored |-> 0] /\ status = [t \in Restored |-> "todo"]
  BY DEF Init
<1>2. \A c \in Conns :
        /\ entry[c] = c /\ Owner(entry[c]) = c /\ stage[c] = "idle"
        /\ ~Busy(c)
  BY <1>1, Owners DEF Busy
<1>3. ASSUME NEW i \in DOMAIN Entries
      PROVE  /\ status[Entries[i]] = "todo" /\ rows[Entries[i]] = 0
             /\ entry[Owner(i)] <= i /\ ~(i < entry[Owner(i)])
             /\ Owner(i) \in Conns
  <2>1. i \in Nat \ {0} /\ Entries[i] \in Restored
    BY Assumed
  <2>2. Owner(i) \in Conns /\ Owner(i) <= i /\ Owner(i) \in Nat
    BY <2>1, Owners
  <2>3. entry[Owner(i)] = Owner(i)
    BY <1>2, <2>2
  <2> QED
    BY <1>1, <2>1, <2>2, <2>3
<1>4. ConnInv
  BY <1>1, <1>2, <1>3 DEF ConnInv
<1>5. SkipInv
  BY <1>1 DEF SkipInv
<1>6. \A p \in Turns : p[1] \in DOMAIN Entries /\ Place(p) \in Nat \ {0}
  <2>1. \A p \in Turns : p[1] \in DOMAIN Entries /\ Place(p) \in 1..ListLength
    BY <1>1, TurnFacts, ListPlaces
  <2>2. ListLength \in Nat
    BY <1>1, ListPlaces
  <2> QED
    BY <2>1, <2>2
<1>7. PassedInv
  <2>1. \A p \in Turns : ~(Place(p) < 1)
    BY <1>6
  <2> QED
    BY <1>1, <1>2, <2>1 DEF PassedInv
<1>8. RowsInv
  BY <1>1, <1>2, <1>3 DEF RowsInv
<1>9. QueueOrder
  <2>1. \A p \in Turns : ~Beyond(p)
    BY <1>2, <1>3, <1>6 DEF Beyond
  <2> QED
    BY <2>1 DEF QueueOrder
<1>10. QueueAhead
  <2>1. copyQueue \in Nat
    BY <1>1, CopyQueueFacts
  <2>2. ASSUME NEW n \in 1..ListLength, n < 1 + copyQueue
        PROVE  pipe[oidWithBatchList[n]] = "fifo"
    <3>1. n \in 1..copyQueue
      BY <2>1, <2>2
    <3>2. oidWithBatchList[n] \in Pipes
      BY <1>1, ListPlaces
    <3>3. pipe = [p \in Pipes |-> IF \E i \in 1 .. copyQueue : oidWithBatchList[i] = p
                                  THEN "fifo" ELSE "none"]
      BY DEF Init
    <3> QED
      BY <3>1, <3>2, <3>3
  <2> QED
    BY <1>1, <2>2 DEF QueueAhead
<1> QED
  BY <1>4, <1>5, <1>7, <1>8, <1>9, <1>10, QueueParts

LEMMA ConnKeeps ==
  ASSUME IInv, NEW c \in Conns, Conn(c) \/ CopyFails(c)
  PROVE  IInv'
<1>1. TypeOK /\ HelperInv /\ PosInv /\ SeekInv /\ SubsetInv /\ ConnInv /\ SkipInv
  BY DEF IInv
<1>2. ConnFrame
  BY <1>1, ConnSteps
<1>3. ConnWorks(c) \/ NextTable(c) \/ Stops(c) \/ ConnFinishes(c) \/ ConnContinues(c)
  BY <1>1, ConnSteps
<1>4. HelperInv' /\ LoopTypes'
  BY <1>1, <1>2, LoopKept
<1>5. ReaderTypes' /\ PosInv' /\ SeekInv' /\ SubsetInv'
  BY <1>1, <1>2, ReadersKept
<1>6. InputTypes' /\ ConnTypes' /\ FileTypes'
  BY <1>1, <1>2, <1>3, ConnTypeSteps
<1>7. TypeOK'
  <2>1. (TypeOK <=> InputTypes /\ ConnTypes /\ FileTypes /\ LoopTypes /\ ReaderTypes)'
    BY TypeParts, PTL
  <2> QED
    BY <1>4, <1>5, <1>6, <2>1
<1>8. ConnInv'
  BY <1>1, <1>2, <1>3, ConnInvSteps
<1>9. SkipInv'
  BY <1>1, <1>2, <1>3, SkipInvSteps
<1>10. HardFailed' <=> HardFailed
  <2>1. oidWithBatchList' = oidWithBatchList
    BY <1>2, Kept DEF ConnFrame, inputVars
  <2> QED
    BY <1>2, <2>1 DEF HardFailed, ConnFrame, loopVars
<1>11. ~HardFailed' => PassedInv'
  BY <1>1, <1>2, <1>3, <1>10, PassedSteps DEF IInv
<1>12. ~HardFailed' => RowsInv'
  BY <1>1, <1>2, <1>3, <1>10, RowsSteps DEF IInv
<1>13. NothingFailed' /\ ~HardFailed' => QueueInv'
  <2> SUFFICES ASSUME NothingFailed', ~HardFailed' PROVE QueueInv'
    OBVIOUS
  <2>1. NothingFailed
    BY <1>1, <1>3, FailureKept
  <2>2. QueueInv
    BY <1>10, <2>1 DEF IInv
  <2> QED
    BY <1>1, <1>2, <1>3, <2>2, QueueSteps
<1> QED
  BY <1>4, <1>5, <1>7, <1>8, <1>9, <1>11, <1>12, <1>13 DEF IInv

LEMMA HelperKeeps ==
  ASSUME IInv, HelperNext
  PROVE  IInv'
<1>1. TypeOK /\ HelperInv /\ PosInv /\ SeekInv /\ SubsetInv /\ ConnInv /\ SkipInv
  BY DEF IInv
<1>2. HelperFrame
  BY <1>1, HelperSteps
<1>3. setup' = setup
  BY <1>2 DEF HelperFrame, inputVars
<1>4. HelperInv' /\ LoopTypes'
  BY <1>1, <1>3, LoopSteps
<1>5. ReaderTypes' /\ PosInv'
  BY <1>1, PosSteps
<1>6. InputTypes' /\ ConnTypes' /\ FileTypes'
  BY <1>1, <1>2, HelperTypeSteps
<1>7. TypeOK'
  <2>1. (TypeOK <=> InputTypes /\ ConnTypes /\ FileTypes /\ LoopTypes /\ ReaderTypes)'
    BY TypeParts, PTL
  <2> QED
    BY <1>4, <1>5, <1>6, <2>1
<1>8. SeekInv' /\ SubsetInv'
  BY <1>1, SeekSteps, SubsetSteps
<1>9. ConnInv' /\ SkipInv'
  BY <1>1, <1>2, ConnInvKept, SkipInvKept
<1>10. HardFailed => HardFailed'
  BY <1>1, <1>3, HardStays
<1>11. ~HardFailed' => PassedInv'
  BY <1>1, <1>2, <1>10, PassedKept DEF IInv
<1>12. ~HardFailed' => RowsInv'
  BY <1>1, <1>2, <1>10, RowsKept DEF IInv
<1>13. NothingFailed' /\ ~HardFailed' => QueueInv'
  <2> SUFFICES ASSUME NothingFailed', ~HardFailed' PROVE QueueInv'
    OBVIOUS
  <2>1. NothingFailed
    <3>1. \A c \in Conns : stage[c] = "failed" => stage'[c] = "failed"
      BY <1>2 DEF HelperFrame, StageMoves, InPipe
    <3> QED
      BY <1>2, <3>1 DEF NothingFailed, HelperFrame
  <2>2. QueueInv /\ PassedInv
    BY <1>10, <2>1 DEF IInv
  <2> QED
    BY <1>1, <1>2, <1>10, <2>1, <2>2, QueueKept
<1> QED
  BY <1>4, <1>5, <1>7, <1>8, <1>9, <1>11, <1>12, <1>13 DEF IInv

\* The inductive invariant of the connections and the helper.
THEOREM Inductive == Spec => []IInv
<1>1. Init => IInv
  BY InitTypes, InitHelper, InitConns DEF IInv
<1>2. IInv /\ [Next]_vars => IInv'
  <2> SUFFICES ASSUME IInv, [Next]_vars PROVE IInv'
    OBVIOUS
  <2>1. CASE HelperNext
    BY <2>1, HelperKeeps
  <2>2. CASE \E c \in Conns : Conn(c) \/ CopyFails(c)
    BY <2>2, ConnKeeps
  <2> QED
    BY <2>1, <2>2, StepKinds
<1> QED
  BY <1>1, <1>2, PTL DEF Spec

\* The connections and the helper keep every variable in its type: no index
\* runs off the list of tables or the oid list, no reader past its stream.
THEOREM TypeCorrect == Spec => []TypeOK
<1>1. IInv => TypeOK
  BY DEF IInv
<1> QED
  BY <1>1, Inductive, PTL

\* positionReader, skipOid and the discards of copyTableData: with any tables,
\* batches and failures, each byte written is one of the table it is written
\* for.
THEOREM BytesRight == Spec => []RightBytes
<1>1. IInv => RightBytes
  <2> SUFFICES ASSUME IInv, helperPc = "copy", BatchNum < setup.files, ~Dead, ~Shifted
               PROVE  pos[BatchNum] = StreamStart(BatchNum, Oid) + copied
    BY DEF RightBytes
  <2>1. TypeOK /\ HelperInv /\ SeekInv /\ SubsetInv /\ Looping
    BY DEF IInv, Looping
  <2>2. at \in 1..ListLength /\ setup \in Setups
    BY <2>1, LoopPlace
  <2>3. BatchNum \in BatchNumbers
    BY <2>2, HelperTurn
  <2>4. CASE setup.reader = "subset"
    <3>1. pos[BatchNum] = StreamPlace(BatchNum) + CopiedFrom(BatchNum)
      BY <2>1, <2>3, <2>4 DEF SubsetInv, Dead
    <3>2. ~(BatchNum < BatchNum) /\ skipOid # Oid
      BY <2>1, <2>3, Assumed DEF HelperInv, BatchNumbers
    <3>3. StreamPlace(BatchNum) = StreamStart(BatchNum, Oid)
      BY <3>2 DEF StreamPlace, StreamStart
    <3>4. CopiedFrom(BatchNum) = copied
      BY DEF CopiedFrom
    <3> QED
      BY <3>1, <3>3, <3>4
  <2>5. CASE setup.reader # "subset"
    <3>1. pos[BatchNum] = Start + copied
      BY <2>1, <2>3, <2>5 DEF SeekInv
    <3>2. StreamEnd[setup][BatchNum] = EndByte
      BY <2>2, <2>3, <2>5, WholeStream
    <3> QED
      BY <3>1, <3>2 DEF StreamStart, Start
  <2> QED
    BY <2>4, <2>5
<1> QED
  BY <1>1, Inductive, PTL

\* The pipe a COPY waits for is there: it is within the copy queue, because the
\* helper has passed the table the connection had before.
LEMMA PipeInQueue ==
  ASSUME IInv, NothingFailed, ~HardFailed, NEW c \in Conns, stage[c] = "test"
  PROVE  pipe[Pipe(c)] = "fifo"
<1>1. TypeOK /\ HelperInv /\ ConnInv /\ PassedInv /\ QueueInv /\ setup \in Setups
  BY DEF IInv, TypeOK
<1>2. Busy(c) /\ stage[c] \notin {"eof", "failed"}
  BY DEF Busy
<1> DEFINE p == Turn(c)
<1>3. p[1] = entry[c] /\ p[2] = batch[c] /\ PipeOf(p) = Pipe(c)
  BY DEF Turn, PipeOf, Pipe, Entry
<1>4. /\ p \in Turns /\ at <= Place(p) /\ at \in 1..ListLength
      /\ Place(p) \in at..ListLength /\ Place(p) \in 1..ListLength
  BY <1>1, <1>2, Waiting
<1>5. Owner(p[1]) = c
  BY <1>1, <1>2, <1>3, TurnTaken
<1> HIDE DEF p
<1>6. ASSUME NEW q \in Turns, q[1] + NumConns = p[1] PROVE Place(q) < at
  <2>1. q[1] \in Nat \ {0} /\ NumConns \in Nat \ {0}
    <3>1. q[1] \in DOMAIN Entries
      BY <1>1, TurnFacts
    <3> QED
      BY <3>1, Assumed
  <2>2. Owner(q[1]) = c
    BY <1>5, <1>6, <2>1, Owners
  <2>3. q[1] < entry[c]
    BY <1>3, <1>6, <2>1
  <2>4. Beyond(q)
    BY <2>2, <2>3 DEF Beyond
  <2> QED
    BY <1>1, <2>4 DEF QueueInv
<1>7. Place(p) < at + copyQueue
  BY <1>1, <1>4, <1>6, QueueReaches
<1>8. Looping
  <2>1. ListLength \in Nat
    BY <1>1, ListPlaces
  <2>2. helperPc \notin {"failed", "error", "cleanup", "gone"}
    BY <1>4, <2>1 DEF HardFailed, ListLength
  <2> QED
    BY <1>1, <2>2 DEF TypeOK, Looping
<1>9. oidWithBatchList[Place(p)] = Pipe(c)
  BY <1>1, <1>3, <1>4, ListPlaces
<1> QED
  BY <1>1, <1>4, <1>7, <1>8, <1>9 DEF QueueInv

\* createPipe ahead of the loop, and the skip files: any number of connections
\* finds its pipes in time, and a COPY that fails harms no other table.
THEOREM FailuresStayLocal == Spec => []FailuresContained
<1>1. IInv => FailuresContained
  <2> SUFFICES ASSUME IInv PROVE FailuresContained
    OBVIOUS
  <2>1. PipesInTime
    BY PipeInQueue DEF PipesInTime
  <2>2. ~HardFailed => \A t \in Restored : /\ status[t] # "agentFailed"
                                           /\ status[t] = "short" => t \in hit
    BY DEF IInv, PassedInv, RowsInv
  <2> QED
    BY <2>1, <2>2 DEF FailuresContained
<1> QED
  BY <1>1, Inductive, PTL

\* restoreDataFromTimestamp and CheckRowsRestored: when every connection is
\* through and none reports an error, no table of any connection was left out.
THEOREM RestoredAll == Spec => []AllRestored
<1>1. IInv => AllRestored
  <2> SUFFICES ASSUME IInv, AllDone, \A t \in Restored : status[t] \notin Bad,
                      NEW t \in Restored
               PROVE  rows[t] = Expected(t)
    BY DEF AllRestored
  <2>1. TypeOK /\ ConnInv
    BY DEF IInv
  <2>2. PICK i \in DOMAIN Entries : t = Entries[i]
    BY DEF Restored
  <2>3. i \in Nat \ {0} /\ i \in 1..EntryCount /\ EntryCount \in Nat
    BY Assumed
  <2>4. Owner(i) \in Conns
    BY <2>3, Owners
  <2>5. entry[Owner(i)] > EntryCount /\ entry[Owner(i)] \in Nat
    <3>1. ~cancelled
      BY <2>1 DEF ConnInv
    <3>2. entry[Owner(i)] \in Nat
      BY <2>1, <2>4, Assumed DEF TypeOK
    <3> QED
      BY <2>1, <2>4, <3>1, <3>2 DEF ConnInv, AllDone
  <2>6. status[t] # "todo"
    <3>1. ~(entry[Owner(i)] <= i)
      BY <2>3, <2>5
    <3> QED
      BY <2>1, <2>2, <3>1 DEF ConnInv
  <2>7. status[t] = "restored"
    BY <2>1, <2>6 DEF TypeOK, Bad
  <2> QED
    BY <2>1, <2>7 DEF ConnInv
<1> QED
  BY <1>1, Inductive, PTL
=============================================================================
