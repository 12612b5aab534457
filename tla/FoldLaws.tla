-------------------------------- MODULE FoldLaws --------------------------------
(***************************************************************************)
(* What FoldLeft of the community modules does, for any step: the folds of *)
(* a sequence h pass through values f[0], f[1], ... f[Len(h)], each made   *)
(* of the one before and the next element.  FoldLeft is defined by a       *)
(* recursive function on the sets of indices still to be folded, so that   *)
(* its existence must be shown first, by induction on the length.  The     *)
(* induction is over sets of natural numbers and rests on the              *)
(* well-foundedness of their order.                                        *)
(***************************************************************************)
EXTENDS Integers, SequencesExt, WellFoundedInduction, TLAPS

\* One step of the fold, with a parameter p that stays the same.
CONSTANT Op(_, _, _)
\* What is to hold of the value reached after i elements, with a parameter q.
CONSTANT Inv(_, _, _)

Fold(p, base, h) == FoldLeft(LAMBDA a, e : Op(p, a, e), base, h)

\* Every set of natural numbers that is not empty has a least element.
LEMMA Least ==
  ASSUME NEW T \in SUBSET Nat, T # {}
  PROVE  \E n \in T : \A m \in T : n <= m
<1> DEFINE R == OpToRel(<, Nat)
<1>1. R = {p \in Nat \X Nat : p[1] < p[2]}
  BY DEF OpToRel
<1>2. IsWellFoundedOn(R, Nat)
  BY NatLessThanWellFounded
<1> HIDE DEF R
<1>3. PICK n \in T : \A m \in T : ~(<<m, n>> \in R)
  BY <1>2, WFMin
<1>4. \A m \in T : n <= m
  <2> SUFFICES ASSUME NEW m \in T, m < n PROVE FALSE
    OBVIOUS
  <2>1. <<m, n>> \in R
    BY <1>1
  <2> QED  BY <1>3, <2>1
<1> QED  BY <1>4

\* A set that holds 0 and the successor of each of its elements is Nat.
LEMMA Induction ==
  ASSUME NEW T \in SUBSET Nat, 0 \in T, \A n \in T : n + 1 \in T
  PROVE  T = Nat
<1> SUFFICES ASSUME Nat \ T # {} PROVE FALSE
  OBVIOUS
<1>1. PICK n \in Nat \ T : \A m \in Nat \ T : n <= m
  BY Least
<1>2. n - 1 \in T
  BY <1>1
<1>3. n - 1 + 1 = n
  BY <1>1
<1> QED  BY <1>1, <1>2, <1>3

\* A set of indices has a greatest one; without it the others are smaller.
LEMMA Tops ==
  ASSUME NEW n \in Nat, NEW s \in SUBSET (1..(n + 1)), s # {}
  PROVE  /\ Max(s) \in s
         /\ n + 1 \in s => Max(s) = n + 1
         /\ s \ {Max(s)} \in SUBSET (1..n)
<1> DEFINE T == {m \in Nat : \E i \in s : m = n + 1 - i}
<1>1. PICK m \in T : \A l \in T : m <= l
  <2>1. T # {} /\ T \in SUBSET Nat
    <3>1. PICK i \in s : TRUE
      OBVIOUS
    <3>2. n + 1 - i \in T
      BY <3>1
    <3> QED  BY <3>2
  <2> QED  BY <2>1, Least
<1>2. PICK i \in s : m = n + 1 - i
  OBVIOUS
<1>3. \A j \in s : i >= j
  <2> SUFFICES ASSUME NEW j \in s PROVE i >= j
    OBVIOUS
  <2>1. n + 1 - j \in T
    OBVIOUS
  <2>2. m <= n + 1 - j
    BY <1>1, <2>1
  <2>3. i \in Int /\ j \in Int
    BY <1>2
  <2> QED  BY <1>2, <2>2, <2>3
<1>4. Max(s) \in s /\ \A j \in s : Max(s) >= j
  BY <1>2, <1>3 DEF Max
<1>5. ASSUME n + 1 \in s PROVE Max(s) = n + 1
  <2>1. Max(s) \in 1..(n + 1) /\ Max(s) >= n + 1
    BY <1>4, <1>5
  <2> QED  BY <2>1
<1>6. ASSUME NEW j \in s, j # Max(s) PROVE j \in 1..n
  <2>1. Max(s) \in 1..(n + 1) /\ j \in 1..(n + 1) /\ Max(s) >= j
    BY <1>4
  <2> QED  BY <2>1, <1>6
<1> QED  BY <1>4, <1>5, <1>6

\* The table that FoldLeft chooses: the fold of the elements at the indices in s.
IsTable(g, p, base, h, n) ==
  g = [s \in SUBSET (1..n) |-> IF s = {} THEN base ELSE Op(p, g[s \ {Max(s)}], h[Max(s)])]

\* A table for n elements extends to one for n + 1.
LEMMA TableGrows ==
  ASSUME NEW p, NEW base, NEW h, NEW n \in Nat, NEW g, IsTable(g, p, base, h, n)
  PROVE  \E G : IsTable(G, p, base, h, n + 1)
<1> DEFINE G == [s \in SUBSET (1..(n + 1)) |->
                   IF n + 1 \in s THEN Op(p, g[s \ {n + 1}], h[n + 1]) ELSE g[s]]
           H == [s \in SUBSET (1..(n + 1)) |->
                   IF s = {} THEN base ELSE Op(p, G[s \ {Max(s)}], h[Max(s)])]
<1>1. ASSUME NEW s \in SUBSET (1..(n + 1)), s # {}
      PROVE  G[s] = Op(p, G[s \ {Max(s)}], h[Max(s)])
  <2>1. /\ Max(s) \in s
        /\ n + 1 \in s => Max(s) = n + 1
        /\ s \ {Max(s)} \in SUBSET (1..n)
    BY <1>1, Tops
  <2>2. s \ {Max(s)} \in SUBSET (1..(n + 1)) /\ n + 1 \notin s \ {Max(s)}
    BY <2>1
  <2>3. G[s \ {Max(s)}] = g[s \ {Max(s)}]
    BY <2>2
  <2>4. CASE n + 1 \in s
    BY <2>1, <2>3, <2>4
  <2>5. CASE n + 1 \notin s
    <3>1. s \in SUBSET (1..n) /\ G[s] = g[s]
      BY <2>5
    <3>2. g[s] = Op(p, g[s \ {Max(s)}], h[Max(s)])
      BY <1>1, <3>1 DEF IsTable
    <3> QED  BY <3>1, <3>2, <2>3
  <2> QED  BY <2>4, <2>5
<1>2. G[{}] = base
  <2>1. {} \in SUBSET (1..n) /\ G[{}] = g[{}]
    OBVIOUS
  <2> QED  BY <2>1 DEF IsTable
<1>3. \A s \in SUBSET (1..(n + 1)) : G[s] = H[s]
  BY <1>1, <1>2
<1>4. G = [s \in SUBSET (1..(n + 1)) |-> G[s]] /\ H = [s \in SUBSET (1..(n + 1)) |-> H[s]]
  OBVIOUS
<1>5. G = H
  <2> HIDE DEF G, H
  <2> QED  BY <1>3, <1>4
<1>6. IsTable(G, p, base, h, n + 1)
  BY <1>5 DEF IsTable
<1> QED  BY <1>6

\* There is a table for every length.
LEMMA Tables ==
  ASSUME NEW p, NEW base, NEW h, NEW n \in Nat
  PROVE  \E g : IsTable(g, p, base, h, n)
<1> DEFINE T == {m \in Nat : \E g : IsTable(g, p, base, h, m)}
<1>1. 0 \in T
  <2> DEFINE g == [s \in SUBSET (1..0) |-> base]
  <2>1. \A s \in SUBSET (1..0) : s = {}
    OBVIOUS
  <2>2. IsTable(g, p, base, h, 0)
    BY <2>1 DEF IsTable
  <2> QED  BY <2>2
<1>2. \A m \in T : m + 1 \in T
  <2> SUFFICES ASSUME NEW m \in T PROVE m + 1 \in T
    OBVIOUS
  <2>1. m \in Nat /\ \E g : IsTable(g, p, base, h, m)
    OBVIOUS
  <2>2. PICK g : IsTable(g, p, base, h, m)
    BY <2>1
  <2>3. \E G : IsTable(G, p, base, h, m + 1)
    BY <2>1, <2>2, TableGrows
  <2> QED  BY <2>1, <2>3
<1>3. T = Nat
  <2> HIDE DEF T
  <2>1. T \in SUBSET Nat
    BY DEF T
  <2> QED  BY <1>1, <1>2, <2>1, Induction
<1> QED  BY <1>3

\* The values a fold passes through.
IsRun(f, p, base, h, n) ==
  /\ f[0] = base
  /\ \A i \in 1..n : f[i] = Op(p, f[i - 1], h[i])
  /\ Fold(p, base, h) = f[n]

(* A left fold passes through f[0], ... f[n], from its base to its result, *)
(* one element at a time.                                                  *)
THEOREM FoldRuns ==
  ASSUME NEW p, NEW base, NEW h, NEW n \in Nat, DOMAIN h = 1..n
  PROVE  \E f : IsRun(f, p, base, h, n)
<1> DEFINE g == CHOOSE g : g = [s \in SUBSET (1..n) |->
                  IF s = {} THEN base ELSE Op(p, g[s \ {Max(s)}], h[Max(s)])]
           f == [i \in 0..n |-> g[1..i]]
<1>1. IsTable(g, p, base, h, n)
  <2>1. \E G : IsTable(G, p, base, h, n)
    BY Tables
  <2> QED  BY <2>1 DEF IsTable
<1>2. Fold(p, base, h) = g[1..n]
  BY DEF Fold, FoldLeft, MapThenFoldSet
<1> HIDE DEF g
<1>3. f[0] = base
  <2>1. 1..0 = {} /\ {} \in SUBSET (1..n)
    OBVIOUS
  <2>2. f[0] = g[{}]
    BY <2>1
  <2> QED  BY <1>1, <2>1, <2>2 DEF IsTable
<1>4. ASSUME NEW i \in 1..n PROVE f[i] = Op(p, f[i - 1], h[i])
  <2> DEFINE j == i - 1  s == 1..(j + 1)
  <2>1. j \in Nat /\ j + 1 = i /\ s \in SUBSET (1..n) /\ s # {} /\ j + 1 \in s
    OBVIOUS
  <2>2. Max(s) = j + 1
    <3>1. s \in SUBSET (1..(j + 1))
      OBVIOUS
    <3> HIDE DEF j, s
    <3> QED  BY <2>1, <3>1, Tops
  <2>3. s \ {i} = 1..j
    BY <2>1
  <2>4. g[s] = Op(p, g[s \ {Max(s)}], h[Max(s)])
    BY <1>1, <2>1 DEF IsTable
  <2>5. f[i] = g[s] /\ f[i - 1] = g[1..j]
    OBVIOUS
  <2> QED  BY <2>1, <2>2, <2>3, <2>4, <2>5
<1>5. Fold(p, base, h) = f[n]
  BY <1>2
<1> QED  BY <1>3, <1>4, <1>5 DEF IsRun
(* What the base has, and each step carries over, the fold has: induction  *)
(* along the elements.                                                     *)
THEOREM FoldKeeps ==
  ASSUME NEW p, NEW q, NEW base, NEW h, NEW n \in Nat, DOMAIN h = 1..n,
         Inv(q, 0, base),
         \A i \in 1..n : \A a : Inv(q, i - 1, a) => Inv(q, i, Op(p, a, h[i]))
  PROVE  Inv(q, n, Fold(p, base, h))
<1>1. PICK f : IsRun(f, p, base, h, n)
  BY FoldRuns
<1> DEFINE T == {i \in Nat : i <= n => Inv(q, i, f[i])}
<1>2. 0 \in T
  BY <1>1 DEF IsRun
<1>3. \A i \in T : i + 1 \in T
  <2> SUFFICES ASSUME NEW i \in T, i + 1 <= n PROVE Inv(q, i + 1, f[i + 1])
    OBVIOUS
  <2> DEFINE j == i + 1
  <2>1. j \in 1..n /\ j - 1 = i /\ i <= n
    OBVIOUS
  <2>2. Inv(q, i, f[i])
    BY <2>1
  <2>3. f[j] = Op(p, f[j - 1], h[j])
    BY <1>1, <2>1 DEF IsRun
  <2> HIDE DEF j
  <2>4. Inv(q, j, Op(p, f[i], h[j]))
    BY <2>1, <2>2
  <2>5. Inv(q, j, f[j])
    BY <2>1, <2>3, <2>4
  <2> QED  BY <2>5 DEF j
<1>4. T = Nat
  <2> HIDE DEF T
  <2>1. T \in SUBSET Nat
    BY DEF T
  <2> QED  BY <1>2, <1>3, <2>1, Induction
<1> QED  BY <1>1, <1>4 DEF IsRun

\* One more element is one more step.
THEOREM FoldAppends ==
  ASSUME NEW p, NEW base, NEW n \in Nat, NEW h, DOMAIN h = 1..n,
         NEW g, DOMAIN g = 1..(n + 1), \A i \in 1..n : g[i] = h[i]
  PROVE  Fold(p, base, g) = Op(p, Fold(p, base, h), g[n + 1])
<1>1. PICK f : IsRun(f, p, base, h, n)
  BY FoldRuns
<1>2. PICK e : IsRun(e, p, base, g, n + 1)
  <2> DEFINE m == n + 1
  <2>1. m \in Nat /\ DOMAIN g = 1..m
    OBVIOUS
  <2> HIDE DEF m
  <2>2. \E e : IsRun(e, p, base, g, m)
    BY <2>1, FoldRuns
  <2> QED  BY <2>2 DEF m
<1> DEFINE T == {i \in Nat : i <= n => e[i] = f[i]}
<1>3. 0 \in T
  BY <1>1, <1>2 DEF IsRun
<1>4. \A i \in T : i + 1 \in T
  <2> SUFFICES ASSUME NEW i \in T, i + 1 <= n PROVE e[i + 1] = f[i + 1]
    OBVIOUS
  <2> DEFINE j == i + 1
  <2>1. j \in 1..n /\ j \in 1..(n + 1) /\ j - 1 = i /\ i <= n /\ e[i] = f[i]
    OBVIOUS
  <2> HIDE DEF j
  <2>2. f[j] = Op(p, f[j - 1], h[j])
    BY <1>1, <2>1 DEF IsRun
  <2>3. e[j] = Op(p, e[j - 1], g[j])
    BY <1>2, <2>1 DEF IsRun
  <2>4. e[j] = f[j]
    BY <2>1, <2>2, <2>3
  <2> QED  BY <2>4 DEF j
<1>5. T = Nat
  <2> HIDE DEF T
  <2>1. T \in SUBSET Nat
    BY DEF T
  <2> QED  BY <1>3, <1>4, <2>1, Induction
<1>6. e[n] = f[n]
  BY <1>5
<1>7. e[n + 1] = Op(p, e[n], g[n + 1])
  <2> DEFINE m == n + 1
  <2>1. m \in 1..(n + 1) /\ m - 1 = n
    OBVIOUS
  <2> HIDE DEF m
  <2>2. e[m] = Op(p, e[m - 1], g[m])
    BY <1>2, <2>1 DEF IsRun
  <2>3. e[m] = Op(p, e[n], g[m])
    BY <2>1, <2>2
  <2> QED  BY <2>3 DEF m
<1> QED  BY <1>1, <1>2, <1>6, <1>7 DEF IsRun
=============================================================================
