----------------------------- MODULE Induction -----------------------------
(***************************************************************************)
(* Induction on the natural numbers for properties and steps that are      *)
(* given as sets and functions.                                            *)
(***************************************************************************)
EXTENDS Integers, WellFoundedInduction, TLAPS

(* A set of natural numbers that is not empty has a least element.         *)
LEMMA LeastElement ==
  ASSUME NEW T, T \subseteq Nat, T # {}
  PROVE  \E n \in T : \A m \in T : n <= m
<1> DEFINE R == OpToRel(<, Nat)
<1>1. IsWellFoundedOn(R, Nat)
  BY NatLessThanWellFounded
<1>2. \A m, n \in Nat : <<m, n>> \in R <=> m < n
  BY DEF OpToRel
<1> HIDE DEF R
<1>3. PICK n \in T : \A m \in T : ~(<<m, n>> \in R)
  BY <1>1, WFMin
<1>4. ASSUME NEW m \in T PROVE n <= m
  <2>1. m \in Nat /\ n \in Nat
    OBVIOUS
  <2>2. ~(m < n)
    BY <1>2, <1>3, <2>1
  <2>3. QED
    BY <2>1, <2>2
<1>5. QED
  BY <1>3, <1>4

(* A set with 0 and the successor of each of its elements has all.         *)
LEMMA SetInduction ==
  ASSUME NEW T, 0 \in T, \A n \in Nat : n \in T => n + 1 \in T
  PROVE  Nat \subseteq T
<1>1. SUFFICES ASSUME NEW k \in Nat, k \notin T PROVE FALSE
  OBVIOUS
<1>2. PICK n \in Nat \ T : \A m \in Nat \ T : n <= m
  BY <1>1, LeastElement
<1>3. n # 0 /\ n - 1 \in Nat
  BY <1>2
<1>4. n - 1 \in T
  BY <1>2, <1>3
<1>5. QED
  BY <1>2, <1>3, <1>4

(* The beginning of the function that starts with a and goes on by step.   *)
Begins(f, n, S, a, step) ==
  /\ f \in [0..n -> S] /\ f[0] = a
  /\ \A i \in 0..n - 1 : f[i + 1] = step[i][f[i]]

LEMMA BeginsAlike ==
  ASSUME NEW S, NEW a \in S, NEW step \in [Nat -> [S -> S]],
         NEW m \in Nat, NEW n \in Nat, m <= n, NEW f, NEW g,
         Begins(f, m, S, a, step), Begins(g, n, S, a, step)
  PROVE  \A i \in 0..m : f[i] = g[i]
<1> DEFINE T == {i \in Nat : i <= m => f[i] = g[i]}
<1>1. 0 \in T
  BY DEF Begins
<1>2. ASSUME NEW i \in Nat, i \in T PROVE i + 1 \in T
  <2>1. SUFFICES ASSUME i + 1 <= m PROVE f[i + 1] = g[i + 1]
    OBVIOUS
  <2>2. i \in 0..m - 1 /\ i \in 0..n - 1 /\ f[i] = g[i]
    BY <1>2, <2>1
  <2>3. QED
    BY <2>2 DEF Begins
<1> HIDE DEF T
<1>3. Nat \subseteq T
  BY <1>1, <1>2, SetInduction
<1> USE DEF T
<1>4. QED
  BY <1>3

LEMMA BeginsExists ==
  ASSUME NEW S, NEW a \in S, NEW step \in [Nat -> [S -> S]]
  PROVE  \A n \in Nat : \E f : Begins(f, n, S, a, step)
<1> DEFINE T == {n \in Nat : \E f : Begins(f, n, S, a, step)}
<1>1. 0 \in T
  <2>1. Begins([i \in 0..0 |-> a], 0, S, a, step)
    BY DEF Begins
  <2>2. QED
    BY <2>1
<1>2. ASSUME NEW n \in Nat, n \in T PROVE n + 1 \in T
  <2>1. PICK f : Begins(f, n, S, a, step)
    BY <1>2
  <2> DEFINE g == [i \in 0..n + 1 |-> IF i <= n THEN f[i] ELSE step[n][f[n]]]
  <2>2. f \in [0..n -> S] /\ f[n] \in S /\ step[n][f[n]] \in S
    BY <2>1 DEF Begins
  <2>3. g \in [0..n + 1 -> S] /\ g[0] = a
    BY <2>1, <2>2 DEF Begins
  <2>4. ASSUME NEW i \in 0..(n + 1) - 1 PROVE g[i + 1] = step[i][g[i]]
    <3>1. CASE i = n
      BY <3>1
    <3>2. CASE i # n
      <4>1. i \in 0..n - 1 /\ g[i] = f[i] /\ g[i + 1] = f[i + 1]
        BY <3>2
      <4>2. QED
        BY <2>1, <4>1 DEF Begins
    <3>3. QED
      BY <3>1, <3>2
  <2>5. Begins(g, n + 1, S, a, step)
    BY <2>3, <2>4 DEF Begins
  <2>6. QED
    BY <2>5
<1> HIDE DEF T
<1>3. Nat \subseteq T
  BY <1>1, <1>2, SetInduction
<1> USE DEF T
<1>4. QED
  BY <1>3

(* There is a function that starts with a and goes on by step.             *)
Continues(S, a, step) ==
  \E f \in [Nat -> S] : f[0] = a /\ \A n \in Nat : f[n + 1] = step[n][f[n]]

LEMMA IteratedFunction ==
  \A S, a, step : a \in S /\ step \in [Nat -> [S -> S]] => Continues(S, a, step)
<1> SUFFICES ASSUME NEW S, NEW a \in S, NEW step \in [Nat -> [S -> S]]
    PROVE  \E f \in [Nat -> S] : f[0] = a /\ \A n \in Nat : f[n + 1] = step[n][f[n]]
  BY DEF Continues
<1> DEFINE h(n) == CHOOSE f : Begins(f, n, S, a, step)
           g    == [n \in Nat |-> h(n)[n]]
<1>1. \A n \in Nat : Begins(h(n), n, S, a, step)
  BY BeginsExists
<1> HIDE DEF h
<1>2. g \in [Nat -> S]
  <2>1. ASSUME NEW n \in Nat PROVE h(n)[n] \in S
    BY <1>1 DEF Begins
  <2>2. QED
    BY <2>1
<1>3. g[0] = a
  BY <1>1 DEF Begins
<1>4. ASSUME NEW n \in Nat PROVE g[n + 1] = step[n][g[n]]
  <2>1. Begins(h(n), n, S, a, step) /\ Begins(h(n + 1), n + 1, S, a, step) /\ n <= n + 1
    BY <1>1
  <2>2. h(n)[n] = h(n + 1)[n]
    BY <2>1, BeginsAlike
  <2>3. h(n + 1)[n + 1] = step[n][h(n + 1)[n]]
    BY <2>1 DEF Begins
  <2>4. QED
    BY <2>2, <2>3
<1>5. QED
  BY <1>2, <1>3, <1>4
-----------------------------------------------------------------------------
(* step gives the value at x from the values where rank is lower.          *)
Lowers(D, V, rank, step) ==
  /\ rank \in [D -> Nat] /\ step \in [D -> [[D -> V] -> V]]
  /\ \A x \in D : \A f, g \in [D -> V] :
       (\A y \in D : rank[y] < rank[x] => f[y] = g[y]) => step[x][f] = step[x][g]

Solvable(D, V, step) == \E f \in [D -> V] : \A x \in D : f[x] = step[x][f]

(* The function that calls itself at lower ranks only is there.            *)
LEMMA RecursiveFunction ==
  \A D, V, v, rank, step : v \in V /\ Lowers(D, V, rank, step) => Solvable(D, V, step)
<1> SUFFICES ASSUME NEW D, NEW V, NEW v \in V, NEW rank, NEW step, Lowers(D, V, rank, step)
    PROVE  Solvable(D, V, step)
  OBVIOUS
<1>1. rank \in [D -> Nat] /\ step \in [D -> [[D -> V] -> V]]
  BY DEF Lowers
<1> DEFINE S    == [D -> V]
           a    == [x \in D |-> v]
           once == [n \in Nat |-> [f \in S |-> [x \in D |-> step[x][f]]]]
<1>2. a \in S /\ once \in [Nat -> [S -> S]]
  BY <1>1
<1>3. Continues(S, a, once)
  <2> HIDE DEF S, a, once
  <2> QED
    BY <1>2, IteratedFunction
<1>4. PICK p \in [Nat -> S] : \A n \in Nat : p[n + 1] = once[n][p[n]]
  <2> HIDE DEF S, a, once
  <2> QED
    BY <1>3 DEF Continues
<1>5. \A n \in Nat : p[n] \in S
  BY <1>4
<1>6. \A n \in Nat, x \in D : p[n + 1][x] = step[x][p[n]]
  BY <1>4, <1>5
(* The n-th approximation is right where rank is below n.                  *)
<1> DEFINE T == {n \in Nat : \A x \in D : rank[x] < n => p[n + 1][x] = p[n][x]}
<1>7. 0 \in T
  BY <1>1
<1>8. ASSUME NEW n \in Nat, n \in T PROVE n + 1 \in T
  <2>1. SUFFICES ASSUME NEW x \in D, rank[x] < n + 1
        PROVE  p[(n + 1) + 1][x] = p[n + 1][x]
    OBVIOUS
  <2>2. \A y \in D : rank[y] < rank[x] => p[n + 1][y] = p[n][y]
    <3>1. ASSUME NEW y \in D, rank[y] < rank[x] PROVE p[n + 1][y] = p[n][y]
      <4>1. rank[y] < n
        BY <1>1, <2>1, <3>1
      <4>2. QED
        BY <1>8, <4>1
    <3>2. QED
      BY <3>1
  <2>3. step[x][p[n + 1]] = step[x][p[n]]
    <3>1. p[n + 1] \in [D -> V] /\ p[n] \in [D -> V]
      BY <1>5
    <3>2. QED
      BY <2>2, <3>1 DEF Lowers
  <2>4. QED
    BY <1>6, <2>3
<1> HIDE DEF T
<1>9. Nat \subseteq T
  BY <1>7, <1>8, SetInduction
<1>10. ASSUME NEW n \in Nat, NEW x \in D, rank[x] < n PROVE p[n + 1][x] = p[n][x]
  BY <1>9, <1>10 DEF T
<1>11. ASSUME NEW x \in D, NEW n \in Nat, rank[x] < n PROVE p[n][x] = p[rank[x] + 1][x]
  <2> DEFINE U == {i \in Nat : p[rank[x] + 1 + i][x] = p[rank[x] + 1][x]}
  <2>1. rank[x] \in Nat /\ 0 \in U
    BY <1>1
  <2>2. ASSUME NEW i \in Nat, i \in U PROVE i + 1 \in U
    <3>1. rank[x] + 1 + i \in Nat /\ rank[x] < rank[x] + 1 + i
      BY <2>1
    <3>2. p[(rank[x] + 1 + i) + 1][x] = p[rank[x] + 1 + i][x]
      BY <1>10, <3>1
    <3>3. (rank[x] + 1 + i) + 1 = rank[x] + 1 + (i + 1)
      BY <2>1
    <3>4. QED
      BY <2>2, <3>2, <3>3
  <2> HIDE DEF U
  <2>3. Nat \subseteq U
    BY <2>1, <2>2, SetInduction
  <2>4. n - (rank[x] + 1) \in Nat /\ rank[x] + 1 + (n - (rank[x] + 1)) = n
    BY <1>11, <2>1
  <2>5. n - (rank[x] + 1) \in U
    BY <2>3, <2>4
  <2>6. QED
    BY <2>4, <2>5 DEF U
<1> DEFINE f == [x \in D |-> p[rank[x] + 1][x]]
<1>12. f \in [D -> V]
  <2>1. ASSUME NEW x \in D PROVE p[rank[x] + 1][x] \in V
    <3>1. p[rank[x] + 1] \in [D -> V]
      BY <1>1, <1>5
    <3>2. QED
      BY <3>1
  <2>2. QED
    BY <2>1
<1>13. ASSUME NEW x \in D PROVE f[x] = step[x][f]
  <2>1. rank[x] \in Nat /\ p[rank[x]] \in [D -> V]
    BY <1>1, <1>5
  <2>2. \A y \in D : rank[y] < rank[x] => f[y] = p[rank[x]][y]
    BY <1>11, <2>1
  <2>3. step[x][f] = step[x][p[rank[x]]]
    <3> HIDE DEF f
    <3> QED
      BY <1>12, <2>1, <2>2 DEF Lowers
  <2>4. QED
    BY <1>6, <2>1, <2>3
<1>14. QED
  <2> HIDE DEF f
  <2> QED
    BY <1>12, <1>13 DEF Solvable
=============================================================================
