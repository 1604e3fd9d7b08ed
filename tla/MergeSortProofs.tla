-------------------------- MODULE MergeSortProofs --------------------------
(***************************************************************************)
(* msort() sorts every list and keeps its items, dropping the repeats of a *)
(* sorted list drops nothing else, and two equal neighbours in the list of *)
(* all names mean what the daemon takes them to mean, for all lists and    *)
(* names.                                                                  *)
(***************************************************************************)
EXTENDS MergeSort, Induction, SequenceTheorems, FiniteSetTheorems, TLAPS

(* The places of v in s are finitely many.                                 *)
Places(v, s) == {i \in DOMAIN s : s[i] = v}

LEMMA PlacesFinite ==
  ASSUME NEW S, NEW s \in Seq(S), NEW v
  PROVE  /\ IsFiniteSet(Places(v, s)) /\ Times(v, s) = Cardinality(Places(v, s))
         /\ Times(v, s) \in Nat /\ DOMAIN s = 1..Len(s) /\ Len(s) \in Nat
<1>1. DOMAIN s = 1..Len(s) /\ Len(s) \in Nat
  BY LenProperties
<1>2. IsFiniteSet(1..Len(s))
  BY <1>1, FS_Interval
<1>3. Places(v, s) \in SUBSET (1..Len(s))
  BY <1>1 DEF Places
<1>4. IsFiniteSet(Places(v, s))
  BY <1>2, <1>3, FS_Subset
<1>5. Cardinality(Places(v, s)) \in Nat
  BY <1>4, FS_CardinalityType
<1>6. QED
  BY <1>1, <1>4, <1>5 DEF Times, Places

(* No place, one place, two places.                                        *)
LEMMA TimesNone ==
  ASSUME NEW S, NEW s \in Seq(S), NEW v
  PROVE  Times(v, s) >= 1 <=> \E i \in 1..Len(s) : s[i] = v
<1>1. IsFiniteSet(Places(v, s)) /\ Times(v, s) = Cardinality(Places(v, s)) /\ Times(v, s) \in Nat
  BY PlacesFinite
<1>2. Cardinality(Places(v, s)) = 0 <=> Places(v, s) = {}
  BY <1>1, FS_EmptySet
<1>3. DOMAIN s = 1..Len(s)
  BY PlacesFinite
<1>4. QED
  BY <1>1, <1>2, <1>3 DEF Places

LEMMA TimesTwice ==
  ASSUME NEW S, NEW s \in Seq(S), NEW v
  PROVE  Times(v, s) >= 2 <=> \E i, j \in 1..Len(s) : i < j /\ s[i] = v /\ s[j] = v
<1> DEFINE P == Places(v, s)
<1>1. IsFiniteSet(P) /\ Times(v, s) = Cardinality(P) /\ Times(v, s) \in Nat
  BY PlacesFinite
<1>2. P = {i \in 1..Len(s) : s[i] = v} /\ Len(s) \in Nat
  BY PlacesFinite DEF Places
<1> HIDE DEF P
<1>3. CASE P = {}
  <2>1. Times(v, s) = 0
    BY <1>1, <1>3, FS_EmptySet
  <2>2. QED
    BY <1>2, <1>3, <2>1
<1>4. CASE P # {}
  <2>1. PICK a \in P : TRUE
    BY <1>4
  <2>2. IsFiniteSet(P \ {a}) /\ Cardinality(P \ {a}) = Cardinality(P) - 1
    BY <1>1, <2>1, FS_RemoveElement
  <2>3. Cardinality(P \ {a}) = 0 <=> P \ {a} = {}
    BY <2>2, FS_EmptySet
  <2>4. Cardinality(P \ {a}) \in Nat
    BY <2>2, FS_CardinalityType
  <2>5. Times(v, s) >= 2 <=> \E b \in P : b # a
    BY <1>1, <2>2, <2>3, <2>4
  <2>6. (\E b \in P : b # a) <=> \E i, j \in P : i < j
    <3>1. \A i \in P : i \in Nat
      BY <1>2
    <3>2. \A i, j \in P : i # j => i < j \/ j < i
      BY <3>1
    <3>3. \A i, j \in P : i < j => i # j
      BY <3>1
    <3>4. QED
      BY <2>1, <3>2, <3>3
  <2>7. QED
    BY <1>2, <2>5, <2>6
<1>5. QED
  BY <1>3, <1>4

(* One item more.                                                          *)
LEMMA TimesAppend ==
  ASSUME NEW S, NEW s \in Seq(S), NEW x \in S, NEW v
  PROVE  Times(v, Append(s, x)) = IF x = v THEN Times(v, s) + 1 ELSE Times(v, s)
<1> DEFINE t == Append(s, x)
           n == Len(s)
<1>1. /\ t \in Seq(S) /\ Len(t) = n + 1 /\ t[n + 1] = x
      /\ \A i \in 1..n : t[i] = s[i]
  BY AppendProperties
<1>2. /\ IsFiniteSet(Places(v, s)) /\ Times(v, s) = Cardinality(Places(v, s))
      /\ DOMAIN s = 1..n /\ n \in Nat /\ Times(v, s) \in Nat
  BY PlacesFinite
<1>3. DOMAIN t = 1..n + 1 /\ Times(v, t) = Cardinality(Places(v, t))
  BY <1>1, PlacesFinite
<1> HIDE DEF t
<1>4. Places(v, t) = Places(v, s) \cup IF x = v THEN {n + 1} ELSE {}
  BY <1>1, <1>2, <1>3 DEF Places
<1>5. n + 1 \notin Places(v, s)
  BY <1>2 DEF Places
<1>6. CASE x = v
  BY <1>2, <1>3, <1>4, <1>5, <1>6, FS_AddElement DEF t
<1>7. CASE x # v
  BY <1>2, <1>3, <1>4, <1>7 DEF t
<1>8. QED
  BY <1>6, <1>7

LEMMA TimesNothing == \A v : Times(v, <<>>) = 0
<1>1. \A v : Places(v, <<>>) = {}
  BY DEF Places
<1>2. QED
  BY <1>1, FS_EmptySet DEF Times, Places

(* A beginning that is longer by one item.                                 *)
LEMMA TimesBeginning ==
  ASSUME NEW S, NEW s \in Seq(S), NEW n \in Nat, n < Len(s), NEW v
  PROVE  Times(v, SubSeq(s, 1, n + 1)) =
           IF s[n + 1] = v THEN Times(v, SubSeq(s, 1, n)) + 1 ELSE Times(v, SubSeq(s, 1, n))
<1>1. Len(s) \in Nat /\ \A i \in 1..Len(s) : s[i] \in S
  BY LenProperties, ElementOfSeq
<1>2. SubSeq(s, 1, n) \in Seq(S)
  BY <1>1, SubSeqProperties
<1>3. SubSeq(s, 1, n + 1) = SubSeq(s, 1, n) \o <<s[n + 1]>>
  <2>1. 1 \in 1..Len(s) /\ n + 1 \in 1..Len(s) /\ (n + 1) - 1 = n
    BY <1>1
  <2>2. SubSeq(s, 1, n + 1) = SubSeq(s, 1, (n + 1) - 1) \o <<s[n + 1]>>
    BY <2>1, SubSeqRecursiveSecond
  <2>3. QED
    BY <2>1, <2>2
<1>4. SubSeq(s, 1, n + 1) = Append(SubSeq(s, 1, n), s[n + 1]) /\ s[n + 1] \in S
  BY <1>1, <1>2, <1>3, AppendIsConcat
<1> DEFINE b == SubSeq(s, 1, n)
           x == s[n + 1]
<1>5. b \in Seq(S) /\ x \in S /\ SubSeq(s, 1, n + 1) = Append(b, x)
  BY <1>2, <1>4
<1> HIDE DEF b, x
<1>6. Times(v, Append(b, x)) = IF x = v THEN Times(v, b) + 1 ELSE Times(v, b)
  BY <1>5, TimesAppend
<1>7. QED
  BY <1>5, <1>6 DEF b, x

(* An item occurs in two lists, one behind the other, as often as in both. *)
LEMMA TimesConcat ==
  ASSUME NEW S, NEW s \in Seq(S), NEW t \in Seq(S), NEW v
  PROVE  Times(v, s \o t) = Times(v, s) + Times(v, t)
<1> DEFINE b(n) == SubSeq(t, 1, n)
           T    == {n \in Nat : n <= Len(t) => Times(v, s \o b(n)) = Times(v, s) + Times(v, b(n))}
<1>1. Len(t) \in Nat /\ \A i \in 1..Len(t) : t[i] \in S
  BY LenProperties, ElementOfSeq
<1>2. Times(v, s) \in Nat
  BY PlacesFinite
<1>3. 0 \in T
  <2>1. b(0) = <<>> /\ s \o <<>> = s
    BY SubSeqEmpty, ConcatEmptySeq
  <2>2. Times(v, <<>>) = 0 /\ Times(v, s) = Times(v, s) + 0
    BY <1>2, TimesNothing
  <2>3. Times(v, s \o b(0)) = Times(v, s) + Times(v, b(0))
    BY <2>1, <2>2
  <2>4. QED
    BY <2>3
<1>4. ASSUME NEW n \in Nat, n \in T PROVE n + 1 \in T
  <2>1. SUFFICES ASSUME n + 1 <= Len(t)
        PROVE  Times(v, s \o b(n + 1)) = Times(v, s) + Times(v, b(n + 1))
    OBVIOUS
  <2>2. b(n) \in Seq(S) /\ n + 1 \in 1..Len(t) /\ 1 \in 1..Len(t) /\ n < Len(t)
    BY <1>1, <2>1, SubSeqProperties
  <2> DEFINE x == t[n + 1]
  <2>3. x \in S /\ b(n + 1) = Append(b(n), x) /\ b(n + 1) = b(n) \o <<x>> /\ <<x>> \in Seq(S)
    <3>1. SubSeq(t, 1, n + 1) = SubSeq(t, 1, (n + 1) - 1) \o <<t[n + 1]>>
      BY <2>2, SubSeqRecursiveSecond
    <3>2. (n + 1) - 1 = n /\ x \in S
      BY <1>1, <2>2
    <3>3. b(n + 1) = b(n) \o <<x>>
      BY <3>1, <3>2
    <3>4. QED
      BY <2>2, <3>2, <3>3, AppendIsConcat
  <2> HIDE DEF b, x
  <2>4. s \o b(n) \in Seq(S)
    BY <2>2, ConcatProperties
  <2>5. s \o b(n + 1) = Append(s \o b(n), x)
    <3>1. s \o (b(n) \o <<x>>) = (s \o b(n)) \o <<x>>
      <4> DEFINE one == <<x>>
                 c   == b(n)
      <4>1. one \in Seq(S) /\ c \in Seq(S)
        BY <2>2, <2>3
      <4> HIDE DEF one, c
      <4>2. s \o (c \o one) = (s \o c) \o one
        BY <4>1, ConcatAssociative
      <4>3. QED
        BY <4>2 DEF one, c
    <3>2. QED
      BY <2>3, <2>4, <3>1, AppendIsConcat
  <2>6. /\ Times(v, Append(s \o b(n), x)) =
             IF x = v THEN Times(v, s \o b(n)) + 1 ELSE Times(v, s \o b(n))
        /\ Times(v, Append(b(n), x)) = IF x = v THEN Times(v, b(n)) + 1 ELSE Times(v, b(n))
    BY <2>2, <2>3, <2>4, TimesAppend
  <2>7. Times(v, b(n)) \in Nat /\ Times(v, s \o b(n)) = Times(v, s) + Times(v, b(n))
    BY <1>4, <2>2, PlacesFinite
  <2>8. /\ Times(v, s \o b(n + 1)) = Times(v, Append(s \o b(n), x))
        /\ Times(v, b(n + 1)) = Times(v, Append(b(n), x))
    BY <2>3, <2>5
  <2>9. QED
    BY <1>2, <2>6, <2>7, <2>8
<1> HIDE DEF T
<1>5. Nat \subseteq T
  BY <1>3, <1>4, SetInduction
<1>6. b(Len(t)) = t
  BY SubSeqFull
<1>7. Len(t) \in T
  BY <1>1, <1>5
<1>8. Len(t) <= Len(t)
  BY <1>1
<1>9. Times(v, s \o b(Len(t))) = Times(v, s) + Times(v, b(Len(t)))
  BY <1>7, <1>8 DEF T
<1> HIDE DEF b
<1>10. QED
  BY <1>6, <1>9
-----------------------------------------------------------------------------
Start == [index |-> 0, index2 |-> 0, tmp |-> <<>>]

(* The loops of merge() from turn to turn.                                 *)
Merging(p, q, m) ==
  /\ m[0] = Start
  /\ \A n \in 1..Len(p) + Len(q) : m[n] = Copied(p, q, m[n - 1])

LEMMA MergeLoop ==
  ASSUME NEW p \in Seq(Nat), NEW q \in Seq(Nat)
  PROVE  \E m : Merging(p, q, m) /\ Merge(p, q) = m[Len(p) + Len(q)].tmp
<1> DEFINE N       == Len(p) + Len(q)
           D       == 0..N
           Any     == {p[i] : i \in Nat} \cup {q[i] : i \in Nat}
           V       == [index : Nat, index2 : Nat, tmp : Seq(Any)]
           body(f, n) == IF n = 0 THEN Start ELSE Copied(p, q, f[n - 1])
           rank    == [n \in D |-> n]
           step    == [n \in D |-> [f \in [D -> V] |-> body(f, n)]]
           Is(g)   == g = [n \in D |-> IF n = 0 THEN [index |-> 0, index2 |-> 0, tmp |-> <<>>]
                                        ELSE Copied(p, q, g[n - 1])]
           merged  == CHOOSE g : Is(g)
<1>1. N \in Nat /\ \A n \in D : n \in Nat /\ (n # 0 => n - 1 \in D)
  <2>1. Len(p) \in Nat /\ Len(q) \in Nat
    BY LenProperties
  <2>2. QED
    BY <2>1
<1>2. Start \in V
  BY EmptySeq DEF Start
<1>3. ASSUME NEW m \in V PROVE Copied(p, q, m) \in V
  <2>1. m.index + 1 \in Nat /\ m.index2 + 1 \in Nat /\ m.tmp \in Seq(Any)
    BY <1>3
  <2>2. p[m.index + 1] \in Any /\ q[m.index2 + 1] \in Any
    BY <2>1
  <2> HIDE DEF Any
  <2>3. Append(m.tmp, p[m.index + 1]) \in Seq(Any) /\ Append(m.tmp, q[m.index2 + 1]) \in Seq(Any)
    BY <2>1, <2>2, AppendProperties
  <2>4. QED
    BY <1>3, <2>1, <2>3 DEF Copied
<1> HIDE DEF D, V, N
<1>4. Lowers(D, V, rank, step)
  <2>1. rank \in [D -> Nat] /\ \A n \in D : rank[n] = n
    BY <1>1
  <2>2. ASSUME NEW n \in D, NEW f \in [D -> V] PROVE body(f, n) \in V
    <3>1. n # 0 => f[n - 1] \in V
      BY <1>1
    <3>2. QED
      BY <1>2, <1>3, <3>1
  <2>3. ASSUME NEW n \in D, NEW f \in [D -> V], NEW g \in [D -> V],
               \A y \in D : rank[y] < rank[n] => f[y] = g[y]
        PROVE  body(f, n) = body(g, n)
    <3>1. n # 0 => n - 1 \in D /\ rank[n - 1] < rank[n]
      BY <1>1, <2>1
    <3>2. n # 0 => f[n - 1] = g[n - 1]
      BY <2>3, <3>1
    <3>3. QED
      BY <3>2
  <2> HIDE DEF body, rank
  <2>4. QED
    BY <2>1, <2>2, <2>3 DEF Lowers
<1>5. PICK f \in [D -> V] : \A n \in D : f[n] = step[n][f]
  <2> HIDE DEF step, rank
  <2>1. Solvable(D, V, step)
    BY <1>2, <1>4, RecursiveFunction
  <2>2. QED
    BY <2>1 DEF Solvable
<1>6. Is(f)
  BY <1>5 DEF Start
<1>7. Merge(p, q) = merged[N].tmp
  BY DEF Merge, D, N
<1> HIDE DEF Is
<1>8. Is(merged)
  BY <1>6
<1> HIDE DEF merged
<1>9. \A n \in D : merged[n] = IF n = 0 THEN Start ELSE Copied(p, q, merged[n - 1])
  BY <1>8 DEF Is, Start
<1>10. Merging(p, q, merged)
  <2>1. 0 \in D /\ \A n \in 1..N : n \in D /\ n # 0
    BY <1>1 DEF D
  <2>2. QED
    BY <1>9, <2>1 DEF Merging, N
<1>11. QED
  BY <1>7, <1>10 DEF N

Ascends(s) == \A i \in 1..Len(s) - 1 : s[i] <= s[i + 1]

LEMMA AscendsAppend ==
  ASSUME NEW s \in Seq(Nat), NEW x \in Nat, Ascends(s), Len(s) > 0 => s[Len(s)] <= x
  PROVE  Ascends(Append(s, x))
<1> DEFINE n == Len(s)
           u == Append(s, x)
<1>1. Len(u) = n + 1 /\ u[n + 1] = x /\ \A k \in 1..n : u[k] = s[k]
  BY AppendProperties
<1>2. n \in Nat
  BY LenProperties
<1> HIDE DEF u
<1>3. ASSUME NEW k \in 1..n PROVE u[k] <= u[k + 1]
  <2>1. CASE k = n
    <3>1. u[k] = s[n] /\ u[k + 1] = x /\ n > 0
      BY <1>1, <1>2, <2>1
    <3>2. QED
      BY <3>1
  <2>2. CASE k # n
    <3>1. k \in 1..n - 1 /\ k + 1 \in 1..n
      BY <1>2, <2>2
    <3>2. u[k] = s[k] /\ u[k + 1] = s[k + 1]
      BY <1>1, <3>1
    <3>3. s[k] <= s[k + 1]
      BY <3>1 DEF Ascends
    <3>4. QED
      BY <3>2, <3>3
  <2>3. QED
    BY <2>1, <2>2
<1>4. Len(u) - 1 = n
  BY <1>1, <1>2
<1>5. QED
  BY <1>3, <1>4 DEF Ascends, u

(* tmp holds the beginnings of both parts, ...                             *)
Kept(S, p, q, m) ==
  /\ m.index \in 0..Len(p) /\ m.index2 \in 0..Len(q)
  /\ m.tmp \in Seq(S) /\ Len(m.tmp) = m.index + m.index2
  /\ \A v : Times(v, m.tmp) = Times(v, SubSeq(p, 1, m.index)) + Times(v, SubSeq(q, 1, m.index2))

(* ... in order, and nothing that is left is less than what it holds.      *)
Sorted(p, q, m) ==
  /\ Ascends(m.tmp)
  /\ Len(m.tmp) > 0 =>
       /\ m.index < Len(p) => m.tmp[Len(m.tmp)] <= p[m.index + 1]
       /\ m.index2 < Len(q) => m.tmp[Len(m.tmp)] <= q[m.index2 + 1]

LEMMA CopiedKeeps ==
  ASSUME NEW S, NEW p \in Seq(S), NEW q \in Seq(S), NEW m, Kept(S, p, q, m),
         m.index + m.index2 < Len(p) + Len(q)
  PROVE  Kept(S, p, q, Copied(p, q, m))
<1> DEFINE i == m.index
           j == m.index2
           t == m.tmp
           c == Copied(p, q, m)
<1>1. /\ Len(p) \in Nat /\ Len(q) \in Nat /\ i \in 0..Len(p) /\ j \in 0..Len(q)
      /\ t \in Seq(S) /\ Len(t) = i + j
      /\ \A v : Times(v, t) = Times(v, SubSeq(p, 1, i)) + Times(v, SubSeq(q, 1, j))
  BY LenProperties DEF Kept
<1>2. \A v : Times(v, SubSeq(p, 1, i)) \in Nat /\ Times(v, SubSeq(q, 1, j)) \in Nat
  <2>1. /\ \A k \in 1..Len(p) : p[k] \in S
        /\ \A k \in 1..Len(q) : q[k] \in S
    BY ElementOfSeq
  <2>2. SubSeq(p, 1, i) \in Seq(S) /\ SubSeq(q, 1, j) \in Seq(S)
    BY <1>1, <2>1, SubSeqProperties
  <2>3. QED
    BY <2>2, PlacesFinite
<1>3. CASE j = Len(q) \/ (i < Len(p) /\ p[i + 1] < q[j + 1])
  <2> DEFINE x == p[i + 1]
  <2>1. c = [index |-> i + 1, index2 |-> j, tmp |-> Append(t, x)]
    BY <1>3 DEF Copied
  <2>2. i < Len(p)
    BY <1>1, <1>3
  <2>3. i + 1 \in 0..Len(p) /\ i \in Nat /\ x \in S
    BY <1>1, <2>2, ElementOfSeq
  <2>4. \A v : Times(v, SubSeq(p, 1, i + 1)) =
                 IF x = v THEN Times(v, SubSeq(p, 1, i)) + 1 ELSE Times(v, SubSeq(p, 1, i))
    BY <2>2, <2>3, TimesBeginning
  <2> HIDE DEF i, j, t, x, c
  <2>5. \A v : Times(v, Append(t, x)) = IF x = v THEN Times(v, t) + 1 ELSE Times(v, t)
    BY <1>1, <2>3, TimesAppend
  <2>6. Append(t, x) \in Seq(S) /\ Len(Append(t, x)) = (i + 1) + j
    BY <1>1, <2>3, AppendProperties
  <2>7. \A v : Times(v, Append(t, x)) = Times(v, SubSeq(p, 1, i + 1)) + Times(v, SubSeq(q, 1, j))
    BY <1>1, <1>2, <2>4, <2>5
  <2>8. QED
    BY <1>1, <2>1, <2>3, <2>6, <2>7 DEF Kept, c
<1>4. CASE ~(j = Len(q) \/ (i < Len(p) /\ p[i + 1] < q[j + 1]))
  <2> DEFINE x == q[j + 1]
  <2>1. c = [index |-> i, index2 |-> j + 1, tmp |-> Append(t, x)]
    BY <1>4 DEF Copied
  <2>2. j < Len(q)
    BY <1>1, <1>4
  <2>3. j + 1 \in 0..Len(q) /\ j \in Nat /\ x \in S
    BY <1>1, <2>2, ElementOfSeq
  <2>4. \A v : Times(v, SubSeq(q, 1, j + 1)) =
                 IF x = v THEN Times(v, SubSeq(q, 1, j)) + 1 ELSE Times(v, SubSeq(q, 1, j))
    BY <2>2, <2>3, TimesBeginning
  <2> HIDE DEF i, j, t, x, c
  <2>5. \A v : Times(v, Append(t, x)) = IF x = v THEN Times(v, t) + 1 ELSE Times(v, t)
    BY <1>1, <2>3, TimesAppend
  <2>6. Append(t, x) \in Seq(S) /\ Len(Append(t, x)) = i + (j + 1)
    <3>1. Append(t, x) \in Seq(S) /\ Len(Append(t, x)) = Len(t) + 1
      BY <1>1, <2>3, AppendProperties
    <3>2. (i + j) + 1 = i + (j + 1)
      BY <1>1, <2>3
    <3>3. QED
      BY <1>1, <3>1, <3>2
  <2>7. \A v : Times(v, Append(t, x)) = Times(v, SubSeq(p, 1, i)) + Times(v, SubSeq(q, 1, j + 1))
    BY <1>1, <1>2, <2>4, <2>5
  <2>8. QED
    BY <1>1, <2>1, <2>3, <2>6, <2>7 DEF Kept, c
<1>5. QED
  BY <1>3, <1>4

LEMMA CopiedSorts ==
  ASSUME NEW p \in Seq(Nat), NEW q \in Seq(Nat), NEW m, Kept(Nat, p, q, m),
         m.index + m.index2 < Len(p) + Len(q), Ascends(p), Ascends(q), Sorted(p, q, m)
  PROVE  Sorted(p, q, Copied(p, q, m))
<1> DEFINE i == m.index
           j == m.index2
           t == m.tmp
           c == Copied(p, q, m)
           n == Len(t)
<1>1. /\ Len(p) \in Nat /\ Len(q) \in Nat /\ i \in 0..Len(p) /\ j \in 0..Len(q)
      /\ t \in Seq(Nat) /\ n = i + j /\ n \in Nat
      /\ \A k \in 1..Len(p) : p[k] \in Nat
      /\ \A k \in 1..Len(q) : q[k] \in Nat
      /\ \A k \in 1..n : t[k] \in Nat
  BY LenProperties, ElementOfSeq DEF Kept
<1>2. /\ \A k \in 1..n - 1 : t[k] <= t[k + 1]
      /\ n > 0 /\ i < Len(p) => t[n] <= p[i + 1]
      /\ n > 0 /\ j < Len(q) => t[n] <= q[j + 1]
  BY DEF Sorted, Ascends
<1> HIDE DEF i, j, t, n
<1>3. ASSUME NEW x \in Nat, n > 0 => t[n] <= x
      PROVE  /\ Ascends(Append(t, x)) /\ Len(Append(t, x)) = n + 1
             /\ Append(t, x)[n + 1] = x
  <2>1. Ascends(t)
    BY <1>2 DEF Ascends, n
  <2>2. QED
    BY <1>1, <1>3, <2>1, AscendsAppend, AppendProperties DEF n
<1>4. CASE j = Len(q) \/ (i < Len(p) /\ p[i + 1] < q[j + 1])
  <2>1. c = [index |-> i + 1, index2 |-> j, tmp |-> Append(t, p[i + 1])]
    BY <1>4 DEF Copied, i, j, t, c
  <2>2. i < Len(p) /\ p[i + 1] \in Nat
    <3>1. i + j < Len(p) + Len(q)
      BY DEF i, j
    <3>2. i < Len(p)
      BY <1>1, <1>4, <3>1
    <3>3. i + 1 \in 1..Len(p)
      BY <1>1, <3>2
    <3>4. QED
      BY <1>1, <3>2, <3>3
  <2>3. /\ i + 1 < Len(p) => p[i + 1] <= p[(i + 1) + 1]
        /\ j < Len(q) => p[i + 1] <= q[j + 1]
    <3>1. i + 1 < Len(p) => i + 1 \in 1..Len(p) - 1
      BY <1>1
    <3>2. i + 1 < Len(p) => p[i + 1] <= p[(i + 1) + 1]
      BY <3>1 DEF Ascends
    <3>3. j < Len(q) => j + 1 \in 1..Len(q)
      BY <1>1
    <3>4. j < Len(q) => p[i + 1] <= q[j + 1]
      BY <1>1, <1>4, <2>2, <3>3
    <3>5. QED
      BY <3>2, <3>4
  <2> HIDE DEF c
  <2>4. QED
    BY <1>1, <1>2, <1>3, <2>1, <2>2, <2>3 DEF Sorted, c, n
<1>5. CASE ~(j = Len(q) \/ (i < Len(p) /\ p[i + 1] < q[j + 1]))
  <2>1. c = [index |-> i, index2 |-> j + 1, tmp |-> Append(t, q[j + 1])]
    BY <1>5 DEF Copied, i, j, t, c
  <2>2. j < Len(q) /\ q[j + 1] \in Nat
    <3>1. i + j < Len(p) + Len(q)
      BY DEF i, j
    <3>2. j < Len(q)
      BY <1>1, <1>5, <3>1
    <3>3. j + 1 \in 1..Len(q)
      BY <1>1, <3>2
    <3>4. QED
      BY <1>1, <3>2, <3>3
  <2>3. /\ j + 1 < Len(q) => q[j + 1] <= q[(j + 1) + 1]
        /\ i < Len(p) => q[j + 1] <= p[i + 1]
    <3>1. j + 1 < Len(q) => j + 1 \in 1..Len(q) - 1
      BY <1>1
    <3>2. j + 1 < Len(q) => q[j + 1] <= q[(j + 1) + 1]
      BY <3>1 DEF Ascends
    <3>3. i < Len(p) => i + 1 \in 1..Len(p)
      BY <1>1
    <3>4. i < Len(p) => q[j + 1] <= p[i + 1]
      BY <1>1, <1>5, <2>2, <3>3
    <3>5. QED
      BY <3>2, <3>4
  <2> HIDE DEF c
  <2>4. QED
    BY <1>1, <1>2, <1>3, <2>1, <2>2, <2>3 DEF Sorted, c, n
<1>6. QED
  BY <1>4, <1>5

(* merge() keeps all items of two lists, ...                               *)
LEMMA MergeKeeps ==
  ASSUME NEW S, S \subseteq Nat, NEW p \in Seq(S), NEW q \in Seq(S)
  PROVE  /\ Merge(p, q) \in Seq(S) /\ Len(Merge(p, q)) = Len(p) + Len(q)
         /\ \A v : Times(v, Merge(p, q)) = Times(v, p) + Times(v, q)
         /\ Ascends(p) /\ Ascends(q) => Ascends(Merge(p, q))
<1> DEFINE N == Len(p) + Len(q)
<1>1. p \in Seq(Nat) /\ q \in Seq(Nat)
  BY SeqMonotonic
<1>2. Len(p) \in Nat /\ Len(q) \in Nat /\ N \in Nat
  BY LenProperties
<1>3. PICK m : Merging(p, q, m) /\ Merge(p, q) = m[N].tmp
  BY <1>1, MergeLoop
<1>4. m[0] = Start /\ \A n \in 1..N : m[n] = Copied(p, q, m[n - 1])
  BY <1>3 DEF Merging
<1> DEFINE Up   == Ascends(p) /\ Ascends(q)
           T    == {n \in Nat : n <= N => /\ Kept(S, p, q, m[n]) /\ m[n].index + m[n].index2 = n
                                          /\ Up => Sorted(p, q, m[n])}
<1>5. 0 \in T
  <2>1. m[0].index = 0 /\ m[0].index2 = 0 /\ m[0].tmp = <<>>
    BY <1>4 DEF Start
  <2>2. /\ SubSeq(p, 1, 0) = <<>> /\ SubSeq(q, 1, 0) = <<>>
        /\ <<>> \in Seq(S) /\ Len(<<>>) = 0
    BY SubSeqEmpty, EmptySeq
  <2>3. Kept(S, p, q, m[0])
    <3>1. \A v : Times(v, m[0].tmp) =
                   Times(v, SubSeq(p, 1, m[0].index)) + Times(v, SubSeq(q, 1, m[0].index2))
      <4>1. \A v : Times(v, <<>>) = Times(v, <<>>) + Times(v, <<>>)
        BY TimesNothing
      <4>2. QED
        BY <2>1, <2>2, <4>1
    <3>2. QED
      BY <1>2, <2>1, <2>2, <3>1 DEF Kept
  <2>4. Sorted(p, q, m[0])
    BY <2>1, <2>2 DEF Sorted, Ascends
  <2>5. QED
    BY <2>1, <2>3, <2>4
<1>6. ASSUME NEW n \in Nat, n \in T PROVE n + 1 \in T
  <2>1. SUFFICES ASSUME n + 1 <= N
        PROVE  /\ Kept(S, p, q, m[n + 1]) /\ m[n + 1].index + m[n + 1].index2 = n + 1
               /\ Up => Sorted(p, q, m[n + 1])
    OBVIOUS
  <2>2. m[n + 1] = Copied(p, q, m[n])
    <3>1. n + 1 \in 1..N /\ (n + 1) - 1 = n
      BY <1>2, <2>1
    <3>2. QED
      BY <1>4, <3>1
  <2>3. /\ Kept(S, p, q, m[n]) /\ m[n].index + m[n].index2 = n /\ n < N
        /\ Up => Sorted(p, q, m[n])
    BY <1>2, <1>6, <2>1
  <2>4. Kept(S, p, q, m[n + 1])
    BY <2>2, <2>3, CopiedKeeps
  <2>5. m[n + 1].index + m[n + 1].index2 = n + 1
    <3>1. /\ m[n].index \in Nat /\ m[n].index2 \in Nat
          /\ \/ m[n + 1].index = m[n].index + 1 /\ m[n + 1].index2 = m[n].index2
             \/ m[n + 1].index = m[n].index /\ m[n + 1].index2 = m[n].index2 + 1
      BY <2>2, <2>3 DEF Copied, Kept
    <3> DEFINE i == m[n].index
               j == m[n].index2
    <3>2. i \in Nat /\ j \in Nat /\ i + j = n
      BY <2>3, <3>1
    <3>3. \/ m[n + 1].index = i + 1 /\ m[n + 1].index2 = j
          \/ m[n + 1].index = i /\ m[n + 1].index2 = j + 1
      BY <3>1
    <3> HIDE DEF i, j
    <3>4. QED
      BY <3>2, <3>3
  <2>6. ASSUME Up PROVE Sorted(p, q, m[n + 1])
    <3>1. Kept(Nat, p, q, m[n])
      <4>1. m[n].tmp \in Seq(Nat)
        BY <2>3, SeqMonotonic DEF Kept
      <4>2. QED
        BY <2>3, <4>1 DEF Kept
    <3>2. QED
      BY <1>1, <2>2, <2>3, <2>6, <3>1, CopiedSorts
  <2>7. QED
    BY <2>4, <2>5, <2>6
<1> HIDE DEF T
<1>7. Nat \subseteq T
  BY <1>5, <1>6, SetInduction
<1>8. /\ Kept(S, p, q, m[N]) /\ m[N].index + m[N].index2 = N
      /\ Up => Sorted(p, q, m[N])
  <2>1. N \in T /\ N <= N
    BY <1>2, <1>7
  <2>2. QED
    BY <2>1 DEF T
<1>9. m[N].index = Len(p) /\ m[N].index2 = Len(q)
  BY <1>2, <1>8 DEF Kept
<1>10. SubSeq(p, 1, Len(p)) = p /\ SubSeq(q, 1, Len(q)) = q
  BY SubSeqFull
<1>11. QED
  BY <1>3, <1>8, <1>9, <1>10 DEF Kept, Sorted

(* The two halves of a list that has more than one item.                   *)
Half(s)  == Len(s) \div 2
Left(s)  == SubSeq(s, 1, Half(s))
Right(s) == SubSeq(s, Half(s) + 1, Len(s))

LEMMA Halves ==
  ASSUME NEW S, NEW s \in Seq(S)
  PROVE  /\ Left(s) \in Seq(S) /\ Right(s) \in Seq(S)
         /\ Len(s) > 1 => /\ Len(Left(s)) < Len(s) /\ Len(Right(s)) < Len(s)
                          /\ Left(s) \o Right(s) = s
<1>1. Len(s) \in Nat /\ \A i \in 1..Len(s) : s[i] \in S
  BY LenProperties, ElementOfSeq
<1>2. Half(s) \in Nat /\ Half(s) <= Len(s) /\ (Len(s) > 1 => 1 <= Half(s) /\ Half(s) < Len(s))
  BY <1>1 DEF Half
<1>3. /\ Left(s) \in Seq(S) /\ Len(Left(s)) = IF 1 <= Half(s) THEN Half(s) - 1 + 1 ELSE 0
  BY <1>1, <1>2, SubSeqProperties DEF Left
<1>4. /\ Right(s) \in Seq(S)
      /\ Len(Right(s)) = IF Half(s) + 1 <= Len(s) THEN Len(s) - (Half(s) + 1) + 1 ELSE 0
  BY <1>1, <1>2, SubSeqProperties DEF Right
<1>5. ASSUME Len(s) > 1 PROVE Left(s) \o Right(s) = s
  <2>1. 1 \in 1..Len(s) + 1 /\ Half(s) \in 1 - 1..Len(s) /\ Len(s) \in Half(s)..Len(s)
    BY <1>1, <1>2
  <2>2. SubSeq(s, 1, Half(s)) \o SubSeq(s, Half(s) + 1, Len(s)) = SubSeq(s, 1, Len(s))
    BY <2>1, ConcatAdjacentSubSeq
  <2>3. QED
    BY <2>2, SubSeqFull DEF Left, Right
<1>6. QED
  BY <1>1, <1>2, <1>3, <1>4, <1>5

(* Msort is the function it is defined to be.                              *)
LEMMA MsortIs ==
  \A s \in Seq(Item) :
    Msort[s] = IF Len(s) > 1 THEN Merge(Msort[Left(s)], Msort[Right(s)]) ELSE s
<1> DEFINE D          == Seq(Item)
           body(f, s) == IF Len(s) > 1 THEN Merge(f[Left(s)], f[Right(s)]) ELSE s
           rank       == [s \in D |-> Len(s)]
           step       == [s \in D |-> [f \in [D -> D] |-> body(f, s)]]
           Is(g)      == g = [s \in Seq(Item) |->
                                LET half == Len(s) \div 2
                                IN  IF Len(s) > 1
                                    THEN Merge(g[SubSeq(s, 1, half)], g[SubSeq(s, half + 1, Len(s))])
                                    ELSE s]
<1>1. Item \subseteq Nat /\ <<>> \in D
  BY MergeSortAssumption, EmptySeq DEF MergeSortAssumption
<1>2. \A s \in D : /\ Left(s) \in D /\ Right(s) \in D /\ Len(s) \in Nat
                   /\ Len(s) > 1 => Len(Left(s)) < Len(s) /\ Len(Right(s)) < Len(s)
  BY Halves, LenProperties
<1>3. \A p, q \in D : Merge(p, q) \in D
  BY <1>1, MergeKeeps
<1> HIDE DEF D
<1>4. Lowers(D, D, rank, step)
  <2>1. rank \in [D -> Nat] /\ \A s \in D : rank[s] = Len(s)
    BY <1>2
  <2>2. ASSUME NEW s \in D, NEW f \in [D -> D] PROVE body(f, s) \in D
    <3>1. Left(s) \in D /\ Right(s) \in D
      BY <1>2
    <3>2. f[Left(s)] \in D /\ f[Right(s)] \in D
      BY <3>1
    <3>3. QED
      BY <1>3, <3>2
  <2>3. ASSUME NEW s \in D, NEW f \in [D -> D], NEW g \in [D -> D],
               \A y \in D : rank[y] < rank[s] => f[y] = g[y]
        PROVE  body(f, s) = body(g, s)
    <3>1. Left(s) \in D /\ Right(s) \in D
      BY <1>2
    <3>2. Len(s) > 1 => rank[Left(s)] < rank[s] /\ rank[Right(s)] < rank[s]
      BY <1>2, <2>1, <3>1
    <3> HIDE DEF rank
    <3>3. Len(s) > 1 => f[Left(s)] = g[Left(s)] /\ f[Right(s)] = g[Right(s)]
      BY <2>3, <3>1, <3>2
    <3>4. QED
      BY <3>3
  <2> HIDE DEF body, rank
  <2>4. QED
    BY <2>1, <2>2, <2>3 DEF Lowers
<1>5. PICK f \in [D -> D] : \A s \in D : f[s] = step[s][f]
  <2> HIDE DEF step, rank
  <2>1. Solvable(D, D, step)
    BY <1>1, <1>4, RecursiveFunction
  <2>2. QED
    BY <2>1 DEF Solvable
<1>6. \A s \in D : f[s] = body(f, s)
  BY <1>5
<1>7. Is(f)
  BY <1>6 DEF D, Half, Left, Right
<1>8. Msort = CHOOSE g : Is(g)
  BY DEF Msort
<1> HIDE DEF Is
<1>9. Is(Msort)
  BY <1>7, <1>8
<1>10. QED
  BY <1>9 DEF Is, Half, Left, Right

(* ... and msort() all items of a list, which it sorts.                    *)
Sorts(s) ==
  /\ Msort[s] \in Seq(Item) /\ Ascends(Msort[s])
  /\ \A v : Times(v, Msort[s]) = Times(v, s)

LEMMA MsortSorts == \A s \in Seq(Item) : Sorts(s)
<1> DEFINE T == {n \in Nat : \A s \in Seq(Item) : Len(s) <= n => Sorts(s)}
<1>1. Item \subseteq Nat
  BY MergeSortAssumption DEF MergeSortAssumption
<1>2. ASSUME NEW s \in Seq(Item), Len(s) <= 1 PROVE Sorts(s)
  <2>1. Len(s) \in Nat
    BY LenProperties
  <2>2. Msort[s] = s
    BY <1>2, <2>1, MsortIs
  <2>3. Ascends(s)
    BY <1>2, <2>1 DEF Ascends
  <2>4. QED
    BY <2>2, <2>3 DEF Sorts
<1>3. 0 \in T
  BY <1>2, LenProperties
<1>4. ASSUME NEW n \in Nat, n \in T PROVE n + 1 \in T
  <2>1. SUFFICES ASSUME NEW s \in Seq(Item), Len(s) <= n + 1 PROVE Sorts(s)
    OBVIOUS
  <2>2. CASE Len(s) > 1
    <3>1. /\ Left(s) \in Seq(Item) /\ Right(s) \in Seq(Item) /\ Left(s) \o Right(s) = s
          /\ Len(Left(s)) \in Nat /\ Len(Right(s)) \in Nat /\ Len(s) \in Nat
          /\ Len(Left(s)) < Len(s) /\ Len(Right(s)) < Len(s)
      BY <2>2, Halves, LenProperties
    <3>2. Sorts(Left(s)) /\ Sorts(Right(s))
      BY <1>4, <2>1, <3>1
    <3> DEFINE p == Msort[Left(s)]
               q == Msort[Right(s)]
    <3>3. p \in Seq(Item) /\ q \in Seq(Item) /\ Ascends(p) /\ Ascends(q) /\ Msort[s] = Merge(p, q)
      BY <2>2, <3>2, MsortIs DEF Sorts
    <3> HIDE DEF p, q
    <3>4. /\ Merge(p, q) \in Seq(Item) /\ Ascends(Merge(p, q))
          /\ \A v : Times(v, Merge(p, q)) = Times(v, p) + Times(v, q)
      BY <1>1, <3>3, MergeKeeps
    <3>5. \A v : Times(v, p) = Times(v, Left(s)) /\ Times(v, q) = Times(v, Right(s))
      BY <3>2 DEF Sorts, p, q
    <3>6. \A v : Times(v, Left(s) \o Right(s)) = Times(v, Left(s)) + Times(v, Right(s))
      BY <3>1, TimesConcat
    <3>7. QED
      BY <3>1, <3>3, <3>4, <3>5, <3>6 DEF Sorts
  <2>3. CASE ~(Len(s) > 1)
    BY <1>2, <2>3, LenProperties
  <2>4. QED
    BY <2>2, <2>3
<1> HIDE DEF T
<1>5. Nat \subseteq T
  BY <1>3, <1>4, SetInduction
<1>6. ASSUME NEW s \in Seq(Item) PROVE Sorts(s)
  <2>1. Len(s) \in T /\ Len(s) <= Len(s)
    BY <1>5, LenProperties
  <2>2. QED
    BY <2>1 DEF T
<1>7. QED
  BY <1>6
-----------------------------------------------------------------------------
(* What the loop of sighupHandler() keeps of the first i lines.            *)
Keeping(s, k) ==
  \A i \in 0..Len(s) :
    k[i] = IF i = 0 THEN <<>>
           ELSE IF i > 1 /\ k[i - 1][Len(k[i - 1])] = s[i] THEN k[i - 1]
           ELSE Append(k[i - 1], s[i])

LEMMA DistinctLoop ==
  ASSUME NEW S, NEW s \in Seq(S)
  PROVE  \E k : Keeping(s, k) /\ Distinct(s) = k[Len(s)]
<1> DEFINE D == 0..Len(s)
           V == Seq(S)
           body(f, i) == IF i = 0 THEN <<>>
                         ELSE IF i > 1 /\ f[i - 1][Len(f[i - 1])] = s[i] THEN f[i - 1]
                         ELSE Append(f[i - 1], s[i])
           rank  == [i \in D |-> i]
           step  == [i \in D |-> [f \in [D -> V] |-> body(f, i)]]
           Is(g) == g = [i \in 0..Len(s) |->
                           IF i = 0 THEN <<>>
                           ELSE IF i > 1 /\ g[i - 1][Len(g[i - 1])] = s[i] THEN g[i - 1]
                           ELSE Append(g[i - 1], s[i])]
           kept  == CHOOSE g : Is(g)
<1>1. \A i \in D : i \in Nat /\ (i # 0 => i - 1 \in D /\ s[i] \in S)
  <2>1. Len(s) \in Nat /\ \A i \in 1..Len(s) : s[i] \in S
    BY LenProperties, ElementOfSeq
  <2>2. QED
    BY <2>1
<1>2. <<>> \in V /\ \A t \in V, x \in S : Append(t, x) \in V
  BY EmptySeq, AppendProperties
<1> HIDE DEF D, V
<1>3. Lowers(D, V, rank, step)
  <2>1. rank \in [D -> Nat] /\ \A i \in D : rank[i] = i
    BY <1>1
  <2>2. ASSUME NEW i \in D, NEW f \in [D -> V] PROVE body(f, i) \in V
    <3>1. i # 0 => f[i - 1] \in V /\ s[i] \in S
      BY <1>1
    <3>2. QED
      BY <1>2, <3>1
  <2>3. ASSUME NEW i \in D, NEW f \in [D -> V], NEW g \in [D -> V],
               \A y \in D : rank[y] < rank[i] => f[y] = g[y]
        PROVE  body(f, i) = body(g, i)
    <3>1. i # 0 => i - 1 \in D /\ rank[i - 1] < rank[i]
      BY <1>1, <2>1
    <3>2. i # 0 => f[i - 1] = g[i - 1]
      BY <2>3, <3>1
    <3>3. QED
      BY <3>2
  <2> HIDE DEF body, rank
  <2>4. QED
    BY <2>1, <2>2, <2>3 DEF Lowers
<1>4. PICK f \in [D -> V] : \A i \in D : f[i] = step[i][f]
  <2> HIDE DEF step, rank
  <2>1. Solvable(D, V, step)
    BY <1>2, <1>3, RecursiveFunction
  <2>2. QED
    BY <2>1 DEF Solvable
<1>5. \A i \in D : f[i] = body(f, i)
  BY <1>4
<1>6. Is(f)
  BY <1>5 DEF D
<1>7. Distinct(s) = kept[Len(s)]
  BY DEF Distinct
<1> HIDE DEF Is
<1>8. Is(kept)
  BY <1>6
<1> HIDE DEF kept
<1>9. Keeping(s, kept)
  BY <1>8 DEF Is, Keeping
<1>10. QED
  BY <1>7, <1>9

Rises(s) == \A i \in 1..Len(s) - 1 : s[i] < s[i + 1]

Holds(s, n, v) == \E i \in 1..n : s[i] = v

(* Of a sorted list every item is kept, and none twice.                    *)
LEMMA DistinctKeeps ==
  ASSUME NEW S, S \subseteq Nat, NEW s \in Seq(S), Ascends(s)
  PROVE  /\ Distinct(s) \in Seq(S) /\ Rises(Distinct(s))
         /\ \A v : Holds(Distinct(s), Len(Distinct(s)), v) <=> Holds(s, Len(s), v)
<1>1. Len(s) \in Nat /\ \A i \in 1..Len(s) : s[i] \in S
  BY LenProperties, ElementOfSeq
<1>2. PICK k : Keeping(s, k) /\ Distinct(s) = k[Len(s)]
  BY DistinctLoop
<1> DEFINE Good(i) == /\ k[i] \in Seq(S) /\ Rises(k[i])
                      /\ i > 0 => Len(k[i]) > 0 /\ k[i][Len(k[i])] = s[i]
                      /\ \A v : Holds(k[i], Len(k[i]), v) <=> Holds(s, i, v)
           T       == {i \in Nat : i <= Len(s) => Good(i)}
<1>3. 0 \in T
  <2>1. k[0] = <<>>
    BY <1>1, <1>2 DEF Keeping
  <2>2. <<>> \in Seq(S) /\ Len(<<>>) = 0
    BY EmptySeq
  <2>3. Rises(k[0]) /\ \A v : Holds(k[0], Len(k[0]), v) <=> Holds(s, 0, v)
    BY <2>1, <2>2 DEF Rises, Holds
  <2>4. k[0] \in Seq(S) /\ ~(0 > 0)
    BY <2>1, <2>2
  <2>5. Good(0)
    BY <2>3, <2>4
  <2> HIDE DEF Good
  <2>6. QED
    BY <2>5
<1>4. ASSUME NEW i \in Nat, i \in T PROVE i + 1 \in T
  <2>1. SUFFICES ASSUME i + 1 <= Len(s) PROVE Good(i + 1)
    OBVIOUS
  <2> DEFINE t == k[i]
             x == s[i + 1]
  <2>2. i <= Len(s) /\ i + 1 \in 1..Len(s) /\ x \in S /\ x \in Nat
    <3>1. i <= Len(s) /\ i + 1 \in 1..Len(s)
      BY <1>1, <2>1
    <3>2. x \in S
      BY <1>1, <3>1
    <3> HIDE DEF x
    <3>3. QED
      BY <3>1, <3>2
  <2>3. /\ t \in Seq(S) /\ Rises(t)
        /\ i > 0 => Len(t) > 0 /\ t[Len(t)] = s[i]
        /\ \A v : Holds(t, Len(t), v) <=> Holds(s, i, v)
    BY <1>4, <2>2
  <2>4. k[i + 1] = IF i > 0 /\ t[Len(t)] = x THEN t ELSE Append(t, x)
    <3>1. i + 1 \in 0..Len(s) /\ i + 1 # 0 /\ (i + 1) - 1 = i /\ (i + 1 > 1 <=> i > 0)
      BY <1>1, <2>1
    <3>2. QED
      BY <1>2, <3>1 DEF Keeping
  <2>5. i = 0 => Len(t) = 0
    <3>1. ASSUME i = 0, Len(t) # 0 PROVE FALSE
      <4>1. Len(t) \in Nat
        BY <2>3, LenProperties
      <4>2. Holds(t, Len(t), t[1])
        BY <3>1, <4>1 DEF Holds
      <4>3. Holds(s, 0, t[1])
        BY <2>3, <3>1, <4>2
      <4>4. QED
        BY <4>3 DEF Holds
    <3>2. QED
      BY <3>1
  <2>6. \A v : Holds(s, i + 1, v) <=> Holds(s, i, v) \/ v = x
    <3>1. \A j : j \in 1..i + 1 <=> j \in 1..i \/ j = i + 1
      OBVIOUS
    <3>2. QED
      BY <3>1 DEF Holds
  <2> HIDE DEF t, x
  <2>7. CASE i > 0 /\ t[Len(t)] = x
    <3>1. k[i + 1] = t
      BY <2>4, <2>7
    <3>2. Holds(t, Len(t), x)
      <4>1. Len(t) \in Nat /\ Len(t) > 0
        BY <2>3, <2>7, LenProperties
      <4>2. Len(t) \in 1..Len(t)
        BY <4>1
      <4>3. QED
        BY <2>7, <4>2 DEF Holds
    <3>3. \A v : Holds(t, Len(t), v) <=> Holds(s, i + 1, v)
      BY <2>3, <2>6, <3>2
    <3>4. QED
      BY <2>3, <2>7, <3>1, <3>3 DEF x
  <2>8. CASE ~(i > 0 /\ t[Len(t)] = x)
    <3> DEFINE u == Append(t, x)
               n == Len(t)
    <3>1. k[i + 1] = u
      BY <2>4, <2>8
    <3>2. /\ u \in Seq(S) /\ Len(u) = n + 1 /\ u[n + 1] = x
          /\ \A j \in 1..n : u[j] = t[j]
      BY <2>2, <2>3, AppendProperties
    <3>3. n \in Nat /\ \A j \in 1..n : t[j] \in Nat
      BY <2>3, LenProperties, ElementOfSeq
    <3>4. n > 0 => t[n] < x
      <4>1. ASSUME n > 0 PROVE t[n] < x
        <5>1. i > 0 /\ t[n] = s[i]
          BY <2>3, <2>5, <4>1
        <5>2. i \in 1..Len(s) - 1
          BY <1>1, <2>1, <5>1
        <5>3. s[i] <= x /\ t[n] # x
          BY <2>8, <5>1, <5>2 DEF Ascends, x
        <5>4. t[n] \in Nat
          BY <3>3, <4>1
        <5>5. QED
          BY <2>2, <5>1, <5>3, <5>4
      <4>2. QED
        BY <4>1
    <3> HIDE DEF u, n
    <3>5. Rises(u)
      <4>1. ASSUME NEW j \in 1..n PROVE u[j] < u[j + 1]
        <5>1. CASE j = n
          BY <3>2, <3>3, <3>4, <5>1
        <5>2. CASE j # n
          <6>1. j \in 1..n - 1 /\ j + 1 \in 1..n
            BY <3>3, <5>2
          <6>2. t[j] < t[j + 1]
            BY <2>3, <6>1 DEF Rises, n
          <6>3. QED
            BY <3>2, <6>1, <6>2
        <5>3. QED
          BY <5>1, <5>2
      <4>2. Len(u) - 1 = n
        BY <3>2, <3>3
      <4>3. QED
        BY <4>1, <4>2 DEF Rises
    <3>6. \A v : Holds(u, n + 1, v) <=> Holds(t, n, v) \/ v = x
      <4>1. \A j : j \in 1..n + 1 <=> j \in 1..n \/ j = n + 1
        BY <3>3
      <4>2. QED
        BY <3>2, <4>1 DEF Holds
    <3>7. \A v : Holds(u, Len(u), v) <=> Holds(s, i + 1, v)
      BY <2>3, <2>6, <3>2, <3>6 DEF n
    <3>8. Len(u) > 0 /\ u[Len(u)] = s[i + 1]
      BY <3>2, <3>3 DEF x
    <3>9. QED
      BY <3>1, <3>2, <3>5, <3>7, <3>8
  <2>9. QED
    BY <2>7, <2>8
<1> HIDE DEF T
<1>5. Len(s) \in T
  BY <1>1, <1>3, <1>4, SetInduction
<1>6. Good(Len(s))
  BY <1>1, <1>5 DEF T
<1>7. QED
  BY <1>2, <1>6

(* What is sorted is sorted over any distance.                             *)
LEMMA AscendsFar ==
  ASSUME NEW s \in Seq(Nat), Ascends(s), NEW i \in 1..Len(s), NEW j \in 1..Len(s), i <= j
  PROVE  s[i] <= s[j]
<1> DEFINE T == {d \in Nat : i + d <= Len(s) => s[i] <= s[i + d]}
<1>1. Len(s) \in Nat /\ \A k \in 1..Len(s) : s[k] \in Nat
  BY LenProperties, ElementOfSeq
<1>2. 0 \in T
  BY <1>1
<1>3. ASSUME NEW d \in Nat, d \in T PROVE d + 1 \in T
  <2>1. SUFFICES ASSUME i + (d + 1) <= Len(s) PROVE s[i] <= s[i + (d + 1)]
    OBVIOUS
  <2>2. i + d \in 1..Len(s) - 1 /\ i + (d + 1) = (i + d) + 1 /\ (i + d) + 1 \in 1..Len(s)
    BY <1>1, <2>1
  <2>3. s[i] <= s[i + d] /\ s[i + d] <= s[(i + d) + 1]
    BY <1>3, <2>2 DEF Ascends
  <2>4. s[i] \in Nat /\ s[i + d] \in Nat /\ s[(i + d) + 1] \in Nat
    BY <1>1, <2>2
  <2>5. QED
    BY <2>2, <2>3, <2>4
<1> HIDE DEF T
<1>4. j - i \in T
  <2>1. j - i \in Nat
    BY <1>1
  <2>2. QED
    BY <1>2, <1>3, <2>1, SetInduction
<1>5. i + (j - i) = j /\ j <= Len(s)
  BY <1>1
<1>6. QED
  BY <1>4, <1>5 DEF T

(* What rises holds nothing twice.                                         *)
LEMMA RisesOnce ==
  ASSUME NEW s \in Seq(Nat), Rises(s), NEW i \in 1..Len(s), NEW j \in 1..Len(s), i < j
  PROVE  s[i] # s[j]
<1>1. Len(s) \in Nat /\ \A k \in 1..Len(s) : s[k] \in Nat
  BY LenProperties, ElementOfSeq
<1>2. Ascends(s)
  <2>1. ASSUME NEW k \in 1..Len(s) - 1 PROVE s[k] <= s[k + 1]
    <3>1. k \in 1..Len(s) /\ k + 1 \in 1..Len(s) /\ s[k] < s[k + 1]
      BY <1>1 DEF Rises
    <3>2. s[k] \in Nat /\ s[k + 1] \in Nat
      BY <1>1, <3>1
    <3>3. QED
      BY <3>1, <3>2
  <2>2. QED
    BY <2>1 DEF Ascends
<1>3. i + 1 \in 1..Len(s) /\ i + 1 <= j /\ i \in 1..Len(s) - 1
  BY <1>1
<1>4. s[i] < s[i + 1] /\ s[i + 1] <= s[j]
  BY <1>2, <1>3, AscendsFar DEF Rises
<1>5. QED
  BY <1>1, <1>3, <1>4
-----------------------------------------------------------------------------
SortTypeOK ==
  /\ profile \in Seq(Item) /\ present \in Seq(Item)
  /\ distinct \in Seq(Item) /\ all \in Seq(Item)
  /\ turn \in {"load", "gather", "scan", "decided"}

(* A link is listed once, and so is every line of the profile from Load    *)
(* on; the list of all has both, in order.                                 *)
PresentOnce == \A i, j \in 1..Len(present) : present[i] = present[j] => i = j

DistinctGood == Rises(distinct) /\ \A v : Holds(distinct, Len(distinct), v) <=> Holds(profile, Len(profile), v)

AllGood == Ascends(all) /\ \A v : Times(v, all) = Times(v, present) + Times(v, distinct)

FoundGood == found <=> \E i \in 1..Len(all) - 1 : all[i] = all[i + 1]

SortIInv ==
  /\ SortTypeOK /\ PresentOnce
  /\ turn # "load" => DistinctGood
  /\ turn \in {"scan", "decided"} => AllGood
  /\ turn = "decided" => FoundGood

LEMMA SortStart == SortInit => SortIInv
<1> SUFFICES ASSUME SortInit PROVE SortIInv
  OBVIOUS
<1>1. MaxLength \in Nat /\ Item \subseteq Nat
  BY MergeSortAssumption DEF MergeSortAssumption
<1>2. PICK n \in 0..MaxLength : profile \in [1..n -> Item]
  BY DEF SortInit
<1>3. PICK m \in 0..Cardinality(Item) : present \in [1..m -> Item]
  BY DEF SortInit
<1>4. n \in Nat /\ m \in Nat
  BY <1>1
<1>5. profile \in Seq(Item) /\ present \in Seq(Item) /\ <<>> \in Seq(Item)
  BY <1>2, <1>3, <1>4, EmptySeq
<1>6. PresentOnce
  <2>1. DOMAIN present = 1..Len(present)
    BY <1>5, LenProperties
  <2>2. QED
    BY <2>1 DEF SortInit, PresentOnce
<1>7. QED
  BY <1>5, <1>6 DEF SortInit, SortIInv, SortTypeOK

LEMMA SortSteps == SortIInv /\ [SortNext]_sortVars => SortIInv'
<1> SUFFICES ASSUME SortIInv, [SortNext]_sortVars PROVE SortIInv'
  OBVIOUS
<1>1. Item \subseteq Nat /\ SortTypeOK /\ PresentOnce
  BY MergeSortAssumption DEF SortIInv, MergeSortAssumption
<1>2. CASE Load
  <2> DEFINE s == Msort[profile]
  <2>1. s \in Seq(Item) /\ Ascends(s) /\ \A v : Times(v, s) = Times(v, profile)
    BY <1>1, MsortSorts DEF Sorts, SortTypeOK
  <2>2. \A v : Holds(s, Len(s), v) <=> Holds(profile, Len(profile), v)
    <3>1. \A v : /\ Times(v, s) >= 1 <=> Holds(s, Len(s), v)
                 /\ Times(v, profile) >= 1 <=> Holds(profile, Len(profile), v)
      BY <1>1, <2>1, TimesNone DEF Holds, SortTypeOK
    <3>2. QED
      BY <2>1, <3>1
  <2>3. distinct' = Distinct(s) /\ profile' = profile /\ present' = present /\ all' = all /\ turn' = "gather"
    BY <1>2 DEF Load
  <2> HIDE DEF s
  <2>4. /\ Distinct(s) \in Seq(Item) /\ Rises(Distinct(s))
        /\ \A v : Holds(Distinct(s), Len(Distinct(s)), v) <=> Holds(s, Len(s), v)
    BY <1>1, <2>1, DistinctKeeps
  <2>5. DistinctGood'
    BY <2>2, <2>3, <2>4 DEF DistinctGood
  <2>6. SortTypeOK' /\ PresentOnce'
    BY <1>1, <2>3, <2>4 DEF SortTypeOK, PresentOnce
  <2>7. QED
    BY <2>3, <2>5, <2>6 DEF SortIInv
<1>3. CASE Gather
  <2> DEFINE s == present \o distinct
  <2>1. s \in Seq(Item) /\ \A v : Times(v, s) = Times(v, present) + Times(v, distinct)
    BY <1>1, ConcatProperties, TimesConcat DEF SortTypeOK
  <2>2. Msort[s] \in Seq(Item) /\ Ascends(Msort[s]) /\ \A v : Times(v, Msort[s]) = Times(v, s)
    BY <2>1, MsortSorts DEF Sorts
  <2>3. /\ all' = Msort[s] /\ profile' = profile /\ present' = present /\ distinct' = distinct
        /\ turn' = "scan" /\ turn = "gather"
    BY <1>3 DEF Gather
  <2> HIDE DEF s
  <2>4. AllGood'
    BY <2>1, <2>2, <2>3 DEF AllGood
  <2>5. DistinctGood' /\ SortTypeOK' /\ PresentOnce'
    BY <1>1, <2>2, <2>3 DEF SortIInv, DistinctGood, SortTypeOK, PresentOnce
  <2>6. QED
    BY <2>3, <2>4, <2>5 DEF SortIInv
<1>4. CASE Scan
  <2>1. /\ profile' = profile /\ present' = present /\ distinct' = distinct /\ all' = all
        /\ turn = "scan" /\ turn' = "decided"
    BY <1>4 DEF Scan
  <2>2. FoundGood'
    BY <1>4, <2>1 DEF Scan, FoundGood
  <2>3. DistinctGood' /\ AllGood' /\ SortTypeOK' /\ PresentOnce'
    BY <1>1, <2>1 DEF SortIInv, DistinctGood, AllGood, SortTypeOK, PresentOnce
  <2>4. QED
    BY <2>2, <2>3 DEF SortIInv
<1>5. CASE UNCHANGED sortVars
  BY <1>5 DEF sortVars, SortIInv, SortTypeOK, PresentOnce, DistinctGood, AllGood, FoundGood
<1>6. QED
  BY <1>2, <1>3, <1>4, <1>5 DEF SortNext

(* An item of both lists is an item next to its equal, and no other is.    *)
LEMMA EqualNeighbours ==
  ASSUME SortTypeOK, PresentOnce, DistinctGood, AllGood
  PROVE  (\E i \in 1..Len(all) - 1 : all[i] = all[i + 1])
           <=> \E i \in 1..Len(profile), j \in 1..Len(present) : profile[i] = present[j]
<1>1. /\ Item \subseteq Nat /\ all \in Seq(Nat) /\ distinct \in Seq(Nat)
      /\ present \in Seq(Nat) /\ profile \in Seq(Nat)
  BY MergeSortAssumption, SeqMonotonic DEF MergeSortAssumption, SortTypeOK
<1>2. Len(all) \in Nat /\ \A k \in 1..Len(all) : all[k] \in Nat
  BY <1>1, LenProperties, ElementOfSeq
<1>3. \A v : /\ Times(v, present) \in Nat /\ Times(v, distinct) \in Nat
             /\ Times(v, all) = Times(v, present) + Times(v, distinct)
  BY <1>1, PlacesFinite DEF AllGood
<1>4. \A v : ~(Times(v, present) >= 2)
  <2>1. ASSUME NEW v, Times(v, present) >= 2 PROVE FALSE
    <3>1. PICK i, j \in 1..Len(present) : i < j /\ present[i] = v /\ present[j] = v
      BY <1>1, <2>1, TimesTwice
    <3>2. i = j
      BY <3>1 DEF PresentOnce
    <3>3. QED
      BY <3>1, <3>2
  <2>2. QED
    BY <2>1
<1>5. \A v : ~(Times(v, distinct) >= 2)
  <2>1. ASSUME NEW v, Times(v, distinct) >= 2 PROVE FALSE
    <3>1. PICK i, j \in 1..Len(distinct) : i < j /\ distinct[i] = v /\ distinct[j] = v
      BY <1>1, <2>1, TimesTwice
    <3>2. distinct[i] # distinct[j]
      BY <1>1, <3>1, RisesOnce DEF DistinctGood
    <3>3. QED
      BY <3>1, <3>2
  <2>2. QED
    BY <2>1
<1>6. \A v : Times(v, all) >= 2 <=> Times(v, present) >= 1 /\ Times(v, distinct) >= 1
  BY <1>3, <1>4, <1>5
<1>7. \A v : Times(v, present) >= 1 <=> \E j \in 1..Len(present) : present[j] = v
  BY <1>1, TimesNone
<1>8. \A v : Times(v, distinct) >= 1 <=> \E i \in 1..Len(profile) : profile[i] = v
  <2>1. \A v : Times(v, distinct) >= 1 <=> Holds(distinct, Len(distinct), v)
    BY <1>1, TimesNone DEF Holds
  <2>2. QED
    BY <2>1 DEF DistinctGood, Holds
<1>9. (\E i \in 1..Len(all) - 1 : all[i] = all[i + 1]) <=> \E v : Times(v, all) >= 2
  <2>1. ASSUME NEW i \in 1..Len(all) - 1, all[i] = all[i + 1] PROVE \E v : Times(v, all) >= 2
    <3>1. i \in 1..Len(all) /\ i + 1 \in 1..Len(all) /\ i < i + 1
      BY <1>2
    <3>2. Times(all[i], all) >= 2
      BY <1>1, <2>1, <3>1, TimesTwice
    <3>3. QED
      BY <3>2
  <2>2. ASSUME NEW v, Times(v, all) >= 2 PROVE \E i \in 1..Len(all) - 1 : all[i] = all[i + 1]
    <3>1. PICK i, j \in 1..Len(all) : i < j /\ all[i] = v /\ all[j] = v
      BY <1>1, <2>2, TimesTwice
    <3>2. i \in 1..Len(all) - 1 /\ i + 1 \in 1..Len(all) /\ i <= i + 1 /\ i + 1 <= j
      BY <1>2, <3>1
    <3>3. all[i] <= all[i + 1] /\ all[i + 1] <= all[j]
      BY <1>1, <3>1, <3>2, AscendsFar DEF AllGood
    <3>4. all[i] = all[i + 1]
      BY <1>2, <3>1, <3>2, <3>3
    <3>5. QED
      BY <3>2, <3>4
  <2>3. QED
    BY <2>1, <2>2
<1>10. (\E v : Times(v, all) >= 2)
         <=> \E v : (\E j \in 1..Len(present) : present[j] = v)
                    /\ (\E i \in 1..Len(profile) : profile[i] = v)
  BY <1>6, <1>7, <1>8
<1>11. (\E v : (\E j \in 1..Len(present) : present[j] = v)
               /\ (\E i \in 1..Len(profile) : profile[i] = v))
         <=> \E i \in 1..Len(profile), j \in 1..Len(present) : profile[i] = present[j]
  OBVIOUS
<1>12. QED
  BY <1>9, <1>10, <1>11

(* msort() leaves every item of the list where it belongs, once for each   *)
(* time it was there before, whatever is listed and however long.          *)
THEOREM ListIsSorted == SortSpec => []SortedWhole
<1>1. SortIInv => SortedWhole
  BY DEF SortIInv, AllGood, Ascends, SortedWhole
<1>2. QED
  BY <1>1, SortStart, SortSteps, PTL DEF SortSpec

(* Two equal neighbours in the sorted list mean that a device of the       *)
(* profile is there, and are found whenever one is: the daemon need not    *)
(* know which of the two lists a name comes from.                          *)
THEOREM NeighboursAreDevices == SortSpec => []NeighboursDecide
<1>1. SortIInv => NeighboursDecide
  <2> SUFFICES ASSUME SortIInv, turn = "decided"
      PROVE  found <=> \E i \in DOMAIN profile, j \in DOMAIN present : profile[i] = present[j]
    BY DEF NeighboursDecide
  <2>1. DOMAIN profile = 1..Len(profile) /\ DOMAIN present = 1..Len(present)
    BY LenProperties DEF SortIInv, SortTypeOK
  <2>2. QED
    BY <2>1, EqualNeighbours DEF SortIInv, FoundGood
<1>2. QED
  BY <1>1, SortStart, SortSteps, PTL DEF SortSpec
=============================================================================
