----------------------------- MODULE DevsProofs -----------------------------
(***************************************************************************)
(* What devs() hides and what it returns, for every /etc/fstab, every set  *)
(* of links and names, and every order in which links are read and pulled  *)
(* out.  What the names have to do with the disks is assumed: the kernel   *)
(* gives them.                                                             *)
(***************************************************************************)
EXTENDS Devs, Induction, SequenceTheorems, FiniteSetTheorems, TLAPS

(* The prover does not know that what it reads as a string is one.         *)
Piece == STRING \cup {"../../"}

(* The first mark, or the end.                                             *)
LEMMA FirstAtFirst ==
  ASSUME NEW line \in Seq(Piece), NEW marks, NEW i \in 1..(Len(line) + 1)
  PROVE  /\ FirstAt(line, marks, i) \in i..(Len(line) + 1)
         /\ FirstAt(line, marks, i) <= Len(line) => line[FirstAt(line, marks, i)] \in marks
         /\ \A k \in i..(FirstAt(line, marks, i) - 1) : line[k] \notin marks
<1> DEFINE T == {j \in i..(Len(line) + 1) : j = Len(line) + 1 \/ line[j] \in marks}
<1>1. Len(line) \in Nat
  BY LenProperties
<1>2. T \subseteq Nat /\ Len(line) + 1 \in T
  BY <1>1
<1>3. PICK j \in T : \A k \in T : j <= k
  BY <1>2, LeastElement
<1>4. /\ j \in i..(Len(line) + 1) /\ (j = Len(line) + 1 \/ line[j] \in marks)
      /\ \A k \in i..(j - 1) : line[k] \notin marks
  <2>1. j \in i..(Len(line) + 1) /\ (j = Len(line) + 1 \/ line[j] \in marks)
    OBVIOUS
  <2>2. ASSUME NEW k \in i..(j - 1), line[k] \in marks PROVE FALSE
    <3>1. k \in T
      BY <1>1, <2>1, <2>2
    <3>2. k \in Int /\ j \in Int /\ k < j
      BY <1>1, <2>1
    <3>3. QED
      BY <1>3, <3>1, <3>2
  <2>3. QED
    BY <2>1, <2>2
<1> HIDE DEF T
<1>5. /\ FirstAt(line, marks, i) \in i..(Len(line) + 1)
      /\ FirstAt(line, marks, i) = Len(line) + 1 \/ line[FirstAt(line, marks, i)] \in marks
      /\ \A k \in i..(FirstAt(line, marks, i) - 1) : line[k] \notin marks
  BY <1>4 DEF FirstAt
<1>6. QED
  BY <1>1, <1>5

(* Where strstr() finds a pattern, the text has its pieces.                *)
LEMMA WithinAt ==
  ASSUME NEW p \in Seq(Piece), NEW t \in Seq(Piece)
  PROVE  Within(p, t)
           <=> \E i \in 0..(Len(t) - Len(p)) : \A k \in 1..Len(p) : t[i + k] = p[k]
<1>1. Len(p) \in Nat /\ Len(t) \in Nat /\ \A k \in 1..Len(t) : t[k] \in Piece
  BY LenProperties, ElementOfSeq
<1>2. SUFFICES ASSUME NEW i \in 0..(Len(t) - Len(p))
               PROVE  SubSeq(t, i + 1, i + Len(p)) = p <=> \A k \in 1..Len(p) : t[i + k] = p[k]
  BY DEF Within
<1> DEFINE s == SubSeq(t, i + 1, i + Len(p))
<1>3. i \in Int /\ i + 1 \in Int /\ i + Len(p) \in Int /\ \A k \in (i + 1)..(i + Len(p)) : t[k] \in Piece
  BY <1>1
<1>4. /\ s \in Seq(Piece)
      /\ Len(s) = IF i + 1 <= i + Len(p) THEN i + Len(p) - (i + 1) + 1 ELSE 0
      /\ \A k \in 1..(i + Len(p) - (i + 1) + 1) : s[k] = t[i + 1 + k - 1]
  BY <1>3, SubSeqProperties
<1> HIDE DEF s
<1>5. Len(s) = Len(p)
  BY <1>1, <1>3, <1>4
<1>6. \A k \in 1..Len(p) : s[k] = t[i + k]
  <2> TAKE k \in 1..Len(p)
  <2>1. k \in 1..(i + Len(p) - (i + 1) + 1) /\ i + 1 + k - 1 = i + k
    BY <1>1
  <2>2. QED
    BY <1>4, <2>1
<1>7. s = p <=> \A k \in 1..Len(p) : s[k] = p[k]
  BY <1>4, <1>5, SeqEqual
<1>8. s = p <=> \A k \in 1..Len(p) : t[i + k] = p[k]
  BY <1>6, <1>7
<1>9. QED
  BY <1>8 DEF s

(* What is found in a part of the text is found in the text.               *)
LEMMA WithinThrough ==
  ASSUME NEW p \in Seq(Piece), NEW q \in Seq(Piece), NEW t \in Seq(Piece),
         Within(p, q), Within(q, t)
  PROVE  Within(p, t)
<1>1. Len(p) \in Nat /\ Len(q) \in Nat /\ Len(t) \in Nat
  BY LenProperties
<1>2. PICK i \in 0..(Len(q) - Len(p)) : \A k \in 1..Len(p) : q[i + k] = p[k]
  BY WithinAt
<1>3. PICK j \in 0..(Len(t) - Len(q)) : \A k \in 1..Len(q) : t[j + k] = q[k]
  BY WithinAt
<1>4. j + i \in 0..(Len(t) - Len(p))
  BY <1>1
<1>5. ASSUME NEW k \in 1..Len(p) PROVE t[(j + i) + k] = p[k]
  <2>1. i + k \in 1..Len(q) /\ (j + i) + k = j + (i + k)
    BY <1>1
  <2>2. QED
    BY <1>2, <1>3, <2>1
<1>6. QED
  BY <1>4, <1>5, WithinAt

LEMMA WithinItself ==
  ASSUME NEW p \in Seq(Piece)
  PROVE  Within(p, p)
<1>1. Len(p) \in Nat
  BY LenProperties
<1>2. 0 \in 0..(Len(p) - Len(p)) /\ \A k \in 1..Len(p) : p[0 + k] = p[k]
  BY <1>1
<1>3. QED
  BY <1>2, WithinAt

(* A pattern that begins the text, and the pattern before a first digit.   *)
LEMMA PatternPieces ==
  ASSUME NEW name \in Seq(Piece)
  PROVE  /\ Pattern(name) \in Seq(Piece) /\ Len(Pattern(name)) \in 0..Len(name)
         /\ \A k \in 1..Len(Pattern(name)) : Pattern(name)[k] = name[k] /\ name[k] \notin Digit
         /\ Len(Pattern(name)) < Len(name) => name[Len(Pattern(name)) + 1] \in Digit
<1>1. Len(name) \in Nat /\ \A k \in 1..Len(name) : name[k] \in Piece
  BY LenProperties, ElementOfSeq
<1> DEFINE f == FirstAt(name, Digit, 1)
<1>2. /\ f \in 1..(Len(name) + 1)
      /\ f <= Len(name) => name[f] \in Digit
      /\ \A k \in 1..(f - 1) : name[k] \notin Digit
  <2>1. 1 \in 1..(Len(name) + 1)
    BY <1>1
  <2>2. QED
    BY <2>1, FirstAtFirst
<1> HIDE DEF f
<1>3. f - 1 \in Int /\ \A k \in 1..(f - 1) : name[k] \in Piece
  BY <1>1, <1>2
<1> DEFINE s == SubSeq(name, 1, f - 1)
<1>4. /\ s \in Seq(Piece)
      /\ Len(s) = IF 1 <= f - 1 THEN f - 1 - 1 + 1 ELSE 0
      /\ \A k \in 1..(f - 1 - 1 + 1) : s[k] = name[1 + k - 1]
  BY <1>3, SubSeqProperties
<1>5. Pattern(name) = s
  BY DEF Pattern, f
<1> HIDE DEF s
<1>6. Len(s) = f - 1
  BY <1>1, <1>2, <1>4
<1>7. \A k \in 1..(f - 1) : s[k] = name[k]
  <2> TAKE k \in 1..(f - 1)
  <2>1. k \in 1..(f - 1 - 1 + 1) /\ 1 + k - 1 = k
    BY <1>1, <1>2
  <2>2. QED
    BY <1>4, <2>1
<1>8. QED
  BY <1>1, <1>2, <1>4, <1>5, <1>6, <1>7

(* What a link leads to, with the rest of an earlier target behind it.     *)
Target(name, rest) == (<<"../../">> \o name) \o rest

LEMMA OnePiece ==
  ASSUME NEW S, NEW x \in S
  PROVE  <<x>> \in Seq(S) /\ Len(<<x>>) = 1 /\ <<x>>[1] = x
OBVIOUS

LEMMA TargetPieces ==
  ASSUME NEW name \in Seq(Piece), NEW rest \in Seq(Piece)
  PROVE  /\ Target(name, rest) \in Seq(Piece)
         /\ Len(Target(name, rest)) = 1 + Len(name) + Len(rest)
         /\ Target(name, rest)[1] = "../../"
         /\ \A k \in 1..Len(name) : Target(name, rest)[k + 1] = name[k]
         /\ \A k \in 1..Len(rest) : Target(name, rest)[k + 1 + Len(name)] = rest[k]
         /\ Tail(Target(name, rest)) = name \o rest
<1> DEFINE up == <<"../../">>
           b  == up \o name
<1>1. Len(name) \in Nat /\ Len(rest) \in Nat
  BY LenProperties
<1>2. up \in Seq(Piece) /\ Len(up) = 1 /\ up[1] = "../../"
  <2>1. "../../" \in Piece
    BY DEF Piece
  <2>2. QED
    BY <2>1, OnePiece
<1> HIDE DEF up
<1>3. /\ b \in Seq(Piece) /\ Len(b) = Len(up) + Len(name)
      /\ \A k \in 1..(Len(up) + Len(name)) : b[k] = IF k <= Len(up) THEN up[k] ELSE name[k - Len(up)]
  BY <1>2, ConcatProperties
<1> HIDE DEF b
<1>b. b \in Seq(Piece)
  BY <1>3
<1>4. /\ b \o rest \in Seq(Piece) /\ Len(b \o rest) = Len(b) + Len(rest)
      /\ \A k \in 1..(Len(b) + Len(rest)) : (b \o rest)[k] = IF k <= Len(b) THEN b[k] ELSE rest[k - Len(b)]
  BY <1>b, ConcatProperties
<1> DEFINE t == b \o rest
<1>5. Target(name, rest) = t
  BY DEF Target, b, up
<1> HIDE DEF t
<1>6. t \in Seq(Piece) /\ Len(t) = 1 + Len(name) + Len(rest) /\ Len(b) = 1 + Len(name)
  BY <1>1, <1>2, <1>3, <1>4 DEF t
<1>7. t[1] = "../../"
  BY <1>1, <1>2, <1>3, <1>4 DEF t
<1>8. ASSUME NEW k \in 1..Len(name) PROVE t[k + 1] = name[k]
  <2>1. /\ k + 1 \in 1..(Len(b) + Len(rest)) /\ k + 1 <= Len(b) /\ ~(k + 1 <= Len(up))
        /\ k + 1 \in 1..(Len(up) + Len(name)) /\ k + 1 - Len(up) = k
    BY <1>1, <1>2, <1>6
  <2>2. QED
    BY <1>3, <1>4, <2>1 DEF t
<1>9. ASSUME NEW k \in 1..Len(rest) PROVE t[k + 1 + Len(name)] = rest[k]
  <2>1. /\ k + 1 + Len(name) \in 1..(Len(b) + Len(rest)) /\ ~(k + 1 + Len(name) <= Len(b))
        /\ k + 1 + Len(name) - Len(b) = k
    BY <1>1, <1>6
  <2>2. QED
    BY <1>4, <2>1 DEF t
<1>10. Tail(t) = name \o rest
  <2> DEFINE u == name \o rest
  <2>1. /\ u \in Seq(Piece) /\ Len(u) = Len(name) + Len(rest)
        /\ \A k \in 1..(Len(name) + Len(rest)) : u[k] = IF k <= Len(name) THEN name[k] ELSE rest[k - Len(name)]
    BY ConcatProperties
  <2>2. t # <<>>
    BY <1>1, <1>6
  <2>3. /\ Tail(t) \in Seq(Piece) /\ Len(Tail(t)) = Len(t) - 1
        /\ \A k \in 1..Len(Tail(t)) : Tail(t)[k] = t[k + 1]
    BY <1>6, <2>2, HeadTailProperties
  <2> HIDE DEF u
  <2>4. Len(Tail(t)) = Len(u)
    BY <1>1, <1>6, <2>1, <2>3
  <2>5. ASSUME NEW k \in 1..Len(Tail(t)) PROVE Tail(t)[k] = u[k]
    <3>1. k \in 1..(Len(name) + Len(rest)) /\ Tail(t)[k] = t[k + 1]
      BY <2>1, <2>3, <2>4
    <3>2. CASE k <= Len(name)
      BY <1>1, <1>8, <2>1, <3>1, <3>2
    <3>3. CASE ~(k <= Len(name))
      <4>1. k - Len(name) \in 1..Len(rest) /\ k - Len(name) + 1 + Len(name) = k + 1
        BY <1>1, <3>1, <3>3
      <4>2. t[k + 1] = rest[k - Len(name)]
        BY <1>9, <4>1
      <4>3. QED
        BY <2>1, <3>1, <3>3, <4>2
    <3>4. QED
      BY <3>2, <3>3
  <2>6. Tail(t) = u
    BY <2>1, <2>3, <2>4, <2>5, SeqEqual
  <2>7. QED
    BY <2>6 DEF u
<1>11. QED
  BY <1>5, <1>6, <1>7, <1>8, <1>9, <1>10

LEMMA ReadOverTarget ==
  ASSUME NEW buff \in Seq(Piece), NEW name \in Seq(Piece)
  PROVE  \E rest \in Seq(Piece) :
           /\ ReadOver(buff, name) = Target(name, rest)
           /\ \A k \in 1..Len(rest) : Len(name) + 1 + k \in 1..Len(buff)
                                       /\ rest[k] = buff[Len(name) + 1 + k]
<1> DEFINE b == <<"../../">> \o name
           rest == SubSeq(buff, Len(b) + 1, Len(buff))
<1>1. Len(name) \in Nat /\ Len(buff) \in Nat /\ \A k \in 1..Len(buff) : buff[k] \in Piece
  BY LenProperties, ElementOfSeq
<1>2. Len(b) = 1 + Len(name)
  <2>1. "../../" \in Piece
    BY DEF Piece
  <2>2. <<"../../">> \in Seq(Piece) /\ Len(<<"../../">>) = 1
    BY <2>1, OnePiece
  <2>3. QED
    BY <2>2, ConcatProperties
<1> HIDE DEF b
<1>3. Len(b) + 1 \in Int /\ \A k \in (Len(b) + 1)..Len(buff) : buff[k] \in Piece
  BY <1>1, <1>2
<1>4. /\ rest \in Seq(Piece)
      /\ Len(rest) = IF Len(b) + 1 <= Len(buff) THEN Len(buff) - (Len(b) + 1) + 1 ELSE 0
      /\ \A k \in 1..(Len(buff) - (Len(b) + 1) + 1) : rest[k] = buff[Len(b) + 1 + k - 1]
  BY <1>1, <1>3, SubSeqProperties
<1>5. ReadOver(buff, name) = b \o rest
  BY DEF ReadOver, b
<1> HIDE DEF rest
<1>6. ReadOver(buff, name) = Target(name, rest)
  BY <1>5 DEF Target, b
<1>7. ASSUME NEW k \in 1..Len(rest)
      PROVE  Len(name) + 1 + k \in 1..Len(buff) /\ rest[k] = buff[Len(name) + 1 + k]
  <2>1. /\ k \in 1..(Len(buff) - (Len(b) + 1) + 1) /\ Len(b) + 1 + k - 1 = Len(name) + 1 + k
        /\ Len(name) + 1 + k \in 1..Len(buff)
    BY <1>1, <1>2, <1>4
  <2>2. QED
    BY <1>4, <2>1
<1>8. QED
  BY <1>4, <1>6, <1>7

LEMMA WithinTarget ==
  ASSUME NEW name \in Seq(Piece), NEW rest \in Seq(Piece)
  PROVE  Within(name, Target(name, rest))
<1>1. Len(name) \in Nat /\ Len(rest) \in Nat
  BY LenProperties
<1>2. 1 \in 0..(Len(Target(name, rest)) - Len(name))
  BY <1>1, TargetPieces
<1>3. \A k \in 1..Len(name) : Target(name, rest)[1 + k] = name[k]
  BY <1>1, TargetPieces
<1>4. QED
  BY <1>2, <1>3, TargetPieces, WithinAt

(* The rest of an earlier target makes the pattern longer, but only when   *)
(* the name has no digit.                                                  *)
LEMMA PatternBefore ==
  ASSUME NEW name \in Seq(Piece), NEW rest \in Seq(Piece)
  PROVE  /\ name \o rest \in Seq(Piece)
         /\ Within(Pattern(name), Pattern(name \o rest))
         /\ HasDigit(name) => Pattern(name \o rest) = Pattern(name)
<1> DEFINE u == name \o rest
           p == Pattern(name)
           q == Pattern(u)
<1>1. Len(name) \in Nat /\ Len(rest) \in Nat
  BY LenProperties
<1>2. /\ u \in Seq(Piece) /\ Len(u) = Len(name) + Len(rest)
      /\ \A k \in 1..(Len(name) + Len(rest)) : u[k] = IF k <= Len(name) THEN name[k] ELSE rest[k - Len(name)]
  BY ConcatProperties
<1> HIDE DEF u
<1>3. /\ p \in Seq(Piece) /\ Len(p) \in 0..Len(name)
      /\ \A k \in 1..Len(p) : p[k] = name[k] /\ name[k] \notin Digit
      /\ Len(p) < Len(name) => name[Len(p) + 1] \in Digit
  BY PatternPieces
<1>4. /\ q \in Seq(Piece) /\ Len(q) \in 0..Len(u)
      /\ \A k \in 1..Len(q) : q[k] = u[k] /\ u[k] \notin Digit
      /\ Len(q) < Len(u) => u[Len(q) + 1] \in Digit
  BY <1>2, PatternPieces
<1> HIDE DEF p, q
<1>5. \A k \in 1..Len(name) : u[k] = name[k]
  BY <1>1, <1>2
<1>6. Len(p) <= Len(q)
  <2>1. SUFFICES ASSUME Len(q) < Len(p) PROVE FALSE
    BY <1>1, <1>2, <1>3, <1>4
  <2>2. Len(q) + 1 \in 1..Len(p) /\ Len(q) + 1 \in 1..Len(name) /\ Len(q) < Len(u)
    BY <1>1, <1>2, <1>3, <1>4, <2>1
  <2>3. u[Len(q) + 1] \in Digit /\ u[Len(q) + 1] = name[Len(q) + 1] /\ name[Len(q) + 1] \notin Digit
    BY <1>3, <1>4, <1>5, <2>2
  <2>4. QED
    BY <2>3
<1>7. \A k \in 1..Len(p) : p[k] = q[k]
  <2> TAKE k \in 1..Len(p)
  <2>1. k \in 1..Len(q) /\ k \in 1..Len(name)
    BY <1>1, <1>2, <1>3, <1>4, <1>6
  <2>2. QED
    BY <1>3, <1>4, <1>5, <2>1
<1>8. Within(p, q)
  <2>1. 0 \in 0..(Len(q) - Len(p)) /\ \A k \in 1..Len(p) : q[0 + k] = p[k]
    BY <1>1, <1>2, <1>3, <1>4, <1>6, <1>7
  <2>2. QED
    BY <1>3, <1>4, <2>1, WithinAt
<1>9. ASSUME HasDigit(name) PROVE q = p
  <2>1. PICK d \in 1..Len(name) : name[d] \in Digit
    BY <1>9, LenProperties DEF HasDigit
  <2>2. Len(p) < Len(name)
    <3>1. ~(d \in 1..Len(p))
      BY <1>3, <2>1
    <3>2. QED
      BY <1>1, <1>3, <2>1, <3>1
  <2>3. Len(p) + 1 \in 1..Len(name) /\ u[Len(p) + 1] \in Digit
    BY <1>1, <1>3, <1>5, <2>2
  <2>4. ~(Len(p) + 1 \in 1..Len(q))
    BY <1>4, <2>3
  <2>5. Len(q) = Len(p)
    BY <1>1, <1>2, <1>3, <1>4, <1>6, <2>4
  <2>6. QED
    BY <1>3, <1>4, <1>7, <2>5, SeqEqual
<1>10. QED
  BY <1>2, <1>8, <1>9 DEF u, p, q

(* An entry of the list and those before it.                               *)
LEMMA EntryAdded ==
  ASSUME NEW list \in Seq(Seq(Piece)), NEW n \in 0..Len(list), NEW e \in Seq(Piece)
  PROVE  LET s == Append(SubSeq(list, 1, n), e)
         IN  /\ s \in Seq(Seq(Piece)) /\ Len(s) = n + 1 /\ s[n + 1] = e
             /\ \A j \in 1..n : s[j] = list[j]
<1> DEFINE b == SubSeq(list, 1, n)
<1>1. Len(list) \in Nat /\ \A j \in 1..Len(list) : list[j] \in Seq(Piece)
  BY LenProperties, ElementOfSeq
<1>2. n \in Int /\ \A j \in 1..n : list[j] \in Seq(Piece)
  BY <1>1
<1>3. /\ b \in Seq(Seq(Piece)) /\ Len(b) = IF 1 <= n THEN n - 1 + 1 ELSE 0
      /\ \A j \in 1..(n - 1 + 1) : b[j] = list[1 + j - 1]
  BY <1>2, SubSeqProperties
<1> HIDE DEF b
<1>4. b \in Seq(Seq(Piece)) /\ Len(b) = n
  BY <1>1, <1>3
<1>5. \A j \in 1..n : b[j] = list[j]
  <2> TAKE j \in 1..n
  <2>1. j \in 1..(n - 1 + 1) /\ 1 + j - 1 = j
    BY <1>1
  <2>2. QED
    BY <1>3, <2>1
<1>6. /\ Append(b, e) \in Seq(Seq(Piece)) /\ Len(Append(b, e)) = Len(b) + 1
      /\ \A j \in 1..Len(b) : Append(b, e)[j] = b[j]
      /\ Append(b, e)[Len(b) + 1] = e
  BY <1>4, AppendProperties
<1>7. QED
  BY <1>4, <1>5, <1>6 DEF b
-----------------------------------------------------------------------------
(* Names of partitions of one disk are alike up to the first digit, as     *)
(* sda1 and sda2 are, or nvme0n1p1 and nvme0n1p2.                          *)
NamedAlike ==
  \A m, n \in DevName : DiskOf[m] = DiskOf[n] /\ HasDigit(n) => Within(Pattern(n), m)

(* A name has its first piece, the driver, nowhere else, nor has another,  *)
(* and none begins another one's part before the number, as sdb would      *)
(* sdba1.                                                                  *)
NamedApart ==
  /\ \A n \in DevName : n # <<>> /\ n[1] # "../../"
  /\ \A m, n \in DevName : /\ \A k \in 2..Len(m) : m[k] # n[1]
                           /\ Len(m) < Len(Pattern(n)) => \E k \in 1..Len(m) : m[k] # Pattern(n)[k]

(* No name begins in what an earlier target left.                          *)
Headless(rest) == \A n \in DevName : \A k \in DOMAIN rest : rest[k] # n[1]

LEMMA NamesTyped ==
  /\ \A name \in DevName : name \in Seq(Piece)
  /\ \A line \in FstabText : line \in Seq(Piece)
<1>1. STRING \subseteq Piece
  BY DEF Piece
<1>2. QED
  BY <1>1, SeqMonotonic, DevsAssumption DEF DevsAssumption

(* A pattern that is found in a target is found in the name alone.         *)
LEMMA WithinName ==
  ASSUME NamedApart, NEW m \in DevName, NEW n \in DevName, NEW rest \in Seq(Piece), Headless(rest),
         Within(Pattern(n), Target(m, rest))
  PROVE  Within(Pattern(n), m)
<1> DEFINE p == Pattern(n)
           t == Target(m, rest)
<1>1. m \in Seq(Piece) /\ n \in Seq(Piece)
  BY NamesTyped
<1>2. Len(m) \in Nat /\ Len(n) \in Nat /\ Len(rest) \in Nat /\ DOMAIN rest = 1..Len(rest)
  BY <1>1, LenProperties
<1>3. /\ p \in Seq(Piece) /\ Len(p) \in 0..Len(n)
      /\ \A k \in 1..Len(p) : p[k] = n[k]
  BY <1>1, PatternPieces
<1>4. /\ t \in Seq(Piece) /\ Len(t) = 1 + Len(m) + Len(rest) /\ t[1] = "../../"
      /\ \A k \in 1..Len(m) : t[k + 1] = m[k]
      /\ \A k \in 1..Len(rest) : t[k + 1 + Len(m)] = rest[k]
  BY <1>1, TargetPieces
<1>5. Within(p, t)
  OBVIOUS
<1> HIDE DEF p, t
<1>6. PICK i \in 0..(Len(t) - Len(p)) : \A k \in 1..Len(p) : t[i + k] = p[k]
  BY <1>3, <1>4, <1>5, WithinAt
<1>7. CASE Len(p) = 0
  <2>1. 0 \in 0..(Len(m) - Len(p)) /\ \A k \in 1..Len(p) : m[0 + k] = p[k]
    BY <1>2, <1>7
  <2>2. QED
    BY <1>1, <1>3, <2>1, WithinAt DEF p
<1>8. CASE Len(p) # 0
  <2>1. 1 \in 1..Len(p) /\ Len(p) \in Nat
    BY <1>2, <1>3, <1>8
  <2>2. i \in Nat /\ i + Len(p) <= Len(t) /\ t[i + 1] = n[1]
    BY <1>2, <1>3, <1>4, <1>6, <2>1
  <2>3. i = 1
    <3>1. i # 0
      BY <1>4, <2>2 DEF NamedApart
    <3>2. ASSUME i > 1, i <= Len(m) PROVE FALSE
      <4>1. i \in 1..Len(m) /\ i \in 2..Len(m)
        BY <1>2, <2>2, <3>2
      <4>2. m[i] = n[1]
        BY <1>4, <2>2, <4>1
      <4>3. QED
        BY <4>1, <4>2 DEF NamedApart
    <3>3. ASSUME i > Len(m), i > 1 PROVE FALSE
      <4>1. i - Len(m) \in 1..Len(rest) /\ (i - Len(m)) + 1 + Len(m) = i + 1
        BY <1>2, <1>4, <2>1, <2>2, <3>3
      <4>2. rest[i - Len(m)] = n[1]
        BY <1>4, <2>2, <4>1
      <4>3. QED
        BY <1>2, <4>1, <4>2 DEF Headless
    <3>4. QED
      BY <1>2, <2>2, <3>1, <3>2, <3>3
  <2>4. \A k \in 1..Len(p) : k \in 1..Len(m) => m[k] = p[k]
    <3> TAKE k \in 1..Len(p)
    <3> HAVE k \in 1..Len(m)
    <3>1. t[k + 1] = m[k] /\ t[1 + k] = p[k] /\ k + 1 = 1 + k
      BY <1>4, <1>6, <2>1, <2>3
    <3>2. QED
      BY <3>1
  <2>5. Len(p) <= Len(m)
    <3>1. SUFFICES ASSUME Len(m) < Len(p) PROVE FALSE
      BY <1>2, <2>1
    <3>2. PICK k \in 1..Len(m) : m[k] # p[k]
      BY <3>1 DEF NamedApart, p
    <3>3. k \in 1..Len(p)
      BY <1>2, <2>1, <3>1
    <3>4. QED
      BY <2>4, <3>2, <3>3
  <2>6. 0 \in 0..(Len(m) - Len(p)) /\ \A k \in 1..Len(p) : m[0 + k] = p[k]
    BY <1>2, <2>1, <2>4, <2>5
  <2>7. QED
    BY <1>1, <1>3, <2>6, WithinAt DEF p
<1>9. QED
  BY <1>7, <1>8
-----------------------------------------------------------------------------
LEMMA FieldTyped ==
  ASSUME NEW line \in Seq(Piece), NEW mark, NEW offset \in 0..1, Has(line, mark)
  PROVE  FieldAt(line, mark, offset) \in Seq(Piece)
<1>1. Len(line) \in Nat /\ DOMAIN line = 1..Len(line) /\ \A k \in 1..Len(line) : line[k] \in Piece
  BY LenProperties, ElementOfSeq
<1>2. PICK k \in 1..Len(line) : line[k] = mark
  BY <1>1 DEF Has
<1> DEFINE f == FirstAt(line, {mark}, 1)
<1>3. f \in 1..(Len(line) + 1) /\ \A j \in 1..(f - 1) : line[j] # mark
  <2>1. 1 \in 1..(Len(line) + 1)
    BY <1>1
  <2>2. f \in 1..(Len(line) + 1) /\ \A j \in 1..(f - 1) : line[j] \notin {mark}
    BY <2>1, FirstAtFirst
  <2>3. QED
    BY <2>2
<1> HIDE DEF f
<1>4. f + offset \in 1..(Len(line) + 1)
  <2>1. ~(k \in 1..(f - 1))
    BY <1>2, <1>3
  <2>2. QED
    BY <1>1, <1>3, <2>1
<1> DEFINE i == f + offset
           e == FirstAt(line, {" "}, i)
<1>5. e \in i..(Len(line) + 1)
  BY <1>4, FirstAtFirst
<1> HIDE DEF e
<1>6. i \in Int /\ e - 1 \in Int /\ \A j \in i..(e - 1) : line[j] \in Piece
  BY <1>1, <1>4, <1>5
<1>7. SubSeq(line, i, e - 1) \in Seq(Piece)
  BY <1>6, SubSeqProperties
<1>8. QED
  BY <1>7 DEF FieldAt, e, f

LEMMA RefTyped ==
  ASSUME NEW line \in Seq(Piece)
  PROVE  Ref(line).text \in Seq(Piece) /\ Ref(line).by \in {"path", "uuid", "label", "none"}
<1>1. <<>> \in Seq(Piece)
  BY EmptySeq
<1>2. CASE Has(line, "/dev")
  BY <1>2, FieldTyped DEF Ref
<1>3. CASE ~Has(line, "/dev") /\ Has(line, "UUID=")
  BY <1>3, FieldTyped DEF Ref
<1>4. CASE ~Has(line, "/dev") /\ ~Has(line, "UUID=") /\ Has(line, "LABEL=")
  BY <1>4, FieldTyped DEF Ref
<1>5. CASE ~Has(line, "/dev") /\ ~Has(line, "UUID=") /\ ~Has(line, "LABEL=")
  BY <1>1, <1>5 DEF Ref
<1>6. QED
  BY <1>2, <1>3, <1>4, <1>5

(* An id or a label leads to one link at most.                             *)
LEMMA LeadsToOne ==
  ASSUME NEW ref, NEW u \in Leads(ref), NEW v \in Leads(ref)
  PROVE  u = v
<1>1. ref.by = "uuid" => ref.text = <<u>> /\ ref.text = <<v>>
  BY DEF Leads
<1>2. ASSUME ref.by # "uuid" PROVE u = v
  <2>1. PICK l \in DOMAIN LabelOf : ref.text = <<l>> /\ LabelOf[l] = u
    BY <1>2 DEF Leads
  <2>2. PICK k \in DOMAIN LabelOf : ref.text = <<k>> /\ LabelOf[k] = v
    BY <1>2 DEF Leads
  <2>3. QED
    BY <2>1, <2>2
<1>3. QED
  BY <1>1, <1>2

DevsTyped ==
  /\ fstab \in Seq(FstabText)
  /\ DOMAIN links \subseteq DevUUID /\ \A u \in DOMAIN links : links[u] \in DevName
  /\ entries \in Seq(DevUUID)
  /\ devBuff \in Seq(Piece) /\ localBuff \in Seq(Piece) /\ local \in Seq(Seq(Piece))
  /\ no \in 0..Len(local) /\ at \in 1..(Len(fstab) + 1) /\ loaded \in BOOLEAN
  /\ pos \in {"off", "list", "fstab", "match", "done"}

(* The list is there from the end of localDevs() to the end of devs(), and *)
(* when a link is compared, its own target is at the front of the buffer.  *)
CallInv ==
  /\ pos = "off" => shown = {}
  /\ pos # "fstab" /\ ~loaded => at = 1 /\ no = 0 /\ local = <<>>
  /\ loaded => at = Len(fstab) + 1 /\ pos \notin {"off", "fstab"}
  /\ pos = "match" => loaded
  /\ pos = "done" => entries = <<>>
  /\ pos \in {"fstab", "match"} /\ dev \in DOMAIN links
       => \E rest \in Seq(Piece) : devBuff = Target(links[dev], rest)

LEMMA FstabsTyped ==
  ASSUME NEW f \in Fstabs
  PROVE  f \in Seq(FstabText)
<1>1. PICK n \in 0..MaxFstab : f \in [1..n -> FstabText]
  BY DEF Fstabs
<1>2. n \in Nat
  BY DevsAssumption DEF DevsAssumption
<1>3. QED
  BY <1>1, <1>2

LEMMA CallStart == DevsInit => DevsTyped /\ CallInv
<1> SUFFICES ASSUME DevsInit PROVE DevsTyped /\ CallInv
  OBVIOUS
<1>1. fstab \in Seq(FstabText) /\ Len(fstab) \in Nat
  BY FstabsTyped, LenProperties DEF DevsInit
<1>2. DOMAIN links \subseteq DevUUID /\ \A u \in DOMAIN links : links[u] \in DevName
  BY DEF DevsInit, Links
<1>3. <<>> \in Seq(Piece) /\ <<>> \in Seq(Seq(Piece)) /\ <<>> \in Seq(DevUUID) /\ Len(<<>>) = 0
  BY EmptySeq
<1>4. no \in 0..Len(local) /\ at \in 1..(Len(fstab) + 1)
  <2>1. Len(local) = 0
    BY <1>3 DEF DevsInit
  <2>2. no = 0 /\ at = 1
    BY DEF DevsInit
  <2>3. QED
    BY <1>1, <2>1, <2>2
<1>5. entries \in Seq(DevUUID) /\ local \in Seq(Seq(Piece))
      /\ devBuff \in Seq(Piece) /\ localBuff \in Seq(Piece)
  BY <1>3 DEF DevsInit
<1>6. loaded \in BOOLEAN /\ pos \in {"off", "list", "fstab", "match", "done"}
  BY DEF DevsInit
<1>7. CallInv
  BY DEF DevsInit, CallInv
<1>8. QED
  BY <1>1, <1>2, <1>4, <1>5, <1>6, <1>7 DEF DevsTyped

(* No link is made or changed.                                             *)
LinksStay == DOMAIN links' \subseteq DOMAIN links /\ \A u \in DOMAIN links' : links'[u] = links[u]

LEMMA LinesTyped ==
  ASSUME DevsTyped
  PROVE  /\ Len(fstab) \in Nat /\ DOMAIN fstab = 1..Len(fstab)
         /\ \A i \in DOMAIN fstab : fstab[i] \in FstabText /\ fstab[i] \in Seq(Piece)
         /\ Len(local) \in Nat /\ DOMAIN local = 1..Len(local)
         /\ \A j \in DOMAIN local : local[j] \in Seq(Piece)
         /\ no \in Nat /\ at \in Nat
<1>1. fstab \in Seq(FstabText) /\ local \in Seq(Seq(Piece))
  BY DEF DevsTyped
<1>2. /\ Len(fstab) \in Nat /\ DOMAIN fstab = 1..Len(fstab)
      /\ Len(local) \in Nat /\ DOMAIN local = 1..Len(local)
  BY <1>1, LenProperties
<1>3. /\ \A i \in 1..Len(fstab) : fstab[i] \in FstabText
      /\ \A j \in 1..Len(local) : local[j] \in Seq(Piece)
  BY <1>1, ElementOfSeq
<1>4. no \in Nat /\ at \in Nat
  BY <1>2 DEF DevsTyped
<1>5. QED
  BY <1>2, <1>3, <1>4, NamesTyped

(* What one line adds to the list.                                         *)
LEMMA LineRead ==
  ASSUME DevsTyped, ReadFstabLine
  PROVE  LET ref == Ref(fstab[at])
         IN  /\ at \in DOMAIN fstab /\ at' = at + 1 /\ ref.text \in Seq(Piece)
             /\ \/ ref.by = "none" /\ UNCHANGED <<local, localBuff, no>>
                \/ /\ local' \in Seq(Seq(Piece)) /\ Len(local') = no + 1
                   /\ \A j \in 1..no : local'[j] = local[j]
                   /\ \/ /\ ref.by = "path" /\ local'[no + 1] = ref.text
                         /\ no' = no + 1 /\ UNCHANGED localBuff
                      \/ /\ \E u \in Leads(ref) : localBuff' = ReadOver(localBuff, links[u])
                         /\ localBuff' \in Seq(Piece) /\ local'[no + 1] = localBuff'
                         /\ no' = no + 1
                      \/ /\ ref.by \in {"uuid", "label"} /\ Leads(ref) = {}
                         /\ local'[no + 1] = ref.text /\ UNCHANGED <<localBuff, no>>
<1> DEFINE ref == Ref(fstab[at])
           list(e) == Append(SubSeq(local, 1, no), e)
<1>1. at \in DOMAIN fstab /\ at' = at + 1
  BY LinesTyped DEF ReadFstabLine, DevsTyped
<1>2. ref.text \in Seq(Piece)
  BY <1>1, LinesTyped, RefTyped
<1>3. ASSUME NEW e \in Seq(Piece)
      PROVE  /\ list(e) \in Seq(Seq(Piece)) /\ Len(list(e)) = no + 1 /\ list(e)[no + 1] = e
             /\ \A j \in 1..no : list(e)[j] = local[j]
  BY <1>3, EntryAdded DEF DevsTyped
<1>4. \/ ref.by = "none" /\ UNCHANGED <<local, localBuff, no>>
      \/ ref.by = "path" /\ local' = list(ref.text) /\ no' = no + 1 /\ UNCHANGED localBuff
      \/ /\ \E u \in Leads(ref) : localBuff' = ReadOver(localBuff, links[u])
         /\ local' = list(localBuff') /\ no' = no + 1
      \/ /\ ref.by \in {"uuid", "label"} /\ Leads(ref) = {}
         /\ local' = list(ref.text) /\ UNCHANGED <<localBuff, no>>
  BY DEF ReadFstabLine
<1>5. ASSUME NEW u \in Leads(ref), localBuff' = ReadOver(localBuff, links[u])
      PROVE  localBuff' \in Seq(Piece)
  <2>1. links[u] \in Seq(Piece) /\ localBuff \in Seq(Piece)
    BY NamesTyped DEF Leads, DevsTyped
  <2>2. PICK rest \in Seq(Piece) : ReadOver(localBuff, links[u]) = Target(links[u], rest)
    BY <2>1, ReadOverTarget
  <2>3. QED
    BY <1>5, <2>1, <2>2, TargetPieces
<1> HIDE DEF ref, list
<1>6. CASE ref.by = "none" /\ UNCHANGED <<local, localBuff, no>>
  BY <1>1, <1>2, <1>6 DEF ref
<1>7. CASE ref.by = "path" /\ local' = list(ref.text) /\ no' = no + 1 /\ UNCHANGED localBuff
  BY <1>1, <1>2, <1>3, <1>7 DEF ref
<1>8. CASE /\ \E u \in Leads(ref) : localBuff' = ReadOver(localBuff, links[u])
           /\ local' = list(localBuff') /\ no' = no + 1
  <2>1. localBuff' \in Seq(Piece)
    BY <1>5, <1>8
  <2>2. QED
    BY <1>1, <1>2, <1>3, <1>8, <2>1 DEF ref
<1>9. CASE /\ ref.by \in {"uuid", "label"} /\ Leads(ref) = {}
           /\ local' = list(ref.text) /\ UNCHANGED <<localBuff, no>>
  BY <1>1, <1>2, <1>3, <1>9 DEF ref
<1>10. QED
  BY <1>4, <1>6, <1>7, <1>8, <1>9

LEMMA LinksStayOrComeBetween ==
  ASSUME [DevsNext]_devsVars
  PROVE  LinksStay \/ Plug
<1>1. CASE UNCHANGED links
  BY <1>1 DEF LinksStay
<1>2. CASE Unplug
  BY <1>2 DEF Unplug, LinksStay
<1>3. CASE Plug
  BY <1>3
<1>4. CASE OpenDir \/ ReadLink \/ NoFstab \/ ReadFstabLine \/ EndFstab \/ Match \/ EndDir
           \/ FreeLocal \/ EditFstab
  <2>1. UNCHANGED links
    BY <1>4 DEF OpenDir, ReadLink, NoFstab, Return, ReadFstabLine, EndFstab, Match, EndDir,
                FreeLocal, EditFstab
  <2>2. QED
    BY <1>1, <2>1
<1>5. QED
  BY <1>1, <1>2, <1>3, <1>4 DEF DevsNext, devsVars

LEMMA CallSteps ==
  ASSUME DevsTyped, CallInv, [DevsNext]_devsVars
  PROVE  DevsTyped' /\ CallInv'
<1>1. ASSUME Return, local' = <<>>, loaded' = FALSE PROVE DevsTyped' /\ CallInv'
  <2>1. <<>> \in Seq(Piece) /\ <<>> \in Seq(Seq(Piece)) /\ <<>> \in Seq(DevUUID) /\ Len(<<>>) = 0
    BY EmptySeq
  <2>2. no' \in 0..Len(local') /\ at' \in 1..(Len(fstab') + 1)
    <3>1. Len(local') = 0
      BY <1>1, <2>1
    <3>2. no' = 0 /\ at' = 1 /\ fstab' = fstab
      BY <1>1 DEF Return
    <3>3. QED
      BY <3>1, <3>2, LinesTyped
  <2>3. /\ entries' \in Seq(DevUUID) /\ local' \in Seq(Seq(Piece))
        /\ devBuff' \in Seq(Piece) /\ localBuff' \in Seq(Piece)
    BY <1>1, <2>1 DEF Return
  <2>4. DevsTyped'
    BY <1>1, <2>2, <2>3 DEF Return, DevsTyped
  <2>5. QED
    BY <1>1, <2>4 DEF Return, CallInv
<1>2. CASE OpenDir
  <2>1. entries' \in Seq(DevUUID)
    <3>1. PICK n \in Int : entries' \in [1..n -> DOMAIN links]
      <4>1. IsFiniteSet(DOMAIN links)
        BY FS_Subset, DevsAssumption DEF DevsTyped, DevsAssumption
      <4>2. QED
        BY <1>2, <4>1, FS_CardinalityType DEF OpenDir
    <3>2. entries' \in [1..n -> DevUUID]
      BY <3>1 DEF DevsTyped
    <3>3. QED
      BY <3>2
  <2>2. DevsTyped'
    BY <1>2, <2>1 DEF OpenDir, DevsTyped
  <2>3. QED
    BY <1>2, <2>2 DEF OpenDir, CallInv
<1>3. CASE ReadLink
  <2>1. /\ Head(entries) \in DevUUID /\ entries' \in Seq(DevUUID)
    BY <1>3, HeadTailProperties DEF ReadLink, DevsTyped
  <2>2. CASE Head(entries) \in DOMAIN links
    <3>1. links[Head(entries)] \in Seq(Piece) /\ devBuff \in Seq(Piece)
      BY <2>2, NamesTyped DEF DevsTyped
    <3>2. PICK rest \in Seq(Piece) : ReadOver(devBuff, links[Head(entries)]) = Target(links[Head(entries)], rest)
      BY <3>1, ReadOverTarget
    <3>3. devBuff' = Target(links'[dev'], rest) /\ devBuff' \in Seq(Piece)
      BY <1>3, <2>2, <3>1, <3>2, TargetPieces DEF ReadLink
    <3>4. DevsTyped'
      BY <1>3, <2>1, <2>2, <3>3 DEF ReadLink, DevsTyped
    <3>5. QED
      BY <1>3, <2>2, <3>3, <3>4 DEF ReadLink, CallInv, DevsTyped
  <2>3. CASE Head(entries) \notin DOMAIN links
    BY <1>3, <2>1, <2>3 DEF ReadLink, DevsTyped, CallInv
  <2>4. QED
    BY <2>2, <2>3
<1>4. CASE ReadFstabLine
  <2>1. /\ local' \in Seq(Seq(Piece)) /\ localBuff' \in Seq(Piece)
        /\ no' \in 0..Len(local') /\ at' \in 1..(Len(fstab) + 1)
    <3>1. at' \in 1..(Len(fstab) + 1)
      BY <1>4, LineRead, LinesTyped
    <3>2. CASE UNCHANGED <<local, localBuff, no>>
      BY <3>1, <3>2 DEF DevsTyped
    <3>3. CASE /\ local' \in Seq(Seq(Piece)) /\ Len(local') = no + 1
               /\ no' \in {no, no + 1} /\ localBuff' \in Seq(Piece)
      BY <3>1, <3>3, LinesTyped
    <3>4. localBuff \in Seq(Piece)
      BY DEF DevsTyped
    <3>5. QED
      BY <1>4, <3>2, <3>3, <3>4, LineRead
  <2>2. QED
    BY <1>4, <2>1 DEF ReadFstabLine, DevsTyped, CallInv
<1>5. CASE EndFstab
  <2>1. at = Len(fstab) + 1
    BY <1>5, LinesTyped DEF EndFstab, DevsTyped
  <2>2. QED
    BY <1>5, <2>1 DEF EndFstab, DevsTyped, CallInv
<1>6. CASE Match
  BY <1>6 DEF Match, DevsTyped, CallInv
<1>7. CASE EndDir
  BY <1>7 DEF EndDir, DevsTyped, CallInv
<1>8. CASE Unplug
  <2>1. LinksStay
    BY <1>8 DEF Unplug, LinksStay
  <2>2. QED
    BY <1>8, <2>1 DEF Unplug, DevsTyped, CallInv, LinksStay
<1>9. CASE Plug
  <2>1. DOMAIN links' \subseteq DevUUID /\ \A u \in DOMAIN links' : links'[u] \in DevName
    BY <1>9 DEF Plug, DevsTyped
  <2>2. QED
    BY <1>9, <2>1 DEF Plug, DevsTyped, CallInv
<1>10. CASE EditFstab
  <2>1. fstab' \in Seq(FstabText) /\ Len(fstab') \in Nat
    BY <1>10, FstabsTyped, LenProperties DEF EditFstab
  <2>2. at = 1 /\ ~loaded
    BY <1>10 DEF EditFstab, CallInv
  <2>3. QED
    BY <1>10, <2>1, <2>2 DEF EditFstab, DevsTyped, CallInv
<1>11. CASE UNCHANGED devsVars
  BY <1>11 DEF devsVars, DevsTyped, CallInv
<1>12. QED
  BY <1>1, <1>2, <1>3, <1>4, <1>5, <1>6, <1>7, <1>8, <1>9, <1>10, <1>11
     DEF DevsNext, NoFstab, FreeLocal
-----------------------------------------------------------------------------
(* Each device that a line read so far names is found in an entry of the   *)
(* list, and no link to be returned leads to one of its disk.              *)
HiddenInv ==
  /\ \A i \in 1..(at - 1) : \A name \in Devices(fstab[i]) : \E j \in 1..no : Within(name, local[j])
  /\ \A u \in shown \cap DOMAIN links, i \in DOMAIN fstab, name \in DevName :
       name \in Devices(fstab[i]) /\ HasDigit(links[u]) => DiskOf[links[u]] # DiskOf[name]

LEMMA DevicesStay ==
  ASSUME LinksStay, UNCHANGED fstab, NEW i
  PROVE  Devices(fstab[i])' \subseteq Devices(fstab[i])
<1>1. Ref(fstab[i])' = Ref(fstab[i])
  OBVIOUS
<1>2. ASSUME NEW u \in Leads(Ref(fstab[i]))' PROVE u \in Leads(Ref(fstab[i])) /\ links'[u] = links[u]
  <2>1. u \in DOMAIN links'
    BY DEF Leads
  <2>2. u \in DOMAIN links /\ links'[u] = links[u]
    BY <2>1 DEF LinksStay
  <2>3. QED
    BY <1>1, <2>2 DEF Leads
<1>3. ASSUME NEW name \in Devices(fstab[i])' PROVE name \in Devices(fstab[i])
  <2>1. CASE name \in DevName /\ Ref(fstab[i])' = [by |-> "path", text |-> <<"/dev", "/">> \o name]
    BY <1>1, <2>1 DEF Devices
  <2>2. CASE \E u \in Leads(Ref(fstab[i]))' : name = links'[u]
    BY <1>2, <2>2 DEF Devices
  <2>3. QED
    BY <2>1, <2>2 DEF Devices
<1>4. QED
  BY <1>3

(* A device that the line names is found in the entry made for the line.   *)
LEMMA DeviceInEntry ==
  ASSUME DevsTyped, ReadFstabLine, NEW name \in Devices(fstab[at])
  PROVE  no' = no + 1 /\ Within(name, local'[no + 1])
<1> DEFINE ref == Ref(fstab[at])
<1>1. at \in DOMAIN fstab /\ ref.text \in Seq(Piece)
  BY LineRead
<1>2. CASE name \in DevName /\ ref = [by |-> "path", text |-> <<"/dev", "/">> \o name]
  <2>1. ref.by = "path" /\ ref.text = <<"/dev", "/">> \o name /\ name \in Seq(Piece)
    BY <1>2, NamesTyped
  <2>2. Leads(ref) = {}
    BY <2>1 DEF Leads
  <2>3. no' = no + 1 /\ local'[no + 1] = ref.text
    BY <2>1, <2>2, LineRead
  <2>4. Within(name, ref.text)
    <3> DEFINE up == <<"/dev", "/">>
    <3>1. up \in Seq({"/dev", "/"}) /\ Len(up) = 2
      OBVIOUS
    <3> DEFINE S == Piece \cup {"/dev", "/"}
    <3> HIDE DEF up
    <3>2. up \in Seq(S) /\ name \in Seq(S)
      BY <2>1, <3>1, SeqMonotonic
    <3> HIDE DEF S
    <3>3. /\ Len(up \o name) = Len(up) + Len(name)
          /\ \A k \in 1..(Len(up) + Len(name)) :
               (up \o name)[k] = IF k <= Len(up) THEN up[k] ELSE name[k - Len(up)]
      BY <3>2, ConcatProperties
    <3>4. Len(name) \in Nat
      BY <2>1, LenProperties
    <3>5. ref.text = up \o name
      BY <2>1 DEF up
    <3>6. \A k \in 1..Len(name) : ref.text[2 + k] = name[k]
      <4> TAKE k \in 1..Len(name)
      <4>1. 2 + k \in 1..(Len(up) + Len(name)) /\ ~(2 + k <= Len(up)) /\ 2 + k - Len(up) = k
        BY <3>1, <3>4
      <4>2. QED
        BY <3>3, <3>5, <4>1
    <3>7. 2 \in 0..(Len(ref.text) - Len(name))
      BY <3>1, <3>3, <3>4, <3>5
    <3>8. QED
      BY <1>1, <2>1, <3>6, <3>7, WithinAt
  <2>5. QED
    BY <2>3, <2>4
<1>3. CASE \E u \in Leads(ref) : name = links[u]
  <2>1. PICK u \in Leads(ref) : name = links[u]
    BY <1>3
  <2>2. ref.by # "none" /\ ref.by # "path" /\ Leads(ref) # {}
    BY <2>1 DEF Leads
  <2>3. /\ no' = no + 1 /\ local'[no + 1] = localBuff'
        /\ \E v \in Leads(ref) : localBuff' = ReadOver(localBuff, links[v])
    BY <2>2, LineRead
  <2>4. localBuff' = ReadOver(localBuff, name)
    BY <2>1, <2>3, LeadsToOne
  <2>5. name \in Seq(Piece) /\ localBuff \in Seq(Piece)
    BY <2>1, NamesTyped DEF Leads, DevsTyped
  <2>6. PICK rest \in Seq(Piece) : ReadOver(localBuff, name) = Target(name, rest)
    BY <2>5, ReadOverTarget
  <2>7. QED
    BY <2>3, <2>4, <2>5, <2>6, WithinTarget
<1>4. QED
  BY <1>2, <1>3 DEF Devices

(* A link with a digit that is not found local is on no disk of a line.    *)
LEMMA MatchHides ==
  ASSUME NamedAlike, DevsTyped, CallInv, HiddenInv, Match, ~IsLocal(devBuff), dev \in DOMAIN links,
         HasDigit(links[dev]), NEW i \in DOMAIN fstab, NEW name \in DevName, name \in Devices(fstab[i])
  PROVE  DiskOf[links[dev]] # DiskOf[name]
<1> SUFFICES ASSUME DiskOf[links[dev]] = DiskOf[name] PROVE FALSE
  OBVIOUS
<1>1. loaded /\ at = Len(fstab) + 1 /\ i \in 1..(at - 1)
  BY LinesTyped DEF Match, CallInv
<1>2. PICK j \in 1..no : Within(name, local[j])
  BY <1>1 DEF HiddenInv
<1>3. j \in DOMAIN local /\ local[j] \in Seq(Piece)
  BY LinesTyped DEF DevsTyped
<1>4. links[dev] \in DevName /\ links[dev] \in Seq(Piece) /\ name \in Seq(Piece)
  BY NamesTyped DEF DevsTyped
<1>5. Within(Pattern(links[dev]), name)
  BY <1>4 DEF NamedAlike
<1>6. Within(Pattern(links[dev]), local[j])
  BY <1>2, <1>3, <1>4, <1>5, PatternPieces, WithinThrough
<1>7. PICK rest \in Seq(Piece) : devBuff = Target(links[dev], rest)
  BY DEF Match, CallInv
<1>8. Pattern(Tail(devBuff)) = Pattern(links[dev])
  <2>1. Tail(devBuff) = links[dev] \o rest
    BY <1>4, <1>7, TargetPieces
  <2>2. Pattern(links[dev] \o rest) = Pattern(links[dev])
    BY <1>4, PatternBefore
  <2>3. QED
    BY <2>1, <2>2
<1>9. QED
  BY <1>3, <1>6, <1>8 DEF IsLocal

LEMMA HiddenSteps ==
  ASSUME NamedAlike, DevsTyped, CallInv, HiddenInv, [DevsNext]_devsVars
  PROVE  HiddenInv'
<1>1. ASSUME LinksStay, UNCHANGED fstab, shown' = {} \/ UNCHANGED shown,
             at' = 1 \/ UNCHANGED <<at, no, local>>
      PROVE  HiddenInv'
  <2>1. \A i : Devices(fstab[i])' \subseteq Devices(fstab[i])
    BY <1>1, DevicesStay
  <2>2. QED
    BY <1>1, <2>1 DEF HiddenInv, LinksStay
<1>2. CASE ReadFstabLine
  <2>1. UNCHANGED <<links, fstab, shown>> /\ LinksStay
    BY <1>2 DEF ReadFstabLine, LinksStay
  <2>2. ASSUME NEW i \in 1..(at' - 1), NEW name \in Devices(fstab[i])'
        PROVE  \E j \in 1..no' : Within(name, local'[j])
    <3>1. name \in Devices(fstab[i])
      BY <2>1, DevicesStay
    <3>2. at' = at + 1 /\ at \in Nat /\ no \in Nat
      BY <1>2, LineRead, LinesTyped
    <3>3. CASE i = at
      <4>1. no' = no + 1 /\ Within(name, local'[no + 1])
        BY <1>2, <3>1, <3>3, DeviceInEntry
      <4>2. no + 1 \in 1..no'
        BY <3>2, <4>1
      <4>3. QED
        BY <4>1, <4>2
    <3>4. CASE i # at
      <4>1. i \in 1..(at - 1)
        BY <3>2, <3>4
      <4>2. PICK j \in 1..no : Within(name, local[j])
        BY <3>1, <4>1 DEF HiddenInv
      <4>3. local'[j] = local[j] /\ (no' = no \/ no' = no + 1)
        BY <1>2, LineRead
      <4>4. j \in 1..no'
        BY <3>2, <4>3
      <4>5. QED
        BY <4>2, <4>3, <4>4
    <3>5. QED
      BY <3>3, <3>4
  <2>3. ASSUME NEW u \in shown' \cap DOMAIN links', NEW i \in DOMAIN fstab', NEW name \in DevName,
               name \in Devices(fstab[i])', HasDigit(links'[u])
        PROVE  DiskOf[links'[u]] # DiskOf[name]
    <3>1. name \in Devices(fstab[i])
      BY <2>1, <2>3, DevicesStay
    <3>2. QED
      BY <2>1, <2>3, <3>1 DEF HiddenInv
  <2>4. QED
    BY <2>2, <2>3 DEF HiddenInv
<1>3. CASE Match
  <2>1. UNCHANGED <<links, fstab, at, no, local>> /\ LinksStay
    BY <1>3 DEF Match, LinksStay
  <2>2. \A i : Devices(fstab[i])' \subseteq Devices(fstab[i])
    BY <2>1, DevicesStay
  <2>3. ASSUME NEW u \in shown' \cap DOMAIN links', NEW i \in DOMAIN fstab', NEW name \in DevName,
               name \in Devices(fstab[i])', HasDigit(links'[u])
        PROVE  DiskOf[links'[u]] # DiskOf[name]
    <3>1. name \in Devices(fstab[i]) /\ i \in DOMAIN fstab /\ u \in DOMAIN links /\ HasDigit(links[u])
      BY <2>1, <2>2, <2>3
    <3>2. CASE u \in shown
      BY <2>1, <3>1, <3>2 DEF HiddenInv
    <3>3. CASE u \notin shown
      <4>1. u = dev /\ ~IsLocal(devBuff)
        BY <1>3, <3>3 DEF Match
      <4>2. QED
        BY <1>3, <2>1, <3>1, <4>1, MatchHides
    <3>4. QED
      BY <3>2, <3>3
  <2>4. QED
    BY <2>1, <2>2, <2>3 DEF HiddenInv
<1>4. CASE Plug \/ EditFstab
  <2>1. shown' = {} /\ at' = 1
    BY <1>4 DEF Plug, EditFstab, CallInv
  <2>2. QED
    BY <2>1 DEF HiddenInv
<1>5. CASE OpenDir \/ ReadLink \/ NoFstab \/ EndFstab \/ EndDir \/ FreeLocal \/ Unplug \/ UNCHANGED devsVars
  <2>1. UNCHANGED fstab /\ (shown' = {} \/ UNCHANGED shown) /\ (at' = 1 \/ UNCHANGED <<at, no, local>>)
    BY <1>5 DEF OpenDir, ReadLink, NoFstab, EndFstab, EndDir, FreeLocal, Unplug, Return, devsVars
  <2>2. CASE Plug
    BY <1>4, <2>2
  <2>3. CASE LinksStay
    BY <1>1, <2>1, <2>3
  <2>4. QED
    BY <2>2, <2>3, LinksStayOrComeBetween
<1>6. QED
  BY <1>2, <1>3, <1>4, <1>5 DEF DevsNext

(* A link with a digit in its name that devs() returns leads to no disk    *)
(* that /etc/fstab has a partition of, however often the call was made,    *)
(* whatever was pulled out meanwhile and whatever the buffers still hold.  *)
THEOREM LocalDisksHidden ==
  ASSUME NamedAlike
  PROVE  DevsSpec => []LocalHidden
<1>1. DevsInit => DevsTyped /\ CallInv /\ HiddenInv
  <2>1. DevsInit => shown = {} /\ at = 1
    BY DEF DevsInit
  <2>2. ASSUME shown = {}, at = 1 PROVE HiddenInv
    <3>1. 1..(at - 1) = {}
      BY <2>2
    <3>2. QED
      BY <2>2, <3>1 DEF HiddenInv
  <2>3. QED
    BY <2>1, <2>2, CallStart
<1>2. DevsTyped /\ CallInv /\ HiddenInv /\ [DevsNext]_devsVars
        => DevsTyped' /\ CallInv' /\ HiddenInv'
  BY CallSteps, HiddenSteps
<1>3. HiddenInv => LocalHidden
  BY DEF HiddenInv, LocalHidden
<1>4. QED
  BY <1>1, <1>2, <1>3, PTL DEF DevsSpec
-----------------------------------------------------------------------------
(* An entry is what the line says, or a target with the rest of earlier    *)
(* ones.                                                                   *)
FromLine(entry, line) ==
  \/ entry \in Texts(line)
  \/ \E name \in DevName \cap Texts(line), rest \in Seq(Piece) :
       Headless(rest) /\ entry = Target(name, rest)

Found(u) == \E i \in DOMAIN fstab : \E text \in Texts(fstab[i]) : Within(Pattern(links[u]), text)

(* Each entry comes from a line; each link has been returned, or found     *)
(* local for a reason, or is still to be read or compared.                 *)
ListedInv ==
  /\ \A k \in 3..Len(localBuff) : \A n \in DevName : localBuff[k] # n[1]
  /\ \A j \in DOMAIN local : \E i \in DOMAIN fstab : FromLine(local[j], fstab[i])
  /\ pos # "off" => \A u \in DOMAIN links :
       /\ u \in DOMAIN opened /\ opened[u] = links[u]
       /\ \/ u \in shown \/ Found(u)
          \/ \E k \in DOMAIN entries : entries[k] = u
          \/ pos \in {"fstab", "match"} /\ dev = u

LEMMA RefRecord ==
  ASSUME NEW line
  PROVE  Ref(line) = [by |-> Ref(line).by, text |-> Ref(line).text]
<1>1. CASE Has(line, "/dev")
  BY <1>1 DEF Ref
<1>2. CASE ~Has(line, "/dev") /\ Has(line, "UUID=")
  BY <1>2 DEF Ref
<1>3. CASE ~Has(line, "/dev") /\ ~Has(line, "UUID=") /\ Has(line, "LABEL=")
  BY <1>3 DEF Ref
<1>4. CASE ~Has(line, "/dev") /\ ~Has(line, "UUID=") /\ ~Has(line, "LABEL=")
  BY <1>4 DEF Ref
<1>5. QED
  BY <1>1, <1>2, <1>3, <1>4

(* The entry made for a line comes from the line.                          *)
LEMMA EntryFromLine ==
  ASSUME NamedApart, DevsTyped, ListedInv, ReadFstabLine
  PROVE  /\ \A k \in 3..Len(localBuff') : \A n \in DevName : localBuff'[k] # n[1]
         /\ \A j \in DOMAIN local' : \/ j \in DOMAIN local /\ local'[j] = local[j]
                                     \/ FromLine(local'[j], fstab[at])
<1> DEFINE ref == Ref(fstab[at])
<1>1. at \in DOMAIN fstab /\ ref.text \in Seq(Piece) /\ ref.text \in Texts(fstab[at])
  BY LineRead DEF Texts
<1>2. ASSUME NEW u \in Leads(ref), localBuff' = ReadOver(localBuff, links[u])
      PROVE  /\ \A k \in 3..Len(localBuff') : \A n \in DevName : localBuff'[k] # n[1]
             /\ FromLine(localBuff', fstab[at])
  <2> DEFINE name == links[u]
  <2>1. u \in DOMAIN links /\ name \in DevName /\ name \in Seq(Piece) /\ localBuff \in Seq(Piece)
    BY NamesTyped DEF Leads, DevsTyped
  <2>2. u \in DOMAIN opened /\ opened[u] = name
    BY <2>1 DEF ListedInv, ReadFstabLine
  <2>3. name \in Texts(fstab[at])
    <3>1. \/ ref = [by |-> "uuid", text |-> <<u>>]
          \/ \E l \in DOMAIN LabelOf : LabelOf[l] = u /\ ref = [by |-> "label", text |-> <<l>>]
      <4>1. \/ ref.by = "uuid" /\ ref.text = <<u>>
            \/ ref.by = "label" /\ \E l \in DOMAIN LabelOf : ref.text = <<l>> /\ LabelOf[l] = u
        BY DEF Leads
      <4>2. ref = [by |-> ref.by, text |-> ref.text]
        BY RefRecord
      <4>3. QED
        BY <4>1, <4>2
    <3>2. QED
      BY <2>2, <3>1 DEF Texts
  <2> HIDE DEF name
  <2>4. PICK rest \in Seq(Piece) :
          /\ ReadOver(localBuff, name) = Target(name, rest)
          /\ \A k \in 1..Len(rest) : Len(name) + 1 + k \in 1..Len(localBuff)
                                      /\ rest[k] = localBuff[Len(name) + 1 + k]
    BY <2>1, ReadOverTarget
  <2>5. Len(name) \in Nat /\ Len(name) >= 1 /\ Len(rest) \in Nat /\ DOMAIN rest = 1..Len(rest)
        /\ Len(localBuff) \in Nat
    <3>1. name # <<>>
      BY <2>1 DEF NamedApart
    <3>2. QED
      BY <2>1, <3>1, LenProperties, EmptySeq
  <2>6. ASSUME NEW k \in 1..Len(rest), NEW n \in DevName PROVE rest[k] # n[1]
    <3>1. Len(name) + 1 + k \in 3..Len(localBuff)
      BY <2>4, <2>5
    <3>2. QED
      BY <2>4, <3>1 DEF ListedInv
  <2>7. Headless(rest)
    BY <2>5, <2>6 DEF Headless
  <2>8. localBuff' = Target(name, rest)
    BY <1>2, <2>4 DEF name
  <2>9. /\ Len(localBuff') = 1 + Len(name) + Len(rest)
        /\ \A k \in 1..Len(name) : localBuff'[k + 1] = name[k]
        /\ \A k \in 1..Len(rest) : localBuff'[k + 1 + Len(name)] = rest[k]
    BY <2>1, <2>8, TargetPieces
  <2>10. ASSUME NEW k \in 3..Len(localBuff'), NEW n \in DevName PROVE localBuff'[k] # n[1]
    <3>1. CASE k - 1 <= Len(name)
      <4>1. k - 1 \in 1..Len(name) /\ k - 1 \in 2..Len(name) /\ (k - 1) + 1 = k
        BY <2>5, <2>9, <3>1
      <4>2. localBuff'[k] = name[k - 1]
        BY <2>9, <4>1
      <4>3. QED
        BY <2>1, <4>1, <4>2 DEF NamedApart
    <3>2. CASE ~(k - 1 <= Len(name))
      <4>1. k - 1 - Len(name) \in 1..Len(rest) /\ (k - 1 - Len(name)) + 1 + Len(name) = k
        BY <2>5, <2>9, <3>2
      <4>2. localBuff'[k] = rest[k - 1 - Len(name)]
        BY <2>9, <4>1
      <4>3. QED
        BY <2>6, <4>1, <4>2
    <3>3. QED
      BY <3>1, <3>2
  <2>11. FromLine(localBuff', fstab[at])
    BY <2>1, <2>3, <2>7, <2>8 DEF FromLine
  <2>12. QED
    BY <2>10, <2>11
<1>3. CASE UNCHANGED <<local, localBuff, no>>
  BY <1>3 DEF ListedInv
<1>4. ASSUME local' \in Seq(Seq(Piece)), Len(local') = no + 1,
             \A j \in 1..no : local'[j] = local[j], FromLine(local'[no + 1], fstab[at])
      PROVE  \A j \in DOMAIN local' : \/ j \in DOMAIN local /\ local'[j] = local[j]
                                      \/ FromLine(local'[j], fstab[at])
  <2>1. DOMAIN local' = 1..(no + 1) /\ DOMAIN local = 1..Len(local) /\ no \in 0..Len(local)
        /\ Len(local) \in Nat
    BY <1>4, LenProperties, LinesTyped DEF DevsTyped
  <2> TAKE j \in DOMAIN local'
  <2>2. j = no + 1 \/ (j \in 1..no /\ j \in 1..Len(local))
    BY <2>1
  <2>3. QED
    BY <1>4, <2>1, <2>2
<1>5. CASE /\ local' \in Seq(Seq(Piece)) /\ Len(local') = no + 1
           /\ \A j \in 1..no : local'[j] = local[j]
           /\ local'[no + 1] = ref.text /\ UNCHANGED localBuff
  <2>1. FromLine(local'[no + 1], fstab[at])
    BY <1>1, <1>5 DEF FromLine
  <2>2. \A k \in 3..Len(localBuff') : \A n \in DevName : localBuff'[k] # n[1]
    BY <1>5 DEF ListedInv
  <2>3. QED
    BY <1>4, <1>5, <2>1, <2>2
<1>6. CASE /\ local' \in Seq(Seq(Piece)) /\ Len(local') = no + 1
           /\ \A j \in 1..no : local'[j] = local[j]
           /\ \E u \in Leads(ref) : localBuff' = ReadOver(localBuff, links[u])
           /\ local'[no + 1] = localBuff'
  <2>1. /\ \A k \in 3..Len(localBuff') : \A n \in DevName : localBuff'[k] # n[1]
        /\ FromLine(local'[no + 1], fstab[at])
    BY <1>2, <1>6
  <2>2. QED
    BY <1>4, <1>6, <2>1
<1>7. QED
  BY <1>3, <1>5, <1>6, LineRead

(* A link that is compared and not returned is so for a line.              *)
LEMMA MatchFinds ==
  ASSUME NamedApart, DevsTyped, CallInv, ListedInv, Match, IsLocal(devBuff), dev \in DOMAIN links
  PROVE  Found(dev)
<1>1. links[dev] \in DevName /\ links[dev] \in Seq(Piece)
  BY NamesTyped DEF DevsTyped
<1>2. PICK rest \in Seq(Piece) : devBuff = Target(links[dev], rest)
  BY DEF Match, CallInv
<1> DEFINE p == Pattern(links[dev])
           q == Pattern(links[dev] \o rest)
<1>3. Pattern(Tail(devBuff)) = q
  <2>1. Tail(devBuff) = links[dev] \o rest
    BY <1>1, <1>2, TargetPieces
  <2>2. QED
    BY <2>1
<1>4. links[dev] \o rest \in Seq(Piece) /\ Within(p, q)
  BY <1>1, PatternBefore
<1>5. p \in Seq(Piece) /\ q \in Seq(Piece)
  BY <1>1, <1>4, PatternPieces
<1> HIDE DEF q
<1>6. PICK j \in DOMAIN local : Within(q, local[j])
  BY <1>3 DEF IsLocal
<1>7. Within(p, local[j])
  BY <1>4, <1>5, <1>6, LinesTyped, WithinThrough
<1>8. PICK i \in DOMAIN fstab : FromLine(local[j], fstab[i])
  BY DEF ListedInv
<1>9. CASE local[j] \in Texts(fstab[i])
  BY <1>7, <1>9 DEF Found
<1>10. CASE \E name \in DevName \cap Texts(fstab[i]), r \in Seq(Piece) :
              Headless(r) /\ local[j] = Target(name, r)
  <2>1. PICK name \in DevName \cap Texts(fstab[i]), r \in Seq(Piece) :
          Headless(r) /\ local[j] = Target(name, r)
    BY <1>10
  <2>2. Within(p, name)
    BY <1>1, <1>7, <2>1, WithinName
  <2>3. QED
    BY <2>1, <2>2 DEF Found
<1>11. QED
  BY <1>8, <1>9, <1>10 DEF FromLine

LEMMA ListedSteps ==
  ASSUME NamedApart, DevsTyped, CallInv, ListedInv, [DevsNext]_devsVars
  PROVE  ListedInv'
<1>1. ASSUME pos' = "off", local' = <<>>, localBuff' = <<>> PROVE ListedInv'
  <2>1. DOMAIN local' = {} /\ 3..Len(localBuff') = {}
    <3>1. Len(localBuff') = 0
      BY <1>1, EmptySeq
    <3>2. QED
      BY <1>1, <3>1
  <2>2. QED
    BY <1>1, <2>1 DEF ListedInv
<1>2. ASSUME LinksStay, UNCHANGED <<fstab, opened>>,
             NEW u, u \in DOMAIN links', pos # "off"
      PROVE  /\ u \in DOMAIN links /\ links'[u] = links[u] /\ u \in DOMAIN opened' /\ opened'[u] = links'[u]
             /\ \/ u \in shown \/ Found(u)'
                \/ \E k \in DOMAIN entries : entries[k] = u
                \/ pos \in {"fstab", "match"} /\ dev = u
  <2>1. u \in DOMAIN links /\ links'[u] = links[u] /\ u \in DOMAIN opened' /\ opened'[u] = links'[u]
    BY <1>2 DEF LinksStay, ListedInv
  <2>2. ASSUME Found(u) PROVE Found(u)'
    BY <1>2, <2>1, <2>2 DEF Found, Texts
  <2>3. QED
    BY <1>2, <2>1, <2>2 DEF ListedInv
<1>3. CASE OpenDir
  <2>1. pos = "off" /\ pos' = "list" /\ opened' = links /\ UNCHANGED <<fstab, links, local, localBuff>>
    BY <1>3 DEF OpenDir
  <2>2. local = <<>> /\ DOMAIN local' = {}
    BY <2>1 DEF CallInv
  <2>3. ASSUME NEW u \in DOMAIN links PROVE \E k \in DOMAIN entries' : entries'[k] = u
    <3> DEFINE S == DOMAIN links
               n == Cardinality(S)
    <3>1. IsFiniteSet(S)
      BY FS_Subset, DevsAssumption DEF DevsTyped, DevsAssumption
    <3>2. n \in Nat
      BY <3>1, FS_CardinalityType
    <3>3. IsFiniteSet(1..n) /\ Cardinality(1..n) = n
      BY <3>2, FS_Interval
    <3>4. entries' \in [1..n -> S] /\ \A i, j \in DOMAIN entries' : entries'[i] = entries'[j] => i = j
      BY <1>3 DEF OpenDir
    <3>5. entries' \in Injection(1..n, S)
      BY <3>4 DEF Injection, IsInjective
    <3>6. entries' \in Surjection(1..n, S)
      BY <3>1, <3>3, <3>5, FS_Injection
    <3>7. QED
      BY <3>4, <3>6 DEF Surjection
  <2>4. \A u \in DOMAIN links' : u \in DOMAIN opened' /\ opened'[u] = links'[u]
    BY <2>1
  <2>5. \A k \in 3..Len(localBuff') : \A n \in DevName : localBuff'[k] # n[1]
    BY <2>1 DEF ListedInv
  <2>6. QED
    BY <2>1, <2>2, <2>3, <2>4, <2>5 DEF ListedInv
<1>4. CASE ReadLink
  <2>1. /\ pos = "list" /\ pos' \in {"list", "match", "fstab"}
        /\ LinksStay /\ UNCHANGED <<fstab, links, opened, shown, local, localBuff>>
    BY <1>4 DEF ReadLink, LinksStay
  <2>2. ASSUME NEW u \in DOMAIN links', NEW k \in DOMAIN entries, entries[k] = u
        PROVE  \/ \E j \in DOMAIN entries' : entries'[j] = u
               \/ pos' \in {"fstab", "match"} /\ dev' = u
    <3>1. /\ entries \in Seq(DevUUID) /\ entries # <<>> /\ entries' = Tail(entries)
          /\ Len(entries) \in Nat /\ DOMAIN entries = 1..Len(entries)
      BY <1>4, LenProperties DEF ReadLink, DevsTyped
    <3>2. /\ Tail(entries) \in Seq(DevUUID) /\ Len(Tail(entries)) = Len(entries) - 1
          /\ \A i \in 1..Len(Tail(entries)) : Tail(entries)[i] = entries[i + 1]
      BY <3>1, HeadTailProperties
    <3>3. DOMAIN entries' = 1..(Len(entries) - 1)
      BY <3>1, <3>2, LenProperties
    <3>4. CASE k = 1
      <4>1. Head(entries) = u /\ u \in DOMAIN links
        BY <2>1, <2>2, <3>1, <3>4
      <4>2. QED
        BY <1>4, <4>1 DEF ReadLink
    <3>5. CASE k # 1
      <4>1. k - 1 \in 1..(Len(entries) - 1) /\ (k - 1) + 1 = k
        BY <3>1, <3>5
      <4>2. entries'[k - 1] = u
        BY <2>2, <3>1, <3>2, <4>1
      <4>3. QED
        BY <3>3, <4>1, <4>2
    <3>6. QED
      BY <3>4, <3>5
  <2>3. ASSUME NEW u \in DOMAIN links'
        PROVE  /\ u \in DOMAIN opened' /\ opened'[u] = links'[u]
               /\ \/ u \in shown' \/ Found(u)'
                  \/ \E k \in DOMAIN entries' : entries'[k] = u
                  \/ pos' \in {"fstab", "match"} /\ dev' = u
    BY <1>2, <2>1, <2>2
  <2>4. \A j \in DOMAIN local' : \E i \in DOMAIN fstab' : FromLine(local[j], fstab[i])'
    BY <2>1 DEF ListedInv, FromLine, Texts
  <2>5. QED
    BY <2>1, <2>3, <2>4 DEF ListedInv
<1>5. CASE ReadFstabLine
  <2>1. /\ pos = "fstab" /\ pos' = "fstab" /\ LinksStay
        /\ UNCHANGED <<fstab, links, opened, shown, entries, dev>>
    BY <1>5 DEF ReadFstabLine, LinksStay
  <2>2. \A u \in DOMAIN links' :
          /\ u \in DOMAIN opened' /\ opened'[u] = links'[u]
          /\ \/ u \in shown' \/ Found(u)'
             \/ \E k \in DOMAIN entries' : entries'[k] = u
             \/ pos' \in {"fstab", "match"} /\ dev' = u
    BY <1>2, <2>1
  <2>3. ASSUME NEW j \in DOMAIN local'
        PROVE  \E i \in DOMAIN fstab : FromLine(local'[j], fstab[i])
    <3>1. CASE j \in DOMAIN local /\ local'[j] = local[j]
      BY <3>1 DEF ListedInv
    <3>2. CASE FromLine(local'[j], fstab[at])
      BY <1>5, <3>2, LineRead
    <3>3. QED
      BY <1>5, <3>1, <3>2, EntryFromLine
  <2>4. \A j \in DOMAIN local' : \E i \in DOMAIN fstab' : FromLine(local[j], fstab[i])'
    BY <2>1, <2>3 DEF FromLine, Texts
  <2>5. QED
    BY <1>5, <2>2, <2>4, EntryFromLine DEF ListedInv
<1>6. CASE Match
  <2>1. /\ pos = "match" /\ pos' = "list" /\ LinksStay
        /\ UNCHANGED <<fstab, links, opened, entries, dev, local, localBuff>>
    BY <1>6 DEF Match, LinksStay
  <2>2. ASSUME NEW u \in DOMAIN links', dev = u PROVE u \in shown' \/ Found(u)'
    <3>1. CASE IsLocal(devBuff)
      <4>1. Found(u)
        BY <1>6, <2>1, <2>2, <3>1, MatchFinds
      <4>2. QED
        BY <2>1, <4>1 DEF Found, Texts
    <3>2. CASE ~IsLocal(devBuff)
      BY <1>6, <2>2, <3>2 DEF Match
    <3>3. QED
      BY <3>1, <3>2
  <2>3. ASSUME NEW u \in DOMAIN links'
        PROVE  /\ u \in DOMAIN opened' /\ opened'[u] = links'[u]
               /\ \/ u \in shown' \/ Found(u)'
                  \/ \E k \in DOMAIN entries' : entries'[k] = u
    <3>1. shown \subseteq shown'
      BY <1>6 DEF Match
    <3>2. QED
      BY <1>2, <2>1, <2>2, <3>1
  <2>4. \A j \in DOMAIN local' : \E i \in DOMAIN fstab' : FromLine(local[j], fstab[i])'
    BY <2>1 DEF ListedInv, FromLine, Texts
  <2>5. QED
    BY <2>1, <2>3, <2>4 DEF ListedInv
<1>7. CASE Unplug \/ EndFstab \/ EndDir \/ UNCHANGED devsVars
  <2>1. /\ UNCHANGED <<fstab, opened, entries, shown, dev, local, localBuff>>
        /\ (pos' # "off" => pos # "off")
        /\ (pos \in {"fstab", "match"} => pos' \in {"fstab", "match"})
    BY <1>7 DEF Unplug, EndFstab, EndDir, devsVars
  <2>2. LinksStay
    BY <1>7 DEF Unplug, EndFstab, EndDir, devsVars, LinksStay
  <2>3. ASSUME NEW u \in DOMAIN links', pos' # "off"
        PROVE  /\ u \in DOMAIN opened' /\ opened'[u] = links'[u]
               /\ \/ u \in shown' \/ Found(u)'
                  \/ \E k \in DOMAIN entries' : entries'[k] = u
                  \/ pos' \in {"fstab", "match"} /\ dev' = u
    BY <1>2, <2>1, <2>2, <2>3
  <2>4. \A j \in DOMAIN local' : \E i \in DOMAIN fstab' : FromLine(local[j], fstab[i])'
    BY <2>1 DEF ListedInv, FromLine, Texts
  <2>5. QED
    BY <2>1, <2>3, <2>4 DEF ListedInv
<1>8. CASE Plug \/ EditFstab
  <2>1. /\ pos = "off" /\ pos' = "off" /\ local' = local /\ localBuff' = localBuff /\ local = <<>>
    BY <1>8 DEF Plug, EditFstab, CallInv
  <2>2. DOMAIN local' = {}
    BY <2>1
  <2>3. QED
    BY <2>1, <2>2 DEF ListedInv
<1>9. QED
  BY <1>1, <1>3, <1>4, <1>5, <1>6, <1>7, <1>8 DEF DevsNext, NoFstab, FreeLocal, Return

(* A device that stays is returned, or its name up to the number is in     *)
(* what one line says or leads to: no entry of the list, overwritten or    *)
(* not, and no rest of an earlier target hides one for another reason.     *)
THEOREM OthersListed ==
  ASSUME NamedApart
  PROVE  DevsSpec => []RemovableListed
<1>1. DevsInit => DevsTyped /\ CallInv /\ ListedInv
  <2>1. DevsInit => pos = "off" /\ local = <<>> /\ localBuff = <<>>
    BY DEF DevsInit
  <2>2. ASSUME pos = "off", local = <<>>, localBuff = <<>> PROVE ListedInv
    <3>1. Len(localBuff) = 0
      BY <2>2, EmptySeq
    <3>2. 3..Len(localBuff) = {} /\ DOMAIN local = {}
      BY <2>2, <3>1
    <3>3. QED
      BY <2>2, <3>2 DEF ListedInv
  <2>3. QED
    BY <2>1, <2>2, CallStart
<1>2. DevsTyped /\ CallInv /\ ListedInv /\ [DevsNext]_devsVars
        => DevsTyped' /\ CallInv' /\ ListedInv'
  BY CallSteps, ListedSteps
<1>3. ASSUME CallInv, ListedInv PROVE RemovableListed
  <2>1. SUFFICES ASSUME pos = "done", NEW u \in DOMAIN links PROVE u \in shown \/ Found(u)
    BY DEF RemovableListed, Found
  <2>2. DOMAIN entries = {}
    BY <1>3, <2>1 DEF CallInv
  <2>3. QED
    BY <1>3, <2>1, <2>2 DEF ListedInv
<1>4. QED
  BY <1>1, <1>2, <1>3, PTL DEF DevsSpec
=============================================================================
