---------------------------- MODULE LinesProofs ----------------------------
(***************************************************************************)
(* Every store of readfile() and devs() is within the array, exactly the   *)
(* lists that end before the last memset() did or fill the array have a    *)
(* NULL behind them, and the lines of a file put together again are the    *)
(* file, for every size of the first allocation and of a pointer, every    *)
(* file and every directory.                                               *)
(***************************************************************************)
EXTENDS Lines, Induction, SequenceTheorems, TLAPS

Char == {"char", "newline", "shown", "hidden"}
Cell == {"item", "null", "junk"}

LinesTypeOK ==
  /\ input \in Seq(Char) /\ items \in Seq(Seq(Char)) /\ cells \in Seq(Cell)
  /\ from \in Nat \ {0} /\ upto \in Nat \ {0}
  /\ stage \in {"open", "scan", "done"}

(* The array so far has one of the sizes and holds items, then NULLs as    *)
(* far as the memset() went, and then what malloc() or realloc() left; it  *)
(* was doubled only when it was full of items.                             *)
Filled ==
  /\ \E k \in Nat : Len(cells) = Doubled[k]
  /\ Len(cells) >= Chunk /\ Len(items) <= Len(cells)
  /\ Len(cells) > Chunk => 2 * Len(items) >= Len(cells)
  /\ \A i \in 1..Len(items) : cells[i] = "item"
  /\ \A i \in Len(items) + 1..Len(cells) : cells[i] = IF i <= Known THEN "null" ELSE "junk"

(* A list as it is returned: it can be walked for one of the two reasons   *)
(* of ListEnds, and for no other.                                          *)
Short == Len(items) < Known => Walkable
Full  == (\E k \in 0..Len(items) : Len(items) = Doubled[k]) => Walkable
Open  == Walkable => \/ Len(items) < Known \/ \E k \in 0..Len(items) : Len(items) = Doubled[k]

LinesIInv ==
  /\ LinesTypeOK
  /\ stage = "open" => cells = <<>> /\ items = <<>>
  /\ stage = "scan" => Filled
  /\ stage = "done" /\ items # <<>> => Short /\ Full /\ Open

(* Doubled is the function it is defined to be.                            *)
LEMMA DoubledIs ==
  /\ Doubled \in [Nat -> Nat]
  /\ \A k \in Nat : Doubled[k] = IF k = 0 THEN Chunk ELSE 2 * Doubled[k - 1]
<1> DEFINE rank == [k \in Nat |-> k]
           step == [k \in Nat |->
                      [f \in [Nat -> Nat] |-> IF k = 0 THEN Chunk ELSE 2 * f[k - 1]]]
           Is(f) == f = [k \in Nat |-> IF k = 0 THEN Chunk ELSE 2 * f[k - 1]]
<1>1. Chunk \in Nat
  BY LinesAssumption DEF LinesAssumption
<1>2. Lowers(Nat, Nat, rank, step)
  <2>1. step \in [Nat -> [[Nat -> Nat] -> Nat]]
    BY <1>1
  <2>2. ASSUME NEW k \in Nat, NEW f \in [Nat -> Nat], NEW g \in [Nat -> Nat],
               \A i \in Nat : rank[i] < rank[k] => f[i] = g[i]
        PROVE  step[k][f] = step[k][g]
    BY <2>2
  <2>3. QED
    BY <2>1, <2>2 DEF Lowers
<1>3. Solvable(Nat, Nat, step)
  <2> HIDE DEF step, rank
  <2> QED
    BY <1>1, <1>2, RecursiveFunction
<1>4. PICK f \in [Nat -> Nat] : \A k \in Nat : f[k] = step[k][f]
  BY <1>3 DEF Solvable
<1>5. Is(f)
  BY <1>4
<1>6. Doubled = CHOOSE g : Is(g)
  BY DEF Doubled
<1> HIDE DEF Is
<1>7. Is(Doubled)
  BY <1>5, <1>6
<1> USE DEF Is
<1>8. \A k \in Nat : Doubled[k] = IF k = 0 THEN Chunk ELSE 2 * Doubled[k - 1]
  BY <1>7
<1>9. Doubled = [k \in Nat |-> Doubled[k]]
  BY <1>7
<1> DEFINE T == {k \in Nat : Doubled[k] \in Nat}
<1>10. 0 \in T
  BY <1>1, <1>8
<1>11. ASSUME NEW k \in Nat, k \in T PROVE k + 1 \in T
  BY <1>8, <1>11
<1> HIDE DEF T
<1>12. Nat \subseteq T
  BY <1>10, <1>11, SetInduction
<1>13. \A k \in Nat : Doubled[k] \in Nat
  BY <1>12 DEF T
<1>14. QED
  BY <1>8, <1>9, <1>13

LEMMA DoubledStep ==
  /\ Doubled \in [Nat -> Nat] /\ Doubled[0] = Chunk
  /\ \A k \in Nat : Doubled[k] \in Nat /\ Doubled[k + 1] = 2 * Doubled[k]
<1>1. \A k \in Nat : k + 1 \in Nat /\ k + 1 # 0 /\ (k + 1) - 1 = k
  OBVIOUS
<1>2. QED
  BY <1>1, DoubledIs

(* Nothing between two sizes is a size.                                    *)
LEMMA DoubledGrows ==
  ASSUME NEW j \in Nat, NEW k \in Nat, j < k
  PROVE  2 * Doubled[j] <= Doubled[k]
<1> DEFINE T == {i \in Nat : 2 * Doubled[j] <= Doubled[j + 1 + i]}
<1>1. \A i \in Nat : Doubled[i] \in Nat
  BY DoubledStep
<1>2. 0 \in T
  BY <1>1, DoubledStep
<1>3. ASSUME NEW i \in Nat, i \in T PROVE i + 1 \in T
  <2>1. Doubled[(j + 1 + i) + 1] = 2 * Doubled[j + 1 + i]
    BY DoubledStep
  <2>2. Doubled[j + 1 + i] \in Nat /\ Doubled[j] \in Nat /\ j + 1 + (i + 1) = (j + 1 + i) + 1
    BY <1>1
  <2>3. QED
    BY <1>3, <2>1, <2>2
<1> HIDE DEF T
<1>4. Nat \subseteq T
  BY <1>2, <1>3, SetInduction
<1> USE DEF T
<1> DEFINE i == k - (j + 1)
<1>5. i \in Nat /\ j + 1 + i = k
  OBVIOUS
<1> HIDE DEF i
<1>6. QED
  BY <1>4, <1>5

(* A size is at least the first, and more than its place in the list.      *)
LEMMA DoubledLarge == \A k \in Nat : Doubled[k] >= Chunk /\ Doubled[k] > k
<1>1. Chunk \in Nat \ {0}
  BY LinesAssumption DEF LinesAssumption
<1> DEFINE T == {k \in Nat : Doubled[k] >= Chunk /\ Doubled[k] > k}
<1>2. 0 \in T
  BY <1>1, DoubledStep
<1>3. ASSUME NEW k \in Nat, k \in T PROVE k + 1 \in T
  <2>1. Doubled[k] \in Nat /\ Doubled[k + 1] = 2 * Doubled[k]
    BY DoubledStep
  <2>2. QED
    BY <1>1, <1>3, <2>1
<1> HIDE DEF T
<1>4. Nat \subseteq T
  BY <1>2, <1>3, SetInduction
<1>5. QED
  BY <1>4 DEF T

(* memset() clears no more pointers than bytes.                            *)
LEMMA DivLess ==
  ASSUME NEW a \in Nat, NEW p \in Nat \ {0}
  PROVE  a \div p \in Nat /\ a \div p <= a
<1>1. a \div p \in Int /\ a = p * (a \div p) + (a % p) /\ (a % p) \in 0..p - 1
  OBVIOUS
<1>2. QED
  BY <1>1

LEMMA DivAtLeast ==
  ASSUME NEW a \in Nat, NEW p \in Nat \ {0}, p <= a
  PROVE  a \div p >= 1
<1>1. a \div p \in Int /\ a = p * (a \div p) + (a % p) /\ (a % p) \in 0..p - 1
  OBVIOUS
<1>2. CASE a \div p <= 0
  <2>1. p * (a \div p) <= 0
    BY <1>1, <1>2
  <2>2. QED
    BY <1>1, <2>1
<1>3. QED
  BY <1>1, <1>2

(* Known is within an array of a chunk, or of twice what it was.           *)
LEMMA KnownType == Len(cells) \in Nat => Known \in Nat
<1> SUFFICES ASSUME Len(cells) \in Nat PROVE Known \in Nat
  OBVIOUS
<1>1. Chunk \in Nat /\ Ptr \in Nat \ {0}
  BY LinesAssumption DEF LinesAssumption
<1>2. Chunk \div Ptr \in Nat /\ Len(cells) \div 2 \in Nat
  BY <1>1, DivLess
<1>3. (Len(cells) \div 2) \div Ptr \in Nat
  BY <1>1, <1>2, DivLess
<1>4. QED
  BY <1>1, <1>2, <1>3 DEF Known

(* The array enlarged is an array, and keeps what it held.                 *)
LEMMA EnlargedArray ==
  ASSUME cells \in Seq(Cell), NEW n \in Nat, NEW bytes \in Nat, n >= Len(cells)
  PROVE  /\ Enlarged(n, bytes) \in Seq(Cell) /\ Len(Enlarged(n, bytes)) = n
         /\ \A i \in 1..Len(cells) : Enlarged(n, bytes)[i] = cells[i]
         /\ \A i \in Len(cells) + 1..n :
              Enlarged(n, bytes)[i] = IF i <= Len(cells) + bytes \div Ptr THEN "null" ELSE "junk"
<1>1. Len(cells) \in Nat /\ \A i \in 1..Len(cells) : cells[i] \in Cell
  BY LenProperties, ElementOfSeq
<1>2. \A i \in 1..n : Enlarged(n, bytes)[i] \in Cell
  BY <1>1 DEF Enlarged, Cell
<1>3. Enlarged(n, bytes) \in [1..n -> Cell]
  BY <1>2 DEF Enlarged
<1>4. Enlarged(n, bytes) \in Seq(Cell)
  BY <1>3
<1>5. Len(Enlarged(n, bytes)) = n
  BY <1>3, <1>4, LenProperties
<1>6. QED
  BY <1>1, <1>4, <1>5 DEF Enlarged

(* Room for one more: the doubled array is cleared as far as Known says.   *)
LEMMA RoomyArray ==
  ASSUME LinesTypeOK, Filled, caller' = caller, Len(cells') = Len(Roomy)
  PROVE  /\ Roomy \in Seq(Cell) /\ Len(Roomy) \in Nat
         /\ \E k \in Nat : Len(Roomy) = Doubled[k]
         /\ Len(items) < Len(Roomy) /\ Len(Roomy) >= Chunk
         /\ Len(Roomy) > Chunk => 2 * Len(items) >= Len(Roomy)
         /\ \A i \in 1..Len(items) : Roomy[i] = "item"
         /\ \A i \in Len(items) + 1..Len(Roomy) :
              Roomy[i] = IF i <= Known' THEN "null" ELSE "junk"
<1>1. Chunk \in Nat \ {0} /\ Ptr \in Nat \ {0}
  BY LinesAssumption DEF LinesAssumption
<1>2. Len(items) \in Nat /\ Len(cells) \in Nat
  BY LenProperties DEF LinesTypeOK
<1>3. CASE Len(items) = Len(cells)
  <2> DEFINE n == Len(cells)
  <2>1. n \in Nat \ {0} /\ n >= Chunk
    BY <1>1, <1>2 DEF Filled
  <2>2. Roomy = Enlarged(2 * n, n)
    <3>1. 2 * n - Len(items) = n
      BY <1>2, <1>3
    <3>2. QED
      BY <1>3, <3>1 DEF Roomy
  <2>3. /\ Roomy \in Seq(Cell) /\ Len(Roomy) = 2 * n
        /\ \A i \in 1..n : Roomy[i] = cells[i]
        /\ \A i \in n + 1..2 * n : Roomy[i] = IF i <= n + n \div Ptr THEN "null" ELSE "junk"
    BY <2>1, <2>2, EnlargedArray DEF LinesTypeOK
  <2>4. Known' = n + n \div Ptr
    <3>1. Len(cells') = 2 * n /\ 2 * n # Chunk /\ (2 * n) \div 2 = n
      BY <2>1, <2>3, <1>1
    <3>2. QED
      BY <3>1 DEF Known
  <2>5. \E k \in Nat : Len(Roomy) = Doubled[k]
    <3>1. PICK k \in Nat : n = Doubled[k]
      BY DEF Filled
    <3>2. Len(Roomy) = Doubled[k + 1] /\ k + 1 \in Nat
      BY <2>3, <3>1, DoubledStep
    <3>3. QED
      BY <3>2
  <2>6. \A i \in 1..n : cells[i] = "item"
    BY <1>3 DEF Filled
  <2> HIDE DEF n
  <2>7. /\ \A i \in 1..n : Roomy[i] = "item"
        /\ \A i \in n + 1..2 * n : Roomy[i] = IF i <= Known' THEN "null" ELSE "junk"
    BY <2>3, <2>4, <2>6
  <2>8. n < Len(Roomy) /\ Len(Roomy) >= Chunk /\ 2 * n >= Len(Roomy)
    BY <1>1, <2>1, <2>3
  <2>9. QED
    BY <1>3, <2>1, <2>3, <2>5, <2>7, <2>8 DEF n
<1>4. CASE Len(items) # Len(cells)
  <2>1. Roomy = cells
    BY <1>4 DEF Roomy
  <2>2. Known' = Known
    BY <2>1 DEF Known
  <2>3. \E k \in Nat : Len(Roomy) = Doubled[k]
    BY <2>1 DEF Filled
  <2>4. /\ Len(items) < Len(Roomy) /\ Len(Roomy) >= Chunk
        /\ Len(Roomy) > Chunk => 2 * Len(items) >= Len(Roomy)
    BY <1>2, <1>4, <2>1 DEF Filled
  <2>5. /\ \A i \in 1..Len(items) : Roomy[i] = "item"
        /\ \A i \in Len(items) + 1..Len(Roomy) :
             Roomy[i] = IF i <= Known' THEN "null" ELSE "junk"
    BY <2>1, <2>2 DEF Filled
  <2>6. QED
    BY <1>2, <2>1, <2>3, <2>4, <2>5 DEF LinesTypeOK
<1>5. QED
  BY <1>3, <1>4

(* The first array.                                                        *)
LEMMA FirstArray ==
  ASSUME LinesTypeOK, cells = <<>>, items = <<>>, items' = items, caller' = caller,
         NEW bytes \in Nat, cells' = Enlarged(Chunk, bytes),
         (IF caller = "devs" THEN Chunk ELSE Chunk \div Ptr) = bytes \div Ptr
  PROVE  cells' \in Seq(Cell) /\ Filled'
<1>1. Chunk \in Nat \ {0} /\ Ptr \in Nat \ {0}
  BY LinesAssumption DEF LinesAssumption
<1>2. Len(cells) = 0 /\ Len(items) = 0
  BY EmptySeq
<1>3. /\ cells' \in Seq(Cell) /\ Len(cells') = Chunk
      /\ \A i \in 1..Chunk : cells'[i] = IF i <= bytes \div Ptr THEN "null" ELSE "junk"
  <2>1. cells \in Seq(Cell) /\ Chunk \in Nat /\ Chunk >= Len(cells)
    BY <1>1, <1>2 DEF LinesTypeOK
  <2>2. /\ cells' \in Seq(Cell) /\ Len(cells') = Chunk
        /\ \A i \in Len(cells) + 1..Chunk :
             cells'[i] = IF i <= Len(cells) + bytes \div Ptr THEN "null" ELSE "junk"
    <3> DEFINE e == Enlarged(Chunk, bytes)
    <3>1. /\ e \in Seq(Cell) /\ Len(e) = Chunk
          /\ \A i \in Len(cells) + 1..Chunk :
               e[i] = IF i <= Len(cells) + bytes \div Ptr THEN "null" ELSE "junk"
      BY <2>1, EnlargedArray
    <3>2. cells' = e
      OBVIOUS
    <3> HIDE DEF e
    <3>3. QED
      BY <3>1, <3>2
  <2>3. bytes \div Ptr \in Nat
    BY <1>1, DivLess
  <2>4. Len(cells) + 1 = 1 /\ Len(cells) + bytes \div Ptr = bytes \div Ptr
    BY <1>2, <2>3
  <2>5. QED
    BY <2>2, <2>4
<1>4. Known' = IF caller = "devs" THEN Chunk ELSE Chunk \div Ptr
  BY <1>3 DEF Known
<1>5. Known' = bytes \div Ptr /\ bytes \div Ptr \in Nat
  BY <1>1, <1>4, DivLess
<1>6. \E k \in Nat : Len(cells') = Doubled[k]
  BY <1>3, DoubledStep
<1>7. QED
  BY <1>1, <1>2, <1>3, <1>5, <1>6 DEF Filled

(* A list that fills the array has the length of one of its sizes.         *)
LEMMA FullSize ==
  ASSUME LinesTypeOK, Filled, Len(items) = Len(cells)
  PROVE  \E k \in 0..Len(items) : Len(items) = Doubled[k]
<1>1. PICK k \in Nat : Len(items) = Doubled[k]
  BY DEF Filled
<1>2. Len(items) \in Nat /\ k < Len(items)
  BY <1>1, DoubledLarge, LenProperties DEF LinesTypeOK
<1>3. QED
  BY <1>1, <1>2

(* A list that leaves room ends with a NULL if it is within Known; at the  *)
(* length of a size it is, because a size was doubled when it was full.    *)
LEMMA ListEnded ==
  ASSUME LinesTypeOK, Filled, Len(items) # Len(cells)
  PROVE  Short /\ Full /\ Open
<1> DEFINE n == Len(items)
           m == Len(cells)
<1>1. n \in Nat /\ m \in Nat /\ n < m /\ Known \in Nat
  BY LenProperties, KnownType DEF LinesTypeOK, Filled
<1>2. cells[n + 1] = IF n + 1 <= Known THEN "null" ELSE "junk"
  BY <1>1 DEF Filled
<1>3. Walkable <=> n < Known
  <2>1. Walkable <=> cells[n + 1] = "null"
    BY <1>1 DEF Walkable, Filled
  <2>2. QED
    BY <1>1, <1>2, <2>1
<1>4. ASSUME NEW k \in Nat, n = Doubled[k] PROVE n < Known
  <2>1. PICK j \in Nat : m = Doubled[j]
    BY DEF Filled
  <2>2. Chunk \in Nat /\ Ptr \in Nat \ {0} /\ Ptr <= Chunk /\ n >= Chunk /\ m > Chunk
    BY <1>1, <1>4, DoubledLarge, LinesAssumption DEF LinesAssumption
  <2>3. 2 * n >= m
    BY <2>2 DEF Filled
  <2>4. k < j
    <3>1. j < k => 2 * m <= n
      BY <1>4, <2>1, DoubledGrows
    <3>2. j # k
      BY <1>1, <1>4, <2>1
    <3>3. QED
      BY <1>1, <2>2, <3>1, <3>2
  <2>5. m = 2 * n
    BY <1>1, <1>4, <2>1, <2>3, <2>4, DoubledGrows
  <2>6. Known = n + n \div Ptr
    BY <1>1, <2>2, <2>5 DEF Known
  <2>7. n \div Ptr >= 1
    BY <1>1, <2>2, DivAtLeast
  <2>8. n \div Ptr \in Nat
    BY <1>1, <2>2, DivLess
  <2>9. QED
    BY <1>1, <2>6, <2>7, <2>8
<1>5. QED
  BY <1>3, <1>4 DEF Short, Full, Open

LEMMA LinesSteps == LinesIInv /\ [LinesNext]_linesVars => LinesIInv'
<1> SUFFICES ASSUME LinesIInv, [LinesNext]_linesVars PROVE LinesIInv'
  OBVIOUS
<1>1. Chunk \in Nat \ {0} /\ Ptr \in Nat \ {0}
  BY LinesAssumption DEF LinesAssumption
<1>2. LinesTypeOK /\ Len(items) \in Nat /\ Len(cells) \in Nat
  BY LenProperties DEF LinesIInv, LinesTypeOK
<1>3. CASE LinesNothing
  <2>1. cells' \in Seq(Cell) /\ items' = <<>> /\ stage' = "done"
    BY <1>3 DEF LinesNothing, Cell, LinesIInv
  <2>2. QED
    BY <1>3, <2>1 DEF LinesNothing, LinesIInv, LinesTypeOK
<1>4. CASE ReadWhole
  <2>1. input' \in Seq(Char)
    BY <1>2, <1>4, AppendProperties DEF ReadWhole, LinesTypeOK, Char
  <2>2. cells' = Enlarged(Chunk, Chunk) /\ caller = "readfile"
    BY <1>4 DEF ReadWhole
  <2>3. cells' \in Seq(Cell) /\ Filled'
    BY <1>1, <1>2, <1>4, <2>2, FirstArray DEF ReadWhole, LinesIInv
  <2>4. QED
    BY <1>2, <1>4, <2>1, <2>3 DEF ReadWhole, LinesIInv, LinesTypeOK
<1>5. CASE OpenDirectory
  <2>1. (Chunk * Ptr) \div Ptr = Chunk /\ Chunk * Ptr \in Nat
    BY <1>1
  <2>2. cells' = Enlarged(Chunk, Chunk * Ptr) /\ caller = "devs"
    BY <1>5 DEF OpenDirectory
  <2>3. cells' \in Seq(Cell) /\ Filled'
    BY <1>2, <1>5, <2>1, <2>2, FirstArray DEF OpenDirectory, LinesIInv
  <2>4. QED
    BY <1>2, <1>5, <2>3 DEF OpenDirectory, LinesIInv, LinesTypeOK
<1>6. CASE StoreItem
  <2>1. Filled /\ caller' = caller /\ cells' = [Roomy EXCEPT ![Len(items) + 1] = "item"]
    BY <1>6 DEF StoreItem, LinesIInv
  <2>2. DOMAIN Roomy = DOMAIN cells'
    BY <2>1
  <2>3. SubSeq(input, from, upto - 1) \in Seq(Char)
    <3>1. Len(input) \in Nat /\ upto <= Len(input) /\ from \in Nat \ {0} /\ upto \in Nat \ {0}
      BY <1>2, <1>6, LenProperties DEF StoreItem, LinesTypeOK
    <3>2. \A i \in from..upto - 1 : input[i] \in Char
      BY <1>2, <3>1, ElementOfSeq DEF LinesTypeOK
    <3>3. QED
      BY <3>1, <3>2, SubSeqProperties
  <2>4. items' \in Seq(Seq(Char)) /\ Len(items') = Len(items) + 1
    BY <1>2, <1>6, <2>3, AppendProperties DEF StoreItem, LinesTypeOK
  <2>5. Roomy \in Seq(Cell) /\ Len(items) + 1 \in 1..Len(Roomy)
    <3>1. CASE Len(items) = Len(cells)
      <4>1. Len(cells) >= Chunk
        BY <2>1 DEF Filled
      <4>2. /\ 2 * Len(cells) - Len(items) \in Nat /\ 2 * Len(cells) \in Nat
            /\ 2 * Len(cells) >= Len(cells) /\ Len(cells) + 1 \in 1..2 * Len(cells)
        BY <1>1, <1>2, <3>1, <4>1
      <4>3. Roomy = Enlarged(2 * Len(cells), 2 * Len(cells) - Len(items))
        BY <3>1 DEF Roomy
      <4>4. Roomy \in Seq(Cell) /\ Len(Roomy) = 2 * Len(cells)
        BY <1>2, <4>2, <4>3, EnlargedArray DEF LinesTypeOK
      <4>5. QED
        BY <3>1, <4>2, <4>4
    <3>2. CASE Len(items) # Len(cells)
      BY <1>2, <2>1, <3>2 DEF Roomy, Filled, LinesTypeOK
    <3>3. QED
      BY <3>1, <3>2
  <2>6. /\ cells' \in Seq(Cell) /\ Len(cells') = Len(Roomy)
        /\ \A j \in 1..Len(Roomy) : cells'[j] = IF j = Len(items) + 1 THEN "item" ELSE Roomy[j]
    BY <2>1, <2>5, ExceptSeq DEF Cell
  <2>7. /\ \E k \in Nat : Len(Roomy) = Doubled[k]
        /\ Len(Roomy) \in Nat /\ Len(Roomy) >= Chunk
        /\ Len(Roomy) > Chunk => 2 * Len(items) >= Len(Roomy)
        /\ \A i \in 1..Len(items) : Roomy[i] = "item"
        /\ \A i \in Len(items) + 1..Len(Roomy) :
             Roomy[i] = IF i <= Known' THEN "null" ELSE "junk"
    BY <1>2, <2>1, <2>6, RoomyArray
  <2>8. Filled'
    <3>1. \A i \in 1..Len(items) + 1 : cells'[i] = "item"
      BY <1>2, <2>5, <2>6, <2>7
    <3>2. \A i \in Len(items) + 2..Len(Roomy) :
            cells'[i] = IF i <= Known' THEN "null" ELSE "junk"
      BY <1>2, <2>6, <2>7
    <3>3. /\ Len(cells') >= Chunk /\ Len(items') <= Len(cells')
          /\ Len(cells') > Chunk => 2 * Len(items') >= Len(cells')
      BY <1>2, <2>4, <2>5, <2>6, <2>7
    <3>4. Len(items') + 1 = Len(items) + 2
      BY <1>2, <2>4
    <3>5. QED
      BY <2>4, <2>6, <2>7, <3>1, <3>2, <3>3, <3>4 DEF Filled
  <2>9. from' \in Nat \ {0} /\ upto' \in Nat \ {0} /\ stage' = "scan" /\ input' = input
    BY <1>2, <1>6 DEF StoreItem, LinesTypeOK
  <2>10. QED
    BY <1>2, <2>4, <2>6, <2>8, <2>9 DEF LinesIInv, LinesTypeOK
<1>7. CASE PassChar
  <2>1. Known' = Known
    BY <1>7 DEF PassChar, Known
  <2>2. QED
    BY <1>2, <1>7, <2>1 DEF PassChar, LinesIInv, LinesTypeOK, Filled
<1>8. CASE PassEntry
  <2>1. Filled /\ caller' = caller /\ cells' = Roomy /\ Len(cells') = Len(Roomy) /\ items' = items
    BY <1>8 DEF PassEntry, LinesIInv
  <2>2. /\ Roomy \in Seq(Cell) /\ Len(Roomy) \in Nat
        /\ \E k \in Nat : Len(Roomy) = Doubled[k]
        /\ Len(items) < Len(Roomy) /\ Len(Roomy) >= Chunk
        /\ Len(Roomy) > Chunk => 2 * Len(items) >= Len(Roomy)
        /\ \A i \in 1..Len(items) : Roomy[i] = "item"
        /\ \A i \in Len(items) + 1..Len(Roomy) :
             Roomy[i] = IF i <= Known' THEN "null" ELSE "junk"
    BY <1>2, <2>1, RoomyArray
  <2>3. Filled'
    BY <1>2, <2>1, <2>2 DEF Filled
  <2>4. from' \in Nat \ {0} /\ upto' \in Nat \ {0} /\ stage' = "scan" /\ input' = input
    BY <1>2, <1>8 DEF PassEntry, LinesTypeOK
  <2>5. QED
    BY <1>2, <2>1, <2>2, <2>3, <2>4 DEF LinesIInv, LinesTypeOK
<1>9. CASE EndList
  <2>1. Filled /\ items' = items /\ caller' = caller /\ stage' = "done"
    BY <1>9 DEF EndList, LinesIInv
  <2>2. CASE Len(items) = Len(cells)
    <3>1. cells' = Append(cells, "null")
      BY <1>9, <2>2 DEF EndList
    <3>2. /\ cells' \in Seq(Cell) /\ Len(cells') = Len(cells) + 1
          /\ \A i \in 1..Len(cells) : cells'[i] = cells[i]
          /\ cells'[Len(cells) + 1] = "null"
      BY <1>2, <3>1, AppendProperties DEF LinesTypeOK, Cell
    <3>3. Walkable'
      BY <1>2, <2>1, <2>2, <3>2 DEF Walkable, Filled
    <3>4. \E k \in 0..Len(items') : Len(items') = Doubled[k]
      BY <1>2, <2>1, <2>2, FullSize
    <3>5. QED
      BY <1>2, <1>9, <2>1, <3>2, <3>3, <3>4 DEF EndList, LinesIInv, LinesTypeOK, Short, Full, Open
  <2>3. CASE Len(items) # Len(cells)
    <3>1. cells' = cells /\ Known' = Known /\ Walkable' = Walkable
      BY <1>9, <2>1, <2>3 DEF EndList, Known, Walkable
    <3>2. Short /\ Full /\ Open
      BY <1>2, <2>1, <2>3, ListEnded
    <3>3. Short' /\ Full' /\ Open'
      BY <2>1, <3>1, <3>2 DEF Short, Full, Open
    <3>4. QED
      BY <1>2, <1>9, <2>1, <3>1, <3>3 DEF EndList, LinesIInv, LinesTypeOK
  <2>4. QED
    BY <2>2, <2>3
<1>10. CASE UNCHANGED linesVars
  <2>1. Known' = Known
    BY <1>10 DEF linesVars, Known
  <2>2. QED
    BY <1>10, <2>1 DEF linesVars, LinesIInv, LinesTypeOK, Filled, Short, Full, Open, Walkable
<1>11. QED
  BY <1>3, <1>4, <1>5, <1>6, <1>7, <1>8, <1>9, <1>10 DEF LinesNext

LEMMA LinesStart == LinesInit => LinesIInv
<1> SUFFICES ASSUME LinesInit PROVE LinesIInv
  OBVIOUS
<1>1. PICK n \in 0..MaxInput : input \in [1..n -> Alphabet(caller)]
  BY DEF LinesInit
<1>2. Alphabet(caller) \subseteq Char /\ n \in Nat
  BY LinesAssumption DEF LinesInit, Alphabet, Char, LinesAssumption
<1>3. input \in Seq(Char)
  BY <1>1, <1>2
<1>4. items \in Seq(Seq(Char)) /\ cells \in Seq(Cell)
  BY EmptySeq DEF LinesInit
<1>5. QED
  BY <1>3, <1>4 DEF LinesInit, LinesIInv, LinesTypeOK

(* No store is outside the array, and a list that ends before the last     *)
(* memset() did ends with a NULL: with real sizes, up to 127 lines of a    *)
(* file and 1023 links of the directory.                                   *)
THEOREM ShortListsEnd ==
  LinesSpec => [](/\ stage = "scan" => Len(items) <= Len(cells)
                  /\ stage = "done" /\ items # <<>> /\ Len(items) < Known => Walkable)
<1>1. LinesIInv => /\ stage = "scan" => Len(items) <= Len(cells)
                   /\ stage = "done" /\ items # <<>> /\ Len(items) < Known => Walkable
  BY DEF LinesIInv, Filled, Short
<1>2. QED
  BY <1>1, LinesStart, LinesSteps, PTL DEF LinesSpec

(* A list that is returned can be walked to a NULL exactly if it is short  *)
(* or as long as one of the sizes of the array: with real sizes, readfile()*)
(* leaves garbage behind 128 to 1023, 1152 to 2047, ... lines, and devs()  *)
(* behind 1152 to 2047, ... links.                                         *)
THEOREM ListsEndExactly == LinesSpec => []ListEnds
<1>1. LinesIInv => ListEnds
  BY DEF LinesIInv, ListEnds, Short, Full, Open
<1>2. QED
  BY <1>1, LinesStart, LinesSteps, PTL DEF LinesSpec
-----------------------------------------------------------------------------
(* f holds the texts of the first lines of L, one after the other; L gives *)
(* the last of them.                                                       *)
Joined(L, f) ==
  /\ f \in [0..Len(L) -> Seq(Char)] /\ f[0] = <<>>
  /\ \A i \in 1..Len(L) : f[i] = f[i - 1] \o Append(L[i], "newline")

Gives(L, text) == \E f : Joined(L, f) /\ f[Len(L)] = text

(* What is read of the file so far is in the lines; the rest of it, which  *)
(* is begun at from, has no newline yet.                                   *)
Splitting ==
  /\ input \in Seq({"char", "newline"}) /\ input # <<>> /\ input[Len(input)] = "newline"
  /\ from <= upto /\ upto <= Len(input) + 1
  /\ \A i \in from..upto - 1 : input[i] # "newline"
  /\ Gives(items, SubSeq(input, 1, from - 1))

SplitIInv ==
  /\ LinesIInv
  /\ stage = "open" => items = <<>> /\ from = 1 /\ upto = 1 /\ status = 0
  /\ caller = "readfile" =>
       /\ stage = "open" => input \in Seq({"char", "newline"})
       /\ stage = "scan" => Splitting
       /\ stage = "done" /\ status = 1 => Gives(items, input)

(* No line makes no text.                                                  *)
LEMMA GivesNothing == Gives(<<>>, <<>>)
<1> DEFINE f == [i \in 0..0 |-> <<>>]
<1>1. Len(<<>>) = 0 /\ <<>> \in Seq(Char)
  BY EmptySeq
<1>2. f \in [0..0 -> Seq(Char)] /\ f[0] = <<>> /\ 1..0 = {}
  BY <1>1
<1> HIDE DEF f
<1>3. Joined(<<>>, f)
  BY <1>1, <1>2 DEF Joined
<1>4. QED
  BY <1>1, <1>2, <1>3 DEF Gives

(* One line more adds its text and a newline.                              *)
LEMMA GivesLine ==
  ASSUME NEW L \in Seq(Seq(Char)), NEW line \in Seq(Char), NEW text, Gives(L, text)
  PROVE  Gives(Append(L, line), text \o Append(line, "newline"))
<1> DEFINE M == Append(L, line)
           n == Len(L)
<1>1. PICK f : Joined(L, f) /\ f[n] = text
  BY DEF Gives
<1> DEFINE g == [i \in 0..n + 1 |-> IF i <= n THEN f[i] ELSE text \o Append(line, "newline")]
<1>2. n \in Nat /\ text \in Seq(Char) /\ f \in [0..n -> Seq(Char)]
  <2>1. n \in Nat
    BY LenProperties
  <2>2. f \in [0..n -> Seq(Char)]
    BY <1>1 DEF Joined
  <2> HIDE DEF n
  <2>3. n \in 0..n
    BY <2>1
  <2>4. QED
    BY <1>1, <2>1, <2>2, <2>3
<1>3. text \o Append(line, "newline") \in Seq(Char)
  BY <1>2, AppendProperties, ConcatProperties DEF Char
<1>4. Len(M) = n + 1 /\ M[n + 1] = line /\ \A i \in 1..n : M[i] = L[i]
  BY AppendProperties
<1>5. g \in [0..n + 1 -> Seq(Char)] /\ g[0] = <<>>
  BY <1>1, <1>2, <1>3 DEF Joined
<1>6. g[n + 1] = text \o Append(line, "newline")
  <2>1. n + 1 \in 0..n + 1 /\ ~(n + 1 <= n)
    BY <1>2
  <2>2. QED
    BY <2>1
<1>7. ASSUME NEW i \in 1..n + 1 PROVE g[i] = g[i - 1] \o Append(M[i], "newline")
  <2>1. CASE i = n + 1
    <3>1. g[i] = text \o Append(line, "newline") /\ M[i] = line
      BY <1>4, <1>6, <2>1
    <3>2. i - 1 = n /\ n \in 0..n + 1 /\ n <= n
      BY <1>2, <2>1
    <3>3. g[i - 1] = text
      BY <1>1, <3>2
    <3>4. QED
      BY <3>1, <3>3
  <2>2. CASE i # n + 1
    <3>1. i \in 1..n /\ i \in 0..n + 1 /\ i - 1 \in 0..n + 1 /\ i <= n /\ i - 1 <= n
      BY <1>2, <2>2
    <3>2. g[i] = f[i] /\ g[i - 1] = f[i - 1]
      BY <3>1
    <3>3. QED
      BY <1>1, <1>4, <3>1, <3>2 DEF Joined
  <2>3. QED
    BY <2>1, <2>2
<1> HIDE DEF g
<1>8. Joined(M, g)
  BY <1>4, <1>5, <1>7 DEF Joined
<1>9. QED
  BY <1>4, <1>6, <1>8 DEF Gives

(* A newline ends the line that is begun.                                  *)
LEMMA ReadLine ==
  ASSUME LinesTypeOK, Splitting, upto <= Len(input), input[upto] = "newline"
  PROVE  Gives(Append(items, SubSeq(input, from, upto - 1)), SubSeq(input, 1, upto))
<1> DEFINE line == SubSeq(input, from, upto - 1)
<1>1. /\ Len(input) \in Nat /\ \A i \in 1..Len(input) : input[i] \in Char
      /\ input \in Seq(Char) /\ from \in Nat \ {0} /\ upto \in Nat \ {0} /\ from <= upto
  BY LenProperties, ElementOfSeq DEF LinesTypeOK, Splitting
<1>2. line \in Seq(Char)
  BY <1>1, SubSeqProperties
<1>3. Gives(Append(items, line), SubSeq(input, 1, from - 1) \o Append(line, "newline"))
  BY <1>2, GivesLine DEF LinesTypeOK, Splitting
<1>4. Append(line, "newline") = SubSeq(input, from, upto)
  <2>1. SubSeq(input, from, upto) = line \o <<input[upto]>>
    BY <1>1, SubSeqRecursiveSecond
  <2>2. QED
    BY <1>2, <2>1, AppendIsConcat DEF Char
<1>5. SubSeq(input, 1, from - 1) \o SubSeq(input, (from - 1) + 1, upto) = SubSeq(input, 1, upto)
  <2>1. 1 \in 1..Len(input) + 1 /\ from - 1 \in 1 - 1..Len(input) /\ upto \in from - 1..Len(input)
    BY <1>1
  <2>2. QED
    BY <1>1, <2>1, ConcatAdjacentSubSeq
<1>6. (from - 1) + 1 = from
  BY <1>1
<1>7. QED
  BY <1>3, <1>4, <1>5, <1>6

(* When the scan is at the end, nothing is begun.                          *)
LEMMA ReadAll ==
  ASSUME LinesTypeOK, Splitting, upto > Len(input)
  PROVE  Gives(items, input)
<1>1. Len(input) \in Nat /\ input \in Seq(Char) /\ from \in Nat \ {0} /\ upto \in Nat
  BY LenProperties DEF LinesTypeOK
<1>2. from = Len(input) + 1
  <2>1. CASE from <= Len(input)
    <3>1. Len(input) \in from..upto - 1
      BY <1>1, <2>1
    <3>2. QED
      BY <3>1 DEF Splitting
  <2>2. QED
    BY <1>1, <2>1 DEF Splitting
<1>3. SubSeq(input, 1, from - 1) = input
  <2>1. from - 1 = Len(input)
    BY <1>1, <1>2
  <2>2. QED
    BY <1>1, <2>1, SubSeqFull
<1>4. QED
  BY <1>3 DEF Splitting

LEMMA SplitSteps == SplitIInv /\ [LinesNext]_linesVars => SplitIInv'
<1> SUFFICES ASSUME SplitIInv, [LinesNext]_linesVars PROVE SplitIInv'
  OBVIOUS
<1>1. LinesIInv /\ LinesIInv' /\ LinesTypeOK
  BY LinesSteps DEF SplitIInv, LinesIInv
<1>2. /\ Len(input) \in Nat /\ from \in Nat \ {0} /\ upto \in Nat \ {0}
      /\ \A i \in 1..Len(input) : input[i] \in Char
  BY <1>1, LenProperties, ElementOfSeq DEF LinesTypeOK
<1>3. CASE LinesNothing
  <2>1. CASE input = <<>>
    <3>1. Gives(items', input')
      BY <1>3, <2>1, GivesNothing DEF LinesNothing, SplitIInv
    <3>2. QED
      BY <1>1, <1>3, <3>1 DEF LinesNothing, SplitIInv
  <2>2. CASE input # <<>>
    <3>1. status' # 1
      BY <1>3, <2>2 DEF LinesNothing
    <3>2. QED
      BY <1>1, <1>3, <3>1 DEF LinesNothing, SplitIInv
  <2>3. QED
    BY <2>1, <2>2
<1>4. CASE ReadWhole
  <2>1. input \in Seq({"char", "newline"}) /\ input # <<>> /\ caller = "readfile"
    BY <1>4 DEF ReadWhole, SplitIInv
  <2>2. /\ input' \in Seq({"char", "newline"}) /\ input' # <<>>
        /\ input'[Len(input')] = "newline" /\ Len(input') \in Nat
    <3>1. CASE input[Len(input)] = "newline"
      BY <1>2, <1>4, <2>1, <3>1 DEF ReadWhole
    <3>2. CASE input[Len(input)] # "newline"
      <4>1. input' = Append(input, "newline")
        BY <1>4, <3>2 DEF ReadWhole
      <4>2. QED
        BY <1>2, <2>1, <4>1, AppendProperties
    <3>3. QED
      BY <3>1, <3>2
  <2>3. items' = <<>> /\ from' = 1 /\ upto' = 1 /\ stage' = "scan" /\ caller' = caller
    BY <1>4 DEF ReadWhole, SplitIInv
  <2>4. SubSeq(input', 1, 0) = <<>> /\ 1 - 1 = 0
    BY SubSeqEmpty
  <2>5. Gives(items', SubSeq(input', 1, from' - 1))
    BY <2>3, <2>4, GivesNothing
  <2>6. /\ from' <= upto' /\ upto' <= Len(input') + 1
        /\ \A i \in from'..upto' - 1 : input'[i] # "newline"
    BY <2>2, <2>3
  <2>7. Splitting'
    BY <2>2, <2>5, <2>6 DEF Splitting
  <2>8. QED
    BY <1>1, <2>3, <2>7 DEF SplitIInv
<1>5. CASE OpenDirectory
  BY <1>1, <1>5 DEF OpenDirectory, SplitIInv
<1>6. CASE StoreItem
  <2>1. stage = "scan" /\ stage' = "scan" /\ caller' = caller /\ input' = input
    BY <1>6 DEF StoreItem
  <2>2. CASE caller = "readfile"
    <3>1. Splitting
      BY <2>1, <2>2 DEF SplitIInv
    <3>2. upto <= Len(input) /\ input[upto] = "newline"
      <4>1. upto <= Len(input) /\ input[upto] \in {"char", "newline"}
        BY <1>2, <1>6, <3>1, ElementOfSeq DEF StoreItem, Splitting
      <4>2. QED
        BY <1>6, <4>1 DEF StoreItem, Ends
    <3>3. Gives(items', SubSeq(input, 1, upto))
      BY <1>1, <1>6, <3>1, <3>2, ReadLine DEF StoreItem
    <3>4. from' = upto + 1 /\ upto' = upto + 1 /\ (upto + 1) - 1 = upto
      BY <1>2, <1>6 DEF StoreItem
    <3>5. Splitting'
      BY <1>2, <2>1, <3>1, <3>2, <3>3, <3>4 DEF Splitting
    <3>6. QED
      BY <1>1, <2>1, <2>2, <3>5 DEF SplitIInv
  <2>3. QED
    BY <1>1, <2>1, <2>2 DEF SplitIInv
<1>7. CASE PassChar
  <2>1. /\ stage = "scan" /\ stage' = "scan" /\ caller' = caller /\ caller = "readfile"
        /\ input' = input /\ items' = items /\ from' = from /\ upto' = upto + 1
        /\ upto <= Len(input) /\ input[upto] # "newline"
    BY <1>7 DEF PassChar, Ends
  <2>2. Splitting
    BY <2>1 DEF SplitIInv
  <2>3. \A i \in from..(upto + 1) - 1 : input[i] # "newline"
    BY <1>2, <2>1, <2>2 DEF Splitting
  <2>4. from <= upto + 1 /\ upto + 1 <= Len(input) + 1
    BY <1>2, <2>1, <2>2 DEF Splitting
  <2>5. Splitting'
    BY <2>1, <2>2, <2>3, <2>4 DEF Splitting
  <2>6. QED
    BY <1>1, <2>1, <2>5 DEF SplitIInv
<1>8. CASE PassEntry
  BY <1>1, <1>8 DEF PassEntry, SplitIInv
<1>9. CASE EndList
  <2>1. /\ stage = "scan" /\ stage' = "done" /\ caller' = caller
        /\ input' = input /\ items' = items /\ upto > Len(input)
    BY <1>9 DEF EndList
  <2>2. caller = "readfile" => Gives(items, input)
    BY <1>1, <2>1, ReadAll DEF SplitIInv
  <2>3. QED
    BY <1>1, <2>1, <2>2 DEF SplitIInv
<1>10. CASE UNCHANGED linesVars
  BY <1>1, <1>10 DEF linesVars, SplitIInv, Splitting
<1>11. QED
  BY <1>3, <1>4, <1>5, <1>6, <1>7, <1>8, <1>9, <1>10 DEF LinesNext

LEMMA SplitStart == LinesInit => SplitIInv
<1> SUFFICES ASSUME LinesInit PROVE SplitIInv
  OBVIOUS
<1>1. LinesIInv
  BY LinesStart
<1>2. PICK n \in 0..MaxInput : input \in [1..n -> Alphabet(caller)]
  BY DEF LinesInit
<1>3. n \in Nat
  BY LinesAssumption DEF LinesAssumption
<1>4. caller = "readfile" => input \in Seq({"char", "newline"})
  BY <1>2, <1>3 DEF Alphabet
<1>5. QED
  BY <1>1, <1>4 DEF LinesInit, SplitIInv

(* Text puts together what the lines give.                                 *)
LEMMA TextIsGiven ==
  ASSUME items \in Seq(Seq(Char)), NEW t, Gives(items, t)
  PROVE  Text(Len(items)) = t
<1> DEFINE n == Len(items)
           Is(g) == g = [i \in 0..n |-> IF i = 0 THEN <<>>
                                        ELSE g[i - 1] \o Append(items[i], "newline")]
           text == CHOOSE g : Is(g)
<1>1. n \in Nat
  BY LenProperties
<1>2. PICK f : Joined(items, f) /\ f[n] = t
  BY DEF Gives
<1>3. Is(f)
  <2>1. f \in [0..n -> Seq(Char)] /\ f[0] = <<>>
    BY <1>2 DEF Joined
  <2>2. ASSUME NEW i \in 0..n, i # 0 PROVE f[i] = f[i - 1] \o Append(items[i], "newline")
    <3>1. i \in 1..n
      BY <2>2
    <3>2. QED
      BY <1>2, <3>1 DEF Joined
  <2>3. QED
    BY <2>1, <2>2
<1>4. Text(n) = text[n]
  BY DEF Text
<1> HIDE DEF Is
<1>5. Is(text)
  BY <1>3
<1> HIDE DEF text
<1> USE DEF Is
<1> DEFINE T == {i \in Nat : i <= n => text[i] = f[i]}
<1>6. 0 \in T
  BY <1>1, <1>2, <1>5 DEF Joined
<1>7. ASSUME NEW i \in Nat, i \in T PROVE i + 1 \in T
  <2>1. SUFFICES ASSUME i + 1 <= n PROVE text[i + 1] = f[i + 1]
    OBVIOUS
  <2>2. i + 1 \in 0..n /\ i + 1 # 0 /\ (i + 1) - 1 = i /\ i + 1 \in 1..n /\ i <= n
    BY <1>1, <2>1
  <2>3. text[i + 1] = text[i] \o Append(items[i + 1], "newline")
    BY <1>5, <2>2
  <2>4. f[i + 1] = f[i] \o Append(items[i + 1], "newline")
    BY <1>3, <2>2
  <2>5. QED
    BY <1>7, <2>2, <2>3, <2>4
<1> HIDE DEF T, n
<1>8. n \in T
  BY <1>1, <1>6, <1>7, SetInduction
<1>9. text[n] = f[n]
  BY <1>1, <1>8 DEF T
<1>10. QED
  BY <1>2, <1>4, <1>9 DEF n

(* readfile() loses nothing of a file: its lines, each with a newline      *)
(* behind it, are the file, ended by a newline if it was not.              *)
THEOREM FileSplitWhole == LinesSpec => []SplitWhole
<1>1. SplitIInv => SplitWhole
  BY TextIsGiven DEF SplitIInv, LinesIInv, LinesTypeOK, SplitWhole
<1>2. QED
  BY <1>1, SplitStart, SplitSteps, PTL DEF LinesSpec
=============================================================================
