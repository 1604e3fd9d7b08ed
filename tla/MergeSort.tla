----------------------------- MODULE MergeSort -----------------------------
(***************************************************************************)
(* msort() (sort.c) and what the daemon does with sorted lists             *)
(* (sudodevd.c): repeats are dropped from the lines of the profile, the    *)
(* links of the removable devices and these lines are put into one list,   *)
(* and two equal neighbours in it mean that a configured device is there.  *)
(* The module Sudodevd has this as operations on sets and bags; here are   *)
(* the loops.                                                              *)
(***************************************************************************)
EXTENDS Integers, Sequences, FiniteSets

CONSTANTS
  Item,      \* the strings, as numbers in the order of strcmp()
  MaxLength  \* bound: lines of the profile

ASSUME MergeSortAssumption == Item \subseteq Nat /\ MaxLength \in Nat

VARIABLES
  profile,   \* the lines that readfile() gives
  present,   \* the links that devs() gives: a name occurs once in a directory
  distinct,  \* sudodevs
  all,
  found,     \* work
  turn       \* next step

sortVars == <<profile, present, distinct, all, found, turn>>

SortInit ==
  /\ profile \in UNION {[1..n -> Item] : n \in 0..MaxLength}
  /\ present \in UNION {[1..n -> Item] : n \in 0..Cardinality(Item)}
  /\ \A i, j \in DOMAIN present : present[i] = present[j] => i = j
  /\ distinct = <<>> /\ all = <<>> /\ found = FALSE /\ turn = "load"
-----------------------------------------------------------------------------
(* Mutant of Copied: what is left of the first part is not moved. *)
CopiedHalf(p, q, m) ==
  IF m.index2 = Len(q) THEN m
  ELSE IF m.index < Len(p) /\ p[m.index + 1] < q[m.index2 + 1]
  THEN [index |-> m.index + 1, index2 |-> m.index2, tmp |-> Append(m.tmp, p[m.index + 1])]
  ELSE [index |-> m.index, index2 |-> m.index2 + 1, tmp |-> Append(m.tmp, q[m.index2 + 1])]

(* tmp and the places in the parts after one more turn of the three loops: *)
(* of two equal items the one of the second part is copied.                *)
Copied(p, q, m) ==
  IF m.index2 = Len(q) \/ (m.index < Len(p) /\ p[m.index + 1] < q[m.index2 + 1])
  THEN [index |-> m.index + 1, index2 |-> m.index2, tmp |-> Append(m.tmp, p[m.index + 1])]
  ELSE [index |-> m.index, index2 |-> m.index2 + 1, tmp |-> Append(m.tmp, q[m.index2 + 1])]

Merge(p, q) ==
  LET merged[n \in 0..Len(p) + Len(q)] ==
        IF n = 0 THEN [index |-> 0, index2 |-> 0, tmp |-> <<>>] ELSE Copied(p, q, merged[n - 1])
  IN  merged[Len(p) + Len(q)].tmp

Msort[s \in Seq(Item)] ==
  LET half == Len(s) \div 2
  IN  IF Len(s) > 1 THEN Merge(Msort[SubSeq(s, 1, half)], Msort[SubSeq(s, half + 1, Len(s))]) ELSE s

(* Mutant of Distinct: each line is compared with the first. *)
DistinctFromFirst(s) ==
  LET kept[i \in 0..Len(s)] ==
        IF i = 0 THEN <<>>
        ELSE IF i > 1 /\ kept[i - 1][1] = s[i] THEN kept[i - 1]
        ELSE Append(kept[i - 1], s[i])
  IN  kept[Len(s)]

(* sighupHandler: each line is compared with the last one that was kept.   *)
Distinct(s) ==
  LET kept[i \in 0..Len(s)] ==
        IF i = 0 THEN <<>>
        ELSE IF i > 1 /\ kept[i - 1][Len(kept[i - 1])] = s[i] THEN kept[i - 1]
        ELSE Append(kept[i - 1], s[i])
  IN  kept[Len(s)]

Load ==
  /\ turn = "load" /\ turn' = "gather"
  /\ distinct' = Distinct(Msort[profile])
  /\ UNCHANGED <<profile, present, all, found>>

Gather ==
  /\ turn = "gather" /\ turn' = "scan"
  /\ all' = Msort[present \o distinct]
  /\ UNCHANGED <<profile, present, distinct, found>>

Scan ==
  /\ turn = "scan" /\ turn' = "decided"
  /\ found' = \E i \in 1..(Len(all) - 1) : all[i] = all[i + 1]
  /\ UNCHANGED <<profile, present, distinct, all>>

SortNext == Load \/ Gather \/ Scan

SortSpec == SortInit /\ [][SortNext]_sortVars
-----------------------------------------------------------------------------
Times(v, s) == Cardinality({i \in DOMAIN s : s[i] = v})

(* msort() sorts, for even, odd, small and repetitive lists, and neither   *)
(* loses nor repeats a pointer.                                            *)
SortedWhole ==
  turn \in {"scan", "decided"}
    => /\ \A i \in 1..(Len(all) - 1) : all[i] <= all[i + 1]
       /\ \A v \in Item : Times(v, all) = Times(v, present) + Times(v, distinct)

(* The decision by neighbours is the right one: some line of the profile   *)
(* is the name of a link, however often it occurs and wherever.            *)
NeighboursDecide ==
  turn = "decided"
    => (found <=> \E i \in DOMAIN profile, j \in DOMAIN present : profile[i] = present[j])
=============================================================================
