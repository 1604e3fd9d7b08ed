---------------------------- MODULE SudodevProofs ----------------------------
(***************************************************************************)
(* What can be relied on when editing the profile: by one client at a time *)
(* a deletion is final, whatever fails, an addition stays but for lines    *)
(* that a client failed to write back, and stays if no write fails; and    *)
(* for any number of clients the daemon follows the file.                  *)
(***************************************************************************)
EXTENDS Sudodev, TLAPS

OneAtATime == \A c, d \in Client : c = d

EditInv ==
  \A c \in Client :
    /\ at[c] = "write" => file = Empty
    /\ at[c] = "find" => op[c] = "add"

LEMMA OverMembers ==
  ASSUME NEW new \in Lines, NEW old \in Lines, NEW f \in Over(new, old)
  PROVE  /\ f \in Lines
         /\ \A u \in UUID : new[u] <= f[u]
         /\ \A u \in UUID : f[u] > 0 => new[u] > 0 \/ old[u] > 0
<1>1. PICK rest \in Lines : \A u \in UUID : rest[u] <= old[u] /\ f[u] = new[u] + rest[u]
  BY DEF Over
<1>2. f \in Lines
  BY DEF Over
<1>3. \A u \in UUID : new[u] \in Nat /\ old[u] \in Nat /\ rest[u] \in Nat
  BY <1>1, SudodevAssumption DEF Lines
<1>4. QED
  BY <1>1, <1>2, <1>3

LEMMA EmptyType == Empty \in Lines /\ Present(Empty) = {}
BY SudodevAssumption DEF Empty, Lines, Present

LEMMA KeptType == ASSUME NEW lines \in Lines PROVE Kept(lines) \in Lines
BY SudodevAssumption DEF Kept, Lines

LEMMA AddedType ==
  ASSUME NEW u \in UUID, file \in Lines, file[u] < MaxCopies
  PROVE  Added(u) \in Lines
BY SudodevAssumption DEF Added, Lines

LEMMA DeletedType ==
  ASSUME NEW u \in UUID, file \in Lines
  PROVE  Deleted(u) \in Lines
BY SudodevAssumption DEF Deleted, Lines

(* Every variable keeps its type.                                          *)
THEOREM Typed == Spec => []TypeOK
<1>1. Init => TypeOK
  BY EmptyType DEF Init, TypeOK
<1>2. TypeOK /\ [Next]_vars => TypeOK'
  <2> SUFFICES ASSUME TypeOK, [Next]_vars PROVE TypeOK'
    OBVIOUS
  <2> USE EmptyType DEF TypeOK, clients, daemon, history, Goto
  <2>1. ASSUME NEW c \in Client, NEW u \in UUID, ChooseAdd(c, u) \/ ChooseDel(c, u)
        PROVE  TypeOK'
    BY <2>1 DEF ChooseAdd, ChooseDel
  <2>2. ASSUME NEW c \in Client, AddFound(c) PROVE TypeOK'
    BY <2>2 DEF AddFound, Report
  <2>3. ASSUME NEW c \in Client, AddNotFound(c) PROVE TypeOK'
    BY <2>3 DEF AddNotFound
  <2>4. ASSUME NEW c \in Client, Read(c) PROVE TypeOK'
    <3>1. (IF op[c] = "add" THEN Added(want[c]) ELSE Deleted(want[c])) \in Lines
      BY <2>4, AddedType, DeletedType DEF Read
    <3>2. QED
      BY <2>4, <3>1 DEF Read
  <2>5. ASSUME NEW c \in Client, OpenFails(c) \/ Truncate(c) \/ Kill(c) PROVE TypeOK'
    <3>1. lost' \subseteq UUID
      BY <2>5 DEF OpenFails, Truncate, Kill, Lose, Present
    <3>2. QED
      BY <2>5, <3>1 DEF OpenFails, Truncate, Kill
  <2>6. ASSUME NEW c \in Client, Write(c) PROVE TypeOK'
    <3>1. file' \in Lines
      BY <2>6, KeptType, OverMembers DEF Write
    <3>2. lost' \subseteq UUID
      BY <2>6 DEF Write, Lose, Present
    <3>3. promised' \subseteq UUID /\ gone' \subseteq UUID
      BY <2>6 DEF Write, Report
    <3>4. QED
      BY <2>6, <3>1, <3>2, <3>3 DEF Write
  <2>7. ASSUME NEW c \in Client, Reload(c) PROVE TypeOK'
    BY <2>7 DEF Reload
  <2>8. CASE DaemonStart \/ DaemonStop \/ DaemonLoad
    BY <2>8 DEF DaemonStart, DaemonStop, DaemonLoad, Present
  <2>9. CASE UNCHANGED vars
    BY <2>9 DEF vars
  <2>10. ASSUME NEW c \in Client, WriteFails(c) PROVE TypeOK'
    <3>1. file' \in Lines
      BY <2>10, OverMembers DEF WriteFails
    <3>2. lost' \subseteq UUID
      BY <2>10 DEF WriteFails, Lose, Present
    <3>3. QED
      BY <2>10, <3>1, <3>2 DEF WriteFails
  <2>11. QED
    BY <2>1, <2>2, <2>3, <2>4, <2>5, <2>6, <2>7, <2>8, <2>9, <2>10 DEF Next
<1>3. QED
  BY <1>1, <1>2, PTL DEF Spec

-----------------------------------------------------------------------------
(* For any number of clients: a change of the file is on its way as long   *)
(* as a client still has to write or to reload.                            *)
FollowInv ==
  up /\ ~pending /\ (\A c \in Client : at[c] \notin {"write", "reload"})
    => loaded = Present(file)

(* No change of the profile is missed by the daemon, unless a client is    *)
(* killed, or gives up, before it reloads.                                 *)
THEOREM DaemonFollowsProfile ==
  ASSUME "kill" \notin Faults, "short" \notin Faults
  PROVE  Spec => []DaemonFollows
<1>1. Init => FollowInv
  BY DEF Init, FollowInv
<1>2. TypeOK /\ FollowInv /\ [Next]_vars => FollowInv'
  <2> SUFFICES ASSUME TypeOK, FollowInv, [Next]_vars PROVE FollowInv'
    OBVIOUS
  <2> USE DEF TypeOK, FollowInv, clients, daemon, history, Goto
  <2>1. ASSUME NEW c \in Client, NEW u \in UUID, ChooseAdd(c, u) \/ ChooseDel(c, u)
        PROVE  FollowInv'
    BY <2>1 DEF ChooseAdd, ChooseDel
  <2>2. ASSUME NEW c \in Client, AddFound(c) PROVE FollowInv'
    BY <2>2 DEF AddFound
  <2>3. ASSUME NEW c \in Client, AddNotFound(c) \/ Read(c) \/ OpenFails(c) PROVE FollowInv'
    BY <2>3 DEF AddNotFound, Read, OpenFails
  <2>4. ASSUME NEW c \in Client, Truncate(c) PROVE FollowInv'
    BY <2>4 DEF Truncate
  <2>5. ASSUME NEW c \in Client, Write(c) PROVE FollowInv'
    BY <2>5 DEF Write
  <2>6. ASSUME NEW c \in Client, Reload(c) PROVE FollowInv'
    BY <2>6 DEF Reload
  <2>7. CASE DaemonStart \/ DaemonStop \/ DaemonLoad
    BY <2>7 DEF DaemonStart, DaemonStop, DaemonLoad
  <2>8. CASE UNCHANGED vars
    BY <2>8 DEF vars
  <2>9. QED
    BY <2>1, <2>2, <2>3, <2>4, <2>5, <2>6, <2>7, <2>8 DEF Next, Kill, WriteFails, Fault
<1>3. FollowInv => DaemonFollows
  BY DEF FollowInv, DaemonFollows
<1>4. QED
  BY Typed, <1>1, <1>2, <1>3, PTL DEF Spec
-----------------------------------------------------------------------------
(* The lines in memory are good enough to be written: without those that   *)
(* were reported deleted.                                                  *)
GoneInv ==
  /\ gone \cap Present(file) = {}
  /\ \A c \in Client :
       /\ at[c] \in {"find", "read", "truncate", "write"} /\ op[c] = "add" => want[c] \notin gone
       /\ at[c] \in {"truncate", "write"} => gone \cap Present(list[c]) = {}
       /\ at[c] \in {"truncate", "write"} /\ op[c] = "del" => want[c] \notin Present(list[c])

LEMMA EditStep ==
  ASSUME OneAtATime, TypeOK, EditInv, [Next]_vars
  PROVE  EditInv'
<1> USE DEF OneAtATime, TypeOK, EditInv, clients, daemon, history, Goto
<1>1. ASSUME NEW c \in Client, NEW u \in UUID, ChooseAdd(c, u) \/ ChooseDel(c, u)
      PROVE  EditInv'
  BY <1>1 DEF ChooseAdd, ChooseDel
<1>2. ASSUME NEW c \in Client, AddFound(c) \/ AddNotFound(c) \/ Read(c) \/ OpenFails(c) \/ Kill(c)
      PROVE  EditInv'
  BY <1>2 DEF AddFound, AddNotFound, Read, OpenFails, Kill
<1>3. ASSUME NEW c \in Client, Truncate(c) \/ Write(c) \/ WriteFails(c) \/ Reload(c)
      PROVE EditInv'
  BY <1>3 DEF Truncate, Write, WriteFails, Reload
<1>4. CASE DaemonStart \/ DaemonStop \/ DaemonLoad \/ UNCHANGED vars
  BY <1>4 DEF DaemonStart, DaemonStop, DaemonLoad, vars
<1>5. QED
  BY <1>1, <1>2, <1>3, <1>4 DEF Next

LEMMA GoneStep ==
  ASSUME OneAtATime, TypeOK, EditInv, GoneInv, [Next]_vars
  PROVE  GoneInv'
<1> USE DEF OneAtATime, TypeOK, GoneInv, clients, daemon, history, Goto
<1>1. ASSUME NEW c \in Client, NEW u \in UUID, ChooseAdd(c, u) PROVE GoneInv'
  BY <1>1 DEF ChooseAdd
<1>2. ASSUME NEW c \in Client, NEW u \in UUID, ChooseDel(c, u) PROVE GoneInv'
  BY <1>2 DEF ChooseDel
<1>3. ASSUME NEW c \in Client, AddFound(c) PROVE GoneInv'
  BY <1>3 DEF AddFound, Report, EditInv
<1>4. ASSUME NEW c \in Client, AddNotFound(c) PROVE GoneInv'
  BY <1>4 DEF AddNotFound
<1>5. ASSUME NEW c \in Client, Read(c) PROVE GoneInv'
  <2>1. CASE op[c] = "add"
    <3>1. Present(Added(want[c])) \subseteq Present(file) \cup {want[c]}
      BY DEF Present, Added
    <3>2. list'[c] = Added(want[c]) /\ want[c] \notin gone
      BY <1>5, <2>1 DEF Read
    <3>3. QED
      BY <1>5, <2>1, <3>1, <3>2 DEF Read
  <2>2. CASE op[c] = "del"
    <3>1. Present(Deleted(want[c])) \subseteq Present(file) \ {want[c]}
      BY SudodevAssumption DEF Present, Deleted
    <3>2. list'[c] = Deleted(want[c])
      BY <1>5, <2>2 DEF Read
    <3>3. QED
      BY <1>5, <2>2, <3>1, <3>2 DEF Read
  <2>3. QED
    BY <2>1, <2>2
<1>6. ASSUME NEW c \in Client, OpenFails(c) \/ Kill(c) PROVE GoneInv'
  BY <1>6, EmptyType DEF OpenFails, Kill
<1>7. ASSUME NEW c \in Client, Truncate(c) PROVE GoneInv'
  BY <1>7, EmptyType DEF Truncate
<1>8. ASSUME NEW c \in Client, Write(c) PROVE GoneInv'
  <2>1. Present(file) = {}
    BY <1>8, EmptyType DEF Write, EditInv
  <2>2. Present(file') \subseteq Present(list[c])
    <3>1. CASE file' \in Over(Kept(list[c]), file)
      <4>1. \A u \in UUID : file'[u] > 0 => Kept(list[c])[u] > 0 \/ file[u] > 0
        BY <3>1, KeptType, OverMembers
      <4>2. QED
        BY <2>1, <4>1 DEF Present, Kept
    <3>2. CASE file' = file
      BY <2>1, <3>2
    <3>3. QED
      BY <1>8, <3>1, <3>2 DEF Write
  <2>3. gone' \cap Present(file') = {}
    BY <1>8, <2>2 DEF Write, Report
  <2>4. QED
    BY <1>8, <2>3 DEF Write
<1>9. ASSUME NEW c \in Client, Reload(c) PROVE GoneInv'
  BY <1>9 DEF Reload
<1>10. CASE DaemonStart \/ DaemonStop \/ DaemonLoad \/ UNCHANGED vars
  BY <1>10 DEF DaemonStart, DaemonStop, DaemonLoad, vars
<1>11. ASSUME NEW c \in Client, WriteFails(c) PROVE GoneInv'
  <2>1. Present(file) = {}
    BY <1>11, EmptyType DEF WriteFails, EditInv
  <2>2. PICK some \in Lines : (\A u \in UUID : some[u] <= Kept(list[c])[u]) /\ file' \in Over(some, file)
    BY <1>11 DEF WriteFails
  <2>3. \A u \in UUID : file'[u] > 0 => some[u] > 0 \/ file[u] > 0
    BY <2>2, OverMembers
  <2>4. \A u \in UUID : some[u] > 0 => list[c][u] > 0
    BY <2>2, SudodevAssumption DEF Kept, Lines
  <2>5. Present(file') \subseteq Present(list[c])
    BY <2>1, <2>3, <2>4 DEF Present
  <2>6. QED
    BY <1>11, <2>5, EmptyType DEF WriteFails
<1>12. QED
  BY <1>1, <1>2, <1>3, <1>4, <1>5, <1>6, <1>7, <1>8, <1>9, <1>10, <1>11 DEF Next

LEMMA EditAlways ==
  ASSUME OneAtATime
  PROVE  Spec => [](TypeOK /\ EditInv)
<1>1. Init => EditInv
  BY DEF Init, EditInv
<1>2. TypeOK /\ EditInv /\ [Next]_vars => EditInv'
  BY EditStep
<1>3. QED
  BY Typed, <1>1, <1>2, PTL DEF Spec

(* One client at a time: what was reported deleted stays deleted, whatever *)
(* fails, and whichever lines the pattern matches.                         *)
THEOREM DeletionFinal ==
  ASSUME OneAtATime
  PROVE  Spec => []DeletedStaysGone
<1>1. Init => GoneInv
  BY DEF Init, GoneInv
<1>2. TypeOK /\ EditInv /\ GoneInv /\ [Next]_vars => GoneInv'
  BY GoneStep
<1>3. GoneInv => DeletedStaysGone
  BY DEF GoneInv, DeletedStaysGone
<1>4. QED
  BY EditAlways, <1>1, <1>2, <1>3, PTL DEF Spec

-----------------------------------------------------------------------------
(* No name is part of another, all are hexadecimal, the file can be opened. *)
Plain ==
  /\ "open" \notin Faults /\ Hex = UUID
  /\ \A u, v \in UUID : <<u, v>> \in Matches => u = v

PromiseInv ==
  /\ PromiseKept
  /\ \A c \in Client :
       /\ at[c] \in {"read", "truncate", "write"} /\ op[c] = "del" => want[c] \notin promised
       /\ at[c] \in {"truncate", "write"} => promised \ lost \subseteq Present(list[c])
       /\ at[c] \in {"truncate", "write"} /\ op[c] = "add" => want[c] \in Present(list[c])

LEMMA PromiseStep ==
  ASSUME OneAtATime, Plain, TypeOK, EditInv, PromiseInv, [Next]_vars
  PROVE  PromiseInv'
<1> USE DEF OneAtATime, Plain, TypeOK, PromiseInv, PromiseKept, Closed, clients, daemon, history, Goto
<1>1. ASSUME NEW c \in Client, NEW u \in UUID, ChooseAdd(c, u) PROVE PromiseInv'
  BY <1>1 DEF ChooseAdd
<1>2. ASSUME NEW c \in Client, NEW u \in UUID, ChooseDel(c, u) PROVE PromiseInv'
  BY <1>2 DEF ChooseDel
<1>3. ASSUME NEW c \in Client, AddFound(c) PROVE PromiseInv'
  <2>1. want[c] \in Present(file)
    BY <1>3 DEF AddFound, Found, Fault, Present
  <2>2. QED
    BY <1>3, <2>1 DEF AddFound, Report, EditInv
<1>4. ASSUME NEW c \in Client, AddNotFound(c) PROVE PromiseInv'
  BY <1>4 DEF AddNotFound, EditInv
<1>5. ASSUME NEW c \in Client, Read(c) PROVE PromiseInv'
  <2>1. CASE op[c] = "add"
    <3>1. Present(file) \cup {want[c]} \subseteq Present(Added(want[c]))
      BY DEF Present, Added, Lines
    <3>2. list'[c] = Added(want[c])
      BY <1>5, <2>1 DEF Read
    <3>3. QED
      BY <1>5, <2>1, <3>1, <3>2 DEF Read
  <2>2. CASE op[c] = "del"
    <3>1. Present(file) \ {want[c]} \subseteq Present(Deleted(want[c]))
      BY DEF Present, Deleted
    <3>2. list'[c] = Deleted(want[c])
      BY <1>5, <2>2 DEF Read
    <3>3. QED
      BY <1>5, <2>2, <3>1, <3>2 DEF Read
  <2>3. QED
    BY <2>1, <2>2
<1>6. ASSUME NEW c \in Client, OpenFails(c) \/ Kill(c) PROVE PromiseInv'
  <2>1. CASE Kill(c) /\ at[c] = "write"
    <3>1. promised \ lost' \subseteq Present(file)
      BY <2>1 DEF Kill, Lose
    <3>2. QED
      BY <2>1, <3>1 DEF Kill
  <2>2. CASE Kill(c) /\ at[c] # "write"
    BY <2>2 DEF Kill
  <2>3. QED
    BY <1>6, <2>1, <2>2 DEF OpenFails, Fault
<1>7. ASSUME NEW c \in Client, Truncate(c) PROVE PromiseInv'
  BY <1>7 DEF Truncate
<1>8. ASSUME NEW c \in Client, Write(c) PROVE PromiseInv'
  <2>1. promised' \ lost \subseteq Present(list[c])
    BY <1>8 DEF Write, Report
  <2>2. CASE UNCHANGED file /\ Lose(c)
    BY <1>8, <2>1, <2>2 DEF Write, Lose
  <2>3. CASE file' \in Over(Kept(list[c]), file) /\ lost' = lost \ Present(file')
    <3>1. file' \in Lines /\ \A u \in UUID : Kept(list[c])[u] <= file'[u]
      BY <2>3, KeptType, OverMembers
    <3>2. \A u \in UUID : Kept(list[c])[u] = list[c][u]
      BY DEF Kept
    <3>3. Present(list[c]) \subseteq Present(file')
      BY <3>1, <3>2, SudodevAssumption DEF Present, Lines
    <3>4. promised' \ lost' \subseteq Present(file')
      BY <2>1, <2>3, <3>3
    <3>5. QED
      BY <1>8, <3>4 DEF Write
  <2>4. QED
    BY <1>8, <2>2, <2>3 DEF Write
<1>9. ASSUME NEW c \in Client, Reload(c) PROVE PromiseInv'
  BY <1>9 DEF Reload
<1>10. CASE DaemonStart \/ DaemonStop \/ DaemonLoad \/ UNCHANGED vars
  BY <1>10 DEF DaemonStart, DaemonStop, DaemonLoad, vars
<1>11. ASSUME NEW c \in Client, WriteFails(c) PROVE PromiseInv'
  <2>1. promised \ lost' \subseteq Present(file')
    BY <1>11 DEF WriteFails, Lose
  <2>2. QED
    BY <1>11, <2>1 DEF WriteFails
<1>12. QED
  BY <1>1, <1>2, <1>3, <1>4, <1>5, <1>6, <1>7, <1>8, <1>9, <1>10, <1>11 DEF Next

LEMMA PromiseAlways ==
  ASSUME OneAtATime, Plain
  PROVE  Spec => []PromiseInv
<1>1. Init => PromiseInv
  BY DEF Init, PromiseInv, PromiseKept
<1>2. TypeOK /\ EditInv /\ PromiseInv /\ [Next]_vars => PromiseInv'
  BY PromiseStep
<1>3. QED
  BY EditAlways, <1>1, <1>2, PTL DEF Spec

(* One client at a time, no name within another, whatever is killed or     *)
(* fails to write: what was reported added is in the profile, but for the  *)
(* lines that a client had read, emptied the file of, and did not write.   *)
THEOREM AdditionStays ==
  ASSUME OneAtATime, Plain
  PROVE  Spec => []PromiseKept
<1>1. PromiseInv => PromiseKept
  BY DEF PromiseInv
<1>2. QED
  BY PromiseAlways, <1>1, PTL

(* If, besides, no client is killed, no fwrite() fails and no fclose()     *)
(* loses lines, nothing is lost: "done" is true, and stays true.           *)
THEOREM DoneIsTrue ==
  ASSUME OneAtATime, Plain, Faults \cap {"kill", "short", "flush"} = {}
  PROVE  Spec => []DoneIsStored
<1>1. Init => lost = {}
  BY DEF Init
<1>2. lost = {} /\ [Next]_vars => (lost = {})'
  BY DEF Next, vars, history, clients, daemon, ChooseAdd, ChooseDel, AddFound, AddNotFound, Read,
         OpenFails, Truncate, Write, WriteFails, Reload, Kill, DaemonStart, DaemonStop,
         DaemonLoad, Fault
<1>3. PromiseInv /\ lost = {} => DoneIsStored
  BY DEF PromiseInv, PromiseKept, DoneIsStored
<1>4. QED
  BY PromiseAlways, <1>1, <1>2, <1>3, PTL DEF Spec
=============================================================================
