--------------------------- MODULE LockFileProofs ---------------------------
(***************************************************************************)
(* LOCKFILE keeps two daemons apart, for any number of instances, as long  *)
(* as no instance starts while another stops: then every instance that is  *)
(* past open() has the inode open that the path still names.               *)
(***************************************************************************)
EXTENDS LockFile, TLAPS

Past == {"write", "run"} \cup Stopping

(* Who is past the lock holds it, and a lock is held through the open file. *)
LockInv ==
  /\ \A p \in Proc : at[p] \in Past => owner[fd[p]] = p
  /\ \A p \in Proc, i \in Inode : owner[i] = p => fd[p] = i

(* The instance that stops is the only one.                                *)
AloneInv ==
  \A p, q \in Proc : at[p] \in Stopping /\ q # p => at[q] = "off"

(* An instance remembers no rule before it runs.                           *)
FreshInv == \A p \in Proc : working[p] => at[p] \in {"run"} \cup Stopping

(* The open inode is the one that LOCKFILE names, and has the right pid.   *)
NameInv ==
  \A p \in Proc :
    /\ at[p] \in {"lock", "write", "run", "unlinkPid"} => fd[p] = name
    /\ at[p] \in {"run", "unlinkPid"} => text[fd[p]] = p

SerialInv == TypeOK /\ LockInv /\ AloneInv /\ NameInv /\ FreshInv

LEMMA EndEffect ==
  ASSUME NEW p \in Proc, TypeOK, End(p)
  PROVE  /\ at' \in [Proc -> {"off", "run"} \cup Starting \cup Stopping]
         /\ fd' \in [Proc -> Inode \cup {None}]
         /\ owner' \in [Inode -> Proc \cup {None}]
         /\ working' \in [Proc -> BOOLEAN]
         /\ at'[p] = "off" /\ fd'[p] = None /\ working'[p] = FALSE
         /\ \A q \in Proc : q # p => at'[q] = at[q] /\ fd'[q] = fd[q] /\ working'[q] = working[q]
         /\ \A i \in Inode : owner'[i] = IF owner[i] = p THEN None ELSE owner[i]
BY DEF TypeOK, End

(* A descriptor is open exactly while it should be, and every inode is     *)
(* locked and written by an instance, however starts and stops overlap.    *)
THEOREM InstancesTyped == Spec => []TypeOK
<1> USE LockAssumption DEF TypeOK, Starting, Stopping, files
<1>1. Init => TypeOK
  BY DEF Init
<1>2. ASSUME TypeOK, [Next]_vars PROVE TypeOK'
  <2>1. ASSUME NEW p \in Proc, End(p), UNCHANGED <<name, text, plugged>>, conf' \in BOOLEAN,
               crashed' \in BOOLEAN
        PROVE  TypeOK'
    <3>1. /\ at' \in [Proc -> {"off", "run"} \cup Starting \cup Stopping]
          /\ fd' \in [Proc -> Inode \cup {None}]
          /\ owner' \in [Inode -> Proc \cup {None}]
          /\ working' \in [Proc -> BOOLEAN]
          /\ at'[p] = "off" /\ fd'[p] = None
          /\ \A q \in Proc : q # p => at'[q] = at[q] /\ fd'[q] = fd[q]
      BY <1>2, <2>1, EndEffect
    <3>2. QED
      BY <1>2, <2>1, <3>1
  <2>2. ASSUME NEW p \in Proc, Busy(p) \/ StartFails(p) \/ Exit(p) \/ Crash(p) PROVE TypeOK'
    BY <1>2, <2>1, <2>2 DEF Busy, StartFails, Exit, Crash
  <2>3. ASSUME NEW p \in Proc, Start(p) \/ Lock(p) \/ WritePid(p) \/ Apply(p) PROVE TypeOK'
    BY <1>2, <2>3 DEF Start, Lock, WritePid, Apply, Goto
  <2>4. ASSUME NEW p \in Proc, Open(p) PROVE TypeOK'
    BY <1>2, <2>4 DEF Open, Goto
  <2>5. ASSUME NEW p \in Proc, Term(p) \/ UnlinkPid(p) \/ UnlinkConf(p) PROVE TypeOK'
    BY <1>2, <2>5 DEF Term, UnlinkPid, UnlinkConf, Goto
  <2>6. CASE Toggle \/ UNCHANGED vars
    BY <1>2, <2>6 DEF Toggle, vars
  <2>7. QED
    BY <1>2, <2>2, <2>3, <2>4, <2>5, <2>6 DEF Next
<1>3. QED
  BY <1>1, <1>2, PTL DEF Spec

LEMMA EndKeeps ==
  ASSUME NEW p \in Proc, SerialInv, End(p), UNCHANGED <<name, text, plugged, conf>>, crashed' \in BOOLEAN
  PROVE  SerialInv'
<1> USE LockAssumption
<1> USE DEF SerialInv, Starting, Stopping, Past
<1>0. /\ at' \in [Proc -> {"off", "run"} \cup Starting \cup Stopping]
      /\ fd' \in [Proc -> Inode \cup {None}]
      /\ owner' \in [Inode -> Proc \cup {None}]
      /\ working' \in [Proc -> BOOLEAN]
      /\ at'[p] = "off" /\ fd'[p] = None /\ working'[p] = FALSE
      /\ \A q \in Proc : q # p => at'[q] = at[q] /\ fd'[q] = fd[q] /\ working'[q] = working[q]
      /\ \A i \in Inode : owner'[i] = IF owner[i] = p THEN None ELSE owner[i]
  BY EndEffect
<1>1. TypeOK'
  BY <1>0 DEF TypeOK
<1>2. LockInv'
  <2>1. ASSUME NEW q \in Proc, at'[q] \in Past PROVE owner'[fd'[q]] = q
    <3>1. q # p /\ at[q] \in Past /\ fd'[q] = fd[q]
      BY <1>0, <2>1
    <3>2. fd[q] \in Inode /\ owner[fd[q]] = q
      BY <3>1 DEF TypeOK, LockInv
    <3>3. QED
      BY <1>0, <3>1, <3>2
  <2>2. ASSUME NEW q \in Proc, NEW i \in Inode, owner'[i] = q PROVE fd'[q] = i
    <3>1. owner[i] = q /\ q # p
      BY <1>0, <2>2
    <3>2. QED
      BY <1>0, <3>1 DEF LockInv
  <2>3. QED
    BY <2>1, <2>2 DEF LockInv
<1>3. AloneInv'
  BY <1>0 DEF AloneInv
<1>4. NameInv'
  BY <1>0 DEF NameInv, TypeOK, LockInv
<1>5. FreshInv'
  BY <1>0 DEF FreshInv
<1>6. QED
  BY <1>1, <1>2, <1>3, <1>4, <1>5

LEMMA SerialStep ==
  ASSUME ~Overlap, SerialInv, [Next]_vars
  PROVE  SerialInv'
<1> USE LockAssumption
<1> USE DEF SerialInv, TypeOK, LockInv, AloneInv, NameInv, FreshInv, Past, Starting, Stopping, files
<1>1. ASSUME NEW p \in Proc, Start(p) PROVE SerialInv'
  BY <1>1 DEF Start, Goto
<1>2. ASSUME NEW p \in Proc, Open(p) PROVE SerialInv'
  <2>1. CASE name # None
    BY <1>2, <2>1 DEF Open, Goto
  <2>2. CASE name = None
    <3>1. PICK i \in Inode :
            Unused(i) /\ name' = i /\ fd' = [fd EXCEPT ![p] = i] /\ text' = [text EXCEPT ![i] = None]
      BY <1>2, <2>2 DEF Open
    <3>2. TypeOK' /\ LockInv'
      BY <1>2, <3>1 DEF Open, Goto, Unused
    <3>3. AloneInv' /\ NameInv' /\ FreshInv'
      BY <1>2, <2>2, <3>1 DEF Open, Goto, Unused
    <3>4. QED
      BY <3>2, <3>3
  <2>3. QED
    BY <2>1, <2>2
<1>3. ASSUME NEW p \in Proc, Lock(p) PROVE SerialInv'
  BY <1>3 DEF Lock, Goto
<1>4. ASSUME NEW p \in Proc, Busy(p) PROVE SerialInv'
  BY <1>4, EndKeeps DEF Busy
<1>5. ASSUME NEW p \in Proc, WritePid(p) PROVE SerialInv'
  BY <1>5 DEF WritePid, Goto
<1>6. ASSUME NEW p \in Proc, StartFails(p) PROVE SerialInv'
  BY <1>6, EndKeeps DEF StartFails
<1>7. ASSUME NEW p \in Proc, Apply(p) PROVE SerialInv'
  BY <1>7 DEF Apply, Goto
<1>8. ASSUME NEW p \in Proc, Term(p) PROVE SerialInv'
  BY <1>8 DEF Term, Goto
<1>9. ASSUME NEW p \in Proc, UnlinkPid(p) PROVE SerialInv'
  <2>1. TypeOK' /\ LockInv' /\ AloneInv' /\ FreshInv'
    BY <1>9 DEF UnlinkPid, Goto
  <2>2. \A q \in Proc : q # p => at'[q] = "off"
    BY <1>9 DEF UnlinkPid, Goto
  <2>3. NameInv'
    BY <1>9, <2>2 DEF UnlinkPid, Goto
  <2>4. QED
    BY <2>1, <2>3
<1>10. ASSUME NEW p \in Proc, UnlinkConf(p) PROVE SerialInv'
  <2>1. TypeOK'
    <3>1. conf' \in BOOLEAN /\ at' \in [Proc -> {"off", "run"} \cup Starting \cup Stopping]
      BY <1>10 DEF UnlinkConf, Goto
    <3>2. \A q \in Proc : fd'[q] # None <=> at'[q] \notin {"off", "open"}
      BY <1>10 DEF UnlinkConf, Goto
    <3>3. QED
      BY <1>10, <3>1, <3>2 DEF UnlinkConf
  <2>2. LockInv' /\ AloneInv'
    BY <1>10 DEF UnlinkConf, Goto
  <2>3. NameInv' /\ FreshInv'
    BY <1>10 DEF UnlinkConf, Goto
  <2>4. QED
    BY <2>1, <2>2, <2>3
<1>11. ASSUME NEW p \in Proc, Exit(p) PROVE SerialInv'
  BY <1>11, EndKeeps DEF Exit
<1>12. ASSUME NEW p \in Proc, Crash(p) PROVE SerialInv'
  BY <1>12, EndKeeps DEF Crash
<1>13. CASE Toggle
  BY <1>13 DEF Toggle
<1>14. CASE UNCHANGED vars
  BY <1>14 DEF vars
<1>15. QED
  BY <1>1, <1>2, <1>3, <1>4, <1>5, <1>6, <1>7, <1>8, <1>9, <1>10, <1>11, <1>12, <1>13, <1>14 DEF Next

LEMMA SerialAlways ==
  ASSUME ~Overlap
  PROVE  Spec => []SerialInv
<1>1. Init => SerialInv
  BY LockAssumption
     DEF Init, SerialInv, TypeOK, LockInv, AloneInv, NameInv, FreshInv, Past, Starting, Stopping
<1>2. SerialInv /\ [Next]_vars => SerialInv'
  BY SerialStep
<1>3. QED
  BY <1>1, <1>2, PTL DEF Spec

(* Only one sudodevd is running, when starts and stops do not overlap.     *)
THEOREM SerialOneDaemon ==
  ASSUME ~Overlap
  PROVE  Spec => []OneDaemon
<1>1. SerialInv => OneDaemon
  BY DEF SerialInv, TypeOK, LockInv, NameInv, OneDaemon, Past
<1>2. QED
  BY SerialAlways, <1>1, PTL

(* LOCKFILE contains the pid of the daemon that runs, on the same terms.   *)
THEOREM SerialPidNamesDaemon ==
  ASSUME ~Overlap
  PROVE  Spec => []PidNamesDaemon
<1>1. SerialInv => PidNamesDaemon
  BY LockAssumption DEF SerialInv, TypeOK, NameInv, PidNamesDaemon
<1>2. QED
  BY SerialAlways, <1>1, PTL

(* No other instance removes the rule of the one that runs.                *)
THEOREM SerialRuleKept ==
  ASSUME ~Overlap
  PROVE  Spec => []RuleOfTheRunning
<1>1. Init => RuleOfTheRunning
  BY DEF Init, RuleOfTheRunning
<1>2. SerialInv /\ RuleOfTheRunning /\ [Next]_vars => RuleOfTheRunning'
  <2> SUFFICES ASSUME SerialInv, RuleOfTheRunning, Next,
                      NEW q \in Proc, at'[q] = "run", working'[q]
               PROVE  conf'
    BY DEF RuleOfTheRunning, vars, files
  <2> USE DEF SerialInv, TypeOK, RuleOfTheRunning, files
  <2>1. ASSUME NEW p \in Proc, Apply(p) PROVE conf'
    <3>1. q = p
      BY <2>1 DEF Apply, LockInv, NameInv, Past
    <3>2. QED
      BY <2>1, <3>1 DEF Apply
  <2>2. ASSUME NEW p \in Proc, UnlinkConf(p) PROVE conf'
    BY <2>2 DEF UnlinkConf, Goto, AloneInv, Stopping
  <2>3. ASSUME NEW p \in Proc, Busy(p) \/ StartFails(p) \/ Exit(p) \/ Crash(p) PROVE conf'
    BY <2>3 DEF Busy, StartFails, Exit, Crash, End
  <2>4. ASSUME NEW p \in Proc, WritePid(p) PROVE conf'
    BY <2>4 DEF WritePid, Goto, FreshInv, Stopping
  <2>5. ASSUME NEW p \in Proc, Start(p) \/ Open(p) \/ Lock(p) \/ Term(p) \/ UnlinkPid(p)
        PROVE  conf'
    BY <2>5 DEF Start, Open, Lock, Term, UnlinkPid, Goto
  <2>6. CASE Toggle
    BY <2>6 DEF Toggle
  <2>7. QED
    BY <2>1, <2>2, <2>3, <2>4, <2>5, <2>6 DEF Next
<1>3. QED
  BY SerialAlways, <1>1, <1>2, PTL DEF Spec

(* Whatever overlaps: without a crash a rule has a daemon that will remove *)
(* it.                                                                     *)
THEOREM RuleHasOwner == Spec => []NoRuleLeft
<1> DEFINE TInv == at \in [Proc -> {"off", "run"} \cup Starting \cup Stopping]
<1>1. Init => TInv /\ NoRuleLeft
  BY DEF Init, NoRuleLeft
<1>2. TInv /\ NoRuleLeft /\ [Next]_vars => (TInv /\ NoRuleLeft)'
  <2> SUFFICES ASSUME TInv, NoRuleLeft, [Next]_vars PROVE (TInv /\ NoRuleLeft)'
    OBVIOUS
  <2> USE DEF NoRuleLeft, Starting, Stopping, files
  <2>1. ASSUME NEW p \in Proc,
               Busy(p) \/ StartFails(p) \/ Exit(p) \/ Crash(p)
        PROVE  (TInv /\ NoRuleLeft)'
    BY <2>1 DEF Busy, StartFails, Exit, Crash, End
  <2>2. ASSUME NEW p \in Proc,
               Start(p) \/ Open(p) \/ Lock(p) \/ WritePid(p)
        PROVE  (TInv /\ NoRuleLeft)'
    BY <2>2 DEF Start, Open, Lock, WritePid, Goto
  <2>3. ASSUME NEW p \in Proc, Apply(p) PROVE (TInv /\ NoRuleLeft)'
    BY <2>3 DEF Apply
  <2>4. ASSUME NEW p \in Proc, Term(p) \/ UnlinkPid(p) \/ UnlinkConf(p)
        PROVE  (TInv /\ NoRuleLeft)'
    BY <2>4 DEF Term, UnlinkPid, UnlinkConf, Goto
  <2>5. CASE Toggle
    BY <2>5 DEF Toggle
  <2>6. CASE UNCHANGED vars
    BY <2>6 DEF vars
  <2>7. QED
    BY <2>1, <2>2, <2>3, <2>4, <2>5, <2>6 DEF Next
<1>3. QED
  BY <1>1, <1>2, PTL DEF Spec
=============================================================================
