----------------------------- MODULE StartProofs -----------------------------
(***************************************************************************)
(* What a start of sudodevd does before its loop.  addGroup() picks a free *)
(* id for every group file that fits its array, whatever lies behind the   *)
(* last id, and repeated starts neither add the group twice nor leave a    *)
(* prepared system unprepared, for every number of starts, failures and    *)
(* kills.  The daemon has left its session, terminal and descriptors, for  *)
(* every set of descriptors it was started with, every limit and every     *)
(* failure: what a step of daemonize() achieves holds from then on, or its *)
(* error is in the status that is looked at when all of them are done.     *)
(***************************************************************************)
EXTENDS Setup, Daemonize, SequenceTheorems, FiniteSetTheorems, TLAPS

(* A line read is a line: its id is a natural number.                      *)
LEMMA LinesTyped ==
  ASSUME NEW lines \in Seq(GroupLine)
  PROVE  /\ Len(lines) \in Nat /\ DOMAIN lines = 1..Len(lines)
         /\ \A i \in DOMAIN lines : lines[i].id \in Nat
         /\ IsFiniteSet(Users(lines)) /\ Cardinality(Users(lines)) \in Nat
<1>1. Len(lines) \in Nat /\ DOMAIN lines = 1..Len(lines)
  BY LenProperties
<1>2. \A i \in 1..Len(lines) : lines[i] \in GroupLine
  BY ElementOfSeq
<1>3. \A i \in DOMAIN lines : lines[i].id \in Nat
  BY <1>1, <1>2 DEF GroupLine
<1>4. IsFiniteSet(1..Len(lines))
  BY <1>1, FS_Interval
<1>5. Users(lines) \in SUBSET (1..Len(lines))
  BY <1>1 DEF Users
<1>6. IsFiniteSet(Users(lines))
  BY <1>4, <1>5, FS_Subset
<1>7. Cardinality(Users(lines)) \in Nat
  BY <1>6, FS_CardinalityType
<1>8. QED
  BY <1>1, <1>3, <1>6, <1>7

(* The sorted ids are a sequence of natural numbers in order.              *)
LEMMA SortedSeq ==
  ASSUME NEW lines \in Seq(GroupLine), NEW s \in Sorted(lines)
  PROVE  /\ Len(s) \in Nat /\ DOMAIN s = 1..Len(s)
         /\ \A i \in DOMAIN s : s[i] \in Nat /\ s[i] \in Ids(lines)
         /\ \A i, j \in DOMAIN s : i <= j => s[i] <= s[j]
<1>1. s \in [1..Cardinality(Users(lines)) -> Ids(lines)]
  BY DEF Sorted
<1>2. Ids(lines) \subseteq Nat
  BY LinesTyped DEF Ids
<1>3. DOMAIN s = 1..Cardinality(Users(lines)) /\ \A i \in DOMAIN s : s[i] \in Nat
  BY <1>1, <1>2
<1>4. Len(s) = Cardinality(Users(lines))
  <2>1. s \in Seq(Nat)
    BY <1>1, <1>2, LinesTyped
  <2>2. DOMAIN s = 1..Len(s) /\ Len(s) \in Nat
    BY <2>1, LenProperties
  <2>3. QED
    BY <2>2, <1>3, LinesTyped
<1>5. \A i, j \in DOMAIN s : i < j => s[i] <= s[j]
  BY DEF Sorted
<1>6. \A i, j \in DOMAIN s : i <= j => s[i] <= s[j]
  BY <1>3, <1>5, LinesTyped
<1>7. QED
  BY <1>1, <1>3, <1>4, <1>6, LinesTyped

(* Sorting neither loses an id nor brings in one that was not collected.   *)
LEMMA SortedComplete ==
  ASSUME NEW lines \in Seq(GroupLine), NEW s \in Sorted(lines)
  PROVE  /\ \A i \in DOMAIN s : s[i] >= First
         /\ \A id \in Ids(lines) : id >= First => \E i \in DOMAIN s : s[i] = id
<1> DEFINE In(id) == {i \in DOMAIN s : s[i] = id}
           Of(id) == {i \in Users(lines) : lines[i].id = id}
<1>1. ASSUME NEW id \in Ids(lines)
      PROVE  In(id) = {} <=> Of(id) = {}
  <2>1. IsFiniteSet(DOMAIN s)
    BY SortedSeq, FS_Interval
  <2>2. In(id) \in SUBSET (DOMAIN s) /\ Of(id) \in SUBSET Users(lines)
    OBVIOUS
  <2>3. IsFiniteSet(In(id))
    BY <2>1, <2>2, FS_Subset
  <2>4. IsFiniteSet(Of(id))
    BY <2>2, LinesTyped, FS_Subset
  <2>5. Cardinality(In(id)) = Cardinality(Of(id))
    BY <1>1 DEF Sorted
  <2>6. QED
    BY <2>3, <2>4, <2>5, FS_EmptySet
<1>2. ASSUME NEW i \in DOMAIN s
      PROVE  s[i] >= First
  <2>1. s[i] \in Ids(lines) /\ i \in In(s[i])
    BY SortedSeq
  <2>2. Of(s[i]) # {}
    BY <1>1, <2>1
  <2>3. QED
    BY <2>2 DEF Users
<1>3. ASSUME NEW id \in Ids(lines), id >= First
      PROVE  \E i \in DOMAIN s : s[i] = id
  <2>1. Of(id) # {}
    BY <1>3 DEF Ids, Users
  <2>2. QED
    BY <1>1, <2>1
<1>4. QED
  BY <1>2, <1>3

(* Whatever addGroup() does with the sorted ids, it ends at a free id.     *)
LEMMA IdIsFree ==
  ASSUME NEW lines \in Seq(GroupLine), Fits(lines), NEW id \in NewIds(lines)
  PROVE  id \in Nat /\ id >= First /\ id \notin Ids(lines)
<1> USE SetupAssumption DEF SetupAssumption
<1>1. PICK s \in Sorted(lines), junk \in Junk : \E max \in Maxima(s, junk) : id = max + 1
  BY DEF NewIds
<1>2. /\ Len(s) \in Nat /\ DOMAIN s = 1..Len(s) /\ junk \in Int
      /\ \A i \in DOMAIN s : s[i] \in Nat /\ s[i] >= First
      /\ \A i, j \in DOMAIN s : i <= j => s[i] <= s[j]
  BY SortedSeq, SortedComplete
<1>8. PICK max \in Maxima(s, junk) : id = max + 1
  BY <1>1
<1>3. SUFFICES id \in Nat /\ id >= First /\ \A i \in DOMAIN s : s[i] # id
  BY SortedComplete
<1>4. CASE Len(s) = 1
  <2>1. max = IF s[1] > First THEN First - 1 ELSE First
    BY <1>8, <1>4 DEF Maxima
  <2>2. s[1] \in Nat /\ s[1] >= First /\ DOMAIN s = {1}
    BY <1>2, <1>4
  <2>3. QED
    BY <1>8, <2>1, <2>2
<1>5. CASE Len(s) = 0 \/ (Len(s) > 1 /\ s[1] > First)
  <2>1. max = First - 1
    BY <1>8, <1>5 DEF Maxima
  <2>2. \A i \in DOMAIN s : s[i] > First
    BY <1>2, <1>5
  <2>3. QED
    BY <1>8, <1>2, <2>1, <2>2
<1>6. CASE Len(s) > 1 /\ ~(s[1] > First)
  <2>1. CASE Gaps(s, junk) # {}
    <3>0. max \in {s[i] : i \in {i \in Gaps(s, junk) : \A j \in Gaps(s, junk) : i <= j}}
      BY <1>2, <1>8, <1>6, <2>1 DEF Maxima
    <3>1. PICK i \in Gaps(s, junk) : max = s[i]
      BY <3>0
    <3>2. i \in DOMAIN s /\ (i < Len(s) => s[i + 1] - s[i] > 1)
      BY <3>1 DEF Gaps
    <3>3. ASSUME NEW k \in DOMAIN s
          PROVE  s[k] # s[i] + 1
      <4>1. CASE k <= i
        BY <1>2, <3>2, <4>1
      <4>2. CASE k > i
        <5>1. i + 1 \in DOMAIN s /\ i + 1 <= k /\ i < Len(s)
          BY <1>2, <3>2, <4>2
        <5>2. s[i + 1] <= s[k]
          BY <1>2, <5>1
        <5>3. QED
          BY <1>2, <3>2, <5>1, <5>2
      <4>3. QED
        BY <1>2, <3>2, <4>1, <4>2
    <3>4. QED
      BY <1>8, <1>2, <3>1, <3>2, <3>3
  <2>2. CASE Gaps(s, junk) = {}
    <3>1. max = s[Len(s)]
      BY <1>2, <1>8, <1>6, <2>2 DEF Maxima
    <3>2. Len(s) \in DOMAIN s /\ \A i \in DOMAIN s : s[i] <= s[Len(s)]
      BY <1>2, <1>6
    <3>3. QED
      BY <1>8, <1>2, <3>1, <3>2
  <2>3. QED
    BY <2>1, <2>2
<1>7. QED
  BY <1>2, <1>4, <1>5, <1>6
-----------------------------------------------------------------------------
(* A start in which every file was read and written found what it did not  *)
(* add, and has added what it did not find.                                *)
StepInv ==
  /\ step # "off" /\ ~mishap => ended /\ sudoers.ended
  /\ step \in {"readGroup", "appendGroup"} /\ ~mishap => ~HasGroup
  /\ step \in {"findRule", "appendRule", "loop"} /\ ~mishap => HasGroup
  /\ step = "loop" /\ ~mishap => sudoers.lines > 0

SetupIInv == SetupTypeOK /\ StepInv

(* What a line appended to /etc/group changes.                             *)
LEMMA AppendLine ==
  ASSUME groups \in Seq(GroupLine), NEW line \in GroupLine, groups' = Append(groups, line)
  PROVE  /\ groups' \in Seq(GroupLine)
         /\ groups' # groups => groups'[Len(groups')] = line
         /\ HasGroup' <=> HasGroup \/ line.kind = "sudodev"
<1>1. Len(groups) \in Nat /\ DOMAIN groups = 1..Len(groups)
  BY LenProperties
<1>2. /\ groups' \in Seq(GroupLine) /\ Len(groups') = Len(groups) + 1
      /\ \A i \in 1..Len(groups) : groups'[i] = groups[i]
      /\ groups'[Len(groups) + 1] = line
  BY AppendProperties
<1>3. DOMAIN groups' = 1..Len(groups) + 1
  BY <1>2, LenProperties
<1>4. QED
  BY <1>1, <1>2, <1>3 DEF HasGroup

(* The last line continued is still a line.                                *)
LEMMA GlueLine ==
  ASSUME groups \in Seq(GroupLine)
  PROVE  [groups EXCEPT ![Len(groups)].kind = "glued"] \in Seq(GroupLine)
<1> DEFINE new == [groups EXCEPT ![Len(groups)].kind = "glued"]
<1>1. Len(groups) \in Nat /\ DOMAIN groups = 1..Len(groups)
  BY LenProperties
<1>2. \A i \in 1..Len(groups) : groups[i] \in GroupLine
  BY ElementOfSeq
<1>3. \A i \in 1..Len(groups) : new[i] \in GroupLine
  <2>1. \A line \in GroupLine : [line EXCEPT !.kind = "glued"] \in GroupLine
    BY DEF GroupLine, Kind
  <2>2. \A i \in 1..Len(groups) :
          new[i] = IF i = Len(groups) THEN [groups[i] EXCEPT !.kind = "glued"] ELSE groups[i]
    BY <1>1
  <2>3. QED
    BY <1>2, <2>1, <2>2
<1>4. new \in [1..Len(groups) -> GroupLine]
  BY <1>1, <1>3
<1>5. QED
  BY <1>1, <1>4

(* addGroup() appends a line of its own to a file that ends with a newline.*)
LEMMA AppendGroupStep ==
  ASSUME SetupTypeOK, NEW id \in NewIds(text), groups' = Appended(id)
  PROVE  /\ id \in Nat /\ groups' \in Seq(GroupLine)
         /\ ended => HasGroup' /\ (groups' # groups => groups'[Len(groups')].id = id)
<1>1. id \in Nat
  <2>1. CASE Fits(text)
    BY <2>1, IdIsFree DEF SetupTypeOK
  <2>2. CASE ~Fits(text)
    BY <2>2, SetupAssumption DEF NewIds, SetupAssumption
  <2>3. QED
    BY <2>1, <2>2
<1>2. [kind |-> "sudodev", id |-> id] \in GroupLine
  BY <1>1 DEF GroupLine, Kind
<1>3. CASE ended
  BY <1>1, <1>2, <1>3, AppendLine DEF Appended, SetupTypeOK
<1>4. CASE ~ended
  BY <1>1, <1>4, GlueLine DEF Appended, SetupTypeOK
<1>5. QED
  BY <1>3, <1>4

LEMMA SetupStarts == SetupInit => SetupIInv
<1> SUFFICES ASSUME SetupInit PROVE SetupIInv
  OBVIOUS
<1>1. PICK n \in 0..MaxLines :
        groups \in [1..n -> [kind : {"other", "short"}, id : 0..MaxId]]
  BY DEF SetupInit
<1>2. n \in Nat /\ [kind : {"other", "short"}, id : 0..MaxId] \subseteq GroupLine
  BY SetupAssumption DEF SetupAssumption, GroupLine, Kind
<1>3. groups \in Seq(GroupLine)
  BY <1>1, <1>2
<1>4. sudoers \in [lines : Nat, ended : BOOLEAN] /\ text \in Seq(GroupLine)
  BY EmptySeq DEF SetupInit
<1>5. QED
  BY <1>3, <1>4 DEF SetupInit, SetupIInv, SetupTypeOK, StepInv

LEMMA SetupSteps == SetupIInv /\ [SetupNext]_setupVars => SetupIInv'
<1> SUFFICES ASSUME SetupIInv, [SetupNext]_setupVars PROVE SetupIInv'
  OBVIOUS
<1> USE DEF SetupIInv
<1> USE DEF SetupTypeOK, StepInv
<1>1. CASE SetupStart
  BY <1>1 DEF SetupStart, GoSetup, HasGroup
<1>2. CASE FindGroup
  BY <1>2 DEF FindGroup, GoSetup, HasGroup
<1>3. CASE FindGroupFails
  BY <1>3 DEF FindGroupFails, GoSetup, HasGroup
<1>4. CASE ReadGroup
  BY <1>4 DEF ReadGroup, GoSetup, HasGroup
<1>5. CASE ReadGroupFaults \/ ReadGroupFails
  BY <1>5 DEF ReadGroupFaults, ReadGroupFails, GoSetup, HasGroup
<1>6. CASE AppendGroup
  <2>1. CASE (\E id \in NewIds(text) : groups' = Appended(id)) /\ ended' = TRUE /\ UNCHANGED mishap
    BY <1>6, <2>1, AppendGroupStep DEF AppendGroup, GoSetup
  <2>2. CASE mishap' = TRUE /\ UNCHANGED <<groups, ended>>
    BY <1>6, <2>2 DEF AppendGroup, GoSetup
  <2>3. QED
    BY <1>6, <2>1, <2>2 DEF AppendGroup
<1>7. CASE AppendGroupFails
  BY <1>7 DEF AppendGroupFails, GoSetup
<1>8. CASE FindRule \/ FindRuleFails
  BY <1>8 DEF FindRule, FindRuleFails, GoSetup, HasGroup
<1>9. CASE AppendRule \/ AppendRuleFails
  <2>1. CASE sudoers' = [lines |-> IF sudoers.ended THEN sudoers.lines + 1 ELSE sudoers.lines,
                         ended |-> TRUE]
             /\ AppendRule /\ UNCHANGED mishap
    <3>1. sudoers.lines \in Nat /\ sudoers.ended \in BOOLEAN
      OBVIOUS
    <3>2. /\ sudoers' \in [lines : Nat, ended : BOOLEAN] /\ sudoers'.ended
          /\ sudoers.ended => sudoers'.lines > 0
      BY <2>1, <3>1
    <3>3. QED
      BY <2>1, <3>2 DEF AppendRule, GoSetup, HasGroup
  <2>2. CASE AppendRule /\ mishap' = TRUE /\ UNCHANGED sudoers
    BY <2>2 DEF AppendRule, GoSetup, HasGroup
  <2>3. CASE AppendRuleFails
    BY <2>3 DEF AppendRuleFails, GoSetup, HasGroup
  <2>4. QED
    BY <1>9, <2>1, <2>2, <2>3 DEF AppendRule
<1>10. CASE SetupStop
  BY <1>10 DEF SetupStop
<1>11. CASE AdminRemoves
  <2>1. PICK i \in DOMAIN groups :
          groups' = SubSeq(groups, 1, i - 1) \o SubSeq(groups, i + 1, Len(groups))
    BY <1>11 DEF AdminRemoves
  <2>2. Len(groups) \in Nat /\ i \in 1..Len(groups)
    BY LenProperties
  <2>3. \A k \in 1..Len(groups) : groups[k] \in GroupLine
    BY ElementOfSeq
  <2>4. SubSeq(groups, 1, i - 1) \in Seq(GroupLine)
    BY <2>2, <2>3, SubSeqProperties
  <2>5. SubSeq(groups, i + 1, Len(groups)) \in Seq(GroupLine)
    BY <2>2, <2>3, SubSeqProperties
  <2>6. groups' \in Seq(GroupLine)
    BY <2>1, <2>4, <2>5, ConcatProperties
  <2>7. QED
    BY <1>11, <2>6 DEF AdminRemoves
<1>12. ASSUME NEW id \in 0..MaxId, AdminAdds(id)
       PROVE  SetupIInv'
  <2>1. [kind |-> "other", id |-> id] \in GroupLine
    BY SetupAssumption DEF SetupAssumption, GroupLine, Kind
  <2>2. groups' \in Seq(GroupLine) /\ (HasGroup' <=> HasGroup)
    BY <1>12, <2>1, AppendLine DEF AdminAdds
  <2>3. QED
    BY <1>12, <2>2 DEF AdminAdds
<1>13. CASE UNCHANGED setupVars
  BY <1>13 DEF setupVars, HasGroup
<1>14. QED
  BY <1>1, <1>2, <1>3, <1>4, <1>5, <1>6, <1>7, <1>8, <1>9, <1>10, <1>11, <1>12, <1>13 DEF SetupNext

LEMMA SetupInvariant == SetupSpec => []SetupIInv
BY SetupStarts, SetupSteps, PTL DEF SetupSpec

(* The types hold, and no list stays behind, through every start.          *)
THEOREM SetupTyped == SetupSpec => []SetupTypeOK
<1>1. SetupIInv => SetupTypeOK
  BY DEF SetupIInv
<1>2. QED
  BY <1>1, SetupInvariant, PTL

(* A daemon in its loop has its group and its line in sudoers, after any   *)
(* history of failed, killed and repeated starts.                          *)
THEOREM PreparedAlways == SetupSpec => []Prepared
<1>1. SetupIInv => Prepared
  BY DEF SetupIInv, StepInv, Prepared
<1>2. QED
  BY <1>1, SetupInvariant, PTL

(* The id added is free, for every file that fits the array, every first   *)
(* id and everything that may lie behind the last id collected.            *)
THEOREM GroupIdIsFree == SetupSpec => GroupIdFree
<1> DEFINE FreshId == HasNewGroup /\ Fits(groups) /\ text = groups
                       => groups'[Len(groups')].id >= First /\ groups'[Len(groups')].id \notin Ids(groups)
<1>1. SetupIInv /\ [SetupNext]_setupVars => [FreshId]_setupVars
  <2> SUFFICES ASSUME SetupIInv, SetupNext, HasNewGroup, Fits(groups), text = groups
               PROVE  FreshId
    BY DEF setupVars
  <2>1. AppendGroup
    BY DEF SetupNext, HasNewGroup, GoSetup, SetupStart, FindGroup, FindGroupFails, ReadGroup,
           ReadGroupFaults, ReadGroupFails, AppendGroupFails, FindRule, FindRuleFails, AppendRule,
           AppendRuleFails, SetupStop, AdminRemoves, AdminAdds
  <2>2. PICK id \in NewIds(text) : groups' = Appended(id)
    BY <2>1 DEF AppendGroup, HasNewGroup
  <2>3. groups'[Len(groups')].id = id
    BY <2>2, AppendGroupStep DEF HasNewGroup, SetupIInv
  <2>4. id >= First /\ id \notin Ids(groups)
    BY IdIsFree DEF SetupIInv, SetupTypeOK
  <2>5. QED
    BY <2>3, <2>4
<1>2. QED
  BY <1>1, SetupInvariant, PTL DEF SetupSpec, GroupIdFree

(* Only a start that could not read the file, or found it without a last   *)
(* newline, adds the group to a file that has it.                          *)
THEOREM GroupAddedOnce == SetupSpec => GroupOnce
<1>1. SetupIInv /\ [SetupNext]_setupVars => [HasNewGroup /\ HasGroup => mishap]_setupVars
  BY DEF SetupIInv, StepInv, SetupTypeOK, HasNewGroup
<1>2. QED
  BY <1>1, SetupInvariant, PTL DEF SetupSpec, GroupOnce
-----------------------------------------------------------------------------
(* What the steps behind us have done, if none of them failed.             *)
Achieved ==
  /\ call \notin {"newSession", "setsid", "gone"} => ~terminal
  /\ call \notin {"newSession", "setsid", "dropTTY", "gone"} => ignores
  /\ call \notin {"newSession", "setsid", "dropTTY", "fork", "gone"} => ~leader
  /\ call \in {"return", "daemon"} => \A f \in 0..2 : fds[f] = "null"

DaemonizeIInv ==
  /\ call \in {"newSession", "setsid", "dropTTY", "fork", "chrootdir", "closeFD",
               "reopen", "return", "daemon", "gone"}
  /\ leader \in BOOLEAN /\ terminal \in BOOLEAN /\ ignores \in BOOLEAN /\ erred \in BOOLEAN
  /\ call = "daemon" => ~erred
  /\ erred \/ Achieved

LEMMA ReopenStep ==
  ASSUME Reopen, ~erred'
  PROVE  ~erred /\ \A f \in 0..2 : fds'[f] = "null"
<1>1. ~erred /\ Taken = 0..2 /\ fds' = [f \in 0..MaxFd |-> IF f \in Taken THEN "null" ELSE fds[f]]
  BY DEF Reopen
<1>2. Taken \subseteq 0..MaxFd
  BY DEF Taken, Free
<1>3. QED
  BY <1>1, <1>2

LEMMA DaemonizeSteps == DaemonizeIInv /\ [DaemonizeNext]_daemonizeVars => DaemonizeIInv'
<1> SUFFICES ASSUME DaemonizeIInv, [DaemonizeNext]_daemonizeVars PROVE DaemonizeIInv'
  OBVIOUS
<1> USE DEF DaemonizeIInv, Achieved
<1>1. CASE Fork1Fails \/ Fork2Fails \/ HangUp
  BY <1>1 DEF Fork1Fails, Fork2Fails, HangUp, Quit
<1>2. CASE Fork1
  BY <1>2 DEF Fork1
<1>3. CASE SetSid
  BY <1>3 DEF SetSid
<1>4. CASE IgnoreHup
  BY <1>4 DEF IgnoreHup
<1>5. CASE Fork2
  BY <1>5 DEF Fork2
<1>6. CASE ChRootDir
  BY <1>6 DEF ChRootDir
<1>7. CASE CloseFD
  BY <1>7 DEF CloseFD
<1>8. CASE Reopen
  <2>1. /\ call' = "return" /\ erred' \in BOOLEAN
        /\ UNCHANGED <<leader, terminal, ignores>> /\ call = "reopen"
    BY <1>8 DEF Reopen
  <2>2. CASE erred'
    BY <2>1, <2>2
  <2>3. CASE ~erred'
    BY <1>8, <2>1, <2>3, ReopenStep
  <2>4. QED
    BY <2>2, <2>3
<1>9. CASE Returned
  BY <1>9 DEF Returned, Quit
<1>10. CASE UNCHANGED daemonizeVars
  BY <1>10 DEF daemonizeVars
<1>11. QED
  BY <1>1, <1>2, <1>3, <1>4, <1>5, <1>6, <1>7, <1>8, <1>9, <1>10 DEF DaemonizeNext

(* A process that goes on as the daemon is detached and writes to the log. *)
THEOREM DaemonDetached == DaemonizeSpec => []Detached
<1>1. DaemonizeInit => DaemonizeIInv
  BY DEF DaemonizeInit, DaemonizeIInv, Achieved
<1>2. DaemonizeIInv => Detached
  <2> SUFFICES ASSUME DaemonizeIInv, call = "daemon" PROVE Detached
    BY DEF Detached
  <2>1. ~leader /\ ~terminal /\ ignores /\ \A f \in 0..2 : fds[f] = "null"
    BY DEF DaemonizeIInv, Achieved
  <2>2. 0 \in 0..2 /\ fds[0] = "null" /\ \A g \in 0..0 : fds[g] # "closed"
    BY <2>1
  <2>3. QED
    BY <2>1, <2>2 DEF Detached, SayMode
<1>3. QED
  BY <1>1, <1>2, DaemonizeSteps, PTL DEF DaemonizeSpec
=============================================================================
