------------------------------- MODULE Setup -------------------------------
(***************************************************************************)
(* What a start of sudodevd does to /etc/group and /etc/sudoers before its *)
(* loop (main(), sudodevd.c): find() looks for the line of the group       *)
(* sudodev and, where it sees none, addGroup() (group.c) appends one with  *)
(* an id of its choice; the same for the line that makes sudo read         *)
(* /etc/sudoers.d, with enableDropInFile() (sudoers.c).  The files outlive *)
(* the process, which starts again and again.                              *)
(***************************************************************************)
EXTENDS Integers, Sequences, FiniteSets

CONSTANTS
  First,      \* the smallest id addGroup() looks at, 1000
  Size,       \* the ids collected when the array is enlarged, 1 << 10
  MaxId,      \* bound: ids in /etc/group
  MaxLines,   \* bound: lines the environment brings /etc/group to
  Junk,       \* what may follow the last id in the array
  SetupFaults

SetupFaultClass ==
  { "crash",   \* the process is killed
    "read",    \* readfile() cannot open a file
    "open",    \* fopen() or fwrite() of a file to append to fails
    "flush" }  \* fclose() loses the line; its result is not looked at

ASSUME SetupAssumption ==
  /\ First \in Nat /\ Size \in Nat \ {0} /\ MaxId \in Nat /\ MaxLines \in Nat
  /\ Junk \subseteq Int
  /\ SetupFaults \subseteq SetupFaultClass

VARIABLES
  groups,   \* /etc/group: what its lines are, and their third fields
  ended,    \* it ends with a newline, or is empty
  sudoers,  \* /etc/sudoers: lines that enable the drop-ins, and its last newline
  step,     \* next step of main()
  text,     \* the lines addGroup() has read
  mishap    \* history: a file was not read, not written, or not ended, in this start

setupVars == <<groups, ended, sudoers, step, text, mishap>>

(* A line is that of sudodev, of another group, one with fewer than three  *)
(* fields ("short"), or another one with the line of sudodev glued to it.  *)
Kind  == {"other", "short", "sudodev", "glued"}
GroupLine == [kind : Kind, id : Nat]

SetupFault(f) == f \in SetupFaults

GoSetup(from, to) == step = from /\ step' = to

HasGroup == \E i \in DOMAIN groups : groups[i].kind = "sudodev"

Ids(lines) == {lines[i].id : i \in DOMAIN lines}

(* The lines whose id is collected: those of users' groups.                *)
Users(lines) == {i \in DOMAIN lines : lines[i].id >= First}

SetupInit ==
  /\ groups \in UNION {[1..n -> [kind : {"other", "short"}, id : 0..MaxId]] : n \in 0..MaxLines}
  /\ \A i \in DOMAIN groups : groups[i].kind = "short" => groups[i].id = 0
  /\ ended \in BOOLEAN /\ (groups = <<>> => ended)
  /\ sudoers \in [lines : {0, 1}, ended : BOOLEAN]
  /\ step = "off" /\ text = <<>> /\ mishap = FALSE
-----------------------------------------------------------------------------
SetupStart ==
  /\ GoSetup("off", "findGroup")
  /\ mishap' = ~(ended /\ sudoers.ended)
  /\ UNCHANGED <<groups, ended, sudoers, text>>

(* Mutant of FindGroup: -1, 0 and 1 are below 2. *)
FindGroupNever ==
  /\ GoSetup("findGroup", "readGroup")
  /\ UNCHANGED <<groups, ended, sudoers, text, mishap>>

(* find(GROUP_FILE, "^sudodev:") < 1, which is also so when it failed.     *)
FindGroup ==
  /\ GoSetup("findGroup", IF HasGroup THEN "findRule" ELSE "readGroup")
  /\ UNCHANGED <<groups, ended, sudoers, text, mishap>>

(* The second conjunct is the bound.                                       *)
FindGroupFails ==
  /\ SetupFault("read") /\ Len(groups) < MaxLines
  /\ GoSetup("findGroup", "readGroup")
  /\ mishap' = TRUE
  /\ UNCHANGED <<groups, ended, sudoers, text>>

Short == \E i \in DOMAIN groups : groups[i].kind = "short"

ReadGroup ==
  /\ ~Short
  /\ GoSetup("readGroup", "appendGroup")
  /\ text' = groups
  /\ UNCHANGED <<groups, ended, sudoers, mishap>>

(* addGroup: strtok() gives NULL for the missing field, and atoi() faults. *)
ReadGroupFaults ==
  /\ Short
  /\ GoSetup("readGroup", "off")
  /\ UNCHANGED <<groups, ended, sudoers, text, mishap>>

(* addGroup returns -1, which main() does not look at.                     *)
ReadGroupFails ==
  /\ SetupFault("read")
  /\ GoSetup("readGroup", "findRule")
  /\ mishap' = TRUE
  /\ UNCHANGED <<groups, ended, sudoers, text>>

(* The collected ids as msort() leaves them.                               *)
Sorted(lines) ==
  {s \in [1..Cardinality(Users(lines)) -> Ids(lines)] :
     /\ \A i, j \in DOMAIN s : i < j => s[i] <= s[j]
     /\ \A id \in Ids(lines) :
          Cardinality({i \in DOMAIN s : s[i] = id})
            = Cardinality({i \in Users(lines) : lines[i].id = id})}

(* realloc (ids, size) counts bytes: an array that was enlarged is smaller *)
(* than what was stored in it.                                             *)
Fits(lines) == Cardinality(Users(lines)) < Size

(* Where the next id is more than one larger.  The last id is compared     *)
(* with what the array holds behind it.                                    *)
Gaps(ids, junk) ==
  {i \in DOMAIN ids : (IF i < Len(ids) THEN ids[i + 1] ELSE junk) - ids[i] > 1}

(* Mutant of Maxima: an only id is not looked at. *)
MaximaOfNone(ids, junk) ==
  IF Len(ids) < 2 \/ ids[1] > First THEN {First - 1}
  ELSE {ids[i] : i \in {i \in DOMAIN ids : \A j \in Gaps(ids, junk) : i <= j}}

(* The only element is max in addGroup(), after which comes the new id.    *)
Maxima(ids, junk) ==
  IF Len(ids) = 1
  THEN IF ids[1] > First THEN {First - 1} ELSE {First}
  ELSE IF Len(ids) = 0 \/ ids[1] > First
  THEN {First - 1}
  ELSE IF Gaps(ids, junk) # {}
  THEN {ids[i] : i \in {i \in Gaps(ids, junk) : \A j \in Gaps(ids, junk) : i <= j}}
  ELSE {ids[Len(ids)]}

(* An array that was overrun may give any id.                              *)
NewIds(lines) ==
  IF Fits(lines)
  THEN {max + 1 : max \in UNION {Maxima(s, junk) : s \in Sorted(lines), junk \in Junk}}
  ELSE First..MaxId + 1

(* fopen("a+") and fwrite(): a last line without its newline is continued. *)
Appended(id) ==
  IF ended THEN Append(groups, [kind |-> "sudodev", id |-> id])
           ELSE [groups EXCEPT ![Len(groups)].kind = "glued"]

(* Mutant of AppendGroup: the lines it has read are not freed. *)
AppendGroupKeeps ==
  /\ GoSetup("appendGroup", "findRule")
  /\ \E id \in NewIds(text) : groups' = Appended(id)
  /\ ended' = TRUE
  /\ UNCHANGED <<sudoers, text, mishap>>

AppendGroup ==
  /\ GoSetup("appendGroup", "findRule")
  /\ \/ (\E id \in NewIds(text) : groups' = Appended(id)) /\ ended' = TRUE /\ UNCHANGED mishap
     \/ SetupFault("flush") /\ mishap' = TRUE /\ UNCHANGED <<groups, ended>>
  /\ text' = <<>>
  /\ UNCHANGED sudoers

(* exit(1), or the overrun heap ends the process.                          *)
AppendGroupFails ==
  /\ SetupFault("open") \/ ~Fits(text)
  /\ GoSetup("appendGroup", "off")
  /\ text' = <<>>
  /\ UNCHANGED <<groups, ended, sudoers, mishap>>

(* Mutant of FindRule: find() > -1 is enough. *)
FindRuleLenient ==
  /\ GoSetup("findRule", "loop")
  /\ UNCHANGED <<groups, ended, sudoers, text, mishap>>

(* enableDropInFile: find() > 0 is enough.                                 *)
FindRule ==
  /\ GoSetup("findRule", IF sudoers.lines > 0 THEN "loop" ELSE "appendRule")
  /\ UNCHANGED <<groups, ended, sudoers, text, mishap>>

(* -1 is not: the line is appended to a file that could not be read.  The  *)
(* second conjunct is the bound.                                           *)
FindRuleFails ==
  /\ SetupFault("read") /\ sudoers.lines < 2
  /\ GoSetup("findRule", "appendRule")
  /\ mishap' = TRUE
  /\ UNCHANGED <<groups, ended, sudoers, text>>

AppendRule ==
  /\ GoSetup("appendRule", "loop")
  /\ \/ /\ sudoers' = [lines |-> IF sudoers.ended THEN sudoers.lines + 1 ELSE sudoers.lines,
                       ended |-> TRUE]
        /\ UNCHANGED mishap
     \/ SetupFault("flush") /\ mishap' = TRUE /\ UNCHANGED sudoers
  /\ UNCHANGED <<groups, ended, text>>

AppendRuleFails ==
  /\ SetupFault("open")
  /\ GoSetup("appendRule", "off")
  /\ UNCHANGED <<groups, ended, sudoers, text, mishap>>

(* The daemon is stopped in its loop, or killed on the way to it.          *)
SetupStop ==
  /\ step = "loop" \/ (SetupFault("crash") /\ step # "off")
  /\ step' = "off" /\ text' = <<>>
  /\ UNCHANGED <<groups, ended, sudoers, mishap>>

(* groupadd, by anyone at any time; groupdel of sudodev between two runs.  *)
AdminAdds(id) ==
  /\ Len(groups) < MaxLines /\ ended
  /\ groups' = Append(groups, [kind |-> "other", id |-> id])
  /\ UNCHANGED <<ended, sudoers, step, text, mishap>>

AdminRemoves ==
  /\ step = "off" /\ ended
  /\ \E i \in DOMAIN groups :
       /\ groups[i].kind = "sudodev"
       /\ groups' = SubSeq(groups, 1, i - 1) \o SubSeq(groups, i + 1, Len(groups))
  /\ UNCHANGED <<ended, sudoers, step, text, mishap>>

SetupNext ==
  \/ SetupStart \/ FindGroup \/ FindGroupFails \/ ReadGroup \/ ReadGroupFaults \/ ReadGroupFails
  \/ AppendGroup \/ AppendGroupFails
  \/ FindRule \/ FindRuleFails \/ AppendRule \/ AppendRuleFails
  \/ SetupStop \/ AdminRemoves \/ \E id \in 0..MaxId : AdminAdds(id)

SetupSpec == SetupInit /\ [][SetupNext]_setupVars
-----------------------------------------------------------------------------
(* The types, and a list that was read is freed when addGroup() is left.   *)
SetupTypeOK ==
  /\ groups \in Seq(GroupLine) /\ text \in Seq(GroupLine)
  /\ ended \in BOOLEAN /\ mishap \in BOOLEAN
  /\ sudoers \in [lines : Nat, ended : BOOLEAN]
  /\ step \in {"off", "findGroup", "readGroup", "appendGroup", "findRule", "appendRule", "loop"}
  /\ text # <<>> => step = "appendGroup"

(* A line of its own for sudodev was appended.                             *)
HasNewGroup == step = "appendGroup" /\ step' = "findRule" /\ ended /\ groups' # groups

(* The id of the new group is a user's and nobody else's (group.c:96-136), *)
(* for one id, for none, for a file full of gaps or of repeated ids, and   *)
(* whatever the array holds behind its last id; as long as /etc/group did  *)
(* not change since it was read and has fewer users' groups than the array *)
(* was made for.                                                           *)
GroupIdFree ==
  [][HasNewGroup /\ Fits(groups) /\ text = groups
       => LET new == groups'[Len(groups')].id
          IN  new >= First /\ new \notin Ids(groups)]_setupVars

(* However often the daemon starts, fails or is killed, the group is added *)
(* to a file that has it already only in a start that could not read the   *)
(* file, or that found a file without a last newline.                      *)
GroupOnce == [][HasNewGroup /\ HasGroup => mishap]_setupVars

(* A daemon that reaches its loop has its group, and sudo reads its rule,  *)
(* if both files could be read, were written and ended with a newline: a   *)
(* file without one takes a second start.                                  *)
Prepared == step = "loop" /\ ~mishap => HasGroup /\ sudoers.lines > 0
=============================================================================
