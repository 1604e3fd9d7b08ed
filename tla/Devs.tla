-------------------------------- MODULE Devs --------------------------------
(***************************************************************************)
(* How devs() (devs.c) tells removable devices from local disks: it reads  *)
(* the links of /dev/disk/by-uuid one by one, and leaves out those whose   *)
(* target looks like a device that /etc/fstab names.  The names are        *)
(* sequences of characters, here of short pieces, because the code         *)
(* searches one in another and reads targets over one another.             *)
(***************************************************************************)
EXTENDS Integers, Sequences, FiniteSets

CONSTANTS
  DevUUID,   \* the links there may be in /dev/disk/by-uuid
  DevName,   \* what they may point to, without the ../../
  DiskOf,    \* the disk of each name
  LabelOf,   \* the links in /dev/disk/by-label, and the device of each
  Digit,     \* the pieces '0' to '9'
  FstabText, \* lines of /etc/fstab, without comments
  MaxFstab   \* bound: lines of /etc/fstab

ASSUME DevsAssumption ==
  /\ DiskOf \in [DevName -> STRING] /\ LabelOf \in [DOMAIN LabelOf -> DevUUID]
  /\ IsFiniteSet(DevUUID) /\ DevName \subseteq Seq(STRING) /\ FstabText \subseteq Seq(STRING)
  /\ MaxFstab \in Nat

VARIABLES
  fstab,     \* /etc/fstab
  links,     \* what is in /dev/disk/by-uuid
  entries,   \* what readdir() has still to give
  dev,       \* the link being looked at
  devBuff,   \* buff of devs(): its target
  local,     \* list of localDevs(), which the two functions share
  loaded,    \* is it there
  at,        \* the line of /etc/fstab that localDevs() is at
  localBuff, \* buff of localDevs()
  no,        \* the entries of local that are done
  shown,     \* the links to be returned
  opened,    \* history: the links when the directory was opened
  pos        \* next step

devsVars == <<fstab, links, entries, dev, devBuff, local, loaded, at, localBuff, no, shown, opened, pos>>

Fstabs == UNION {[1..n -> FstabText] : n \in 0..MaxFstab}
Links  == UNION {[plugged -> DevName] : plugged \in SUBSET DevUUID}

DevsInit ==
  /\ fstab \in Fstabs /\ links \in Links
  /\ entries = <<>> /\ dev = "" /\ devBuff = <<>>
  /\ local = <<>> /\ loaded = FALSE /\ at = 1 /\ localBuff = <<>> /\ no = 0
  /\ shown = {} /\ opened = <<>> /\ pos = "off"
-----------------------------------------------------------------------------
(* strstr(text, pattern)                                                   *)
Within(pattern, text) ==
  \E i \in 0..(Len(text) - Len(pattern)) : SubSeq(text, i + 1, i + Len(pattern)) = pattern

FirstAt(line, marks, i) ==
  CHOOSE j \in i..(Len(line) + 1) :
    /\ j = Len(line) + 1 \/ line[j] \in marks
    /\ \A k \in i..(j - 1) : line[k] \notin marks

Has(line, mark) == \E i \in DOMAIN line : line[i] = mark

(* From the mark, or from behind it, to the next blank.                    *)
FieldAt(line, mark, offset) ==
  LET i == FirstAt(line, {mark}, 1) + offset IN SubSeq(line, i, FirstAt(line, {" "}, i) - 1)

(* readlink() writes no terminator: a longer target of before shows behind.*)
ReadOver(buff, name) ==
  LET target == <<"../../">> \o name IN target \o SubSeq(buff, Len(target) + 1, Len(buff))

(* What a line of /etc/fstab gives: a path, the name of a link, nothing.   *)
Ref(line) ==
  IF Has(line, "/dev") THEN [by |-> "path", text |-> FieldAt(line, "/dev", 0)]
  ELSE IF Has(line, "UUID=") THEN [by |-> "uuid", text |-> FieldAt(line, "UUID=", 1)]
  ELSE IF Has(line, "LABEL=") THEN [by |-> "label", text |-> FieldAt(line, "LABEL=", 1)]
  ELSE [by |-> "none", text |-> <<>>]

(* The devices that a reference by uuid or label leads to: one or none.    *)
Leads(ref) ==
  {u \in DOMAIN links :
     \/ ref.by = "uuid" /\ ref.text = <<u>>
     \/ ref.by = "label" /\ \E l \in DOMAIN LabelOf : ref.text = <<l>> /\ LabelOf[l] = u}

(* What is left of a call: its local variables are gone.                   *)
Return ==
  /\ entries' = <<>> /\ dev' = "" /\ devBuff' = <<>> /\ at' = 1 /\ localBuff' = <<>> /\ no' = 0
  /\ shown' = {} /\ opened' = <<>> /\ pos' = "off"
  /\ UNCHANGED <<fstab, links>>

(* devs(): opendir() of a directory that is there when it has a link.      *)
OpenDir ==
  /\ pos = "off" /\ links # <<>>
  /\ entries' \in {s \in [1..Cardinality(DOMAIN links) -> DOMAIN links] :
                     \A i, j \in DOMAIN s : s[i] = s[j] => i = j}
  /\ opened' = links /\ pos' = "list"
  /\ UNCHANGED <<fstab, links, dev, devBuff, local, loaded, at, localBuff, no, shown>>

(* The next link, which may be gone by now.                                *)
ReadLink ==
  /\ pos = "list" /\ entries # <<>>
  /\ entries' = Tail(entries)
  /\ IF Head(entries) \in DOMAIN links
     THEN /\ dev' = Head(entries)
          /\ devBuff' = ReadOver(devBuff, links[Head(entries)])
          /\ pos' = IF loaded THEN "match" ELSE "fstab"
     ELSE UNCHANGED <<dev, devBuff, pos>>
  /\ UNCHANGED <<fstab, links, local, loaded, at, localBuff, no, shown, opened>>

(* /etc/fstab is missing: localDevs() returns -1, isLocalDev() does not    *)
(* look at that and follows the NULL pointer.                              *)
NoFstab ==
  /\ pos = "fstab" /\ at = 1 /\ Return
  /\ local' = <<>> /\ loaded' = FALSE

(* localDevs(): one line.  A link that cannot be read leaves its name as   *)
(* the entry that the next one overwrites, if there is a next one.         *)
ReadFstabLine ==
  LET ref == Ref(fstab[at]) IN
  /\ pos = "fstab" /\ at <= Len(fstab) /\ at' = at + 1
  /\ \/ ref.by = "none" /\ UNCHANGED <<local, localBuff, no>>
     \/ /\ ref.by = "path"
        /\ local' = Append(SubSeq(local, 1, no), ref.text) /\ no' = no + 1
        /\ UNCHANGED localBuff
     \/ /\ Leads(ref) # {}
        /\ \E u \in Leads(ref) : localBuff' = ReadOver(localBuff, links[u])
        /\ local' = Append(SubSeq(local, 1, no), localBuff') /\ no' = no + 1
     \/ /\ ref.by \in {"uuid", "label"} /\ Leads(ref) = {}
        /\ local' = Append(SubSeq(local, 1, no), ref.text)
        /\ UNCHANGED <<localBuff, no>>
  /\ UNCHANGED <<fstab, links, entries, dev, devBuff, loaded, shown, opened, pos>>

EndFstab ==
  /\ pos = "fstab" /\ at > Len(fstab)
  /\ loaded' = TRUE /\ pos' = "match"
  /\ UNCHANGED <<fstab, links, entries, dev, devBuff, local, at, localBuff, no, shown, opened>>

(* basename(), ended at its first digit.                                   *)
Pattern(name) == SubSeq(name, 1, FirstAt(name, Digit, 1) - 1)

(* Mutant of IsLocal: only the last character is taken for the number. *)
IsLocalLast(buff) ==
  LET name == Tail(buff)
  IN  \E i \in DOMAIN local :
        Within(IF name[Len(name)] \in Digit THEN SubSeq(name, 1, Len(name) - 1) ELSE name, local[i])

IsLocal(buff) == \E i \in DOMAIN local : Within(Pattern(Tail(buff)), local[i])

Match ==
  /\ pos = "match" /\ pos' = "list"
  /\ shown' = IF IsLocal(devBuff) THEN shown ELSE shown \cup {dev}
  /\ UNCHANGED <<fstab, links, entries, dev, devBuff, local, loaded, at, localBuff, no, opened>>

EndDir ==
  /\ pos = "list" /\ entries = <<>> /\ pos' = "done"
  /\ UNCHANGED <<fstab, links, entries, dev, devBuff, local, loaded, at, localBuff, no, shown, opened>>

(* Mutant of FreeLocal: the list is kept for the next call. *)
FreeLocalNot == pos = "done" /\ Return /\ UNCHANGED <<local, loaded>>

(* The list of localDevs() is freed and the result returned.               *)
FreeLocal == pos = "done" /\ Return /\ local' = <<>> /\ loaded' = FALSE

(* A device may be pulled out at any step; a link that comes is seen by    *)
(* the next call, and so is another /etc/fstab.                            *)
Unplug ==
  /\ \E u \in DOMAIN links : links' = [v \in DOMAIN links \ {u} |-> links[v]]
  /\ UNCHANGED <<fstab, entries, dev, devBuff, local, loaded, at, localBuff, no, shown, opened, pos>>

Plug ==
  /\ pos = "off"
  /\ \E u \in DevUUID \ DOMAIN links, name \in DevName :
       links' = [v \in DOMAIN links \cup {u} |-> IF v = u THEN name ELSE links[v]]
  /\ UNCHANGED <<fstab, entries, dev, devBuff, local, loaded, at, localBuff, no, shown, opened, pos>>

EditFstab ==
  /\ pos = "off" /\ fstab' \in Fstabs
  /\ UNCHANGED <<links, entries, dev, devBuff, local, loaded, at, localBuff, no, shown, opened, pos>>

DevsNext ==
  \/ OpenDir \/ ReadLink \/ NoFstab \/ ReadFstabLine \/ EndFstab \/ Match \/ EndDir \/ FreeLocal
  \/ Unplug \/ Plug \/ EditFstab

DevsSpec == DevsInit /\ [][DevsNext]_devsVars
-----------------------------------------------------------------------------
HasDigit(name) == \E i \in DOMAIN name : name[i] \in Digit

(* The devices that a line names, by /dev/<name> or by a link that stays.  *)
Devices(line) ==
  {name \in DevName : Ref(line) = [by |-> "path", text |-> <<"/dev", "/">> \o name]}
    \cup {links[u] : u \in Leads(Ref(line))}

(* No partition of a disk that /etc/fstab names one of is returned, in     *)
(* whatever order the links are read and whatever was read before; as far  *)
(* as the name has a digit, behind which the tail of the last one is lost. *)
LocalHidden ==
  pos = "done"
    => \A u \in shown \cap DOMAIN links, i \in DOMAIN fstab, name \in DevName :
         name \in Devices(fstab[i]) /\ HasDigit(links[u]) => DiskOf[links[u]] # DiskOf[name]

(* Every text that localDevs() may keep for a line.                        *)
Texts(line) ==
  {Ref(line).text} \cup {opened[u] : u \in {u \in DOMAIN opened :
     \/ Ref(line) = [by |-> "uuid", text |-> <<u>>]
     \/ \E l \in DOMAIN LabelOf : LabelOf[l] = u /\ Ref(line) = [by |-> "label", text |-> <<l>>]}}

(* A device that stays is returned unless its name up to the first digit   *)
(* occurs in what a line of /etc/fstab gives, which is so for every nvme   *)
(* or mmcblk device if there is a local one, and for sda if there is sdaa. *)
RemovableListed ==
  pos = "done"
    => \A u \in DOMAIN links :
         \/ u \in shown
         \/ \E i \in DOMAIN fstab : \E text \in Texts(fstab[i]) : Within(Pattern(links[u]), text)
=============================================================================
