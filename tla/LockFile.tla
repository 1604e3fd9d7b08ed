------------------------------ MODULE LockFile ------------------------------
(***************************************************************************)
(* Several instances of sudodevd and the two files they share: LOCKFILE,   *)
(* locked by hasLockfile() (lockfile.c) and unlinked by the handler of     *)
(* SIGTERM, and SUDO_CONF.  The lock belongs to the inode that was opened, *)
(* while every start opens whatever inode the path names by then.  What an *)
(* instance does between start and stop is Sudodevd's matter; here it      *)
(* keeps the rule in step with the device.                                 *)
(***************************************************************************)
EXTENDS Integers

CONSTANTS
  Proc,     \* the instances
  Inode,    \* the inodes LOCKFILE can be given
  None,     \* no inode, no process
  Overlap   \* may one instance start while another stops?

ASSUME LockAssumption ==
  /\ None \notin Proc /\ None \notin Inode
  /\ Overlap \in BOOLEAN

VARIABLES
  name,     \* the inode LOCKFILE names
  owner,    \* who holds the write lock of an inode
  text,     \* whose pid an inode contains
  fd,       \* the inode each instance has open
  at,       \* next step of each instance
  working,  \* eventloop's status: it wrote the rule
  plugged,  \* a configured device is there
  conf,     \* SUDO_CONF exists
  crashed   \* history: some instance ended without its handler

files == <<name, owner, text, fd>>
vars  == <<files, at, working, plugged, conf, crashed>>

Starting == {"open", "lock", "write"}
Stopping == {"unlinkPid", "unlinkConf", "exit"}

Init ==
  /\ name = None /\ owner = [i \in Inode |-> None] /\ text = [i \in Inode |-> None]
  /\ fd = [p \in Proc |-> None] /\ at = [p \in Proc |-> "off"]
  /\ working = [p \in Proc |-> FALSE] /\ plugged = FALSE /\ conf = FALSE
  /\ crashed = FALSE

Goto(p, from, to) == at[p] = from /\ at' = [at EXCEPT ![p] = to]

(* The end of a process closes its descriptor, and with it the lock goes.  *)
End(p) ==
  /\ at' = [at EXCEPT ![p] = "off"]
  /\ fd' = [fd EXCEPT ![p] = None]
  /\ owner' = [i \in Inode |-> IF owner[i] = p THEN None ELSE owner[i]]
  /\ working' = [working EXCEPT ![p] = FALSE]
-----------------------------------------------------------------------------
Start(p) ==
  /\ Overlap \/ \A q \in Proc : at[q] \notin Stopping
  /\ Goto(p, "off", "open")
  /\ UNCHANGED <<files, working, plugged, conf, crashed>>

Unused(i) == i # name /\ \A p \in Proc : fd[p] # i

(* open(LOCKFILE, O_RDWR | O_CREAT) *)
Open(p) ==
  /\ Goto(p, "open", "lock")
  /\ \/ name # None /\ fd' = [fd EXCEPT ![p] = name] /\ UNCHANGED <<name, text>>
     \/ /\ name = None
        /\ \E i \in Inode :
             /\ Unused(i)
             /\ name' = i /\ fd' = [fd EXCEPT ![p] = i]
             /\ text' = [text EXCEPT ![i] = None]
  /\ UNCHANGED <<owner, working, plugged, conf, crashed>>

(* Mutant of Lock: the result of fcntl() is ignored. *)
LockUnchecked(p) ==
  /\ Goto(p, "lock", "write")
  /\ owner' = [owner EXCEPT ![fd[p]] = p]
  /\ UNCHANGED <<name, text, fd, working, plugged, conf, crashed>>

(* fcntl(F_SETLK) on the inode that was opened.                            *)
Lock(p) ==
  /\ Goto(p, "lock", "write") /\ owner[fd[p]] = None
  /\ owner' = [owner EXCEPT ![fd[p]] = p]
  /\ UNCHANGED <<name, text, fd, working, plugged, conf, crashed>>

(* Mutant of Busy: tried again without closing the descriptor. *)
BusyRetries(p) ==
  /\ Goto(p, "lock", "open") /\ owner[fd[p]] # None
  /\ UNCHANGED <<files, working, plugged, conf, crashed>>

(* Mutant of Busy: it quits through clean(). *)
BusyCleans(p) ==
  /\ at[p] = "lock" /\ owner[fd[p]] # None
  /\ End(p)
  /\ name' = None /\ conf' = FALSE
  /\ UNCHANGED <<text, plugged, crashed>>

(* Another process has it: "sudodevd is already running, quit".            *)
Busy(p) ==
  /\ at[p] = "lock" /\ owner[fd[p]] # None
  /\ End(p)
  /\ UNCHANGED <<name, text, plugged, conf, crashed>>

(* Mutant of WritePid: a pid already there is left. *)
WritePidOnce(p) ==
  /\ Goto(p, "write", "run")
  /\ text' = [text EXCEPT ![fd[p]] = IF @ = None THEN p ELSE @]
  /\ UNCHANGED <<name, owner, fd, working, plugged, conf, crashed>>

(* ftruncate() and write(); the handlers are bound next.                   *)
WritePid(p) ==
  /\ Goto(p, "write", "run")
  /\ text' = [text EXCEPT ![fd[p]] = p]
  /\ UNCHANGED <<name, owner, fd, working, plugged, conf, crashed>>

(* open() or write() fails: exit(1).                                       *)
StartFails(p) ==
  /\ at[p] \in {"open", "write"}
  /\ End(p)
  /\ UNCHANGED <<name, text, plugged, conf, crashed>>

(* eventloop(): the rule is written or removed when the decision differs   *)
(* from the status this instance remembers.                                *)
Apply(p) ==
  /\ at[p] = "run" /\ working[p] # plugged
  /\ working' = [working EXCEPT ![p] = plugged] /\ conf' = plugged
  /\ UNCHANGED <<files, at, plugged, crashed>>

(* sigtermHandler: clean(), then exit(0).                                  *)
Term(p) ==
  /\ Overlap \/ \A q \in Proc : at[q] \notin Starting
  /\ Goto(p, "run", "unlinkPid")
  /\ UNCHANGED <<files, working, plugged, conf, crashed>>

(* Mutant of UnlinkPid: clean() returns after the first unlink(). *)
UnlinkPidOnly(p) ==
  /\ Goto(p, "unlinkPid", "exit")
  /\ name' = None
  /\ UNCHANGED <<owner, text, fd, working, plugged, conf, crashed>>

UnlinkPid(p) ==
  /\ Goto(p, "unlinkPid", "unlinkConf")
  /\ name' = None
  /\ UNCHANGED <<owner, text, fd, working, plugged, conf, crashed>>

UnlinkConf(p) ==
  /\ Goto(p, "unlinkConf", "exit")
  /\ conf' = FALSE
  /\ UNCHANGED <<files, working, plugged, crashed>>

Exit(p) ==
  /\ at[p] = "exit"
  /\ End(p)
  /\ UNCHANGED <<name, text, plugged, conf, crashed>>

(* abort(), exit(1) in the loop, or a kill that reaches no handler.        *)
Crash(p) ==
  /\ at[p] # "off"
  /\ End(p) /\ crashed' = TRUE
  /\ UNCHANGED <<name, text, plugged, conf>>

Toggle == plugged' = ~plugged /\ UNCHANGED <<files, at, working, conf, crashed>>

Next ==
  \/ \E p \in Proc :
       \/ Start(p) \/ Open(p) \/ Lock(p) \/ Busy(p) \/ WritePid(p) \/ StartFails(p)
       \/ Apply(p)
       \/ Term(p) \/ UnlinkPid(p) \/ UnlinkConf(p) \/ Exit(p) \/ Crash(p)
  \/ Toggle

Spec == Init /\ [][Next]_vars
-----------------------------------------------------------------------------
(* The types, and a descriptor is open exactly while it should be.         *)
TypeOK ==
  /\ name \in Inode \cup {None}
  /\ owner \in [Inode -> Proc \cup {None}] /\ text \in [Inode -> Proc \cup {None}]
  /\ fd \in [Proc -> Inode \cup {None}]
  /\ at \in [Proc -> {"off", "run"} \cup Starting \cup Stopping]
  /\ working \in [Proc -> BOOLEAN] /\ plugged \in BOOLEAN /\ conf \in BOOLEAN
  /\ crashed \in BOOLEAN
  /\ \A p \in Proc : fd[p] # None <=> at[p] \notin {"off", "open"}

(* "Use a lockfile to make sure only 1 sudodevd is running"                *)
OneDaemon ==
  \A p, q \in Proc : at[p] = "run" /\ at[q] = "run" => p = q

(* A reload or a stop that reads LOCKFILE reaches the daemon that runs.    *)
PidNamesDaemon ==
  \A p \in Proc : at[p] = "run" => name # None /\ text[name] = p

(* The rule a daemon remembers writing is there.                           *)
RuleOfTheRunning ==
  \A p \in Proc : at[p] = "run" /\ working[p] => conf

(* However starts and stops overlap, daemons that are stopped leave no     *)
(* rule behind: the last to remove it does so after every write.           *)
NoRuleLeft ==
  conf /\ ~crashed => \E p \in Proc : at[p] \in {"run", "unlinkPid", "unlinkConf"}
=============================================================================
