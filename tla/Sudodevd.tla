------------------------------ MODULE Sudodevd ------------------------------
(***************************************************************************)
(* The daemon sudodevd (src/sudodevd.c), built as the repository builds it *)
(* (config.h, MULTITHREAD_DAEMON 0): one thread that polls the devices and *)
(* writes or removes the sudoers drop-in, interrupted between any two of   *)
(* its steps by the handlers of SIGHUP and SIGTERM.  A handler runs on the *)
(* same thread, above the frame it interrupted, which moves again only     *)
(* when the handler returns.  One instance runs at a time; LockFile models *)
(* several of them.                                                        *)
(***************************************************************************)
EXTENDS Integers

CONSTANTS
  UUID,        \* the names that may appear under /dev/disk/by-uuid
  Local,       \* those that isLocalDev() hides: disks named in /etc/fstab
  MaxCopies,   \* bound: how often one line may occur in the profile
  Faults       \* the failures the environment may inject

FaultClass ==
  { "crash",    \* abort(), a kill that cannot be caught, power loss
    "opendir",  \* devs() cannot open /dev/disk/by-uuid
    "setup",    \* a start-up step calls exit(1)
    "read",     \* readfile() cannot open the profile
    "write",    \* inWork() cannot open or write the drop-in
    "flush",    \* inWork()'s fclose() loses the buffered rule
    "unlink",   \* unlink() fails
    "free",     \* a signal interrupts destoryList(), its handler frees again
    "heap" }    \* a handler interrupts malloc/free, calls them and hangs

ASSUME ConstantsAssumption ==
  /\ Local \subseteq UUID
  /\ MaxCopies \in Nat \ {0}
  /\ Faults \subseteq FaultClass

VARIABLES
  links,     \* names present in /dev/disk/by-uuid
  profile,   \* /etc/sudodev.conf: how often each UUID occurs as a line
  cli,       \* progress of a sudodev client that rewrites the profile
  pidFile,   \* LOCKFILE exists and names the daemon
  conf,      \* SUDO_CONF: "absent", "empty" or "rule"
  exit,      \* how the last instance ended
  pc,        \* next step of main() and eventloop()
  hup, term, \* next step of each handler, "idle" when it is not on the stack
  top,       \* the frame that runs
  pending,   \* signals sent and not yet delivered
  mutex,     \* "free", "main", "hup" or "destroyed"
  sysdevs, sudodevs,  \* the two lists; NULL and empty are not told apart
  hupList,   \* sighupHandler's local list
  all,       \* eventloop's local list of borrowed pointers
  work, working

world  == <<links, profile, cli>>
disk   == <<pidFile, conf>>
frames == <<hup, term, top>>
lists  == <<sysdevs, sudodevs, hupList, all>>
status == <<work, working>>
vars   == <<world, disk, exit, pc, frames, pending, mutex, lists, status>>

(* A list of lines, up to order: every list the daemon compares is sorted. *)
Lines  == [UUID -> 0..MaxCopies]
NoLine == [u \in UUID |-> 0]

(* Mutant of Distinct: a repeated line is kept. *)
KeepRepeats(list) == list

(* sighupHandler sorts the profile and drops a line equal to the previous. *)
Distinct(list) == [u \in UUID |-> IF list[u] > 0 THEN 1 ELSE 0]

(* eventloop concatenates the devices and the configured UUIDs ...         *)
Joined(devs, list) ==
  [u \in UUID |-> list[u] + (IF u \in devs THEN 1 ELSE 0)]

(* Mutant of HasRepeat: three equal lines are asked for. *)
HasTriple(list) == \E u \in UUID : list[u] > 2

(* ... sorts them and looks for two equal neighbours.                      *)
HasRepeat(list) == \E u \in UUID : list[u] > 1

(* devs(): every link of the directory that is not a local disk.           *)
Removable == links \ Local

TermBound == pc \notin {"off", "pid", "bindTerm"}
HupBound  == TermBound /\ pc # "bindHup"

Fault(f) == f \in Faults
-----------------------------------------------------------------------------
Init ==
  /\ links = Local /\ profile = NoLine /\ cli = "idle"
  /\ pidFile = FALSE /\ conf = "absent" /\ exit = "none"
  /\ pc = "off" /\ hup = "idle" /\ term = "idle" /\ top = "main"
  /\ pending = {} /\ mutex = "free"
  /\ sysdevs = {} /\ sudodevs = NoLine /\ hupList = NoLine /\ all = NoLine
  /\ work = 0 /\ working = 0

(* The process is gone and its memory with it; the files stay.             *)
Die(how) ==
  /\ pc' = "off" /\ exit' = how
  /\ hup' = "idle" /\ term' = "idle" /\ top' = "main"
  /\ pending' = {} /\ mutex' = "free"
  /\ sysdevs' = {} /\ sudodevs' = NoLine /\ hupList' = NoLine /\ all' = NoLine
  /\ work' = 0 /\ working' = 0
-----------------------------------------------------------------------------
(* The world: devices, the client that edits the profile, the init system. *)

Plug(u) ==
  /\ u \notin links
  /\ links' = links \cup {u}
  /\ UNCHANGED <<profile, cli, disk, exit, pc, frames, pending, mutex, lists, status>>

Unplug(u) ==
  /\ u \in links \ Local
  /\ links' = links \ {u}
  /\ UNCHANGED <<profile, cli, disk, exit, pc, frames, pending, mutex, lists, status>>

(* profileOverwrite: fopen(PROFILE, "w") empties the file ...              *)
ClientTruncate ==
  /\ cli = "idle"
  /\ cli' = "writing" /\ profile' = NoLine
  /\ UNCHANGED <<links, disk, exit, pc, frames, pending, mutex, lists, status>>

(* ... and fclose() makes the new lines visible.                           *)
ClientWrite(new) ==
  /\ cli = "writing"
  /\ cli' = "written" /\ profile' = new
  /\ UNCHANGED <<links, disk, exit, pc, frames, pending, mutex, lists, status>>

(* A SIGHUP sent before it is bound is ignored: dropTTY set SIG_IGN.       *)
SentHup == IF HupBound THEN pending \cup {"HUP"} ELSE pending

(* reload(): needs the pid in LOCKFILE; without it the client gives up.    *)
ClientReload ==
  /\ cli = "written"
  /\ cli' = "idle"
  /\ pending' = IF pidFile THEN SentHup ELSE pending
  /\ UNCHANGED <<links, profile, disk, exit, pc, frames, mutex, lists, status>>

(* The init system or the administrator: reload, stop, start.              *)
SendHup ==
  /\ HupBound
  /\ pending' = pending \cup {"HUP"}
  /\ UNCHANGED <<world, disk, exit, pc, frames, mutex, lists, status>>

SendTerm ==
  /\ pc # "off"
  /\ pending' = pending \cup {"TERM"}
  /\ UNCHANGED <<world, disk, exit, pc, frames, mutex, lists, status>>

Start ==
  /\ pc = "off"
  /\ pc' = "pid" /\ exit' = "none"
  /\ UNCHANGED <<world, disk, frames, pending, mutex, lists, status>>

(* The process ends without running any handler.  LOCKFILE survives unless *)
(* the machine went down too: /var/run does not outlive a boot.            *)
Crash ==
  /\ Fault("crash") /\ pc # "off"
  /\ pidFile' \in {pidFile, FALSE}
  /\ Die("killed")
  /\ UNCHANGED <<world, conf>>

World ==
  \/ \E u \in UUID : Plug(u) \/ Unplug(u)
  \/ ClientTruncate \/ ClientReload
  \/ \E new \in Lines : ClientWrite(new)
  \/ SendHup \/ SendTerm \/ Start \/ Crash
-----------------------------------------------------------------------------
(* Delivery: the handler's frame is put on the stack and its own signal    *)
(* masked (actionBinding), the other one not.                              *)

(* Both handlers log, allocate and free.  Undefined when the interrupted    *)
(* frame does the same, which every frame but a sleeping main() does: the   *)
(* handler may never return (a damaged heap that aborts is Crash).         *)
Stuck ==
  IF Fault("heap") /\ ~(top = "main" /\ pc = "sleep") THEN {"hung"} ELSE {}

DeliverHup ==
  /\ "HUP" \in pending /\ HupBound /\ hup = "idle"
  /\ pending' = pending \ {"HUP"}
  /\ hup' \in {"forget"} \cup Stuck
  /\ top' = "hup"
  /\ UNCHANGED <<world, disk, exit, pc, term, mutex, lists, status>>

DeliverTerm ==
  /\ "TERM" \in pending /\ TermBound /\ term = "idle"
  /\ pending' = pending \ {"TERM"}
  /\ term' \in {"destroy"} \cup Stuck
  /\ top' = "term"
  /\ UNCHANGED <<world, disk, exit, pc, hup, mutex, lists, status>>

(* Before the handler is bound SIGTERM has its default action.             *)
DefaultTerm ==
  /\ "TERM" \in pending /\ ~TermBound
  /\ Die("killed")
  /\ UNCHANGED <<world, disk>>

Deliver == DeliverHup \/ DeliverTerm \/ DefaultTerm
-----------------------------------------------------------------------------
(* sighupHandler, step by step.                                            *)

OnHup(step) == top = "hup" /\ hup = step

(* cleanSudoDev() comes before the lock is taken.                          *)
HupForget ==
  /\ OnHup("forget")
  /\ hup' = "lock" /\ sudodevs' = NoLine
  /\ UNCHANGED <<world, disk, exit, pc, term, top, pending, mutex, sysdevs,
                 hupList, all, status>>

(* Mutant of HupLock: a failed trylock is ignored. *)
HupTryLock ==
  /\ OnHup("lock")
  /\ hup' = "read"
  /\ mutex' = IF mutex = "free" THEN "hup" ELSE mutex
  /\ UNCHANGED <<world, disk, exit, pc, term, top, pending, lists, status>>

(* Mutant of HupLock: a destroyed mutex is waited for. *)
HupLockFree ==
  /\ OnHup("lock") /\ mutex = "free"
  /\ hup' = "read" /\ mutex' = "hup"
  /\ UNCHANGED <<world, disk, exit, pc, term, top, pending, lists, status>>

(* Held by the interrupted main(), the mutex never becomes free: there is   *)
(* no step then.  Locking a destroyed mutex fails, which nobody looks at.  *)
HupLock ==
  /\ OnHup("lock") /\ mutex # "main"
  /\ hup' = "read"
  /\ mutex' = IF mutex = "free" THEN "hup" ELSE mutex
  /\ UNCHANGED <<world, disk, exit, pc, term, top, pending, lists, status>>

HupRead ==
  /\ OnHup("read")
  /\ hup' = "store" /\ hupList' = profile
  /\ UNCHANGED <<world, disk, exit, pc, term, top, pending, mutex, sysdevs,
                 sudodevs, all, status>>

(* readfile() < 1: the list of UUIDs stays empty.                          *)
HupReadFails ==
  /\ Fault("read") /\ OnHup("read")
  /\ hup' = "unlock" /\ sudodevs' = NoLine
  /\ UNCHANGED <<world, disk, exit, pc, term, top, pending, mutex, sysdevs,
                 hupList, all, status>>

HupStore ==
  /\ OnHup("store")
  /\ hup' = "unlock" /\ sudodevs' = Distinct(hupList) /\ hupList' = NoLine
  /\ UNCHANGED <<world, disk, exit, pc, term, top, pending, mutex, sysdevs,
                 all, status>>

(* The handler returns to the frame below it.                              *)
HupUnlock ==
  /\ OnHup("unlock")
  /\ mutex' = IF mutex = "hup" THEN "free" ELSE mutex
  /\ hup' = "idle" /\ top' = (IF term = "idle" THEN "main" ELSE "term")
  /\ UNCHANGED <<world, disk, exit, pc, term, pending, lists, status>>

Hup == HupForget \/ HupLock \/ HupRead \/ HupReadFails \/ HupStore \/ HupUnlock
-----------------------------------------------------------------------------
(* sigtermHandler: clean() and exit(0).  It never returns.                 *)

OnTerm(step) == top = "term" /\ term = step

(* A mutex that is held is not destroyed (EBUSY, ignored).                 *)
TermDestroy ==
  /\ OnTerm("destroy")
  /\ term' = "free"
  /\ mutex' = IF mutex = "free" THEN "destroyed" ELSE mutex
  /\ UNCHANGED <<world, disk, exit, pc, hup, top, pending, lists, status>>

(* Mutant of TermFree: the lists are freed under the lock. *)
TermFreeLocked ==
  /\ OnTerm("free") /\ mutex # "main"
  /\ term' = "unlinkPid" /\ sudodevs' = NoLine /\ sysdevs' = {}
  /\ UNCHANGED <<world, disk, exit, pc, hup, top, pending, mutex, hupList, all, status>>

TermFree ==
  /\ OnTerm("free")
  /\ term' = "unlinkPid" /\ sudodevs' = NoLine /\ sysdevs' = {}
  /\ UNCHANGED <<world, disk, exit, pc, hup, top, pending, mutex, hupList, all, status>>

TermUnlinkPid ==
  /\ OnTerm("unlinkPid")
  /\ term' = "unlinkConf"
  /\ pidFile' \in {FALSE} \cup (IF Fault("unlink") THEN {pidFile} ELSE {})
  /\ UNCHANGED <<world, conf, exit, pc, hup, top, pending, mutex, lists, status>>

(* Mutant of TermUnlinkConf: the rule is forgotten. *)
TermKeepConf ==
  /\ OnTerm("unlinkConf")
  /\ term' = "exit"
  /\ UNCHANGED <<world, disk, exit, pc, hup, top, pending, mutex, lists, status>>

TermUnlinkConf ==
  /\ OnTerm("unlinkConf")
  /\ term' = "exit"
  /\ conf' \in {"absent"} \cup (IF Fault("unlink") THEN {conf} ELSE {})
  /\ UNCHANGED <<world, pidFile, exit, pc, hup, top, pending, mutex, lists, status>>

TermExit ==
  /\ OnTerm("exit")
  /\ Die("clean")
  /\ UNCHANGED <<world, disk>>

(* destoryList() frees the strings and the array, and clears the pointer   *)
(* last.  A handler that came in between frees the same list again, which  *)
(* aborts: SIGTERM over cleanSysDev() of the loop or cleanSudoDev() of the *)
(* other handler, SIGHUP over clean().  abort() leaves the files.          *)
FreedTwice ==
  /\ Fault("free")
  /\ \/ OnTerm("free") /\ pc = "load" /\ sysdevs # {}
     \/ OnTerm("free") /\ hup = "forget" /\ sudodevs # NoLine
     \/ OnHup("forget") /\ term = "free" /\ sudodevs # NoLine
  /\ Die("killed")
  /\ UNCHANGED <<world, disk>>

Term == TermDestroy \/ TermFree \/ TermUnlinkPid \/ TermUnlinkConf \/ TermExit
-----------------------------------------------------------------------------
(* main(): from hasLockfile() to the event loop.                           *)

OnMain(step) == top = "main" /\ pc = step

Goto(step) == pc' = step /\ UNCHANGED <<exit, frames, pending>>

MainPid ==
  /\ OnMain("pid") /\ Goto("bindTerm")
  /\ pidFile' = TRUE
  /\ UNCHANGED <<world, conf, mutex, lists, status>>

(* sighandle() binds SIGTERM, then SIGHUP.                                 *)
MainBind ==
  /\ \/ OnMain("bindTerm") /\ Goto("bindHup")
     \/ OnMain("bindHup") /\ Goto("group")
  /\ UNCHANGED <<world, disk, mutex, lists, status>>

MainGroup ==
  /\ OnMain("group") /\ Goto("raise")
  /\ UNCHANGED <<world, disk, mutex, lists, status>>

(* Mutant of MainRaise: the profile is not read at the start. *)
MainNoRaise ==
  /\ OnMain("raise") /\ Goto("dropin")
  /\ UNCHANGED <<world, disk, mutex, lists, status>>

(* raise(SIGHUP) returns after the handler has.                            *)
MainRaise ==
  /\ OnMain("raise")
  /\ pc' = "dropin"
  /\ hup' = "forget" /\ top' = "hup" /\ pending' = pending \ {"HUP"}
  /\ UNCHANGED <<world, disk, exit, term, mutex, lists, status>>

MainDropIn ==
  /\ OnMain("dropin") /\ Goto("load")
  /\ UNCHANGED <<world, disk, mutex, lists, status>>

(* exit(1): nothing is cleaned up.                                         *)
MainSetupFails ==
  /\ Fault("setup") /\ top = "main"
  /\ pc \in {"pid", "bindTerm", "bindHup", "group", "dropin"}
  /\ Die("failure")
  /\ UNCHANGED <<world, disk>>

Startup == MainPid \/ MainBind \/ MainGroup \/ MainRaise \/ MainDropIn \/ MainSetupFails
-----------------------------------------------------------------------------
(* eventloop(): one pass.                                                  *)

(* Mutant of LoadSysDev: the list of the previous pass is not freed first. *)
LoadSysDevKeeps ==
  /\ OnMain("load") /\ links # {} /\ Goto("lock")
  /\ sysdevs' = sysdevs \cup Removable
  /\ UNCHANGED <<world, disk, mutex, sudodevs, hupList, all, status>>

LoadSysDev ==
  /\ OnMain("load") /\ links # {} /\ Goto("lock")
  /\ sysdevs' = Removable
  /\ UNCHANGED <<world, disk, mutex, sudodevs, hupList, all, status>>

(* The directory exists while it has a link.  No clean() before exit(1).   *)
LoadSysDevFails ==
  /\ OnMain("load") /\ (links = {} \/ Fault("opendir"))
  /\ Die("failure")
  /\ UNCHANGED <<world, disk>>

LoopLock ==
  /\ OnMain("lock") /\ mutex = "free" /\ Goto("merge")
  /\ mutex' = "main"
  /\ UNCHANGED <<world, disk, lists, status>>

LoopMerge ==
  /\ OnMain("merge") /\ Goto("scan")
  /\ all' = Joined(sysdevs, sudodevs)
  /\ UNCHANGED <<world, disk, mutex, sysdevs, sudodevs, hupList, status>>

(* Mutant of LoopScan: the pass is over, and the mutex kept, on a mismatch. *)
LoopScanContinue ==
  /\ OnMain("scan") /\ Goto(IF HasRepeat(all) THEN "unlock" ELSE "sleep")
  /\ work' = IF HasRepeat(all) THEN 1 ELSE 0
  /\ UNCHANGED <<world, disk, mutex, lists, working>>

LoopScan ==
  /\ OnMain("scan") /\ Goto("unlock")
  /\ work' = IF HasRepeat(all) THEN 1 ELSE 0
  /\ UNCHANGED <<world, disk, mutex, lists, working>>

LoopUnlock ==
  /\ OnMain("unlock") /\ Goto("apply")
  /\ mutex' = "free" /\ all' = NoLine
  /\ UNCHANGED <<world, disk, sysdevs, sudodevs, hupList, status>>

(* Mutant of LoopApply: inWork() is called whatever the decision. *)
LoopApplyWrites ==
  /\ OnMain("apply") /\ Goto(IF work # working THEN "open" ELSE "sleep")
  /\ UNCHANGED <<world, disk, mutex, lists, status>>

(* Mutant of LoopApply: only a change to 1 is acted on. *)
LoopApplyGrants ==
  /\ OnMain("apply") /\ Goto(IF work = 1 /\ working # 1 THEN "open" ELSE "sleep")
  /\ UNCHANGED <<world, disk, mutex, lists, status>>

LoopApply ==
  /\ OnMain("apply")
  /\ \/ work = working /\ Goto("sleep")
     \/ work # working /\ work = 1 /\ Goto("open")
     \/ work # working /\ work = 0 /\ Goto("remove")
  /\ UNCHANGED <<world, disk, mutex, lists, status>>

(* inWork(): fopen(SUDO_CONF, "w") ...                                     *)
InWorkOpen ==
  /\ OnMain("open") /\ Goto("write")
  /\ conf' = "empty"
  /\ UNCHANGED <<world, pidFile, mutex, lists, status>>

(* ... and fclose(), which writes the rule; its result is not looked at.   *)
InWorkWrite ==
  /\ OnMain("write") /\ Goto("sleep")
  /\ conf' \in {"rule"} \cup (IF Fault("flush") THEN {conf} ELSE {})
  /\ working' = 1
  /\ UNCHANGED <<world, pidFile, mutex, lists, work>>

(* Mutant of InWorkFails: the failure is taken for success. *)
InWorkFailsUnseen ==
  /\ Fault("write") /\ (OnMain("open") \/ OnMain("write")) /\ Goto("sleep")
  /\ working' = 1
  /\ UNCHANGED <<world, disk, mutex, lists, work>>

InWorkFails ==
  /\ Fault("write") /\ (OnMain("open") \/ OnMain("write")) /\ Goto("sleep")
  /\ working' = -1
  /\ UNCHANGED <<world, disk, mutex, lists, work>>

(* working = !outWork(): 0 when outWork returns 1, and 0 when it returns -1. *)
OutWork ==
  /\ OnMain("remove") /\ Goto("sleep")
  /\ conf' \in {"absent"} \cup (IF Fault("unlink") THEN {conf} ELSE {})
  /\ working' = 0
  /\ UNCHANGED <<world, pidFile, mutex, lists, work>>

LoopSleep ==
  /\ OnMain("sleep") /\ Goto("load")
  /\ UNCHANGED <<world, disk, mutex, lists, status>>

EventLoop ==
  \/ LoadSysDev \/ LoadSysDevFails
  \/ LoopLock \/ LoopMerge \/ LoopScan \/ LoopUnlock \/ LoopApply
  \/ InWorkOpen \/ InWorkWrite \/ InWorkFails \/ OutWork \/ LoopSleep
-----------------------------------------------------------------------------
Daemon == Startup \/ EventLoop \/ Hup \/ Term \/ FreedTwice \/ Deliver

Next == World \/ Daemon

Spec == Init /\ [][Next]_vars

(* The scheduler runs the frame that can move, and the kernel delivers what *)
(* it can.  Nothing is assumed of the world, of Start or of a failure.     *)
FairSpec ==
  /\ Spec
  /\ WF_vars(Startup \/ EventLoop) /\ WF_vars(Hup) /\ WF_vars(Term)
  /\ WF_vars(Deliver)
-----------------------------------------------------------------------------
PC == {"off", "pid", "bindTerm", "bindHup", "group", "raise", "dropin", "load", "lock",
       "merge", "scan", "unlock", "apply", "open", "write", "remove", "sleep"}
HupStep  == {"idle", "forget", "lock", "read", "store", "unlock", "hung"}
TermStep == {"idle", "destroy", "free", "unlinkPid", "unlinkConf", "exit", "hung"}

(* Every variable has a value the code can give it.                        *)
TypeOK ==
  /\ links \subseteq UUID /\ profile \in Lines
  /\ cli \in {"idle", "writing", "written"}
  /\ pidFile \in BOOLEAN /\ conf \in {"absent", "empty", "rule"}
  /\ exit \in {"none", "clean", "failure", "killed"}
  /\ pc \in PC /\ hup \in HupStep /\ term \in TermStep
  /\ top \in {"main", "hup", "term"}
  /\ pending \subseteq {"HUP", "TERM"}
  /\ mutex \in {"free", "main", "hup", "destroyed"}
  /\ sysdevs \subseteq UUID /\ sudodevs \in [UUID -> 0..1] /\ hupList \in Lines
  /\ all \in [UUID -> 0..2]
  /\ work \in {0, 1} /\ working \in {-1, 0, 1}

Critical == pc \in {"merge", "scan", "unlock"}
HupLocked == hup \in {"read", "store", "unlock"}
Booted == pc \notin {"off", "pid", "bindTerm", "bindHup", "group", "raise"}

(* The mutex is main()'s exactly in its critical section, the handler never *)
(* works on sudodevs beside it, and only a dying process destroys it.      *)
MutexInv ==
  /\ Critical <=> mutex = "main"
  /\ HupLocked => mutex \in {"hup", "destroyed"}
  /\ mutex = "hup" => HupLocked
  /\ mutex = "destroyed" => term # "idle"

(* The pointers borrowed into all still point at the lists they came from  *)
(* when the loop follows them, although the handler frees sudodevs without *)
(* the lock (sudodevd.c:195, 450).                                         *)
NoStalePointer ==
  OnMain("scan") => all = Joined(sysdevs, sudodevs)

(* Looking for two equal neighbours decides what was meant: a configured   *)
(* UUID is plugged in.  A UUID written twice in the profile must not do    *)
(* (sudodevd.c:236-250, 446-456).                                          *)
DecisionSound ==
  OnMain("unlock") => (work = 1 <=> \E u \in sysdevs : sudodevs[u] > 0)

(* A reload is never lost: when no handler runs, no signal waits and no    *)
(* client is in the middle of an update, the daemon's list is the profile. *)
ConfigFresh ==
  Booted /\ hup = "idle" /\ term = "idle" /\ "HUP" \notin pending /\ cli = "idle"
    => sudodevs = Distinct(profile)

(* A daemon told to stop takes its pid file and the rule with it, if its   *)
(* handler gets to exit(0): FreedTwice does not.                           *)
CleanExit ==
  exit = "clean" => ~pidFile /\ conf = "absent"

(* After each pass the file agrees with the decision, or the recorded      *)
(* status differs from the decision, so that the next pass tries again.    *)
FailureRetried ==
  OnMain("sleep") => ((conf = "rule" <=> work = 1) \/ working # work)

(* A rule is found on disk only where this daemon remembers writing it.    *)
NoForgottenRule ==
  conf = "rule" => working = 1 /\ pc # "off"

(* Between two decisions the daemon writes what it decided: the rule       *)
(* appears only while a configured UUID was seen in this pass, and goes    *)
(* only when none was or when the daemon stops.                            *)
RuleFollowsDecision ==
  [][/\ conf # "rule" /\ conf' = "rule" => work = 1
     /\ conf = "rule" /\ conf' # "rule" => work = 0 \/ term # "idle"]_vars

(* The lines of a list, however often each occurs.                         *)
Named(list) == {u \in UUID : list[u] > 0}

(* The decision is taken, and the pass is not over.                        *)
Acting == {"unlock", "apply", "open", "write", "remove"}

(* What of all this the promise of Gate is about.  A list that was read    *)
(* and is not stored yet counts: no decision can come in between.          *)
G == INSTANCE Gate WITH
       phase   <- IF pc = "off" THEN "off" ELSE IF term # "idle" THEN "stopping" ELSE "on",
       present <- Removable,
       wanted  <- Named(profile),
       pass    <- IF pc \in {"lock", "merge", "scan"} THEN "looked"
                  ELSE IF pc \in Acting THEN "decided" ELSE "due",
       seen    <- sysdevs,
       known   <- IF hup = "store" THEN Named(hupList) ELSE Named(sudodevs),
       grant   <- work = 1,
       rule    <- conf = "rule"

(* The daemon, with its two asynchronous handlers and a file written in    *)
(* two steps, does nothing that Gate does not allow: each pass decides on  *)
(* its own look at the devices and on one complete reading of the profile  *)
(* (sudodevd.c:186-260, 397-474), leaves sudo as it decided unless it could*)
(* not open it, and the process never ends with sudo open.                 *)
ImplementsGate == G!Spec

Seen == \E u \in Removable : profile[u] > 0

(* Nothing happens to the daemon but its own steps: it is up, no signal is *)
(* handled or waiting, no client is at work.                               *)
Undisturbed ==
  /\ Booted /\ hup = "idle" /\ term = "idle" /\ pending = {}
  /\ cli = "idle"

(* A configured device that stays plugged in gives the rule ...            *)
EventuallyGranted ==
  <>[](Undisturbed /\ Seen) => <>[](conf = "rule")

(* ... and when none is plugged in any more the rule goes.                 *)
EventuallyRevoked ==
  <>[](Undisturbed /\ ~Seen) => <>[](conf # "rule")

(* The handler waits for a mutex that the main() it interrupted holds.      *)
SelfLocked == top = "hup" /\ hup = "lock" /\ mutex = "main"

(* "SIGTERM is received, quit": once reloads stop coming the daemon ends,  *)
(* except when one came on top of the handler of SIGTERM, itself on top of *)
(* main()'s critical section.                                              *)
TermQuitsOrLocked ==
  <>[]("HUP" \notin pending)
    => ("TERM" \in pending ~> pc = "off" \/ (SelfLocked /\ term # "idle"))

(* "SIGHUP is received, reload config": the handler comes back.            *)
HupReturns ==
  hup # "idle" ~> hup = "idle"

(* It does, or it waits for a lock that its own process holds.             *)
HupReturnsOrLocked ==
  hup # "idle" ~> hup = "idle" \/ SelfLocked
=============================================================================
