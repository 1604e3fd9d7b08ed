------------------------------ MODULE Sudodev ------------------------------
(***************************************************************************)
(* The command line tool (src/sudodev.c) and the profile it edits          *)
(* (profile.c, find.c): several clients, each of which reads the whole     *)
(* file, changes it in memory, and writes all of it back; nothing locks    *)
(* the file.  The daemon appears as the reader of the profile.             *)
(***************************************************************************)
EXTENDS Integers, Functions

CONSTANTS
  Client,
  UUID,       \* names of devices, and lines of the profile
  Matches,    \* <<pattern, line>>: regexec() finds the pattern in the line
  Hex,        \* the lines that isUUID() lets through
  MaxCopies,  \* bound: how often one line may occur
  Faults      \* the failures that may happen

ASSUME SudodevAssumption ==
  /\ Matches \subseteq UUID \X UUID /\ \A u \in UUID : <<u, u>> \in Matches
  /\ Hex \subseteq UUID
  /\ MaxCopies \in Nat \ {0}
  /\ Faults \subseteq
       { "kill",    \* a client is killed (the user types ^C)
         "open",    \* the profile cannot be opened
         "short",   \* fwrite() of some line fails
         "flush" }  \* fclose() loses the lines that were written

VARIABLES
  file,      \* the profile: how often each line occurs
  at,        \* next step of each client
  op,        \* "add" or "del"
  want,      \* the device that was chosen
  list,      \* the client's copy of the lines
  up,        \* the daemon runs, its pid is in LOCKFILE
  pending,   \* a SIGHUP is on its way to it
  loaded,    \* what it read
  promised,  \* history: reported as added, not chosen for deletion since
  gone,      \* history: reported as deleted, not chosen for addition since
  lost       \* history: not written by a client that had emptied the file

clients == <<at, op, want, list>>
daemon  == <<up, pending, loaded>>
history == <<promised, gone, lost>>
vars    == <<file, clients, daemon, history>>

Fault(f) == f \in Faults

Lines == [UUID -> 0..MaxCopies]
Empty == [u \in UUID |-> 0]

Present(lines) == {u \in UUID : lines[u] > 0}

Goto(c, from, to) == at[c] = from /\ at' = [at EXCEPT ![c] = to]

Init ==
  /\ file = Empty
  /\ at = [c \in Client |-> "idle"] /\ op = [c \in Client |-> "add"]
  /\ want \in [Client -> UUID] /\ list = [c \in Client |-> Empty]
  /\ up = FALSE /\ pending = FALSE /\ loaded = {}
  /\ promised = {} /\ gone = {} /\ lost = {}
-----------------------------------------------------------------------------
(* add(): lists the devices that are not in the profile, literally, or all *)
(* when it cannot be read, and asks.  main() wants LOCKFILE first, which   *)
(* says little: a daemon that crashed left it behind.                      *)
ChooseAdd(c, u) ==
  /\ file[u] = 0 \/ Fault("open")
  /\ Goto(c, "idle", "find")
  /\ op' = [op EXCEPT ![c] = "add"] /\ want' = [want EXCEPT ![c] = u]
  /\ gone' = gone \ {u}
  /\ UNCHANGED <<file, list, daemon, promised, lost>>

(* del(): lists the lines of the profile, and asks.                        *)
ChooseDel(c, u) ==
  /\ file[u] > 0
  /\ Goto(c, "idle", "read")
  /\ op' = [op EXCEPT ![c] = "del"] /\ want' = [want EXCEPT ![c] = u]
  /\ promised' = promised \ {u}
  /\ UNCHANGED <<file, list, daemon, gone, lost>>

(* The client tells the user that it is done.                              *)
Report(c) ==
  IF op[c] = "add"
  THEN promised' = promised \cup {want[c]} /\ UNCHANGED gone
  ELSE gone' = gone \cup {want[c]} /\ UNCHANGED promised

Found(u) == \E v \in Present(file) : <<u, v>> \in Matches

(* profileAddItem: nothing to do when find() returns 1, or -1.             *)
AddFound(c) ==
  /\ Goto(c, "find", "reload") /\ (Found(want[c]) \/ Fault("open"))
  /\ Report(c)
  /\ UNCHANGED <<file, op, want, list, daemon, lost>>

AddNotFound(c) ==
  /\ Goto(c, "find", "read") /\ ~Found(want[c])
  /\ UNCHANGED <<file, op, want, list, daemon, history>>

(* Mutant of Added: the new line is in the list twice. *)
AddedTwice(u) == [file EXCEPT ![u] = @ + 2]

(* profileAddItem: the lines and the new one.                              *)
Added(u) == [file EXCEPT ![u] = @ + 1]

(* Mutant of Deleted: the lines that match are kept, the others dropped. *)
DeletedOthers(u) == [v \in UUID |-> IF <<u, v>> \in Matches THEN file[v] ELSE 0]

(* profileDelItem: the lines in which the pattern is not found.            *)
Deleted(u) == [v \in UUID |-> IF <<u, v>> \in Matches THEN 0 ELSE file[v]]

(* Both read the file again, after the choice, and after find().  The      *)
(* second conjunct is the bound.                                           *)
Read(c) ==
  /\ Goto(c, "read", "truncate")
  /\ op[c] = "add" => file[want[c]] < MaxCopies
  /\ list' = [list EXCEPT ![c] = IF op[c] = "add" THEN Added(want[c]) ELSE Deleted(want[c])]
  /\ UNCHANGED <<file, op, want, daemon, history>>

(* The file cannot be read, or not be opened for writing: "failed".        *)
OpenFails(c) ==
  /\ Fault("open") /\ at[c] \in {"read", "truncate"}
  /\ at' = [at EXCEPT ![c] = "idle"] /\ list' = [list EXCEPT ![c] = Empty]
  /\ UNCHANGED <<file, op, want, daemon, history>>

(* Mutant of Truncate: the file is opened with "r+". *)
NoTruncate(c) ==
  /\ Goto(c, "truncate", "write")
  /\ UNCHANGED <<file, op, want, list, daemon, history>>

(* profileOverwrite: fopen(PROFILE, "w") ...                               *)
Truncate(c) ==
  /\ Goto(c, "truncate", "write")
  /\ file' = Empty
  /\ UNCHANGED <<op, want, list, daemon, history>>

Size(lines) == FoldFunction(+, 0, lines)

(* What the file is after new was written from its start over old: as much *)
(* of the end of old as new is shorter.  (A line cut in two is left out.)  *)
Over(new, old) ==
  {f \in Lines : \E rest \in Lines :
     /\ \A u \in UUID : rest[u] <= old[u] /\ f[u] = new[u] + rest[u]
     /\ Size(rest) = IF Size(new) < Size(old) THEN Size(old) - Size(new) ELSE 0}

Kept(lines) == [u \in UUID |-> IF u \in Hex THEN lines[u] ELSE 0]

(* The client does not write what it has, or not all of it.                *)
Lose(c) == lost' = (lost \cup Present(list[c])) \ Present(file')

(* ... and fclose(), whose result is not looked at: a full disk may lose   *)
(* all lines, and the client says "done" all the same.                     *)
Write(c) ==
  /\ Goto(c, "write", "reload")
  /\ \/ file' \in Over(Kept(list[c]), file) /\ lost' = lost \ Present(file')
     \/ Fault("flush") /\ UNCHANGED file /\ Lose(c)
  /\ Report(c)
  /\ list' = [list EXCEPT ![c] = Empty]
  /\ UNCHANGED <<op, want, daemon>>

(* A line whose fwrite() fails is skipped, the others are still written;   *)
(* the client says "failed" and does not reload.                           *)
WriteFails(c) ==
  /\ Fault("short") /\ Goto(c, "write", "idle")
  /\ \E some \in Lines \ {Kept(list[c])} :
       /\ \A u \in UUID : some[u] <= Kept(list[c])[u]
       /\ file' \in Over(some, file)
  /\ Lose(c)
  /\ list' = [list EXCEPT ![c] = Empty]
  /\ UNCHANGED <<op, want, daemon, promised, gone>>

(* Mutant of Reload: nothing is sent after a deletion. *)
ReloadAdded(c) ==
  /\ Goto(c, "reload", "idle")
  /\ pending' = (pending \/ (up /\ op[c] = "add"))
  /\ UNCHANGED <<file, op, want, list, up, loaded, history>>

(* reload(): kill(pid, SIGHUP), or "failed" when there is no pid.          *)
Reload(c) ==
  /\ Goto(c, "reload", "idle")
  /\ pending' = (pending \/ up)
  /\ UNCHANGED <<file, op, want, list, up, loaded, history>>

(* Only between emptying the file and writing it does this lose a line.    *)
Kill(c) ==
  /\ Fault("kill") /\ at[c] # "idle"
  /\ at' = [at EXCEPT ![c] = "idle"] /\ list' = [list EXCEPT ![c] = Empty]
  /\ UNCHANGED <<file, op, want, daemon, promised, gone>>
  /\ \/ at[c] = "write" /\ Lose(c)
     \/ at[c] # "write" /\ UNCHANGED lost
-----------------------------------------------------------------------------
(* The daemon: starts with a SIGHUP to itself, reads at each one.          *)
DaemonStart ==
  /\ ~up /\ up' = TRUE /\ pending' = TRUE
  /\ UNCHANGED <<file, clients, loaded, history>>

DaemonStop ==
  /\ up /\ up' = FALSE /\ pending' = FALSE /\ loaded' = {}
  /\ UNCHANGED <<file, clients, history>>

DaemonLoad ==
  /\ up /\ pending
  /\ pending' = FALSE /\ loaded' = Present(file)
  /\ UNCHANGED <<file, clients, up, history>>

Next ==
  \/ \E c \in Client :
       \/ \E u \in UUID : ChooseAdd(c, u) \/ ChooseDel(c, u)
       \/ AddFound(c) \/ AddNotFound(c) \/ Read(c) \/ OpenFails(c)
       \/ Truncate(c) \/ Write(c) \/ WriteFails(c) \/ Reload(c) \/ Kill(c)
  \/ DaemonStart \/ DaemonStop \/ DaemonLoad

Spec == Init /\ [][Next]_vars
-----------------------------------------------------------------------------
TypeOK ==
  /\ file \in Lines /\ list \in [Client -> Lines]
  /\ at \in [Client -> {"idle", "find", "read", "truncate", "write", "reload"}]
  /\ op \in [Client -> {"add", "del"}] /\ want \in [Client -> UUID]
  /\ up \in BOOLEAN /\ pending \in BOOLEAN /\ loaded \subseteq UUID
  /\ promised \subseteq UUID /\ gone \subseteq UUID /\ lost \subseteq UUID

(* No client is between emptying the file and writing it (profile.c:150).  *)
Closed == \A c \in Client : at[c] # "write"

(* What add() reported is in the profile, but for the lines that a client  *)
(* read, emptied the file of, and did not write: it was killed there       *)
(* (profile.c:150-183), skipped them (:175), or fclose() lost them (:183). *)
(* Such a loss ends when the line is written again; no failure at any      *)
(* other step, and no later edit, costs a line.                            *)
PromiseKept ==
  Closed => promised \ lost \subseteq Present(file)

(* What add() reports as "done" (sudodev.c:330) is in the profile.         *)
DoneIsStored ==
  Closed => promised \subseteq Present(file)

(* What del() reported does not come back unless it is added again.        *)
DeletedStaysGone ==
  gone \cap Present(file) = {}

(* However clients interleave, the last of them to write also reloads:     *)
(* when all are done the daemon has what is in the file, or soon will.     *)
DaemonFollows ==
  up /\ ~pending /\ (\A c \in Client : at[c] = "idle") => loaded = Present(file)
=============================================================================
