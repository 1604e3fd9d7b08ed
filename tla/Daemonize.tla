----------------------------- MODULE Daemonize -----------------------------
(***************************************************************************)
(* How the process that was started becomes a daemon (daemonize.c), and    *)
(* how a process then finds out where its messages go (say.c): the one     *)
(* that stays must have left its session, its terminal and the descriptors *)
(* it was started with, whatever these were and whichever call fails.      *)
(***************************************************************************)
EXTENDS Integers, FiniteSets

CONSTANTS
  MaxFd,      \* bound: descriptors are 0 to MaxFd
  Ceilings,   \* what RLIMIT_NOFILE, or 1024 if there is none, may be
  CallFaults  \* the calls that may fail

ASSUME DaemonizeAssumption ==
  /\ MaxFd \in Nat /\ Ceilings \subseteq Nat
  /\ CallFaults \subseteq {"fork", "setsid", "sigaction", "chdir", "getrlimit", "open"}

VARIABLES
  call,     \* next step: the functions of daemonize(), then main()
  fds,      \* what each descriptor leads to
  leader,   \* the process leads its session
  terminal, \* the session has a terminal
  ignores,  \* SIGHUP is ignored
  erred,    \* STATUS_ERROR in status
  answer    \* what the starter has been told: 0, 1, or nothing yet

daemonizeVars == <<call, fds, leader, terminal, ignores, erred, answer>>

CallFault(f) == f \in CallFaults

DaemonizeInit ==
  /\ call = "newSession"
  /\ fds \in [0..MaxFd -> {"terminal", "file", "null", "closed"}]
  /\ leader \in BOOLEAN /\ terminal \in BOOLEAN
  /\ ignores \in BOOLEAN /\ erred = FALSE /\ answer = -1
-----------------------------------------------------------------------------
(* The process is gone; the starter sees that only if it still waits.      *)
Quit(code) ==
  /\ call' = "gone" /\ answer' = IF answer = -1 THEN code ELSE answer
  /\ UNCHANGED <<fds, leader, terminal, ignores, erred>>

(* newSession: the parent exits with 0, the child asks for a session.      *)
Fork1Fails == call = "newSession" /\ CallFault("fork") /\ Quit(1)

Fork1 ==
  /\ call = "newSession" /\ call' = "setsid"
  /\ leader' = FALSE /\ answer' = 0
  /\ UNCHANGED <<fds, terminal, ignores, erred>>

SetSid ==
  /\ call = "setsid" /\ call' = "dropTTY"
  /\ \/ leader' = TRUE /\ terminal' = FALSE /\ UNCHANGED erred
     \/ CallFault("setsid") /\ erred' = TRUE /\ UNCHANGED <<leader, terminal>>
  /\ UNCHANGED <<fds, ignores, answer>>

(* dropTTY: a leader could get a terminal again, its child cannot.         *)
IgnoreHup ==
  /\ call = "dropTTY"
  /\ \/ ignores' = TRUE /\ call' = "fork" /\ UNCHANGED erred
     \/ CallFault("sigaction") /\ erred' = TRUE /\ call' = "chrootdir" /\ UNCHANGED ignores
  /\ UNCHANGED <<fds, leader, terminal, answer>>

Fork2Fails == call = "fork" /\ CallFault("fork") /\ Quit(1)

Fork2 ==
  /\ call = "fork" /\ call' = "chrootdir"
  /\ leader' = FALSE
  /\ UNCHANGED <<fds, terminal, ignores, erred, answer>>

ChRootDir ==
  /\ call = "chrootdir" /\ call' = "closeFD"
  /\ UNCHANGED erred \/ (CallFault("chdir") /\ erred' = TRUE)
  /\ UNCHANGED <<fds, leader, terminal, ignores, answer>>

CloseFD ==
  /\ call = "closeFD" /\ call' = "reopen"
  /\ \/ /\ \E ceiling \in Ceilings :
             fds' = [f \in 0..MaxFd |-> IF f < ceiling THEN "closed" ELSE fds[f]]
        /\ UNCHANGED erred
     \/ CallFault("getrlimit") /\ erred' = TRUE /\ UNCHANGED fds
  /\ UNCHANGED <<leader, terminal, ignores, answer>>

Free == {f \in 0..MaxFd : fds[f] = "closed"}

(* open() and twice dup() take the lowest descriptors that are free.       *)
Taken == {f \in Free : Cardinality({g \in Free : g < f}) < 3}

(* Mutant of Reopen: that there are three descriptors is enough. *)
ReopenAnywhere ==
  /\ call = "reopen" /\ call' = "return"
  /\ fds' = [f \in 0..MaxFd |-> IF f \in Taken THEN "null" ELSE fds[f]]
  /\ erred' = (erred \/ Cardinality(Taken) < 3)
  /\ UNCHANGED <<leader, terminal, ignores, answer>>

(* reopen: stdin, stdout and stderr, or it is an error.                    *)
Reopen ==
  /\ call = "reopen" /\ call' = "return"
  /\ \/ /\ fds' = [f \in 0..MaxFd |-> IF f \in Taken THEN "null" ELSE fds[f]]
        /\ erred' = (erred \/ Taken # 0..2)
     \/ CallFault("open") /\ erred' = TRUE /\ UNCHANGED fds
  /\ UNCHANGED <<leader, terminal, ignores, answer>>

(* daemonize() has collected the errors; main() goes on or exits.          *)
Returned ==
  /\ call = "return"
  /\ IF erred THEN Quit(1)
     ELSE call' = "daemon" /\ UNCHANGED <<fds, leader, terminal, ignores, erred, answer>>

(* The terminal hangs up: its session gets SIGHUP.                         *)
HangUp == terminal /\ ~ignores /\ call \notin {"daemon", "gone"} /\ Quit(1)

DaemonizeNext ==
  \/ Fork1Fails \/ Fork1 \/ SetSid \/ IgnoreHup \/ Fork2Fails \/ Fork2
  \/ ChRootDir \/ CloseFD \/ Reopen \/ Returned \/ HangUp

DaemonizeSpec == DaemonizeInit /\ [][DaemonizeNext]_daemonizeVars
-----------------------------------------------------------------------------
(* getSayMode: the first of stdin, stdout and stderr that is /dev/null, if *)
(* none before it is closed.                                               *)
SayMode ==
  IF \E f \in 0..2 : fds[f] = "null" /\ \A g \in 0..f : fds[g] # "closed" THEN "syslog" ELSE "stdout"

(* A process that goes on as the daemon, with any call failing and any     *)
(* limit, has no terminal and cannot get one, is not ended by a hang-up    *)
(* before it handles SIGHUP, and writes to the log: none of its messages   *)
(* can reach what its first three descriptors led to.                      *)
Detached ==
  call = "daemon"
    => /\ ~leader /\ ~terminal /\ ignores
       /\ SayMode = "syslog" /\ \A f \in 0..2 : fds[f] = "null"
=============================================================================
