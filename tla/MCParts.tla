------------------------------ MODULE MCParts ------------------------------
(***************************************************************************)
(* Small instances of the parts that work on their own before the daemon   *)
(* and its clients meet: part says which of them a behaviour is about; the *)
(* others stay as they are.                                                *)
(***************************************************************************)
EXTENDS Setup, Lines, Devs, MergeSort, Daemonize

VARIABLE part

Others(p) ==
  /\ p = "setup" \/ (groups = <<>> /\ ended = TRUE /\ sudoers = [lines |-> 0, ended |-> TRUE]
                     /\ step = "off" /\ text = <<>> /\ mishap = FALSE)
  /\ p = "lines" \/ (caller = "devs" /\ input = <<>> /\ from = 1 /\ upto = 1 /\ items = <<>>
                     /\ cells = <<>> /\ stage = "open" /\ status = 0)
  /\ p = "devs" \/ (fstab = <<>> /\ links = <<>> /\ entries = <<>> /\ dev = "" /\ devBuff = <<>>
                    /\ local = <<>> /\ loaded = FALSE /\ at = 1 /\ localBuff = <<>> /\ no = 0
                    /\ shown = {} /\ opened = <<>> /\ pos = "off")
  /\ p = "sort" \/ (profile = <<>> /\ present = <<>> /\ distinct = <<>> /\ all = <<>>
                    /\ found = FALSE /\ turn = "load")
  /\ p = "daemonize" \/ (call = "newSession" /\ fds = [f \in 0..MaxFd |-> "closed"]
                         /\ leader = FALSE /\ terminal = FALSE /\ ignores = FALSE
                         /\ erred = FALSE /\ answer = -1)

MCInit ==
  /\ part \in {"setup", "lines", "devs", "sort", "daemonize"} /\ Others(part)
  /\ part = "setup" => SetupInit
  /\ part = "lines" => LinesInit
  /\ part = "devs" => DevsInit
  /\ part = "sort" => SortInit
  /\ part = "daemonize" => DaemonizeInit

MCNext ==
  /\ UNCHANGED part
  /\ \/ part = "setup" /\ SetupNext
        /\ UNCHANGED <<linesVars, devsVars, sortVars, daemonizeVars>>
     \/ part = "lines" /\ LinesNext
        /\ UNCHANGED <<setupVars, devsVars, sortVars, daemonizeVars>>
     \/ part = "devs" /\ DevsNext
        /\ UNCHANGED <<setupVars, linesVars, sortVars, daemonizeVars>>
     \/ part = "sort" /\ SortNext
        /\ UNCHANGED <<setupVars, linesVars, devsVars, daemonizeVars>>
     \/ part = "daemonize" /\ DaemonizeNext
        /\ UNCHANGED <<setupVars, linesVars, devsVars, sortVars>>

MCSpec == MCInit /\ [][MCNext]_<<part, setupVars, linesVars, devsVars, sortVars, daemonizeVars>>
-----------------------------------------------------------------------------
sda1  == <<"sd", "a", "1">>
sda2  == <<"sd", "a", "2">>
sdaa1 == <<"sd", "a", "a", "1">>
sdb   == <<"sd", "b">>
nvme0 == <<"nvme", "0", "n", "1", "p", "1">>
nvme1 == <<"nvme", "1", "n", "1", "p", "2">>

MCDevUUID == {"u1", "u2"}
MCDevName == {sda1, sda2, sdaa1, sdb, nvme0, nvme1}
MCDiskOf ==
  [name \in MCDevName |->
     IF name \in {sda1, sda2} THEN "sda" ELSE IF name = sdaa1 THEN "sdaa"
     ELSE IF name = sdb THEN "sdb" ELSE IF name = nvme0 THEN "nvme0n1" ELSE "nvme1n1"]
MCLabelOf == [label \in {"l2"} |-> "u2"]
MCDigit == {"0", "1", "2"}

(* Partitions by path, by uuid and by label, an id that is no link, a      *)
(* mount point that looks like a path, and a line without a device.        *)
MCFstabText ==
  { <<"/dev", "/">> \o sda1 \o <<" ", "/">>,
    <<"/dev", "/">> \o sdaa1 \o <<" ", "/">>,
    <<"UUID=", "u1", " ", "/">>,
    <<"LABEL=", "l2", " ", "/">>,
    <<"PART", "UUID=", "u9", " ", "/">>,
    <<"UUID=", "u1", " ", "/dev", "el">>,
    <<"tmpfs", " ", "/">> }
=============================================================================
