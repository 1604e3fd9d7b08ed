-------------------------------- MODULE Gate --------------------------------
(***************************************************************************)
(* What sudodevd promises, without its thread, its handlers, its mutex and *)
(* its lists: a pass looks at the devices once, compares them once with    *)
(* what the daemon has learnt of the profile, and then sudo is open to the *)
(* group exactly if that said so, unless opening it failed.  No daemon     *)
(* goes away and leaves sudo open.  Sudodevd implements it.                *)
(***************************************************************************)
CONSTANT UUID

VARIABLES
  phase,    \* "off", "on", or "stopping" once SIGTERM is being handled
  present,  \* the removable devices that are plugged in
  wanted,   \* the UUIDs of the profile
  pass,     \* how far the pass is: "due", "looked" or "decided"
  seen,     \* the devices the daemon saw when it last looked
  known,    \* the UUIDs the daemon has in memory
  grant,    \* the last decision
  rule      \* sudo is open

memory == <<seen, known, grant>>
vars   == <<phase, present, wanted, pass, memory, rule>>

Init ==
  /\ phase = "off" /\ pass = "due"
  /\ present = {} /\ wanted = {} /\ seen = {} /\ known = {}
  /\ grant = FALSE /\ rule = FALSE

(* Devices come and go, and the profile is edited, at any time.            *)
Environment ==
  /\ \/ present' \in SUBSET UUID /\ wanted' = wanted
     \/ wanted' \in SUBSET UUID /\ present' = present
  /\ UNCHANGED <<phase, pass, memory, rule>>

Start ==
  /\ phase = "off" /\ phase' = "on"
  /\ UNCHANGED <<present, wanted, pass, memory, rule>>

Look ==
  /\ phase = "on" /\ pass = "due" /\ pass' = "looked"
  /\ seen' = present
  /\ UNCHANGED <<phase, present, wanted, known, grant, rule>>

(* A reload forgets the list and then reads the profile, which may fail.   *)
Reload ==
  /\ phase # "off"
  /\ known' \in {{}, wanted}
  /\ UNCHANGED <<phase, present, wanted, pass, seen, grant, rule>>

Decide ==
  /\ phase = "on" /\ pass = "looked" /\ pass' = "decided"
  /\ grant' = (seen \cap known # {})
  /\ UNCHANGED <<phase, present, wanted, seen, known, rule>>

(* Closing does not fail, opening may.                                     *)
Apply ==
  /\ phase = "on" /\ pass = "decided" /\ pass' = "due"
  /\ rule' \in {grant, grant /\ rule}
  /\ UNCHANGED <<phase, present, wanted, memory>>

Stop ==
  /\ phase = "on" /\ phase' = "stopping"
  /\ UNCHANGED <<present, wanted, pass, memory, rule>>

(* A stopping daemon frees its lists and closes before the process ends.   *)
Forget ==
  /\ phase = "stopping"
  /\ seen' = {} /\ known' \in {{}, known}
  /\ UNCHANGED <<phase, present, wanted, pass, grant, rule>>

Close ==
  /\ phase = "stopping" /\ rule
  /\ rule' = FALSE
  /\ UNCHANGED <<phase, present, wanted, pass, memory>>

(* However the process ends, it does not leave sudo open.                  *)
End ==
  /\ phase # "off" /\ ~rule
  /\ phase' = "off" /\ pass' = "due"
  /\ seen' = {} /\ known' = {} /\ grant' = FALSE
  /\ UNCHANGED <<present, wanted, rule>>

Next ==
  \/ Environment \/ Start \/ Look \/ Reload \/ Decide \/ Apply
  \/ Stop \/ Forget \/ Close \/ End

Spec == Init /\ [][Next]_vars
=============================================================================
