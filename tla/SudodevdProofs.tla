--------------------------- MODULE SudodevdProofs ---------------------------
(***************************************************************************)
(* What holds of Sudodevd for every set of devices, every profile and      *)
(* every number of signals.  The first theorem carries the others: which   *)
(* frame runs, and who holds the mutex.                                    *)
(***************************************************************************)
EXTENDS Sudodevd, TLAPS

(* The frame on top is a running handler, or main() when there is none; no *)
(* handler runs before it is bound.                                        *)
FrameInv ==
  /\ top = "main" <=> hup = "idle" /\ term = "idle"
  /\ top = "hup" => hup # "idle"
  /\ top = "term" => term # "idle"
  /\ hup # "idle" => HupBound
  /\ term # "idle" => TermBound

Base == TypeOK /\ FrameInv /\ MutexInv

LEMMA DistinctType ==
  ASSUME NEW list \in Lines
  PROVE  Distinct(list) \in [UUID -> 0..1] /\ Distinct(list) \in Lines
BY ConstantsAssumption DEF Distinct, Lines

LEMMA NoLineType == NoLine \in Lines /\ NoLine \in [UUID -> 0..1] /\ NoLine \in [UUID -> 0..2]
BY ConstantsAssumption DEF NoLine, Lines

LEMMA JoinedType ==
  ASSUME NEW devs \in SUBSET UUID, NEW list \in [UUID -> 0..1]
  PROVE  Joined(devs, list) \in [UUID -> 0..2]
BY DEF Joined

LEMMA BaseInit == Init => Base
BY ConstantsAssumption, NoLineType
   DEF Init, Base, TypeOK, FrameInv, MutexInv, PC, HupStep, TermStep, Critical, HupLocked,
       HupBound, TermBound

(* A step of main() that only moves its counter, within the same phase.    *)
LEMMA QuietStep ==
  ASSUME Base, top = "main", pc' \in PC, Critical' <=> Critical,
         UNCHANGED <<world, disk, exit, frames, pending, mutex, lists, status>>
  PROVE  Base'
<1> USE DEF Base, world, disk, frames, lists, status
<1>1. hup = "idle" /\ term = "idle"
  BY DEF FrameInv
<1>2. FrameInv'
  BY <1>1 DEF FrameInv
<1>3. MutexInv'
  BY DEF MutexInv, HupLocked
<1>4. TypeOK'
  BY DEF TypeOK
<1>5. QED
  BY <1>2, <1>3, <1>4

LEMMA BaseStep == Base /\ [Next]_vars => Base'
<1> SUFFICES ASSUME Base, [Next]_vars PROVE Base'
  OBVIOUS
<1> USE DEF Base, TypeOK, FrameInv, MutexInv, PC, HupStep, TermStep, Critical, HupLocked,
            HupBound, TermBound, world, disk, frames, lists, status
<1> USE ConstantsAssumption, NoLineType
<1>1. QED
  <2>1. CASE \E u \in UUID : Plug(u)
    BY <2>1 DEF Plug
  <2>2. CASE \E u \in UUID : Unplug(u)
    BY <2>2 DEF Unplug
  <2>3. CASE ClientTruncate
    BY <2>3 DEF ClientTruncate
  <2>4. CASE ClientReload
    BY <2>4 DEF ClientReload, SentHup
  <2>5. CASE \E new \in Lines : ClientWrite(new)
    BY <2>5 DEF ClientWrite
  <2>6. CASE SendHup
    BY <2>6 DEF SendHup
  <2>7. CASE SendTerm
    BY <2>7 DEF SendTerm
  <2>8. CASE Start
    BY <2>8 DEF Start
  <2>9. CASE Crash \/ FreedTwice
    BY <2>9 DEF Crash, FreedTwice, Die
  <2>10. CASE DeliverHup
    BY <2>10 DEF DeliverHup, Stuck
  <2>11. CASE DeliverTerm
    BY <2>11 DEF DeliverTerm, Stuck
  <2>12. CASE DefaultTerm
    BY <2>12 DEF DefaultTerm, Die
  <2>13. CASE HupForget
    BY <2>13 DEF HupForget, OnHup
  <2>14. CASE HupLock
    BY <2>14 DEF HupLock, OnHup
  <2>15. CASE HupRead
    BY <2>15 DEF HupRead, OnHup
  <2>16. CASE HupReadFails
    BY <2>16 DEF HupReadFails, OnHup
  <2>17. CASE HupStore
    BY <2>17, DistinctType DEF HupStore, OnHup
  <2>18. CASE HupUnlock
    BY <2>18 DEF HupUnlock, OnHup
  <2>19. CASE TermDestroy
    BY <2>19 DEF TermDestroy, OnTerm
  <2>20. CASE TermFree
    BY <2>20 DEF TermFree, OnTerm
  <2>21. CASE TermUnlinkPid
    <3>1. pidFile' \in BOOLEAN
      BY <2>21, Zenon DEF TermUnlinkPid
    <3>2. QED
      BY <2>21, <3>1 DEF TermUnlinkPid, OnTerm
  <2>22. CASE TermUnlinkConf
    BY <2>22 DEF TermUnlinkConf, OnTerm
  <2>23. CASE TermExit
    BY <2>23 DEF TermExit, Die, OnTerm
  <2>24. CASE MainPid
    BY <2>24 DEF MainPid, OnMain, Goto
  <2>25. CASE MainBind
    <3>1. /\ top = "main" /\ pc' \in PC /\ (Critical' <=> Critical)
          /\ UNCHANGED <<world, disk, exit, frames, pending, mutex, lists, status>>
      BY <2>25 DEF MainBind, OnMain, Goto
    <3>2. QED
      BY <3>1, QuietStep
  <2>26. CASE MainGroup
    BY <2>26 DEF MainGroup, OnMain, Goto
  <2>27. CASE MainRaise
    BY <2>27 DEF MainRaise, OnMain
  <2>28. CASE MainDropIn
    BY <2>28 DEF MainDropIn, OnMain, Goto
  <2>29. CASE MainSetupFails
    BY <2>29 DEF MainSetupFails, Die
  <2>30. CASE LoadSysDev
    BY <2>30 DEF LoadSysDev, OnMain, Goto, Removable
  <2>31. CASE LoadSysDevFails
    BY <2>31 DEF LoadSysDevFails, Die, OnMain
  <2>32. CASE LoopLock
    BY <2>32 DEF LoopLock, OnMain, Goto
  <2>33. CASE LoopMerge
    BY <2>33, JoinedType DEF LoopMerge, OnMain, Goto
  <2>34. CASE LoopScan
    BY <2>34 DEF LoopScan, OnMain, Goto
  <2>35. CASE LoopUnlock
    BY <2>35 DEF LoopUnlock, OnMain, Goto
  <2>36. CASE LoopApply
    <3>1. /\ top = "main" /\ pc' \in PC /\ (Critical' <=> Critical)
          /\ UNCHANGED <<world, disk, exit, frames, pending, mutex, lists, status>>
      BY <2>36 DEF LoopApply, OnMain, Goto
    <3>2. QED
      BY <3>1, QuietStep
  <2>37. CASE InWorkOpen
    BY <2>37 DEF InWorkOpen, OnMain, Goto
  <2>38. CASE InWorkWrite
    BY <2>38 DEF InWorkWrite, OnMain, Goto
  <2>39. CASE InWorkFails
    BY <2>39 DEF InWorkFails, OnMain, Goto
  <2>40. CASE OutWork
    BY <2>40 DEF OutWork, OnMain, Goto
  <2>41. CASE LoopSleep
    BY <2>41 DEF LoopSleep, OnMain, Goto
  <2>42. CASE UNCHANGED vars
    BY <2>42 DEF vars
  <2>43. QED
    BY <2>1, <2>2, <2>3, <2>4, <2>5, <2>6, <2>7, <2>8, <2>9, <2>10, <2>11, <2>12,
       <2>13, <2>14, <2>15, <2>16, <2>17, <2>18, <2>19, <2>20, <2>21, <2>22, <2>23,
       <2>24, <2>25, <2>26, <2>27, <2>28, <2>29, <2>30, <2>31, <2>32, <2>33, <2>34,
       <2>35, <2>36, <2>37, <2>38, <2>39, <2>40, <2>41, <2>42 DEF Next, World, Daemon,
       Deliver, Hup, Term, Startup, EventLoop

(* The type invariant, and with it the mutex is main()'s exactly in its    *)
(* critical section and the handler's exactly in its own.                  *)
THEOREM Typed == Spec => []TypeOK
<1>1. Spec => []Base
  BY BaseInit, BaseStep, PTL DEF Spec
<1>2. QED
  BY <1>1, PTL DEF Base

THEOREM MutualExclusion == Spec => []MutexInv
<1>1. Spec => []Base
  BY BaseInit, BaseStep, PTL DEF Spec
<1>2. QED
  BY <1>1, PTL DEF Base
-----------------------------------------------------------------------------
(* What the loop read, and what it decided, is right as long as no handler *)
(* interrupts it: one that does either never touches the lists or never    *)
(* lets the loop go on.                                                    *)
DecisionInv ==
  hup = "idle" /\ term = "idle" =>
    /\ pc = "scan" => all = Joined(sysdevs, sudodevs)
    /\ pc = "unlock" => (work = 1 <=> \E u \in sysdevs : sudodevs[u] > 0)

LEMMA RepeatIsMatch ==
  ASSUME NEW devs \in SUBSET UUID, NEW list \in [UUID -> 0..1]
  PROVE  HasRepeat(Joined(devs, list)) <=> \E u \in devs : list[u] > 0
BY DEF HasRepeat, Joined

LEMMA DecisionStep == Base /\ DecisionInv /\ [Next]_vars => DecisionInv'
<1> SUFFICES ASSUME Base, DecisionInv, [Next]_vars PROVE DecisionInv'
  OBVIOUS
<1> USE DEF Base, FrameInv, MutexInv, DecisionInv, Critical, HupLocked,
            world, disk, frames, lists, status
<1>1. QED
  <2>1. CASE \E u \in UUID : Plug(u)
    BY <2>1 DEF Plug
  <2>2. CASE \E u \in UUID : Unplug(u)
    BY <2>2 DEF Unplug
  <2>3. CASE ClientTruncate
    BY <2>3 DEF ClientTruncate
  <2>4. CASE ClientReload
    BY <2>4 DEF ClientReload, SentHup
  <2>5. CASE \E new \in Lines : ClientWrite(new)
    BY <2>5 DEF ClientWrite
  <2>6. CASE SendHup
    BY <2>6 DEF SendHup
  <2>7. CASE SendTerm
    BY <2>7 DEF SendTerm
  <2>8. CASE Start
    BY <2>8 DEF Start
  <2>9. CASE Crash \/ FreedTwice
    BY <2>9 DEF Crash, FreedTwice, Die
  <2>10. CASE DeliverHup
    BY <2>10 DEF DeliverHup, Stuck
  <2>11. CASE DeliverTerm
    BY <2>11 DEF DeliverTerm, Stuck
  <2>12. CASE DefaultTerm
    BY <2>12 DEF DefaultTerm, Die
  <2>13. CASE HupForget
    BY <2>13 DEF HupForget, OnHup
  <2>14. CASE HupLock
    BY <2>14 DEF HupLock, OnHup
  <2>15. CASE HupRead
    BY <2>15 DEF HupRead, OnHup
  <2>16. CASE HupReadFails
    BY <2>16 DEF HupReadFails, OnHup
  <2>17. CASE HupStore
    BY <2>17 DEF HupStore, OnHup
  <2>18. CASE HupUnlock
    BY <2>18 DEF HupUnlock, OnHup
  <2>19. CASE TermDestroy
    BY <2>19 DEF TermDestroy, OnTerm
  <2>20. CASE TermFree
    BY <2>20 DEF TermFree, OnTerm
  <2>21. CASE TermUnlinkPid
    BY <2>21 DEF TermUnlinkPid, OnTerm
  <2>22. CASE TermUnlinkConf
    BY <2>22 DEF TermUnlinkConf, OnTerm
  <2>23. CASE TermExit
    BY <2>23 DEF TermExit, Die, OnTerm
  <2>24. CASE MainPid
    BY <2>24 DEF MainPid, OnMain, Goto
  <2>25. CASE MainBind
    <3>1. CASE pc = "bindTerm"
      BY <2>25, <3>1 DEF MainBind, OnMain, Goto
    <3>2. CASE pc = "bindHup"
      BY <2>25, <3>2 DEF MainBind, OnMain, Goto
    <3>3. QED
      BY <2>25, <3>1, <3>2 DEF MainBind, OnMain
  <2>26. CASE MainGroup
    BY <2>26 DEF MainGroup, OnMain, Goto
  <2>27. CASE MainRaise
    BY <2>27 DEF MainRaise, OnMain
  <2>28. CASE MainDropIn
    BY <2>28 DEF MainDropIn, OnMain, Goto
  <2>29. CASE MainSetupFails
    BY <2>29 DEF MainSetupFails, Die
  <2>30. CASE LoadSysDev
    BY <2>30 DEF LoadSysDev, OnMain, Goto, Removable
  <2>31. CASE LoadSysDevFails
    BY <2>31 DEF LoadSysDevFails, Die, OnMain
  <2>32. CASE LoopLock
    BY <2>32 DEF LoopLock, OnMain, Goto
  <2>33. CASE LoopMerge
    BY <2>33 DEF LoopMerge, OnMain, Goto
  <2>34. CASE LoopScan
    BY <2>34, RepeatIsMatch DEF LoopScan, OnMain, Goto, TypeOK
  <2>35. CASE LoopUnlock
    BY <2>35 DEF LoopUnlock, OnMain, Goto
  <2>36. CASE LoopApply
    <3>1. CASE work = working
      BY <2>36, <3>1 DEF LoopApply, OnMain, Goto
    <3>2. CASE work # working /\ work = 1
      BY <2>36, <3>2 DEF LoopApply, OnMain, Goto
    <3>3. CASE work # working /\ work = 0
      BY <2>36, <3>3 DEF LoopApply, OnMain, Goto
    <3>4. QED
      BY <2>36, <3>1, <3>2, <3>3 DEF LoopApply
  <2>37. CASE InWorkOpen
    BY <2>37 DEF InWorkOpen, OnMain, Goto
  <2>38. CASE InWorkWrite
    BY <2>38 DEF InWorkWrite, OnMain, Goto
  <2>39. CASE InWorkFails
    BY <2>39 DEF InWorkFails, OnMain, Goto
  <2>40. CASE OutWork
    BY <2>40 DEF OutWork, OnMain, Goto
  <2>41. CASE LoopSleep
    BY <2>41 DEF LoopSleep, OnMain, Goto
  <2>42. CASE UNCHANGED vars
    BY <2>42 DEF vars
  <2>43. QED
    BY <2>1, <2>2, <2>3, <2>4, <2>5, <2>6, <2>7, <2>8, <2>9, <2>10, <2>11, <2>12,
       <2>13, <2>14, <2>15, <2>16, <2>17, <2>18, <2>19, <2>20, <2>21, <2>22, <2>23,
       <2>24, <2>25, <2>26, <2>27, <2>28, <2>29, <2>30, <2>31, <2>32, <2>33, <2>34,
       <2>35, <2>36, <2>37, <2>38, <2>39, <2>40, <2>41, <2>42 DEF Next, World, Daemon,
       Deliver, Hup, Term, Startup, EventLoop

(* No step of the loop follows a pointer of a list that a handler freed.   *)
THEOREM PointersValid == Spec => []NoStalePointer
<1>1. Init => DecisionInv
  BY DEF Init, DecisionInv
<1>2. Spec => [](Base /\ DecisionInv)
  BY BaseInit, BaseStep, <1>1, DecisionStep, PTL DEF Spec
<1>3. Base /\ DecisionInv => NoStalePointer
  BY DEF Base, FrameInv, DecisionInv, NoStalePointer, OnMain
<1>4. QED
  BY <1>2, <1>3, PTL

(* The decision is the one meant, whatever the profile repeats.            *)
THEOREM DecisionsSound == Spec => []DecisionSound
<1>1. Init => DecisionInv
  BY DEF Init, DecisionInv
<1>2. Spec => [](Base /\ DecisionInv)
  BY BaseInit, BaseStep, <1>1, DecisionStep, PTL DEF Spec
<1>3. Base /\ DecisionInv => DecisionSound
  BY DEF Base, FrameInv, DecisionInv, DecisionSound, OnMain
<1>4. QED
  BY <1>2, <1>3, PTL
-----------------------------------------------------------------------------
(* While the profile can be read, an update is either seen already or a    *)
(* signal for it is still on its way.                                      *)
FreshInv ==
  /\ term = "idle" /\ pc \notin {"off", "pid"} => pidFile
  /\ Booted /\ term = "idle" /\ "HUP" \notin pending /\ cli = "idle" =>
       /\ hup \in {"idle", "unlock"} => sudodevs = Distinct(profile)
       /\ hup = "store" => hupList = profile

LEMMA FreshStep ==
  ASSUME "read" \notin Faults, Base, FreshInv, [Next]_vars
  PROVE  FreshInv'
<1> USE DEF Base, FrameInv, FreshInv, Booted, TermBound, HupBound,
            world, disk, frames, lists, status
<1>1. QED
  <2>1. CASE \E u \in UUID : Plug(u)
    BY <2>1 DEF Plug
  <2>2. CASE \E u \in UUID : Unplug(u)
    BY <2>2 DEF Unplug
  <2>3. CASE ClientTruncate
    BY <2>3 DEF ClientTruncate
  <2>4. CASE ClientReload
    BY <2>4 DEF ClientReload, SentHup
  <2>5. CASE \E new \in Lines : ClientWrite(new)
    BY <2>5 DEF ClientWrite
  <2>6. CASE SendHup
    BY <2>6 DEF SendHup
  <2>7. CASE SendTerm
    BY <2>7 DEF SendTerm
  <2>8. CASE Start
    BY <2>8 DEF Start
  <2>9. CASE Crash \/ FreedTwice
    BY <2>9 DEF Crash, FreedTwice, Die
  <2>10. CASE DeliverHup
    BY <2>10 DEF DeliverHup, Stuck
  <2>11. CASE DeliverTerm
    BY <2>11 DEF DeliverTerm, Stuck
  <2>12. CASE DefaultTerm
    BY <2>12 DEF DefaultTerm, Die
  <2>13. CASE HupForget
    BY <2>13 DEF HupForget, OnHup
  <2>14. CASE HupLock
    BY <2>14 DEF HupLock, OnHup
  <2>15. CASE HupRead
    BY <2>15 DEF HupRead, OnHup
  <2>16. CASE HupReadFails
    BY <2>16 DEF HupReadFails, OnHup, Fault
  <2>17. CASE HupStore
    BY <2>17 DEF HupStore, OnHup
  <2>18. CASE HupUnlock
    BY <2>18 DEF HupUnlock, OnHup
  <2>19. CASE TermDestroy
    BY <2>19 DEF TermDestroy, OnTerm
  <2>20. CASE TermFree
    BY <2>20 DEF TermFree, OnTerm
  <2>21. CASE TermUnlinkPid
    BY <2>21 DEF TermUnlinkPid, OnTerm
  <2>22. CASE TermUnlinkConf
    BY <2>22 DEF TermUnlinkConf, OnTerm
  <2>23. CASE TermExit
    BY <2>23 DEF TermExit, Die, OnTerm
  <2>24. CASE MainPid
    BY <2>24 DEF MainPid, OnMain, Goto
  <2>25. CASE MainBind
    <3>1. CASE pc = "bindTerm"
      BY <2>25, <3>1 DEF MainBind, OnMain, Goto
    <3>2. CASE pc = "bindHup"
      BY <2>25, <3>2 DEF MainBind, OnMain, Goto
    <3>3. QED
      BY <2>25, <3>1, <3>2 DEF MainBind, OnMain
  <2>26. CASE MainGroup
    BY <2>26 DEF MainGroup, OnMain, Goto
  <2>27. CASE MainRaise
    BY <2>27 DEF MainRaise, OnMain
  <2>28. CASE MainDropIn
    BY <2>28 DEF MainDropIn, OnMain, Goto
  <2>29. CASE MainSetupFails
    BY <2>29 DEF MainSetupFails, Die
  <2>30. CASE LoadSysDev
    BY <2>30 DEF LoadSysDev, OnMain, Goto, Removable
  <2>31. CASE LoadSysDevFails
    BY <2>31 DEF LoadSysDevFails, Die, OnMain
  <2>32. CASE LoopLock
    BY <2>32 DEF LoopLock, OnMain, Goto
  <2>33. CASE LoopMerge
    BY <2>33 DEF LoopMerge, OnMain, Goto
  <2>34. CASE LoopScan
    BY <2>34 DEF LoopScan, OnMain, Goto
  <2>35. CASE LoopUnlock
    BY <2>35 DEF LoopUnlock, OnMain, Goto
  <2>36. CASE LoopApply
    <3>1. CASE work = working
      BY <2>36, <3>1 DEF LoopApply, OnMain, Goto
    <3>2. CASE work # working /\ work = 1
      BY <2>36, <3>2 DEF LoopApply, OnMain, Goto
    <3>3. CASE work # working /\ work = 0
      BY <2>36, <3>3 DEF LoopApply, OnMain, Goto
    <3>4. QED
      BY <2>36, <3>1, <3>2, <3>3 DEF LoopApply
  <2>37. CASE InWorkOpen
    BY <2>37 DEF InWorkOpen, OnMain, Goto
  <2>38. CASE InWorkWrite
    BY <2>38 DEF InWorkWrite, OnMain, Goto
  <2>39. CASE InWorkFails
    BY <2>39 DEF InWorkFails, OnMain, Goto
  <2>40. CASE OutWork
    BY <2>40 DEF OutWork, OnMain, Goto
  <2>41. CASE LoopSleep
    BY <2>41 DEF LoopSleep, OnMain, Goto
  <2>42. CASE UNCHANGED vars
    BY <2>42 DEF vars
  <2>43. QED
    BY <2>1, <2>2, <2>3, <2>4, <2>5, <2>6, <2>7, <2>8, <2>9, <2>10, <2>11, <2>12,
       <2>13, <2>14, <2>15, <2>16, <2>17, <2>18, <2>19, <2>20, <2>21, <2>22, <2>23,
       <2>24, <2>25, <2>26, <2>27, <2>28, <2>29, <2>30, <2>31, <2>32, <2>33, <2>34,
       <2>35, <2>36, <2>37, <2>38, <2>39, <2>40, <2>41, <2>42 DEF Next, World, Daemon,
       Deliver, Hup, Term, Startup, EventLoop

(* No reload is lost: between two updates the daemon works on the profile. *)
THEOREM ReloadsKept ==
  ASSUME "read" \notin Faults
  PROVE  Spec => []ConfigFresh
<1>1. Init => FreshInv
  BY DEF Init, FreshInv, Booted
<1>2. Base /\ FreshInv /\ [Next]_vars => FreshInv'
  BY FreshStep
<1>3. Spec => [](Base /\ FreshInv)
  BY BaseInit, BaseStep, <1>1, <1>2, PTL DEF Spec
<1>4. FreshInv => ConfigFresh
  BY DEF FreshInv, ConfigFresh
<1>5. QED
  BY <1>3, <1>4, PTL
-----------------------------------------------------------------------------
(* The handler of SIGTERM removes the files one after the other, and       *)
(* nothing puts them back.                                                 *)
StopInv ==
  /\ term \in {"unlinkConf", "exit"} => ~pidFile
  /\ term = "exit" => conf = "absent"
  /\ exit = "clean" => pc = "off" /\ ~pidFile /\ conf = "absent"

LEMMA StopStep ==
  ASSUME "unlink" \notin Faults, Base, StopInv, [Next]_vars
  PROVE  StopInv'
<1> USE DEF Base, FrameInv, StopInv, TermBound, HupBound,
            world, disk, frames, lists, status
<1>1. QED
  <2>1. CASE \E u \in UUID : Plug(u)
    BY <2>1 DEF Plug
  <2>2. CASE \E u \in UUID : Unplug(u)
    BY <2>2 DEF Unplug
  <2>3. CASE ClientTruncate
    BY <2>3 DEF ClientTruncate
  <2>4. CASE ClientReload
    BY <2>4 DEF ClientReload, SentHup
  <2>5. CASE \E new \in Lines : ClientWrite(new)
    BY <2>5 DEF ClientWrite
  <2>6. CASE SendHup
    BY <2>6 DEF SendHup
  <2>7. CASE SendTerm
    BY <2>7 DEF SendTerm
  <2>8. CASE Start
    BY <2>8 DEF Start
  <2>9. CASE Crash \/ FreedTwice
    BY <2>9 DEF Crash, FreedTwice, Die
  <2>10. CASE DeliverHup
    BY <2>10 DEF DeliverHup, Stuck
  <2>11. CASE DeliverTerm
    BY <2>11 DEF DeliverTerm, Stuck
  <2>12. CASE DefaultTerm
    BY <2>12 DEF DefaultTerm, Die
  <2>13. CASE HupForget
    BY <2>13 DEF HupForget, OnHup
  <2>14. CASE HupLock
    BY <2>14 DEF HupLock, OnHup
  <2>15. CASE HupRead
    BY <2>15 DEF HupRead, OnHup
  <2>16. CASE HupReadFails
    BY <2>16 DEF HupReadFails, OnHup
  <2>17. CASE HupStore
    BY <2>17 DEF HupStore, OnHup
  <2>18. CASE HupUnlock
    BY <2>18 DEF HupUnlock, OnHup
  <2>19. CASE TermDestroy
    BY <2>19 DEF TermDestroy, OnTerm
  <2>20. CASE TermFree
    BY <2>20 DEF TermFree, OnTerm
  <2>21. CASE TermUnlinkPid
    BY <2>21 DEF TermUnlinkPid, OnTerm, Fault
  <2>22. CASE TermUnlinkConf
    BY <2>22 DEF TermUnlinkConf, OnTerm, Fault
  <2>23. CASE TermExit
    BY <2>23 DEF TermExit, Die, OnTerm
  <2>24. CASE MainPid
    BY <2>24 DEF MainPid, OnMain, Goto
  <2>25. CASE MainBind
    <3>1. CASE pc = "bindTerm"
      BY <2>25, <3>1 DEF MainBind, OnMain, Goto
    <3>2. CASE pc = "bindHup"
      BY <2>25, <3>2 DEF MainBind, OnMain, Goto
    <3>3. QED
      BY <2>25, <3>1, <3>2 DEF MainBind, OnMain
  <2>26. CASE MainGroup
    BY <2>26 DEF MainGroup, OnMain, Goto
  <2>27. CASE MainRaise
    BY <2>27 DEF MainRaise, OnMain
  <2>28. CASE MainDropIn
    BY <2>28 DEF MainDropIn, OnMain, Goto
  <2>29. CASE MainSetupFails
    BY <2>29 DEF MainSetupFails, Die
  <2>30. CASE LoadSysDev
    BY <2>30 DEF LoadSysDev, OnMain, Goto, Removable
  <2>31. CASE LoadSysDevFails
    BY <2>31 DEF LoadSysDevFails, Die, OnMain
  <2>32. CASE LoopLock
    BY <2>32 DEF LoopLock, OnMain, Goto
  <2>33. CASE LoopMerge
    BY <2>33 DEF LoopMerge, OnMain, Goto
  <2>34. CASE LoopScan
    BY <2>34 DEF LoopScan, OnMain, Goto
  <2>35. CASE LoopUnlock
    BY <2>35 DEF LoopUnlock, OnMain, Goto
  <2>36. CASE LoopApply
    <3>1. CASE work = working
      BY <2>36, <3>1 DEF LoopApply, OnMain, Goto
    <3>2. CASE work # working /\ work = 1
      BY <2>36, <3>2 DEF LoopApply, OnMain, Goto
    <3>3. CASE work # working /\ work = 0
      BY <2>36, <3>3 DEF LoopApply, OnMain, Goto
    <3>4. QED
      BY <2>36, <3>1, <3>2, <3>3 DEF LoopApply
  <2>37. CASE InWorkOpen
    BY <2>37 DEF InWorkOpen, OnMain, Goto
  <2>38. CASE InWorkWrite
    BY <2>38 DEF InWorkWrite, OnMain, Goto
  <2>39. CASE InWorkFails
    BY <2>39 DEF InWorkFails, OnMain, Goto
  <2>40. CASE OutWork
    BY <2>40 DEF OutWork, OnMain, Goto
  <2>41. CASE LoopSleep
    BY <2>41 DEF LoopSleep, OnMain, Goto
  <2>42. CASE UNCHANGED vars
    BY <2>42 DEF vars
  <2>43. QED
    BY <2>1, <2>2, <2>3, <2>4, <2>5, <2>6, <2>7, <2>8, <2>9, <2>10, <2>11, <2>12,
       <2>13, <2>14, <2>15, <2>16, <2>17, <2>18, <2>19, <2>20, <2>21, <2>22, <2>23,
       <2>24, <2>25, <2>26, <2>27, <2>28, <2>29, <2>30, <2>31, <2>32, <2>33, <2>34,
       <2>35, <2>36, <2>37, <2>38, <2>39, <2>40, <2>41, <2>42 DEF Next, World, Daemon,
       Deliver, Hup, Term, Startup, EventLoop

(* A daemon that got to the exit(0) of its handler leaves neither its pid  *)
(* nor its rule.                                                           *)
THEOREM CleanExits ==
  ASSUME "unlink" \notin Faults
  PROVE  Spec => []CleanExit
<1>1. Init => StopInv
  BY DEF Init, StopInv
<1>2. Base /\ StopInv /\ [Next]_vars => StopInv'
  BY StopStep
<1>3. Spec => [](Base /\ StopInv)
  BY BaseInit, BaseStep, <1>1, <1>2, PTL DEF Spec
<1>4. StopInv => CleanExit
  BY DEF StopInv, CleanExit
<1>5. QED
  BY <1>3, <1>4, PTL
-----------------------------------------------------------------------------
(* A daemon that always ends through its handler, whose unlink() works, and *)
(* which no signal interrupts while it frees a list.                       *)
Tidy == Faults \cap {"crash", "opendir", "unlink", "free"} = {} /\ Local # {}

Looping == pc \in {"load", "lock", "merge", "scan", "unlock", "apply", "open", "write",
                   "remove", "sleep"}

(* A rule on disk is known to working, which is 0 outside the loop.        *)
RuleInv ==
  /\ Local \subseteq links
  /\ conf = "rule" => working = 1
  /\ ~Looping => working = 0
  /\ pc \in {"open", "write"} => working # 1 /\ work = 1
  /\ pc = "remove" => work = 0
  /\ term = "exit" => conf = "absent"

(* The other direction, as long as fclose() loses nothing.                 *)
StatusInv ==
  term = "idle" =>
    /\ working = 1 => conf = "rule"
    /\ pc = "sleep" => ((conf = "rule" <=> work = 1) \/ working # work)

LEMMA RuleStep ==
  ASSUME Tidy, Base, RuleInv, [Next]_vars
  PROVE  RuleInv'
<1> USE ConstantsAssumption
<1> USE DEF Tidy, Base, FrameInv, RuleInv, Looping, TermBound, HupBound,
            world, disk, frames, lists, status
<1>1. QED
  <2>1. CASE \E u \in UUID : Plug(u)
    BY <2>1 DEF Plug
  <2>2. CASE \E u \in UUID : Unplug(u)
    BY <2>2 DEF Unplug
  <2>3. CASE ClientTruncate
    BY <2>3 DEF ClientTruncate
  <2>4. CASE ClientReload
    BY <2>4 DEF ClientReload, SentHup
  <2>5. CASE \E new \in Lines : ClientWrite(new)
    BY <2>5 DEF ClientWrite
  <2>6. CASE SendHup
    BY <2>6 DEF SendHup
  <2>7. CASE SendTerm
    BY <2>7 DEF SendTerm
  <2>8. CASE Start
    BY <2>8 DEF Start
  <2>9. CASE Crash \/ FreedTwice
    BY <2>9 DEF Crash, FreedTwice, Die, Fault
  <2>10. CASE DeliverHup
    BY <2>10 DEF DeliverHup, Stuck
  <2>11. CASE DeliverTerm
    BY <2>11 DEF DeliverTerm, Stuck
  <2>12. CASE DefaultTerm
    BY <2>12 DEF DefaultTerm, Die
  <2>13. CASE HupForget
    BY <2>13 DEF HupForget, OnHup
  <2>14. CASE HupLock
    BY <2>14 DEF HupLock, OnHup
  <2>15. CASE HupRead
    BY <2>15 DEF HupRead, OnHup
  <2>16. CASE HupReadFails
    BY <2>16 DEF HupReadFails, OnHup
  <2>17. CASE HupStore
    BY <2>17 DEF HupStore, OnHup
  <2>18. CASE HupUnlock
    BY <2>18 DEF HupUnlock, OnHup
  <2>19. CASE TermDestroy
    BY <2>19 DEF TermDestroy, OnTerm
  <2>20. CASE TermFree
    BY <2>20 DEF TermFree, OnTerm
  <2>21. CASE TermUnlinkPid
    BY <2>21 DEF TermUnlinkPid, OnTerm
  <2>22. CASE TermUnlinkConf
    BY <2>22 DEF TermUnlinkConf, OnTerm, Fault, TypeOK
  <2>23. CASE TermExit
    BY <2>23 DEF TermExit, Die, OnTerm, TypeOK
  <2>24. CASE MainPid
    BY <2>24 DEF MainPid, OnMain, Goto
  <2>25. CASE MainBind
    <3>1. CASE pc = "bindTerm"
      BY <2>25, <3>1 DEF MainBind, OnMain, Goto
    <3>2. CASE pc = "bindHup"
      BY <2>25, <3>2 DEF MainBind, OnMain, Goto
    <3>3. QED
      BY <2>25, <3>1, <3>2 DEF MainBind, OnMain
  <2>26. CASE MainGroup
    BY <2>26 DEF MainGroup, OnMain, Goto
  <2>27. CASE MainRaise
    BY <2>27 DEF MainRaise, OnMain
  <2>28. CASE MainDropIn
    BY <2>28 DEF MainDropIn, OnMain, Goto
  <2>29. CASE MainSetupFails
    BY <2>29 DEF MainSetupFails, Die
  <2>30. CASE LoadSysDev
    BY <2>30 DEF LoadSysDev, OnMain, Goto, Removable
  <2>31. CASE LoadSysDevFails
    BY <2>31 DEF LoadSysDevFails, Die, OnMain, Fault
  <2>32. CASE LoopLock
    BY <2>32 DEF LoopLock, OnMain, Goto
  <2>33. CASE LoopMerge
    BY <2>33 DEF LoopMerge, OnMain, Goto
  <2>34. CASE LoopScan
    BY <2>34 DEF LoopScan, OnMain, Goto
  <2>35. CASE LoopUnlock
    BY <2>35 DEF LoopUnlock, OnMain, Goto
  <2>36. CASE LoopApply
    <3>1. CASE work = working
      BY <2>36, <3>1 DEF LoopApply, OnMain, Goto, TypeOK
    <3>2. CASE work # working /\ work = 1
      BY <2>36, <3>2 DEF LoopApply, OnMain, Goto, TypeOK
    <3>3. CASE work # working /\ work = 0
      BY <2>36, <3>3 DEF LoopApply, OnMain, Goto, TypeOK
    <3>4. QED
      BY <2>36, <3>1, <3>2, <3>3 DEF LoopApply
  <2>37. CASE InWorkOpen
    BY <2>37 DEF InWorkOpen, OnMain, Goto
  <2>38. CASE InWorkWrite
    BY <2>38 DEF InWorkWrite, OnMain, Goto
  <2>39. CASE InWorkFails
    BY <2>39 DEF InWorkFails, OnMain, Goto
  <2>40. CASE OutWork
    BY <2>40 DEF OutWork, OnMain, Goto, Fault, TypeOK
  <2>41. CASE LoopSleep
    BY <2>41 DEF LoopSleep, OnMain, Goto
  <2>42. CASE UNCHANGED vars
    BY <2>42 DEF vars
  <2>43. QED
    BY <2>1, <2>2, <2>3, <2>4, <2>5, <2>6, <2>7, <2>8, <2>9, <2>10, <2>11, <2>12,
       <2>13, <2>14, <2>15, <2>16, <2>17, <2>18, <2>19, <2>20, <2>21, <2>22, <2>23,
       <2>24, <2>25, <2>26, <2>27, <2>28, <2>29, <2>30, <2>31, <2>32, <2>33, <2>34,
       <2>35, <2>36, <2>37, <2>38, <2>39, <2>40, <2>41, <2>42 DEF Next, World, Daemon,
       Deliver, Hup, Term, Startup, EventLoop

LEMMA StatusStep ==
  ASSUME Tidy, "flush" \notin Faults, Base, RuleInv, StatusInv, [Next]_vars
  PROVE  StatusInv'
<1> USE DEF Tidy, Base, FrameInv, RuleInv, StatusInv, Looping, TermBound, HupBound,
            world, disk, frames, lists, status
<1>1. QED
  <2>1. CASE \E u \in UUID : Plug(u)
    BY <2>1 DEF Plug
  <2>2. CASE \E u \in UUID : Unplug(u)
    BY <2>2 DEF Unplug
  <2>3. CASE ClientTruncate
    BY <2>3 DEF ClientTruncate
  <2>4. CASE ClientReload
    BY <2>4 DEF ClientReload, SentHup
  <2>5. CASE \E new \in Lines : ClientWrite(new)
    BY <2>5 DEF ClientWrite
  <2>6. CASE SendHup
    BY <2>6 DEF SendHup
  <2>7. CASE SendTerm
    BY <2>7 DEF SendTerm
  <2>8. CASE Start
    BY <2>8 DEF Start
  <2>9. CASE Crash \/ FreedTwice
    BY <2>9 DEF Crash, FreedTwice, Die, Fault
  <2>10. CASE DeliverHup
    BY <2>10 DEF DeliverHup, Stuck
  <2>11. CASE DeliverTerm
    BY <2>11 DEF DeliverTerm, Stuck
  <2>12. CASE DefaultTerm
    BY <2>12 DEF DefaultTerm, Die
  <2>13. CASE HupForget
    BY <2>13 DEF HupForget, OnHup
  <2>14. CASE HupLock
    BY <2>14 DEF HupLock, OnHup
  <2>15. CASE HupRead
    BY <2>15 DEF HupRead, OnHup
  <2>16. CASE HupReadFails
    BY <2>16 DEF HupReadFails, OnHup
  <2>17. CASE HupStore
    BY <2>17 DEF HupStore, OnHup
  <2>18. CASE HupUnlock
    BY <2>18 DEF HupUnlock, OnHup
  <2>19. CASE TermDestroy
    BY <2>19 DEF TermDestroy, OnTerm
  <2>20. CASE TermFree
    BY <2>20 DEF TermFree, OnTerm
  <2>21. CASE TermUnlinkPid
    BY <2>21 DEF TermUnlinkPid, OnTerm
  <2>22. CASE TermUnlinkConf
    BY <2>22 DEF TermUnlinkConf, OnTerm
  <2>23. CASE TermExit
    BY <2>23 DEF TermExit, Die, OnTerm
  <2>24. CASE MainPid
    BY <2>24 DEF MainPid, OnMain, Goto
  <2>25. CASE MainBind
    <3>1. CASE pc = "bindTerm"
      BY <2>25, <3>1 DEF MainBind, OnMain, Goto
    <3>2. CASE pc = "bindHup"
      BY <2>25, <3>2 DEF MainBind, OnMain, Goto
    <3>3. QED
      BY <2>25, <3>1, <3>2 DEF MainBind, OnMain
  <2>26. CASE MainGroup
    BY <2>26 DEF MainGroup, OnMain, Goto
  <2>27. CASE MainRaise
    BY <2>27 DEF MainRaise, OnMain
  <2>28. CASE MainDropIn
    BY <2>28 DEF MainDropIn, OnMain, Goto
  <2>29. CASE MainSetupFails
    BY <2>29 DEF MainSetupFails, Die
  <2>30. CASE LoadSysDev
    BY <2>30 DEF LoadSysDev, OnMain, Goto, Removable
  <2>31. CASE LoadSysDevFails
    BY <2>31 DEF LoadSysDevFails, Die, OnMain, Fault
  <2>32. CASE LoopLock
    BY <2>32 DEF LoopLock, OnMain, Goto
  <2>33. CASE LoopMerge
    BY <2>33 DEF LoopMerge, OnMain, Goto
  <2>34. CASE LoopScan
    BY <2>34 DEF LoopScan, OnMain, Goto
  <2>35. CASE LoopUnlock
    BY <2>35 DEF LoopUnlock, OnMain, Goto
  <2>36. CASE LoopApply
    <3>1. CASE work = working
      BY <2>36, <3>1 DEF LoopApply, OnMain, Goto, TypeOK
    <3>2. CASE work # working /\ work = 1
      BY <2>36, <3>2 DEF LoopApply, OnMain, Goto, TypeOK
    <3>3. CASE work # working /\ work = 0
      BY <2>36, <3>3 DEF LoopApply, OnMain, Goto, TypeOK
    <3>4. QED
      BY <2>36, <3>1, <3>2, <3>3 DEF LoopApply
  <2>37. CASE InWorkOpen
    BY <2>37 DEF InWorkOpen, OnMain, Goto
  <2>38. CASE InWorkWrite
    BY <2>38 DEF InWorkWrite, OnMain, Goto, Fault, TypeOK
  <2>39. CASE InWorkFails
    BY <2>39 DEF InWorkFails, OnMain, Goto, TypeOK
  <2>40. CASE OutWork
    BY <2>40 DEF OutWork, OnMain, Goto, Fault, TypeOK
  <2>41. CASE LoopSleep
    BY <2>41 DEF LoopSleep, OnMain, Goto
  <2>42. CASE UNCHANGED vars
    BY <2>42 DEF vars
  <2>43. QED
    BY <2>1, <2>2, <2>3, <2>4, <2>5, <2>6, <2>7, <2>8, <2>9, <2>10, <2>11, <2>12,
       <2>13, <2>14, <2>15, <2>16, <2>17, <2>18, <2>19, <2>20, <2>21, <2>22, <2>23,
       <2>24, <2>25, <2>26, <2>27, <2>28, <2>29, <2>30, <2>31, <2>32, <2>33, <2>34,
       <2>35, <2>36, <2>37, <2>38, <2>39, <2>40, <2>41, <2>42 DEF Next, World, Daemon,
       Deliver, Hup, Term, Startup, EventLoop

LEMMA RuleAlways ==
  ASSUME Tidy
  PROVE  Spec => [](Base /\ RuleInv)
<1>1. Init => RuleInv
  BY DEF Init, RuleInv, Looping
<1>2. Base /\ RuleInv /\ [Next]_vars => RuleInv'
  BY RuleStep
<1>3. QED
  BY BaseInit, BaseStep, <1>1, <1>2, PTL DEF Spec

(* Under Tidy a rule is on disk only while a daemon runs that knows of it. *)
THEOREM RulesKnown ==
  ASSUME Tidy
  PROVE  Spec => []NoForgottenRule
<1>1. Base /\ RuleInv => NoForgottenRule
  BY DEF RuleInv, Looping, NoForgottenRule
<1>2. QED
  BY RuleAlways, <1>1, PTL

(* The rule comes and goes only as the loop decides, or with the daemon.   *)
THEOREM RulesFollowDecisions ==
  ASSUME Tidy
  PROVE  Spec => RuleFollowsDecision
<1> DEFINE Follows ==
      /\ conf # "rule" /\ conf' = "rule" => work = 1
      /\ conf = "rule" /\ conf' # "rule" => work = 0 \/ term # "idle"
<1>1. Base /\ RuleInv /\ [Next]_vars => [Follows]_vars
  <2> SUFFICES ASSUME Base, RuleInv, Next PROVE Follows
    OBVIOUS
  <2> USE DEF Base, FrameInv, RuleInv, world, disk, frames, lists, status
  <2>1. CASE TermUnlinkConf
    BY <2>1 DEF TermUnlinkConf, OnTerm
  <2>2. CASE InWorkOpen
    BY <2>2 DEF InWorkOpen, OnMain
  <2>3. CASE InWorkWrite
    BY <2>3 DEF InWorkWrite, OnMain
  <2>4. CASE OutWork
    BY <2>4 DEF OutWork, OnMain
  <2>5. CASE conf' = conf
    BY <2>5
  <2>6. ~(TermUnlinkConf \/ InWorkOpen \/ InWorkWrite \/ OutWork) => conf' = conf
    <3>1. World => conf' = conf
      BY DEF World, Plug, Unplug, ClientTruncate, ClientReload, ClientWrite, SendHup, SendTerm,
             Start, Crash
    <3>2. Deliver \/ Hup \/ FreedTwice => conf' = conf
      BY DEF FreedTwice, Deliver, DeliverHup, DeliverTerm, DefaultTerm, Hup, HupForget, HupLock, HupRead,
             HupReadFails, HupStore, HupUnlock
    <3>3. Term => TermUnlinkConf \/ conf' = conf
      BY DEF Term, TermDestroy, TermFree, TermUnlinkPid, TermExit
    <3>4. Startup => conf' = conf
      BY DEF Startup, MainPid, MainBind, MainGroup, MainRaise, MainDropIn, MainSetupFails
    <3>5. EventLoop => InWorkOpen \/ InWorkWrite \/ OutWork \/ conf' = conf
      BY DEF EventLoop, LoadSysDev, LoadSysDevFails, LoopLock, LoopMerge, LoopScan, LoopUnlock,
             LoopApply, InWorkFails, LoopSleep
    <3>6. QED
      BY <3>1, <3>2, <3>3, <3>4, <3>5 DEF Next, Daemon
  <2>7. QED
    BY <2>1, <2>2, <2>3, <2>4, <2>5, <2>6
<1>2. QED
  BY RuleAlways, <1>1, PTL DEF Spec, RuleFollowsDecision

(* A call of inWork() that failed is made again: the status never pretends *)
(* that the file is what was decided.                                      *)
THEOREM FailuresRetried ==
  ASSUME Tidy, "flush" \notin Faults
  PROVE  Spec => []FailureRetried
<1>1. Init => StatusInv
  BY DEF Init, StatusInv
<1>2. Base /\ RuleInv /\ StatusInv /\ [Next]_vars => StatusInv'
  BY StatusStep
<1>3. Spec => []StatusInv
  BY RuleAlways, <1>1, <1>2, PTL DEF Spec
<1>4. Base /\ StatusInv => FailureRetried
  BY DEF Base, FrameInv, StatusInv, FailureRetried, OnMain
<1>5. QED
  BY RuleAlways, <1>3, <1>4, PTL
-----------------------------------------------------------------------------
(* Sudodevd implements Gate for every set of devices and profiles, if the  *)
(* process always ends through its own code and its unlink() works: each   *)
(* step of the daemon is the step of Gate its case names, or leaves the    *)
(* mapped state alone.                                                     *)

(* No signal waits for a process that does not exist, and it has no memory. *)
OffInv ==
  pc = "off" =>
    pending = {} /\ hup # "store" /\ sysdevs = {} /\ sudodevs = NoLine /\ work = 0

LEMMA NamedNoLine == Named(NoLine) = {}
BY DEF Named, NoLine

LEMMA NamedDistinct ==
  ASSUME NEW list \in Lines
  PROVE  Named(Distinct(list)) = Named(list)
<1>1. \A u \in UUID : Distinct(list)[u] > 0 <=> list[u] > 0
  BY ConstantsAssumption DEF Distinct, Lines
<1>2. QED
  BY <1>1 DEF Named

(* What the mapping leaves alone is no step of Gate.                       *)
LEMMA Stutter ==
  ASSUME UNCHANGED <<links, profile, sysdevs, sudodevs, hupList, work, conf>>,
         (pc' = "off") <=> (pc = "off"), (term' = "idle") <=> (term = "idle"),
         pc' \in {"lock", "merge", "scan"} <=> pc \in {"lock", "merge", "scan"},
         pc' \in Acting <=> pc \in Acting,
         hup' = "store" <=> hup = "store"
  PROVE  UNCHANGED G!vars
BY DEF G!vars, G!memory, Removable, Named

LEMMA OffStep ==
  ASSUME Base, OffInv, [Next]_vars
  PROVE  OffInv'
<1> USE DEF OffInv, world, disk, frames, lists, status
<1>1. CASE \E how \in {"killed", "failure", "clean"} : Die(how)
  BY <1>1 DEF Die
<1>2. CASE pc' # "off"
  BY <1>2
<1>3. CASE pc = "off" /\ UNCHANGED <<pc, frames, lists, status>> /\ pending' = pending
  BY <1>3
<1>4. pc = "off" => top = "main" /\ hup = "idle" /\ term = "idle"
  BY DEF Base, FrameInv, HupBound, TermBound
<1>5. World => \/ \E how \in {"killed", "failure", "clean"} : Die(how)
               \/ pc' # "off"
               \/ pc = "off" /\ UNCHANGED <<pc, frames, lists, status>> /\ pending' = pending
  BY DEF World, Plug, Unplug, ClientTruncate, ClientWrite, ClientReload, SentHup, HupBound,
         TermBound, SendHup, SendTerm, Start, Crash
<1>6. Deliver => (\E how \in {"killed", "failure", "clean"} : Die(how)) \/ pc' # "off"
  BY <1>4 DEF Deliver, DeliverHup, DeliverTerm, DefaultTerm, HupBound, TermBound
<1>7. Hup => pc' # "off"
  BY <1>4 DEF Hup, HupForget, HupLock, HupRead, HupReadFails, HupStore, HupUnlock, OnHup
<1>8. Term \/ FreedTwice => (\E how \in {"killed", "failure", "clean"} : Die(how)) \/ pc' # "off"
  BY <1>4 DEF FreedTwice, Term, TermDestroy, TermFree, TermUnlinkPid, TermUnlinkConf, TermExit, OnTerm
<1>9. Startup => (\E how \in {"killed", "failure", "clean"} : Die(how)) \/ pc' # "off"
  BY DEF Startup, MainPid, MainBind, MainGroup, MainRaise, MainDropIn, MainSetupFails, OnMain, Goto
<1>10. EventLoop => (\E how \in {"killed", "failure", "clean"} : Die(how)) \/ pc' # "off"
  BY DEF EventLoop, LoadSysDev, LoadSysDevFails, LoopLock, LoopMerge, LoopScan, LoopUnlock,
         LoopApply, InWorkOpen, InWorkWrite, InWorkFails, OutWork, LoopSleep, OnMain, Goto
<1>11. CASE UNCHANGED vars
  BY <1>11 DEF vars
<1>12. QED
  BY <1>1, <1>2, <1>3, <1>5, <1>6, <1>7, <1>8, <1>9, <1>10, <1>11 DEF Next, Daemon

(* Each step of the daemon is the step of Gate named in its case.          *)
LEMMA GateStep ==
  ASSUME Tidy, Base, RuleInv, DecisionInv, OffInv, [Next]_vars
  PROVE  [G!Next]_G!vars
<1> USE DEF Base, FrameInv, world, disk, frames, lists, status
<1>1. TypeOK
  BY DEF Base
<1>2. QED
  <2>1. CASE \E u \in UUID : Plug(u) \/ Unplug(u)
    <3>1. G!Environment
      BY <2>1, <1>1 DEF Plug, Unplug, G!Environment, G!memory, Removable, TypeOK
    <3>2. QED
      BY <3>1 DEF G!Next
  <2>2. CASE ClientTruncate \/ \E new \in Lines : ClientWrite(new)
    <3>1. G!Environment
      BY <2>2 DEF ClientTruncate, ClientWrite, G!Environment, G!memory, Removable, Named
    <3>2. QED
      BY <3>1 DEF G!Next
  <2>3. CASE Start
    <3>1. term = "idle"
      BY <2>3 DEF Start, TermBound
    <3>2. G!Start
      BY <2>3, <3>1 DEF Start, G!Start, G!memory, Removable, Named, Acting
    <3>3. QED
      BY <3>2 DEF G!Next
  <2>4. CASE Crash \/ FreedTwice
    BY <2>4 DEF Crash, FreedTwice, Fault, Tidy
  <2>5. CASE DeliverTerm
    <3>1. G!Stop
      BY <2>5 DEF DeliverTerm, Stuck, TermBound, G!Stop, G!memory, Removable, Named
    <3>2. QED
      BY <3>1 DEF G!Next
  <2>6. CASE DefaultTerm
    <3>1. pc # "off"
      BY <2>6 DEF DefaultTerm, OffInv
    <3>2. conf # "rule"
      BY <2>6 DEF DefaultTerm, TermBound, RuleInv, Looping
    <3>3. G!End
      BY <2>6, <3>1, <3>2, NamedNoLine DEF DefaultTerm, Die, G!End, Removable, Acting
    <3>4. QED
      BY <3>3 DEF G!Next
  <2>7. CASE HupForget
    <3>1. G!Reload
      BY <2>7, NamedNoLine DEF HupForget, OnHup, HupBound, TermBound, G!Reload, Removable
    <3>2. QED
      BY <3>1 DEF G!Next
  <2>8. CASE HupRead
    <3>1. G!Reload
      BY <2>8 DEF HupRead, OnHup, HupBound, TermBound, G!Reload, Removable
    <3>2. QED
      BY <3>1 DEF G!Next
  <2>9. CASE HupReadFails
    <3>1. G!Reload
      BY <2>9, NamedNoLine DEF HupReadFails, OnHup, HupBound, TermBound, G!Reload, Removable
    <3>2. QED
      BY <3>1 DEF G!Next
  <2>10. CASE HupStore
    <3>1. Named(sudodevs') = Named(hupList)
      BY <2>10, <1>1, NamedDistinct DEF HupStore, TypeOK
    <3>2. UNCHANGED G!vars
      BY <2>10, <3>1 DEF HupStore, OnHup, G!vars, G!memory, Removable
    <3>3. QED
      BY <3>2
  <2>11. CASE TermFree
    <3>1. G!Forget
      BY <2>11, NamedNoLine DEF TermFree, OnTerm, TermBound, G!Forget, Removable
    <3>2. QED
      BY <3>1 DEF G!Next
  <2>12. CASE TermUnlinkConf
    <3>1. conf' = "absent" /\ term = "unlinkConf" /\ term' = "exit" /\ pc # "off"
      BY <2>12 DEF TermUnlinkConf, OnTerm, TermBound, Tidy, Fault
    <3>2. CASE conf = "rule"
      <4>1. G!Close
        BY <2>12, <3>1, <3>2 DEF TermUnlinkConf, G!Close, G!memory, Removable, Named
      <4>2. QED
        BY <4>1 DEF G!Next
    <3>3. CASE conf # "rule"
      BY <2>12, <3>1, <3>3 DEF TermUnlinkConf, G!vars, G!memory, Removable, Named
    <3>4. QED
      BY <3>2, <3>3
  <2>13. CASE TermExit
    <3>1. conf # "rule" /\ pc # "off"
      BY <2>13 DEF TermExit, OnTerm, RuleInv, TermBound
    <3>2. G!End
      BY <2>13, <3>1, NamedNoLine DEF TermExit, Die, G!End, Removable, Acting
    <3>3. QED
      BY <3>2 DEF G!Next
  <2>14. CASE MainSetupFails
    <3>1. conf # "rule" /\ pc # "off"
      BY <2>14 DEF MainSetupFails, RuleInv, Looping
    <3>2. G!End
      BY <2>14, <3>1, NamedNoLine DEF MainSetupFails, Die, G!End, Removable, Acting
    <3>3. QED
      BY <3>2 DEF G!Next
  <2>15. CASE LoadSysDev
    <3>1. G!Look
      BY <2>15 DEF LoadSysDev, OnMain, Goto, G!Look, Removable, Named, Acting
    <3>2. QED
      BY <3>1 DEF G!Next
  <2>16. CASE LoadSysDevFails
    BY <2>16, ConstantsAssumption DEF LoadSysDevFails, Fault, Tidy, RuleInv
  <2>17. CASE LoopScan
    <3>1. all = Joined(sysdevs, sudodevs) /\ hup = "idle" /\ term = "idle"
      BY <2>17 DEF LoopScan, OnMain, DecisionInv
    <3>2. HasRepeat(all) <=> \E u \in sysdevs : sudodevs[u] > 0
      BY <3>1, <1>1, RepeatIsMatch DEF TypeOK
    <3>3. HasRepeat(all) <=> sysdevs \cap Named(sudodevs) # {}
      BY <3>2, <1>1 DEF Named, TypeOK
    <3>4. (work' = 1) <=> HasRepeat(all)
      BY <2>17 DEF LoopScan
    <3>5. (work' = 1) = (sysdevs \cap Named(sudodevs) # {})
      BY <3>3, <3>4
    <3>6. G!Decide
      BY <2>17, <3>1, <3>5 DEF LoopScan, OnMain, Goto, G!Decide, Removable, Named, Acting
    <3>7. QED
      BY <3>6 DEF G!Next
  <2>18. CASE InWorkOpen
    <3>1. conf # "rule"
      BY <2>18 DEF InWorkOpen, OnMain, RuleInv
    <3>2. UNCHANGED G!vars
      BY <2>18, <3>1 DEF InWorkOpen, OnMain, Goto, G!vars, G!memory, Removable, Named, Acting
    <3>3. QED
      BY <3>2
  <2>19. CASE InWorkWrite
    <3>1. conf # "rule" /\ work = 1 /\ conf' \in {"rule", conf}
      BY <2>19 DEF InWorkWrite, OnMain, RuleInv
    <3>2. G!Apply
      BY <2>19, <3>1 DEF InWorkWrite, OnMain, Goto, G!Apply, G!memory, Removable, Named, Acting
    <3>3. QED
      BY <3>2 DEF G!Next
  <2>20. CASE OutWork
    <3>1. conf' = "absent" /\ work = 0
      BY <2>20 DEF OutWork, OnMain, RuleInv, Tidy, Fault
    <3>2. G!Apply
      BY <2>20, <3>1 DEF OutWork, OnMain, Goto, G!Apply, G!memory, Removable, Named, Acting
    <3>3. QED
      BY <3>2 DEF G!Next
  <2>21. CASE SendHup
    BY <2>21, Stutter DEF SendHup
  <2>22. CASE SendTerm
    BY <2>22, Stutter DEF SendTerm
  <2>23. CASE ClientReload
    BY <2>23, Stutter DEF ClientReload, SentHup
  <2>24. CASE DeliverHup
    BY <2>24, Stutter DEF DeliverHup, Stuck
  <2>25. CASE HupLock
    BY <2>25, Stutter DEF HupLock, OnHup
  <2>26. CASE HupUnlock
    BY <2>26, Stutter DEF HupUnlock, OnHup
  <2>27. CASE TermDestroy
    BY <2>27, Stutter DEF TermDestroy, OnTerm
  <2>28. CASE TermUnlinkPid
    BY <2>28, Stutter DEF TermUnlinkPid, OnTerm
  <2>29. CASE MainPid
    BY <2>29, Stutter DEF MainPid, OnMain, Acting, Goto
  <2>30. CASE MainBind
    BY <2>30, Stutter DEF MainBind, OnMain, Acting, Goto
  <2>31. CASE MainGroup
    BY <2>31, Stutter DEF MainGroup, OnMain, Acting, Goto
  <2>32. CASE MainRaise
    BY <2>32, Stutter DEF MainRaise, OnMain, Acting
  <2>33. CASE MainDropIn
    BY <2>33, Stutter DEF MainDropIn, OnMain, Acting, Goto
  <2>34. CASE LoopLock
    BY <2>34, Stutter DEF LoopLock, OnMain, Acting, Goto
  <2>35. CASE LoopMerge
    BY <2>35, Stutter DEF LoopMerge, OnMain, Acting, Goto
  <2>36. CASE LoopUnlock
    BY <2>36, Stutter DEF LoopUnlock, OnMain, Acting, Goto
  <2>37. CASE LoopApply
    <3>1. CASE work = working /\ Goto("sleep")
      <4>1. conf = "rule" => work = 1
        BY <3>1 DEF RuleInv
      <4>2. (conf' = "rule") \in {work = 1, work = 1 /\ conf = "rule"}
        BY <2>37, <4>1 DEF LoopApply
      <4>3. G!Apply
        BY <2>37, <3>1, <4>2 DEF LoopApply, OnMain, Goto, G!Apply, G!memory, Removable, Named, Acting
      <4>4. QED
        BY <4>3 DEF G!Next
    <3>2. CASE Goto("open") \/ Goto("remove")
      BY <2>37, <3>2, Stutter DEF LoopApply, OnMain, Goto, Acting
    <3>3. QED
      BY <2>37, <3>1, <3>2 DEF LoopApply
  <2>38. CASE LoopSleep
    BY <2>38, Stutter DEF LoopSleep, OnMain, Acting, Goto
  <2>39. CASE InWorkFails
    <3>1. conf # "rule" /\ work = 1
      BY <2>39 DEF InWorkFails, OnMain, RuleInv
    <3>2. G!Apply
      BY <2>39, <3>1 DEF InWorkFails, OnMain, Goto, G!Apply, G!memory, Removable, Named, Acting
    <3>3. QED
      BY <3>2 DEF G!Next
  <2>40. CASE UNCHANGED vars
    BY <2>40, Stutter DEF vars
  <2>41. QED
    BY <2>1, <2>2, <2>3, <2>4, <2>5, <2>6, <2>7, <2>8, <2>9, <2>10, <2>11, <2>12,
       <2>13, <2>14, <2>15, <2>16, <2>17, <2>18, <2>19, <2>20, <2>21, <2>22, <2>23,
       <2>24, <2>25, <2>26, <2>27, <2>28, <2>29, <2>30, <2>31, <2>32, <2>33, <2>34,
       <2>35, <2>36, <2>37, <2>38, <2>39, <2>40
       DEF Next, World, Daemon, Deliver, Hup, Term, Startup, EventLoop

(* The daemon implements the promise, for every set of devices, every      *)
(* profile and every order of signals, under Tidy.                         *)
THEOREM DaemonImplementsGate ==
  ASSUME Tidy
  PROVE  Spec => ImplementsGate
<1>1. Init => G!Init
  BY NamedNoLine, ConstantsAssumption DEF Init, G!Init, Removable, Acting
<1>2. Init => DecisionInv /\ OffInv
  BY DEF Init, DecisionInv, OffInv
<1>3. Base /\ DecisionInv /\ [Next]_vars => DecisionInv'
  BY DecisionStep
<1>4. Base /\ OffInv /\ [Next]_vars => OffInv'
  BY OffStep
<1>5. Spec => [](Base /\ RuleInv)
  BY RuleAlways
<1>6. Spec => [](DecisionInv /\ OffInv)
  BY <1>2, <1>3, <1>4, <1>5, PTL DEF Spec
<1>7. Base /\ RuleInv /\ DecisionInv /\ OffInv /\ [Next]_vars => [G!Next]_G!vars
  BY GateStep
<1>8. QED
  BY <1>1, <1>5, <1>6, <1>7, PTL DEF Spec, ImplementsGate, G!Spec
=============================================================================
