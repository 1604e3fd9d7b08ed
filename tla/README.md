# TLA+ models of sudodev

sudodev lets a removable device stand for the password: as long as a device
named in `/etc/sudodev.conf` is plugged in, a drop-in file in `/etc/sudoers.d`
lets the members of the group `sudodev` use `sudo` without one.  These modules
model the programs that decide this, `sudodevd` and `sudodev`, with TLC runs on
small instances and TLAPS proofs for all of them.

Paths below are relative to the repository; `sudodevd.c` and the other C files
are in `src/`.

## 1. Inventory of the system

| component | state | operations | what makes it correct |
|---|---|---|---|
| **daemon** `sudodevd.c` | `sudodevs`, `sysdevs` (lists of UUIDs), `mutex`; `work`, `working` and the borrowed list `all` of `eventloop`; on disk `SUDO_CONF` (the rule) and `LOCKFILE` (the pid) | start-up; one pass of the loop every 2 s; `sighupHandler`; `sigtermHandler` | the rule is there exactly while a configured device is; a reload is never lost; a stop leaves nothing behind |
| **lock file** `lockfile.c` | the name, its inode, the `fcntl` lock, the pid in it | `hasLockfile()`; `unlink` in `clean()` | one daemon at a time, and the pid is its pid |
| **client and profile** `sudodev.c`, `profile.c`, `find.c` | `/etc/sudodev.conf`; per client the lines it read | `add()`, `del()`, `reload()` | what it reports as done is done and stays; the daemon gets to know |
| **devices** `devs.c` | links in `/dev/disk/by-uuid`, `/etc/fstab` | `devs()` | all devices but the disks of the machine |
| **lists** `sort.c`, `readfile.c`, `chomp.c` | an array of pointers that grows | `msort`, `readfile`, `chomp` | a sorted permutation; the lines of the file, NULL at the end |
| **set-up** `group.c`, `sudoers.c` | `/etc/group`, `/etc/sudoers` | `addGroup`, `enableDropInFile` | a group id nobody else has; nothing appended that is there; a daemon in its loop has its group and its rule is read |
| **daemonize** `daemonize.c` | session, terminal, descriptors, the disposition of SIGHUP | `daemonize()` | the daemon keeps nothing of its starter |
| **init scripts** `init/` | none | start, stop, reload, restart | what they send reaches the daemon |
| **output** `say.c`, `assert.h`, `color.h` | none | `say()`, `sayMode()` | messages of a daemon go to the log |

How they interact:

* `main()` calls `daemonize()`, takes the lock file, sets up group and sudoers,
  raises SIGHUP on itself, which loads the profile, and enters `eventloop()`.
  The loop calls `devs()` and `msort()`, the handler `readfile()` and `msort()`.
* A client rewrites the profile and sends SIGHUP to the pid in `LOCKFILE`
  (`reload()`); init scripts send SIGHUP and SIGTERM to the same process.
* The handlers run on the daemon's only thread, on top of whatever it does
  (`MULTITHREAD_DAEMON` is 0, so the `sigwait` thread is not compiled).  Each
  masks its own signal and not the other one (`actionBinding`).
* Handler and loop share `sudodevs`, `sysdevs`, the mutex and the heap.
* Instances of the daemon share `LOCKFILE` and `SUDO_CONF`; clients share the
  profile, which nothing locks.

What is hard here: a signal at any point, over any frame; a mutex and one
thread; the handler that frees a list the loop has pointers into; a status in
memory (`working`) that stands for a file on disk; a lock on an inode whose
name is unlinked; read-modify-write of a file by several processes; failures in
the middle of a sequence of system calls.  `PROJECT.json` lists each of these
under `hazards`, at the line where it bites, with the properties that watch it.

## 2. The modules

### Sudodevd: the daemon

One process, its handlers, and the world around it: devices come and go, a
client rewrites the profile, signals are sent, the service is started again.

* The stack is `pc` (the step `main()` is at), `hup` and `term` (the step each
  handler is at, or `idle`) and `top`, the frame that runs.  A handler that is
  delivered becomes the top; the frame below does not move until it returns.
  `sigtermHandler` never returns.
* The steps of a frame are the points between which a signal makes a
  difference: `load lock merge scan unlock apply open write remove sleep` for
  the loop, `forget lock read store unlock` for SIGHUP, `destroy free unlinkPid
  unlinkConf exit` for SIGTERM.  `all` is filled in `merge` and looked at in
  `scan`, so that what a handler frees in between is seen.
* A list of lines is a function from UUIDs to the number of times it occurs:
  everything compared is sorted first, so order does not matter, and repeats
  do (`HasRepeat`).  NULL and an empty list are not told apart; the code tests
  for both wherever it reads a list.
* Undefined behaviour is a choice: `LoopMerge` copies pointers, and
  `NoStalePointer` says they are still good when followed; the handlers log and
  allocate over a frame that may be doing the same, and may hang (`Stuck`).
* `pthread_mutex_lock` by the thread that holds it blocks for ever: `HupLock`
  has no step then.  Locking a mutex that was destroyed returns, as it does in
  glibc, and nobody looks at the result; destroying one that is held does
  nothing.
* `destoryList()` is one step, in `LoadSysDev`, `HupForget` and `TermFree`, but the
  code clears the pointer after it has freed the list.  A handler that comes in
  between and frees the same list again ends in `abort()`, with the rule and
  `LOCKFILE` left on disk: `FreedTwice`, guarded by the fault `free`.  It happens
  to SIGTERM over the loop (each pass frees `sysdevs`) and over the handler of
  SIGHUP, and to SIGHUP over `clean()`.  Other outcomes of a second `free()` are
  those of `heap`.  The list must have an item for it: an array that is empty and
  not NULL is not told apart from NULL.  `FreedTwice` is a step of the run
  `DaemonFaults`.
* `exit(0)` in the handler would flush an open `FILE`; the drop-in's inode has
  been unlinked by then, so nothing on disk changes and no action is needed.

`Faults` says which failures may happen; each is an action or a disjunct
guarded by `Fault(...)`.

### Gate: what the daemon promises

Gate knows nothing of threads, handlers, the mutex or lists: a pass looks at the
devices once, compares them once with what the daemon has learnt of the profile,
and then sudo is open exactly if that said so, unless opening failed; the daemon
does not go away and leave it open.  Sudodevd is mapped to it by
`G == INSTANCE Gate WITH ...`: `phase` is `pc` and whether SIGTERM is being
handled, `present` the links that are not local, `wanted`, `seen` and `known` the
sets of UUIDs in `profile`, `sysdevs` and `sudodevs`, `grant` is `work`, `rule`
is `conf`, and `pass` is where `pc` is in the loop.  From `HupRead` to `HupStore`
the handler holds the new list while the old one is gone; to Gate the reload
happens at the read, so in between `known` is what the handler holds.  `ImplementsGate`
is `G!Spec`, a property of the run `Daemon`.  The refinement says what no
invariant of Sudodevd says at once: each pass acts on its own look at the devices
and on one whole reading of the profile, never on those of an earlier pass, and
so the rule depends on no interleaving.

### LockFile: several instances

`name` is the inode that `LOCKFILE` names, `owner` and `text` are the lock and
the pid of each inode, `fd` is what each instance opened.  Starting is
open, lock, write; stopping is unlink, unlink, exit.  The rule is a Boolean and
the loop one action (`Apply`): what happens in between is Sudodevd's matter.
`Overlap = FALSE` restricts the environment, not the program: no instance is
started while another stops, as with systemd, which waits; `TRUE` allows it, as
the sysv script's `restart` does.

### Sudodev: clients and the profile

Each client goes `find` (only `add`), `read`, `truncate`, `write`, `reload`.
The profile is read three times (for the choice, by `find()`, by `readfile()`)
and other clients may act in between.  `Matches` is the relation "this UUID as
a pattern is found in that line", `Hex` the lines that `isUUID()` lets through.
Writing goes to the file offset of the client that opened it: when another one
wrote meanwhile, the end of its longer text remains (`Over`).  `promised` and
`gone` are history: what clients reported as added and as deleted.

The file is emptied before it is written, and three failures then cost lines:

* `kill`: a client may be killed at any step; between `truncate` and `write` its
  lines are gone;
* `short`: a line whose `fwrite` fails is skipped while the next ones are written
  (`WriteFails`); the client reports a failure and sends no reload;
* `flush`: `fclose()` fails to write the buffer.  Its result is ignored
  (`profile.c:183`), so the client reports "done" and reloads an empty profile.

`lost`, history too, has exactly the lines that a client had in memory to write
back in one of these cases, until they are in the file again.  `PromiseKept` says
that the profile lacks no other line of `promised`: no failure at another step
costs a line, a failed write costs only what it had to write, and no later edit
drops one.  `DoneIsStored` makes no exception for `lost`; it is true only without
these three faults (theorem `DoneIsTrue`).  With `flush` the code violates it: an addition
to an empty profile on a full disk, in five steps.

Left out: the dialogue, the parsing of arguments, and a line cut in two by an
overlapping write.

### Setup: `/etc/group` and `/etc/sudoers`

`main()` from its first `find()` to the loop, over any number of starts, each of
which may fail or be killed at any step, while administrators add groups.  A line
of `/etc/group` is its kind and its id.  `find()` returns -1 on failure, which
`main()` takes for "not there" and so does `enableDropInFile()`; `FindGroupFails`
and `FindRuleFails` are these cases.  `NewIds` is the choice of the id: sorted
collected ids, the first gap, the special case of one id, and `Junk`, what the
array holds behind the last id, which the scan compares with it.  `Fits` is the
number of ids up to which the array is what the code believes: beyond it
(`realloc` is given a count of ids for a count of bytes) the heap is overrun and
any id, or the end of the process, may follow.  A line appended to a file without
a last newline is glued to the line before.  `mishap` is history: in this start a
file was not read, not written, or not ended.

### Lines: `readfile()` and the arrays that end with NULL

The cells of the array are `item`, `null` or `junk` (never written).  Both
`readfile()` and `devs()` double the array when it is full, and clear the new part
with a `memset` whose count of bytes is a count of pointers (`Enlarged`).  Their
loops are one, with `caller` for the differences: what ends an item, whether room
is made for an entry that is then skipped, and the first allocation, which
`devs()` clears whole.  `ListEnds` is exact: with the real sizes (1024 pointers of 8
bytes) `readfile()` writes no NULL behind 128 to 1023 lines and behind 1152 to
2047, `devs()` none behind 1152 to 2047 links.  Small profiles are safe.
`LinesAssumption` has `Ptr <= Chunk`: with an array of fewer cells than a pointer
has bytes, `memset` would clear none of a doubled one, and the exact statement
would have another form.

### Devs: which links are removable devices

`devs()`, `isLocalDev()` and `localDevs()` with the list the last two share in a
static variable.  A name is a sequence of short pieces, because the code cuts it
at its first digit, searches the rest in whole paths, and reads link targets into
a buffer without a terminator, over the one before (`ReadOver`).  Devices may be
pulled out at any step, `/etc/fstab` edited between two calls.  `LocalHidden`
holds for names with a digit; a disk without a partition (`sdb`) keeps the tail of
a longer target and may be returned though `/etc/fstab` names it.
`RemovableListed` says what the matching costs: an nvme device is never returned
if a local disk is one, nor `sda` if `sdaa` is local.

### MergeSort: sorted lists

`Merge` and `Msort` as the code has them, the dropping of repeats in
`sighupHandler` and the search for equal neighbours in `eventloop`.  They are the
ground for the multisets of Sudodevd: sorting loses and doubles nothing, and
neighbours decide as sets would.  `Copied` is one turn of the three loops of
`merge()`, `Merge` all of them, `Msort` the recursion, written as a function so
that theorems can be stated about it.

### Daemonize: leaving the starter

The calls of `daemonize()` one by one, each of which may fail, with the
descriptors the process was started with, and the limit `closeFD()` goes by.  The
errors are collected and looked at by `main()` at the end.  `SayMode` is how
`say.c` finds out from the descriptors whether it talks to a terminal.

### MC modules and proof modules

`MCSudodevd`, `MCLockFile` and `MCSudodev` name the model values, relations and
symmetry of the runs.  `MCParts` checks the five modules that share no state in
one run: the variable `part` says which of them a behaviour is about, the others
stay as they are.  The theorems are in `SudodevdProofs` (Sudodevd and Gate),
`LockFileProofs`, `SudodevProofs`, `StartProofs` (Setup and Daemonize),
`LinesProofs`, `MergeSortProofs` and `DevsProofs`; `Induction` holds the lemmas on
natural numbers and recursive functions that the last three rest on.

## 3. The runs

| cfg | module | shows |
|---|---|---|
| `Daemon` | MCSudodevd | `TypeOK`; the mutex is held where it must be and by nobody else (`MutexInv`); no reload is lost (`ConfigFresh`); a rule on disk is one the daemon remembers (`NoForgottenRule`); failures are tried again (`FailureRetried`); the rule changes only as the pass decided (`RuleFollowsDecision`); all of it does only what Gate allows (`ImplementsGate`) |
| `DaemonFaults` | MCSudodevd | whatever else fails: no freed pointer is followed by the loop (`NoStalePointer`), the decision is right with repeats in the profile (`DecisionSound`), a stop that gets to `exit(0)` leaves no file (`CleanExit`) |
| `DaemonLive` | MCSudodevd | the rule comes and goes with the device; a handler returns, and SIGTERM ends the process, except in the deadlock that `ReloadLocks` shows |
| `Instances` | MCLockFile | without overlap, crashes included: one daemon, its pid in the file, its rule not removed by another one, no rule without an instance |
| `OneClient` | MCSudodev | one client that may be killed or fail to write: what it reported as added is in the profile but for the lines it had emptied the file of and did not write (`PromiseKept`, `lost`); what it reported as deleted stays deleted (`DeletedStaysGone`) |
| `TwoClients` | MCSudodev | however two clients interleave, the daemon ends up with the profile |
| `Parts` | MCParts | the new group's id is free (`GroupIdFree`) and added once (`GroupOnce`), and a daemon in its loop is set up (`Prepared`); lists end with NULL for exactly the stated lengths (`ListEnds`), and no line is lost (`SplitWhole`); local disks are hidden (`LocalHidden`) and others are not (`RemovableListed`); `SortedWhole`, `NeighboursDecide`; `Detached` |
| `ReloadLocks` | MCSudodevd | **violated**: SIGHUP in the critical section deadlocks the process with itself |
| `StaleRule` | MCSudodevd | **violated**: `exit(1)` in the loop leaves the rule, and the restarted daemon does not remove it |
| `TwoDaemons` | MCLockFile | **violated**: three overlapping starts and stops give two daemons |
| `SubstringMatch` | MCSudodev | **violated**: a UUID that occurs in another line is not added, and its deletion deletes the other |
| `DeletedReturns` | MCSudodev | **violated**: a deleted device comes back through another client's update |

The violated runs state what a comment, a message or the README says; the
findings in `PROJECT.json` quote it.

### Bounds, and why they are enough

* *Sudodevd.* Two names: one removable device and one local disk, so that the
  directory is normally not empty, `devs()` filters something, and the loop
  merges two lists that may or may not meet.  More devices add nothing to tell
  apart: the decision is an existential over them, and the proofs hold for any
  set.  `MaxCopies = 2` is the smallest bound with repeats in the profile;
  `DaemonLive` uses 1 to keep its graph small.  Signals are two bits, as for the
  kernel.
* *LockFile.* Three instances are needed for two daemons (one stops, one holds
  the old inode, one creates the new one); one inode more than instances, so
  that `open` finds a fresh one.  Symmetry is used in runs without liveness.
* *Sudodev.* Two clients interleave in every way two can; two or three UUIDs,
  one of which contains another.
* *Parts.* Sizes are scaled down so that the limits are reached.  `First = 1` and
  ids to 3 give gaps at the start, in the middle and none; `Size = 4` lets four
  users' groups overrun the array.  `Chunk = 4` with `Ptr = 2` and nine inputs
  gives both doublings, lists that fill the array exactly, and lists beyond what
  `memset` cleared.  Two links suffice for one target read over another; the six
  names have a longer one, a common prefix, a disk without a number and two nvme
  disks.  Four lines over three items give odd and even halves with repeats.
  `Ceilings` has a limit below the three descriptors and one above.

### Fairness

Assumed of the thread and the kernel only: the frame on top moves if it can
(`WF` of start-up and loop, of each handler), and a deliverable signal is
delivered.  Nothing is assumed of devices, clients, the init system or
failures.  A frame that waits for a mutex that is never released has no step to
be fair to.  `EventuallyGranted` and `EventuallyRevoked` ask for a daemon that
is left alone from some point on (`Undisturbed`), with a device that stays (or
stays away): with plugging for ever the file need never settle.
`TermQuitsOrLocked` assumes that reloads stop coming, for each of them may
interrupt the handler of SIGTERM once more.

## 4. What is proved

All for any constants that satisfy the named assumptions in the modules.

**SudodevdProofs.**  `Base` is the inductive core: `TypeOK`, `MutexInv`, and
`FrameInv`, which ties the stack together (a handler is on top, or `main()` if
there is none; no handler exists before it is bound).  Without `FrameInv` the
mutex invariant is not inductive: `main()` could take or give back the mutex
under a handler that holds it.  On top of it:

| theorem | property | strengthening | assumes of `Faults` |
|---|---|---|---|
| `Typed`, `MutualExclusion` | `TypeOK`, `MutexInv` | `Base` | nothing |
| `PointersValid`, `DecisionsSound` | `NoStalePointer`, `DecisionSound` | `DecisionInv`: while no handler is on the stack, what the pass has read and decided is right; a handler over the critical section never lets it go on | nothing |
| `ReloadsKept` | `ConfigFresh` | `FreshInv`: what each step of the handler has read so far, and that a client that wrote still has to send | no `read` |
| `CleanExits` | `CleanExit` | `StopInv`: which files are gone at each step of the handler | no `unlink` |
| `RulesKnown`, `RulesFollowDecisions` | `NoForgottenRule`, `RuleFollowsDecision` | `RuleInv`: `conf` and `working` at each step of the loop | `Tidy` |
| `FailuresRetried` | `FailureRetried` | `StatusInv` | `Tidy`, no `flush` |

`Tidy` excludes `crash`, `opendir`, `unlink` and `free`, and asks for a local disk,
so that the device directory exists: outside it the properties are false, as
`StaleRule` shows for `opendir`; with `free`, TLC finds `NoForgottenRule` violated by
SIGTERM in the first step of a pass (`DeliverTerm`, `TermDestroy`, `FreedTwice`) while
the rule is there.  So what is said of the rule (`NoForgottenRule`,
`FailureRetried`, `RuleFollowsDecision`, and Gate) is said of a daemon that no signal
interrupts inside `destoryList()`; `TypeOK`, `MutexInv`, `NoStalePointer`,
`DecisionSound`, `ConfigFresh` and `CleanExit` hold with such signals as well, the
last because an aborted daemon did not exit cleanly.

The argument of `PointersValid` deserves a word, because the code looks wrong:
`sighupHandler` frees `sudodevs` before it takes the lock.  It is the deadlock
that saves the pointers: if the handler interrupts the critical section it
blocks in the next step, so the loop never gets to follow them.  A repair of one
must repair the other: making the mutex recursive, or trying it, breaks
`NoStalePointer` (that is the mutant `HupTryLock`).

`DaemonImplementsGate`: under `Tidy`, every step of Sudodevd is
the step of Gate its case names, or leaves the mapped variables alone
(`Stutter`).  It needs `RuleInv` (the loop opens only what is closed, and no
daemon ends with the rule there), `DecisionInv` (what a pass computes is what Gate
computes from `seen` and `known`), and `OffInv`: a process that does not exist has
no signal pending and no memory.

**LockFileProofs.**  `SerialInv` (the lock of the inode one has open, the
stopping instance is alone, the open inode is the one named) gives
`SerialOneDaemon`, `SerialPidNamesDaemon` and `SerialRuleKept` if starts and
stops do not overlap.  `RuleHasOwner` needs no such assumption: the last instance
to remove the rule does so after every write; `InstancesTyped` is the types alone.

**SudodevProofs.**  `DaemonFollowsProfile` is for any number of clients
(`FollowInv`: a change is on its way as long as a client still has to write or
to reload) that are not killed.  `DeletionFinal` and `AdditionStays` are for one
client at a time, `AdditionStays` also for names that do not contain one another
and a profile that can be opened (`Plain`); the runs `DeletedReturns` and
`SubstringMatch` show that one client and such names are needed.  Neither
assumes that writes succeed or that clients live: the invariant of `AdditionStays`
(`PromiseInv`) is that a client between reading and writing has in memory every
promised line that is not `lost`, so that what a failure takes from the file is what
it adds to `lost`.  `DoneIsTrue` adds that `lost` stays empty without `kill`, `short`
and `flush`, which makes "done" true.

`DaemonFollowsProfile` also excludes `short`: a client that failed half-way leaves
a profile that nobody reloads.

**StartProofs.**  For any ids, sizes, junk and failures: `SetupTyped`,
`PreparedAlways` (`StepInv`: from `findRule` on the group is there, unless a mishap
is recorded), `GroupAddedOnce` and `GroupIdIsFree`.  The last goes by the cases of
`Maxima`; in each the id after the maximum is in no line, because the sorted
sequence holds every collected id (`SortedComplete`) and the ids behind a gap are
larger still.

`DaemonDetached`: after each call of `daemonize()`, what it is for was achieved or
the error is recorded; the process goes on only without an error.

**Induction.**  The prover cannot instantiate the library's induction theorems,
which take an operator.  These lemmas take sets and functions instead, and rest on
`LeastElement` (a set of natural numbers that is not empty has a least one):
`SetInduction` (a set with 0 and each successor has all), and
`IteratedFunction` and `RecursiveFunction`, which say that a function defined by
steps, or by a rank that goes down with each call, is one that satisfies its own
definition.  Nothing is assumed for them.

**LinesProofs.**  For all sizes of the first allocation and of a pointer, with
`Ptr <= Chunk`.  `Filled`, the part of `LinesIInv` about the loop: the items fill the
front of the array, whose length is one of the sizes `Doubled`, at least half of it
is in use once it has been doubled, and what lies behind the items is NULL up to
`Known` and junk from there on.  `ShortListsEnd` follows, with no store outside the
array, and so does the exact `ListsEndExactly`: that a list of a length `Doubled[k]`
fills the array needs that the sizes are all different, by induction.
`FileSplitWhole` has the invariant that the lines stored so far, each with its
newline, are the file up to where the next one begins (`Splitting`).

**MergeSortProofs.**  `ListIsSorted` and `NeighboursAreDevices`, for lists of
any length.  The loop of `merge()` has the invariant (`Kept`, `Sorted`) that
what was copied is in order, is not above what is left, and has each item as
often as the parts have it up to where they were read; `Msort` is by induction
on the length, `Distinct` on the number of lines looked at (`DistinctGood`: what
is kept rises strictly and holds what the sorted lines hold).  Two equal
neighbours then come from the two lists, one from each, because neither repeats
an item.

**DevsProofs.**  Two invariants on top of the types and of `CallInv` (when the list
is there, and what the buffer begins with).

* `LocalDisksHidden`: `HiddenInv` says that each device that a line read so far
  names is found in an entry of the list.  That the tail of an earlier target does no harm
  is `PatternBefore`; `DeviceInEntry` shows that an entry that a later one overwrites, its
  link unreadable, names no device.  It assumes `NamedAlike`, names of one disk are alike up to
  the first digit; a mapped device (`dm-0` on `sda2`) is outside that, for the code
  does not follow it to its disk.
* `OthersListed`: `ListedInv` says that an entry is what its line says, or a target with
  the rest of earlier ones, and that each link still there has been returned,
  was found local because of a line, or is still to come.  It assumes `NamedApart`:
  no name has another one's first piece behind its own, and none begins
  what another one has before its number (a disk `sdb` without partitions
  beside `sdba1`): otherwise a name may be found across the end of a
  target and the rest behind it.

Both assumptions hold of the names in the run `Parts`.

**Only model-checked:** the liveness properties of `DaemonLive` (temporal reasoning
under fairness is beyond the prover), and every statement with failures excluded
above.  Every invariant and every action property of a passing run is stated by a
theorem.

## 5. Not modelled, and why

* *Text.*  Messages (`say.c`, `color.h`, `assert.h`), the format of lines, the
  strings that the client shows for a device, its dialogue and its options: no
  property is about them.  Where a message goes is `SayMode`; that logging
  allocates in a handler is the fault `heap` of Sudodevd.
* *`profileMode()`* creates an empty profile if there is none and repairs its
  permissions: to Sudodev a missing profile is an empty one.
* *The multithreaded variant* (`MULTITHREAD_DAEMON`) is not compiled.
* *The static mutexes* of `devs()` are taken by one thread only, and destroyed
  while free.
* *An empty line in the profile* (`profileOverwrite()` looks at the byte before an
  empty string): what that byte is depends on the heap.
* *Build and installation scripts* and packaging: no state of the program.  The
  init scripts appear by the signals they send and by `Overlap`.

Left for later: `Fits` as a part of `GroupIdFree` could be made exact, as
`ListEnds` is; a composition of Sudodevd with Sudodev, whose common state is the
profile and SIGHUP, would replace the client steps of the one and the daemon step
of the other (`DaemonLoad`), which now stand for each other's summary.
