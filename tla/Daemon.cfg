SPECIFICATION Spec
CONSTANTS
  UUID = {a, disk0}
  Local = {disk0}
  MaxCopies = 2
  Faults = {"setup", "write", "heap"}
  a = a
  disk0 = disk0
INVARIANTS
  TypeOK
  MutexInv
  ConfigFresh
  NoForgottenRule
  FailureRetried
PROPERTIES
  RuleFollowsDecision
  ImplementsGate
