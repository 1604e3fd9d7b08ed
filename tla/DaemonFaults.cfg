SPECIFICATION Spec
CONSTANTS
  UUID = {a, disk0}
  Local = {disk0}
  MaxCopies = 2
  Faults = {"crash", "opendir", "read", "write", "flush", "free"}
  a = a
  disk0 = disk0
INVARIANTS
  NoStalePointer
  DecisionSound
  CleanExit
