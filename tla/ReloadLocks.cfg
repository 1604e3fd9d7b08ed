SPECIFICATION FairSpec
CONSTANTS
  UUID = {a, disk0}
  Local = {disk0}
  MaxCopies = 1
  Faults = {}
  a = a
  disk0 = disk0
PROPERTIES
  HupReturns
