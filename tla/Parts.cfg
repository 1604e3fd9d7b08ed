SPECIFICATION MCSpec
CONSTANTS
  First = 1
  Size = 4
  MaxId = 3
  MaxLines = 4
  Junk = {0, 9}
  SetupFaults = {"crash", "read", "open", "flush"}
  Chunk = 4
  Ptr = 2
  MaxInput = 9
  FileState = {"missing", "unreadable", "readable"}
  DevUUID <- MCDevUUID
  DevName <- MCDevName
  DiskOf <- MCDiskOf
  LabelOf <- MCLabelOf
  Digit <- MCDigit
  FstabText <- MCFstabText
  MaxFstab = 2
  Item = {1, 2, 3}
  MaxLength = 4
  MaxFd = 4
  Ceilings = {2, 4}
  CallFaults = {"fork", "setsid", "sigaction", "chdir", "getrlimit", "open"}
INVARIANTS SetupTypeOK Prepared ListEnds SplitWhole LocalHidden RemovableListed SortedWhole NeighboursDecide Detached
PROPERTIES GroupIdFree GroupOnce
CHECK_DEADLOCK FALSE
