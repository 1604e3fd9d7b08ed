SPECIFICATION Spec
CONSTANTS
  c = c
  d = d
  short = short
  long = long
  other = other
  Client = {c}
  UUID = {short, long}
  Matches <- Substring
  Hex = {short, long}
  MaxCopies = 1
  Faults = {}
INVARIANTS
  PromiseKept
