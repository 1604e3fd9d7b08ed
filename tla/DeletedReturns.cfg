SPECIFICATION Spec
CONSTANTS
  c = c
  d = d
  short = short
  long = long
  other = other
  Client = {c, d}
  UUID = {short, long}
  Matches <- Exact
  Hex = {short, long}
  MaxCopies = 2
  Faults = {}
INVARIANTS
  DeletedStaysGone
