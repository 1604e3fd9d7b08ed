SPECIFICATION Spec
CONSTANTS
  c = c
  d = d
  short = short
  long = long
  other = other
  Client = {c}
  UUID = {short, long, other}
  Matches <- Exact
  Hex = {short, long, other}
  MaxCopies = 1
  Faults = {"kill", "flush", "short"}
INVARIANTS
  TypeOK
  PromiseKept
  DeletedStaysGone
