SPECIFICATION Spec
CONSTANTS
  c = c
  d = d
  short = short
  long = long
  other = other
  Client = {c, d}
  UUID = {short, long, other}
  Matches <- Substring
  Hex = {short, long}
  MaxCopies = 1
  Faults = {"open", "flush"}
INVARIANTS
  DaemonFollows
