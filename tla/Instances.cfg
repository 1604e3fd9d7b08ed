SPECIFICATION Spec
CONSTANTS
  p = p
  q = q
  r = r
  i1 = i1
  i2 = i2
  i3 = i3
  i4 = i4
  Proc = {p, q, r}
  Inode = {i1, i2, i3, i4}
  None = None
  Overlap = FALSE
SYMMETRY Symmetry
INVARIANTS
  TypeOK
  OneDaemon
  PidNamesDaemon
  RuleOfTheRunning
  NoRuleLeft
