SPECIFICATION Spec
ACTION_CONSTRAINT Steady
CONSTANTS
  a = a
  b = b
  c = c
  p = p
  q = q
  Hosts <- MCHosts
  First = a
  Polls <- MCPolls
  MaxEdits = 2
  Askers = {}
  Undo = TRUE
  MaxLinks = 1
  MaxKeys = 0
  MaxActs = 3
  MaxFaults = 0
INVARIANT MirrorIsReal
PROPERTY MirrorOnlyForward
SYMMETRY Same
CHECK_DEADLOCK FALSE
