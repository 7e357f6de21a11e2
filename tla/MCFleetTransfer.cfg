SPECIFICATION FairSpec
CONSTANTS
  a = a
  b = b
  c = c
  p = p
  q = q
  Hosts <- MCThree
  First = a
  Polls <- MCOnePoll
  Askers = {a}
  MaxEdits = 0
  Undo = FALSE
  MaxLinks = 1
  MaxKeys = 1
  MaxActs = 3
  MaxFaults = 1
PROPERTIES OneClaim TransferEnds VerdictsArrive
CHECK_DEADLOCK FALSE
