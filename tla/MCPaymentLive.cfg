SPECIFICATION FairSpec
CONSTANTS
  h1 = h1
  p1 = p1
  r1 = r1
  t1 = t1
  t2 = t2
  Hooks <- MCNone
  Pollers <- MCPollers
  Reconcilers <- MCReconcilers
  Targets <- MCTargets
  Renewed <- MCNone
  Price = 2
  MaxFaults = 1
  MaxBlocks = 1
  NoOwner = NoOwner
  NoTarget = NoTarget
PROPERTIES PaidIsDelivered ReturnedIsRevoked
CHECK_DEADLOCK FALSE
