SPECIFICATION Spec
CONSTANTS
  h1 = h1
  p1 = p1
  r1 = r1
  t1 = t1
  t2 = t2
  Hooks <- MCHooks
  Pollers <- MCPollers
  Reconcilers <- MCNone
  Targets <- MCTargets
  Renewed <- MCOneTarget
  Price = 2
  MaxFaults = 2
  MaxBlocks = 1
  NoOwner = NoOwner
  NoTarget = NoTarget
INVARIANTS NeverStranded RefundRevokes SuccessDelivers
PROPERTY KeepsPromise
CHECK_DEADLOCK FALSE
