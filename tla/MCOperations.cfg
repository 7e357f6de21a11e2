\* One request after another and the retry job; one target, two revisions of
\* the grant, one revocation, one state of the account, one fault.
SPECIFICATION FairSpec
CONSTANTS
  a = a
  b = b
  j = j
  t1 = t1
  t2 = t2
  Handlers <- MCOneHandler
  Jobs <- MCJobs
  Targets <- MCOneTarget
  MaxRevision = 2
  MaxRevocations = 1
  MaxStates = 1
  MaxFaults = 1
  Nobody = Nobody
INVARIANTS SuccessIsEverywhere AccountAsDecided
PROPERTIES EveryOperationEnds NodesKeepContract
