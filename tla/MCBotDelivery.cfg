SPECIFICATION FairSpec
CONSTANTS
  e1 = e1
  e2 = e2
  w1 = w1
  w2 = w2
  Events <- MCEvents
  Remote <- MCOneEvent
  Warnings <- MCEvents
  Workers <- MCWorkers
  QueueSize = 1
  MaxFaults = 1
  NoWorker = NoWorker
  NoEvent = NoEvent
INVARIANTS RepeatsAreFaults OneWarning
PROPERTIES NeverReopened EveryEventEnds
