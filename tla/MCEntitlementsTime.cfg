SPECIFICATION FairSpec
CONSTANTS
  p = p
  q = q
  g = g
  t1 = t1
  t2 = t2
  Sources <- MCSources
  Manual = Manual
  Legacy = Legacy
  NoSource = NoSource
  Tariffs <- MCTariffs
  TariffOf <- MCTariffOf
  Grants <- MCPurchases
  Revokes <- MCRefunds
  TariffRevokes <- MCPurchaseRevoke
  Resets <- MCNone
  Accounts <- MCNone
  Monthly = FALSE
  MaxClock = 4
  MaxUsed = 1
  MaxLimit = 2
  MaxEdits = 0
  MaxFailures = 1
PROPERTIES NoFreeTime NoFreeReset ExpiredIsCut
