SPECIFICATION Spec
CONSTANTS
  p = p
  q = q
  g = g
  t1 = t1
  t2 = t2
  Sources <- MCSources
  Manual = Manual
  Legacy = Legacy
  NoSource = NoSource
  Tariffs <- MCTariffs
  TariffOf <- MCTariffOf
  Grants <- MCRegrants
  Revokes <- MCSingleRevoke
  TariffRevokes <- MCTariffRevoke
  Resets <- MCReset
  Accounts <- MCAccounts
  Monthly = TRUE
  MaxClock = 2
  MaxUsed = 1
  MaxLimit = 2
  MaxEdits = 1
  MaxFailures = 1
INVARIANTS RevokedForGood AccessFollowsLedger BlockedIsOff
PROPERTY KeepsContract
