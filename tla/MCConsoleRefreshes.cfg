SPECIFICATION FairSpec
CONSTANTS
  t1 = t1
  t2 = t2
  Trades = {t1, t2}
  ValueDate <- MCValueDate
  Endpoints <- MCEndpoints
  Buttons <- MCButtons
  MaxCommands = 0
  BasePollingDelay = 5
  MaximumPollingDelay = 60
  MaximumExponent = 1
INVARIANTS
  PollingNeverStalls
  SnapshotIsCoherent
  RefreshingMeansRunning
PROPERTIES
  DashboardMovesForward
  CatchesUp
