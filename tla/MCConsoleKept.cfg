SPECIFICATION Spec
CONSTANTS
  t1 = t1
  t2 = t2
  Trades = {t1, t2}
  ValueDate <- MCValueDate
  Endpoints <- MCEndpoints
  Buttons = {}
  MaxCommands = 2
  BasePollingDelay = 5
  MaximumPollingDelay = 60
  MaximumExponent = 0
SYMMETRY TradeSymmetry
INVARIANTS
  AcknowledgedEodSettles
