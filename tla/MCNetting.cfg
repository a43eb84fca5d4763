SPECIFICATION Spec
CONSTANTS
  TradeIds = {t1}
  t1 = t1
  c1 = c1
  n1 = n1
  b1 = b1
  usd = usd
  jpy = jpy
  Counterparties = {c1}
  NettingSets = {n1}
  Books = {b1}
  Currencies = {usd, jpy}
  Dates = {1}
  MaxMinor = 4
  MaxTradeVersion = 1
  MaxTrades = 5
  SettledTerms <- MCSettledTerms
  SettledPath <- MCPath
  AnyTrade = t1
CHECK_DEADLOCK FALSE
INVARIANTS
  ObligationsAreExact
  OverflowOnlyOfFinalNet
