SPECIFICATION Spec
CONSTANTS
  TradeIds = {t1, t2}
  c1 = c1
  n1 = n1
  n2 = n2
  b1 = b1
  usd = usd
  jpy = jpy
  Counterparties = {c1}
  NettingSets = {n1, n2}
  Books = {b1}
  Currencies = {usd, jpy}
  Dates = {1, 2}
  MaxMinor = 4
  MaxTradeVersion = 2
  MaxStateVersion = 6
  NoPosting = NoPosting
  Blocks = {k1, k2, k3, k4}
  PostingIds <- MCPostingIds
  Capacity <- MCCapacity
  ClientPaths <- MCPaths
  ClientTerms <- MCTerms
  ClientIds <- MCIds
SYMMETRY BlockSymmetry
CHECK_DEADLOCK FALSE
INVARIANTS
  TypeOK
  VersionChain
  ReservedIsConfirmedPay
  EvaluatorChecksPass
  PostingIdsAreUnique
  ConfirmationsAreIndexed
  ReversedExactlyOnce
  LedgerMirrorsBlotter
  SettlementsAreNets
  ConfirmedTradesAreNeverStranded
PROPERTIES
  HistoryIsKept
