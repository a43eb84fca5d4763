SPECIFICATION ForeignHttpSpec
CONSTANTS
  c1 = c1
  n1 = n1
  b1 = b1
  t1 = t1
  usd = usd
  jpy = jpy
  book1 = book1
  confirm1 = confirm1
  amend1 = amend1
  eod1 = eod1
  TradeIds = {t1}
  Counterparties = {c1}
  NettingSets = {n1}
  Books = {b1}
  Currencies = {usd, jpy}
  Dates = {1}
  MaxMinor = 4
  MaxTradeVersion = 2
  MaxStateVersion = 3
  NoPosting = NoPosting
  PostingIds <- MCPostingIds
  Capacity <- MCCapacity
  Threads = {h1, h2}
  Envelopes <- MCEnvelopes
  Bad = Bad
  TooLarge = TooLarge
  Malformed = Malformed
  Requests <- MCRequests
  Journals <- MCJournals
INVARIANTS
  AcceptanceIsExact
PROPERTIES
  AcceptedIsTrusted
  NoRequestIsForgotten
