SPECIFICATION Spec
CONSTANTS
  c1 = c1
  n1 = n1
  b1 = b1
  t1 = t1
  t2 = t2
  usd = usd
  jpy = jpy
  book1 = book1
  book2 = book2
  confirm1 = confirm1
  confirm2 = confirm2
  TradeIds = {t1, t2}
  Counterparties = {c1}
  NettingSets = {n1}
  Books = {b1}
  Currencies = {usd, jpy}
  Dates = {1}
  MaxMinor = 3
  MaxTradeVersion = 2
  MaxStateVersion = 4
  NoPosting = NoPosting
  PostingIds <- MCPostingIds
  Capacity <- MCCapacity
  Threads = {h1, h2}
  Envelopes <- MCRace
SYMMETRY ThreadSymmetry
INVARIANTS
  PublishedIsCommitted
PROPERTIES
  ReadsMoveForward
  ImplementsDomain
