SPECIFICATION DemoSpec
CONSTANTS
  main = main
  TradeIds = {"TRD-1001", "TRD-1002", "TRD-1003"}
  Counterparties = {"CPTY-A", "CPTY-B"}
  NettingSets = {"NET-A", "NET-B"}
  Books = {"BOOK-FX-1", "BOOK-FX-2"}
  Currencies = {"USD", "JPY", "KWD"}
  Dates = {27, 29}
  MaxMinor = 100000000
  MaxTradeVersion = 3
  MaxStateVersion = 20
  NoPosting = NoPosting
  PostingIds <- DemoPostingIds
  Capacity <- DemoCapacity
  Threads = {main, web}
  Envelopes <- MCSeed
INVARIANTS
  DemoStartsCanonical
