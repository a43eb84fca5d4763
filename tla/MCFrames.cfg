SPECIFICATION Spec
CONSTANTS
  x = x
  y = y
  Bytes = {x, y}
  Payloads <- MCPayloads
  MaximumPayload = 8
  MaxFrames = 3
  MaxDamage = 2
INVARIANTS
  OnlyWrittenIsRecovered
  OpenIsWhole
  ChecksummedDamageIsReported
  ScanIsTheStores
CHECK_DEADLOCK FALSE
