SPECIFICATION Spec
CONSTANTS
  x = x
  y = y
  Bytes = {x, y}
  Payloads <- MCPayloads
  MaximumPayload = 8
  MaxFrames = 2
  MaxDamage = 1
CHECK_DEADLOCK FALSE
INVARIANTS
  OnlyFinalFrameIsCut
