SPECIFICATION FairSpec
CONSTANTS
  r1 = r1
  r2 = r2
  r3 = r3
  Requests = {r1, r2, r3}
  Streams = {r3}
  Cap = 2
  Estimate = 1
  Costs = {0, 1, 2}
  MaxDollars = 3
  BatchingModes = {TRUE, FALSE}
  Timer = Timer
INVARIANTS  CapHoldsBuffered
PROPERTY ChargesLand
CHECK_DEADLOCK FALSE
