\* One lost aggregate, with a delay of one frame.
CONSTANTS
  N = 2
  Inputs = {0, 1}
  Neutral = 0
  Delay = 1
  MaxFrames = 2
  MaxInputLoss = 0
  MaxAggLoss = 1
SPECIFICATION Spec
INVARIANTS AggregatesAreRedundant
\* A match ends, or is stuck.
CHECK_DEADLOCK FALSE
