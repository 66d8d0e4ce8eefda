\* Whatever the handshakes return, the match is linked and played to its end.
CONSTANTS
  N = 3
  Inputs = {0}
  Neutral = 0
  Delay = 1
  MaxFrames = 1
  MaxInputLoss = 1
  MaxAggLoss = 0
SPECIFICATION HFairSpec
PROPERTIES MatchCompletes
\* A match ends.
CHECK_DEADLOCK FALSE
