\* Two handshakes and the match they prime; more may be lost than is covered.
CONSTANTS
  Inputs = {0}
  Neutral = 0
  Delay = 1
  MaxFrames = 2
  MaxLoss <- LossPromised
SPECIFICATION HFairSpec
INVARIANTS LossTolerance
PROPERTIES MatchCompletes
\* A match ends, or is stuck.
CHECK_DEADLOCK FALSE
