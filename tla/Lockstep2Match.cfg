\* More copies of frame 0 may be lost than it tolerates: consoles do get stuck,
\* and safety is seen not to depend on delivery.
CONSTANTS
  Inputs = {0, 1}
  Neutral = 0
  Delay = 1
  MaxFrames = 2
  MaxLoss <- LossPromised
SPECIFICATION FairSpec
INVARIANTS Agreement LossTolerance
PROPERTIES KnownInputStable ImplementsLockstep MatchCompletes
\* A match ends, or is stuck.
CHECK_DEADLOCK FALSE
