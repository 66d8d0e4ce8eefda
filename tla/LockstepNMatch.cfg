\* Three consoles; an aggregate may be lost, and guests do get stuck.
CONSTANTS
  N = 3
  Inputs = {0, 1}
  Neutral = 0
  Delay = 0
  MaxFrames = 2
  MaxInputLoss = 1
  MaxAggLoss = 1
SPECIFICATION FairSpec
INVARIANTS Agreement InputAcknowledged RelayedBeforePassed
PROPERTIES ImplementsLockstep MatchCompletes
\* A match ends, or is stuck.
CHECK_DEADLOCK FALSE
