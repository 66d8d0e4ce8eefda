\* Two matches of one frame; nothing is lost.
CONSTANTS
  Inputs = {0, 1}
  Neutral = 0
  Delay = 0
  MaxFrames = 1
  MaxLoss <- LossNone
  Matches = 2
SPECIFICATION RSpec
INVARIANTS AgreementInEveryMatch
\* The last match ends.
CHECK_DEADLOCK FALSE
