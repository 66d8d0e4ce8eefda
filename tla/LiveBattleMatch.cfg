\* A clock that wraps after 8 ticks and starts at 7, searches of one round, one
\* failed call.
CONSTANTS
  Wrap = 8
  Timeout = 1
  BootTicks = {7}
  MaxFailed = 1
SPECIFICATION LiveSpec
INVARIANTS LinkLeadsToPeer NothingMissed SearchLastsTimeout SearchIsMutual
PROPERTIES SearchEnds VerdictArrives RoundIsDialed
\* A draw is final, and a search that found nothing is over.
CHECK_DEADLOCK FALSE
