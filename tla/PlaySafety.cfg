\* Two runs of three frames, one undefined input bit, a catalog with more entries than
\* the table holds.
CONSTANTS
  FrameCount = 3
  RawInputs = {0, 1, 2}
  InMask = 2
  EntryLen = 3
  FirstCap = 3
  MaxRuns = 2
  Ids <- MCIds
  Defs <- MCDefs
  AchMax = 2
  Trigger <- MCTrigger
  Cumulative = {"first", "late"}
SPECIFICATION PlaySpec
INVARIANTS PlayTypeOK RecordedReplays HonestRunNotRefused ToastedOnce UnlocksAreShown LiveToastsAreGranted
PROPERTIES EarnedStaysSilent
\* The server issues two runs; the launch ends in the menu.
CHECK_DEADLOCK FALSE
