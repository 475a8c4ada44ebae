SPECIFICATION FairSpec
CONSTANTS
  c1 = c1
  c2 = c2
  None = None
  Channel <- OneChannel
  MaxWrites = 3
INVARIANTS TornDownIsQuiet
PROPERTIES ClosedIsGone
CHECK_DEADLOCK FALSE
