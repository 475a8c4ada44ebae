SPECIFICATION FairSpec
CONSTANTS
  s1 = s1
  s2 = s2
  None = None
  Session <- MCSession
  Key <- MCKey
  keyOf <- MCKeyOf
  PoolSize = 2
  StartMayFail = TRUE
INVARIANTS TornDownIsQuiet
PROPERTIES EndsOnce LostIsRemoved
CHECK_DEADLOCK FALSE
