SPECIFICATION Spec
CONSTANTS
  s1 = s1
  s2 = s2
  Old = Old
  Sessions = {s1, s2}
  Scenarios <- MCScenarios
INVARIANTS
  SlotIsHeld
PROPERTIES
  StreamSafe
  Delivers
  SlotComes
CHECK_DEADLOCK FALSE
