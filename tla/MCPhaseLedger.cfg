SPECIFICATION FairSpec
CONSTANTS
  Procs = {p1, p2, p3}
  NPhases = 2
  OpCount <- TwoEach
  MaxFaults = 2
  None = None
INVARIANTS
  EffectsInOrder
PROPERTIES
  ImplementsOrderedEffects
  FlightSettles
CHECK_DEADLOCK FALSE
