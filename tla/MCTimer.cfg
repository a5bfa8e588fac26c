SPECIFICATION Spec
CONSTANTS
  p1 = p1
  n1 = n1
  Players = {p1}
  Npcs = {n1}
  NumSlots = 4
  Delays <- MCDelays
  Steps <- MCSteps
  QueueDelay = 1
  Stretch = 2
  Interval = 2
  MaxAhead = 4
  Late = 1
  Hour = 4
  Cycle = 24
INVARIANTS SlotPartition PlayerTimerValid DueTimersFired
VIEW RelativeTicks
PROPERTIES ImplementsTimerSpec
