SPECIFICATION Spec
CHECK_DEADLOCK FALSE
CONSTANTS
  ZoneChoices <- Cities
  FormRows = {r1, r2}
  MinWidth = 1
  MaxWidth = 2
  MaxZones = 3
  MaxWindows = 2
  Limit <- LimitAll
  Total = 5
INVARIANTS TypeOK OnlyExcusedLost ZoneLands
PROPERTIES TextKept
