SPECIFICATION Spec
CONSTANTS
  DayLen = 8
  Now <- Thursday23
  Dates <- TwoDays
  Quarter = 2
  FineSnaps = {1}
  Clocks <- FourClocks
  GoogleEvents <- SomeEvents
  HalfHour = 4
  DefaultDuration = 2
  RoundTo = 2
  DefaultReminder = 5
  NewReminder = 1
  Units <- MinuteHourDay
  SpinMax = 4
  MaxReminders = 2
  PickDates <- ThreeDays
  PickTimes = {0, 2, 7}
  Pointers = {0, 3, 8}
  Offsets <- SomeOffsets
  CustomChoices <- TwoChoices
  MaxEdits = 2
  None = None
INVARIANTS
  TypeOK
  ReopenKeeps
PROPERTIES
  DragFits
