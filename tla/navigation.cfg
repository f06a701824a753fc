\* Two clicks, a setting and a night, a window closed and opened again; a closed window with no
\* start left stays closed.
SPECIFICATION Spec
CHECK_DEADLOCK FALSE
CONSTANTS
  FirstToday <- Thursday22
  PickDays <- LeapDays
  PickMonths <- LeapMonths
  FirstDays = {1}
  Ranges = {7, 0}
  None = None
  MaxInbox = 2
  Limit <- Limit21121
INVARIANTS TypeOK CustomRange ScreenFollows ViewSurvives
PROPERTIES PickedDayIsShown PagesTile
