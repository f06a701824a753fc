\* An edit of an all-day event, undone.
SPECIFICATION Spec
CHECK_DEADLOCK FALSE
CONSTANTS
  A = A
  B = B
  Calendars = {A, B}
  Gids = {"g1"}
  Local = Local
  EmptyTitle = EmptyTitle
  NoTitle = NoTitle
  Contents <- AllDayToo
  ReminderLists <- Lists
  NoEvent = NoEvent
  Unknown = Unknown
  Closed = Closed
  MaxEvent = 2
  MaxLog = 4
  Limit <- Limit1000
  Total = 1
PROPERTIES UndoRestores
