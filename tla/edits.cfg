\* Edits, moves, deletes and undos, with sync, a clear and a fault; nothing is left to do when
\* the budgets are spent and no event is there.
SPECIFICATION Spec
CHECK_DEADLOCK FALSE
CONSTANTS
  A = A
  B = B
  Calendars = {A, B}
  Gids = {"g1"}
  Local = Local
  EmptyTitle = EmptyTitle
  NoTitle = NoTitle
  Contents <- TwoBodies
  ReminderLists <- Lists
  NoEvent = NoEvent
  Unknown = Unknown
  Closed = Closed
  MaxEvent = 2
  MaxLog = 4
  Limit <- Limit2111
  Total = 4
SYMMETRY CalendarSymmetry
INVARIANTS TypeOK UndoReachesOrigin QueueEndsInRow DeletionsQueued
