\* Two polls may overlap, with any setting; every kind of change, and a fault.
CONSTANTS
  ev = ev
  cal = cal
  r1 = r1
  r2 = r2
  Events = {ev}
  Calendars = {cal}
  CalendarOf <- MCCalendarOf
  Starts = {1}
  NoStart = NoStart
  Reminders = {r1, r2}
  EventOf <- MCEventOf
  LeadOf <- MCLeadOf
  Snoozes = {1}
  Ticks = {t1, t2}
  SettingsValues <- DialogOrNone
  HistoryLimit = 1
  MaxTime = 1
  MaxRowId = 3
  Limit <- Limit111
SPECIFICATION FairSpec
INVARIANTS
  TypeOK
  DialogShowsOnlyActive
  NoSilentReminder
PROPERTIES
  OverdueGetsFired
  ActiveGetsShown
