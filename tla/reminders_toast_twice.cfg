\* A second poll starts while the first awaits a slow notification daemon.
CONSTANTS
  ev = ev
  cal = cal
  r1 = r1
  r2 = r2
  Events = {ev}
  Calendars = {cal}
  CalendarOf <- MCCalendarOf
  Starts = {1}
  NoStart = NoStart
  Reminders = {r1, r2}
  EventOf <- MCEventOf
  LeadOf <- MCLeadOf
  Snoozes = {1}
  Ticks = {t1, t2}
  SettingsValues <- BothSurfaces
  HistoryLimit = 1
  MaxTime = 1
  MaxRowId = 3
  Limit <- Limit000
SPECIFICATION Spec
PROPERTIES
  ToastAtMostOnce
