\* One pass at a time, with 410 answers, a clear, an edit, a fault and two versions.
SPECIFICATION SomeRowsSpec
CONSTANTS
  a1 = a1
  a2 = a2
  c1 = c1
  c2 = c2
  e1 = e1
  e2 = e2
  Accounts = {a1, a2}
  Calendars = {c1, c2}
  NoCalendar = NoCalendar
  AccountOf <- TwoAccounts
  Events = {e1, e2}
  HomeOf <- InFirst
  Passes = {"p1"}
  Kinds = {"sync", "clear"}
  MaxVersion = 2
  MaxRow = 4
  Limit <- Limit111
INVARIANTS TokenCoversLive CancellationsApplied NoForeignEvents
PROPERTIES MirrorsGoogle Converges
