\* Two passes over one calendar with two events, so that a listing may take two
\* pages, a clear among them, while one of the events changes at Google.
SPECIFICATION FairSpec
CONSTANTS
  a1 = a1
  a2 = a2
  c1 = c1
  c2 = c2
  e1 = e1
  e2 = e2
  Accounts = {a1}
  Calendars = {c1}
  NoCalendar = NoCalendar
  AccountOf <- SingleCalendar
  Events = {e1, e2}
  HomeOf <- InFirst
  Passes = {"p1", "p2"}
  Kinds = {"sync", "clear"}
  MaxVersion = 2
  MaxRow = 1
  Limit <- Limit100
INVARIANTS TypeOK TokenCoversLive CancellationsApplied
PROPERTIES PassEnds
