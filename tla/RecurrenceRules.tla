--------------------------- MODULE RecurrenceRules ---------------------------
(***************************************************************************)
(* The repeat rules of the event editor: service-calendar/src/             *)
(* recurrence.rs and the two controls of app/src/main.rs that edit one.    *)
(* A stored RRULE is the record of its parts instead of their text: freq,  *)
(* interval (0 also for one that cannot be read), the tokens of BYDAY as   *)
(* <<ordinal, weekday>> with 0 for "no ordinal", the end (the last of COUNT*)
(* and UNTIL, "OnTime" if UNTIL has a time after its date) and whether     *)
(* there are parts the program does not know.                              *)
(***************************************************************************)
EXTENDS Gregorian, SequencesExt

NoRule == [freq |-> "NONE"]
NoOrdinal == <<0, 0>>
Never == <<"Never", 0>>

Frequencies == {"DAILY", "WEEKLY", "MONTHLY", "YEARLY"}

RuleEnds == {"Never", "AfterCount", "OnDate"} \X Int
StoredEnds == RuleEnds \cup ({"OnTime"} \X Int)

\* What a stored text may say, in words the program knows or not.
StoredRules ==
  {NoRule} \cup [freq : STRING, interval : Nat, tokens : Seq(Int \X (0..6)),
                 end : StoredEnds, unknown : BOOLEAN]

Recurrence(freq, interval, byDay, ordinal, end) ==
  [freq |-> freq, interval |-> interval, byDay |-> byDay, ordinal |-> ordinal, end |-> end]

\* The numbers of a set, the smallest first.
Nth(S, k) == CHOOSE x \in S : Cardinality({y \in S : y <= x}) = k
InOrder(S) == [k \in 1..Cardinality(S) |-> Nth(S, k)]

\* Recurrence::to_rrule_string.
ToRRule(r) ==
  IF r = NoRule THEN NoRule
  ELSE [freq |-> r.freq, interval |-> r.interval, end |-> r.end, unknown |-> FALSE,
        tokens |-> IF r.ordinal # NoOrdinal THEN <<r.ordinal>>
                   ELSE [i \in DOMAIN r.byDay |-> <<0, r.byDay[i]>>]]

IntervalRead(interval) == IF interval = 0 THEN 1 ELSE interval
EndRead(end) == IF end[1] = "OnTime" THEN <<"OnDate", end[2]>> ELSE end

\* Recurrence::from_rrule_string: a frequency the program does not know makes
\* it no rule at all, other unknown parts are skipped, of several ordinals the
\* last one stays, of UNTIL its date, and an interval is 1 or more.
FromRRule(s) ==
  IF s = NoRule \/ s.freq \notin Frequencies THEN NoRule
  ELSE LET plain == InOrder({i \in DOMAIN s.tokens : s.tokens[i][1] = 0})
           ordinals == {i \in DOMAIN s.tokens : s.tokens[i][1] # 0}
       IN Recurrence(s.freq, IntervalRead(s.interval), [k \in DOMAIN plain |-> s.tokens[plain[k]][2]],
                     IF ordinals = {} THEN NoOrdinal ELSE s.tokens[Latest(ordinals)],
                     EndRead(s.end))

\* monthly_ordinal_for: which Tuesday of its month a Tuesday is, -1 for the last.
MonthlyOrdinal(day) ==
  <<IF MonthOf(day + 7) # MonthOf(day) THEN -1 ELSE ((DayOfMonth(day) - 1) \div 7) + 1,
    Weekday(day)>>

\* The preset rows of the repeat button for an event that starts on a day.
Presets(start) ==
  {NoRule,
   Recurrence("DAILY", 1, <<>>, NoOrdinal, Never),
   Recurrence("WEEKLY", 1, <<Weekday(start)>>, NoOrdinal, Never),
   Recurrence("MONTHLY", 1, <<>>, MonthlyOrdinal(start), Never),
   Recurrence("YEARLY", 1, <<>>, NoOrdinal, Never),
   Recurrence("WEEKLY", 1, <<1, 2, 3, 4, 5>>, NoOrdinal, Never)}

\* The spin buttons of the custom dialog stop at 99 and at 999.
Capped(n, top) == IF n > top THEN top ELSE n

\* What show_custom_recurrence_dialog shows of a rule: the toggles of the days
\* are set from a weekly rule, or else from the start.
CustomShown(r, start) ==
  [freq |-> IF r = NoRule THEN "WEEKLY" ELSE r.freq,
   interval |-> IF r = NoRule THEN 1 ELSE Capped(r.interval, 99),
   days |-> IF r # NoRule /\ r.freq = "WEEKLY" /\ r.byDay # <<>>
            THEN Range(r.byDay) ELSE {Weekday(start)},
   end |-> IF r = NoRule THEN Never
           ELSE IF r.end[1] = "AfterCount" THEN <<"AfterCount", Capped(r.end[2], 999)>>
           ELSE r.end]

\* The rule its Done button makes: days in the order of the toggles, Sunday
\* first, the day of the start if none is set, and none for the other units.
CustomDone(shown, start) ==
  LET days == InOrder(shown.days)
  IN Recurrence(shown.freq, shown.interval,
                IF shown.freq # "WEEKLY" THEN <<>>
                ELSE IF days = <<>> THEN <<Weekday(start)>> ELSE days,
                NoOrdinal, shown.end)

-----------------------------------------------------------------------------
\* The stored rules that survive being parsed and written back: no part the
\* program skips, no time in UNTIL, no interval below 1, and either weekdays or
\* one ordinal.
Parsed(s) ==
  \/ s = NoRule
  \/ /\ s.freq \in Frequencies /\ ~s.unknown
     /\ s.interval # 0 /\ s.end[1] # "OnTime"
     /\ \/ \A i \in DOMAIN s.tokens : s.tokens[i][1] = 0
        \/ Len(s.tokens) = 1

\* The rules the custom dialog has controls for: "only Weekly's day set
\* round-trips through this dialog", and numbers its spin buttons reach.
HasControls(r) ==
  /\ r # NoRule
  /\ r.ordinal = NoOrdinal
  /\ r.freq # "WEEKLY" => r.byDay = <<>>
  /\ r.interval <= 99
  /\ r.end[1] = "AfterCount" => r.end[2] <= 999

\* The days a weekly rule falls on when the event starts on a day.
DaysOfWeek(r, start) ==
  IF r.freq = "WEEKLY" /\ r.byDay = <<>> THEN {Weekday(start)} ELSE Range(r.byDay)

\* Done without a change in the custom dialog gives the rule it was opened on.
CustomKeeps(r, start) ==
  HasControls(r) =>
    LET done == CustomDone(CustomShown(r, start), start)
    IN /\ <<done.freq, done.interval, done.ordinal, done.end>>
          = <<r.freq, r.interval, r.ordinal, r.end>>
       /\ DaysOfWeek(done, start) = DaysOfWeek(r, start)
=============================================================================
