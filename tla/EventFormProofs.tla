-------------------------- MODULE EventFormProofs ---------------------------
(***************************************************************************)
(* Theorems about EventForm, for any length of a day, any change of the    *)
(* clock and any number of edits: what is saved is well formed, what the   *)
(* fields can say comes back as it was, and a drag keeps an event in its   *)
(* day.  The lemmas about local time, repeat rules, reminders and drags    *)
(* come first, in the order of the modules they are about; FormInv is the  *)
(* inductive invariant.                                                    *)
(***************************************************************************)
EXTENDS EventForm, FiniteSetTheorems, SequenceTheorems, TLAPS

-----------------------------------------------------------------------------
(* Numbers.                                                                *)

LEMMA DivMod ==
  ASSUME NEW a \in Int, NEW b \in Nat \ {0}
  PROVE  /\ a \div b \in Int /\ a % b \in 0..b - 1
         /\ (a \div b) * b \in Int /\ a = ((a \div b) * b) + (a % b)
  OBVIOUS

LEMMA Product == \A a, b \in Int : a * b \in Int
  OBVIOUS

LEMMA NatProduct == \A a, b \in Nat : a * b \in Nat
  OBVIOUS

\* What LocalDatetime takes of one or two instants.
LEMMA EarlierOfTwo ==
  ASSUME NEW S, NEW a \in Int, NEW b \in Int, S \subseteq {a, b}, S # {}
  PROVE  LET c == CHOOSE i \in S : \A j \in S : i <= j
         IN c \in S /\ \A j \in S : c <= j
  <1>1. CASE S = {a, b}
    <2>1. \E i \in S : \A j \in S : i <= j
      <3>1. CASE a <= b
        BY <1>1, <3>1
      <3>2. CASE b <= a
        BY <1>1, <3>2
      <3> QED BY <3>1, <3>2
    <2> QED BY <2>1
  <1>2. CASE S = {a}
    BY <1>2
  <1>3. CASE S = {b}
    BY <1>3
  <1> QED BY <1>1, <1>2, <1>3

LEMMA LocalTyped ==
  ASSUME NEW k \in [at : Int, by : Int]
  PROVE  /\ \A i \in Int : /\ Wall(k, i) \in Int /\ DateOf(k, i) \in Int
                            /\ TimeOf(k, i) \in 0..DayLen - 1
         /\ \A d, t \in Int : LocalDatetime(k, d, t) \in Int
  <1>1. DayLen \in Nat \ {0} /\ Now \in Int
    BY TimesAssumption
  <1>2. \A i \in Int : Wall(k, i) \in Int
    BY DEF Wall
  <1>3. ASSUME NEW i \in Int
        PROVE  DateOf(k, i) \in Int /\ TimeOf(k, i) \in 0..DayLen - 1
    BY <1>1, <1>2, DivMod DEF DateOf, TimeOf
  <1>4. ASSUME NEW d \in Int, NEW t \in Int
        PROVE  LocalDatetime(k, d, t) \in Int
    <2> DEFINE shown == d * DayLen + t
    <2>1. shown \in Int
      BY <1>1, Product
    <2> HIDE DEF shown
    <2> DEFINE found == {i \in {shown, shown - k.by} : Wall(k, i) = shown}
    <2>2. Candidates(k, d, t) = found
      BY DEF Candidates, shown
    <2>3. shown - k.by \in Int /\ found \subseteq {shown, shown - k.by}
      BY <2>1
    <2> HIDE DEF found
    <2>4. CASE found = {}
      BY <2>2, <2>4, <1>1 DEF LocalDatetime
    <2>5. CASE found # {}
      <3>1. (CHOOSE i \in found : \A j \in found : i <= j) \in found
        BY <2>1, <2>3, <2>5, EarlierOfTwo
      <3> QED BY <2>1, <2>2, <2>3, <2>5, <3>1 DEF LocalDatetime
    <2> QED BY <2>4, <2>5
  <1> QED BY <1>2, <1>3, <1>4

\* local_datetime takes the earliest instant that is shown as a date and a time.
LEMMA EarliestShown ==
  ASSUME NEW k \in [at : Int, by : Int], NEW i \in Int, NEW c \in Int, Wall(k, c) = Wall(k, i)
  PROVE  LocalDatetime(k, DateOf(k, i), TimeOf(k, i)) <= c
  <1> DEFINE d == DateOf(k, i)
             t == TimeOf(k, i)
             shown == d * DayLen + t
             found == {j \in {shown, shown - k.by} : Wall(k, j) = shown}
             first == CHOOSE j \in found : \A l \in found : j <= l
  <1>1. shown = Wall(k, i) /\ shown \in Int
    <2>1. DayLen \in Nat \ {0} /\ Wall(k, i) \in Int
      BY TimesAssumption, LocalTyped
    <2>2. Wall(k, i) = ((Wall(k, i) \div DayLen) * DayLen) + (Wall(k, i) % DayLen)
      BY <2>1, DivMod
    <2> QED BY <2>1, <2>2 DEF DateOf, TimeOf
  <1>2. Candidates(k, d, t) = found
    BY DEF Candidates
  <1>3. c \in found
    <2> HIDE DEF shown
    <2>1. c = shown \/ c = shown - k.by
      BY <1>1 DEF Wall
    <2> QED BY <1>1, <2>1
  <1>4. shown - k.by \in Int /\ found \subseteq {shown, shown - k.by}
    BY <1>1
  <1> HIDE DEF d, t, shown, found
  <1>5. first \in found /\ \A l \in found : first <= l
    <2>1. found # {} /\ k.by \in Int /\ shown \in Int
      BY <1>1, <1>3
    <2> QED BY ONLY <1>4, <2>1, EarlierOfTwo
  <1>6. LocalDatetime(k, d, t) = first
    BY <1>2, <1>3 DEF LocalDatetime
  <1> HIDE DEF first
  <1>7. first <= c
    BY <1>3, <1>5
  <1> QED BY <1>6, <1>7 DEF d, t

\* A time that no fold shows a second time is the one the fields lead back to.
LEMMA FieldsLeadBack ==
  ASSUME NEW k \in [at : Int, by : Int], NEW i \in Int, ~SecondPass(k, i)
  PROVE  LocalDatetime(k, DateOf(k, i), TimeOf(k, i)) = i
  <1>1. DateOf(k, i) \in Int /\ TimeOf(k, i) \in Int
    BY LocalTyped, TimesAssumption
  <1>2. LocalDatetime(k, DateOf(k, i), TimeOf(k, i)) \in Int
    BY <1>1, LocalTyped
  <1>3. LocalDatetime(k, DateOf(k, i), TimeOf(k, i)) <= i
    BY EarliestShown
  <1> QED BY <1>2, <1>3 DEF SecondPass

LEMMA DivInOrder ==
  ASSUME NEW a \in Int, NEW b \in Int, NEW n \in Nat \ {0}, a <= b
  PROVE  a \div n <= b \div n
  <1>1. /\ a \div n \in Int /\ b \div n \in Int
        /\ a % n \in 0..n - 1 /\ b % n \in 0..n - 1
        /\ a = ((a \div n) * n) + (a % n) /\ b = ((b \div n) * n) + (b % n)
    BY DivMod
  <1> DEFINE p == a \div n
             q == b \div n
  <1> HIDE DEF p, q
  <1>2. SUFFICES ASSUME q < p PROVE FALSE
    BY <1>1 DEF p, q
  <1>3. (q + 1) * n <= p * n
    BY <1>1, <1>2 DEF p, q
  <1>4. (q + 1) * n = (q * n) + n /\ q * n \in Int /\ p * n \in Int
    BY <1>1 DEF p, q
  <1> QED BY <1>1, <1>3, <1>4 DEF p, q

\* Later instants, if none is shown a second time, show later dates.
LEMMA DatesInOrder ==
  ASSUME NEW k \in [at : Int, by : Int], NEW i \in Int, NEW j \in Int, i < j,
         ~SecondPass(k, j)
  PROVE  DateOf(k, i) <= DateOf(k, j)
  <1>1. Wall(k, i) <= Wall(k, j)
    <2>1. CASE k.by >= 0 \/ j < k.at \/ i >= k.at \/ j + k.by >= k.at
      BY <2>1 DEF Wall
    <2>2. CASE k.by < 0 /\ i < k.at /\ j >= k.at /\ j + k.by < k.at
      <3>1. j + k.by \in Int /\ Wall(k, j + k.by) = Wall(k, j) /\ j + k.by < j
        BY <2>2 DEF Wall
      <3>2. LocalDatetime(k, DateOf(k, j), TimeOf(k, j)) <= j + k.by
        BY <3>1, EarliestShown
      <3>3. LocalDatetime(k, DateOf(k, j), TimeOf(k, j)) = j
        BY FieldsLeadBack
      <3> QED BY <3>1, <3>2, <3>3
    <2> QED BY <2>1, <2>2
  <1>2. Wall(k, i) \in Int /\ Wall(k, j) \in Int /\ DayLen \in Nat \ {0}
    BY LocalTyped, TimesAssumption
  <1> QED BY <1>1, <1>2, DivInOrder DEF DateOf

-----------------------------------------------------------------------------
(* Sets of numbers in order.                                               *)

Rank(S, x) == Cardinality({y \in S : y <= x})

LEMMA Ranks ==
  ASSUME NEW S, S \subseteq Int, IsFiniteSet(S)
  PROVE  /\ Cardinality(S) \in Nat
         /\ \A x \in S : Rank(S, x) \in 1..Cardinality(S)
         /\ \A x, y \in S : x < y => Rank(S, x) < Rank(S, y)
         /\ \A k \in 1..Cardinality(S) : \E x \in S : Rank(S, x) = k
  <1> DEFINE Upto(x) == {y \in S : y <= x}
  <1>1. Cardinality(S) \in Nat
    BY FS_CardinalityType
  <1>2. ASSUME NEW x \in S
        PROVE  IsFiniteSet(Upto(x)) /\ Cardinality(Upto(x)) \in 1..Cardinality(S)
    <2>1. Upto(x) \in SUBSET S
      OBVIOUS
    <2>2. IsFiniteSet(Upto(x)) /\ Cardinality(Upto(x)) <= Cardinality(S)
      BY <2>1, FS_Subset
    <2>3. Cardinality(Upto(x)) \in Nat
      BY <2>2, FS_CardinalityType
    <2>4. Cardinality(Upto(x)) # 0
      <3>1. x \in Upto(x)
        OBVIOUS
      <3> QED BY <2>2, <3>1, FS_EmptySet
    <2> QED BY <1>1, <2>2, <2>3, <2>4
  <1>3. ASSUME NEW x \in S, NEW y \in S, x < y
        PROVE  Cardinality(Upto(x)) < Cardinality(Upto(y))
    <2>1. Upto(x) \in SUBSET Upto(y) /\ y \in Upto(y) /\ y \notin Upto(x)
      <3>1. x \in Int /\ y \in Int /\ \A z \in S : z \in Int
        OBVIOUS
      <3>2. \A z \in S : z <= x => z <= y
        BY <1>3, <3>1
      <3>3. y <= y /\ ~(y <= x)
        BY <1>3, <3>1
      <3> QED BY <3>2, <3>3, Zenon
    <2>2. /\ Cardinality(Upto(x)) <= Cardinality(Upto(y))
          /\ Cardinality(Upto(y)) = Cardinality(Upto(x)) => Upto(y) = Upto(x)
      BY <1>2, <2>1, FS_Subset
    <2>3. Cardinality(Upto(x)) \in Int /\ Cardinality(Upto(y)) \in Int
      BY <1>1, <1>2
    <2>4. Upto(y) # Upto(x)
      BY <2>1
    <2> HIDE DEF Upto
    <2> QED BY <2>2, <2>3, <2>4
  <1> HIDE DEF Upto
  <1>4. ASSUME NEW k \in 1..Cardinality(S)
        PROVE  \E x \in S : Cardinality(Upto(x)) = k
    <2> DEFINE f == [x \in S |-> Cardinality(Upto(x))]
    <2>1. f \in [S -> 1..Cardinality(S)] /\ \A x \in S : f[x] = Cardinality(Upto(x))
      BY <1>2
    <2> HIDE DEF f
    <2>2. \A x, y \in S : f[x] = f[y] => x = y
      <3>1. SUFFICES ASSUME NEW x \in S, NEW y \in S, x # y PROVE f[x] # f[y]
        OBVIOUS
      <3>2. x \in Int /\ y \in Int /\ f[x] \in Int /\ f[y] \in Int
        BY <1>1, <1>2, <2>1
      <3>3. CASE x < y
        BY <1>3, <2>1, <3>2, <3>3
      <3>4. CASE y < x
        BY <1>3, <2>1, <3>2, <3>4
      <3> QED BY <3>1, <3>2, <3>3, <3>4
    <2>3. f \in Injection(S, 1..Cardinality(S))
      BY <2>1, <2>2 DEF Injection, IsInjective
    <2>4. IsFiniteSet(1..Cardinality(S)) /\ Cardinality(1..Cardinality(S)) = Cardinality(S)
      BY <1>1, FS_Interval
    <2>5. f \in Surjection(S, 1..Cardinality(S))
      BY <2>3, <2>4, FS_Injection
    <2> QED BY <2>1, <2>5 DEF Surjection
  <1>5. \A x : Rank(S, x) = Cardinality(Upto(x))
    BY DEF Rank, Upto
  <1> QED BY <1>1, <1>2, <1>3, <1>4, <1>5

\* InOrder names each member of a set once, the smallest first.
LEMMA NthIs ==
  ASSUME NEW S, S \subseteq Int, IsFiniteSet(S), NEW x \in S
  PROVE  Rank(S, x) \in 1..Cardinality(S) /\ Nth(S, Rank(S, x)) = x
  <1>1. \A y \in S : Rank(S, y) = Rank(S, x) => y = x
    <2>1. SUFFICES ASSUME NEW y \in S, y # x PROVE Rank(S, y) # Rank(S, x)
      OBVIOUS
    <2>2. Cardinality(S) \in Nat /\ Rank(S, x) \in 1..Cardinality(S)
          /\ Rank(S, y) \in 1..Cardinality(S)
      BY Ranks
    <2>3. (x < y => Rank(S, x) < Rank(S, y)) /\ (y < x => Rank(S, y) < Rank(S, x))
      BY Ranks
    <2>4. x < y \/ y < x
      BY <2>1
    <2> QED BY <2>2, <2>3, <2>4
  <1>2. Nth(S, Rank(S, x)) = CHOOSE y \in S : Rank(S, y) = Rank(S, x)
    BY DEF Nth, Rank
  <1>3. Rank(S, x) \in 1..Cardinality(S)
    BY Ranks
  <1> QED BY <1>1, <1>2, <1>3

LEMMA InOrderIs ==
  ASSUME NEW S, S \subseteq Int, IsFiniteSet(S)
  PROVE  /\ Cardinality(S) \in Nat
         /\ InOrder(S) \in [1..Cardinality(S) -> S]
         /\ \A x \in S : \E k \in 1..Cardinality(S) : InOrder(S)[k] = x
  <1>1. \A k \in 1..Cardinality(S) : Nth(S, k) \in S
    <2> SUFFICES ASSUME NEW k \in 1..Cardinality(S) PROVE Nth(S, k) \in S
      OBVIOUS
    <2>1. PICK x \in S : Rank(S, x) = k
      BY Ranks
    <2> QED BY <2>1, NthIs
  <1>2. Cardinality(S) \in Nat
    BY Ranks
  <1>3. InOrder(S) = [k \in 1..Cardinality(S) |-> Nth(S, k)]
    BY DEF InOrder
  <1> QED BY <1>1, <1>2, <1>3, NthIs

LEMMA LatestIs ==
  ASSUME NEW S, S \subseteq Int, IsFiniteSet(S), S # {}
  PROVE  Latest(S) \in S /\ \A x \in S : x <= Latest(S)
  <1>1. Cardinality(S) \in Nat /\ Cardinality(S) # 0
    BY FS_CardinalityType, FS_EmptySet
  <1>2. PICK x \in S : Rank(S, x) = Cardinality(S)
    <2>1. Cardinality(S) \in 1..Cardinality(S)
      BY <1>1
    <2> QED BY <2>1, Ranks
  <1>3. {y \in S : y <= x} = S
    BY <1>2, FS_Subset DEF Rank
  <1>4. \E d \in S : \A y \in S : d >= y
    <2>1. \A y \in S : x >= y
      <3>1. \A y \in S : y <= x
        BY <1>3
      <3> QED BY <3>1
    <2> QED BY <2>1
  <1>5. Latest(S) \in S /\ \A y \in S : Latest(S) >= y
    BY <1>4 DEF Latest
  <1> HIDE DEF Latest
  <1> QED BY <1>5

LEMMA InOrderOfAll ==
  ASSUME NEW n \in Nat
  PROVE  InOrder(1..n) = [k \in 1..n |-> k]
  <1>1. 1..n \subseteq Int /\ IsFiniteSet(1..n) /\ Cardinality(1..n) = n
    BY FS_Interval
  <1>2. ASSUME NEW k \in 1..n PROVE Nth(1..n, k) = k
    <2>1. {y \in 1..n : y <= k} = 1..k
      OBVIOUS
    <2>2. Cardinality(1..k) = k
      BY FS_Interval
    <2>3. Rank(1..n, k) = k
      BY <2>1, <2>2 DEF Rank
    <2> QED BY <1>1, <2>3, NthIs
  <1> QED BY <1>1, <1>2 DEF InOrder

LEMMA InOrderOfNone == InOrder({}) = << >>
  BY FS_EmptySet DEF InOrder

-----------------------------------------------------------------------------
(* Repeat rules.  Which numbers MonthlyOrdinal gives does not matter here.  *)

Tokens == (Int \cup {MonthlyOrdinal(day)[1] : day \in Int}) \X (0..6)

Texts ==
  [freq : STRING \cup Frequencies, interval : Nat, tokens : Seq(Tokens), end : StoredEnds,
   unknown : BOOLEAN]
Stored == {NoRule} \cup Texts

Recurrences ==
  [freq : Frequencies, interval : Nat, byDay : Seq(0..6), ordinal : Tokens, end : RuleEnds]
Rules == {NoRule} \cup Recurrences

FilledIn ==
  [freq : Frequencies, interval : Nat, days : SUBSET (0..6), end : RuleEnds]

LEMMA TokenShape ==
  /\ NoOrdinal \in Tokens
  /\ \A t \in Tokens : t = <<t[1], t[2]>> /\ t[2] \in 0..6
  /\ \A day \in 0..6 : <<0, day>> \in Tokens
  BY DEF Tokens, NoOrdinal

LEMMA WeekdayTyped == \A day \in Int : Weekday(day) \in 0..6
  <1> SUFFICES ASSUME NEW day \in Int PROVE Weekday(day) \in 0..6
    OBVIOUS
  <1>1. (day + 6) % 7 \in 0..6
    OBVIOUS
  <1> QED BY <1>1 DEF Weekday

LEMMA RealRule == \A r \in Rules : r # NoRule => r \in Recurrences
  BY DEF Rules

LEMMA RealText == \A s \in Stored : s # NoRule => s \in Texts
  BY DEF Stored

LEMMA RecurrenceTyped ==
  ASSUME NEW freq \in Frequencies, NEW interval \in Nat, NEW byDay \in Seq(0..6),
         NEW ordinal \in Tokens, NEW end \in RuleEnds
  PROVE  /\ Recurrence(freq, interval, byDay, ordinal, end) \in Rules
         /\ Recurrence(freq, interval, byDay, ordinal, end) # NoRule
  <1>1. Recurrence(freq, interval, byDay, ordinal, end).freq # NoRule.freq
    BY DEF Recurrence, Frequencies, NoRule
  <1>2. Recurrence(freq, interval, byDay, ordinal, end) \in Rules
    BY DEF Recurrence, Rules, Recurrences
  <1> QED BY <1>1, <1>2

LEMMA PresetsTyped ==
  ASSUME NEW day \in Int, NEW r \in Presets(day)
  PROVE  r \in Rules
  <1>1. Weekday(day) \in 0..6 /\ MonthlyOrdinal(day) \in Tokens
    <2>1. Weekday(day) \in 0..6
      BY WeekdayTyped
    <2>2. MonthlyOrdinal(day) = <<MonthlyOrdinal(day)[1], Weekday(day)>>
      BY DEF MonthlyOrdinal
    <2> QED BY <2>1, <2>2 DEF Tokens
  <1>2. /\ << >> \in Seq(0..6) /\ <<Weekday(day)>> \in Seq(0..6)
        /\ <<1, 2, 3, 4, 5>> \in Seq(0..6)
    BY <1>1
  <1>3. Never \in RuleEnds /\ NoOrdinal \in Tokens /\ NoRule \in Rules
    BY TokenShape DEF Never, RuleEnds, Rules
  <1>4. {"DAILY", "WEEKLY", "MONTHLY", "YEARLY"} = Frequencies
    BY DEF Frequencies
  <1>5. /\ Recurrence("DAILY", 1, << >>, NoOrdinal, Never) \in Rules
        /\ Recurrence("WEEKLY", 1, <<Weekday(day)>>, NoOrdinal, Never) \in Rules
        /\ Recurrence("MONTHLY", 1, << >>, MonthlyOrdinal(day), Never) \in Rules
        /\ Recurrence("YEARLY", 1, << >>, NoOrdinal, Never) \in Rules
        /\ Recurrence("WEEKLY", 1, <<1, 2, 3, 4, 5>>, NoOrdinal, Never) \in Rules
    BY <1>1, <1>2, <1>3, <1>4, RecurrenceTyped
  <1> QED BY <1>3, <1>5, Zenon DEF Presets

\* What the parser gathers from the tokens of a rule.
PlainIn(tokens) == {i \in DOMAIN tokens : tokens[i][1] = 0}
OrdinalsIn(tokens) == {i \in DOMAIN tokens : tokens[i][1] # 0}
DaysAmong(tokens) ==
  [k \in DOMAIN InOrder(PlainIn(tokens)) |-> tokens[InOrder(PlainIn(tokens))[k]][2]]
OrdinalIn(tokens) ==
  IF OrdinalsIn(tokens) = {} THEN NoOrdinal ELSE tokens[Latest(OrdinalsIn(tokens))]

LEMMA ParserGathers ==
  ASSUME NEW s, s # NoRule, s.freq \in Frequencies
  PROVE  FromRRule(s)
           = Recurrence(s.freq, IntervalRead(s.interval), DaysAmong(s.tokens),
                        OrdinalIn(s.tokens), EndRead(s.end))
  BY DEF FromRRule, DaysAmong, OrdinalIn, PlainIn, OrdinalsIn

LEMMA Gathered ==
  ASSUME NEW tokens \in Seq(Tokens)
  PROVE  DaysAmong(tokens) \in Seq(0..6) /\ OrdinalIn(tokens) \in Tokens
  <1>1. Len(tokens) \in Nat /\ DOMAIN tokens = 1..Len(tokens)
        /\ \A i \in DOMAIN tokens : tokens[i] \in Tokens
    BY ElementOfSeq
  <1>2. IsFiniteSet(1..Len(tokens)) /\ 1..Len(tokens) \subseteq Int
    BY <1>1, FS_Interval
  <1>3. DaysAmong(tokens) \in Seq(0..6)
    <2> DEFINE P == PlainIn(tokens)
    <2>1. P \in SUBSET (1..Len(tokens))
      BY <1>1 DEF PlainIn
    <2> HIDE DEF P
    <2>2. P \subseteq Int /\ IsFiniteSet(P)
      BY <1>2, <2>1, FS_Subset
    <2>3. Cardinality(P) \in Nat /\ InOrder(P) \in [1..Cardinality(P) -> P]
      BY <2>2, InOrderIs
    <2>4. \A i \in P : tokens[i][2] \in 0..6
      BY <1>1, <2>1, TokenShape
    <2>5. DaysAmong(tokens) = [k \in DOMAIN InOrder(P) |-> tokens[InOrder(P)[k]][2]]
      BY DEF DaysAmong, P
    <2>6. DaysAmong(tokens) \in [1..Cardinality(P) -> 0..6]
      BY <2>3, <2>4, <2>5
    <2> QED BY <2>3, <2>6
  <1>4. OrdinalIn(tokens) \in Tokens
    <2> DEFINE O == OrdinalsIn(tokens)
    <2>1. O \in SUBSET (1..Len(tokens))
      BY <1>1 DEF OrdinalsIn
    <2> HIDE DEF O
    <2>2. O \subseteq Int /\ IsFiniteSet(O)
      BY <1>2, <2>1, FS_Subset
    <2>3. O # {} => Latest(O) \in O
      BY <2>2, LatestIs
    <2>4. OrdinalIn(tokens) = IF O = {} THEN NoOrdinal ELSE tokens[Latest(O)]
      BY DEF OrdinalIn, O
    <2> QED BY <1>1, <2>1, <2>3, <2>4, TokenShape
  <1> QED BY <1>3, <1>4

LEMMA ParseTyped ==
  ASSUME NEW s \in Stored
  PROVE  FromRRule(s) \in Rules
  <1>1. CASE s = NoRule \/ s.freq \notin Frequencies
    BY <1>1 DEF FromRRule, Rules
  <1>2. CASE s # NoRule /\ s.freq \in Frequencies
    <2>1. IntervalRead(s.interval) \in Nat /\ s.tokens \in Seq(Tokens) /\ EndRead(s.end) \in RuleEnds
      BY <1>2, RealText DEF Texts, IntervalRead, EndRead, StoredEnds, RuleEnds
    <2>2. DaysAmong(s.tokens) \in Seq(0..6) /\ OrdinalIn(s.tokens) \in Tokens
      BY <2>1, Gathered
    <2> QED BY <1>2, <2>1, <2>2, ParserGathers, RecurrenceTyped
  <1> QED BY <1>1, <1>2

LEMMA WriteTyped ==
  ASSUME NEW r \in Rules
  PROVE  ToRRule(r) \in Stored
  <1>1. CASE r = NoRule
    BY <1>1 DEF ToRRule, Stored
  <1>2. CASE r # NoRule
    <2> DEFINE tokens == IF r.ordinal # NoOrdinal THEN <<r.ordinal>>
                         ELSE [i \in DOMAIN r.byDay |-> <<0, r.byDay[i]>>]
    <2>1. /\ r.freq \in Frequencies /\ r.interval \in Nat /\ r.byDay \in Seq(0..6)
          /\ r.ordinal \in Tokens /\ r.end \in RuleEnds
      BY <1>2, RealRule DEF Recurrences
    <2>2. tokens \in Seq(Tokens)
      <3>1. CASE r.ordinal # NoOrdinal
        BY <2>1, <3>1
      <3>2. CASE r.ordinal = NoOrdinal
        <4>1. Len(r.byDay) \in Nat /\ DOMAIN r.byDay = 1..Len(r.byDay)
              /\ \A i \in 1..Len(r.byDay) : r.byDay[i] \in 0..6
          BY <2>1, ElementOfSeq
        <4>2. [i \in DOMAIN r.byDay |-> <<0, r.byDay[i]>>] \in [1..Len(r.byDay) -> Tokens]
          BY <4>1, TokenShape
        <4> QED BY <3>2, <4>1, <4>2
      <3> QED BY <3>1, <3>2
    <2>3. ToRRule(r) = [freq |-> r.freq, interval |-> r.interval, end |-> r.end,
                        unknown |-> FALSE, tokens |-> tokens]
      BY <1>2 DEF ToRRule
    <2> HIDE DEF tokens
    <2> QED BY <2>1, <2>2, <2>3 DEF Stored, Texts, StoredEnds
  <1> QED BY <1>1, <1>2

\* A rule that Parsed accepts is written back as it was.
LEMMA RuleKept ==
  ASSUME NEW s \in Stored, Parsed(s)
  PROVE  ToRRule(FromRRule(s)) = s
  <1>1. CASE s = NoRule
    BY <1>1 DEF FromRRule, ToRRule
  <1>2. CASE s # NoRule
    <2> DEFINE r == FromRRule(s)
               n == Len(s.tokens)
    <2>1. /\ s \in Texts
          /\ s.freq \in Frequencies /\ ~s.unknown
          /\ (\A i \in DOMAIN s.tokens : s.tokens[i][1] = 0) \/ Len(s.tokens) = 1
      BY <1>2, RealText DEF Parsed
    <2>8. IntervalRead(s.interval) = s.interval /\ EndRead(s.end) = s.end /\ s.end \in RuleEnds
      BY <1>2, <2>1 DEF Parsed, IntervalRead, EndRead, Texts, StoredEnds
    <2>2. /\ n \in Nat /\ DOMAIN s.tokens = 1..n /\ s.tokens = [i \in 1..n |-> s.tokens[i]]
          /\ \A i \in 1..n : s.tokens[i] \in Tokens
      BY <2>1 DEF Texts
    <2>3. /\ r = Recurrence(s.freq, s.interval, DaysAmong(s.tokens), OrdinalIn(s.tokens), s.end)
          /\ r # NoRule
      <3>1. DaysAmong(s.tokens) \in Seq(0..6) /\ OrdinalIn(s.tokens) \in Tokens
        BY <2>1, Gathered DEF Texts
      <3> QED BY <1>2, <2>1, <2>8, <3>1, ParserGathers, RecurrenceTyped DEF Texts
    <2> HIDE DEF r
    <2>4. ToRRule(r) = [freq |-> s.freq, interval |-> s.interval, end |-> s.end, unknown |-> FALSE,
                        tokens |-> IF OrdinalIn(s.tokens) # NoOrdinal THEN <<OrdinalIn(s.tokens)>>
                                   ELSE [i \in DOMAIN DaysAmong(s.tokens) |->
                                           <<0, DaysAmong(s.tokens)[i]>>]]
      BY <2>3 DEF ToRRule, Recurrence
    <2>5. s = [freq |-> s.freq, interval |-> s.interval, end |-> s.end, unknown |-> FALSE,
               tokens |-> s.tokens]
      BY <2>1 DEF Texts
    <2>6. CASE \A i \in DOMAIN s.tokens : s.tokens[i][1] = 0
      <3>1. PlainIn(s.tokens) = 1..n /\ OrdinalsIn(s.tokens) = {}
        BY <2>2, <2>6 DEF PlainIn, OrdinalsIn
      <3>2. DaysAmong(s.tokens) = [k \in 1..n |-> s.tokens[k][2]]
        <4>1. InOrder(1..n) = [k \in 1..n |-> k]
          BY <2>2, InOrderOfAll
        <4> QED BY <3>1, <4>1 DEF DaysAmong
      <3>3. OrdinalIn(s.tokens) = NoOrdinal
        BY <3>1 DEF OrdinalIn
      <3>4. \A i \in 1..n : s.tokens[i] = <<0, s.tokens[i][2]>>
        BY <2>2, <2>6, TokenShape
      <3>5. [i \in DOMAIN DaysAmong(s.tokens) |-> <<0, DaysAmong(s.tokens)[i]>>]
              = [i \in 1..n |-> s.tokens[i]]
        BY <3>2, <3>4
      <3> QED BY <2>2, <2>3, <2>4, <2>5, <3>3, <3>5 DEF r
    <2>7. CASE Len(s.tokens) = 1 /\ s.tokens[1][1] # 0
      <3>1. OrdinalsIn(s.tokens) = {1}
        BY <2>2, <2>7 DEF OrdinalsIn
      <3>2. Latest({1}) = 1
        BY DEF Latest
      <3>3. OrdinalIn(s.tokens) = s.tokens[1] /\ s.tokens[1] # NoOrdinal
        BY <2>7, <3>1, <3>2 DEF OrdinalIn, NoOrdinal
      <3>4. <<s.tokens[1]>> = s.tokens
        BY <2>2, <2>7
      <3> QED BY <2>3, <2>4, <2>5, <3>3, <3>4 DEF r
    <2> QED BY <2>1, <2>2, <2>6, <2>7
  <1> QED BY <1>1, <1>2

LEMMA ShownTyped ==
  ASSUME NEW r \in Rules, NEW day \in Int
  PROVE  CustomShown(r, day) \in FilledIn
  <1>1. Weekday(day) \in 0..6
    BY WeekdayTyped
  <1>2. CASE r = NoRule
    BY <1>1, <1>2 DEF CustomShown, FilledIn, Frequencies, Never, RuleEnds
  <1>3. CASE r # NoRule
    <2>1. /\ r.freq \in Frequencies /\ r.interval \in Nat /\ r.byDay \in Seq(0..6)
          /\ r.end \in RuleEnds
      BY <1>3, RealRule DEF Recurrences
    <2>2. Range(r.byDay) \subseteq 0..6
      BY <2>1, ElementOfSeq DEF Range
    <2>3. Capped(r.interval, 99) \in Nat
      BY <2>1 DEF Capped
    <2>4. (IF r.end[1] = "AfterCount" THEN <<"AfterCount", Capped(r.end[2], 999)>> ELSE r.end)
             \in RuleEnds
      BY <2>1 DEF RuleEnds, Capped
    <2> QED BY <1>1, <1>3, <2>1, <2>2, <2>3, <2>4 DEF CustomShown, FilledIn
  <1> QED BY <1>2, <1>3

\* The days Done writes down, for the toggles that are set.
DaysDone(shown, start) ==
  IF shown.freq # "WEEKLY" THEN << >>
  ELSE IF InOrder(shown.days) = << >> THEN <<Weekday(start)>> ELSE InOrder(shown.days)

LEMMA DoneIs ==
  ASSUME NEW shown, NEW start
  PROVE  CustomDone(shown, start)
           = Recurrence(shown.freq, shown.interval, DaysDone(shown, start), NoOrdinal, shown.end)
  BY DEF CustomDone, DaysDone

LEMMA SetDays ==
  ASSUME NEW days \in SUBSET (0..6)
  PROVE  /\ InOrder(days) \in Seq(0..6) /\ Range(InOrder(days)) = days
         /\ InOrder(days) = << >> <=> days = {}
  <1>1. IsFiniteSet(days) /\ days \subseteq Int
    <2>1. 0 \in Int /\ 6 \in Int
      OBVIOUS
    <2>2. IsFiniteSet(0..6)
      BY ONLY <2>1, FS_Interval
    <2>3. IsFiniteSet(days)
      BY <2>2, FS_Subset, Zenon
    <2> QED BY <2>3
  <1>2. /\ Cardinality(days) \in Nat
        /\ InOrder(days) \in [1..Cardinality(days) -> days]
        /\ \A x \in days : \E k \in 1..Cardinality(days) : InOrder(days)[k] = x
    BY <1>1, InOrderIs
  <1>3. InOrder(days) \in Seq(0..6)
    <2> DEFINE o == InOrder(days)
               n == Cardinality(days)
    <2>1. n \in Nat /\ o \in [1..n -> days]
      BY <1>2
    <2> HIDE DEF o, n
    <2>2. o \in [1..n -> 0..6]
      BY <2>1
    <2>3. o \in Seq(0..6)
      BY <2>1, <2>2
    <2> QED BY <2>3 DEF o
  <1>4. Range(InOrder(days)) = days
    BY <1>2 DEF Range
  <1>5. days = {} => InOrder(days) = << >>
    BY InOrderOfNone
  <1>6. InOrder(days) = << >> => days = {}
    <2>1. Range(<< >>) = {}
      BY DEF Range
    <2> QED BY <1>4, <2>1
  <1> QED BY <1>3, <1>4, <1>5, <1>6

LEMMA DoneTyped ==
  ASSUME NEW shown \in FilledIn, NEW start \in Int
  PROVE  CustomDone(shown, start) \in Rules
  <1>1. /\ shown.freq \in Frequencies /\ shown.interval \in Nat
        /\ shown.days \in SUBSET (0..6) /\ shown.end \in RuleEnds
    BY DEF FilledIn
  <1>2. DaysDone(shown, start) \in Seq(0..6)
    <2>1. InOrder(shown.days) \in Seq(0..6) /\ <<Weekday(start)>> \in Seq(0..6)
          /\ << >> \in Seq(0..6)
      BY <1>1, SetDays, WeekdayTyped
    <2> QED BY <2>1 DEF DaysDone
  <1> QED BY <1>1, <1>2, DoneIs, RecurrenceTyped, TokenShape

\* Done, without a change, gives the rule the dialog was opened on.
LEMMA DialogKeeps ==
  ASSUME NEW r \in Rules, NEW start \in Int
  PROVE  CustomKeeps(r, start)
  <1> SUFFICES ASSUME HasControls(r) PROVE CustomKeeps(r, start)
    BY DEF CustomKeeps
  <1>1. /\ r # NoRule /\ r.ordinal = NoOrdinal /\ r.interval <= 99
        /\ r.freq # "WEEKLY" => r.byDay = << >>
        /\ r.end[1] = "AfterCount" => r.end[2] <= 999
    BY DEF HasControls
  <1>2. /\ r.freq \in Frequencies /\ r.interval \in Nat /\ r.byDay \in Seq(0..6)
        /\ r.end \in RuleEnds
    BY <1>1, RealRule DEF Recurrences
  <1> DEFINE shown == CustomShown(r, start)
             done == CustomDone(shown, start)
  <1>3. /\ shown.freq = r.freq /\ shown.interval = r.interval
        /\ shown.days = IF r.freq = "WEEKLY" /\ r.byDay # << >> THEN Range(r.byDay)
                        ELSE {Weekday(start)}
        /\ shown.end = r.end
    <2>1. Capped(r.interval, 99) = r.interval
      BY <1>1, <1>2 DEF Capped
    <2>2. r.end[1] = "AfterCount" => <<"AfterCount", Capped(r.end[2], 999)>> = r.end
      BY <1>1, <1>2 DEF Capped, RuleEnds
    <2> QED BY <1>1, <2>1, <2>2 DEF CustomShown
  <1>4. shown.days \in SUBSET (0..6)
    BY ShownTyped DEF FilledIn
  <1> HIDE DEF shown
  <1>5. /\ done.freq = r.freq /\ done.interval = r.interval
        /\ done.ordinal = r.ordinal /\ done.end = r.end
        /\ done.byDay = DaysDone(shown, start)
    BY <1>1, <1>3, DoneIs DEF Recurrence
  <1> HIDE DEF done
  <1>6. DaysOfWeek(done, start) = DaysOfWeek(r, start)
    <2>1. CASE r.freq # "WEEKLY"
      BY <1>1, <1>3, <1>5, <2>1 DEF DaysDone, DaysOfWeek
    <2>2. CASE r.freq = "WEEKLY"
      <3>1. shown.days # {}
        <4>1. r.byDay # << >> => Range(r.byDay) # {}
          <5>1. r.byDay # << >> => 1 \in DOMAIN r.byDay
            BY <1>2, EmptySeq
          <5> QED BY <5>1 DEF Range
        <4> QED BY <1>3, <4>1
      <3>2. done.byDay = InOrder(shown.days) /\ done.byDay # << >>
            /\ Range(done.byDay) = shown.days
        BY <1>3, <1>4, <1>5, <2>2, <3>1, SetDays DEF DaysDone
      <3>3. shown.days = DaysOfWeek(r, start)
        BY <1>3, <2>2 DEF DaysOfWeek
      <3> QED BY <1>5, <3>2, <3>3 DEF DaysOfWeek
    <2> QED BY <2>1, <2>2
  <1>7. <<done.freq, done.interval, done.ordinal, done.end>>
          = <<r.freq, r.interval, r.ordinal, r.end>>
    BY <1>5
  <1> QED BY <1>6, <1>7 DEF CustomKeeps, done, shown

-----------------------------------------------------------------------------
(* Reminders.                                                              *)

ReminderRows == [quantity : 0..SpinMax, unit : DOMAIN Units]

LEMMA UnitIs ==
  ASSUME NEW minutes \in Nat
  PROVE  /\ UnitOf(minutes) \in DOMAIN Units /\ Units[UnitOf(minutes)] \in Nat \ {0}
         /\ minutes % Units[UnitOf(minutes)] = 0
  <1> DEFINE U == {u \in DOMAIN Units : u = 1 \/ (minutes # 0 /\ minutes % Units[u] = 0)}
  <1>1. /\ Len(Units) \in Nat /\ DOMAIN Units = 1..Len(Units) /\ 1 \in DOMAIN Units
        /\ \A u \in DOMAIN Units : Units[u] \in Nat \ {0}
        /\ Units[1] = 1
    <2>1. Units \in Seq(Nat \ {0}) /\ Units # << >> /\ Units[1] = 1
      BY FieldsAssumption
    <2> QED BY <2>1, EmptySeq, ElementOfSeq
  <1>2. U \in SUBSET (1..Len(Units)) /\ 1 \in U
    BY <1>1
  <1>3. \A u \in U : minutes % Units[u] = 0
    BY <1>1
  <1>4. UnitOf(minutes) = Latest(U)
    BY DEF UnitOf
  <1> HIDE DEF U
  <1>5. U \subseteq Int /\ IsFiniteSet(U)
    <2>1. IsFiniteSet(1..Len(Units))
      BY <1>1, FS_Interval
    <2>2. IsFiniteSet(U)
      BY <1>2, <2>1, FS_Subset
    <2> QED BY <1>1, <1>2, <2>2
  <1>6. Latest(U) \in U
    BY <1>2, <1>5, LatestIs
  <1> QED BY <1>1, <1>2, <1>3, <1>4, <1>6

LEMMA ReminderTyped ==
  ASSUME NEW minutes \in Nat
  PROVE  ReminderRow(minutes) \in ReminderRows
  <1> DEFINE unit == UnitOf(minutes)
  <1>1. unit \in DOMAIN Units /\ Units[unit] \in Nat \ {0}
    BY UnitIs
  <1>2. minutes \div Units[unit] \in Nat
    BY <1>1
  <1>3. Least(minutes \div Units[unit], SpinMax) \in 0..SpinMax
    BY <1>2, FieldsAssumption DEF Least
  <1> QED BY <1>1, <1>3 DEF ReminderRow, ReminderRows

\* A lead time that the spin button reaches is the one its row stands for.
LEMMA ReminderKept ==
  ASSUME NEW minutes \in Nat, minutes \div Units[UnitOf(minutes)] <= SpinMax
  PROVE  ReminderRow(minutes).quantity * Units[ReminderRow(minutes).unit] = minutes
  <1> DEFINE n == Units[UnitOf(minutes)]
             q == minutes \div n
  <1>1. n \in Nat \ {0} /\ minutes % n = 0
    BY UnitIs
  <1>2. q \in Int /\ minutes = q * n
    <2> HIDE DEF n
    <2>1. minutes \div n \in Int /\ (minutes \div n) * n \in Int
          /\ minutes = ((minutes \div n) * n) + (minutes % n)
      BY <1>1, DivMod
    <2> QED BY <1>1, <2>1
  <1>3. ReminderRow(minutes) = [quantity |-> Least(q, SpinMax), unit |-> UnitOf(minutes)]
    BY DEF ReminderRow
  <1> HIDE DEF q
  <1>4. Least(q, SpinMax) = q
    BY <1>2, FieldsAssumption DEF Least, q
  <1> HIDE DEF n
  <1>5. ReminderRow(minutes).quantity = q /\ Units[ReminderRow(minutes).unit] = n
    BY <1>3, <1>4 DEF n
  <1> QED BY <1>2, <1>5

-----------------------------------------------------------------------------
(* The form and the store.                                                 *)

Events ==
  [allDay : BOOLEAN, text : {"date", "instant"}, start : Int, end : Int, shift : Int,
   rule : Stored, reminders : Seq(Nat)]

Forms ==
  [draft : BOOLEAN, allDay : BOOLEAN, startDate : Int, startTime : 0..DayLen - 1,
   endDate : Int, endTime : 0..DayLen - 1, rule : Rules, rows : Seq(ReminderRows),
   canAdd : BOOLEAN]

Grabs == [zone : Zones, start : Int, end : Int, column : DOMAIN Dates]

IsEvent(e) == e \in Events /\ Len(e.reminders) <= MaxReminders

IsForm(f) ==
  /\ f \in Forms
  /\ Len(f.rows) <= MaxReminders
  /\ f.canAdd => Len(f.rows) < MaxReminders

LEMMA Constants ==
  /\ DayLen \in Nat \ {0} /\ Quarter \in Nat \ {0} /\ HalfHour \in Nat \ {0}
  /\ RoundTo \in Nat \ {0} /\ Now \in Int /\ DefaultDuration \in Int
  /\ PickTimes \subseteq 0..DayLen - 1 /\ 0 \in 0..DayLen - 1
  /\ PickDates \subseteq Int /\ Pointers \subseteq Int /\ Offsets \subseteq Int
  /\ \A snap \in Snaps : snap \in Nat \ {0}
  /\ Len(Dates) \in Nat /\ DOMAIN Dates = 1..Len(Dates)
  /\ \A column \in DOMAIN Dates : Dates[column] \in Int
  /\ \A k \in Clocks : k \in [at : Int, by : Int]
  /\ MaxReminders \in Nat \ {0} /\ MaxEdits \in Nat /\ SpinMax \in Nat
  /\ DefaultReminder \in Nat /\ NewReminder \in Nat
  <1>1. /\ DayLen \in Nat \ {0} /\ Quarter \in Nat \ {0} /\ HalfHour \in Nat \ {0}
        /\ RoundTo \in Nat \ {0} /\ Now \in Int /\ DefaultDuration \in Int
        /\ PickTimes \subseteq 0..DayLen - 1
        /\ PickDates \subseteq Int /\ Pointers \subseteq Int /\ Offsets \subseteq Int
    BY TimesAssumption
  <1>2. 0 \in 0..DayLen - 1
    BY <1>1
  <1>3. \A snap \in Snaps : snap \in Nat \ {0}
    BY TimesAssumption DEF Snaps
  <1>4. /\ Len(Dates) \in Nat /\ DOMAIN Dates = 1..Len(Dates)
        /\ \A column \in DOMAIN Dates : Dates[column] \in Int
    BY TimesAssumption, ElementOfSeq
  <1>5. \A k \in Clocks : k \in [at : Int, by : Int]
    BY TimesAssumption
  <1>6. /\ MaxReminders \in Nat \ {0} /\ MaxEdits \in Nat /\ SpinMax \in Nat
        /\ DefaultReminder \in Nat /\ NewReminder \in Nat
    BY FieldsAssumption
  <1> QED BY <1>1, <1>2, <1>3, <1>4, <1>5, <1>6

LEMMA ClocksTell ==
  \A k \in Clocks : /\ \A i \in Int : DateOf(k, i) \in Int /\ TimeOf(k, i) \in 0..DayLen - 1
                    /\ \A d \in Int : LocalDatetime(k, d, 0) \in Int
  <1> SUFFICES ASSUME NEW k \in Clocks
               PROVE  /\ \A i \in Int : DateOf(k, i) \in Int /\ TimeOf(k, i) \in 0..DayLen - 1
                      /\ \A d \in Int : LocalDatetime(k, d, 0) \in Int
    OBVIOUS
  <1>1. k \in [at : Int, by : Int] /\ 0 \in Int
    BY Constants
  <1> QED BY <1>1, LocalTyped

\* What the fields of an event show of its days and its times.
LEMMA FieldsOf ==
  ASSUME clock \in Clocks, NEW e \in Events, NEW draft \in BOOLEAN
  PROVE  /\ Opened(e, draft).allDay = e.allDay /\ Opened(e, draft).rule = FromRRule(e.rule)
         /\ Opened(e, draft).rows = [i \in DOMAIN e.reminders |-> ReminderRow(e.reminders[i])]
         /\ Opened(e, draft).startDate \in Int /\ Opened(e, draft).endDate \in Int
         /\ e.allDay /\ e.text = "date" /\ e.start < e.end =>
              Opened(e, draft).startDate = e.start /\ Opened(e, draft).endDate = e.end - 1
         /\ ~e.allDay => /\ Opened(e, draft).startDate = DateOf(clock, e.start)
                         /\ Opened(e, draft).startTime = TimeOf(clock, e.start)
                         /\ Opened(e, draft).endDate = DateOf(clock, e.end)
                         /\ Opened(e, draft).endTime = TimeOf(clock, e.end)
  <1>1. /\ DateOf(clock, Now) \in Int /\ e.start \in Int /\ e.end \in Int
        /\ DateOf(clock, e.start) \in Int /\ DateOf(clock, e.end) \in Int
    BY Constants, LocalTyped DEF Events
  <1>2. SplitDate(e, e.start) \in Int /\ SplitDate(e, e.end) \in Int
    BY <1>1 DEF SplitDate
  <1>3. e.allDay /\ e.text = "date" =>
          SplitDate(e, e.start) = e.start /\ SplitDate(e, e.end) = e.end
    BY DEF SplitDate
  <1>4. ~e.allDay =>
          /\ SplitDate(e, e.start) = DateOf(clock, e.start)
          /\ SplitTime(e, e.start) = TimeOf(clock, e.start)
          /\ SplitDate(e, e.end) = DateOf(clock, e.end)
          /\ SplitTime(e, e.end) = TimeOf(clock, e.end)
    BY DEF SplitDate, SplitTime
  <1>5. /\ Opened(e, draft).startDate = SplitDate(e, e.start)
        /\ Opened(e, draft).startTime = SplitTime(e, e.start)
        /\ Opened(e, draft).endDate
             = IF e.allDay THEN Greatest(SplitDate(e, e.end) - 1, SplitDate(e, e.start))
               ELSE SplitDate(e, e.end)
        /\ Opened(e, draft).endTime = SplitTime(e, e.end)
        /\ Opened(e, draft).allDay = e.allDay /\ Opened(e, draft).rule = FromRRule(e.rule)
        /\ Opened(e, draft).rows = [i \in DOMAIN e.reminders |-> ReminderRow(e.reminders[i])]
    BY DEF Opened
  <1>6. e.start < e.end => Greatest(e.end - 1, e.start) = e.end - 1
    BY <1>1 DEF Greatest
  <1>7. Greatest(SplitDate(e, e.end) - 1, SplitDate(e, e.start)) \in Int
    BY <1>2 DEF Greatest
  <1> QED BY <1>2, <1>3, <1>4, <1>5, <1>6, <1>7

LEMMA RowsTyped ==
  ASSUME NEW m \in Seq(Nat)
  PROVE  /\ [i \in DOMAIN m |-> ReminderRow(m[i])] \in Seq(ReminderRows)
         /\ Len([i \in DOMAIN m |-> ReminderRow(m[i])]) = Len(m)
  <1>1. Len(m) \in Nat /\ DOMAIN m = 1..Len(m) /\ \A i \in 1..Len(m) : m[i] \in Nat
    BY ElementOfSeq
  <1> DEFINE rows == [i \in DOMAIN m |-> ReminderRow(m[i])]
  <1>2. rows \in [1..Len(m) -> ReminderRows]
    BY <1>1, ReminderTyped
  <1> HIDE DEF rows
  <1>3. rows \in Seq(ReminderRows) /\ Len(rows) = Len(m)
    BY <1>1, <1>2
  <1> QED BY <1>3 DEF rows

LEMMA OpenedTyped ==
  ASSUME clock \in Clocks, NEW e, IsEvent(e), NEW draft \in BOOLEAN
  PROVE  IsForm(Opened(e, draft))
  <1> DEFINE f == Opened(e, draft)
  <1>1. e \in Events /\ Len(e.reminders) <= MaxReminders
    BY DEF IsEvent
  <1>2. /\ e.allDay \in BOOLEAN /\ e.rule \in Stored /\ e.reminders \in Seq(Nat)
        /\ e.start \in Int /\ e.end \in Int
    BY <1>1 DEF Events
  <1>3. f.startDate \in Int /\ f.endDate \in Int
    BY <1>1, FieldsOf
  <1>4. FromRRule(e.rule) \in Rules
    BY <1>2, ParseTyped
  <1>5. SplitTime(e, e.start) \in 0..DayLen - 1 /\ SplitTime(e, e.end) \in 0..DayLen - 1
    <2>1. TimeOf(clock, e.start) \in 0..DayLen - 1 /\ TimeOf(clock, e.end) \in 0..DayLen - 1
      BY <1>2, Constants, LocalTyped
    <2> QED BY <2>1, Constants DEF SplitTime
  <1> DEFINE rows == [i \in DOMAIN e.reminders |-> ReminderRow(e.reminders[i])]
             canAdd == Len(e.reminders) < MaxReminders
  <1>6. rows \in Seq(ReminderRows) /\ Len(rows) = Len(e.reminders) /\ canAdd \in BOOLEAN
    BY <1>2, RowsTyped
  <1>7. f = [draft |-> draft, allDay |-> e.allDay,
             startDate |-> f.startDate, startTime |-> SplitTime(e, e.start),
             endDate |-> f.endDate, endTime |-> SplitTime(e, e.end),
             rule |-> FromRRule(e.rule), rows |-> rows, canAdd |-> canAdd]
    BY DEF Opened
  <1> HIDE DEF f, rows, canAdd
  <1>8. f \in Forms
    BY <1>2, <1>3, <1>4, <1>5, <1>6, <1>7 DEF Forms
  <1>9. Len(f.rows) = Len(e.reminders) /\ f.canAdd = (Len(e.reminders) < MaxReminders)
    BY <1>6, <1>7 DEF canAdd
  <1>10. IsForm(f)
    BY <1>1, <1>8, <1>9 DEF IsForm
  <1> QED BY <1>10 DEF f

LEMMA MinutesTyped ==
  ASSUME NEW rows \in Seq(ReminderRows)
  PROVE  /\ [i \in DOMAIN rows |-> rows[i].quantity * Units[rows[i].unit]] \in Seq(Nat)
         /\ Len([i \in DOMAIN rows |-> rows[i].quantity * Units[rows[i].unit]]) = Len(rows)
  <1>1. Len(rows) \in Nat /\ DOMAIN rows = 1..Len(rows)
        /\ \A i \in 1..Len(rows) : rows[i] \in ReminderRows
    BY ElementOfSeq
  <1>2. \A u \in DOMAIN Units : Units[u] \in Nat
    BY FieldsAssumption, ElementOfSeq
  <1>3. \A i \in 1..Len(rows) : rows[i].quantity \in Nat /\ Units[rows[i].unit] \in Nat
    BY <1>1, <1>2, Constants DEF ReminderRows
  <1>4. \A i \in 1..Len(rows) : rows[i].quantity * Units[rows[i].unit] \in Nat
    BY <1>3, NatProduct
  <1> DEFINE m == [i \in DOMAIN rows |-> rows[i].quantity * Units[rows[i].unit]]
  <1>5. m \in [1..Len(rows) -> Nat]
    BY <1>1, <1>4
  <1> HIDE DEF m
  <1>6. m \in Seq(Nat) /\ Len(m) = Len(rows)
    BY <1>1, <1>5
  <1> QED BY <1>6 DEF m

\* What Save makes of the two dates and the two times.
SavedStart(f) ==
  IF f.allDay THEN f.startDate ELSE LocalDatetime(clock, f.startDate, f.startTime)
SavedEnd(f) ==
  IF f.allDay THEN Greatest(f.endDate, f.startDate) + 1
  ELSE IF LocalDatetime(clock, Greatest(f.endDate, f.startDate), f.endTime) <= SavedStart(f)
       THEN SavedStart(f) + HalfHour
       ELSE LocalDatetime(clock, Greatest(f.endDate, f.startDate), f.endTime)

LEMMA SavedIs ==
  ASSUME NEW f, f.allDay \in BOOLEAN
  PROVE  Saved(f) = [allDay |-> f.allDay, shift |-> 0,
                     text |-> IF f.allDay THEN "date" ELSE "instant",
                     start |-> SavedStart(f), end |-> SavedEnd(f), rule |-> ToRRule(f.rule),
                     reminders |->
                       [i \in DOMAIN f.rows |-> f.rows[i].quantity * Units[f.rows[i].unit]]]
  <1>1. CASE f.allDay
    BY <1>1 DEF Saved, SavedStart, SavedEnd
  <1>2. CASE ~f.allDay
    BY <1>2 DEF Saved, SavedStart, SavedEnd
  <1> QED BY <1>1, <1>2

LEMMA SavedTyped ==
  ASSUME clock \in Clocks, NEW f, IsForm(f)
  PROVE  IsEvent(Saved(f)) /\ WellFormed(Saved(f))
  <1> DEFINE e == Saved(f)
  <1>1. /\ f.allDay \in BOOLEAN /\ f.startDate \in Int /\ f.endDate \in Int
        /\ f.startTime \in 0..DayLen - 1 /\ f.endTime \in 0..DayLen - 1
        /\ f.rule \in Rules /\ f.rows \in Seq(ReminderRows) /\ Len(f.rows) <= MaxReminders
    BY DEF IsForm, Forms
  <1>2. f.startTime \in Int /\ f.endTime \in Int /\ Greatest(f.endDate, f.startDate) \in Int
    BY <1>1, Constants DEF Greatest
  <1>3. /\ LocalDatetime(clock, f.startDate, f.startTime) \in Int
        /\ LocalDatetime(clock, Greatest(f.endDate, f.startDate), f.endTime) \in Int
    BY <1>1, <1>2, Constants, LocalTyped
  <1>4. /\ SavedStart(f) \in Int /\ SavedEnd(f) \in Int /\ SavedStart(f) < SavedEnd(f)
    <2>1. CASE f.allDay
      BY <1>1, <2>1 DEF SavedStart, SavedEnd, Greatest
    <2>2. CASE ~f.allDay
      <3>1. SavedStart(f) \in Int
        BY <1>3, <2>2 DEF SavedStart
      <3> QED BY <1>3, <2>2, <3>1, Constants DEF SavedEnd
    <2> QED BY <1>1, <2>1, <2>2
  <1>5. ToRRule(f.rule) \in Stored
    BY <1>1, WriteTyped
  <1> DEFINE m == [i \in DOMAIN f.rows |-> f.rows[i].quantity * Units[f.rows[i].unit]]
  <1>6. m \in Seq(Nat) /\ Len(m) = Len(f.rows)
    BY <1>1, MinutesTyped
  <1>7. e = [allDay |-> f.allDay, shift |-> 0, text |-> IF f.allDay THEN "date" ELSE "instant",
             start |-> SavedStart(f), end |-> SavedEnd(f), rule |-> ToRRule(f.rule),
             reminders |-> m]
    BY <1>1, SavedIs
  <1> HIDE DEF e, m
  <1>8. e \in Events
    BY <1>1, <1>4, <1>5, <1>6, <1>7 DEF Events
  <1>9. Len(e.reminders) <= MaxReminders
    BY <1>1, <1>6, <1>7
  <1>10. WellFormed(e)
    BY <1>1, <1>4, <1>7 DEF WellFormed
  <1>11. IsEvent(e)
    BY <1>8, <1>9 DEF IsEvent
  <1> QED BY <1>10, <1>11 DEF e

\* An event the fields can say is saved as it was opened.
LEMMA SavedAsOpened ==
  ASSUME clock \in Clocks, NEW e, IsEvent(e), WellFormed(e), Expressible(e)
  PROVE  Saved(Opened(e, FALSE)) = [e EXCEPT !.shift = 0]
  <1> DEFINE f == Opened(e, FALSE)
             m == [i \in DOMAIN f.rows |-> f.rows[i].quantity * Units[f.rows[i].unit]]
  <1>1. e \in Events
    BY DEF IsEvent
  <1>2. /\ e.allDay \in BOOLEAN /\ e.rule \in Stored /\ e.reminders \in Seq(Nat)
        /\ e.start \in Int /\ e.end \in Int
        /\ e = [allDay |-> e.allDay, text |-> e.text, start |-> e.start, end |-> e.end,
                shift |-> e.shift, rule |-> e.rule, reminders |-> e.reminders]
    BY <1>1 DEF Events
  <1>3. clock \in [at : Int, by : Int]
    BY Constants
  <1>4. /\ f.allDay = e.allDay /\ f.rule = FromRRule(e.rule)
        /\ f.rows = [i \in DOMAIN e.reminders |-> ReminderRow(e.reminders[i])]
        /\ e.allDay /\ e.text = "date" /\ e.start < e.end =>
             f.startDate = e.start /\ f.endDate = e.end - 1
        /\ ~e.allDay => /\ f.startDate = DateOf(clock, e.start)
                        /\ f.startTime = TimeOf(clock, e.start)
                        /\ f.endDate = DateOf(clock, e.end)
                        /\ f.endTime = TimeOf(clock, e.end)
    BY <1>1, FieldsOf
  <1> HIDE DEF f
  <1>5. ToRRule(f.rule) = e.rule
    BY <1>2, <1>4, RuleKept DEF Expressible
  <1>6. m = e.reminders
    <2>1. Len(e.reminders) \in Nat /\ DOMAIN e.reminders = 1..Len(e.reminders)
          /\ \A i \in 1..Len(e.reminders) : e.reminders[i] \in Nat
      BY <1>2, ElementOfSeq
    <2>2. \A i \in 1..Len(e.reminders) :
            ReminderRow(e.reminders[i]).quantity * Units[ReminderRow(e.reminders[i]).unit]
              = e.reminders[i]
      BY <2>1, ReminderKept DEF Expressible
    <2>3. m = [i \in 1..Len(e.reminders) |-> e.reminders[i]]
      BY <1>4, <2>1, <2>2
    <2>4. [i \in 1..Len(e.reminders) |-> e.reminders[i]] = e.reminders
      BY <1>2
    <2> HIDE DEF m
    <2> QED BY ONLY <2>3, <2>4
  <1>7. SavedStart(f) = e.start /\ SavedEnd(f) = e.end
    <2>1. CASE e.allDay
      <3>1. e.text = "date" /\ e.start < e.end
        BY <2>1 DEF WellFormed
      <3>2. f.startDate = e.start /\ f.endDate = e.end - 1
        BY <1>4, <2>1, <3>1
      <3>3. Greatest(e.end - 1, e.start) + 1 = e.end
        BY <1>2, <3>1 DEF Greatest
      <3> QED BY <1>4, <2>1, <3>2, <3>3 DEF SavedStart, SavedEnd
    <2>2. CASE ~e.allDay
      <3>1. e.start < e.end /\ ~SecondPass(clock, e.start) /\ ~SecondPass(clock, e.end)
        BY <2>2 DEF Expressible
      <3>2. /\ LocalDatetime(clock, DateOf(clock, e.start), TimeOf(clock, e.start)) = e.start
            /\ LocalDatetime(clock, DateOf(clock, e.end), TimeOf(clock, e.end)) = e.end
        BY <1>2, <1>3, <3>1, FieldsLeadBack
      <3>3. /\ DateOf(clock, e.start) \in Int /\ DateOf(clock, e.end) \in Int
            /\ DateOf(clock, e.start) <= DateOf(clock, e.end)
        BY <1>2, <1>3, <3>1, DatesInOrder, LocalTyped
      <3>4. Greatest(f.endDate, f.startDate) = f.endDate
        BY <1>4, <2>2, <3>3 DEF Greatest
      <3>5. SavedStart(f) = e.start
        BY <1>4, <2>2, <3>2 DEF SavedStart
      <3>6. ~(e.end <= e.start)
        BY <1>2, <3>1
      <3> QED BY <1>4, <2>2, <3>2, <3>4, <3>5, <3>6 DEF SavedEnd
    <2> QED BY <1>2, <2>1, <2>2
  <1>8. (IF e.allDay THEN "date" ELSE "instant") = e.text
    BY <1>2 DEF WellFormed
  <1>9. Saved(f) = [allDay |-> f.allDay, shift |-> 0,
                    text |-> IF f.allDay THEN "date" ELSE "instant",
                    start |-> SavedStart(f), end |-> SavedEnd(f), rule |-> ToRRule(f.rule),
                    reminders |-> m]
    BY <1>2, <1>4, SavedIs
  <1> HIDE DEF m
  <1>10. Saved(f) = [allDay |-> e.allDay, shift |-> 0, text |-> e.text, start |-> e.start,
                     end |-> e.end, rule |-> e.rule, reminders |-> e.reminders]
    BY <1>4, <1>5, <1>6, <1>7, <1>8, <1>9
  <1>11. [e EXCEPT !.shift = 0]
           = [allDay |-> e.allDay, shift |-> 0, text |-> e.text, start |-> e.start,
              end |-> e.end, rule |-> e.rule, reminders |-> e.reminders]
    BY <1>2
  <1> QED BY <1>10, <1>11 DEF f

-----------------------------------------------------------------------------
(* Drags.                                                                  *)

LEMMA SnappedTyped ==
  ASSUME NEW units \in Int, NEW snap \in Snaps
  PROVE  Snapped(units, snap) \in Int
  <1>1. snap \in Nat \ {0}
    BY Constants
  <1>2. snap \div 2 \in Int
    BY <1>1, DivMod
  <1>3. (units + (snap \div 2)) \div snap \in Int
    BY <1>1, <1>2, DivMod
  <1>4. ((units + (snap \div 2)) \div snap) * snap \in Int
    BY <1>1, <1>3, Product
  <1> QED BY <1>4 DEF Snapped

\* The two ends of the swept range, and the bounds they are kept in.
SweptStart(low, snap) == Greatest(0, Least((low \div snap) * snap, DayLen - snap))
SweptEnd(low, high, snap) ==
  Least(Greatest((-((-high) \div snap)) * snap, SweptStart(low, snap) + snap), DayLen)

LEMMA Swept ==
  ASSUME NEW low \in Int, NEW high \in Int, NEW snap \in Nat \ {0}
  PROVE  /\ SweptStart(low, snap) \in Int /\ SweptEnd(low, high, snap) \in Int
         /\ snap <= DayLen /\ 0 <= low /\ low <= high /\ high <= DayLen =>
              /\ 0 <= SweptStart(low, snap) /\ SweptStart(low, snap) <= low
              /\ high <= SweptEnd(low, high, snap) /\ SweptEnd(low, high, snap) <= DayLen
              /\ SweptStart(low, snap) + snap <= SweptEnd(low, high, snap)
  <1> DEFINE floor == (low \div snap) * snap
             under == ((-high) \div snap) * snap
             ceil == (-((-high) \div snap)) * snap
  <1>1. floor \in Int /\ floor <= low
    BY DivMod
  <1>2. under \in Int /\ under <= -high
    <2>1. -high \in Int
      OBVIOUS
    <2> QED BY <2>1, DivMod
  <1>3. ceil = -under
    <2>1. (-high) \div snap \in Int
      OBVIOUS
    <2>2. \A a, b \in Int : (-a) * b = -(a * b)
      OBVIOUS
    <2> QED BY <2>1, <2>2
  <1> HIDE DEF floor, under, ceil
  <1>4. ceil \in Int /\ high <= ceil
    BY <1>2, <1>3
  <1>5. /\ SweptStart(low, snap) = Greatest(0, Least(floor, DayLen - snap))
        /\ SweptEnd(low, high, snap) = Least(Greatest(ceil, SweptStart(low, snap) + snap), DayLen)
    BY DEF SweptStart, SweptEnd, floor, ceil
  <1> QED BY <1>1, <1>4, <1>5, Constants DEF Greatest, Least

LEMMA CreateRangeIs ==
  ASSUME NEW k, NEW date, NEW anchor, NEW pointer, NEW snap
  PROVE  CreateRange(k, date, anchor, pointer, snap)
           = [start |-> LocalDatetime(k, date, 0) + SweptStart(Least(anchor, pointer), snap),
              end |-> LocalDatetime(k, date, 0)
                        + SweptEnd(Least(anchor, pointer), Greatest(anchor, pointer), snap)]
  BY DEF CreateRange, SweptStart, SweptEnd

LEMMA CreateRangeTyped ==
  ASSUME NEW k \in Clocks, NEW date \in Int, NEW anchor \in Int, NEW pointer \in Int,
         NEW snap \in Snaps
  PROVE  /\ CreateRange(k, date, anchor, pointer, snap).start \in Int
         /\ CreateRange(k, date, anchor, pointer, snap).end \in Int
  <1>1. LocalDatetime(k, date, 0) \in Int /\ snap \in Nat \ {0}
    BY Constants, LocalTyped
  <1>2. Least(anchor, pointer) \in Int /\ Greatest(anchor, pointer) \in Int
    BY DEF Least, Greatest
  <1>3. /\ SweptStart(Least(anchor, pointer), snap) \in Int
        /\ SweptEnd(Least(anchor, pointer), Greatest(anchor, pointer), snap) \in Int
    BY <1>1, <1>2, Swept
  <1> QED BY <1>1, <1>3, CreateRangeIs

\* A drag over the empty grid makes an event that covers what the pointer has
\* swept, lies inside the day, and is no shorter than one slot
\* (compute_day_create_range: "so the range always covers every slot the pointer
\* has swept through ... never shorter than one snap_minutes slot, and clamped
\* to the day").
THEOREM SweptIsCovered ==
  ASSUME NEW k \in Clocks, NEW date \in Int, NEW anchor \in 0..DayLen, NEW pointer \in 0..DayLen,
         NEW snap \in Snaps, snap <= DayLen
  PROVE  LET range == CreateRange(k, date, anchor, pointer, snap)
             midnight == LocalDatetime(k, date, 0)
         IN /\ midnight <= range.start /\ range.end <= midnight + DayLen
            /\ range.start + snap <= range.end
            /\ \A at \in {anchor, pointer} :
                 range.start <= midnight + at /\ midnight + at <= range.end
  <1> DEFINE low == Least(anchor, pointer)
             high == Greatest(anchor, pointer)
             midnight == LocalDatetime(k, date, 0)
  <1>1. midnight \in Int /\ snap \in Nat \ {0} /\ DayLen \in Nat
    BY Constants, LocalTyped
  <1>2. /\ low \in Int /\ high \in Int /\ 0 <= low /\ low <= high /\ high <= DayLen
        /\ \A at \in {anchor, pointer} : at \in Int /\ low <= at /\ at <= high
    BY <1>1 DEF Least, Greatest
  <1>3. CreateRange(k, date, anchor, pointer, snap)
          = [start |-> midnight + SweptStart(low, snap),
             end |-> midnight + SweptEnd(low, high, snap)]
    BY CreateRangeIs
  <1> HIDE DEF low, high, midnight
  <1>4. /\ SweptStart(low, snap) \in Int /\ SweptEnd(low, high, snap) \in Int
        /\ 0 <= SweptStart(low, snap) /\ SweptStart(low, snap) <= low
        /\ high <= SweptEnd(low, high, snap) /\ SweptEnd(low, high, snap) <= DayLen
        /\ SweptStart(low, snap) + snap <= SweptEnd(low, high, snap)
    BY <1>1, <1>2, Swept
  <1> DEFINE range == CreateRange(k, date, anchor, pointer, snap)
  <1>5. /\ range.start = midnight + SweptStart(low, snap)
        /\ range.end = midnight + SweptEnd(low, high, snap)
    BY <1>3
  <1> HIDE DEF range
  <1>6. /\ midnight <= range.start /\ range.end <= midnight + DayLen
        /\ range.start + snap <= range.end
        /\ \A at \in {anchor, pointer} : range.start <= midnight + at /\ midnight + at <= range.end
    BY <1>1, <1>2, <1>4, <1>5
  <1> QED BY <1>6 DEF range, midnight

\* The midnight of the column a drag is over.
ColumnStart(k, drag, shift) == LocalDatetime(k, Dates[TargetColumn(drag, shift)], 0)

LEMMA ColumnTyped ==
  ASSUME NEW k \in Clocks, NEW drag \in Grabs, NEW shift \in Int
  PROVE  /\ TargetColumn(drag, shift) \in DOMAIN Dates
         /\ drag.zone # "Move" => TargetColumn(drag, shift) = drag.column
         /\ ColumnStart(k, drag, shift) \in Int
  <1>1. drag.column \in 1..Len(Dates) /\ Len(Dates) \in Nat /\ DOMAIN Dates = 1..Len(Dates)
    BY Constants DEF Grabs
  <1>2. Greatest(1, Least(Len(Dates), drag.column + shift)) \in 1..Len(Dates)
    BY <1>1 DEF Greatest, Least
  <1>3. TargetColumn(drag, shift) \in DOMAIN Dates
    BY <1>1, <1>2 DEF TargetColumn
  <1>4. Dates[TargetColumn(drag, shift)] \in Int
    BY <1>3, Constants
  <1>5. ColumnStart(k, drag, shift) \in Int
    BY <1>4, ClocksTell DEF ColumnStart
  <1> QED BY <1>3, <1>5 DEF TargetColumn

\* What compute_day_drag_times makes of each of the three zones.
LEMMA DragIs ==
  ASSUME NEW k \in Clocks, NEW drag \in Grabs, NEW shift \in Int, NEW offset \in Int,
         NEW snap \in Snaps
  PROVE  LET times == DragTimes(k, drag, shift, offset, snap)
             dayStart == ColumnStart(k, drag, shift)
         IN /\ times.start \in Int /\ times.end \in Int
            /\ drag.zone = "Move" =>
                 /\ times.end - times.start = drag.end - drag.start
                 /\ times.end <= dayStart + DayLen
                 /\ drag.end - drag.start <= DayLen => dayStart <= times.start
            /\ drag.zone = "ResizeTop" =>
                 /\ times.end = drag.end
                 /\ times.start + Quarter <= times.end
                 /\ dayStart + Quarter <= drag.end => dayStart <= times.start
            /\ drag.zone = "ResizeBottom" =>
                 /\ times.start = drag.start
                 /\ times.end <= dayStart + DayLen
                 /\ drag.start <= dayStart + DayLen => times.start <= times.end
                 /\ drag.start + Quarter <= dayStart + DayLen => times.start + Quarter <= times.end
  <1> DEFINE midnight == LocalDatetime(k, DateOf(k, drag.start), 0)
             dayStart == ColumnStart(k, drag, shift)
             top == dayStart + Snapped(drag.start - midnight + offset, snap)
             bottom == dayStart + Snapped(drag.end - midnight + offset, snap)
             times == DragTimes(k, drag, shift, offset, snap)
  <1>1. /\ drag.zone \in Zones /\ drag.start \in Int /\ drag.end \in Int
        /\ DayLen \in Nat \ {0} /\ Quarter \in Nat \ {0}
    BY Constants DEF Grabs
  <1>2. dayStart \in Int
    BY ColumnTyped
  <1>3. midnight \in Int
    BY <1>1, ClocksTell
  <1> HIDE DEF midnight, dayStart
  <1>4. top \in Int /\ bottom \in Int
    <2>1. drag.start - midnight + offset \in Int /\ drag.end - midnight + offset \in Int
      BY <1>1, <1>3
    <2> QED BY <1>2, <2>1, SnappedTyped
  <1>5. times =
          CASE drag.zone = "Move" ->
                 LET start == Least(Greatest(top, dayStart),
                                    (dayStart + DayLen) - (drag.end - drag.start))
                 IN [start |-> start, end |-> start + (drag.end - drag.start)]
            [] drag.zone = "ResizeTop" ->
                 [start |-> Least(Greatest(top, dayStart), drag.end - Quarter), end |-> drag.end]
            [] drag.zone = "ResizeBottom" ->
                 [start |-> drag.start,
                  end |-> Least(Greatest(bottom, drag.start + Quarter), dayStart + DayLen)]
    BY DEF DragTimes, ColumnStart, midnight, dayStart
  <1> HIDE DEF top, bottom, times
  <1>6. CASE drag.zone = "Move"
    <2>1. /\ times.start = Least(Greatest(top, dayStart),
                                 (dayStart + DayLen) - (drag.end - drag.start))
          /\ times.end = times.start + (drag.end - drag.start)
      BY <1>5, <1>6
    <2>2. /\ times.start \in Int /\ times.end \in Int
          /\ times.end - times.start = drag.end - drag.start
          /\ times.end <= dayStart + DayLen
          /\ drag.end - drag.start <= DayLen => dayStart <= times.start
      BY <1>1, <1>2, <1>4, <2>1 DEF Least, Greatest
    <2> QED BY <1>6, <2>2 DEF times, dayStart
  <1>7. CASE drag.zone = "ResizeTop"
    <2>1. /\ times.start = Least(Greatest(top, dayStart), drag.end - Quarter)
          /\ times.end = drag.end
      BY <1>5, <1>7
    <2>2. /\ times.start \in Int /\ times.end \in Int
          /\ times.start + Quarter <= times.end
          /\ dayStart + Quarter <= drag.end => dayStart <= times.start
      BY <1>1, <1>2, <1>4, <2>1 DEF Least, Greatest
    <2> QED BY <1>7, <2>1, <2>2 DEF times, dayStart
  <1>8. CASE drag.zone = "ResizeBottom"
    <2>1. /\ times.start = drag.start
          /\ times.end = Least(Greatest(bottom, drag.start + Quarter), dayStart + DayLen)
      BY <1>5, <1>8
    <2>2. /\ times.start \in Int /\ times.end \in Int
          /\ times.end <= dayStart + DayLen
          /\ drag.start <= dayStart + DayLen => times.start <= times.end
          /\ drag.start + Quarter <= dayStart + DayLen => times.start + Quarter <= times.end
      BY <1>1, <1>2, <1>4, <2>1 DEF Least, Greatest
    <2> QED BY <1>8, <2>1, <2>2 DEF times, dayStart
  <1> QED BY <1>1, <1>6, <1>7, <1>8 DEF Zones

\* What a drag gives lies within the 24 hours from the midnight of the column
\* it ends over.
LEMMA DragWithin ==
  ASSUME NEW k \in Clocks, NEW drag \in Grabs, NEW shift \in Int, NEW offset \in Int,
         NEW snap \in Snaps, Draggable(k, drag)
  PROVE  LET times == DragTimes(k, drag, shift, offset, snap)
             dayStart == ColumnStart(k, drag, shift)
         IN /\ times.start \in Int /\ times.end \in Int
            /\ dayStart <= times.start /\ times.start + Quarter <= times.end
            /\ times.end <= dayStart + DayLen
            /\ KeepsTheRest(drag, times)
  <1> DEFINE times == DragTimes(k, drag, shift, offset, snap)
             dayStart == ColumnStart(k, drag, shift)
             home == LocalDatetime(k, Dates[drag.column], 0)
  <1>1. /\ drag.zone \in Zones /\ drag.start \in Int /\ drag.end \in Int
        /\ DayLen \in Nat \ {0} /\ Quarter \in Nat \ {0} /\ drag.column \in DOMAIN Dates
    BY Constants DEF Grabs
  <1>2. dayStart \in Int /\ (drag.zone # "Move" => TargetColumn(drag, shift) = drag.column)
    BY ColumnTyped
  <1>3. home \in Int /\ (drag.zone # "Move" => dayStart = home)
    BY <1>1, <1>2, Constants, ClocksTell DEF ColumnStart
  <1>4. /\ drag.start + Quarter <= drag.end
        /\ drag.zone = "Move" => drag.end - drag.start <= DayLen
        /\ drag.zone # "Move" => home <= drag.start /\ drag.end <= home + DayLen
    BY DEF Draggable
  <1>5. /\ times.start \in Int /\ times.end \in Int
        /\ drag.zone = "Move" =>
             /\ times.end - times.start = drag.end - drag.start
             /\ times.end <= dayStart + DayLen
             /\ drag.end - drag.start <= DayLen => dayStart <= times.start
        /\ drag.zone = "ResizeTop" =>
             /\ times.end = drag.end
             /\ times.start + Quarter <= times.end
             /\ dayStart + Quarter <= drag.end => dayStart <= times.start
        /\ drag.zone = "ResizeBottom" =>
             /\ times.start = drag.start
             /\ times.end <= dayStart + DayLen
             /\ drag.start + Quarter <= dayStart + DayLen => times.start + Quarter <= times.end
    BY DragIs
  <1> HIDE DEF times, home, dayStart
  <1>6. /\ dayStart <= times.start /\ times.start + Quarter <= times.end
        /\ times.end <= dayStart + DayLen
    <2>1. CASE drag.zone = "Move"
      BY <1>1, <1>2, <1>4, <1>5, <2>1
    <2>2. CASE drag.zone = "ResizeTop"
      BY <1>1, <1>2, <1>3, <1>4, <1>5, <2>2
    <2>3. CASE drag.zone = "ResizeBottom"
      BY <1>1, <1>2, <1>3, <1>4, <1>5, <2>3
    <2> QED BY <1>1, <2>1, <2>2, <2>3 DEF Zones
  <1>7. KeepsTheRest(drag, times)
    BY <1>5 DEF KeepsTheRest
  <1> QED BY <1>5, <1>6, <1>7 DEF times, dayStart

\* Where the dates are those of the calendar for 24 hours, it fits its day.
LEMMA DragFitsDay ==
  ASSUME NEW k \in Clocks, NEW drag \in Grabs, NEW shift \in Int, NEW offset \in Int,
         NEW snap \in Snaps, Draggable(k, drag),
         WholeDay(k, Dates[TargetColumn(drag, shift)])
  PROVE  FitsDay(k, Dates[TargetColumn(drag, shift)], DragTimes(k, drag, shift, offset, snap))
  <1> DEFINE times == DragTimes(k, drag, shift, offset, snap)
             dayStart == ColumnStart(k, drag, shift)
             date == Dates[TargetColumn(drag, shift)]
  <1>1. /\ times.start \in Int /\ times.end \in Int
        /\ dayStart <= times.start /\ times.start + Quarter <= times.end
        /\ times.end <= dayStart + DayLen
    BY DragWithin
  <1>2. dayStart \in Int /\ DayLen \in Nat \ {0} /\ Quarter \in Nat \ {0}
    BY ColumnTyped, Constants
  <1>3. \A i \in 0..DayLen - 1 : DateOf(k, dayStart + i) = date
    BY DEF WholeDay, ColumnStart
  <1> HIDE DEF times, dayStart, date
  <1>4. \A t \in Int : dayStart <= t /\ t < dayStart + DayLen => DateOf(k, t) = date
    <2> SUFFICES ASSUME NEW t \in Int, dayStart <= t, t < dayStart + DayLen
                 PROVE  DateOf(k, t) = date
      OBVIOUS
    <2>1. t - dayStart \in 0..DayLen - 1 /\ dayStart + (t - dayStart) = t
      BY <1>2
    <2> QED BY <1>3, <2>1
  <1>5. /\ dayStart <= times.start /\ times.start < dayStart + DayLen
        /\ dayStart <= times.end - 1 /\ times.end - 1 < dayStart + DayLen
        /\ times.end - 1 \in Int
    BY <1>1, <1>2
  <1>6. FitsDay(k, date, times)
    BY <1>1, <1>4, <1>5 DEF FitsDay
  <1> QED BY <1>6 DEF times, date

-----------------------------------------------------------------------------
(* The inductive invariant: what is stored, shown and held has its type, and *)
(* what is stored is well formed unless a drag has spoiled it.  A row can    *)
(* only be added while the button that adds one allows it.                   *)

FormInv ==
  /\ clock \in Clocks
  /\ event # None => IsEvent(event)
  /\ form # None => IsForm(form)
  /\ grab # NoGrab => grab \in Grabs
  /\ edits \in 0..MaxEdits
  /\ event # None /\ ~spoiled => WellFormed(event)

LEMMA RowRemoved ==
  ASSUME NEW rows \in Seq(ReminderRows), NEW i \in DOMAIN rows
  PROVE  RemoveAt(rows, i) \in Seq(ReminderRows) /\ Len(RemoveAt(rows, i)) = Len(rows) - 1
  <1> DEFINE a == SubSeq(rows, 1, i - 1)
             b == SubSeq(rows, i + 1, Len(rows))
  <1>1. Len(rows) \in Nat /\ i \in 1..Len(rows) /\ \A k \in 1..Len(rows) : rows[k] \in ReminderRows
    BY ElementOfSeq
  <1>2. a \in Seq(ReminderRows) /\ Len(a) = i - 1
    <2>1. /\ a \in Seq(ReminderRows)
          /\ Len(a) = (IF 1 <= i - 1 THEN i - 1 - 1 + 1 ELSE 0)
      <3>1. 1 \in Int /\ i - 1 \in Int /\ \A k \in 1..i - 1 : rows[k] \in ReminderRows
        BY <1>1
      <3> QED BY <3>1, SubSeqProperties
    <2> QED BY <1>1, <2>1
  <1>3. b \in Seq(ReminderRows) /\ Len(b) = Len(rows) - i
    <2>1. /\ b \in Seq(ReminderRows)
          /\ Len(b) = (IF i + 1 <= Len(rows) THEN Len(rows) - (i + 1) + 1 ELSE 0)
      <3>1. /\ i + 1 \in Int /\ Len(rows) \in Int
            /\ \A k \in i + 1..Len(rows) : rows[k] \in ReminderRows
        BY <1>1
      <3> QED BY <3>1, SubSeqProperties
    <2> QED BY <1>1, <2>1
  <1>4. RemoveAt(rows, i) = a \o b
    BY DEF RemoveAt
  <1> HIDE DEF a, b
  <1>5. a \o b \in Seq(ReminderRows) /\ Len(a \o b) = Len(a) + Len(b)
    BY <1>2, <1>3, ConcatProperties
  <1> QED BY <1>1, <1>2, <1>3, <1>4, <1>5

LEMMA ShowStep ==
  ASSUME FormInv, NEW f, IsForm(f), Show(f)
  PROVE  FormInv'
  BY DEF FormInv, Show, IsForm, IsEvent, WellFormed

LEMMA EditStep ==
  ASSUME FormInv, NEW f, IsForm(f), Edit(f)
  PROVE  FormInv'
  <1>1. edits' \in 0..MaxEdits
    BY Constants DEF FormInv, Edit
  <1> QED BY <1>1 DEF FormInv, Edit, IsForm, IsEvent, WellFormed

LEMMA NewEventTyped ==
  ASSUME NEW start \in Int, NEW end \in Int
  PROVE  IsEvent(NewEvent(start, end))
  <1>1. <<DefaultReminder>> \in Seq(Nat) /\ Len(<<DefaultReminder>>) = 1
    BY Constants
  <1>2. NoRule \in Stored
    BY DEF Stored
  <1>3. NewEvent(start, end) \in Events
    BY <1>1, <1>2 DEF NewEvent, Events
  <1>4. NewEvent(start, end).reminders = <<DefaultReminder>>
    BY DEF NewEvent
  <1> QED BY <1>1, <1>3, <1>4, Constants DEF IsEvent

LEMMA CreateStep == ASSUME FormInv, Create PROVE FormInv'
  <1> DEFINE now == TimeOf(clock, Now)
             start == Now + ((RoundTo - (now % RoundTo)) % RoundTo)
  <1>1. clock \in Clocks /\ now \in Int
    BY Constants, ClocksTell DEF FormInv
  <1>2. start \in Int
    <2>1. now % RoundTo \in Int
      BY <1>1, Constants, DivMod
    <2>2. RoundTo - (now % RoundTo) \in Int
      BY <2>1, Constants
    <2>3. (RoundTo - (now % RoundTo)) % RoundTo \in Int
      BY <2>2, Constants, DivMod
    <2> QED BY <2>3, Constants
  <1>3. Show(Opened(NewEvent(start, start + DefaultDuration), TRUE))
    BY DEF Create
  <1> HIDE DEF start
  <1>4. start + DefaultDuration \in Int
    BY <1>2, Constants
  <1>5. IsForm(Opened(NewEvent(start, start + DefaultDuration), TRUE))
    BY <1>1, <1>2, <1>4, NewEventTyped, OpenedTyped
  <1> QED BY <1>3, <1>5, ShowStep

LEMMA CreateDragStep ==
  ASSUME FormInv, NEW column \in DOMAIN Dates, NEW a \in Pointers, NEW b \in Pointers,
         NEW snap \in Snaps, CreateDrag(column, a, b, snap)
  PROVE  FormInv'
  <1> DEFINE range == CreateRange(clock, Dates[column], a, b, snap)
  <1>1. clock \in Clocks /\ Dates[column] \in Int /\ a \in Int /\ b \in Int
    BY Constants DEF FormInv
  <1>2. range.start \in Int /\ range.end \in Int
    BY <1>1, CreateRangeTyped
  <1>3. Show(Opened(NewEvent(range.start, range.end), TRUE))
    BY DEF CreateDrag
  <1> HIDE DEF range
  <1>4. IsForm(Opened(NewEvent(range.start, range.end), TRUE))
    BY <1>1, <1>2, NewEventTyped, OpenedTyped
  <1> QED BY <1>3, <1>4, ShowStep

LEMMA OpenStep == ASSUME FormInv, Open PROVE FormInv'
  <1>1. clock \in Clocks /\ IsEvent(event)
    BY DEF FormInv, Open
  <1>2. IsForm(Opened(event, FALSE)) /\ Show(Opened(event, FALSE))
    BY <1>1, OpenedTyped DEF Open
  <1> QED BY <1>2, ShowStep

\* Each field on its own.
LEMMA FieldSet ==
  ASSUME NEW f, IsForm(f)
  PROVE  /\ \A date \in Int : /\ IsForm([f EXCEPT !["startDate"] = date])
                              /\ IsForm([f EXCEPT !["endDate"] = date])
         /\ \A time \in 0..DayLen - 1 : /\ IsForm([f EXCEPT !["startTime"] = time])
                                        /\ IsForm([f EXCEPT !["endTime"] = time])
         /\ \A box \in BOOLEAN : IsForm([f EXCEPT !.allDay = box])
         /\ \A rule \in Rules : IsForm([f EXCEPT !.rule = rule])
         /\ \A row \in ReminderRows : \A i \in DOMAIN f.rows : IsForm([f EXCEPT !.rows[i] = row])
  <1>1. f \in Forms /\ Len(f.rows) <= MaxReminders /\ (f.canAdd => Len(f.rows) < MaxReminders)
    BY DEF IsForm
  <1>2. \A date \in Int : /\ IsForm([f EXCEPT !["startDate"] = date])
                          /\ IsForm([f EXCEPT !["endDate"] = date])
    BY <1>1 DEF IsForm, Forms
  <1>3. \A time \in 0..DayLen - 1 : /\ IsForm([f EXCEPT !["startTime"] = time])
                                    /\ IsForm([f EXCEPT !["endTime"] = time])
    BY <1>1 DEF IsForm, Forms
  <1>4. \A box \in BOOLEAN : IsForm([f EXCEPT !.allDay = box])
    BY <1>1 DEF IsForm, Forms
  <1>5. \A rule \in Rules : IsForm([f EXCEPT !.rule = rule])
    BY <1>1 DEF IsForm, Forms
  <1>6. ASSUME NEW row \in ReminderRows, NEW i \in DOMAIN f.rows
        PROVE  IsForm([f EXCEPT !.rows[i] = row])
    <2>1. f.rows \in Seq(ReminderRows) /\ DOMAIN f.rows = 1..Len(f.rows) /\ Len(f.rows) \in Nat
      BY <1>1 DEF Forms
    <2>2. [f.rows EXCEPT ![i] = row] \in Seq(ReminderRows)
          /\ Len([f.rows EXCEPT ![i] = row]) = Len(f.rows)
      BY <2>1
    <2> QED BY <1>1, <2>2 DEF IsForm, Forms
  <1> QED BY <1>2, <1>3, <1>4, <1>5, <1>6

LEMMA FormOpen == ASSUME FormInv, form # None PROVE IsForm(form)
  BY DEF FormInv

LEMMA PickDateStep ==
  ASSUME FormInv, NEW field \in {"startDate", "endDate"}, NEW date \in PickDates,
         PickDate(field, date)
  PROVE  FormInv'
  <1>1. IsForm([form EXCEPT ![field] = date]) /\ Edit([form EXCEPT ![field] = date])
    <2>1. IsForm(form) /\ date \in Int
      BY FormOpen, Constants DEF PickDate
    <2>2. IsForm([form EXCEPT !["startDate"] = date]) /\ IsForm([form EXCEPT !["endDate"] = date])
      BY <2>1, FieldSet
    <2> QED BY <2>2 DEF PickDate
  <1> QED BY <1>1, EditStep

LEMMA PickTimeStep ==
  ASSUME FormInv, NEW field \in {"startTime", "endTime"}, NEW time \in PickTimes,
         PickTime(field, time)
  PROVE  FormInv'
  <1>1. IsForm([form EXCEPT ![field] = time]) /\ Edit([form EXCEPT ![field] = time])
    <2>1. IsForm(form) /\ time \in 0..DayLen - 1
      BY FormOpen, Constants DEF PickTime
    <2>2. IsForm([form EXCEPT !["startTime"] = time]) /\ IsForm([form EXCEPT !["endTime"] = time])
      BY <2>1, FieldSet
    <2> QED BY <2>2 DEF PickTime
  <1> QED BY <1>1, EditStep

LEMMA ToggleStep == ASSUME FormInv, ToggleAllDay PROVE FormInv'
  <1>1. IsForm(form) /\ (~form.allDay) \in BOOLEAN
    BY FormOpen DEF ToggleAllDay
  <1>2. IsForm([form EXCEPT !.allDay = ~form.allDay])
    BY <1>1, FieldSet
  <1> QED BY <1>2, EditStep DEF ToggleAllDay

LEMMA PresetStep == ASSUME FormInv, ChoosePreset PROVE FormInv'
  <1>1. IsForm(form) /\ form.startDate \in Int
    BY FormOpen DEF ChoosePreset, IsForm, Forms
  <1>2. PICK rule \in Presets(form.startDate) : Edit([form EXCEPT !.rule = rule])
    BY DEF ChoosePreset
  <1>3. IsForm([form EXCEPT !.rule = rule])
    BY <1>1, <1>2, PresetsTyped, FieldSet
  <1> QED BY <1>2, <1>3, EditStep

LEMMA CustomStep == ASSUME FormInv, ChooseCustom PROVE FormInv'
  <1>1. IsForm(form) /\ form.startDate \in Int /\ form.rule \in Rules
    BY FormOpen DEF ChooseCustom, IsForm, Forms
  <1>2. PICK filled \in {CustomShown(form.rule, form.startDate)} \cup CustomChoices :
          Edit([form EXCEPT !.rule = CustomDone(filled, form.startDate)])
    BY DEF ChooseCustom
  <1>3. filled \in FilledIn
    <2>1. CustomChoices \subseteq FilledIn
      BY FieldsAssumption DEF FilledIn
    <2> QED BY <1>1, <1>2, <2>1, ShownTyped
  <1>4. CustomDone(filled, form.startDate) \in Rules
    BY <1>1, <1>3, DoneTyped
  <1>5. IsForm([form EXCEPT !.rule = CustomDone(filled, form.startDate)])
    BY <1>1, <1>4, FieldSet
  <1> QED BY <1>2, <1>5, EditStep

LEMMA AddStep == ASSUME FormInv, AddReminder PROVE FormInv'
  <1> DEFINE rows == Append(form.rows, ReminderRow(NewReminder))
             canAdd == Len(form.rows) + 1 < MaxReminders
             f == [form EXCEPT !.rows = rows, !.canAdd = canAdd]
  <1>1. form \in Forms /\ form.rows \in Seq(ReminderRows) /\ Len(form.rows) < MaxReminders
        /\ Len(form.rows) \in Nat
    BY FormOpen DEF AddReminder, IsForm, Forms
  <1>2. rows \in Seq(ReminderRows) /\ Len(rows) = Len(form.rows) + 1
    BY <1>1, ReminderTyped, Constants, AppendProperties
  <1>3. Edit(f)
    BY DEF AddReminder
  <1>4. canAdd \in BOOLEAN
    OBVIOUS
  <1> HIDE DEF rows, canAdd
  <1>5. f \in Forms /\ f.rows = rows /\ f.canAdd = canAdd
    BY <1>1, <1>2, <1>4 DEF Forms
  <1> HIDE DEF f
  <1>6. f.canAdd => Len(form.rows) + 1 < MaxReminders
    BY <1>5, Zenon DEF canAdd
  <1>7. Len(f.rows) = Len(form.rows) + 1 /\ Len(f.rows) <= MaxReminders
    BY <1>1, <1>2, <1>5, Constants
  <1>8. IsForm(f)
    BY <1>5, <1>6, <1>7, Zenon DEF IsForm
  <1> QED BY <1>3, <1>8, EditStep

LEMMA RemoveStep ==
  ASSUME FormInv, NEW i, RemoveReminder(i)
  PROVE  FormInv'
  <1> DEFINE rows == RemoveAt(form.rows, i)
             f == [form EXCEPT !.rows = rows, !.canAdd = TRUE]
  <1>1. form \in Forms /\ form.rows \in Seq(ReminderRows) /\ Len(form.rows) <= MaxReminders
        /\ Len(form.rows) \in Nat /\ i \in DOMAIN form.rows
    BY FormOpen DEF RemoveReminder, IsForm, Forms
  <1>2. rows \in Seq(ReminderRows) /\ Len(rows) = Len(form.rows) - 1
    BY <1>1, RowRemoved
  <1>3. Edit(f)
    BY DEF RemoveReminder
  <1> HIDE DEF rows
  <1>4. f \in Forms /\ f.rows = rows
    BY <1>1, <1>2 DEF Forms
  <1> HIDE DEF f
  <1>5. IsForm(f)
    BY <1>1, <1>2, <1>4, Constants DEF IsForm
  <1> QED BY <1>3, <1>5, EditStep

LEMMA SetReminderStep ==
  ASSUME FormInv, NEW i, NEW quantity \in Quantities, NEW unit \in DOMAIN Units,
         SetReminder(i, quantity, unit)
  PROVE  FormInv'
  <1>1. IsForm(form) /\ i \in DOMAIN form.rows
    BY FormOpen DEF SetReminder
  <1>2. [quantity |-> quantity, unit |-> unit] \in ReminderRows
    BY Constants DEF Quantities, ReminderRows
  <1>3. IsForm([form EXCEPT !.rows[i] = [quantity |-> quantity, unit |-> unit]])
    BY <1>1, <1>2, FieldSet
  <1> QED BY <1>3, EditStep DEF SetReminder

\* The form with the preview of its draft dragged.
Dragged(zone, column, shift, offset, snap) ==
  LET start == LocalDatetime(clock, form.startDate, form.startTime)
      end == LocalDatetime(clock, form.endDate, form.endTime)
      held == [zone |-> zone, start |-> start, end |-> end, column |-> column]
      times == DragTimes(clock, held, shift, offset, snap)
  IN [form EXCEPT !.startDate = DateOf(clock, times.start),
                  !.startTime = TimeOf(clock, times.start),
                  !.endDate = DateOf(clock, times.end),
                  !.endTime = TimeOf(clock, times.end)]

LEMMA DraftDragEdits ==
  ASSUME NEW zone, NEW shift, NEW offset, NEW snap, DraftDrag(zone, shift, offset, snap)
  PROVE  \E column \in DOMAIN Dates : Edit(Dragged(zone, column, shift, offset, snap))
  BY DEF DraftDrag, Dragged

LEMMA DraftDragStep ==
  ASSUME FormInv, NEW zone \in Zones, NEW shift \in Int, NEW offset \in Int, NEW snap \in Snaps,
         DraftDrag(zone, shift, offset, snap)
  PROVE  FormInv'
  <1>1. clock \in Clocks /\ form \in Forms /\ IsForm(form)
    BY FormOpen DEF DraftDrag, FormInv, IsForm
  <1>2. PICK column \in DOMAIN Dates : Edit(Dragged(zone, column, shift, offset, snap))
    BY DraftDragEdits
  <1> DEFINE start == LocalDatetime(clock, form.startDate, form.startTime)
             end == LocalDatetime(clock, form.endDate, form.endTime)
             held == [zone |-> zone, start |-> start, end |-> end, column |-> column]
             times == DragTimes(clock, held, shift, offset, snap)
             f == [form EXCEPT !.startDate = DateOf(clock, times.start),
                               !.startTime = TimeOf(clock, times.start),
                               !.endDate = DateOf(clock, times.end),
                               !.endTime = TimeOf(clock, times.end)]
  <1>3. Edit(f)
    BY <1>2 DEF Dragged
  <1>4. start \in Int /\ end \in Int
    <2>1. /\ form.startDate \in Int /\ form.endDate \in Int
          /\ form.startTime \in Int /\ form.endTime \in Int
      BY <1>1, Constants DEF Forms
    <2> QED BY <1>1, <2>1, Constants, LocalTyped
  <1> HIDE DEF start, end
  <1>5. held \in Grabs
    BY <1>4 DEF Grabs
  <1> HIDE DEF held
  <1>6. times.start \in Int /\ times.end \in Int
    BY <1>1, <1>5, DragIs
  <1> HIDE DEF times
  <1>7. /\ DateOf(clock, times.start) \in Int /\ TimeOf(clock, times.start) \in 0..DayLen - 1
        /\ DateOf(clock, times.end) \in Int /\ TimeOf(clock, times.end) \in 0..DayLen - 1
    BY <1>1, <1>6, ClocksTell
  <1>8. IsForm(f)
    BY <1>1, <1>7 DEF IsForm, Forms
  <1> HIDE DEF f
  <1> QED BY <1>3, <1>8, EditStep

LEMMA SaveStep == ASSUME FormInv, Save PROVE FormInv'
  <1>1. clock \in Clocks /\ IsForm(form)
    BY FormOpen DEF Save, FormInv
  <1>2. IsEvent(Saved(form)) /\ WellFormed(Saved(form))
    BY <1>1, SavedTyped
  <1>3. CASE event # None \/ form.draft
    BY <1>2, <1>3 DEF Save, FormInv, IsEvent, WellFormed
  <1>4. CASE ~(event # None \/ form.draft)
    BY <1>4 DEF Save, FormInv, IsEvent, WellFormed
  <1> QED BY <1>3, <1>4

LEMMA GoogleTyped == \A e \in GoogleEvents : IsEvent(e) /\ WellFormed(e)
  <1> SUFFICES ASSUME NEW e \in GoogleEvents PROVE IsEvent(e) /\ WellFormed(e)
    OBVIOUS
  <1>1. e \in StoredEvents /\ WellFormed(e) /\ Len(e.reminders) <= MaxReminders
    BY GoogleAssumption
  <1>2. e.rule \in Stored
    <2>1. e.rule \in StoredRules
      BY <1>1 DEF StoredEvents
    <2>2. Int \X (0..6) \subseteq Tokens
      BY DEF Tokens
    <2>3. \A tokens \in Seq(Int \X (0..6)) : tokens \in Seq(Tokens)
      BY <2>2
    <2> QED BY <2>1, <2>3 DEF StoredRules, Stored, Texts
  <1>3. e \in Events
    BY <1>1, <1>2 DEF StoredEvents, Events
  <1> QED BY <1>1, <1>3 DEF IsEvent

LEMMA SyncStep ==
  ASSUME FormInv, NEW e \in GoogleEvents \cup {None}, SyncDelivers(e)
  PROVE  FormInv'
  <1>1. e # None => IsEvent(e) /\ WellFormed(e)
    BY GoogleTyped
  <1>2. edits' \in 0..MaxEdits
    BY Constants DEF FormInv, SyncDelivers
  <1> QED BY <1>1, <1>2 DEF SyncDelivers, FormInv, IsEvent, IsForm, WellFormed

LEMMA GrabStep ==
  ASSUME FormInv, NEW zone \in Zones, Grab(zone)
  PROVE  FormInv'
  <1>1. PICK column \in DOMAIN Dates :
          grab' = [zone |-> zone, start |-> event.start, end |-> event.end, column |-> column]
    BY DEF Grab
  <1>2. event.start \in Int /\ event.end \in Int
    BY DEF Grab, FormInv, IsEvent, Events
  <1>3. grab' \in Grabs
    BY <1>1, <1>2 DEF Grabs
  <1> QED BY <1>3 DEF Grab, FormInv, IsEvent, IsForm, WellFormed

\* What the two kinds of drag write into a row.
Redated(e, start, end, text, shift) ==
  [allDay |-> e.allDay, text |-> text, start |-> start, end |-> end, shift |-> shift,
   rule |-> e.rule, reminders |-> e.reminders]

LEMMA RedatedTyped ==
  ASSUME NEW e \in Events, NEW start \in Int, NEW end \in Int, NEW text \in {"date", "instant"},
         NEW shift \in Int
  PROVE  Redated(e, start, end, text, shift) \in Events
  BY DEF Events, Redated

LEMMA RedatedFields ==
  ASSUME NEW e, NEW start, NEW end, NEW text, NEW shift, NEW f,
         f = Redated(e, start, end, text, shift)
  PROVE  /\ f.start = start /\ f.end = end /\ f.text = text /\ f.reminders = e.reminders
         /\ f.allDay = e.allDay
  BY DEF Redated

\* A drag leaves an event in order, unless its card begins too late or had
\* already been left with its end first.
LEMMA DragInOrder ==
  ASSUME clock \in Clocks, NEW drag \in Grabs, NEW shift \in Int, NEW offset \in Int,
         NEW snap \in Snaps, drag.start <= drag.end, ~BeginsTooLate(drag)
  PROVE  DragTimes(clock, drag, shift, offset, snap).start
           <= DragTimes(clock, drag, shift, offset, snap).end
  <1> DEFINE times == DragTimes(clock, drag, shift, offset, snap)
             dayStart == ColumnStart(clock, drag, shift)
  <1>1. /\ drag.zone \in Zones /\ drag.start \in Int /\ drag.end \in Int
        /\ DayLen \in Nat \ {0} /\ Quarter \in Nat \ {0}
    BY Constants DEF Grabs
  <1>2. dayStart \in Int
    BY ColumnTyped
  <1>3. /\ times.start \in Int /\ times.end \in Int
        /\ drag.zone = "Move" => times.end - times.start = drag.end - drag.start
        /\ drag.zone = "ResizeTop" => times.start + Quarter <= times.end
        /\ drag.zone = "ResizeBottom" =>
             (drag.start <= dayStart + DayLen => times.start <= times.end)
    BY DragIs
  <1>4. drag.zone = "ResizeBottom" => ~(dayStart + DayLen < drag.start)
    <2>1. drag.zone = "ResizeBottom" => dayStart = LocalDatetime(clock, Dates[drag.column], 0)
      BY ColumnTyped DEF ColumnStart
    <2> QED BY <2>1 DEF BeginsTooLate
  <1> HIDE DEF times, dayStart
  <1>5. times.start <= times.end
    BY <1>1, <1>2, <1>3, <1>4 DEF Zones
  <1> QED BY <1>5 DEF times

LEMMA ReleaseStep ==
  ASSUME FormInv, NEW shift \in Int, NEW offset \in Int, NEW snap \in Snaps,
         Release(shift, offset, snap)
  PROVE  FormInv'
  <1> DEFINE times == DragTimes(clock, grab, shift, offset, snap)
  <1>1. clock \in Clocks /\ grab \in Grabs /\ grab' = NoGrab
    BY DEF Release, FormInv
  <1>2. edits' \in 0..MaxEdits
    BY Constants DEF FormInv, Release
  <1>3. CASE event = None
    BY <1>1, <1>2, <1>3 DEF Release, FormInv, IsEvent, IsForm, WellFormed
  <1>4. CASE event # None
    <2>1. times.start \in Int /\ times.end \in Int
      BY <1>1, DragIs
    <2>2. grab.start <= grab.end /\ ~BeginsTooLate(grab) => times.start <= times.end
      BY <1>1, DragInOrder
    <2>3. /\ event' = Committed(event, times)
          /\ spoiled' = (spoiled \/ event.allDay \/ BeginsTooLate(grab) \/ grab.end < grab.start)
      BY <1>4 DEF Release
    <2> HIDE DEF times
    <2>4. event \in Events /\ Len(event.reminders) <= MaxReminders
      BY <1>4 DEF FormInv, IsEvent
    <2>5. /\ event' \in Events /\ event'.reminders = event.reminders
          /\ event'.start = times.start /\ event'.end = times.end /\ event'.text = "instant"
          /\ event'.allDay = event.allDay
      <3>1. event' = Redated(event, times.start, times.end, "instant", 0)
        BY <2>3, <2>4 DEF Committed, Redated, Events
      <3>2. Redated(event, times.start, times.end, "instant", 0) \in Events
        <4>1. 0 \in Int /\ "instant" \in {"date", "instant"}
          OBVIOUS
        <4> QED BY <2>1, <2>4, <4>1, RedatedTyped
      <3> QED BY <3>1, <3>2, RedatedFields
    <2>6. IsEvent(event)'
      BY <2>4, <2>5 DEF IsEvent
    <2>7. ~spoiled' => WellFormed(event)'
      <3> SUFFICES ASSUME ~spoiled' PROVE WellFormed(event)'
        OBVIOUS
      <3>1. ~event.allDay /\ ~BeginsTooLate(grab) /\ ~(grab.end < grab.start)
        BY <2>3
      <3>2. grab.start <= grab.end
        BY <1>1, <3>1 DEF Grabs
      <3> QED BY <2>2, <2>5, <3>1, <3>2 DEF WellFormed
    <2> QED BY <1>1, <1>2, <2>6, <2>7 DEF Release, FormInv, IsForm
  <1> QED BY <1>3, <1>4

LEMMA MonthDropStep ==
  ASSUME FormInv, NEW date \in PickDates, MonthDrop(date)
  PROVE  FormInv'
  <1> DEFINE dated == event.text = "date"
             shown == IF dated THEN event.start ELSE DateOf(clock, event.start) + event.shift
             move == (date - shown) * (IF dated THEN 1 ELSE DayLen)
             shift == IF dated THEN 0 ELSE date - DateOf(clock, event.start + move)
  <1>1. clock \in Clocks /\ IsEvent(event) /\ event \in Events /\ date \in Int
    BY Constants DEF MonthDrop, FormInv, IsEvent
  <1>2. event.start \in Int /\ event.end \in Int /\ event.shift \in Int
    BY <1>1 DEF Events
  <1>3. move \in Int
    <2>1. DateOf(clock, event.start) \in Int
      BY <1>1, <1>2, ClocksTell
    <2>2. shown \in Int
      BY <1>2, <2>1
    <2> HIDE DEF shown
    <2>3. date - shown \in Int /\ (IF dated THEN 1 ELSE DayLen) \in Int
      BY <1>1, <2>2, Constants
    <2> QED BY <2>3, Product
  <1>4. event' = [event EXCEPT !.start = event.start + move, !.end = event.end + move,
                               !.shift = shift]
    BY DEF MonthDrop
  <1> HIDE DEF move
  <1>5. shift \in Int
    <2>1. event.start + move \in Int
      BY <1>2, <1>3
    <2>2. DateOf(clock, event.start + move) \in Int
      BY <1>1, <2>1, ClocksTell
    <2> QED BY <1>1, <2>2
  <1> HIDE DEF shift
  <1>6. /\ event' \in Events /\ event'.reminders = event.reminders
        /\ event'.start = event.start + move /\ event'.end = event.end + move
        /\ event'.allDay = event.allDay
        /\ event'.text = event.text
    <2>1. event.start + move \in Int /\ event.end + move \in Int
      BY <1>2, <1>3
    <2>2. event' = Redated(event, event.start + move, event.end + move, event.text, shift)
      BY <1>1, <1>4 DEF Redated, Events
    <2>3. Redated(event, event.start + move, event.end + move, event.text, shift) \in Events
      <3>1. event.text \in {"date", "instant"}
        BY <1>1 DEF Events
      <3> QED BY <1>1, <1>5, <2>1, <3>1, RedatedTyped
    <2> QED BY <2>2, <2>3, RedatedFields
  <1>7. IsEvent(event)'
    BY <1>1, <1>6 DEF IsEvent
  <1>8. WellFormed(event) => WellFormed(event)'
    BY <1>2, <1>3, <1>6 DEF WellFormed
  <1>9. edits' \in 0..MaxEdits
    <2>1. edits < MaxEdits /\ edits' = edits + 1
      BY Zenon DEF MonthDrop
    <2> QED BY <2>1, Constants DEF FormInv
  <1> QED BY <1>7, <1>8, <1>9 DEF MonthDrop, FormInv, IsForm

LEMMA CloseStep == ASSUME FormInv, CloseForm PROVE FormInv'
  BY DEF CloseForm, FormInv, IsEvent, WellFormed

LEMMA LetGoStep == ASSUME FormInv, LetGo PROVE FormInv'
  BY DEF LetGo, FormInv, IsEvent, IsForm, WellFormed

LEMMA StutterStep == ASSUME FormInv, UNCHANGED vars PROVE FormInv'
  BY DEF vars, FormInv, IsEvent, IsForm, WellFormed

LEMMA FormInit == Init => FormInv
  <1> SUFFICES ASSUME Init PROVE FormInv
    OBVIOUS
  <1>1. event # None => IsEvent(event) /\ WellFormed(event)
    BY GoogleTyped DEF Init
  <1> QED BY <1>1, Constants DEF Init, FormInv

LEMMA FormStep == FormInv /\ [Next]_vars => FormInv'
  <1> SUFFICES ASSUME FormInv, [Next]_vars PROVE FormInv'
    OBVIOUS
  <1>1. \A shift \in {-1, 0, 1} : shift \in Int
    OBVIOUS
  <1>2. \A offset \in Offsets : offset \in Int
    BY Constants
  <1>3. CASE Create
    BY <1>3, CreateStep
  <1>4. CASE \E column \in DOMAIN Dates, a, b \in Pointers, snap \in Snaps :
               CreateDrag(column, a, b, snap)
    BY <1>4, CreateDragStep
  <1>5. CASE Open
    BY <1>5, OpenStep
  <1>6. CASE \E field \in {"startDate", "endDate"}, date \in PickDates : PickDate(field, date)
    BY <1>6, PickDateStep
  <1>7. CASE \E field \in {"startTime", "endTime"}, time \in PickTimes : PickTime(field, time)
    BY <1>7, PickTimeStep
  <1>8. CASE ToggleAllDay
    BY <1>8, ToggleStep
  <1>9. CASE ChoosePreset
    BY <1>9, PresetStep
  <1>10. CASE ChooseCustom
    BY <1>10, CustomStep
  <1>11. CASE AddReminder
    BY <1>11, AddStep
  <1>12. CASE \E i \in 1..MaxReminders : RemoveReminder(i)
    BY <1>12, RemoveStep
  <1>13. CASE \E i \in 1..MaxReminders, quantity \in Quantities, unit \in DOMAIN Units :
                SetReminder(i, quantity, unit)
    BY <1>13, SetReminderStep
  <1>14. CASE \E zone \in Zones, shift \in {-1, 0, 1}, offset \in Offsets, snap \in Snaps :
                DraftDrag(zone, shift, offset, snap)
    BY <1>1, <1>2, <1>14, DraftDragStep
  <1>15. CASE Save
    BY <1>15, SaveStep
  <1>16. CASE CloseForm
    BY <1>16, CloseStep
  <1>17. CASE \E e \in GoogleEvents \cup {None} : SyncDelivers(e)
    BY <1>17, SyncStep
  <1>18. CASE \E zone \in Zones : Grab(zone)
    BY <1>18, GrabStep
  <1>19. CASE \E shift \in {-1, 0, 1}, offset \in Offsets, snap \in Snaps :
                Release(shift, offset, snap)
    BY <1>1, <1>2, <1>19, ReleaseStep
  <1>20. CASE \E date \in PickDates : MonthDrop(date)
    BY <1>20, MonthDropStep
  <1>21. CASE LetGo
    BY <1>21, LetGoStep
  <1>22. CASE UNCHANGED vars
    BY <1>22, StutterStep
  <1> QED BY <1>3, <1>4, <1>5, <1>6, <1>7, <1>8, <1>9, <1>10, <1>11, <1>12, <1>13, <1>14, <1>15,
             <1>16, <1>17, <1>18, <1>19, <1>20, <1>21, <1>22 DEF Next

\* FormInv holds through every action of the editor, the drags and the sync.
THEOREM FormSafe == Spec => []FormInv
  BY FormInit, FormStep, PTL DEF Spec

\* The fields stay within their widgets, and whatever is saved, dragged or
\* brought by a sync pass under an open form or a held card, the store has a
\* well-formed event (the Save handler, compute_day_drag_times), for every
\* clock, every day length and every number of edits.
THEOREM TypeCorrect == Spec => []TypeOK
  <1>1. FormInv => TypeOK
    <2> SUFFICES ASSUME FormInv PROVE TypeOK
      OBVIOUS
    <2>1. edits \in 0..MaxEdits /\ (event # None /\ ~spoiled => WellFormed(event))
      BY DEF FormInv
    <2>2. ASSUME form # None
          PROVE  /\ Len(form.rows) <= MaxReminders
                 /\ \A i \in DOMAIN form.rows : form.rows[i].quantity \in 0..SpinMax
                 /\ {form.startTime, form.endTime} \subseteq 0..DayLen - 1
      <3>1. IsForm(form)
        BY <2>2, FormOpen
      <3>2. form.rows \in Seq(ReminderRows) /\ Len(form.rows) <= MaxReminders
            /\ form.startTime \in 0..DayLen - 1 /\ form.endTime \in 0..DayLen - 1
        BY <3>1 DEF IsForm, Forms
      <3>3. \A i \in DOMAIN form.rows : form.rows[i] \in ReminderRows
        BY <3>2, ElementOfSeq
      <3> QED BY <3>2, <3>3 DEF ReminderRows
    <2> QED BY <2>1, <2>2 DEF TypeOK
  <1> QED BY <1>1, FormSafe, PTL

\* An event the fields can say comes back from the editor as it was, in its
\* days, its times, its repeat rule and its reminders, and its rule from the
\* custom dialog, whatever made the event (split_date_time and the Save handler,
\* from_rrule_string and to_rrule_string, minutes_to_quantity_unit).
THEOREM ReopeningKeeps == Spec => []ReopenKeeps
  <1>1. FormInv => ReopenKeeps
    <2> SUFFICES ASSUME FormInv, event # None, ~spoiled, Expressible(event)
                 PROVE  /\ Saved(Opened(event, FALSE)) = [event EXCEPT !.shift = 0]
                        /\ CustomKeeps(Opened(event, FALSE).rule, Opened(event, FALSE).startDate)
      BY DEF ReopenKeeps
    <2>1. clock \in Clocks /\ IsEvent(event) /\ WellFormed(event)
      BY DEF FormInv
    <2>2. Saved(Opened(event, FALSE)) = [event EXCEPT !.shift = 0]
      BY <2>1, SavedAsOpened
    <2>3. /\ Opened(event, FALSE).rule \in Rules
          /\ Opened(event, FALSE).startDate \in Int
      BY <2>1, OpenedTyped DEF IsForm, Forms
    <2> QED BY <2>2, <2>3, DialogKeeps
  <1> QED BY <1>1, FormSafe, PTL

\* A card that is dropped on a day with a midnight and 24 hours is an event of
\* that day, by the dates on the clock, and a quarter of an hour long or more;
\* its length, or its other end, is as before (compute_day_drag_times), whatever
\* the clock does on other days and whatever a sync pass did to the row.
THEOREM DragsFit == Spec => DragFits
  <1> DEFINE Dropped(shift, offset, snap) ==
               Release(shift, offset, snap) /\ event # None /\ Draggable(clock, grab)
             Fits(shift) ==
               /\ WholeDay(clock, Dates[TargetColumn(grab, shift)]) =>
                    FitsDay(clock, Dates[TargetColumn(grab, shift)], event')
               /\ KeepsTheRest(grab, event')
  <1>1. ASSUME FormInv, NEW shift \in {-1, 0, 1}, NEW offset \in Offsets, NEW snap \in Snaps,
               Dropped(shift, offset, snap)
        PROVE  Fits(shift)
    <2> DEFINE times == DragTimes(clock, grab, shift, offset, snap)
    <2>1. /\ clock \in Clocks /\ grab \in Grabs /\ shift \in Int /\ offset \in Int
          /\ event \in Events /\ Draggable(clock, grab)
      BY <1>1, Constants DEF FormInv, Release, IsEvent
    <2>2. /\ WholeDay(clock, Dates[TargetColumn(grab, shift)]) =>
               FitsDay(clock, Dates[TargetColumn(grab, shift)], times)
          /\ KeepsTheRest(grab, times)
      BY <2>1, DragWithin, DragFitsDay
    <2>3. event' = Committed(event, times)
      BY <1>1 DEF Release
    <2> HIDE DEF times
    <2>4. event'.start = times.start /\ event'.end = times.end
      BY <2>1, <2>3 DEF Committed, Events
    <2> QED BY <2>2, <2>4 DEF FitsDay, KeepsTheRest
  <1>2. FormInv =>
          [\A shift \in {-1, 0, 1}, offset \in Offsets, snap \in Snaps :
             Dropped(shift, offset, snap) => Fits(shift)]_vars
    BY <1>1
  <1>3. FormInv =>
          [\A shift \in {-1, 0, 1}, offset \in Offsets, snap \in Snaps :
             LET date == Dates[TargetColumn(grab, shift)]
             IN Release(shift, offset, snap) /\ event # None /\ Draggable(clock, grab) =>
                  /\ WholeDay(clock, date) => FitsDay(clock, date, event')
                  /\ KeepsTheRest(grab, event')]_vars
    BY <1>2
  <1> QED BY <1>3, FormSafe, PTL DEF Spec, DragFits
=============================================================================
