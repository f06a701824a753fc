-------------------------- MODULE EventEditsProofs --------------------------
(***************************************************************************)
(* Proofs about EventEdits, for every value of its constants: the shape    *)
(* and the constraints of the tables, that undoing leads back to where an  *)
(* event came from, and that the queue of edits ends in what the store     *)
(* holds and keeps the deletions.                                          *)
(***************************************************************************)
EXTENDS EventEdits, TLAPS, WellFoundedInduction

\* A set of natural numbers has a least element.
LEMMA LeastExists ==
  ASSUME NEW S \in SUBSET Nat, S # {}
  PROVE  \E n \in S : \A m \in S : n <= m
<1> DEFINE R == OpToRel(<, Nat)
<1>1. IsWellFoundedOn(R, Nat)
  BY NatLessThanWellFounded
<1>2. \A m, k \in Nat : m < k => <<m, k>> \in R
  BY DEF OpToRel
<1> HIDE DEF R
<1>3. PICK n \in S : \A m \in S : ~ (<<m, n>> \in R)
  BY <1>1, WFMin
<1>4. \A m \in S : ~ (m < n)
  BY <1>2, <1>3, Zenon
<1>5. \A m \in S : n <= m
  BY <1>4
<1>6. QED
  BY <1>5

\* A bounded one has a greatest.
LEMMA GreatestExists ==
  ASSUME NEW N \in Nat, NEW S \in SUBSET (0..N), S # {}
  PROVE  \E n \in S : \A m \in S : m <= n
<1> DEFINE D == {N - n : n \in S}
<1>1. \A n \in S : N - n \in Nat /\ n \in Nat
  OBVIOUS
<1>2. D \in SUBSET Nat
  BY <1>1
<1>3. D # {}
  OBVIOUS
<1>4. PICK d \in D : \A c \in D : d <= c
  BY <1>2, <1>3, LeastExists
<1>5. PICK n \in S : d = N - n
  BY <1>4
<1>6. \A m \in S : N - n <= N - m
  BY <1>4, <1>5
<1>7. QED
  BY <1>1, <1>5, <1>6

-----------------------------------------------------------------------------
(* The tables.                                                             *)

EventsOK ==
  /\ event \in [Ids -> Row \cup {NoEvent}]
  /\ reminders \in [Ids -> ReminderLists]
  /\ \A x \in Ids : Exists(x) => event[x].cal \in cals
  /\ \A x \in Ids : ~Exists(x) => reminders[x] = <<>>
  /\ \A x, y \in Ids : x # y /\ Exists(x) /\ Exists(y) /\ event[x].gid # Local =>
        event[y].cal # event[x].cal \/ event[y].gid # event[x].gid

HistoryOK ==
  /\ history \subseteq HistoryRow /\ Distinct(history)
  /\ \A h \in history : Exists(h.event) /\ h.state.cal \in cals

PendingOK ==
  /\ pending \subseteq PendingRow /\ Distinct(pending)
  /\ \A q \in pending : (q.op # "delete" => Exists(q.event)) /\ q.cal \in cals

RestOK ==
  /\ cals \subseteq Calendars
  /\ dialog \in {Closed} \cup Ids /\ looked \in {Closed} \cup Calendars
  /\ origin \in [Ids -> State \cup {Unknown}]
  /\ dirty \subseteq Ids /\ undone \subseteq dirty
  /\ deleted \subseteq Calendars \X Gids /\ dropped \subseteq deleted
  /\ spent \in [Budgets -> Nat]

\* TypeOK, table by table, and its uniqueness constraint pair by pair.
LEMMA TypeParts == TypeOK <=> EventsOK /\ HistoryOK /\ PendingOK /\ RestOK
<1> DEFINE Rows == \A e \in Ids : IF Exists(e) THEN Free(event[e].cal, event[e].gid, e)
                                              ELSE reminders[e] = <<>>
<1>1. EventsOK <=> /\ event \in [Ids -> Row \cup {NoEvent}]
                   /\ reminders \in [Ids -> ReminderLists]
                   /\ Rows
  BY DEF EventsOK, Free
<1>2. QED
  BY <1>1 DEF TypeOK, HistoryOK, PendingOK, RestOK

\* The budget counters stay natural numbers.
LEMMA SpendType ==
  ASSUME RestOK, NEW b \in Budgets, Spend(b)
  PROVE  spent' \in [Budgets -> Nat]
  BY DEF RestOK, Spend

\* A row that is there, field by field.
LEMMA RowParts ==
  ASSUME EventsOK, NEW e \in Ids, Exists(e)
  PROVE  /\ event[e] \in Row
         /\ event[e].cal \in Calendars /\ event[e].cal \in cals
         /\ event[e].gid \in Gids \cup {Local}
         /\ event[e].fields \in Fields
  BY DEF EventsOK, Exists, Row, Free

\* What the history would remember of a row is a state.
LEMMA SnapshotType ==
  ASSUME EventsOK, NEW e \in Ids, Exists(e)
  PROVE  Snapshot(e) \in State /\ Snapshot(e).cal \in cals
  BY RowParts DEF EventsOK, Snapshot, State

\* A restored row is one of the rows an event can have, and restoring it again
\* changes nothing.
LEMMA RestoredType ==
  ASSUME NEW f \in Fields
  PROVE  Restored(f) \in Fields /\ Restored(Restored(f)) = Restored(f)
<1>1. \A g \in Contents : g = [title |-> g.title, allDay |-> g.allDay, body |-> g.body]
  BY EditsAssumption
<1>2. CASE f \in Contents
  BY <1>1, <1>2, EditsAssumption DEF Fields, Restored
<1>3. CASE \E g \in Contents : f = Restored(g)
  <2>1. PICK g \in Contents : f = Restored(g)
    BY <1>3
  <2>2. Restored(f) = f
    BY <1>1, <2>1, EditsAssumption DEF Restored
  <2>3. QED
    BY <2>1, <2>2 DEF Fields
<1>4. QED
  BY <1>2, <1>3 DEF Fields

\* What an operation that stops half-way leaves of the reminders.
LEMMA WrittenType ==
  ASSUME EventsOK, NEW e \in Ids, NEW rs \in ReminderLists, NEW done
  PROVE  Written(e, rs, done) \subseteq ReminderLists
  BY EditsAssumption DEF Written, EventsOK

\* A new id is above the ones in use.
LEMMA NewIdIsNew ==
  ASSUME NEW S \in SUBSET Nat, NEW n \in Nat, NewId(n, S)
  PROVE  n \notin S /\ \A i \in S : i < n
  BY DEF NewId

-----------------------------------------------------------------------------
(* What the statements do to the tables.                                   *)

\* The events in S are as they were.
RowsSame(S) == \A x \in S : Snapshot(x)' = Snapshot(x) /\ (Exists(x)' <=> Exists(x))

\* The history has one entry more, the last, of e as it was.
Remembered(e) ==
  \E h \in HistoryRow :
    /\ history' = history \cup {h}
    /\ h.event = e /\ h.state = Snapshot(e)
    /\ \A x \in history : x.id < h.id

\* The queue has one edit more, the last, and e is what it says, or what an
\* undo makes of that.
Queued(e, back) ==
  \E q \in PendingRow :
    /\ pending' = pending \cup {q}
    /\ q.op # "delete" /\ q.event = e /\ q.cal = q.payload.cal
    /\ Snapshot(e)' = IF back THEN AsUndone(q.payload) ELSE q.payload
    /\ \A x \in pending : x.id < q.id

\* A history entry is added above all others, with the event as it is.
LEMMA RememberAdds ==
  ASSUME EventsOK, HistoryOK, NEW e \in Ids, Exists(e), Remember(e),
         cals' = cals, \A x \in Ids : Exists(x) => Exists(x)'
  PROVE  Remembered(e) /\ HistoryOK'
<1>1. PICK n \in LogIds : NewId(n, {x.id : x \in history}) /\ history' = history \cup {Entry(e, n)}
  BY DEF Remember
<1>2. /\ Entry(e, n) \in HistoryRow
      /\ Entry(e, n).event = e /\ Entry(e, n).state = Snapshot(e) /\ Entry(e, n).id = n
  BY SnapshotType DEF Entry, HistoryRow
<1>3. \A x \in history : x.id \in LogIds /\ x.id < n
  BY <1>1 DEF HistoryOK, HistoryRow, NewId
<1>4. Distinct(history')
  BY <1>1, <1>2, <1>3 DEF HistoryOK, Distinct, LogIds
<1>5. Remembered(e)
  BY <1>1, <1>2, <1>3 DEF Remembered
<1>6. history' \subseteq HistoryRow
  BY <1>1, <1>2 DEF HistoryOK
<1>7. \A h \in history' : Exists(h.event)' /\ h.state.cal \in cals'
  <2>1. \A h \in history : h.event \in Ids
    BY DEF HistoryOK, HistoryRow
  <2>2. QED
    BY <1>1, <1>2, <2>1, SnapshotType DEF HistoryOK
<1>8. QED
  BY <1>4, <1>5, <1>6, <1>7 DEF HistoryOK

\* So is an edit that is queued.
LEMMA QueueAdds ==
  ASSUME PendingOK, NEW op \in {"create", "update"}, NEW c \in cals, cals \subseteq Calendars,
         NEW e \in Ids, NEW payload \in State, payload.cal = c, NEW back \in BOOLEAN,
         Snapshot(e)' = IF back THEN AsUndone(payload) ELSE payload,
         Queue(op, c, e, payload),
         cals' = cals, Exists(e)', \A x \in Ids : Exists(x) => Exists(x)'
  PROVE  Queued(e, back) /\ PendingOK'
<1>1. PICK n \in LogIds :
        /\ NewId(n, {q.id : q \in pending})
        /\ pending' = pending \cup {[id |-> n, op |-> op, cal |-> c, event |-> e, payload |-> payload]}
  BY DEF Queue
<1> DEFINE q == [id |-> n, op |-> op, cal |-> c, event |-> e, payload |-> payload]
<1>2. q \in PendingRow
  BY DEF PendingRow
<1>3. \A x \in pending : x.id \in LogIds /\ x.id < n
  BY <1>1 DEF PendingOK, PendingRow, NewId
<1>4. Distinct(pending')
  BY <1>1, <1>3 DEF PendingOK, Distinct, LogIds
<1>5. Queued(e, back)
  BY <1>1, <1>2, <1>3 DEF Queued
<1>6. pending' \subseteq PendingRow
  BY <1>1, <1>2 DEF PendingOK
<1>7. \A x \in pending' : (x.op # "delete" => Exists(x.event)') /\ x.cal \in cals'
  <2>1. \A x \in pending : x.op # "delete" => x.event \in Ids
    BY DEF PendingOK, PendingRow
  <2>2. QED
    BY <1>1, <2>1 DEF PendingOK
<1>8. QED
  BY <1>4, <1>5, <1>6, <1>7 DEF PendingOK

\* The history and the queue stay sound when events are only added.
LEMMA LogsKept ==
  ASSUME HistoryOK, PendingOK, cals \subseteq cals', \A x \in Ids : Exists(x) => Exists(x)'
  PROVE  /\ history' \subseteq history => HistoryOK'
         /\ pending' \subseteq pending => PendingOK'
<1>1. \A h \in history : h.event \in Ids
  BY DEF HistoryOK, HistoryRow
<1>2. \A q \in pending : q.op # "delete" => q.event \in Ids
  BY DEF PendingOK, PendingRow
<1>3. ASSUME history' \subseteq history
      PROVE  HistoryOK'
  BY <1>1, <1>3 DEF HistoryOK, Distinct
<1>4. ASSUME pending' \subseteq pending
      PROVE  PendingOK'
  BY <1>2, <1>4 DEF PendingOK, Distinct
<1>5. QED
  BY <1>3, <1>4

\* One row is written, and the constraints allow it.
LEMMA WriteRow ==
  ASSUME EventsOK, NEW e \in Ids, NEW r \in Row, Free(r.cal, r.gid, e), UNCHANGED cals,
         event' = [event EXCEPT ![e] = r],
         reminders' \in [Ids -> ReminderLists],
         \A x \in Ids \ {e} : reminders'[x] = reminders[x]
  PROVE  /\ EventsOK'
         /\ Snapshot(e)' = [cal |-> r.cal, fields |-> r.fields, reminders |-> reminders'[e]]
         /\ Snapshot(e)' \in State
         /\ Exists(e)' /\ RowsSame(Ids \ {e})
<1>1. event'[e] = r /\ \A x \in Ids \ {e} : event'[x] = event[x]
  BY DEF EventsOK
<1>2. event' \in [Ids -> Row \cup {NoEvent}]
  BY DEF EventsOK
<1>3. Exists(e)' /\ \A x \in Ids \ {e} : Exists(x)' <=> Exists(x)
  BY <1>1, NoEventAssumption DEF Exists
<1>4. \A x \in Ids : Exists(x)' => event'[x].cal \in cals'
  BY <1>1, <1>3 DEF EventsOK, Free
<1>5. \A x \in Ids : ~Exists(x)' => reminders'[x] = <<>>
  BY <1>3 DEF EventsOK
<1>6. ASSUME NEW x \in Ids, NEW y \in Ids, x # y, Exists(x)', Exists(y)', event'[x].gid # Local
      PROVE  event'[y].cal # event'[x].cal \/ event'[y].gid # event'[x].gid
  <2>1. CASE x = e
    BY <1>1, <1>3, <1>6, <2>1 DEF Free
  <2>2. CASE y = e
    BY <1>1, <1>3, <1>6, <2>2 DEF Free
  <2>3. CASE x # e /\ y # e
    BY <1>1, <1>3, <1>6, <2>3 DEF EventsOK
  <2>4. QED
    BY <2>1, <2>2, <2>3
<1>7. EventsOK'
  BY <1>2, <1>4, <1>5, <1>6 DEF EventsOK
<1>8. Snapshot(e)' = [cal |-> r.cal, fields |-> r.fields, reminders |-> reminders'[e]]
  BY <1>1 DEF Snapshot
<1>9. Snapshot(e)' \in State
  BY <1>8 DEF State, Row
<1>10. RowsSame(Ids \ {e})
  BY <1>1, <1>3 DEF RowsSame, Snapshot
<1>11. QED
  BY <1>3, <1>7, <1>8, <1>9, <1>10

\* An UPDATE of two columns is a write of the row.
LEMMA UpdateIsWrite ==
  ASSUME EventsOK, NEW e \in Ids, Exists(e), NEW c \in Calendars, NEW f \in Fields
  PROVE  LET r == [cal |-> c, gid |-> event[e].gid, fields |-> f] IN
         r \in Row /\ [event EXCEPT ![e].cal = c, ![e].fields = f] = [event EXCEPT ![e] = r]
<1> DEFINE r == [cal |-> c, gid |-> event[e].gid, fields |-> f]
           v == [event EXCEPT ![e].cal = c, ![e].fields = f]
           w == [event EXCEPT ![e] = r]
<1>1. event[e] \in Row /\ event \in [Ids -> Row \cup {NoEvent}]
  BY RowParts DEF EventsOK
<1>2. v[e] = r
  BY <1>1 DEF Row
<1>3. \A x \in Ids \ {e} : v[x] = event[x]
  BY <1>1
<1>4. r \in Row
  BY <1>1 DEF Row
<1>5. v = w
  <2>1. v = [x \in Ids |-> v[x]] /\ w = [x \in Ids |-> w[x]]
    BY <1>1
  <2>2. \A x \in Ids : v[x] = w[x]
    BY <1>1, <1>2, <1>3
  <2> HIDE DEF v, w
  <2>3. QED
    BY <2>1, <2>2
<1>6. QED
  BY <1>4, <1>5

\* The rows E go, with what names them or a calendar in C, which goes too.
LEMMA CascadeKeeps ==
  ASSUME EventsOK, HistoryOK, PendingOK, NEW E \in SUBSET Ids, NEW C, Cascade(E, C),
         cals' = cals \ C, \A x \in Ids \ E : Exists(x) => event[x].cal \notin C
  PROVE  /\ EventsOK' /\ HistoryOK' /\ PendingOK'
         /\ history' \subseteq history /\ pending' \subseteq pending
         /\ RowsSame(Ids \ E) /\ \A x \in E : ~Exists(x)'
<1>1. /\ \A x \in Ids \ E : event'[x] = event[x] /\ reminders'[x] = reminders[x]
      /\ \A x \in E : event'[x] = NoEvent /\ reminders'[x] = <<>>
  BY DEF Cascade
<1>2. /\ event' \in [Ids -> Row \cup {NoEvent}]
      /\ reminders' \in [Ids -> ReminderLists]
  BY EditsAssumption DEF Cascade, EventsOK
<1>3. \A x \in Ids : Exists(x)' <=> x \notin E /\ Exists(x)
  BY <1>1 DEF Exists
<1>4. EventsOK'
  <2>1. \A x \in Ids : Exists(x)' => event'[x].cal \in cals'
    BY <1>1, <1>3 DEF EventsOK
  <2>2. \A x \in Ids : ~Exists(x)' => reminders'[x] = <<>>
    BY <1>1, <1>3 DEF EventsOK
  <2>3. \A x, y \in Ids : x # y /\ Exists(x)' /\ Exists(y)' /\ event'[x].gid # Local =>
          event'[y].cal # event'[x].cal \/ event'[y].gid # event'[x].gid
    BY <1>1, <1>3 DEF EventsOK
  <2>4. QED
    BY <1>2, <2>1, <2>2, <2>3 DEF EventsOK
<1>5. /\ history' = {h \in history : h.event \notin E /\ h.state.cal \notin C}
      /\ pending' = {q \in pending : q.event \notin E /\ q.cal \notin C}
  BY DEF Cascade
<1>6. HistoryOK'
  <2>1. \A h \in history' : h \in history /\ h.event \in Ids \ E /\ h.state.cal \in cals'
    BY <1>5 DEF HistoryOK, HistoryRow
  <2>2. QED
    BY <1>3, <2>1 DEF HistoryOK, Distinct
<1>7. PendingOK'
  <2>1. \A q \in pending' : q \in pending /\ q.event \notin E /\ q.cal \in cals'
    BY <1>5 DEF PendingOK
  <2>2. \A q \in pending' : q.op # "delete" => q.event \in Ids
    BY <2>1 DEF PendingOK, PendingRow
  <2>3. QED
    BY <1>3, <2>1, <2>2 DEF PendingOK, Distinct
<1>8. RowsSame(Ids \ E)
  BY <1>1, <1>3 DEF RowsSame, Snapshot
<1>9. QED
  BY <1>3, <1>4, <1>5, <1>6, <1>7, <1>8

-----------------------------------------------------------------------------
(* The first and the last row of a log.                                    *)

\* A log that is not empty has a first row.
LEMMA FirstIs ==
  ASSUME NEW S, S # {}, \A x \in S : x.id \in LogIds
  PROVE  First(S) \in S /\ \A y \in S : First(S).id <= y.id
<1> DEFINE N == {x.id : x \in S}
<1>1. N \in SUBSET Nat /\ N # {}
  BY DEF LogIds
<1>2. PICK n \in N : \A m \in N : n <= m
  BY <1>1, LeastExists
<1>3. PICK x \in S : x.id = n
  BY <1>2
<1>4. \A y \in S : x.id <= y.id
  BY <1>2, <1>3
<1>5. QED
  BY <1>3, <1>4 DEF First

\* It has a last row, for its ids are bounded.
LEMMA LastIs ==
  ASSUME NEW S, S # {}, \A x \in S : x.id \in LogIds
  PROVE  Last(S) \in S /\ \A y \in S : Last(S).id >= y.id
<1> DEFINE N == {x.id : x \in S}
<1>1. N \in SUBSET (0..MaxLog) /\ N # {} /\ MaxLog \in Nat
  BY EditsAssumption DEF LogIds
<1>2. PICK n \in N : \A m \in N : m <= n
  BY <1>1, GreatestExists
<1>3. PICK x \in S : x.id = n
  BY <1>2
<1>4. \A y \in S : x.id >= y.id
  BY <1>1, <1>2, <1>3
<1>5. QED
  BY <1>3, <1>4 DEF Last

\* A row above the others is not the first unless it is the only one.
LEMMA FirstOfMore ==
  ASSUME NEW S, S # {}, NEW h, Distinct(S \cup {h}), \A x \in S \cup {h} : x.id \in LogIds,
         \A x \in S : x.id < h.id
  PROVE  First(S \cup {h}) = First(S)
<1>1. First(S) \in S /\ \A y \in S : First(S).id <= y.id
  BY FirstIs
<1>2. /\ First(S \cup {h}) \in S \cup {h}
      /\ \A y \in S \cup {h} : First(S \cup {h}).id <= y.id
  BY FirstIs
<1>3. \A x \in S \cup {h} : x.id \in Int
  BY DEF LogIds
<1>4. First(S \cup {h}) # h
  BY <1>1, <1>2, <1>3
<1>5. First(S \cup {h}).id = First(S).id
  BY <1>1, <1>2, <1>3, <1>4
<1>6. QED
  BY <1>1, <1>2, <1>5 DEF Distinct

\* It is the last.
LEMMA LastOfMore ==
  ASSUME NEW S, NEW q, \A x \in S \cup {q} : x.id \in LogIds, \A x \in S : x.id < q.id
  PROVE  Last(S \cup {q}) = q
<1>1. /\ Last(S \cup {q}) \in S \cup {q}
      /\ \A y \in S \cup {q} : Last(S \cup {q}).id >= y.id
  BY LastIs
<1>2. \A x \in S \cup {q} : x.id \in Int
  BY DEF LogIds
<1>3. QED
  BY <1>1, <1>2

\* As long as the last row stays, it is the last.
LEMMA LastOfFewer ==
  ASSUME NEW S, Distinct(S), \A x \in S : x.id \in LogIds, NEW T \in SUBSET S, Last(S) \in T
  PROVE  Last(T) = Last(S)
<1>1. Last(S) \in S /\ \A y \in S : Last(S).id >= y.id
  BY LastIs
<1>2. Last(T) \in T /\ \A y \in T : Last(T).id >= y.id
  BY LastIs
<1>3. \A x \in S : x.id \in Int
  BY DEF LogIds
<1>4. Last(T).id = Last(S).id
  BY <1>1, <1>2, <1>3
<1>5. QED
  BY <1>1, <1>2, <1>4 DEF Distinct

-----------------------------------------------------------------------------
(* What the operations do.                                                 *)

\* What an undo makes of a state: in the calendar it was in, and the same again
\* when it is undone to.
LEMMA AsUndoneIs ==
  ASSUME NEW s \in State
  PROVE  /\ Restored(s.fields) \in Fields
         /\ AsUndone(s) = [cal |-> s.cal, fields |-> Restored(s.fields), reminders |-> s.reminders]
         /\ AsUndone(s).cal = s.cal
         /\ AsUndone(AsUndone(s)) = AsUndone(s)
<1>1. s = [cal |-> s.cal, fields |-> s.fields, reminders |-> s.reminders] /\ s.fields \in Fields
  BY DEF State
<1>2. Restored(s.fields) \in Fields /\ Restored(Restored(s.fields)) = Restored(s.fields)
  BY <1>1, RestoredType
<1>3. ASSUME NEW c, NEW f, NEW rs
      PROVE  AsUndone([cal |-> c, fields |-> f, reminders |-> rs])
               = [cal |-> c, fields |-> Restored(f), reminders |-> rs]
  BY DEF AsUndone
<1>4. AsUndone(s) = [cal |-> s.cal, fields |-> Restored(s.fields), reminders |-> s.reminders]
  BY <1>1, <1>3, Zenon
<1>5. AsUndone(s).cal = s.cal
  BY <1>4
<1>6. AsUndone(AsUndone(s))
        = [cal |-> s.cal, fields |-> Restored(Restored(s.fields)), reminders |-> s.reminders]
  <2> DEFINE f == Restored(s.fields)
  <2>1. AsUndone([cal |-> s.cal, fields |-> f, reminders |-> s.reminders])
          = [cal |-> s.cal, fields |-> Restored(f), reminders |-> s.reminders]
    BY <1>3
  <2>2. QED
    BY <1>4, <2>1
<1>7. AsUndone(AsUndone(s)) = AsUndone(s)
  BY <1>2, <1>4, <1>6
<1>8. QED
  BY <1>2, <1>4, <1>5, <1>7, Zenon

\* An edit, as far as it comes, remembers the event and touches no other.
LEMMA UpdateDoes ==
  ASSUME EventsOK, HistoryOK, PendingOK, RestOK, NEW e \in Ids, NEW c \in Calendars,
         NEW f \in Fields, NEW rs \in ReminderLists, NEW done, Update(e, c, f, rs, done), cals' = cals
  PROVE  /\ EventsOK' /\ HistoryOK' /\ PendingOK'
         /\ Exists(e) /\ Exists(e)' /\ RowsSame(Ids \ {e}) /\ Remembered(e)
         /\ IF done = "all" THEN Queued(e, FALSE) ELSE pending' = pending
<1>1. Exists(e) /\ Remember(e)
  BY DEF Update
<1>2. PICK part \in Written(e, rs, done) : reminders' = [reminders EXCEPT ![e] = part]
  BY DEF Update
<1>3. reminders' \in [Ids -> ReminderLists] /\ \A x \in Ids \ {e} : reminders'[x] = reminders[x]
  BY <1>2, WrittenType DEF EventsOK
<1>4. /\ EventsOK' /\ Exists(e)' /\ RowsSame(Ids \ {e})
      /\ done # "history" => /\ c \in cals
                             /\ Snapshot(e)' = [cal |-> c, fields |-> f, reminders |-> reminders'[e]]
  <2>1. CASE done = "history"
    <3>1. event' = event
      BY <2>1 DEF Update
    <3>2. event[e] \in Row /\ Free(event[e].cal, event[e].gid, e) /\ event' = [event EXCEPT ![e] = event[e]]
      BY <1>1, <3>1, RowParts DEF EventsOK, Free
    <3>3. QED
      BY <1>3, <2>1, <3>2, WriteRow
  <2>2. CASE done # "history"
    <3> DEFINE r == [cal |-> c, gid |-> event[e].gid, fields |-> f]
    <3>1. Free(c, event[e].gid, e) /\ event' = [event EXCEPT ![e].cal = c, ![e].fields = f]
      BY <2>2 DEF Update
    <3>2. r \in Row /\ event' = [event EXCEPT ![e] = r]
      BY <1>1, <3>1, UpdateIsWrite
    <3>3. r.cal = c /\ r.gid = event[e].gid /\ r.fields = f
      OBVIOUS
    <3> HIDE DEF r
    <3>4. Free(r.cal, r.gid, e)
      BY <3>1, <3>3
    <3>5. c \in cals
      BY <3>1 DEF Free
    <3>6. QED
      BY <1>3, <3>2, <3>3, <3>4, <3>5, WriteRow
  <2>3. QED
    BY <2>1, <2>2
<1>5. \A x \in Ids : Exists(x) => Exists(x)'
  BY <1>4 DEF RowsSame
<1>6. Remembered(e) /\ HistoryOK'
  BY <1>1, <1>5, RememberAdds
<1>7. CASE done = "all"
  <2> DEFINE payload == Payload(c, f, rs)
  <2>1. reminders'[e] = rs
    BY <1>2, <1>7 DEF Written, EventsOK
  <2>2. payload \in State /\ payload.cal = c /\ payload = Snapshot(e)' /\ c \in cals
    BY <1>4, <1>7, <2>1 DEF Payload, State
  <2>4. Queue("update", c, e, payload)
    BY <1>7 DEF Update
  <2> HIDE DEF payload
  <2>5. Queued(e, FALSE) /\ PendingOK'
    BY <1>4, <1>5, <2>2, <2>4, QueueAdds DEF RestOK
  <2>6. QED
    BY <1>1, <1>4, <1>6, <1>7, <2>5
<1>8. CASE done # "all"
  <2>1. pending' = pending
    BY <1>8 DEF Update
  <2>2. PendingOK'
    BY <1>5, <2>1, LogsKept
  <2>3. QED
    BY <1>1, <1>4, <1>6, <1>8, <2>1, <2>2
<1>9. QED
  BY <1>7, <1>8

\* Undo writes the last entry's snapshot back, as restored.
LEMMA UndoDoes ==
  ASSUME EventsOK, HistoryOK, PendingOK, RestOK, NEW h \in history, NEW done, Undo(h, done),
         cals' = cals, history' \subseteq history
  PROVE  /\ EventsOK' /\ HistoryOK' /\ PendingOK'
         /\ h.event \in Ids /\ h.state \in State
         /\ Exists(h.event)' /\ RowsSame(Ids \ {h.event})
         /\ \A x \in history : x.id <= h.id
         /\ done = "all" => Snapshot(h.event)' = AsUndone(h.state)
         /\ IF done \in {"queue", "all"} THEN Queued(h.event, TRUE) ELSE pending' = pending
<1> DEFINE e == h.event
           r == [cal |-> h.state.cal, gid |-> event[e].gid, fields |-> Restored(h.state.fields)]
<1>1. /\ e \in Ids /\ h.state \in State /\ h.state.cal \in cals /\ h.state.cal \in Calendars
      /\ h.state.reminders \in ReminderLists /\ Exists(e)
  BY DEF HistoryOK, HistoryRow, State
<1>2. /\ Restored(h.state.fields) \in Fields
      /\ AsUndone(h.state) = [cal |-> h.state.cal, fields |-> Restored(h.state.fields),
                              reminders |-> h.state.reminders]
  BY <1>1, AsUndoneIs
<1>3. /\ h = Last(history) /\ Free(h.state.cal, event[e].gid, e)
      /\ event' = [event EXCEPT ![e].cal = h.state.cal, ![e].fields = Restored(h.state.fields)]
  BY DEF Undo
<1>4. PICK part \in Written(e, h.state.reminders, done) :
        reminders' = [reminders EXCEPT ![e] = part]
  BY DEF Undo
<1>5. reminders' \in [Ids -> ReminderLists] /\ \A x \in Ids \ {e} : reminders'[x] = reminders[x]
  BY <1>1, <1>4, WrittenType DEF EventsOK
<1>6. \A x \in history : x.id <= h.id
  <2>1. \A x \in history : x.id \in LogIds
    BY DEF HistoryOK, HistoryRow
  <2>2. \A x \in history : Last(history).id >= x.id
    BY <2>1, LastIs
  <2>3. QED
    BY <1>3, <2>1, <2>2 DEF LogIds
<1>7. r \in Row /\ event' = [event EXCEPT ![e] = r]
  <2>1. /\ r \in Row
        /\ [event EXCEPT ![e].cal = h.state.cal, ![e].fields = Restored(h.state.fields)]
             = [event EXCEPT ![e] = r]
    BY <1>1, <1>2, UpdateIsWrite
  <2>2. QED
    BY <1>3, <2>1
<1>8. r.cal = h.state.cal /\ r.gid = event[e].gid /\ r.fields = Restored(h.state.fields)
  OBVIOUS
<1> HIDE DEF e, r
<1>9. Free(r.cal, r.gid, e)
  BY <1>3, <1>8
<1>10. /\ EventsOK' /\ Exists(e)' /\ RowsSame(Ids \ {e}) /\ Snapshot(e)' \in State
       /\ Snapshot(e)' = [cal |-> h.state.cal, fields |-> Restored(h.state.fields),
                          reminders |-> reminders'[e]]
  BY <1>1, <1>5, <1>7, <1>8, <1>9, WriteRow
<1>11. \A x \in Ids : Exists(x) => Exists(x)'
  BY <1>10 DEF RowsSame
<1>12. HistoryOK'
  BY <1>11, LogsKept
<1>13. CASE done \in {"queue", "all"}
  <2>1. reminders'[e] = h.state.reminders
    BY <1>1, <1>4, <1>13 DEF Written, EventsOK
  <2>2. Snapshot(e)' = AsUndone(h.state)
    BY <1>2, <1>10, <2>1
  <2>3. Queue("update", h.state.cal, e, h.state)
    BY <1>13 DEF Undo, e
  <2>4. Queued(e, TRUE) /\ PendingOK'
    BY <1>1, <1>10, <1>11, <2>2, <2>3, QueueAdds DEF RestOK
  <2>5. QED
    BY <1>1, <1>6, <1>10, <1>12, <1>13, <2>2, <2>4 DEF e
<1>14. CASE done \notin {"queue", "all"}
  <2>1. pending' = pending
    BY <1>14 DEF Undo
  <2>2. PendingOK'
    BY <1>11, <2>1, LogsKept
  <2>3. QED
    BY <1>1, <1>6, <1>10, <1>12, <1>14, <2>1, <2>2 DEF e
<1>15. QED
  BY <1>13, <1>14

\* A new event takes an id that is not in use.
LEMMA CreateDoes ==
  ASSUME EventsOK, HistoryOK, PendingOK, RestOK, NEW c \in Calendars, NEW f \in Fields,
         NEW rs \in ReminderLists, NEW done, Create(c, f, rs, done),
         cals' = cals, history' = history
  PROVE  /\ EventsOK' /\ HistoryOK' /\ PendingOK'
         /\ \E e \in Ids :
              /\ ~Exists(e) /\ Exists(e)' /\ RowsSame(Ids \ {e}) /\ Snapshot(e)' \in State
              /\ origin' = [origin EXCEPT ![e] = Snapshot(e)']
              /\ IF done = "all" THEN Queued(e, FALSE) /\ dirty' = dirty \cup {e}
                                 ELSE pending' = pending /\ dirty' = dirty
<1> DEFINE r == [cal |-> c, gid |-> Local, fields |-> f]
<1>1. PICK e \in Ids :
        /\ NewId(e, {x \in Ids : Exists(x)})
        /\ event' = [event EXCEPT ![e] = r]
        /\ \E part \in Written(e, rs, done) : reminders' = [reminders EXCEPT ![e] = part]
        /\ origin' = [origin EXCEPT ![e] = Snapshot(e)']
        /\ IF done = "all"
             THEN Queue("create", c, e, Payload(c, f, rs)) /\ dirty' = dirty \cup {e}
             ELSE UNCHANGED <<pending, dirty>>
  BY DEF Create
<1>2. PICK part \in Written(e, rs, done) : reminders' = [reminders EXCEPT ![e] = part]
  BY <1>1
<1>3. reminders' \in [Ids -> ReminderLists] /\ \A x \in Ids \ {e} : reminders'[x] = reminders[x]
  BY <1>2, WrittenType DEF EventsOK
<1>4. ~Exists(e)
  BY <1>1 DEF NewId, Ids
<1>5. c \in cals
  BY DEF Create
<1>6. r \in Row /\ r.cal = c /\ r.gid = Local /\ r.fields = f
  BY DEF Row
<1> HIDE DEF r
<1>7. Free(r.cal, r.gid, e)
  BY <1>5, <1>6 DEF Free
<1>8. /\ EventsOK' /\ Exists(e)' /\ RowsSame(Ids \ {e}) /\ Snapshot(e)' \in State
      /\ Snapshot(e)' = [cal |-> c, fields |-> f, reminders |-> reminders'[e]]
  BY <1>1, <1>3, <1>6, <1>7, WriteRow
<1>9. \A x \in Ids : Exists(x) => Exists(x)'
  BY <1>8 DEF RowsSame
<1>10. HistoryOK'
  BY <1>9, LogsKept
<1>11. CASE done = "all"
  <2> DEFINE payload == Payload(c, f, rs)
  <2>1. reminders'[e] = rs
    BY <1>2, <1>11 DEF Written, EventsOK
  <2>2. payload = Snapshot(e)' /\ payload.cal = c
    BY <1>8, <2>1 DEF Payload
  <2>4. Queue("create", c, e, payload) /\ dirty' = dirty \cup {e}
    BY <1>1, <1>11
  <2> HIDE DEF payload
  <2>5. Queued(e, FALSE) /\ PendingOK'
    BY <1>5, <1>8, <1>9, <2>2, <2>4, QueueAdds DEF RestOK
  <2>6. QED
    BY <1>1, <1>4, <1>8, <1>10, <1>11, <2>4, <2>5
<1>12. CASE done # "all"
  <2>1. pending' = pending /\ dirty' = dirty
    BY <1>1, <1>12
  <2>2. PendingOK'
    BY <1>9, <2>1, LogsKept
  <2>3. QED
    BY <1>1, <1>4, <1>8, <1>10, <1>12, <2>1, <2>2
<1>13. QED
  BY <1>11, <1>12

\* A deletion takes the row and what names it; the queue keeps the rest.
LEMMA DeleteDoes ==
  ASSUME EventsOK, HistoryOK, PendingOK, RestOK, NEW e \in Ids, NEW c, NEW done, Delete(e, c, done), done = "all" => c \in cals
  PROVE  /\ EventsOK' /\ HistoryOK' /\ PendingOK'
         /\ Exists(e) /\ ~Exists(e)' /\ RowsSame(Ids \ {e}) /\ Forget({e})
         /\ history' = history \ HistoryOf(e)
         /\ \A x \in Ids \ {e} : PendingOf(x)' = PendingOf(x)
         /\ {q \in pending : q.op = "delete"} \subseteq pending'
         /\ {q \in pending' : q.op # "delete"} \subseteq pending
         /\ done = "all" => \E q \in pending' :
              q.op = "delete" /\ q.cal = c /\ q.payload = event[e].gid
<1>1. /\ Exists(e) /\ event' = [event EXCEPT ![e] = NoEvent]
      /\ reminders' = [reminders EXCEPT ![e] = <<>>] /\ history' = history \ HistoryOf(e)
      /\ Forget({e}) /\ cals' = cals
  BY DEF Delete
<1>2. /\ event[e].cal \in Calendars /\ event[e].cal \in cals /\ event[e].gid \in Gids \cup {Local}
  BY <1>1, RowParts
<1>3. /\ \A x \in Ids \ {e} : event'[x] = event[x] /\ reminders'[x] = reminders[x]
      /\ event'[e] = NoEvent /\ reminders'[e] = <<>>
      /\ event' \in [Ids -> Row \cup {NoEvent}] /\ reminders' \in [Ids -> ReminderLists]
  BY <1>1, EditsAssumption DEF EventsOK
<1>4. ~Exists(e)' /\ \A x \in Ids \ {e} : Exists(x)' <=> Exists(x)
  BY <1>3 DEF Exists
<1>5. EventsOK'
  <2>1. \A x \in Ids : Exists(x)' => event'[x].cal \in cals'
    BY <1>1, <1>3, <1>4 DEF EventsOK
  <2>2. \A x \in Ids : ~Exists(x)' => reminders'[x] = <<>>
    BY <1>3, <1>4 DEF EventsOK
  <2>3. \A x, y \in Ids : x # y /\ Exists(x)' /\ Exists(y)' /\ event'[x].gid # Local =>
          event'[y].cal # event'[x].cal \/ event'[y].gid # event'[x].gid
    BY <1>3, <1>4 DEF EventsOK
  <2>4. QED
    BY <1>3, <2>1, <2>2, <2>3 DEF EventsOK
<1>6. RowsSame(Ids \ {e})
  BY <1>3, <1>4 DEF RowsSame, Snapshot
<1>7. HistoryOK'
  <2>1. \A h \in history' : h \in history /\ h.event \in Ids \ {e}
    BY <1>1 DEF HistoryOf, HistoryOK, HistoryRow
  <2>2. QED
    BY <1>1, <1>4, <2>1 DEF HistoryOK, Distinct
<1>8. \A q \in pending : q.op = "delete" => q.event = NoEvent
  BY DEF PendingOK, PendingRow
<1>9. \A q \in pending : q.op # "delete" => q.event \in Ids
  BY DEF PendingOK, PendingRow
<1>10. NoEvent \notin Ids
  BY NoEventAssumption
<1>11. CASE done = "all"
  <2>1. PICK n \in LogIds :
          /\ NewId(n, {q.id : q \in pending \ PendingOf(e)})
          /\ pending' = {q \in pending \cup
               {[id |-> n, op |-> "delete", cal |-> c, event |-> DeletedRef(e),
                 payload |-> event[e].gid]} : q.event # e}
    BY <1>11 DEF Delete
  <2> DEFINE d == [id |-> n, op |-> "delete", cal |-> c, event |-> NoEvent,
                   payload |-> event[e].gid]
  <2>2. pending' = (pending \ PendingOf(e)) \cup {d}
    BY <1>10, <2>1 DEF DeletedRef, PendingOf
  <2>3. d \in PendingRow
    BY <1>2, <1>11 DEF PendingRow, RestOK
  <2>4. d.op = "delete" /\ d.cal = c /\ d.event = NoEvent /\ d.payload = event[e].gid /\ d.id = n
    OBVIOUS
  <2> HIDE DEF d
  <2>5. \A q \in pending \ PendingOf(e) : q.id \in LogIds /\ q.id < n
    BY <2>1 DEF NewId, PendingOK, PendingRow
  <2>6. Distinct(pending')
    BY <2>2, <2>4, <2>5 DEF PendingOK, Distinct, LogIds
  <2>7. \A q \in pending' : (q.op # "delete" => Exists(q.event)') /\ q.cal \in cals'
    BY <1>1, <1>2, <1>4, <1>9, <1>11, <2>2, <2>4 DEF PendingOK, PendingOf
  <2>8. PendingOK'
    BY <2>2, <2>3, <2>6, <2>7 DEF PendingOK
  <2>9. \A x \in Ids \ {e} : PendingOf(x)' = PendingOf(x)
    BY <1>10, <2>2, <2>4 DEF PendingOf
  <2>10. /\ {q \in pending : q.op = "delete"} \subseteq pending'
         /\ {q \in pending' : q.op # "delete"} \subseteq pending
    BY <1>8, <1>10, <2>2, <2>4 DEF PendingOf
  <2>11. QED
    BY <1>1, <1>4, <1>5, <1>6, <1>7, <1>11, <2>2, <2>4, <2>8, <2>9, <2>10
<1>12. CASE done # "all"
  <2>1. pending' = pending \ PendingOf(e)
    BY <1>12 DEF Delete
  <2>2. PendingOK'
    <3>1. \A q \in pending' : q \in pending /\ (q.op # "delete" => q.event \in Ids \ {e})
      BY <1>9, <2>1 DEF PendingOf
    <3>2. QED
      BY <1>1, <1>4, <3>1 DEF PendingOK, Distinct
  <2>3. \A x \in Ids \ {e} : PendingOf(x)' = PendingOf(x)
    BY <2>1 DEF PendingOf
  <2>4. /\ {q \in pending : q.op = "delete"} \subseteq pending'
        /\ {q \in pending' : q.op # "delete"} \subseteq pending
    BY <1>8, <1>10, <2>1 DEF PendingOf
  <2>5. QED
    BY <1>1, <1>4, <1>5, <1>6, <1>7, <1>12, <2>2, <2>3, <2>4
<1>13. QED
  BY <1>11, <1>12

\* A pass writes the fields of a row that is there, or a new row.
LEMMA SyncChangeDoes ==
  ASSUME EventsOK, HistoryOK, PendingOK, NEW e \in Ids, NEW f \in Contents, SyncChange(e, f)
  PROVE  /\ EventsOK' /\ HistoryOK' /\ PendingOK'
         /\ Exists(e) /\ Exists(e)' /\ RowsSame(Ids \ {e}) /\ Snapshot(e)' \in State
<1> DEFINE r == [cal |-> event[e].cal, gid |-> event[e].gid, fields |-> f]
           v == [event EXCEPT ![e].fields = f]
           w == [event EXCEPT ![e] = r]
<1>1. /\ Exists(e) /\ event' = v
      /\ cals' = cals /\ reminders' = reminders /\ history' = history /\ pending' = pending
  BY DEF SyncChange
<1>2. event[e] \in Row /\ event \in [Ids -> Row \cup {NoEvent}] /\ f \in Fields
  BY <1>1, RowParts DEF EventsOK, Fields
<1>3. v = w
  <2>1. v[e] = r
    BY <1>2 DEF Row
  <2>2. v = [x \in Ids |-> v[x]] /\ w = [x \in Ids |-> w[x]]
    BY <1>2
  <2>3. \A x \in Ids : v[x] = w[x]
    BY <1>2, <2>1
  <2> HIDE DEF v, w
  <2>4. QED
    BY <2>2, <2>3
<1>4. r \in Row
  BY <1>2 DEF Row
<1>5. r.cal = event[e].cal /\ r.gid = event[e].gid
  OBVIOUS
<1>6. event' = [event EXCEPT ![e] = r]
  BY <1>1, <1>3
<1> HIDE DEF r
<1>7. Free(r.cal, r.gid, e)
  BY <1>1, <1>5 DEF EventsOK, Free
<1>8. reminders' \in [Ids -> ReminderLists]
  BY <1>1 DEF EventsOK
<1>9. EventsOK' /\ Exists(e)' /\ RowsSame(Ids \ {e}) /\ Snapshot(e)' \in State
  BY <1>1, <1>4, <1>6, <1>7, <1>8, WriteRow
<1>10. \A x \in Ids : Exists(x) => Exists(x)'
  BY <1>9 DEF RowsSame
<1>11. QED
  BY <1>1, <1>9, <1>10, LogsKept

\* The new row takes an id that is not in use and is its own origin.
LEMMA SyncInsertDoes ==
  ASSUME EventsOK, HistoryOK, PendingOK, RestOK,
         NEW c \in cals, NEW g \in Gids, NEW f \in Contents, SyncInsert(c, g, f)
  PROVE  /\ EventsOK' /\ HistoryOK' /\ PendingOK'
         /\ \E e \in Ids : /\ ~Exists(e) /\ RowsSame(Ids \ {e}) /\ Snapshot(e)' \in State
                           /\ origin' = [origin EXCEPT ![e] = Snapshot(e)']
<1> DEFINE r == [cal |-> c, gid |-> g, fields |-> f]
<1>1. PICK e \in Ids : /\ NewId(e, {x \in Ids : Exists(x)})
                      /\ event' = [event EXCEPT ![e] = r]
                      /\ origin' = [origin EXCEPT ![e] = Snapshot(e)']
  BY DEF SyncInsert
<1>2. /\ cals' = cals /\ reminders' = reminders /\ history' = history /\ pending' = pending
  BY DEF SyncInsert
<1>3. ~Exists(e)
  BY <1>1 DEF NewId, Ids
<1>4. r \in Row
  BY DEF RestOK, Row, Fields
<1>5. Free(r.cal, r.gid, e)
  BY DEF SyncInsert, Free, Ids
<1> HIDE DEF r
<1>6. reminders' \in [Ids -> ReminderLists]
  BY <1>2 DEF EventsOK
<1>7. EventsOK' /\ Exists(e)' /\ RowsSame(Ids \ {e}) /\ Snapshot(e)' \in State
  BY <1>1, <1>2, <1>4, <1>5, <1>6, WriteRow
<1>8. \A x \in Ids : Exists(x) => Exists(x)'
  BY <1>7 DEF RowsSame
<1>9. QED
  BY <1>1, <1>2, <1>3, <1>7, <1>8, LogsKept

\* A cleared calendar takes its events, and what names it or them.
LEMMA ClearDoes ==
  ASSUME EventsOK, HistoryOK, PendingOK, RestOK, NEW c \in Calendars, ClearCalendar(c)
  PROVE  LET E == {e \in Ids : Exists(e) /\ event[e].cal = c} IN
         /\ EventsOK' /\ HistoryOK' /\ PendingOK'
         /\ history' = {h \in history : h.event \notin E /\ h.state.cal # c}
         /\ pending' = {q \in pending : q.event \notin E /\ q.cal # c}
         /\ RowsSame(Ids \ E) /\ \A x \in E : ~Exists(x)'
<1> DEFINE E == {e \in Ids : Exists(e) /\ event[e].cal = c}
<1>1. Cascade(E, {c}) /\ cals' = cals \ {c}
  BY DEF ClearCalendar
<1>2. E \in SUBSET Ids /\ \A x \in Ids \ E : Exists(x) => event[x].cal \notin {c}
  OBVIOUS
<1> HIDE DEF E
<1>3. /\ EventsOK' /\ HistoryOK' /\ PendingOK' /\ RowsSame(Ids \ E) /\ \A x \in E : ~Exists(x)'
  BY <1>1, <1>2, CascadeKeeps
<1>4. /\ history' = {h \in history : h.event \notin E /\ h.state.cal # c}
      /\ pending' = {q \in pending : q.event \notin E /\ q.cal # c}
  BY <1>1 DEF Cascade
<1>5. QED
  BY <1>3, <1>4 DEF E

\* So does a cancelled event.
LEMMA CancelDoes ==
  ASSUME EventsOK, HistoryOK, PendingOK, NEW e \in Ids, SyncCancel(e)
  PROVE  /\ EventsOK' /\ HistoryOK' /\ PendingOK'
         /\ history' = {h \in history : h.event \notin {e}}
         /\ pending' = {q \in pending : q.event \notin {e}}
         /\ RowsSame(Ids \ {e}) /\ ~Exists(e)'
<1>1. Cascade({e}, {}) /\ cals' = cals \ {}
  BY DEF SyncCancel
<1>2. EventsOK' /\ HistoryOK' /\ PendingOK' /\ RowsSame(Ids \ {e}) /\ ~Exists(e)'
  BY <1>1, CascadeKeeps
<1>3. /\ history' = {h \in history : h.event \notin {e}}
      /\ pending' = {q \in pending : q.event \notin {e}}
  BY <1>1 DEF Cascade
<1>4. QED
  BY <1>2, <1>3

-----------------------------------------------------------------------------
(* Type correctness.                                                       *)

\* The initial tables keep the constraints.
LEMMA TypeInit == Init => TypeOK
<1> SUFFICES ASSUME Init
             PROVE  TypeOK
  OBVIOUS
<1>1. event \in [Ids -> Row \cup {NoEvent}]
  BY DEF Init, Row, Fields
<1>2. \A e \in Ids : Exists(e) => Snapshot(e) \in State
  BY EditsAssumption, NoEventAssumption DEF Init, Snapshot, State, Exists, Fields, Row
<1>3. origin \in [Ids -> State \cup {Unknown}]
  BY <1>2 DEF Init
<1>4. QED
  BY <1>1, <1>3, EditsAssumption DEF Init, TypeOK, Distinct, Budgets

\* The ghosts keep their type when events E go.
LEMMA ForgetType ==
  ASSUME RestOK, NEW E \in SUBSET Ids, Forget(E)
  PROVE  origin' \in [Ids -> State \cup {Unknown}] /\ dirty' \subseteq Ids /\ undone' \subseteq dirty'
  BY DEF RestOK, Forget

\* A pass and a clear keep the tables sound,
LEMMA TypeSync ==
  ASSUME EventsOK, HistoryOK, PendingOK, RestOK, Sync
  PROVE  EventsOK' /\ HistoryOK' /\ PendingOK' /\ RestOK'
<1>1. ASSUME NEW e \in Ids, NEW f \in Contents, SyncChange(e, f)
      PROVE  EventsOK' /\ HistoryOK' /\ PendingOK' /\ RestOK'
  <2>1. EventsOK' /\ HistoryOK' /\ PendingOK' /\ Snapshot(e)' \in State
    BY <1>1, SyncChangeDoes
  <2>2. spent' \in [Budgets -> Nat]
    BY <1>1, SpendType DEF SyncChange, Budgets
  <2>3. origin' \in [Ids -> State \cup {Unknown}]
    BY <1>1, <2>1 DEF SyncChange, RestOK
  <2>4. QED
    BY <1>1, <2>1, <2>2, <2>3 DEF SyncChange, RestOK, losses
<1>2. ASSUME NEW c \in cals, NEW g \in Gids, NEW f \in Contents, SyncInsert(c, g, f)
      PROVE  EventsOK' /\ HistoryOK' /\ PendingOK' /\ RestOK'
  <2>1. EventsOK' /\ HistoryOK' /\ PendingOK'
    BY <1>2, SyncInsertDoes
  <2>2. PICK e \in Ids : Snapshot(e)' \in State /\ origin' = [origin EXCEPT ![e] = Snapshot(e)']
    BY <1>2, SyncInsertDoes
  <2>3. spent' \in [Budgets -> Nat]
    BY <1>2, SpendType DEF SyncInsert, Budgets
  <2>4. origin' \in [Ids -> State \cup {Unknown}]
    BY <2>2 DEF RestOK
  <2>5. QED
    BY <1>2, <2>1, <2>3, <2>4 DEF SyncInsert, RestOK, losses
<1>3. ASSUME NEW e \in Ids, SyncCancel(e)
      PROVE  EventsOK' /\ HistoryOK' /\ PendingOK' /\ RestOK'
  <2>1. EventsOK' /\ HistoryOK' /\ PendingOK'
    BY <1>3, CancelDoes
  <2>2. spent' \in [Budgets -> Nat]
    BY <1>3, SpendType DEF SyncCancel, Budgets
  <2>3. Forget({e}) /\ UNCHANGED <<cals, dialog, looked, deleted, dropped>>
    BY <1>3 DEF SyncCancel, losses
  <2>4. QED
    BY <2>1, <2>2, <2>3, ForgetType DEF RestOK
<1>4. ASSUME NEW c \in Calendars, ClearCalendar(c)
      PROVE  EventsOK' /\ HistoryOK' /\ PendingOK' /\ RestOK'
  <2> DEFINE E == {e \in Ids : Exists(e) /\ event[e].cal = c}
  <2>1. EventsOK' /\ HistoryOK' /\ PendingOK'
    BY <1>4, ClearDoes
  <2>2. spent' \in [Budgets -> Nat]
    BY <1>4, SpendType DEF ClearCalendar, Budgets
  <2>3. origin' = [e \in Ids |->
                     IF e \in E \/ \E h \in HistoryOf(e) : h.state.cal = c THEN Unknown ELSE origin[e]]
    BY <1>4 DEF ClearCalendar
  <2>4. origin' \in [Ids -> State \cup {Unknown}]
    BY <2>3 DEF RestOK
  <2>5. QED
    BY <1>4, <2>1, <2>2, <2>4 DEF ClearCalendar, RestOK
<1>5. ASSUME NEW c \in Calendars, RelistCalendar(c)
      PROVE  EventsOK' /\ HistoryOK' /\ PendingOK' /\ RestOK'
  <2>1. /\ event' = event /\ reminders' = reminders /\ history' = history /\ pending' = pending
        /\ cals' = cals \cup {c}
    BY <1>5 DEF RelistCalendar
  <2>2. \A x \in Ids : Exists(x)' <=> Exists(x)
    BY <2>1 DEF Exists
  <2>3. EventsOK'
    BY <2>1, <2>2 DEF EventsOK
  <2>4. QED
    BY <1>5, <2>1, <2>2, <2>3, LogsKept DEF RelistCalendar, RestOK, ghosts, losses
<1>6. QED
  BY <1>1, <1>2, <1>3, <1>4, <1>5 DEF Sync

\* What an editor hands back is what an event can hold.
LEMMA TypedAreFields ==
  ASSUME NEW f \in Typed
  PROVE  f \in Fields
  BY DEF Typed, Fields

\* A deletion, as far as it comes, keeps the tables sound.
LEMMA TypeDelete ==
  ASSUME EventsOK, HistoryOK, PendingOK, RestOK, NEW e \in Ids, NEW c, NEW done,
         Delete(e, c, done), done = "all" => c \in cals, NEW b \in Budgets, Spend(b),
         deleted' = deleted \cup Named(e), dropped' \in {dropped \ Named(e), dropped \cup Named(e)}
  PROVE  EventsOK' /\ HistoryOK' /\ PendingOK' /\ RestOK'
<1>1. EventsOK' /\ HistoryOK' /\ PendingOK' /\ Exists(e) /\ Forget({e})
  BY DeleteDoes
<1>2. Named(e) \subseteq Calendars \X Gids
  BY <1>1, RowParts DEF Named
<1>3. deleted' \subseteq Calendars \X Gids /\ dropped' \subseteq deleted'
  BY <1>2 DEF RestOK
<1>4. cals' = cals /\ dialog' = Closed /\ looked' = Closed
  BY DEF Delete
<1>5. spent' \in [Budgets -> Nat]
  BY SpendType
<1>6. QED
  BY <1>1, <1>3, <1>4, <1>5, ForgetType DEF RestOK

\* so does the user,
LEMMA TypeUser ==
  ASSUME EventsOK, HistoryOK, PendingOK, RestOK, User
  PROVE  EventsOK' /\ HistoryOK' /\ PendingOK' /\ RestOK'
<1>1. ASSUME NEW e \in Ids, OpenDialog(e)
      PROVE  EventsOK' /\ HistoryOK' /\ PendingOK' /\ RestOK'
  <2>1. /\ UNCHANGED <<event, reminders, history, pending, cals>>
        /\ \A x \in Ids : Exists(x)' <=> Exists(x)
    BY <1>1 DEF OpenDialog, Exists
  <2>2. EventsOK'
    BY <2>1 DEF EventsOK
  <2>3. QED
    BY <1>1, <2>1, <2>2, LogsKept DEF OpenDialog, RestOK, ghosts, losses
<1>2. ASSUME CloseDialog
      PROVE  EventsOK' /\ HistoryOK' /\ PendingOK' /\ RestOK'
  <2>1. /\ UNCHANGED <<event, reminders, history, pending, cals>>
        /\ \A x \in Ids : Exists(x)' <=> Exists(x)
    BY <1>2 DEF CloseDialog, Exists
  <2>2. EventsOK'
    BY <2>1 DEF EventsOK
  <2>3. QED
    BY <1>2, <2>1, <2>2, LogsKept DEF CloseDialog, RestOK, ghosts, losses
<1>3. ASSUME NEW e \in Ids, NEW c \in Calendars, DeleteEvent(e, c) \/ DeleteRefused(e, c)
      PROVE  EventsOK' /\ HistoryOK' /\ PendingOK' /\ RestOK'
  <2>1. PICK done : Delete(e, c, done) /\ (done = "all" => c \in cals)
    BY <1>3 DEF DeleteEvent, DeleteRefused
  <2>2. Spend("edit")
    BY <1>3 DEF DeleteEvent, DeleteRefused
  <2>3. deleted' = deleted \cup Named(e) /\ dropped' \in {dropped \ Named(e), dropped \cup Named(e)}
    BY <1>3 DEF DeleteEvent, DeleteRefused
  <2>4. QED
    BY <2>1, <2>2, <2>3, TypeDelete DEF Budgets
<1>4. ASSUME NEW e \in Ids, NEW c \in Calendars, NEW f \in Typed, NEW rs \in ReminderLists,
             UpdateEvent(e, c, f, rs)
      PROVE  EventsOK' /\ HistoryOK' /\ PendingOK' /\ RestOK'
  <2>1. /\ Update(e, c, f, rs, "all") /\ cals' = cals /\ Spend("edit") /\ dialog' = Closed
        /\ UNCHANGED <<looked, origin, deleted, dropped>>
        /\ dirty' = dirty \cup {e} /\ undone' = undone \ {e}
    BY <1>4 DEF UpdateEvent, Answer, losses
  <2>2. EventsOK' /\ HistoryOK' /\ PendingOK'
    BY <2>1, TypedAreFields, UpdateDoes
  <2>3. spent' \in [Budgets -> Nat]
    BY <2>1, SpendType DEF Budgets
  <2>4. QED
    BY <2>1, <2>2, <2>3 DEF RestOK
<1>5. ASSUME NEW e \in Ids, NEW c \in Calendars, NEW f \in Typed, NEW rs \in ReminderLists,
             UpdateRefused(e, c, f, rs)
      PROVE  EventsOK' /\ HistoryOK' /\ PendingOK' /\ RestOK'
  <2>1. /\ Update(e, c, f, rs, "history") /\ cals' = cals /\ Spend("edit") /\ dialog' = Closed
        /\ UNCHANGED <<looked, origin, deleted, dropped, dirty, undone>>
    BY <1>5 DEF UpdateRefused, Answer, ghosts, losses
  <2>2. EventsOK' /\ HistoryOK' /\ PendingOK'
    BY <2>1, TypedAreFields, UpdateDoes
  <2>3. spent' \in [Budgets -> Nat]
    BY <2>1, SpendType DEF Budgets
  <2>4. QED
    BY <2>1, <2>2, <2>3 DEF RestOK
<1>6. ASSUME NEW c \in Calendars, NEW f \in Typed, NEW rs \in ReminderLists, CreateEvent(c, f, rs)
      PROVE  EventsOK' /\ HistoryOK' /\ PendingOK' /\ RestOK'
  <2>1. /\ Create(c, f, rs, "all") /\ Spend("edit")
        /\ UNCHANGED <<cals, history, dialog, looked, undone, deleted, dropped>>
    BY <1>6 DEF CreateEvent, Create, losses
  <2>2. EventsOK' /\ HistoryOK' /\ PendingOK'
    BY <2>1, TypedAreFields, CreateDoes
  <2>3. PICK e \in Ids : /\ Snapshot(e)' \in State /\ dirty' = dirty \cup {e}
                        /\ origin' = [origin EXCEPT ![e] = Snapshot(e)']
    BY <2>1, TypedAreFields, CreateDoes
  <2>4. origin' \in [Ids -> State \cup {Unknown}]
    BY <2>3 DEF RestOK
  <2>5. spent' \in [Budgets -> Nat]
    BY <2>1, SpendType DEF Budgets
  <2>6. QED
    BY <2>1, <2>2, <2>3, <2>4, <2>5 DEF RestOK
<1>7. ASSUME NEW h \in history, UndoEdit(h)
      PROVE  EventsOK' /\ HistoryOK' /\ PendingOK' /\ RestOK'
  <2>1. /\ Undo(h, "all") /\ cals' = cals /\ history' \subseteq history
        /\ dirty' = dirty \cup {h.event} /\ undone' = undone \cup {h.event}
        /\ UNCHANGED <<dialog, looked, origin, deleted, dropped, spent>>
    BY <1>7 DEF UndoEdit, losses
  <2>2. EventsOK' /\ HistoryOK' /\ PendingOK' /\ h.event \in Ids
    BY <2>1, UndoDoes
  <2>3. QED
    BY <2>1, <2>2 DEF RestOK
<1>8. ASSUME NEW e \in Ids, LookUp(e)
      PROVE  EventsOK' /\ HistoryOK' /\ PendingOK' /\ RestOK'
  <2>1. /\ UNCHANGED <<event, reminders, history, pending, cals>>
        /\ \A x \in Ids : Exists(x)' <=> Exists(x)
    BY <1>8 DEF LookUp, Exists
  <2>2. EventsOK'
    BY <2>1 DEF EventsOK
  <2>3. looked' \in Calendars
    BY <1>8, RowParts DEF LookUp
  <2>4. QED
    BY <1>8, <2>1, <2>2, <2>3, LogsKept DEF LookUp, RestOK, ghosts, losses
<1>9. QED
  BY <1>1, <1>2, <1>3, <1>4, <1>5, <1>6, <1>7, <1>8 DEF User

\* so does an operation that stops half-way,
LEMMA TypeFault ==
  ASSUME EventsOK, HistoryOK, PendingOK, RestOK, Fault
  PROVE  EventsOK' /\ HistoryOK' /\ PendingOK' /\ RestOK'
<1>1. ASSUME NEW e \in Ids, NEW c \in Calendars, NEW f \in Typed, NEW rs \in ReminderLists,
             NEW done, UpdateStops(e, c, f, rs, done)
      PROVE  EventsOK' /\ HistoryOK' /\ PendingOK' /\ RestOK'
  <2>1. /\ Update(e, c, f, rs, done) /\ cals' = cals /\ Spend("fault") /\ dialog' = Closed
        /\ UNCHANGED <<looked, origin, deleted, dropped>>
        /\ dirty' = dirty \ {e} /\ undone' = undone \ {e}
    BY <1>1 DEF UpdateStops, Answer, losses
  <2>2. EventsOK' /\ HistoryOK' /\ PendingOK'
    BY <2>1, TypedAreFields, UpdateDoes
  <2>3. spent' \in [Budgets -> Nat]
    BY <2>1, SpendType DEF Budgets
  <2>4. QED
    BY <2>1, <2>2, <2>3 DEF RestOK
<1>2. ASSUME NEW c \in Calendars, NEW f \in Typed, NEW rs \in ReminderLists,
             NEW done \in {"event", "reminders"}, CreateStops(c, f, rs, done)
      PROVE  EventsOK' /\ HistoryOK' /\ PendingOK' /\ RestOK'
  <2>1. /\ Create(c, f, rs, done) /\ Spend("fault")
        /\ UNCHANGED <<cals, history, dialog, looked, undone, deleted, dropped>>
    BY <1>2 DEF CreateStops, Create, losses
  <2>2. EventsOK' /\ HistoryOK' /\ PendingOK'
    BY <2>1, TypedAreFields, CreateDoes
  <2>3. PICK e \in Ids : /\ Snapshot(e)' \in State /\ dirty' = dirty
                        /\ origin' = [origin EXCEPT ![e] = Snapshot(e)']
    BY <2>1, TypedAreFields, CreateDoes
  <2>4. origin' \in [Ids -> State \cup {Unknown}]
    BY <2>3 DEF RestOK
  <2>5. spent' \in [Budgets -> Nat]
    BY <2>1, SpendType DEF Budgets
  <2>6. QED
    BY <2>1, <2>2, <2>3, <2>4, <2>5 DEF RestOK
<1>3. ASSUME NEW e \in Ids, NEW c \in Calendars, DeleteStops(e, c)
      PROVE  EventsOK' /\ HistoryOK' /\ PendingOK' /\ RestOK'
  BY <1>3, TypeDelete DEF DeleteStops, Budgets
<1>4. ASSUME NEW h \in history, NEW done, UndoStops(h, done)
      PROVE  EventsOK' /\ HistoryOK' /\ PendingOK' /\ RestOK'
  <2>1. /\ Undo(h, done) /\ cals' = cals /\ history' = history /\ Spend("fault")
        /\ dirty' = dirty \ {h.event} /\ undone' = undone \ {h.event}
        /\ UNCHANGED <<dialog, looked, origin, deleted, dropped>>
    BY <1>4 DEF UndoStops, losses
  <2>2. EventsOK' /\ HistoryOK' /\ PendingOK'
    BY <2>1, UndoDoes
  <2>3. spent' \in [Budgets -> Nat]
    BY <2>1, SpendType DEF Budgets
  <2>4. QED
    BY <2>1, <2>2, <2>3 DEF RestOK
<1>5. QED
  BY <1>1, <1>2, <1>3, <1>4 DEF Fault

\* and so does nothing at all.
LEMMA TypeStutter ==
  ASSUME EventsOK, HistoryOK, PendingOK, RestOK, UNCHANGED vars
  PROVE  EventsOK' /\ HistoryOK' /\ PendingOK' /\ RestOK'
<1>1. UNCHANGED <<cals, event, reminders, history, pending, dialog, looked,
                  origin, dirty, undone, deleted, dropped, spent>>
  BY DEF vars, ghosts, losses
<1>2. \A x \in Ids : Exists(x)' <=> Exists(x)
  BY <1>1 DEF Exists
<1>3. EventsOK'
  BY <1>1, <1>2 DEF EventsOK
<1>4. QED
  BY <1>1, <1>2, <1>3, LogsKept DEF RestOK

\* TypeOK is inductive.
LEMMA TypeNext == TypeOK /\ [Next]_vars => TypeOK'
<1> SUFFICES ASSUME TypeOK, [Next]_vars
             PROVE  TypeOK'
  OBVIOUS
<1>1. EventsOK /\ HistoryOK /\ PendingOK /\ RestOK
  BY TypeParts
<1>2. EventsOK' /\ HistoryOK' /\ PendingOK' /\ RestOK'
  BY <1>1, TypeSync, TypeUser, TypeFault, TypeStutter DEF Next
<1>3. TypeOK' <=> EventsOK' /\ HistoryOK' /\ PendingOK' /\ RestOK'
  BY TypeParts, PTL
<1>4. QED
  BY <1>2, <1>3

\* The tables keep their shape and SQLite's constraints hold, whatever is
\* edited, synced, cleared, refused or stopped half-way.
THEOREM TypeCorrect == Spec => []TypeOK
<1>1. QED
  BY TypeInit, TypeNext, PTL DEF Spec

-----------------------------------------------------------------------------
(* Undo leads back to the origin.                                          *)

\* What undoing all that is in the history leads back to.
Oldest(e) == IF HistoryOf(e) = {} THEN Snapshot(e) ELSE First(HistoryOf(e)).state

OriginOf(e) == Exists(e) /\ origin[e] # Unknown => Leads(Oldest(e), origin[e])

Origins == \A e \in Ids : OriginOf(e)

\* UndoReachesOrigin, event by event.
LEMMA OriginByEvent == UndoReachesOrigin <=> Origins
  BY DEF UndoReachesOrigin, Origins, OriginOf, Oldest

\* An event nothing happened to.
LEMMA OriginKept ==
  ASSUME NEW e \in Ids, OriginOf(e), HistoryOf(e)' = HistoryOf(e),
         Snapshot(e)' = Snapshot(e), Exists(e)' => Exists(e), origin'[e] \in {origin[e], Unknown}
  PROVE  OriginOf(e)'
<1>1. Oldest(e)' = Oldest(e)
  BY DEF Oldest, First
<1>2. QED
  BY <1>1 DEF OriginOf

\* An entry that is added is the oldest only where there was none, and then it
\* holds what the event was.
LEMMA RememberedOldest ==
  ASSUME HistoryOK, HistoryOK', NEW e \in Ids, Remembered(e)
  PROVE  Oldest(e)' = Oldest(e) /\ \A x \in Ids \ {e} : HistoryOf(x)' = HistoryOf(x)
<1>1. PICK h \in HistoryRow : /\ history' = history \cup {h}
                             /\ h.event = e /\ h.state = Snapshot(e)
                             /\ \A x \in history : x.id < h.id
  BY DEF Remembered
<1>2. \A x \in Ids \ {e} : HistoryOf(x)' = HistoryOf(x)
  BY <1>1 DEF HistoryOf
<1> DEFINE S == HistoryOf(e)
           T == S \cup {h}
<1>3. HistoryOf(e)' = T
  BY <1>1 DEF HistoryOf
<1>4. /\ \A x \in T : x.id \in LogIds
      /\ \A x \in S : x.id < h.id
      /\ Distinct(T)
  BY <1>1 DEF HistoryOK, HistoryRow, HistoryOf, Distinct
<1> HIDE DEF S
<1>5. Oldest(e)' = First(T).state
  BY <1>3 DEF Oldest, First
<1>6. CASE S = {}
  <2>1. First(T) = h
    BY <1>4, <1>6, FirstIs
  <2>2. QED
    BY <1>1, <1>2, <1>5, <1>6, <2>1 DEF Oldest, S
<1>7. CASE S # {}
  <2>1. First(T) = First(S)
    BY <1>4, <1>7, FirstOfMore
  <2>2. QED
    BY <1>2, <1>5, <1>7, <2>1 DEF Oldest, S
<1>8. QED
  BY <1>2, <1>6, <1>7

\* The entry that an undo takes back is the oldest only where it is the only one.
LEMMA UndoneOldest ==
  ASSUME HistoryOK, NEW h \in history, history' = history \ {h}, \A x \in history : x.id <= h.id,
         Snapshot(h.event)' = AsUndone(h.state)
  PROVE  /\ \A o \in State : Leads(Oldest(h.event), o) => Leads(Oldest(h.event)', o)
         /\ \A x \in Ids \ {h.event} : HistoryOf(x)' = HistoryOf(x)
<1> DEFINE e == h.event
           T == HistoryOf(e)
           S == T \ {h}
<1>1. HistoryOf(e)' = S /\ \A x \in Ids \ {e} : HistoryOf(x)' = HistoryOf(x)
  BY DEF HistoryOf
<1>2. /\ h \in T /\ T = S \cup {h} /\ Distinct(T)
      /\ \A x \in T : x.id \in LogIds
      /\ \A x \in S : x.id # h.id /\ x.id <= h.id
  BY DEF HistoryOf, HistoryOK, HistoryRow, Distinct
<1>3. \A x \in S : x.id < h.id
  BY <1>2 DEF LogIds
<1>4. Oldest(e) = First(T).state
  BY <1>2 DEF Oldest
<1> HIDE DEF T, S
<1>5. CASE S = {}
  <2>1. First(T) = h
    BY <1>2, <1>5, FirstIs
  <2>2. Oldest(e)' = Snapshot(e)'
    BY <1>1, <1>5 DEF Oldest
  <2>3. \A o \in State : Leads(h.state, o) => AsUndone(h.state) = AsUndone(o)
    BY AsUndoneIs DEF Leads
  <2>4. QED
    BY <1>1, <1>4, <2>1, <2>2, <2>3 DEF Leads
<1>6. CASE S # {}
  <2>1. First(T) = First(S)
    BY <1>2, <1>3, <1>6, FirstOfMore
  <2>2. Oldest(e)' = First(S).state
    BY <1>1, <1>6 DEF Oldest, First
  <2>3. QED
    BY <1>1, <1>4, <2>1, <2>2
<1>7. QED
  BY <1>5, <1>6

\* The event of an id that is not in use has no history.
LEMMA NoHistoryOfNone ==
  ASSUME HistoryOK, NEW e \in Ids, ~Exists(e)
  PROVE  HistoryOf(e) = {}
  BY DEF HistoryOK, HistoryOf

\* A new event is its own origin.
LEMMA OriginOfNew ==
  ASSUME RestOK, HistoryOK, NEW e \in Ids, ~Exists(e), history' = history,
         origin' = [origin EXCEPT ![e] = Snapshot(e)'], RowsSame(Ids \ {e}),
         \A x \in Ids : OriginOf(x)
  PROVE  \A x \in Ids : OriginOf(x)'
<1>1. HistoryOf(e) = {}
  BY NoHistoryOfNone
<1>2. HistoryOf(e)' = {} /\ \A x \in Ids : HistoryOf(x)' = HistoryOf(x)
  BY <1>1 DEF HistoryOf
<1>3. origin'[e] = Snapshot(e)' /\ \A x \in Ids \ {e} : origin'[x] = origin[x]
  BY DEF RestOK
<1>4. OriginOf(e)'
  BY <1>2, <1>3 DEF OriginOf, Oldest, Leads
<1>5. ASSUME NEW x \in Ids \ {e}
      PROVE  OriginOf(x)'
  BY <1>2, <1>3, OriginKept DEF RowsSame
<1>6. QED
  BY <1>4, <1>5

\* An edit of e, whole or not, leaves every origin in reach.
LEMMA OriginUpdate ==
  ASSUME HistoryOK, HistoryOK', NEW e \in Ids, Exists(e), Remembered(e), RowsSame(Ids \ {e}),
         origin' = origin, \A x \in Ids : OriginOf(x)
  PROVE  \A x \in Ids : OriginOf(x)'
<1>1. Oldest(e)' = Oldest(e) /\ \A x \in Ids \ {e} : HistoryOf(x)' = HistoryOf(x)
  BY RememberedOldest
<1>2. OriginOf(e)'
  BY <1>1 DEF OriginOf
<1>3. ASSUME NEW x \in Ids \ {e}
      PROVE  OriginOf(x)'
  BY <1>1, OriginKept DEF RowsSame
<1>4. QED
  BY <1>2, <1>3

\* So does an event that goes, with its history.
LEMMA OriginDelete ==
  ASSUME RestOK, NEW e \in Ids, ~Exists(e)', RowsSame(Ids \ {e}), Forget({e}),
         \A x \in Ids \ {e} : HistoryOf(x)' = HistoryOf(x), \A x \in Ids : OriginOf(x)
  PROVE  \A x \in Ids : OriginOf(x)'
<1>1. \A x \in Ids : origin'[x] \in {origin[x], Unknown}
  BY DEF Forget
<1>2. OriginOf(e)'
  BY DEF OriginOf
<1>3. ASSUME NEW x \in Ids \ {e}
      PROVE  OriginOf(x)'
  BY <1>1, OriginKept DEF RowsSame
<1>4. QED
  BY <1>2, <1>3

\* A pass and a clear keep every origin in reach or give it up,
LEMMA OriginSync ==
  ASSUME EventsOK, HistoryOK, PendingOK, RestOK, \A x \in Ids : OriginOf(x), Sync
  PROVE  \A x \in Ids : OriginOf(x)'
<1>1. ASSUME NEW e \in Ids, NEW f \in Contents, SyncChange(e, f)
      PROVE  \A x \in Ids : OriginOf(x)'
  <2>1. RowsSame(Ids \ {e})
    BY <1>1, SyncChangeDoes
  <2>2. /\ history' = history
        /\ origin' = [origin EXCEPT ![e] = IF HistoryOf(e) = {} THEN Snapshot(e)' ELSE Unknown]
    BY <1>1 DEF SyncChange
  <2>3. \A x \in Ids : HistoryOf(x)' = HistoryOf(x)
    BY <2>2 DEF HistoryOf
  <2>4. /\ origin'[e] = IF HistoryOf(e) = {} THEN Snapshot(e)' ELSE Unknown
        /\ \A x \in Ids \ {e} : origin'[x] = origin[x]
    BY <2>2 DEF RestOK
  <2>5. OriginOf(e)'
    BY <2>3, <2>4 DEF OriginOf, Oldest, Leads
  <2>6. ASSUME NEW x \in Ids \ {e}
        PROVE  OriginOf(x)'
    BY <2>1, <2>3, <2>4, OriginKept DEF RowsSame
  <2>7. QED
    BY <2>5, <2>6
<1>2. ASSUME NEW c \in cals, NEW g \in Gids, NEW f \in Contents, SyncInsert(c, g, f)
      PROVE  \A x \in Ids : OriginOf(x)'
  BY <1>2, SyncInsertDoes, OriginOfNew DEF SyncInsert
<1>3. ASSUME NEW e \in Ids, SyncCancel(e)
      PROVE  \A x \in Ids : OriginOf(x)'
  <2>1. /\ RowsSame(Ids \ {e}) /\ ~Exists(e)' /\ Forget({e})
        /\ history' = {h \in history : h.event \notin {e}}
    BY <1>3, CancelDoes DEF SyncCancel
  <2>2. \A x \in Ids \ {e} : HistoryOf(x)' = HistoryOf(x)
    BY <2>1 DEF HistoryOf
  <2>3. QED
    BY <2>1, <2>2, OriginDelete
<1>4. ASSUME NEW c \in Calendars, ClearCalendar(c)
      PROVE  \A x \in Ids : OriginOf(x)'
  <2> DEFINE E == {e \in Ids : Exists(e) /\ event[e].cal = c}
             Cut(x) == \E h \in HistoryOf(x) : h.state.cal = c
  <2>1. /\ RowsSame(Ids \ E) /\ \A x \in E : ~Exists(x)'
        /\ history' = {h \in history : h.event \notin E /\ h.state.cal # c}
    BY <1>4, ClearDoes
  <2>2. origin' = [x \in Ids |-> IF x \in E \/ Cut(x) THEN Unknown ELSE origin[x]]
    BY <1>4 DEF ClearCalendar
  <2> HIDE DEF E
  <2>3. ASSUME NEW x \in Ids
        PROVE  OriginOf(x)'
    <3>1. CASE x \in E \/ Cut(x)
      <4>1. origin'[x] = Unknown
        BY <2>2, <3>1
      <4>2. QED
        BY <4>1 DEF OriginOf
    <3>2. CASE ~(x \in E \/ Cut(x))
      <4>1. origin'[x] = origin[x]
        BY <2>2, <3>2
      <4>2. HistoryOf(x)' = HistoryOf(x)
        BY <2>1, <3>2 DEF HistoryOf
      <4>3. QED
        BY <2>1, <3>2, <4>1, <4>2, OriginKept DEF RowsSame
    <3>3. QED
      BY <3>1, <3>2
  <2>4. QED
    BY <2>3
<1>5. ASSUME NEW c \in Calendars, RelistCalendar(c)
      PROVE  \A x \in Ids : OriginOf(x)'
  <2>1. UNCHANGED <<event, reminders, history, origin>>
    BY <1>5 DEF RelistCalendar, ghosts
  <2>2. ASSUME NEW x \in Ids
        PROVE  OriginOf(x)'
    <3>1. HistoryOf(x)' = HistoryOf(x)
      BY <2>1 DEF HistoryOf
    <3>2. Snapshot(x)' = Snapshot(x) /\ (Exists(x)' => Exists(x)) /\ origin'[x] = origin[x]
      BY <2>1 DEF Snapshot, Exists
    <3>3. QED
      BY <3>1, <3>2, OriginKept
  <2>3. QED
    BY <2>2
<1>6. QED
  BY <1>1, <1>2, <1>3, <1>4, <1>5 DEF Sync

\* the user keeps it in reach,
LEMMA OriginUser ==
  ASSUME EventsOK, HistoryOK, PendingOK, RestOK, \A x \in Ids : OriginOf(x), User
  PROVE  \A x \in Ids : OriginOf(x)'
<1>1. ASSUME NEW e \in Ids, OpenDialog(e)
      PROVE  \A x \in Ids : OriginOf(x)'
  BY <1>1 DEF OpenDialog, OriginOf, Oldest, HistoryOf, Exists, Snapshot, First, ghosts
<1>2. ASSUME CloseDialog \/ \E e \in Ids : LookUp(e)
      PROVE  \A x \in Ids : OriginOf(x)'
  BY <1>2 DEF CloseDialog, LookUp, OriginOf, Oldest, HistoryOf, Exists, Snapshot, First, ghosts
<1>3. ASSUME NEW e \in Ids, NEW c \in Calendars, DeleteEvent(e, c) \/ DeleteRefused(e, c)
      PROVE  \A x \in Ids : OriginOf(x)'
  <2>1. \E done : Delete(e, c, done) /\ (done = "all" => c \in cals)
    BY <1>3 DEF DeleteEvent, DeleteRefused
  <2>2. ~Exists(e)' /\ Forget({e}) /\ RowsSame(Ids \ {e}) /\ history' = history \ HistoryOf(e)
    BY <2>1, DeleteDoes
  <2>3. \A x \in Ids \ {e} : HistoryOf(x)' = HistoryOf(x)
    BY <2>2 DEF HistoryOf
  <2>4. QED
    BY <2>2, <2>3, OriginDelete
<1>4. ASSUME NEW e \in Ids, NEW c \in Calendars, NEW f \in Typed, NEW rs \in ReminderLists,
             UpdateEvent(e, c, f, rs) \/ UpdateRefused(e, c, f, rs)
      PROVE  \A x \in Ids : OriginOf(x)'
  <2>1. \E done : Update(e, c, f, rs, done) /\ cals' = cals /\ origin' = origin
    BY <1>4 DEF UpdateEvent, UpdateRefused, ghosts
  <2>2. HistoryOK' /\ Exists(e) /\ RowsSame(Ids \ {e}) /\ Remembered(e)
    BY <2>1, TypedAreFields, UpdateDoes
  <2>3. QED
    BY <2>1, <2>2, OriginUpdate
<1>5. ASSUME NEW c \in Calendars, NEW f \in Typed, NEW rs \in ReminderLists, CreateEvent(c, f, rs)
      PROVE  \A x \in Ids : OriginOf(x)'
  <2>1. Create(c, f, rs, "all") /\ cals' = cals /\ history' = history
    BY <1>5 DEF CreateEvent, Create
  <2>2. \E e \in Ids : /\ ~Exists(e) /\ RowsSame(Ids \ {e})
                      /\ origin' = [origin EXCEPT ![e] = Snapshot(e)']
    BY <2>1, TypedAreFields, CreateDoes
  <2>3. QED
    BY <2>1, <2>2, OriginOfNew
<1>6. ASSUME NEW h \in history, UndoEdit(h)
      PROVE  \A x \in Ids : OriginOf(x)'
  <2> DEFINE e == h.event
  <2>1. Undo(h, "all") /\ cals' = cals /\ history' = history \ {h} /\ origin' = origin
    BY <1>6 DEF UndoEdit
  <2>2. /\ e \in Ids /\ RowsSame(Ids \ {e})
        /\ Snapshot(e)' = AsUndone(h.state) /\ \A x \in history : x.id <= h.id
    BY <2>1, UndoDoes
  <2>3. /\ \A o \in State : Leads(Oldest(e), o) => Leads(Oldest(e)', o)
        /\ \A x \in Ids \ {e} : HistoryOf(x)' = HistoryOf(x)
    BY <2>1, <2>2, UndoneOldest
  <2>4. Exists(e)
    BY DEF HistoryOK
  <2> HIDE DEF e
  <2>5. OriginOf(e)'
    BY <2>1, <2>2, <2>3, <2>4 DEF OriginOf, RestOK
  <2>6. ASSUME NEW x \in Ids \ {e}
        PROVE  OriginOf(x)'
    BY <2>1, <2>2, <2>3, OriginKept DEF RowsSame
  <2>7. QED
    BY <2>5, <2>6
<1>7. QED
  BY <1>1, <1>2, <1>3, <1>4, <1>5, <1>6 DEF User

\* and so does an operation that stops half-way.
LEMMA OriginFault ==
  ASSUME EventsOK, HistoryOK, PendingOK, RestOK, \A x \in Ids : OriginOf(x), Fault
  PROVE  \A x \in Ids : OriginOf(x)'
<1>1. ASSUME NEW e \in Ids, NEW c \in Calendars, NEW f \in Typed, NEW rs \in ReminderLists,
             NEW done, UpdateStops(e, c, f, rs, done)
      PROVE  \A x \in Ids : OriginOf(x)'
  <2>1. Update(e, c, f, rs, done) /\ cals' = cals /\ origin' = origin
    BY <1>1 DEF UpdateStops
  <2>2. HistoryOK' /\ Exists(e) /\ RowsSame(Ids \ {e}) /\ Remembered(e)
    BY <2>1, TypedAreFields, UpdateDoes
  <2>3. QED
    BY <2>1, <2>2, OriginUpdate
<1>2. ASSUME NEW c \in Calendars, NEW f \in Typed, NEW rs \in ReminderLists,
             NEW done \in {"event", "reminders"}, CreateStops(c, f, rs, done)
      PROVE  \A x \in Ids : OriginOf(x)'
  <2>1. Create(c, f, rs, done) /\ cals' = cals /\ history' = history
    BY <1>2 DEF CreateStops, Create
  <2>2. \E e \in Ids : /\ ~Exists(e) /\ RowsSame(Ids \ {e})
                      /\ origin' = [origin EXCEPT ![e] = Snapshot(e)']
    BY <2>1, TypedAreFields, CreateDoes
  <2>3. QED
    BY <2>1, <2>2, OriginOfNew
<1>3. ASSUME NEW e \in Ids, NEW c \in Calendars, DeleteStops(e, c)
      PROVE  \A x \in Ids : OriginOf(x)'
  <2>1. Delete(e, c, "event")
    BY <1>3 DEF DeleteStops
  <2>2. ~Exists(e)' /\ Forget({e}) /\ RowsSame(Ids \ {e}) /\ history' = history \ HistoryOf(e)
    BY <2>1, DeleteDoes
  <2>3. \A x \in Ids \ {e} : HistoryOf(x)' = HistoryOf(x)
    BY <2>2 DEF HistoryOf
  <2>4. QED
    BY <2>2, <2>3, OriginDelete
<1>4. ASSUME NEW h \in history, NEW done, UndoStops(h, done)
      PROVE  \A x \in Ids : OriginOf(x)'
  <2> DEFINE e == h.event
  <2>1. Undo(h, done) /\ cals' = cals /\ history' = history /\ origin' = origin
    BY <1>4 DEF UndoStops
  <2>2. e \in Ids /\ RowsSame(Ids \ {e})
    BY <2>1, UndoDoes
  <2>3. /\ HistoryOf(e) # {} /\ HistoryOf(e)' = HistoryOf(e)
        /\ \A x \in Ids : HistoryOf(x)' = HistoryOf(x)
    BY <2>1 DEF HistoryOf
  <2>4. Exists(e)
    BY DEF HistoryOK
  <2> HIDE DEF e
  <2>5. Oldest(e)' = Oldest(e)
    BY <2>3 DEF Oldest, First
  <2>6. OriginOf(e)'
    BY <2>1, <2>2, <2>4, <2>5 DEF OriginOf
  <2>7. ASSUME NEW x \in Ids \ {e}
        PROVE  OriginOf(x)'
    BY <2>1, <2>2, <2>3, OriginKept DEF RowsSame
  <2>8. QED
    BY <2>6, <2>7
<1>5. QED
  BY <1>1, <1>2, <1>3, <1>4 DEF Fault

\* UndoReachesOrigin is inductive, given TypeOK.
LEMMA OriginNext == TypeOK /\ UndoReachesOrigin /\ [Next]_vars => UndoReachesOrigin'
<1> SUFFICES ASSUME TypeOK, UndoReachesOrigin, [Next]_vars
             PROVE  UndoReachesOrigin'
  OBVIOUS
<1>1. /\ EventsOK /\ HistoryOK /\ PendingOK /\ RestOK
      /\ \A x \in Ids : OriginOf(x)
  BY TypeParts, OriginByEvent DEF Origins
<1>2. ASSUME UNCHANGED vars
      PROVE  \A x \in Ids : OriginOf(x)'
  BY <1>1, <1>2 DEF vars, OriginOf, Oldest, HistoryOf, Exists, Snapshot, First, ghosts
<1>3. \A x \in Ids : OriginOf(x)'
  BY <1>1, <1>2, OriginSync, OriginUser, OriginFault DEF Next
<1>4. UndoReachesOrigin' <=> Origins'
  BY OriginByEvent, PTL
<1>5. QED
  BY <1>3, <1>4 DEF Origins

\* Undoing every edit of an event leads back to what it was when it came,
\* whatever edits and undos were refused or stopped half-way.
THEOREM UndoCorrect == Spec => []UndoReachesOrigin
<1>1. Init => UndoReachesOrigin
  BY DEF Init, UndoReachesOrigin, HistoryOf, Leads
<1>2. QED
  BY <1>1, TypeInit, TypeNext, OriginNext, PTL DEF Spec

-----------------------------------------------------------------------------
(* The queue.                                                              *)

EndsInRow(e) ==
  /\ PendingOf(e) # {}
  /\ LET last == Last(PendingOf(e)).payload
     IN Snapshot(e) = IF e \in undone THEN AsUndone(last) ELSE last

\* The queue names the calendar its payload does; without that, clearing a
\* calendar could take the last edit of an event in another.
CalsMatch == \A q \in pending : q.op # "delete" => q.cal = q.payload.cal

QueueOK == CalsMatch /\ (\A e \in dirty : EndsInRow(e)) /\ DeletionsQueued

\* QueueOK is the two properties and CalsMatch.
LEMMA QueueByEvent == QueueOK <=> CalsMatch /\ QueueEndsInRow /\ DeletionsQueued
  BY DEF QueueOK, EndsInRow, QueueEndsInRow

\* An event neither the queue nor the store changed.
LEMMA EndsKept ==
  ASSUME NEW e, EndsInRow(e), PendingOf(e)' = PendingOf(e), Snapshot(e)' = Snapshot(e),
         e \in undone' <=> e \in undone
  PROVE  EndsInRow(e)'
<1>1. Last(PendingOf(e))' = Last(PendingOf(e))
  BY DEF Last
<1>2. QED
  BY <1>1 DEF EndsInRow

\* An id that is not in use has no edit in the queue.
LEMMA NewIsClean ==
  ASSUME QueueOK, PendingOK, NEW e \in Ids, ~Exists(e)
  PROVE  e \notin dirty
<1>1. SUFFICES ASSUME e \in dirty
               PROVE  FALSE
  OBVIOUS
<1>2. PendingOf(e) # {}
  BY <1>1 DEF QueueOK, EndsInRow
<1>3. PICK q \in pending : q.event = e
  BY <1>2 DEF PendingOf
<1>4. QED
  BY <1>3, NoEventAssumption DEF PendingOK, PendingRow

\* The queue is untouched, and so are the events that are still dirty.
LEMMA QueueKept ==
  ASSUME QueueOK, pending' = pending, UNCHANGED <<deleted, dropped>>, dirty' \subseteq dirty,
         \A x \in dirty' : Snapshot(x)' = Snapshot(x) /\ (x \in undone' <=> x \in undone)
  PROVE  QueueOK'
<1>1. \A x \in dirty' : PendingOf(x)' = PendingOf(x)
  BY DEF PendingOf
<1>2. \A x \in dirty' : EndsInRow(x)'
  BY <1>1, EndsKept DEF QueueOK
<1>3. QED
  BY <1>2 DEF QueueOK, CalsMatch, DeletionsQueued

\* An edit is queued.
LEMMA QueueGrows ==
  ASSUME QueueOK, PendingOK, PendingOK', RestOK, NEW e \in Ids, NEW back \in BOOLEAN, Queued(e, back),
         RowsSame(Ids \ {e}), e \in dirty' => (back <=> e \in undone'),
         UNCHANGED <<deleted, dropped>>, dirty' \subseteq dirty \cup {e},
         \A x \in Ids \ {e} : x \in undone' <=> x \in undone
  PROVE  QueueOK'
<1>1. PICK q \in PendingRow :
        /\ pending' = pending \cup {q}
        /\ q.op # "delete" /\ q.event = e /\ q.cal = q.payload.cal
        /\ Snapshot(e)' = IF back THEN AsUndone(q.payload) ELSE q.payload
        /\ \A x \in pending : x.id < q.id
  BY DEF Queued
<1>2. e \in dirty' => EndsInRow(e)'
  <2> DEFINE S == PendingOf(e)
  <2>1. PendingOf(e)' = S \cup {q}
    BY <1>1 DEF PendingOf
  <2>2. \A x \in S \cup {q} : x.id \in LogIds
    BY DEF PendingOK, PendingRow, PendingOf
  <2>3. \A x \in S : x.id < q.id
    BY <1>1 DEF PendingOf
  <2> HIDE DEF S
  <2>4. Last(S \cup {q}) = q
    BY <2>2, <2>3, LastOfMore
  <2>5. Last(PendingOf(e))' = q
    BY <2>1, <2>4 DEF Last
  <2>6. QED
    BY <1>1, <2>1, <2>5 DEF EndsInRow
<1>3. ASSUME NEW x \in dirty', x # e
      PROVE  EndsInRow(x)'
  <2>1. PendingOf(x)' = PendingOf(x)
    BY <1>1, <1>3 DEF PendingOf
  <2>2. x \in Ids \ {e} /\ EndsInRow(x)
    BY <1>3 DEF RestOK, QueueOK
  <2>3. QED
    BY <2>1, <2>2, EndsKept DEF RowsSame
<1>4. CalsMatch' /\ DeletionsQueued'
  BY <1>1 DEF QueueOK, CalsMatch, DeletionsQueued
<1>5. QED
  BY <1>2, <1>3, <1>4 DEF QueueOK

\* Events E and calendars C go: what is dirty still has its last edit.
LEMMA QueueShrinks ==
  ASSUME QueueOK, EventsOK, PendingOK, RestOK, NEW E \in SUBSET Ids, NEW C,
         pending' = {q \in pending : q.event \notin E /\ q.cal \notin C},
         RowsSame(Ids \ E), dirty' = dirty \ E, undone' = undone \ E,
         \A x \in Ids \ E : Exists(x) => event[x].cal \notin C,
         deleted' = deleted, dropped' = dropped \cup {d \in deleted : d[1] \in C}
  PROVE  QueueOK'
<1>1. ASSUME NEW x \in dirty'
      PROVE  EndsInRow(x)'
  <2> DEFINE S == PendingOf(x)
             T == {q \in S : q.cal \notin C}
  <2>1. x \in Ids \ E /\ EndsInRow(x)
    BY <1>1 DEF RestOK, QueueOK
  <2>2. PendingOf(x)' = T
    BY <2>1 DEF PendingOf
  <2>3. Distinct(S) /\ \A q \in S : q.id \in LogIds
    BY DEF PendingOK, PendingRow, PendingOf, Distinct
  <2>4. S # {} /\ Snapshot(x) = IF x \in undone THEN AsUndone(Last(S).payload) ELSE Last(S).payload
    BY <2>1 DEF EndsInRow
  <2>5. NoEvent \notin Ids
    BY NoEventAssumption
  <2>6. \A q \in S : q \in pending /\ q.event = x /\ q.op # "delete"
    BY <2>1, <2>5 DEF PendingOf, PendingOK, PendingRow
  <2> HIDE DEF S
  <2>7. Last(S) \in S
    BY <2>3, <2>4, LastIs
  <2>8. Exists(x) /\ Last(S).cal = event[x].cal
    <3>1. Last(S).payload \in State
      BY <2>6, <2>7 DEF PendingOK, PendingRow
    <3>2. Snapshot(x).cal = Last(S).payload.cal
      BY <2>4, <3>1, AsUndoneIs
    <3>3. QED
      BY <2>6, <2>7, <3>2 DEF PendingOK, QueueOK, CalsMatch, Snapshot
  <2>9. Last(S) \in T
    BY <2>1, <2>7, <2>8
  <2>10. Last(T) = Last(S)
    BY <2>3, <2>9, LastOfFewer
  <2>11. Last(PendingOf(x))' = Last(S)
    BY <2>2, <2>10 DEF Last
  <2>12. Snapshot(x)' = Snapshot(x) /\ (x \in undone' <=> x \in undone)
    BY <2>1 DEF RowsSame
  <2>13. QED
    BY <2>2, <2>4, <2>9, <2>11, <2>12 DEF EndsInRow
<1>2. NoEvent \notin E
  BY NoEventAssumption
<1>3. CalsMatch' /\ DeletionsQueued'
  BY <1>2 DEF QueueOK, CalsMatch, DeletionsQueued, PendingOK, PendingRow
<1>4. QED
  BY <1>1, <1>3 DEF QueueOK

\* An event is deleted here, and maybe its deletion queued.
LEMMA QueueDelete ==
  ASSUME QueueOK, EventsOK, HistoryOK, PendingOK, RestOK, NEW e \in Ids, NEW c, NEW done,
         Delete(e, c, done), done = "all" => c \in cals,
         \A d \in (deleted' \ dropped') \ (deleted \ dropped) : \E q \in pending' :
           q.op = "delete" /\ q.cal = d[1] /\ q.payload = d[2]
  PROVE  QueueOK'
<1>1. /\ RowsSame(Ids \ {e}) /\ Forget({e})
      /\ \A x \in Ids \ {e} : PendingOf(x)' = PendingOf(x)
      /\ {q \in pending : q.op = "delete"} \subseteq pending'
      /\ {q \in pending' : q.op # "delete"} \subseteq pending
  BY DeleteDoes
<1>2. ASSUME NEW x \in dirty'
      PROVE  EndsInRow(x)'
  <2>1. x \in Ids \ {e} /\ EndsInRow(x) /\ (x \in undone' <=> x \in undone)
    BY <1>1, <1>2 DEF RestOK, QueueOK, Forget
  <2>2. QED
    BY <1>1, <2>1, EndsKept DEF RowsSame
<1>3. CalsMatch'
  BY <1>1 DEF QueueOK, CalsMatch
<1>4. DeletionsQueued'
  BY <1>1 DEF QueueOK, DeletionsQueued
<1>5. QED
  BY <1>2, <1>3, <1>4 DEF QueueOK

\* A pass and a clear keep the queue,
LEMMA QueueSync ==
  ASSUME EventsOK, HistoryOK, PendingOK, RestOK, QueueOK, Sync
  PROVE  QueueOK'
<1>1. ASSUME NEW e \in Ids, NEW f \in Contents, SyncChange(e, f)
      PROVE  QueueOK'
  <2>1. RowsSame(Ids \ {e})
    BY <1>1, SyncChangeDoes
  <2>2. /\ pending' = pending /\ UNCHANGED <<deleted, dropped>>
        /\ dirty' = dirty \ {e} /\ undone' = undone \ {e}
    BY <1>1 DEF SyncChange, losses
  <2>3. \A x \in dirty' : Snapshot(x)' = Snapshot(x) /\ (x \in undone' <=> x \in undone)
    BY <2>1, <2>2 DEF RowsSame, RestOK
  <2>4. QED
    BY <2>2, <2>3, QueueKept
<1>2. ASSUME NEW c \in cals, NEW g \in Gids, NEW f \in Contents, SyncInsert(c, g, f)
      PROVE  QueueOK'
  <2>1. PICK e \in Ids : ~Exists(e) /\ RowsSame(Ids \ {e})
    BY <1>2, SyncInsertDoes
  <2>2. pending' = pending /\ UNCHANGED <<deleted, dropped, dirty, undone>>
    BY <1>2 DEF SyncInsert, losses
  <2>3. e \notin dirty
    BY <2>1, NewIsClean
  <2>4. \A x \in dirty' : Snapshot(x)' = Snapshot(x) /\ (x \in undone' <=> x \in undone)
    BY <2>1, <2>2, <2>3 DEF RowsSame, RestOK
  <2>5. QED
    BY <2>2, <2>4, QueueKept
<1>3. ASSUME NEW e \in Ids, SyncCancel(e)
      PROVE  QueueOK'
  <2> DEFINE E == {e}
             C == {}
  <2>1. /\ RowsSame(Ids \ E)
        /\ pending' = {q \in pending : q.event \notin E /\ q.cal \notin C}
        /\ dirty' = dirty \ E /\ undone' = undone \ E
        /\ deleted' = deleted /\ dropped' = dropped \cup {d \in deleted : d[1] \in C}
    BY <1>3, CancelDoes DEF SyncCancel, Forget, losses
  <2>2. E \in SUBSET Ids /\ \A x \in Ids \ E : Exists(x) => event[x].cal \notin C
    OBVIOUS
  <2> HIDE DEF C, E
  <2>3. QED
    BY <2>1, <2>2, QueueShrinks
<1>4. ASSUME NEW c \in Calendars, ClearCalendar(c)
      PROVE  QueueOK'
  <2> DEFINE E == {e \in Ids : Exists(e) /\ event[e].cal = c}
  <2>1. /\ RowsSame(Ids \ E)
        /\ pending' = {q \in pending : q.event \notin E /\ q.cal \notin {c}}
    BY <1>4, ClearDoes
  <2>2. /\ dirty' = dirty \ E /\ undone' = undone \ E
        /\ deleted' = deleted /\ dropped' = dropped \cup {d \in deleted : d[1] \in {c}}
    BY <1>4 DEF ClearCalendar
  <2>3. E \in SUBSET Ids /\ \A x \in Ids \ E : Exists(x) => event[x].cal \notin {c}
    OBVIOUS
  <2> HIDE DEF E
  <2>4. QED
    BY <2>1, <2>2, <2>3, QueueShrinks
<1>5. ASSUME NEW c \in Calendars, RelistCalendar(c)
      PROVE  QueueOK'
  <2>1. /\ UNCHANGED <<pending, deleted, dropped, dirty, undone>>
        /\ \A x \in dirty' : Snapshot(x)' = Snapshot(x)
    BY <1>5 DEF RelistCalendar, ghosts, losses, Snapshot
  <2>2. QED
    BY <2>1, QueueKept
<1>6. QED
  BY <1>1, <1>2, <1>3, <1>4, <1>5 DEF Sync

\* the user keeps it,
LEMMA QueueUser ==
  ASSUME EventsOK, HistoryOK, PendingOK, RestOK, QueueOK, User
  PROVE  QueueOK'
<1>1. ASSUME (\E e \in Ids : OpenDialog(e) \/ LookUp(e)) \/ CloseDialog
      PROVE  QueueOK'
  <2>1. /\ UNCHANGED <<pending, deleted, dropped, dirty, undone>>
        /\ \A x \in dirty' : Snapshot(x)' = Snapshot(x)
    BY <1>1 DEF OpenDialog, LookUp, CloseDialog, ghosts, losses, Snapshot
  <2>2. QED
    BY <2>1, QueueKept
<1>2. ASSUME NEW e \in Ids, NEW c \in Calendars, DeleteEvent(e, c)
      PROVE  QueueOK'
  <2>1. Delete(e, c, "all") /\ c \in cals
    BY <1>2 DEF DeleteEvent
  <2>2. \E q \in pending' : q.op = "delete" /\ q.cal = c /\ q.payload = event[e].gid
    BY <2>1, DeleteDoes
  <2>3. \A d \in (deleted' \ dropped') \ (deleted \ dropped) : d = <<c, event[e].gid>>
    BY <1>2 DEF DeleteEvent, Named
  <2>4. QED
    BY <2>1, <2>2, <2>3, QueueDelete
<1>3. ASSUME NEW e \in Ids, NEW c \in Calendars, NEW f \in Typed, NEW rs \in ReminderLists,
             UpdateEvent(e, c, f, rs)
      PROVE  QueueOK'
  <2>1. /\ Update(e, c, f, rs, "all") /\ UNCHANGED <<cals, deleted, dropped>>
        /\ dirty' = dirty \cup {e} /\ undone' = undone \ {e}
    BY <1>3 DEF UpdateEvent, losses
  <2>2. PendingOK' /\ RowsSame(Ids \ {e}) /\ Queued(e, FALSE)
    BY <2>1, TypedAreFields, UpdateDoes
  <2>3. QED
    BY <2>1, <2>2, QueueGrows
<1>4. ASSUME NEW e \in Ids, NEW c \in Calendars, NEW f \in Typed, NEW rs \in ReminderLists,
             UpdateRefused(e, c, f, rs)
      PROVE  QueueOK'
  <2>1. Update(e, c, f, rs, "history") /\ UNCHANGED <<deleted, dropped, dirty, undone>>
    BY <1>4 DEF UpdateRefused, ghosts, losses
  <2>2. pending' = pending /\ event' = event /\ reminders' = reminders
    BY <2>1 DEF Update, Written, EventsOK
  <2>3. \A x \in dirty' : Snapshot(x)' = Snapshot(x)
    BY <2>2 DEF Snapshot
  <2>4. QED
    BY <2>1, <2>2, <2>3, QueueKept
<1>5. ASSUME NEW c \in Calendars, NEW f \in Typed, NEW rs \in ReminderLists, CreateEvent(c, f, rs)
      PROVE  QueueOK'
  <2>1. Create(c, f, rs, "all") /\ UNCHANGED <<cals, history, deleted, dropped, undone>>
    BY <1>5 DEF CreateEvent, Create, losses
  <2>2. PICK e \in Ids : ~Exists(e) /\ RowsSame(Ids \ {e}) /\ Queued(e, FALSE) /\ dirty' = dirty \cup {e}
    BY <2>1, TypedAreFields, CreateDoes
  <2>3. PendingOK' /\ e \notin undone'
    BY <2>1, <2>2, TypedAreFields, CreateDoes, NewIsClean DEF RestOK
  <2>4. QED
    BY <2>1, <2>2, <2>3, QueueGrows
<1>6. ASSUME NEW h \in history, UndoEdit(h)
      PROVE  QueueOK'
  <2>1. /\ Undo(h, "all") /\ cals' = cals /\ history' \subseteq history
        /\ UNCHANGED <<deleted, dropped>>
        /\ dirty' = dirty \cup {h.event} /\ undone' = undone \cup {h.event}
    BY <1>6 DEF UndoEdit, losses
  <2>2. PendingOK' /\ h.event \in Ids /\ RowsSame(Ids \ {h.event}) /\ Queued(h.event, TRUE)
    BY <2>1, UndoDoes
  <2>3. QED
    BY <2>1, <2>2, QueueGrows
<1>7. ASSUME NEW e \in Ids, NEW c \in Calendars, DeleteRefused(e, c)
      PROVE  QueueOK'
  <2>1. Delete(e, c, "event") /\ deleted' \ dropped' \subseteq deleted \ dropped
    BY <1>7 DEF DeleteRefused
  <2>2. QED
    BY <2>1, QueueDelete
<1>8. QED
  BY <1>1, <1>2, <1>3, <1>4, <1>5, <1>6, <1>7 DEF User

\* and so does an operation that stops half-way.
LEMMA QueueFault ==
  ASSUME EventsOK, HistoryOK, PendingOK, RestOK, QueueOK, Fault
  PROVE  QueueOK'
<1>1. ASSUME NEW e \in Ids, NEW c \in Calendars, NEW f \in Typed, NEW rs \in ReminderLists,
             NEW done \in {"history", "event", "reminders"}, UpdateStops(e, c, f, rs, done)
      PROVE  QueueOK'
  <2>1. /\ Update(e, c, f, rs, done) /\ cals' = cals
        /\ UNCHANGED <<deleted, dropped>> /\ dirty' = dirty \ {e} /\ undone' = undone \ {e}
    BY <1>1 DEF UpdateStops, losses
  <2>2. RowsSame(Ids \ {e}) /\ pending' = pending
    BY <2>1, TypedAreFields, UpdateDoes
  <2>3. \A x \in dirty' : Snapshot(x)' = Snapshot(x) /\ (x \in undone' <=> x \in undone)
    BY <2>1, <2>2 DEF RowsSame, RestOK
  <2>4. QED
    BY <2>1, <2>2, <2>3, QueueKept
<1>2. ASSUME NEW c \in Calendars, NEW f \in Typed, NEW rs \in ReminderLists,
             NEW done \in {"event", "reminders"}, CreateStops(c, f, rs, done)
      PROVE  QueueOK'
  <2>1. Create(c, f, rs, done) /\ UNCHANGED <<cals, history, deleted, dropped, undone>>
    BY <1>2 DEF CreateStops, Create, losses
  <2>2. PICK e \in Ids : ~Exists(e) /\ RowsSame(Ids \ {e}) /\ pending' = pending /\ dirty' = dirty
    BY <2>1, TypedAreFields, CreateDoes
  <2>3. e \notin dirty
    BY <2>2, NewIsClean
  <2>4. \A x \in dirty' : Snapshot(x)' = Snapshot(x)
    BY <2>2, <2>3 DEF RowsSame, RestOK
  <2>5. QED
    BY <2>1, <2>2, <2>4, QueueKept
<1>3. ASSUME NEW e \in Ids, NEW c \in Calendars, DeleteStops(e, c)
      PROVE  QueueOK'
  <2>1. Delete(e, c, "event") /\ deleted' \ dropped' \subseteq deleted \ dropped
    BY <1>3 DEF DeleteStops
  <2>2. QED
    BY <2>1, QueueDelete
<1>4. ASSUME NEW h \in history, NEW done \in {"event", "reminders", "queue"}, UndoStops(h, done)
      PROVE  QueueOK'
  <2>1. /\ Undo(h, done) /\ cals' = cals /\ history' = history
        /\ UNCHANGED <<deleted, dropped>>
        /\ dirty' = dirty \ {h.event} /\ undone' = undone \ {h.event}
    BY <1>4 DEF UndoStops, losses
  <2>2. /\ PendingOK' /\ h.event \in Ids /\ RowsSame(Ids \ {h.event})
        /\ IF done = "queue" THEN Queued(h.event, TRUE) ELSE pending' = pending
    BY <2>1, UndoDoes
  <2>3. CASE done = "queue"
    BY <2>1, <2>2, <2>3, QueueGrows
  <2>4. CASE done # "queue"
    <3>1. \A x \in dirty' : Snapshot(x)' = Snapshot(x) /\ (x \in undone' <=> x \in undone)
      BY <2>1, <2>2 DEF RowsSame, RestOK
    <3>2. QED
      BY <2>1, <2>2, <2>4, <3>1, QueueKept
  <2>5. QED
    BY <2>3, <2>4
<1>5. QED
  BY <1>1, <1>2, <1>3, <1>4 DEF Fault

\* QueueOK is inductive, given TypeOK.
LEMMA QueueNext == TypeOK /\ QueueOK /\ [Next]_vars => QueueOK'
<1> SUFFICES ASSUME TypeOK, QueueOK, [Next]_vars
             PROVE  QueueOK'
  OBVIOUS
<1>1. EventsOK /\ HistoryOK /\ PendingOK /\ RestOK
  BY TypeParts
<1>2. ASSUME UNCHANGED vars
      PROVE  QueueOK'
  <2>1. /\ UNCHANGED <<pending, deleted, dropped, dirty, undone>>
        /\ \A x \in dirty' : Snapshot(x)' = Snapshot(x)
    BY <1>2 DEF vars, ghosts, losses, Snapshot
  <2>2. QED
    BY <2>1, QueueKept
<1>3. QED
  BY <1>1, <1>2, QueueSync, QueueUser, QueueFault DEF Next

LEMMA QueueInvariant == Spec => [](TypeOK /\ QueueOK)
<1>1. Init => QueueOK
  BY DEF Init, QueueOK, CalsMatch, DeletionsQueued
<1>2. QED
  BY <1>1, TypeInit, TypeNext, QueueNext, PTL DEF Spec

\* What the queue pushes last for an event is the event as it is here, whatever
\* was edited, undone, moved, refused or cut short before; after an undo, it is
\* the entry that the undo wrote back, and differs from the event in the title
\* and the all_day flag as far as the undo does.
THEOREM QueueCorrect == Spec => []QueueEndsInRow
<1>1. QueueOK => QueueEndsInRow
  BY QueueByEvent
<1>2. QED
  BY <1>1, QueueInvariant, PTL

\* A deletion of an event that Google has stays in the queue although the row it
\* is about is gone, but for the three ways in which the code loses it.
THEOREM DeletionsSurvive == Spec => []DeletionsQueued
<1>1. QueueOK => DeletionsQueued
  BY QueueByEvent
<1>2. QED
  BY <1>1, QueueInvariant, PTL

=============================================================================
