--------------------------- MODULE CalendarMirror ---------------------------
(***************************************************************************)
(* What the sync engine promises, without passes, pages and row ids: a     *)
(* local mirror of Google's events in which each event only ever moves     *)
(* forward, and a mark per calendar that says up to which version no event *)
(* is missing or old.  (Which cancelled events are gone is more subtle: see  *)
(* CancellationsApplied in CalendarSync.)                                  *)
(***************************************************************************)
EXTENDS Integers

CONSTANTS Calendars, Events, HomeOf

VARIABLES
  head,     \* the version of Google's last change
  remote,   \* the version of each event on Google's side, 0 when cancelled
  changed,  \* the version of its last change, cancelling included
  held,     \* the version the mirror holds of each event, 0 when none
  mine,     \* the events changed in the mirror itself
  mark      \* per calendar: the version up to which the mirror is complete

google == <<head, remote, changed>>
vars == <<google, held, mine, mark>>

Init ==
  /\ head = 1
  /\ remote \in [Events -> {0, 1}] /\ changed = remote
  /\ held = [e \in Events |-> 0] /\ mine = {}
  /\ mark = [c \in Calendars |-> 0]

RemoteChange(e) ==
  /\ head' = head + 1
  /\ \E v \in {0, head'} : remote' = [remote EXCEPT ![e] = v]
  /\ changed' = [changed EXCEPT ![e] = head']
  /\ UNCHANGED <<held, mine, mark>>

\* Events arrive: each is newer than what is held, or cancelled.
Receive ==
  /\ \A e \in Events :
       /\ held'[e] \in 0..head
       /\ held'[e] # 0 => held'[e] >= held[e]
       /\ e \in mine' => e \in mine /\ held'[e] = held[e]
  /\ UNCHANGED <<google, mark>>

Complete(c, v) ==
  \A e \in Events :
    HomeOf[e] = c /\ remote[e] # 0 /\ changed[e] <= v /\ e \notin mine => held[e] = remote[e]

\* The mark of a calendar moves, never back, to where nothing is missing.
Advance(c, v) ==
  /\ mark[c] <= v /\ v <= head /\ Complete(c, v)
  /\ mark' = [mark EXCEPT ![c] = v]
  /\ UNCHANGED <<google, held, mine>>

\* The mirror of some calendars is dropped as a whole, mark included.
Drop(C) ==
  /\ held' = [e \in Events |-> IF HomeOf[e] \in C THEN 0 ELSE held[e]]
  /\ mine' = {e \in mine : HomeOf[e] \notin C}
  /\ mark' = [c \in Calendars |-> IF c \in C THEN 0 ELSE mark[c]]
  /\ UNCHANGED google

LocalEdit(e) ==
  /\ held'[e] \in {0, held[e]} /\ \A d \in Events \ {e} : held'[d] = held[d]
  /\ mine' = mine \cup {e}
  /\ UNCHANGED <<google, mark>>

Next ==
  \/ \E e \in Events : RemoteChange(e) \/ LocalEdit(e)
  \/ \E c \in Calendars, v \in 0..head : Advance(c, v)
  \/ \E C \in SUBSET Calendars : Drop(C)
  \/ Receive

Spec == Init /\ [][Next]_vars

=============================================================================
