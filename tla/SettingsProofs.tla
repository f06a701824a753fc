--------------------------- MODULE SettingsProofs ---------------------------
(***************************************************************************)
(* Theorems about Settings, for any number of windows, zones, writes and   *)
(* faults: what is saved is in range, and a field is only ever lost in one *)
(* of the ways that the code has.                                          *)
(***************************************************************************)
EXTENDS Settings, SequenceTheorems, WellFoundedInduction, TLAPS

Values == Int \cup Seq(Zones)
Blobs == {b \in [Fields -> Values] : IsBlob(b)}
Windows ==
  [copy : Blobs, search : BOOLEAN, forms : SUBSET FormRows, canClose : BOOLEAN, asking : BOOLEAN,
   since : SUBSET Fields]

BlobTyped == blob \in Blobs
IntentTyped ==
  /\ intent \in [Fields -> Values]
  /\ intent["dock"] \in MinWidth..MaxWidth
  /\ \A f \in Versions : intent[f] \in Nat
  /\ intent["zones"] \in Seq(Zones)
StackTyped == stack \in Seq(Windows)
PanesTyped ==
  /\ shown \in [Panes -> Widths] /\ timer \in [Panes -> (MinWidth..MaxWidth) \cup {NoTimer}]
  /\ {suppress, restored, docked} \subseteq BOOLEAN
RestTyped == running \in BOOLEAN /\ excused \subseteq Fields /\ spent \in [Budgets -> Nat]

TypeInv == BlobTyped /\ IntentTyped /\ StackTyped /\ PanesTyped /\ RestTyped

\* A window's copy is current but for what was changed elsewhere, or is what the user last
\* wanted and could not be saved.
CopiesCurrent ==
  \A i \in 1..Len(stack) : \A f \in Fields \ stack[i].since :
    stack[i].copy[f] = blob[f] \/ (f \notin Panes /\ stack[i].copy[f] = intent[f])

\* A timer will save what the user wanted, or the field is excused.
TimersCurrent ==
  \A p \in Panes : timer[p] # NoTimer => timer[p] = intent[p] \/ p \in excused

LossInv == CopiesCurrent /\ TimersCurrent /\ OnlyExcusedLost

-----------------------------------------------------------------------------
(* Types.                                                                  *)

LEMMA FieldFacts ==
  /\ Panes = {"sidebar", "dock"} /\ Panes \subseteq Fields /\ Versions \subseteq Fields
  /\ "zones" \in Fields /\ "zones" \notin Panes /\ "zones" \notin Versions
  /\ \A f \in Fields : f \in Panes \/ f \in Versions \/ f = "zones"
  /\ \A f \in Versions : f \notin Panes
  BY DEF Fields, Panes, Versions

LEMMA DefaultTyped == Default \in Blobs
  <1>1. <<>> \in Seq(Zones)
    OBVIOUS
  <1>2. \A f \in Fields : Default[f] \in Values
    BY <1>1, SettingsAssumption DEF Default, Values
  <1>3. Default \in [Fields -> Values]
    BY <1>2 DEF Default
  <1>4. IsBlob(Default)
    BY <1>1, SettingsAssumption, FieldFacts DEF Default, IsBlob
  <1> QED BY <1>3, <1>4 DEF Blobs

\* What a field may hold.
Fits(f, v) ==
  IF f \in Panes THEN v \in MinWidth..MaxWidth ELSE IF f = "zones" THEN v \in Seq(Zones) ELSE v \in Nat

LEMMA SetFieldTyped ==
  ASSUME NEW b \in Blobs, NEW f \in Fields, NEW v, Fits(f, v)
  PROVE  [b EXCEPT ![f] = v] \in Blobs
  <1>1. v \in Values
    BY SettingsAssumption, FieldFacts DEF Fits, Values
  <1>2. [b EXCEPT ![f] = v] \in [Fields -> Values]
    BY <1>1 DEF Blobs
  <1>3. IsBlob([b EXCEPT ![f] = v])
    BY <1>2, FieldFacts DEF Blobs, IsBlob, Fits
  <1> QED BY <1>2, <1>3 DEF Blobs

LEMMA WantsTyped ==
  ASSUME IntentTyped, NEW f \in Fields, NEW v, Fits(f, v) \/ (f = "sidebar" /\ v \in Widths), Wants(f, v)
  PROVE  IntentTyped'
  <1>1. v \in Values
    BY SettingsAssumption, FieldFacts DEF Fits, Values, Widths
  <1> QED BY <1>1, FieldFacts DEF Wants, IntentTyped, Fits

LEMMA NewVersionFits ==
  ASSUME IntentTyped, NEW f \in Versions
  PROVE  f \in Fields /\ Fits(f, NewVersion(f))
  BY FieldFacts DEF IntentTyped, Fits, NewVersion

LEMMA WriteFreshTyped ==
  ASSUME BlobTyped, NEW f \in Fields, NEW v, Fits(f, v), NEW n, WriteFresh(f, v, n)
  PROVE  BlobTyped'
  BY SetFieldTyped, DefaultTyped DEF BlobTyped, WriteFresh

LEMMA FunctionIsSeq ==
  ASSUME NEW S, NEW n \in Nat, NEW s \in [1..n -> S]
  PROVE  s \in Seq(S) /\ Len(s) = n
  <1>1. s \in Seq(S)
    BY SeqDef
  <1>2. DOMAIN s = 1..n /\ DOMAIN s = 1..Len(s) /\ Len(s) \in Nat
    BY <1>1
  <1>3. Len(s) = n
    <2>1. CASE Len(s) < n
      BY <2>1, <1>2
    <2>2. CASE Len(s) > n
      BY <2>2, <1>2
    <2> QED BY <2>1, <2>2, <1>2
  <1> QED BY <1>1, <1>3

\* Sequences without one place, and with one more.
LEMMA RemoveAtIs ==
  ASSUME NEW S, NEW s \in Seq(S), NEW i \in 1..Len(s)
  PROVE  /\ RemoveAt(s, i) \in Seq(S) /\ Len(s) - 1 \in Nat
         /\ Len(RemoveAt(s, i)) = Len(s) - 1
         /\ \A j \in 1..Len(s) - 1 : RemoveAt(s, i)[j] = IF j < i THEN s[j] ELSE s[j + 1]
  <1> DEFINE a == SubSeq(s, 1, i - 1)
             b == SubSeq(s, i + 1, Len(s))
  <1>1. Len(s) \in Nat /\ i \in Int /\ \A k \in 1..Len(s) : s[k] \in S
    BY ElementOfSeq
  <1>2. /\ a \in Seq(S) /\ Len(a) = i - 1
        /\ \A j \in 1..i - 1 : a[j] = s[j]
    <2>1. /\ a \in Seq(S) /\ Len(a) = (IF 1 <= i - 1 THEN i - 1 - 1 + 1 ELSE 0)
          /\ \A j \in 1..i - 1 - 1 + 1 : a[j] = s[1 + j - 1]
      <3>1. 1 \in Int /\ i - 1 \in Int /\ \A k \in 1..i - 1 : s[k] \in S
        BY <1>1
      <3> QED BY <3>1, SubSeqProperties
    <2>2. (IF 1 <= i - 1 THEN i - 1 - 1 + 1 ELSE 0) = i - 1 /\ i - 1 - 1 + 1 = i - 1
          /\ \A j \in 1..i - 1 : 1 + j - 1 = j
      BY <1>1
    <2> QED BY <2>1, <2>2
  <1>3. /\ b \in Seq(S) /\ Len(b) = Len(s) - i
        /\ \A j \in 1..Len(s) - i : b[j] = s[i + j]
    <2>1. /\ b \in Seq(S) /\ Len(b) = (IF i + 1 <= Len(s) THEN Len(s) - (i + 1) + 1 ELSE 0)
          /\ \A j \in 1..Len(s) - (i + 1) + 1 : b[j] = s[i + 1 + j - 1]
      <3>1. i + 1 \in Int /\ Len(s) \in Int /\ \A k \in i + 1..Len(s) : s[k] \in S
        BY <1>1
      <3> QED BY <3>1, SubSeqProperties
    <2>2. (IF i + 1 <= Len(s) THEN Len(s) - (i + 1) + 1 ELSE 0) = Len(s) - i
          /\ Len(s) - (i + 1) + 1 = Len(s) - i
          /\ \A j \in 1..Len(s) - i : i + 1 + j - 1 = i + j
      BY <1>1
    <2> QED BY <2>1, <2>2
  <1> HIDE DEF a, b
  <1>4. RemoveAt(s, i) = a \o b
    BY DEF RemoveAt, a, b
  <1>5. /\ a \o b \in Seq(S) /\ Len(a \o b) = Len(a) + Len(b)
        /\ \A j \in 1..Len(a) + Len(b) :
             (a \o b)[j] = IF j <= Len(a) THEN a[j] ELSE b[j - Len(a)]
    BY <1>2, <1>3, ConcatProperties
  <1>6. Len(a) + Len(b) = Len(s) - 1 /\ Len(s) - 1 \in Nat
    BY <1>1, <1>2, <1>3
  <1>7. ASSUME NEW j \in 1..Len(s) - 1
        PROVE  (a \o b)[j] = IF j < i THEN s[j] ELSE s[j + 1]
    <2>1. CASE j < i
      BY <2>1, <1>1, <1>2, <1>5, <1>6
    <2>2. CASE ~(j < i)
      <3>1. (a \o b)[j] = b[j - (i - 1)]
        BY <2>2, <1>1, <1>2, <1>5, <1>6
      <3>2. j - (i - 1) \in 1..Len(s) - i /\ i + (j - (i - 1)) = j + 1
        BY <2>2, <1>1
      <3>3. b[j - (i - 1)] = s[i + (j - (i - 1))]
        BY <3>2, <1>3
      <3> QED BY <2>2, <3>1, <3>2, <3>3
    <2> QED BY <2>1, <2>2
  <1> QED BY <1>4, <1>5, <1>6, <1>7

LEMMA RemoveAtTyped ==
  ASSUME NEW S, NEW s \in Seq(S), NEW i \in 1..Len(s)
  PROVE  /\ RemoveAt(s, i) \in Seq(S) /\ Len(RemoveAt(s, i)) \in Nat
         /\ Len(RemoveAt(s, i)) = Len(s) - 1
         /\ \A j \in 1..Len(RemoveAt(s, i)) : \E k \in 1..Len(s) : RemoveAt(s, i)[j] = s[k]
  <1>1. /\ RemoveAt(s, i) \in Seq(S) /\ Len(s) - 1 \in Nat
        /\ Len(RemoveAt(s, i)) = Len(s) - 1
        /\ \A j \in 1..Len(s) - 1 : RemoveAt(s, i)[j] = IF j < i THEN s[j] ELSE s[j + 1]
    BY RemoveAtIs
  <1>2. \A j \in 1..Len(s) - 1 : j \in 1..Len(s) /\ j + 1 \in 1..Len(s)
    BY <1>1
  <1> QED BY <1>1, <1>2

LEMMA InsertAtIs ==
  ASSUME NEW S, NEW s \in Seq(S), NEW i \in 1..Len(s) + 1, NEW e \in S
  PROVE  /\ InsertAt(s, i, e) \in Seq(S) /\ Len(InsertAt(s, i, e)) = Len(s) + 1
         /\ \A j \in 1..Len(s) + 1 :
              InsertAt(s, i, e)[j] = IF j < i THEN s[j] ELSE IF j = i THEN e ELSE s[j - 1]
  <1> DEFINE a == SubSeq(s, 1, i - 1)
             b == SubSeq(s, i, Len(s))
             c == a \o <<e>>
  <1>1. Len(s) \in Nat /\ i \in Int /\ \A k \in 1..Len(s) : s[k] \in S
    BY ElementOfSeq
  <1>2. /\ a \in Seq(S) /\ Len(a) = i - 1
        /\ \A j \in 1..i - 1 : a[j] = s[j]
    <2>1. /\ a \in Seq(S) /\ Len(a) = (IF 1 <= i - 1 THEN i - 1 - 1 + 1 ELSE 0)
          /\ \A j \in 1..i - 1 - 1 + 1 : a[j] = s[1 + j - 1]
      <3>1. 1 \in Int /\ i - 1 \in Int /\ \A k \in 1..i - 1 : s[k] \in S
        BY <1>1
      <3> QED BY <3>1, SubSeqProperties
    <2>2. (IF 1 <= i - 1 THEN i - 1 - 1 + 1 ELSE 0) = i - 1 /\ i - 1 - 1 + 1 = i - 1
          /\ \A j \in 1..i - 1 : 1 + j - 1 = j
      BY <1>1
    <2> QED BY <2>1, <2>2
  <1>3. /\ b \in Seq(S) /\ Len(b) = Len(s) - (i - 1)
        /\ \A j \in 1..Len(s) - (i - 1) : b[j] = s[(i - 1) + j]
    <2>1. /\ b \in Seq(S) /\ Len(b) = (IF i <= Len(s) THEN Len(s) - i + 1 ELSE 0)
          /\ \A j \in 1..Len(s) - i + 1 : b[j] = s[i + j - 1]
      <3>1. i \in Int /\ Len(s) \in Int /\ \A k \in i..Len(s) : s[k] \in S
        BY <1>1
      <3> QED BY <3>1, SubSeqProperties
    <2>2. (IF i <= Len(s) THEN Len(s) - i + 1 ELSE 0) = Len(s) - (i - 1)
          /\ Len(s) - i + 1 = Len(s) - (i - 1)
          /\ \A j \in 1..Len(s) - (i - 1) : i + j - 1 = (i - 1) + j
      BY <1>1
    <2> QED BY <2>1, <2>2
  <1> HIDE DEF a, b
  <1>4. <<e>> \in Seq(S) /\ Len(<<e>>) = 1 /\ <<e>>[1] = e
    OBVIOUS
  <1>5. /\ c \in Seq(S) /\ Len(c) = i
        /\ \A j \in 1..i - 1 : c[j] = s[j]
        /\ c[i] = e
    <2>1. /\ c \in Seq(S) /\ Len(c) = Len(a) + 1
          /\ \A j \in 1..Len(a) + 1 : c[j] = IF j <= Len(a) THEN a[j] ELSE <<e>>[j - Len(a)]
      BY <1>2, <1>4, ConcatProperties
    <2>2. i \in 1..Len(a) + 1 /\ ~(i <= Len(a)) /\ i - Len(a) = 1 /\ Len(a) + 1 = i
      BY <1>1, <1>2
    <2>3. \A j \in 1..i - 1 : j \in 1..Len(a) + 1 /\ j <= Len(a)
      BY <1>1, <1>2
    <2> QED BY <1>2, <1>4, <2>1, <2>2, <2>3
  <1> HIDE DEF c
  <1>6. /\ c \o b \in Seq(S) /\ Len(c \o b) = Len(c) + Len(b)
        /\ \A j \in 1..Len(c) + Len(b) : (c \o b)[j] = IF j <= Len(c) THEN c[j] ELSE b[j - Len(c)]
    BY <1>3, <1>5, ConcatProperties
  <1>7. InsertAt(s, i, e) = c \o b
    BY DEF InsertAt, a, b, c
  <1>8. Len(c) + Len(b) = Len(s) + 1
    BY <1>1, <1>3, <1>5
  <1>9. ASSUME NEW j \in 1..Len(s) + 1
        PROVE  (c \o b)[j] = IF j < i THEN s[j] ELSE IF j = i THEN e ELSE s[j - 1]
    <2>1. CASE j <= i
      BY <2>1, <1>1, <1>5, <1>6, <1>8
    <2>2. CASE ~(j <= i)
      <3>1. (c \o b)[j] = b[j - i]
        BY <2>2, <1>1, <1>5, <1>6, <1>8
      <3>2. j - i \in 1..Len(s) - (i - 1) /\ (i - 1) + (j - i) = j - 1
        BY <2>2, <1>1
      <3> QED BY <2>2, <3>1, <3>2, <1>1, <1>3
    <2> QED BY <2>1, <2>2
  <1> QED BY <1>6, <1>7, <1>8, <1>9

LEMMA MoveZoneTyped ==
  ASSUME NEW zs \in Seq(Zones), NEW i \in DOMAIN zs, NEW j \in DOMAIN zs, NEW after \in BOOLEAN
  PROVE  MoveZone(zs, i, j, after) \in Seq(Zones)
  <1> DEFINE gap == IF after THEN j + 1 ELSE j
             at == IF i < gap THEN gap - 1 ELSE gap
  <1>1. Len(zs) \in Nat /\ DOMAIN zs = 1..Len(zs) /\ zs[i] \in Zones
    BY ElementOfSeq
  <1>2. RemoveAt(zs, i) \in Seq(Zones) /\ Len(RemoveAt(zs, i)) = Len(zs) - 1
    BY <1>1, RemoveAtTyped
  <1>3. at \in 1..Len(RemoveAt(zs, i)) + 1
    BY <1>1, <1>2
  <1> HIDE DEF at
  <1>4. InsertAt(RemoveAt(zs, i), at, zs[i]) \in Seq(Zones)
    BY <1>1, <1>2, <1>3, InsertAtIs
  <1>5. MoveZone(zs, i, j, after) = IF at = i THEN zs ELSE InsertAt(RemoveAt(zs, i), at, zs[i])
    BY DEF MoveZone, at
  <1> QED BY <1>4, <1>5

LEMMA ClockTyped ==
  ASSUME NEW zs \in Seq(Zones), NEW c \in ClockChanges(zs)
  PROVE  c \in Seq(Zones)
  <1>1. Len(zs) \in Nat /\ DOMAIN zs = 1..Len(zs)
    OBVIOUS
  <1>2. NextZone(zs) \subseteq Zones
    BY DEF NextZone, Zones, ToSet
  <1>3. CASE c \in {Append(zs, z) : z \in NextZone(zs)}
    <2>1. PICK z \in Zones : c = Append(zs, z)
      BY <1>2, <1>3
    <2> QED BY <2>1
  <1>4. CASE c \in {RemoveAt(zs, i) : i \in DOMAIN zs}
    BY <1>1, <1>4, RemoveAtTyped
  <1>5. CASE c \in {[zs EXCEPT ![i] = z] : i \in DOMAIN zs, z \in Zones}
    BY <1>1, <1>5, ExceptSeq
  <1>6. CASE c \in {MoveZone(zs, i, j, after) : i \in DOMAIN zs, j \in DOMAIN zs, after \in BOOLEAN}
    BY <1>6, MoveZoneTyped
  <1> QED BY <1>3, <1>4, <1>5, <1>6 DEF ClockChanges

LEMMA AgedTyped ==
  ASSUME NEW ws \in Seq(Windows)
  PROVE  /\ Aged(ws) \in Seq(Windows) /\ Len(Aged(ws)) = Len(ws)
         /\ \A i \in 1..Len(ws) :
              Aged(ws)[i].copy = ws[i].copy /\ Aged(ws)[i].since = ws[i].since \cup Changed
  <1>1. DOMAIN ws = 1..Len(ws) /\ Len(ws) \in Nat
    OBVIOUS
  <1>2. ASSUME NEW w \in Windows
        PROVE  /\ [w EXCEPT !.since = @ \cup Changed] \in Windows
               /\ [w EXCEPT !.since = @ \cup Changed].copy = w.copy
               /\ [w EXCEPT !.since = @ \cup Changed].since = w.since \cup Changed
    BY DEF Windows, Changed
  <1>3. Aged(ws) \in [1..Len(ws) -> Windows]
    BY <1>1, <1>2 DEF Aged
  <1>4. Aged(ws) \in Seq(Windows) /\ Len(Aged(ws)) = Len(ws)
    BY <1>1, <1>3, FunctionIsSeq
  <1>5. \A i \in 1..Len(ws) :
          Aged(ws)[i].copy = ws[i].copy /\ Aged(ws)[i].since = ws[i].since \cup Changed
    <2> TAKE i \in 1..Len(ws)
    <2>1. ws[i] \in Windows
      BY ElementOfSeq
    <2>2. Aged(ws)[i] = [ws[i] EXCEPT !.since = @ \cup Changed]
      BY <1>1 DEF Aged
    <2> QED BY <1>2, <2>1, <2>2
  <1> QED BY <1>4, <1>5

LEMMA FrontTyped ==
  ASSUME StackTyped, stack # <<>>
  PROVE  /\ Front(stack) \in Seq(Windows) /\ Len(Front(stack)) = Len(stack) - 1
         /\ \A i \in 1..Len(stack) - 1 : Front(stack)[i] = stack[i]
         /\ Len(stack) \in 1..Len(stack) /\ Top \in Windows
  <1>1. Len(stack) \in Nat /\ Len(stack) > 0 /\ \A i \in 1..Len(stack) : stack[i] \in Windows
    BY DEF StackTyped
  <1>2. /\ Front(stack) \in Seq(Windows) /\ Len(Front(stack)) = Len(stack) - 1
        /\ \A i \in 1..Len(stack) - 1 : Front(stack)[i] = stack[i]
    <2> DEFINE n == Len(stack) - 1
    <2>1. n \in Int /\ n \in Nat /\ \A i \in 1..n : stack[i] \in Windows
      BY <1>1
    <2>2. /\ SubSeq(stack, 1, n) \in Seq(Windows)
          /\ Len(SubSeq(stack, 1, n)) = IF 1 <= n THEN n - 1 + 1 ELSE 0
          /\ \A i \in 1..n - 1 + 1 : SubSeq(stack, 1, n)[i] = stack[1 + i - 1]
      <3> HIDE DEF n
      <3> QED BY <2>1, SubSeqProperties
    <2>3. /\ Len(SubSeq(stack, 1, n)) = n
          /\ \A i \in 1..n : SubSeq(stack, 1, n)[i] = stack[i]
      <3> HIDE DEF n
      <3>1. (IF 1 <= n THEN n - 1 + 1 ELSE 0) = n /\ n - 1 + 1 = n /\ \A i \in 1..n : 1 + i - 1 = i
        BY <2>1
      <3> QED BY <2>1, <2>2, <3>1
    <2> QED BY <2>2, <2>3 DEF Front
  <1> QED BY <1>1, <1>2 DEF Top

\* A save of the window on top: what becomes of the blob and the copies.
LEMMA WriteThroughTyped ==
  ASSUME BlobTyped, StackTyped, stack # <<>>, NEW f \in Fields, NEW v, Fits(f, v), NEW n,
         WriteThrough(f, v, n)
  PROVE  /\ BlobTyped' /\ StackTyped' /\ Len(stack') = Len(stack)
         /\ blob' = IF n = 0 THEN [Top.copy EXCEPT ![f] = v] ELSE blob
         /\ \A i \in 1..Len(stack) - 1 :
              stack'[i].copy = stack[i].copy /\ stack'[i].since = stack[i].since \cup Changed
         /\ stack'[Len(stack)].copy = [Top.copy EXCEPT ![f] = v]
         /\ stack'[Len(stack)].since = IF n = 0 THEN {} ELSE Top.since
  <1> DEFINE w == [Top EXCEPT !.copy[f] = v, !.since = IF n = 0 THEN {} ELSE @]
  <1>1. Front(stack) \in Seq(Windows) /\ Len(Front(stack)) = Len(stack) - 1 /\ Top \in Windows
        /\ \A i \in 1..Len(stack) - 1 : Front(stack)[i] = stack[i]
    BY FrontTyped
  <1>2. [Top.copy EXCEPT ![f] = v] \in Blobs
    BY <1>1, SetFieldTyped DEF Windows
  <1>3. /\ w.copy = [Top.copy EXCEPT ![f] = v] /\ w.since = (IF n = 0 THEN {} ELSE Top.since)
        /\ w \in Windows
    BY <1>1, <1>2 DEF Windows
  <1> HIDE DEF w
  <1>4. stack' = Append(Aged(Front(stack)), w)
    BY DEF WriteThrough, w
  <1>5. /\ Aged(Front(stack)) \in Seq(Windows) /\ Len(Aged(Front(stack))) = Len(stack) - 1
        /\ \A i \in 1..Len(stack) - 1 :
             /\ Aged(Front(stack))[i].copy = stack[i].copy
             /\ Aged(Front(stack))[i].since = stack[i].since \cup Changed
    BY <1>1, AgedTyped
  <1>6. Len(stack) \in Nat /\ Len(stack) > 0
    BY DEF StackTyped
  <1>7. /\ stack' \in Seq(Windows) /\ Len(stack') = Len(stack) /\ stack'[Len(stack)] = w
        /\ \A i \in 1..Len(stack) - 1 : stack'[i] = Aged(Front(stack))[i]
    BY <1>3, <1>4, <1>5, <1>6
  <1>8. blob' = IF n = 0 THEN [Top.copy EXCEPT ![f] = v] ELSE blob
    BY <1>3 DEF WriteThrough, w
  <1> QED BY <1>2, <1>3, <1>5, <1>7, <1>8 DEF BlobTyped, StackTyped

LEMMA SpentTyped ==
  ASSUME spent \in [Budgets -> Nat], NEW n \in {0, 1}, NEW b \in Budgets
  PROVE  /\ [spent EXCEPT ![b] = @ + 1] \in [Budgets -> Nat]
         /\ [spent EXCEPT !["fault"] = @ + n] \in [Budgets -> Nat]
         /\ [spent EXCEPT ![b] = @ + 1, !["fault"] = @ + n] \in [Budgets -> Nat]
  BY DEF Budgets

LEMMA WindowAt == ASSUME StackTyped PROVE \A i \in 1..Len(stack) : stack[i] \in Windows
  BY ElementOfSeq DEF StackTyped

-----------------------------------------------------------------------------
(* What steps make of the copies.                                          *)

\* Each window holds what a window held, and lacks what that one lacked.
SameCopies ==
  \A i \in 1..Len(stack') : \E k \in 1..Len(stack) :
    stack'[i].copy = stack[k].copy /\ stack'[i].since = stack[k].since

LEMMA NoSave ==
  ASSUME CopiesCurrent, UNCHANGED blob, \A f \in Fields \ Panes : intent'[f] = intent[f], SameCopies
  PROVE  CopiesCurrent'
  <1> SUFFICES ASSUME NEW i \in 1..Len(stack'), NEW f \in Fields \ stack'[i].since
               PROVE  \/ stack'[i].copy[f] = blob'[f]
                      \/ f \notin Panes /\ stack'[i].copy[f] = intent'[f]
    BY DEF CopiesCurrent
  <1>1. PICK k \in 1..Len(stack) : stack'[i].copy = stack[k].copy /\ stack'[i].since = stack[k].since
    BY DEF SameCopies
  <1>2. stack[k].copy[f] = blob[f] \/ (f \notin Panes /\ stack[k].copy[f] = intent[f])
    BY <1>1 DEF CopiesCurrent
  <1> QED BY <1>1, <1>2

LEMMA PutSame ==
  ASSUME StackTyped, NEW i \in 1..Len(stack), NEW w \in Windows,
         w.copy = stack[i].copy, w.since = stack[i].since, stack' = [stack EXCEPT ![i] = w]
  PROVE  StackTyped' /\ SameCopies
  <1>1. /\ stack' \in Seq(Windows) /\ Len(stack') = Len(stack)
        /\ \A j \in 1..Len(stack) : stack'[j] = IF j = i THEN w ELSE stack[j]
    BY ExceptSeq DEF StackTyped
  <1> QED BY <1>1 DEF StackTyped, SameCopies

LEMMA RemoveSame ==
  ASSUME StackTyped, NEW i \in 1..Len(stack), stack' = RemoveAt(stack, i)
  PROVE  StackTyped' /\ SameCopies
  <1> DEFINE t == RemoveAt(stack, i)
  <1>1. /\ t \in Seq(Windows)
        /\ \A j \in 1..Len(t) : \E k \in 1..Len(stack) : t[j] = stack[k]
    <2>1. stack \in Seq(Windows)
      BY DEF StackTyped
    <2>2. /\ RemoveAt(stack, i) \in Seq(Windows)
          /\ \A j \in 1..Len(RemoveAt(stack, i)) :
               \E k \in 1..Len(stack) : RemoveAt(stack, i)[j] = stack[k]
      BY ONLY <2>1, i \in 1..Len(stack), RemoveAtTyped
    <2> QED BY <2>2
  <1> HIDE DEF t
  <1>2. stack' = t
    BY DEF t
  <1> QED BY <1>1, <1>2 DEF StackTyped, SameCopies

LEMMA AttemptSame ==
  ASSUME StackTyped, NEW i \in 1..Len(stack), Attempt(i)
  PROVE  StackTyped' /\ SameCopies
  <1>1. CASE stack' = RemoveAt(stack, i)
    BY <1>1, RemoveSame
  <1>2. CASE stack' = [stack EXCEPT ![i].asking = TRUE]
    <2> DEFINE w == [stack[i] EXCEPT !.asking = TRUE]
    <2>1. w \in Windows /\ w.copy = stack[i].copy /\ w.since = stack[i].since
      <3>1. stack[i] \in Windows
        BY WindowAt
      <3> QED BY <3>1 DEF Windows
    <2>2. stack' = [stack EXCEPT ![i] = w]
      BY <1>2
    <2> HIDE DEF w
    <2> QED BY <2>1, <2>2, PutSame
  <1> QED BY <1>1, <1>2 DEF Attempt

\* A copy that was current is so after a save elsewhere but for what that changed.
LEMMA AgedCurrent ==
  ASSUME CopiesCurrent, NEW i \in 1..Len(stack), NEW f \in Fields \ (stack[i].since \cup Changed)
  PROVE  stack[i].copy[f] = blob'[f] \/ (f \notin Panes /\ stack[i].copy[f] = intent'[f])
  BY DEF CopiesCurrent, Changed

LEMMA SavedElsewhere ==
  ASSUME StackTyped, CopiesCurrent, stack' = Aged(stack)
  PROVE  StackTyped' /\ CopiesCurrent'
  <1>1. /\ stack' \in Seq(Windows) /\ Len(stack') = Len(stack)
        /\ \A i \in 1..Len(stack) :
             stack'[i].copy = stack[i].copy /\ stack'[i].since = stack[i].since \cup Changed
    BY AgedTyped DEF StackTyped
  <1> QED BY <1>1, AgedCurrent DEF StackTyped, CopiesCurrent

-----------------------------------------------------------------------------
(* What steps lose.                                                        *)

LEMMA LossKept ==
  ASSUME LossInv, excused \subseteq Fields, NEW n \in {0, 1}, NEW fields \in SUBSET Fields,
         MayLose(n, fields),
         n = 0 => \A f \in Fields : blob'[f] # intent'[f] =>
                    f \in excused \cup fields \/ (f \in Panes /\ timer'[f] # NoTimer),
         \A p \in Panes : timer'[p] # NoTimer => timer'[p] = timer[p] /\ intent'[p] = intent[p]
  PROVE  OnlyExcusedLost' /\ TimersCurrent' /\ excused' \subseteq Fields
  <1>1. \A f \in Fields :
          f \in excused' <=> f \in excused \cup fields \cup (IF n = 1 THEN Fields ELSE {}) /\ ~Settled(f)'
    BY DEF MayLose
  <1>2. \A f \in Fields : blob'[f] # intent'[f] => ~Settled(f)'
    BY DEF Settled
  <1>3. \A p \in Panes : timer'[p] # NoTimer => ~Settled(p)'
    BY DEF Settled
  <1>4. OnlyExcusedLost'
    <2> SUFFICES ASSUME NEW f \in Fields, blob'[f] # intent'[f]
                 PROVE  f \in excused' \/ (f \in Panes /\ timer'[f] # NoTimer)
      BY DEF OnlyExcusedLost
    <2>1. CASE n = 1
      BY <2>1, <1>1, <1>2
    <2>2. CASE n = 0
      BY <2>2, <1>1, <1>2
    <2> QED BY <2>1, <2>2
  <1>5. TimersCurrent'
    <2> SUFFICES ASSUME NEW p \in Panes, timer'[p] # NoTimer
                 PROVE  timer'[p] = intent'[p] \/ p \in excused'
      BY DEF TimersCurrent
    <2>1. timer[p] = intent[p] \/ p \in excused
      BY DEF LossInv, TimersCurrent
    <2> QED BY <1>1, <1>3, <2>1, FieldFacts
  <1>6. excused' \subseteq Fields
    BY DEF MayLose
  <1> QED BY <1>4, <1>5, <1>6

\* A setting that is loaded, changed and saved at once.
LEMMA SavedFresh ==
  ASSUME TypeInv, LossInv, NEW f \in Versions, NEW n \in {0, 1}, NEW fields \in SUBSET Fields,
         WriteFresh(f, NewVersion(f), n), Wants(f, NewVersion(f)), MayLose(n, fields),
         UNCHANGED timer \/ (Pending \subseteq fields /\ timer' = [p \in Panes |-> NoTimer])
  PROVE  BlobTyped' /\ IntentTyped' /\ OnlyExcusedLost' /\ TimersCurrent' /\ excused' \subseteq Fields
  <1>1. f \in Fields /\ f \notin Panes /\ Fits(f, NewVersion(f))
    BY NewVersionFits, FieldFacts DEF TypeInv
  <1>2. BlobTyped' /\ IntentTyped'
    BY <1>1, WriteFreshTyped, WantsTyped DEF TypeInv
  <1>3. \A g \in Fields : intent'[g] = IF g = f THEN NewVersion(f) ELSE intent[g]
    BY <1>1 DEF Wants, TypeInv, IntentTyped
  <1>4. n = 0 => \A g \in Fields : blob'[g] = IF g = f THEN NewVersion(f) ELSE blob[g]
    BY <1>1 DEF WriteFresh, TypeInv, BlobTyped, Blobs
  <1>5. ASSUME n = 0, NEW g \in Fields, blob'[g] # intent'[g]
        PROVE  g \in excused \cup fields \/ (g \in Panes /\ timer'[g] # NoTimer)
    <2>1. blob[g] # intent[g]
      BY <1>3, <1>4, <1>5
    <2>2. g \in excused \/ (g \in Panes /\ timer[g] # NoTimer)
      BY <2>1 DEF LossInv, OnlyExcusedLost
    <2>3. g \in Panes /\ timer[g] # NoTimer => g \in Pending
      BY DEF Pending
    <2> QED BY <2>2, <2>3
  <1>6. \A p \in Panes : timer'[p] # NoTimer => timer'[p] = timer[p] /\ intent'[p] = intent[p]
    BY <1>1, <1>3, FieldFacts
  <1>7. OnlyExcusedLost' /\ TimersCurrent' /\ excused' \subseteq Fields
    <2>1. excused \subseteq Fields
      BY DEF TypeInv, RestTyped
    <2> QED BY <1>5, <1>6, <2>1, LossKept
  <1> QED BY <1>2, <1>7

\* A setting of the window on top, that is saved with all the rest of its copy.
LEMMA SavedThrough ==
  ASSUME TypeInv, LossInv, stack # <<>>, NEW f \in Fields, NEW v, Fits(f, v), NEW n \in {0, 1},
         WriteThrough(f, v, n), MayLose(n, Top.since), UNCHANGED timer,
         (f \notin Panes /\ Wants(f, v)) \/ (UNCHANGED intent /\ v = Top.copy[f])
  PROVE  BlobTyped' /\ IntentTyped' /\ StackTyped' /\ LossInv' /\ excused' \subseteq Fields
  <1> DEFINE top == Len(stack)
  <1>1. BlobTyped /\ StackTyped /\ IntentTyped /\ excused \subseteq Fields /\ CopiesCurrent
    BY DEF TypeInv, RestTyped, LossInv
  <1>2. /\ BlobTyped' /\ StackTyped' /\ Len(stack') = Len(stack)
        /\ blob' = IF n = 0 THEN [Top.copy EXCEPT ![f] = v] ELSE blob
        /\ \A i \in 1..Len(stack) - 1 :
             stack'[i].copy = stack[i].copy /\ stack'[i].since = stack[i].since \cup Changed
        /\ stack'[Len(stack)].copy = [Top.copy EXCEPT ![f] = v]
        /\ stack'[Len(stack)].since = IF n = 0 THEN {} ELSE Top.since
    BY <1>1, WriteThroughTyped
  <1>3. top \in 1..Len(stack) /\ Len(stack) \in Nat /\ Top = stack[top] /\ Top \in Windows
    BY <1>1, FrontTyped DEF Top, StackTyped
  <1>4. IntentTyped'
    <2>1. CASE Wants(f, v)
      BY <2>1, <1>1, WantsTyped
    <2>2. CASE UNCHANGED intent
      BY <2>2, <1>1 DEF IntentTyped
    <2> QED BY <2>1, <2>2
  <1>5. \A g \in Fields : [Top.copy EXCEPT ![f] = v][g] = IF g = f THEN v ELSE Top.copy[g]
    BY <1>3 DEF Windows, Blobs
  <1>6. \A g \in Fields : g # f \/ UNCHANGED intent => intent'[g] = intent[g]
    BY <1>1 DEF Wants, IntentTyped
  <1>7. \A g \in Panes : intent'[g] = intent[g]
    BY <1>6, FieldFacts
  <1>8. f \notin Panes /\ Wants(f, v) => intent'[f] = v
    BY <1>1 DEF Wants, IntentTyped
  <1>9. \A g \in Fields \ Top.since : Top.copy[g] = blob[g] \/ (g \notin Panes /\ Top.copy[g] = intent[g])
    BY <1>1, <1>3 DEF CopiesCurrent
  \* The copy with the change, where nothing was changed elsewhere.
  <1>10. ASSUME NEW g \in Fields \ Top.since
         PROVE  LET c == [Top.copy EXCEPT ![f] = v]
                IN (c[g] = blob[g] /\ intent'[g] = intent[g]) \/ (g \notin Panes /\ c[g] = intent'[g])
    <2>1. CASE g = f /\ f \notin Panes /\ Wants(f, v)
      BY <2>1, <1>5, <1>8
    <2>2. CASE g # f \/ (UNCHANGED intent /\ v = Top.copy[f])
      <3>1. [Top.copy EXCEPT ![f] = v][g] = Top.copy[g] /\ intent'[g] = intent[g]
        BY <2>2, <1>5, <1>6
      <3> QED BY <3>1, <1>9
    <2> QED BY <2>1, <2>2
  <1>11. CopiesCurrent'
    <2> SUFFICES ASSUME NEW i \in 1..Len(stack'), NEW g \in Fields \ stack'[i].since
                 PROVE  \/ stack'[i].copy[g] = blob'[g]
                        \/ g \notin Panes /\ stack'[i].copy[g] = intent'[g]
      BY DEF CopiesCurrent
    <2>1. CASE i = top
      <3>1. CASE n = 0
        BY <2>1, <3>1, <1>2
      <3>2. CASE n = 1
        <4>1. g \in Fields \ Top.since /\ blob' = blob
          BY <2>1, <3>2, <1>2
        <4> QED BY <2>1, <4>1, <1>2, <1>10
      <3> QED BY <3>1, <3>2
    <2>2. CASE i # top
      <3>1. i \in 1..Len(stack) - 1 /\ i \in 1..Len(stack)
        BY <2>2, <1>2, <1>3
      <3>2. stack'[i].copy = stack[i].copy /\ stack'[i].since = stack[i].since \cup Changed
        BY <3>1, <1>2
      <3> QED BY <1>1, <3>1, <3>2, AgedCurrent
    <2> QED BY <2>1, <2>2
  <1>12. ASSUME n = 0, NEW g \in Fields, blob'[g] # intent'[g]
         PROVE  g \in excused \cup Top.since \/ (g \in Panes /\ timer'[g] # NoTimer)
    <2>1. CASE g \in Top.since
      BY <2>1
    <2>2. CASE g \notin Top.since
      <3>1. blob[g] # intent[g]
        BY <2>2, <1>2, <1>10, <1>12
      <3> QED BY <3>1 DEF LossInv, OnlyExcusedLost
    <2> QED BY <2>1, <2>2
  <1>13. OnlyExcusedLost' /\ TimersCurrent' /\ excused' \subseteq Fields
    <2>1. Top.since \in SUBSET Fields
      BY <1>3 DEF Windows
    <2>2. \A p \in Panes : timer'[p] # NoTimer => timer'[p] = timer[p] /\ intent'[p] = intent[p]
      BY <1>7
    <2> QED BY <1>1, <1>12, <2>1, <2>2, LossKept
  <1> QED BY <1>2, <1>4, <1>11, <1>13 DEF LossInv

-----------------------------------------------------------------------------
(* The steps.                                                              *)

IInv == TypeInv /\ LossInv

\* A step that moves no setting: windows and panes only.
LEMMA NothingWanted ==
  ASSUME IInv, UNCHANGED <<running, blob, intent, excused, timer>>, StackTyped', SameCopies, PanesTyped',
         spent' \in [Budgets -> Nat]
  PROVE  IInv'
  <1>1. TypeInv'
    BY DEF IInv, TypeInv, BlobTyped, IntentTyped, RestTyped
  <1>2. CopiesCurrent'
    BY NoSave DEF IInv, LossInv
  <1>3. TimersCurrent' /\ OnlyExcusedLost'
    BY DEF IInv, LossInv, TimersCurrent, OnlyExcusedLost
  <1> QED BY <1>1, <1>2, <1>3 DEF IInv, LossInv

LEMMA StackAsIs == ASSUME StackTyped, UNCHANGED stack PROVE StackTyped' /\ SameCopies
  BY DEF StackTyped, SameCopies

LEMMA SpendTyped ==
  ASSUME spent \in [Budgets -> Nat], NEW b \in Budgets, NEW n \in {0, 1},
         Spend(b) \/ Fails(n) \/ SpendAnd(b, n)
  PROVE  spent' \in [Budgets -> Nat]
  BY SpentTyped DEF Spend, Fails, SpendAnd

LEMMA WidthFacts ==
  /\ MinWidth \in Widths /\ MinWidth \in MinWidth..MaxWidth
  /\ \A width \in Widths : Clamped(width) \in MinWidth..MaxWidth
  /\ MinWidth..MaxWidth \subseteq Widths
  /\ \A width \in MinWidth..MaxWidth : width # NoTimer
  BY SettingsAssumption DEF Widths, Clamped, NoTimer

LEMMA MovePaneStep ==
  ASSUME IInv, NEW p \in Panes, NEW width \in Widths, MovePane(p, width)
  PROVE  IInv'
  <1> USE DEF MovePane
  <1>1. BlobTyped /\ IntentTyped /\ StackTyped /\ PanesTyped /\ RestTyped /\ LossInv /\ p \in Fields
    BY FieldFacts DEF IInv, TypeInv
  <1>2. /\ shown' \in [Panes -> Widths] /\ timer' \in [Panes -> (MinWidth..MaxWidth) \cup {NoTimer}]
        /\ \A q \in Panes : q # p => timer'[q] = timer[q]
        /\ \/ p = "sidebar" /\ suppress' # suppress /\ suppress' = FALSE /\ timer' = timer /\ shown'[p] = width
           \/ suppress' = suppress /\ shown'[p] \in MinWidth..MaxWidth /\ timer'[p] = shown'[p]
    <2>1. CASE p = "sidebar" /\ suppress
      <3>1. suppress' = FALSE /\ suppress' # suppress
        BY <2>1
      <3>2. shown' = [shown EXCEPT ![p] = width] /\ timer' = timer
        BY <2>1
      <3> QED BY <2>1, <3>1, <3>2, <1>1 DEF PanesTyped
    <2>2. CASE ~(p = "sidebar" /\ suppress)
      <3>1. Resized(p, width) /\ suppress' = suppress
        BY <2>2
      <3> QED BY <3>1, <1>1, WidthFacts DEF Resized, PanesTyped
    <2> QED BY <2>1, <2>2
  <1>3. excused' = IF suppress' # suppress THEN excused \cup {p} ELSE excused
    OBVIOUS
  <1>4. \A f \in Fields : intent'[f] = IF f = p THEN shown'[p] ELSE intent[f]
    BY <1>1 DEF Wants, IntentTyped
  <1>5. IntentTyped'
    <2>1. shown'[p] \in Widths
      BY <1>2
    <2>2. Fits(p, shown'[p]) \/ (p = "sidebar" /\ shown'[p] \in Widths)
      BY <1>2, <2>1 DEF Fits
    <2> QED BY <1>1, <2>2, WantsTyped
  <1>6. TypeInv'
    <2>1. {suppress', restored', docked'} \subseteq BOOLEAN
      BY <1>1, <1>2 DEF PanesTyped
    <2>2. PanesTyped'
      BY <1>2, <2>1 DEF PanesTyped
    <2>3. RestTyped'
      <3>1. spent' \in [Budgets -> Nat]
        BY <1>1, SpendTyped DEF RestTyped, Budgets
      <3> QED BY <1>1, <1>3, <3>1 DEF RestTyped
    <2> QED BY <1>1, <1>5, <2>2, <2>3, StackAsIs DEF TypeInv, BlobTyped
  <1>7. CopiesCurrent'
    <2>1. \A f \in Fields \ Panes : intent'[f] = intent[f]
      BY <1>4
    <2> QED BY <1>1, <2>1, StackAsIs, NoSave DEF LossInv
  <1>8. TimersCurrent'
    BY <1>1, <1>2, <1>3, <1>4, FieldFacts DEF LossInv, TimersCurrent
  <1>9. OnlyExcusedLost'
    <2> SUFFICES ASSUME NEW f \in Fields, blob'[f] # intent'[f]
                 PROVE  f \in excused' \/ (f \in Panes /\ timer'[f] # NoTimer)
      BY DEF OnlyExcusedLost
    <2>1. CASE f = p
      BY <2>1, <1>2, <1>3, WidthFacts
    <2>2. CASE f # p
      <3>1. blob[f] # intent[f]
        BY <2>2, <1>4
      <3> QED BY <2>2, <3>1, <1>1, <1>2, <1>3 DEF LossInv, OnlyExcusedLost
    <2> QED BY <2>1, <2>2
  <1> QED BY <1>6, <1>7, <1>8, <1>9 DEF IInv, LossInv

LEMMA TimerFiresStep ==
  ASSUME IInv, NEW p \in Panes, TimerFires(p)
  PROVE  IInv'
  <1>1. BlobTyped /\ IntentTyped /\ StackTyped /\ PanesTyped /\ RestTyped /\ LossInv /\ p \in Fields
    BY FieldFacts DEF IInv, TypeInv
  <1>2. PICK n \in {0, 1} : Fails(n) /\ WriteFresh(p, timer[p], n) /\ MayLose(n, {})
    BY DEF TimerFires, Faults
  <1>3. /\ timer[p] \in MinWidth..MaxWidth /\ timer' = [timer EXCEPT ![p] = NoTimer]
        /\ UNCHANGED <<running, shown, suppress, restored, docked, intent>> /\ stack' = Aged(stack)
    BY <1>1 DEF TimerFires, PanesTyped
  <1>4. \A q \in Panes : timer'[q] = IF q = p THEN NoTimer ELSE timer[q]
    BY <1>1, <1>3 DEF PanesTyped
  <1>5. Fits(p, timer[p])
    BY <1>3 DEF Fits
  <1>6. BlobTyped'
    BY <1>1, <1>2, <1>5, WriteFreshTyped
  <1>7. n = 0 => \A f \in Fields : blob'[f] = IF f = p THEN timer[p] ELSE blob[f]
    BY <1>1, <1>2 DEF WriteFresh, BlobTyped, Blobs
  <1>8. OnlyExcusedLost' /\ TimersCurrent' /\ excused' \subseteq Fields
    <2>1. ASSUME n = 0, NEW f \in Fields, blob'[f] # intent'[f]
          PROVE  f \in excused \cup {} \/ (f \in Panes /\ timer'[f] # NoTimer)
      <3>1. CASE f = p
        BY <3>1, <2>1, <1>1, <1>3, <1>7, WidthFacts DEF LossInv, TimersCurrent
      <3>2. CASE f # p
        <4>1. blob[f] # intent[f]
          BY <3>2, <2>1, <1>3, <1>7
        <4> QED BY <3>2, <4>1, <1>1, <1>4 DEF LossInv, OnlyExcusedLost
      <3> QED BY <3>1, <3>2
    <2>2. \A q \in Panes : timer'[q] # NoTimer => timer'[q] = timer[q] /\ intent'[q] = intent[q]
      BY <1>3, <1>4
    <2>3. excused \subseteq Fields /\ {} \in SUBSET Fields
      BY <1>1 DEF RestTyped
    <2> QED BY <1>1, <1>2, <2>1, <2>2, <2>3, LossKept
  <1>9. StackTyped' /\ CopiesCurrent'
    BY <1>1, <1>3, SavedElsewhere DEF LossInv
  <1>10. TypeInv'
    <2>1. PanesTyped'
      BY <1>1, <1>3 DEF PanesTyped
    <2>2. spent' \in [Budgets -> Nat]
      <3>1. "fault" \in Budgets
        BY DEF Budgets
      <3> QED BY <1>1, <1>2, <3>1, SpendTyped DEF RestTyped
    <2>3. RestTyped'
      BY <1>1, <1>3, <1>8, <2>2 DEF RestTyped
    <2>4. IntentTyped'
      BY <1>1, <1>3 DEF IntentTyped
    <2> QED BY <1>6, <1>9, <2>1, <2>3, <2>4 DEF TypeInv
  <1> QED BY <1>8, <1>9, <1>10 DEF IInv, LossInv

\* The window below and the popup load, change and save a setting.
LEMMA FreshSteps ==
  ASSUME IInv, ToggleBelow \/ DragPopup \/ Shutdown
  PROVE  IInv'
  <1>1. BlobTyped /\ IntentTyped /\ StackTyped /\ PanesTyped /\ RestTyped /\ LossInv
    BY DEF IInv, TypeInv
  <1>2. PICK f \in Versions, n \in {0, 1}, fields \in SUBSET Fields, b \in Budgets :
          /\ WriteFresh(f, NewVersion(f), n) /\ Wants(f, NewVersion(f)) /\ MayLose(n, fields)
          /\ Fails(n) \/ SpendAnd(b, n)
          /\ UNCHANGED timer \/ (Pending \subseteq fields /\ timer' = [p \in Panes |-> NoTimer])
    <2>1. {"weekends", "position", "lastView"} \subseteq Versions /\ "write" \in Budgets
          /\ {} \in SUBSET Fields /\ Pending \in SUBSET Fields
      BY FieldFacts DEF Fields, Panes, Versions, Budgets, Pending
    <2>2. CASE ToggleBelow
      BY <2>1, <2>2 DEF ToggleBelow, panes, Faults
    <2>3. CASE DragPopup
      BY <2>1, <2>3 DEF DragPopup, panes, Faults
    <2>4. CASE Shutdown
      <3>1. timer' = [p \in Panes |-> NoTimer]
        BY <2>4 DEF Shutdown, Leave
      <3>2. PICK n \in {0, 1} :
              /\ Fails(n) /\ WriteFresh("lastView", NewVersion("lastView"), n) /\ MayLose(n, Pending)
              /\ Wants("lastView", NewVersion("lastView"))
        BY <2>4 DEF Shutdown, Faults
      <3> QED BY <2>1, <3>1, <3>2
    <2> QED BY <2>2, <2>3, <2>4
  <1>3. BlobTyped' /\ IntentTyped' /\ OnlyExcusedLost' /\ TimersCurrent' /\ excused' \subseteq Fields
    BY <1>2, SavedFresh DEF IInv
  <1>4. StackTyped' /\ CopiesCurrent'
    <2>1. CASE stack' = Aged(stack)
      BY <1>1, <2>1, SavedElsewhere DEF LossInv
    <2>2. CASE stack' = <<>>
      BY <2>2 DEF StackTyped, CopiesCurrent
    <2> QED BY <2>1, <2>2 DEF ToggleBelow, DragPopup, Shutdown, Leave, Below
  <1>5. PanesTyped'
    BY <1>1 DEF ToggleBelow, DragPopup, Shutdown, Leave, panes, PanesTyped
  <1>6. running' \in BOOLEAN
    BY <1>1 DEF ToggleBelow, DragPopup, Shutdown, Leave, RestTyped
  <1>7. spent' \in [Budgets -> Nat]
    BY <1>1, <1>2, SpendTyped DEF RestTyped
  <1> QED BY <1>3, <1>4, <1>5, <1>6, <1>7 DEF IInv, TypeInv, LossInv, RestTyped

\* A row of the preferences window saves the copy.
LEMMA ThroughSteps ==
  ASSUME IInv, stack # <<>>, NEW f \in Fields, NEW v, Fits(f, v), NEW n \in {0, 1},
         SpendAnd("write", n), WriteThrough(f, v, n), MayLose(n, Top.since), UNCHANGED <<running, panes>>,
         (f \notin Panes /\ Wants(f, v)) \/ (UNCHANGED intent /\ v = Top.copy[f])
  PROVE  IInv'
  <1>1. BlobTyped' /\ IntentTyped' /\ StackTyped' /\ LossInv' /\ excused' \subseteq Fields
    BY SavedThrough DEF IInv, panes
  <1>2. PanesTyped'
    BY DEF IInv, TypeInv, PanesTyped, panes
  <1>3. spent' \in [Budgets -> Nat]
    BY SpendTyped DEF IInv, TypeInv, RestTyped, Budgets
  <1>4. running' \in BOOLEAN
    BY DEF IInv, TypeInv, RestTyped
  <1> QED BY <1>1, <1>2, <1>3, <1>4 DEF IInv, TypeInv, RestTyped

LEMMA ChangeSettingStep ==
  ASSUME IInv, NEW f \in Versions, ChangeSetting(f)
  PROVE  IInv'
  <1>1. f \in Fields /\ f \notin Panes /\ Fits(f, NewVersion(f))
    BY NewVersionFits, FieldFacts DEF IInv, TypeInv
  <1>2. PICK n \in {0, 1} :
          SpendAnd("write", n) /\ WriteThrough(f, NewVersion(f), n) /\ MayLose(n, Top.since)
    BY DEF ChangeSetting, Faults
  <1>3. stack # <<>> /\ Wants(f, NewVersion(f)) /\ UNCHANGED <<running, panes>>
    BY DEF ChangeSetting, OnTop
  <1> QED BY <1>1, <1>2, <1>3, ThroughSteps

LEMMA ChangeClockStep ==
  ASSUME IInv, ChangeClock
  PROVE  IInv'
  <1>1. PICK zones \in ClockChanges(Top.copy["zones"]), n \in {0, 1} :
          /\ Wants("zones", zones) /\ SpendAnd("write", n) /\ WriteThrough("zones", zones, n)
          /\ MayLose(n, Top.since)
    BY DEF ChangeClock, Faults
  <1>2. stack # <<>> /\ UNCHANGED <<running, panes>>
    BY DEF ChangeClock, OnTop
  <1>3. Top.copy["zones"] \in Seq(Zones)
    <2>1. Top \in Windows
      BY <1>2, FrontTyped DEF IInv, TypeInv
    <2> QED BY <2>1 DEF Windows, Blobs, IsBlob
  <1>4. Fits("zones", zones)
    BY <1>1, <1>3, ClockTyped, FieldFacts DEF Fits
  <1> QED BY <1>1, <1>2, <1>4, FieldFacts, ThroughSteps

LEMMA SwapStep ==
  ASSUME IInv, Swap
  PROVE  IInv'
  <1>1. stack # <<>>
    BY DEF Swap, OnTop
  <1>2. CASE Top.copy["primary"] = Top.copy["secondary"]
    <2>1. PICK n \in {0, 1} :
            /\ SpendAnd("write", n) /\ WriteThrough("primary", Top.copy["primary"], n)
            /\ MayLose(n, Top.since)
      BY <1>2 DEF Swap, Faults
    <2>2. UNCHANGED <<running, panes, intent>>
      BY <1>2 DEF Swap
    <2>3. "primary" \in Fields /\ Fits("primary", Top.copy["primary"])
      <3>1. Top \in Windows
        BY <1>1, FrontTyped DEF IInv, TypeInv
      <3>2. "primary" \in Versions
        BY DEF Versions, Fields, Panes
      <3> QED BY <3>1, <3>2, FieldFacts DEF Windows, Blobs, IsBlob, Fits
    <2> QED BY <1>1, <2>1, <2>2, <2>3, ThroughSteps
  <1>3. CASE Top.copy["primary"] # Top.copy["secondary"]
    <2>1. /\ Spend("write") /\ UNCHANGED <<blob, shown, suppress, restored, docked, intent>>
          /\ running' = FALSE /\ stack' = <<>> /\ timer' = [p \in Panes |-> NoTimer]
          /\ MayLose(0, Pending)
      BY <1>3 DEF Swap, Leave
    <2>2. OnlyExcusedLost' /\ TimersCurrent' /\ excused' \subseteq Fields
      <3>1. LossInv /\ excused \subseteq Fields /\ Pending \in SUBSET Fields
        BY FieldFacts DEF IInv, TypeInv, RestTyped, Pending
      <3>2. ASSUME NEW f \in Fields, blob'[f] # intent'[f]
            PROVE  f \in excused \cup Pending \/ (f \in Panes /\ timer'[f] # NoTimer)
        <4>1. blob[f] # intent[f]
          BY <2>1, <3>2
        <4> QED BY <3>1, <4>1 DEF LossInv, OnlyExcusedLost, Pending
      <3>3. \A p \in Panes : timer'[p] # NoTimer => timer'[p] = timer[p] /\ intent'[p] = intent[p]
        BY <2>1
      <3> QED BY <2>1, <3>1, <3>2, <3>3, LossKept
    <2>3. StackTyped' /\ CopiesCurrent'
      BY <2>1 DEF StackTyped, CopiesCurrent
    <2>4. PanesTyped' /\ BlobTyped' /\ IntentTyped'
      BY <2>1 DEF IInv, TypeInv, PanesTyped, BlobTyped, IntentTyped
    <2>5. RestTyped'
      BY <2>1, <2>2, SpendTyped DEF IInv, TypeInv, RestTyped, Budgets
    <2> QED BY <2>2, <2>3, <2>4, <2>5 DEF IInv, TypeInv, LossInv
  <1> QED BY <1>2, <1>3

LEMMA OpenPreferencesStep ==
  ASSUME IInv, OpenPreferences
  PROVE  IInv'
  <1>1. PICK n \in {0, 1} :
          /\ SpendAnd("open", n)
          /\ stack' = Append(stack, IF n = 0 THEN NewWindow(blob, {}) ELSE NewWindow(Default, Fields))
    BY DEF OpenPreferences, Faults
  <1>2. UNCHANGED <<running, blob, panes, intent, excused>>
    BY DEF OpenPreferences
  <1> DEFINE w == IF n = 0 THEN NewWindow(blob, {}) ELSE NewWindow(Default, Fields)
  <1>3. w \in Windows /\ \A f \in Fields \ w.since : w.copy[f] = blob[f]
    <2>1. blob \in Blobs /\ Default \in Blobs
      BY DefaultTyped DEF IInv, TypeInv, BlobTyped
    <2> QED BY <2>1 DEF NewWindow, Windows
  <1> HIDE DEF w
  <1>4. /\ stack' \in Seq(Windows) /\ Len(stack') = Len(stack) + 1 /\ Len(stack) \in Nat
        /\ \A i \in 1..Len(stack) + 1 : stack'[i] = IF i = Len(stack) + 1 THEN w ELSE stack[i]
    <2>1. stack \in Seq(Windows) /\ stack' = Append(stack, w)
      BY <1>1 DEF IInv, TypeInv, StackTyped, w
    <2> QED BY <1>3, <2>1
  <1>5. CopiesCurrent'
    <2> SUFFICES ASSUME NEW i \in 1..Len(stack'), NEW f \in Fields \ stack'[i].since
                 PROVE  \/ stack'[i].copy[f] = blob'[f]
                        \/ f \notin Panes /\ stack'[i].copy[f] = intent'[f]
      BY DEF CopiesCurrent
    <2>1. CASE i = Len(stack) + 1
      BY <2>1, <1>2, <1>3, <1>4
    <2>2. CASE i # Len(stack) + 1
      <3>1. i \in 1..Len(stack) /\ stack'[i] = stack[i]
        BY <2>2, <1>4
      <3> QED BY <3>1, <1>2 DEF IInv, LossInv, CopiesCurrent
    <2> QED BY <2>1, <2>2
  <1>6. TimersCurrent' /\ OnlyExcusedLost'
    BY <1>2 DEF IInv, LossInv, TimersCurrent, OnlyExcusedLost, panes
  <1>7. BlobTyped' /\ IntentTyped' /\ PanesTyped' /\ StackTyped'
    BY <1>2, <1>4 DEF IInv, TypeInv, BlobTyped, IntentTyped, PanesTyped, StackTyped, panes
  <1>8. RestTyped'
    BY <1>1, <1>2, SpendTyped DEF IInv, TypeInv, RestTyped, Budgets
  <1> QED BY <1>5, <1>6, <1>7, <1>8 DEF IInv, TypeInv, LossInv

LEMMA PaneSteps ==
  ASSUME IInv,
         (\E width \in Widths : MoveHidden(width) \/ RestoreSidebar(width)) \/ Dock
  PROVE  IInv'
  <1>1. PanesTyped /\ StackTyped /\ spent \in [Budgets -> Nat]
    BY DEF IInv, TypeInv, RestTyped
  <1>2. UNCHANGED <<running, blob, intent, excused, timer, stack>>
    BY DEF MoveHidden, RestoreSidebar, SetSidebar, Dock
  <1>3. PanesTyped'
    <2>1. shown' \in [Panes -> Widths]
      BY <1>1, WidthFacts DEF PanesTyped, MoveHidden, RestoreSidebar, SetSidebar, Dock
    <2>2. {suppress', restored', docked'} \subseteq BOOLEAN
      BY <1>1 DEF PanesTyped, MoveHidden, RestoreSidebar, SetSidebar, Dock
    <2> QED BY <1>1, <1>2, <2>1, <2>2 DEF PanesTyped
  <1>4. spent' \in [Budgets -> Nat]
    BY <1>1, SpentTyped DEF MoveHidden, RestoreSidebar, Dock, Spend, Budgets
  <1> QED BY <1>1, <1>2, <1>3, <1>4, StackAsIs, NothingWanted

LEMMA WindowSteps ==
  ASSUME IInv, Type \/ CloseWindow \/ Escape \/ Answer
  PROVE  IInv'
  <1>1. PanesTyped /\ StackTyped /\ spent \in [Budgets -> Nat]
    BY DEF IInv, TypeInv, RestTyped
  <1>2. UNCHANGED <<running, blob, panes, intent, excused>>
    BY DEF Type, CloseWindow, Escape, Answer
  <1>3. DOMAIN stack = 1..Len(stack) /\ Len(stack) \in Nat
    BY <1>1 DEF StackTyped
  <1>4. StackTyped' /\ SameCopies
    <2>1. CASE Type
      <3>1. PICK w : w \in Windows /\ w.copy = Top.copy /\ w.since = Top.since /\ Put(w)
        <4>1. Top \in Windows
          BY <2>1, <1>1, FrontTyped DEF Type, OnTop
        <4>2. CASE \E row \in FormRows : TypeForm(row)
          <5>1. PICK row \in FormRows : TypeForm(row)
            BY <4>2
          <5> DEFINE forms == IF row \in Top.forms THEN Top.forms \ {row} ELSE Top.forms \cup {row}
                     w == [Top EXCEPT !.forms = forms, !.canClose = (forms = {})]
          <5>2. Put(w)
            BY <5>1 DEF TypeForm
          <5>3. forms \in SUBSET FormRows
            BY <4>1 DEF Windows
          <5> HIDE DEF forms
          <5>4. w \in Windows /\ w.copy = Top.copy /\ w.since = Top.since
            BY <4>1, <5>3 DEF Windows
          <5> HIDE DEF w
          <5> QED BY <5>2, <5>4
        <4>3. CASE Put([Top EXCEPT !.search = ~@])
          <5> DEFINE w == [Top EXCEPT !.search = ~@]
          <5>1. w \in Windows /\ w.copy = Top.copy /\ w.since = Top.since
            BY <4>1 DEF Windows
          <5>2. Put(w)
            BY <4>3
          <5> HIDE DEF w
          <5> QED BY <5>1, <5>2
        <4> QED BY <2>1, <4>2, <4>3 DEF Type
      <3>2. Len(stack) \in 1..Len(stack) /\ stack' = [stack EXCEPT ![Len(stack)] = w]
            /\ Top = stack[Len(stack)]
        BY <2>1, <3>1, <1>1, FrontTyped DEF Type, OnTop, Put, Top
      <3> QED BY <3>1, <3>2, <1>1, PutSame
    <2>2. CASE CloseWindow
      <3>1. Len(stack) \in 1..Len(stack) /\ Attempt(Len(stack))
        BY <2>2, <1>1, FrontTyped DEF CloseWindow, OnTop
      <3> QED BY <3>1, <1>1, AttemptSame
    <2>3. CASE Escape
      <3>1. PICK i \in 1..Len(stack) :
              stack' = [stack EXCEPT ![i].search = FALSE] \/ Attempt(i)
        BY <2>3, <1>3 DEF Escape
      <3>2. CASE stack' = [stack EXCEPT ![i].search = FALSE]
        <4> DEFINE w == [stack[i] EXCEPT !.search = FALSE]
        <4>1. w \in Windows /\ w.copy = stack[i].copy /\ w.since = stack[i].since
          <5>1. stack[i] \in Windows
            BY <1>1, WindowAt
          <5> QED BY <5>1 DEF Windows
        <4>2. stack' = [stack EXCEPT ![i] = w]
          BY <3>2
        <4> HIDE DEF w
        <4> QED BY <4>1, <4>2, <1>1, PutSame
      <3> QED BY <3>1, <3>2, <1>1, AttemptSame
    <2>4. CASE Answer
      <3>1. PICK i \in 1..Len(stack) :
              stack' = [stack EXCEPT ![i].asking = FALSE] \/ stack' = RemoveAt(stack, i)
        BY <2>4, <1>3 DEF Answer
      <3>2. CASE stack' = [stack EXCEPT ![i].asking = FALSE]
        <4> DEFINE w == [stack[i] EXCEPT !.asking = FALSE]
        <4>1. w \in Windows /\ w.copy = stack[i].copy /\ w.since = stack[i].since
          <5>1. stack[i] \in Windows
            BY <1>1, WindowAt
          <5> QED BY <5>1 DEF Windows
        <4>2. stack' = [stack EXCEPT ![i] = w]
          BY <3>2
        <4> HIDE DEF w
        <4> QED BY <4>1, <4>2, <1>1, PutSame
      <3>3. CASE stack' = RemoveAt(stack, i)
        BY <3>3, <1>1, RemoveSame
      <3> QED BY <3>1, <3>2, <3>3
    <2> QED BY <2>1, <2>2, <2>3, <2>4
  <1>5. PanesTyped' /\ UNCHANGED timer
    BY <1>1, <1>2 DEF PanesTyped, panes
  <1>6. spent' \in [Budgets -> Nat]
    BY <1>1, SpentTyped DEF Type, CloseWindow, Escape, Answer, Spend, Budgets
  <1> QED BY <1>2, <1>4, <1>5, <1>6, NothingWanted

LEMMA LaunchStep ==
  ASSUME IInv, Launch
  PROVE  IInv'
  <1>1. UNCHANGED <<blob, stack, timer, intent, excused>> /\ running' = TRUE
    BY DEF Launch
  <1>2. PanesTyped'
    BY <1>1, WidthFacts DEF IInv, TypeInv, PanesTyped, Launch
  <1>3. RestTyped'
    BY <1>1, SpendTyped DEF IInv, TypeInv, RestTyped, Launch, Budgets
  <1>4. BlobTyped' /\ IntentTyped' /\ StackTyped'
    BY <1>1 DEF IInv, TypeInv, BlobTyped, IntentTyped, StackTyped
  <1>5. LossInv'
    BY <1>1 DEF IInv, LossInv, CopiesCurrent, TimersCurrent, OnlyExcusedLost
  <1> QED BY <1>2, <1>3, <1>4, <1>5 DEF IInv, TypeInv

LEMMA InitIInv ==
  ASSUME Init
  PROVE  IInv
  <1>1. blob \in Blobs /\ intent \in Blobs /\ blob = intent
    BY DefaultTyped DEF Init
  <1>2. BlobTyped /\ IntentTyped
    BY <1>1, FieldFacts DEF BlobTyped, IntentTyped, Blobs, IsBlob
  <1>3. StackTyped /\ CopiesCurrent
    BY DEF Init, StackTyped, CopiesCurrent
  <1>4. PanesTyped /\ RestTyped
    BY WidthFacts DEF Init, PanesTyped, RestTyped
  <1>5. TimersCurrent /\ OnlyExcusedLost
    BY <1>1 DEF Init, TimersCurrent, OnlyExcusedLost
  <1> QED BY <1>2, <1>3, <1>4, <1>5 DEF IInv, TypeInv, LossInv

LEMMA Induction ==
  ASSUME IInv, [Next]_vars
  PROVE  IInv'
  <1>1. CASE \E p \in Panes, width \in Widths : MovePane(p, width)
    BY <1>1, MovePaneStep
  <1>2. CASE \E p \in Panes : TimerFires(p)
    BY <1>2, TimerFiresStep
  <1>3. CASE (\E width \in Widths : MoveHidden(width) \/ RestoreSidebar(width)) \/ Dock
    BY <1>3, PaneSteps
  <1>4. CASE ToggleBelow \/ DragPopup \/ Shutdown
    BY <1>4, FreshSteps
  <1>5. CASE OpenPreferences
    BY <1>5, OpenPreferencesStep
  <1>6. CASE \E f \in {"theme", "weekends", "position", "primary"} : ChangeSetting(f)
    <2>1. {"theme", "weekends", "position", "primary"} \subseteq Versions
      BY DEF Versions, Fields, Panes
    <2> QED BY <1>6, <2>1, ChangeSettingStep
  <1>7. CASE Swap
    BY <1>7, SwapStep
  <1>8. CASE ChangeClock
    BY <1>8, ChangeClockStep
  <1>9. CASE Type \/ CloseWindow \/ Escape \/ Answer
    BY <1>9, WindowSteps
  <1>10. CASE Launch
    BY <1>10, LaunchStep
  <1>11. CASE UNCHANGED vars
    <2>1. UNCHANGED <<running, blob, intent, excused, timer, stack, shown, suppress, restored, docked, spent>>
      BY <1>11 DEF vars, panes
    <2>2. StackTyped' /\ SameCopies
      BY <2>1, StackAsIs DEF IInv, TypeInv
    <2>3. PanesTyped' /\ spent' \in [Budgets -> Nat]
      BY <2>1 DEF IInv, TypeInv, PanesTyped, RestTyped
    <2> QED BY <2>1, <2>2, <2>3, NothingWanted
  <1> QED BY <1>1, <1>2, <1>3, <1>4, <1>5, <1>6, <1>7, <1>8, <1>9, <1>10, <1>11 DEF Next

LEMMA Invariance == Spec => []IInv
  BY InitIInv, Induction, PTL DEF Spec

\* However many windows, zones, drags and failures there are, what is saved, what the user
\* wants and every open copy are in range: a width that was dragged out of it is never saved.
THEOREM TypeCorrect == Spec => []TypeOK
  <1>1. ASSUME IInv PROVE TypeOK
    <2>1. IsBlob(blob) /\ running \in BOOLEAN /\ excused \subseteq Fields /\ spent \in [Budgets -> Nat]
      BY <1>1 DEF IInv, TypeInv, BlobTyped, Blobs, RestTyped
    <2>2. IsBlob([intent EXCEPT !["sidebar"] = blob["sidebar"]])
      BY <1>1, <2>1, FieldFacts DEF IInv, TypeInv, IntentTyped, IsBlob
    <2>3. \A i \in DOMAIN stack :
            /\ IsBlob(stack[i].copy)
            /\ stack[i].forms \subseteq FormRows /\ stack[i].since \subseteq Fields
            /\ {stack[i].search, stack[i].canClose, stack[i].asking} \subseteq BOOLEAN
      <3> TAKE i \in DOMAIN stack
      <3>1. stack[i] \in Windows
        BY <1>1, WindowAt DEF IInv, TypeInv, StackTyped
      <3> QED BY <3>1 DEF Windows, Blobs
    <2>4. PanesTyped
      BY <1>1 DEF IInv, TypeInv
    <2> QED BY <2>1, <2>2, <2>3, <2>4 DEF TypeOK, PanesTyped
  <1> QED BY <1>1, Invariance, PTL

\* A setting the user made is saved, or will be when its timer fires, but for the ways of
\* losing it that the code has: a read or write that failed, a copy older than a change that
\* was saved over it, an end before the timer, and the swallowed move of a restored sidebar.
THEOREM NothingElseIsLost == Spec => []OnlyExcusedLost
  <1>1. IInv => OnlyExcusedLost
    BY DEF IInv, LossInv
  <1> QED BY <1>1, Invariance, PTL

-----------------------------------------------------------------------------
(* Zones that are dropped.                                                 *)

\* The numbers of n rows, row i taken out, and put back at another place.
LEMMA RowMoved ==
  ASSUME NEW n \in Nat, NEW i \in 1..n, NEW at \in 1..n,
         NEW rows, rows = [k \in 1..n |-> k]
  PROVE  LET rest == RemoveAt(rows, i)
             moved == InsertAt(rest, at, i)
         IN /\ DOMAIN moved = 1..n
            /\ \A k \in 1..n :
                 moved[k] = IF k = at THEN i
                            ELSE IF k < at THEN (IF k < i THEN k ELSE k + 1)
                            ELSE (IF k <= i THEN k - 1 ELSE k)
            /\ RemoveAt(moved, at) = rest
  <1> DEFINE rest == RemoveAt(rows, i)
             moved == InsertAt(rest, at, i)
  <1>1. rows \in Seq(Int) /\ Len(rows) = n /\ \A k \in 1..n : rows[k] = k
    <2>1. rows \in [1..n -> Int]
      OBVIOUS
    <2> QED BY <2>1, FunctionIsSeq
  <1>2. /\ rest \in Seq(Int) /\ n - 1 \in Nat /\ Len(rest) = n - 1
        /\ \A k \in 1..n - 1 : rest[k] = IF k < i THEN k ELSE k + 1
    <2>1. /\ rest \in Seq(Int) /\ n - 1 \in Nat /\ Len(rest) = n - 1
          /\ \A k \in 1..n - 1 : rest[k] = IF k < i THEN rows[k] ELSE rows[k + 1]
      <3>1. i \in 1..Len(rows) /\ rows \in Seq(Int)
        BY <1>1
      <3>2. /\ rest \in Seq(Int) /\ Len(rows) - 1 \in Nat /\ Len(rest) = Len(rows) - 1
            /\ \A k \in 1..Len(rows) - 1 : rest[k] = IF k < i THEN rows[k] ELSE rows[k + 1]
        BY ONLY <3>1, RemoveAtIs
      <3> QED BY <1>1, <3>2
    <2>2. \A k \in 1..n - 1 : rows[k] = k /\ rows[k + 1] = k + 1
      <3>1. \A k \in 1..n - 1 : k \in 1..n /\ k + 1 \in 1..n
        OBVIOUS
      <3> QED BY <1>1, <3>1
    <2> QED BY <2>1, <2>2
  <1> HIDE DEF rest
  <1>3. /\ moved \in Seq(Int) /\ Len(moved) = n
        /\ \A k \in 1..n : moved[k] = IF k < at THEN rest[k] ELSE IF k = at THEN i ELSE rest[k - 1]
    <2>1. at \in 1..Len(rest) + 1 /\ i \in Int
      BY <1>2
    <2>3. Len(rest) + 1 = n
      BY <1>2
    <2>2. /\ moved \in Seq(Int) /\ Len(moved) = Len(rest) + 1
          /\ \A k \in 1..Len(rest) + 1 :
               moved[k] = IF k < at THEN rest[k] ELSE IF k = at THEN i ELSE rest[k - 1]
      <3>1. rest \in Seq(Int)
        BY <1>2
      <3> QED BY ONLY <2>1, <3>1, InsertAtIs
    <2> QED BY <2>2, <2>3
  <1> HIDE DEF moved
  <1>4. ASSUME NEW k \in 1..n
        PROVE  moved[k] = IF k = at THEN i
                          ELSE IF k < at THEN (IF k < i THEN k ELSE k + 1)
                          ELSE (IF k <= i THEN k - 1 ELSE k)
    <2>1. CASE k = at
      BY <1>3, <2>1
    <2>2. CASE k < at
      <3>1. k \in 1..n - 1
        BY <2>2
      <3>2. moved[k] = rest[k]
        BY <1>3, <2>2
      <3>3. rest[k] = IF k < i THEN k ELSE k + 1
        BY <1>2, <3>1
      <3> QED BY <2>2, <3>2, <3>3
    <2>3. CASE k > at
      <3>1. k - 1 \in 1..n - 1
        BY <2>3
      <3>2. rest[k - 1] = IF k - 1 < i THEN k - 1 ELSE (k - 1) + 1
        BY <1>2, <3>1
      <3>3. moved[k] = rest[k - 1]
        BY <1>3, <2>3
      <3> QED BY <2>3, <3>2, <3>3
    <2> QED BY <2>1, <2>2, <2>3
  <1>5. RemoveAt(moved, at) = rest
    <2>1. /\ RemoveAt(moved, at) \in Seq(Int) /\ Len(RemoveAt(moved, at)) = n - 1
          /\ \A k \in 1..n - 1 : RemoveAt(moved, at)[k] = IF k < at THEN moved[k] ELSE moved[k + 1]
      BY <1>3, RemoveAtIs
    <2>2. ASSUME NEW k \in 1..n - 1 PROVE RemoveAt(moved, at)[k] = rest[k]
      <3>1. k \in 1..n /\ k + 1 \in 1..n /\ (k + 1) - 1 = k
        OBVIOUS
      <3>2. CASE k < at
        BY <1>3, <2>1, <3>1, <3>2
      <3>3. CASE ~(k < at)
        <4>1. RemoveAt(moved, at)[k] = moved[k + 1]
          BY <2>1, <3>3
        <4>2. moved[k + 1] = rest[(k + 1) - 1]
          BY <1>3, <3>1, <3>3
        <4> QED BY <3>1, <4>1, <4>2
      <3> QED BY <3>2, <3>3
    <2> QED BY <1>2, <2>1, <2>2, SeqEqual
  <1>6. DOMAIN moved = 1..n
    BY <1>3
  <1> QED BY <1>4, <1>5, <1>6 DEF rest, moved

\* A row that is dropped before or after another one.
LEMMA RowLands ==
  ASSUME NEW n \in Nat, NEW i \in 1..n, NEW j \in 1..n, NEW after \in BOOLEAN,
         NEW rows, rows = [k \in 1..n |-> k]
  PROVE  DropsBeside(rows, i, j, after)
  <1> DEFINE moved == MoveZone(rows, i, j, after)
             gap == IF after THEN j + 1 ELSE j
             place == IF i < gap THEN gap - 1 ELSE gap
  <1>1. place \in 1..n /\ rows[i] = i
    OBVIOUS
  <1>2. moved = IF place = i THEN rows ELSE InsertAt(RemoveAt(rows, i), place, i)
    BY <1>1 DEF MoveZone
  <1>3. /\ DOMAIN moved = 1..n
        /\ \A k \in 1..n :
             moved[k] = IF k = place THEN i
                        ELSE IF k < place THEN (IF k < i THEN k ELSE k + 1)
                        ELSE (IF k <= i THEN k - 1 ELSE k)
        /\ RemoveAt(moved, place) = RemoveAt(rows, i)
    <2>1. CASE place = i
      <3>1. moved = rows
        BY <1>2, <2>1
      <3>2. DOMAIN rows = 1..n /\ \A k \in 1..n : rows[k] = k
        OBVIOUS
      <3> HIDE DEF moved, place
      <3> QED BY <2>1, <3>1, <3>2
    <2>2. CASE place # i
      <3>1. moved = InsertAt(RemoveAt(rows, i), place, i)
        BY <1>2, <2>2
      <3> HIDE DEF moved, place
      <3>2. /\ DOMAIN InsertAt(RemoveAt(rows, i), place, i) = 1..n
            /\ \A k \in 1..n :
                 InsertAt(RemoveAt(rows, i), place, i)[k] =
                   IF k = place THEN i
                   ELSE IF k < place THEN (IF k < i THEN k ELSE k + 1)
                   ELSE (IF k <= i THEN k - 1 ELSE k)
            /\ RemoveAt(InsertAt(RemoveAt(rows, i), place, i), place) = RemoveAt(rows, i)
        BY <1>1, RowMoved
      <3> QED BY <3>1, <3>2
    <2> QED BY <2>1, <2>2
  <1>4. (CHOOSE k \in DOMAIN moved : moved[k] = i) = place
    <2>1. moved[place] = i
      BY <1>1, <1>3
    <2>2. \A k \in 1..n : moved[k] = i => k = place
      BY <1>1, <1>3
    <2> HIDE DEF moved, place
    <2> QED BY <1>1, <1>3, <2>1, <2>2
  <1>5. ASSUME i # j
        PROVE  LET beside == IF after THEN place - 1 ELSE place + 1
               IN beside \in DOMAIN moved /\ moved[beside] = j
    <2> DEFINE beside == IF after THEN place - 1 ELSE place + 1
    <2>1. beside \in 1..n
      BY <1>1, <1>5
    <2>2. moved[beside] = IF beside = place THEN i
                          ELSE IF beside < place THEN (IF beside < i THEN beside ELSE beside + 1)
                          ELSE (IF beside <= i THEN beside - 1 ELSE beside)
      <3> HIDE DEF beside, moved, place
      <3> QED BY <1>3, <2>1
    <2>3. j = IF beside = place THEN i
              ELSE IF beside < place THEN (IF beside < i THEN beside ELSE beside + 1)
              ELSE (IF beside <= i THEN beside - 1 ELSE beside)
      BY <1>5
    <2> HIDE DEF beside
    <2> QED BY <1>3, <2>1, <2>2, <2>3 DEF beside
  <1> HIDE DEF moved, place
  <1> QED BY <1>3, <1>4, <1>5 DEF DropsBeside, moved

\* A zone that is dropped on another one lies next to it afterwards, on the side that was lit,
\* and all others keep their order: however many zones there are.
THEOREM DroppedZoneLands == Spec => []ZoneLands
  <1>1. TypeInv => ZoneLands
    <2> SUFFICES ASSUME TypeInv PROVE ZoneLands
      OBVIOUS
    <2>1. DOMAIN blob["zones"] = 1..Len(blob["zones"]) /\ Len(blob["zones"]) \in Nat
      <3>1. blob["zones"] \in Seq(Zones)
        BY DEF TypeInv, BlobTyped, Blobs, IsBlob
      <3> QED BY <3>1
    <2> DEFINE n == Len(blob["zones"])
    <2>2. DOMAIN blob["zones"] = 1..n /\ n \in Nat
      BY <2>1
    <2> HIDE DEF n
    <2> QED BY <2>2, RowLands DEF ZoneLands
  <1>2. IInv => TypeInv
    BY DEF IInv
  <1> QED BY <1>1, <1>2, Invariance, PTL

-----------------------------------------------------------------------------
(* Text that was typed.                                                    *)

\* A window can be closed without a question exactly while its forms are empty.
FormsGuarded == \A i \in 1..Len(stack) : stack[i].canClose <=> stack[i].forms = {}

\* A step takes no window away, or one that may go.
KeepsText ==
  \/ ~running'
  \/ Len(stack') >= Len(stack)
  \/ \E k \in 1..Len(stack) :
       stack' = RemoveAt(stack, k) /\ (stack[k].forms = {} \/ stack[k].asking)

\* A set of natural numbers has a least one.
LEMMA LeastNumber ==
  ASSUME NEW S, S \subseteq Nat, S # {}
  PROVE  \E n \in S : \A m \in S : ~(m < n)
  <1> DEFINE R == OpToRel(<, Nat)
  <1>1. IsWellFoundedOn(R, Nat)
    BY NatLessThanWellFounded
  <1>2. \A m, n \in Nat : m < n => <<m, n>> \in R
    BY DEF OpToRel
  <1> HIDE DEF R
  <1>3. PICK n \in S : \A m \in S : ~(<<m, n>> \in R)
    BY <1>1, WFMin
  <1> QED BY <1>2, <1>3, Zenon

\* The stack without one window does not tell which of two equal ones is gone.
LEMMA RemovedSame ==
  ASSUME NEW S, NEW s \in Seq(S), NEW i \in 1..Len(s), NEW k \in 1..Len(s),
         i <= k, RemoveAt(s, i) = RemoveAt(s, k)
  PROVE  s[i] = s[k]
  <1> DEFINE Apart == {d \in Nat : d <= k - i /\ s[k - d] # s[k]}
  <1>1. Len(s) \in Nat /\ i \in Int /\ k \in Int
    OBVIOUS
  <1>2. \A p \in i..k - 1 : s[p] = s[p + 1]
    <2> SUFFICES ASSUME NEW p \in i..k - 1 PROVE s[p] = s[p + 1]
      OBVIOUS
    <2>1. p \in 1..Len(s) - 1 /\ ~(p < i) /\ p < k
      BY <1>1
    <2>2. RemoveAt(s, i)[p] = s[p + 1]
      BY <2>1, RemoveAtIs
    <2>3. RemoveAt(s, k)[p] = s[p]
      BY <2>1, RemoveAtIs
    <2> QED BY <2>2, <2>3
  <1>3. CASE Apart = {}
    <2>1. k - i \in Nat /\ k - (k - i) = i /\ k - i <= k - i
      BY <1>1
    <2>2. k - i \notin Apart
      BY <1>3
    <2> QED BY <2>1, <2>2
  <1>4. CASE Apart # {}
    <2>1. PICK d \in Apart : \A e \in Apart : ~(e < d)
      <3>1. Apart \subseteq Nat
        OBVIOUS
      <3> HIDE DEF Apart
      <3> QED BY <1>4, <3>1, LeastNumber
    <2>2. d \in Nat /\ d <= k - i /\ s[k - d] # s[k]
      OBVIOUS
    <2>3. d # 0
      BY <1>1, <2>2
    <2>4. d - 1 \in Nat /\ d - 1 <= k - i /\ d - 1 < d
      BY <1>1, <2>2, <2>3
    <2>5. s[k - (d - 1)] = s[k]
      BY <2>1, <2>4
    <2>6. k - d \in i..k - 1 /\ (k - d) + 1 = k - (d - 1)
      BY <1>1, <2>2, <2>3
    <2> QED BY <1>2, <2>2, <2>5, <2>6
  <1> QED BY <1>3, <1>4

LEMMA TextIsKept ==
  ASSUME StackTyped, KeepsText
  PROVE  \A i \in DOMAIN stack :
           running' /\ stack' = RemoveAt(stack, i) => stack[i].forms = {} \/ stack[i].asking
  <1> SUFFICES ASSUME NEW i \in DOMAIN stack, running', stack' = RemoveAt(stack, i)
               PROVE  stack[i].forms = {} \/ stack[i].asking
    OBVIOUS
  <1>1. i \in 1..Len(stack) /\ Len(stack) \in Nat /\ stack \in Seq(Windows)
    BY DEF StackTyped
  <1>2. Len(stack') = Len(stack) - 1
    BY <1>1, RemoveAtIs
  <1>3. PICK k \in 1..Len(stack) :
          stack' = RemoveAt(stack, k) /\ (stack[k].forms = {} \/ stack[k].asking)
    BY <1>1, <1>2 DEF KeepsText
  <1>4. stack[i] = stack[k]
    <2>1. RemoveAt(stack, i) = RemoveAt(stack, k)
      BY <1>3
    <2>2. i <= k \/ k <= i
      BY <1>1
    <2>3. CASE i <= k
      BY <1>1, <2>1, <2>3, RemovedSame
    <2>4. CASE k <= i
      <3>1. stack[k] = stack[i]
        BY <1>1, <2>1, <2>4, RemovedSame
      <3> QED BY <3>1
    <2> QED BY <2>2, <2>3, <2>4
  <1> QED BY <1>3, <1>4

LEMMA PutGuarded ==
  ASSUME StackTyped, FormsGuarded, NEW i \in 1..Len(stack), NEW w \in Windows,
         w.canClose <=> w.forms = {}, stack' = [stack EXCEPT ![i] = w]
  PROVE  FormsGuarded' /\ KeepsText
  <1>1. /\ stack' \in Seq(Windows) /\ Len(stack') = Len(stack) /\ Len(stack) \in Nat
        /\ \A j \in 1..Len(stack) : stack'[j] = IF j = i THEN w ELSE stack[j]
    BY ExceptSeq DEF StackTyped
  <1> QED BY <1>1 DEF FormsGuarded, KeepsText

LEMMA RemoveGuarded ==
  ASSUME StackTyped, FormsGuarded, NEW i \in 1..Len(stack), stack' = RemoveAt(stack, i),
         stack[i].forms = {} \/ stack[i].asking
  PROVE  FormsGuarded' /\ KeepsText
  <1>1. \A j \in 1..Len(stack') : \E k \in 1..Len(stack) : stack'[j] = stack[k]
    <2> DEFINE t == RemoveAt(stack, i)
    <2>1. \A j \in 1..Len(t) : \E k \in 1..Len(stack) : t[j] = stack[k]
      BY RemoveAtTyped DEF StackTyped
    <2>2. stack' = t
      OBVIOUS
    <2> HIDE DEF t
    <2> QED BY <2>1, <2>2
  <1> QED BY <1>1 DEF FormsGuarded, KeepsText

LEMMA AttemptGuarded ==
  ASSUME StackTyped, FormsGuarded, NEW i \in 1..Len(stack), Attempt(i)
  PROVE  FormsGuarded' /\ KeepsText
  <1>1. stack[i] \in Windows /\ (stack[i].canClose <=> stack[i].forms = {})
    BY WindowAt DEF FormsGuarded
  <1>2. CASE stack[i].canClose
    BY <1>1, <1>2, RemoveGuarded DEF Attempt
  <1>3. CASE ~stack[i].canClose
    <2> DEFINE w == [stack[i] EXCEPT !.asking = TRUE]
    <2>1. w \in Windows /\ (w.canClose <=> w.forms = {})
      BY <1>1 DEF Windows
    <2>2. stack' = [stack EXCEPT ![i] = w]
      BY <1>3 DEF Attempt
    <2> HIDE DEF w
    <2> QED BY <2>1, <2>2, PutGuarded
  <1> QED BY <1>2, <1>3

\* A save elsewhere, or through the window on top.
LEMMA SavesGuarded ==
  ASSUME StackTyped, FormsGuarded,
         \/ stack' = Aged(stack)
         \/ stack # <<>> /\ \E f, v, n : f \in Fields /\ Fits(f, v) /\ WriteThrough(f, v, n)
  PROVE  FormsGuarded' /\ KeepsText
  <1>1. ASSUME NEW ws \in Seq(Windows), NEW i \in 1..Len(ws)
        PROVE  /\ Len(Aged(ws)) = Len(ws) /\ Aged(ws) \in Seq(Windows)
               /\ Aged(ws)[i].forms = ws[i].forms /\ (Aged(ws)[i].canClose <=> ws[i].canClose)
    <2>1. ws[i] \in Windows /\ i \in DOMAIN ws
      BY ElementOfSeq
    <2>2. Aged(ws)[i] = [ws[i] EXCEPT !.since = @ \cup Changed]
      BY <2>1 DEF Aged
    <2>3. Aged(ws)[i].forms = ws[i].forms /\ Aged(ws)[i].canClose = ws[i].canClose
      BY <2>1, <2>2 DEF Windows
    <2> QED BY <2>3, AgedTyped
  <1>2. stack \in Seq(Windows) /\ Len(stack) \in Nat
    BY DEF StackTyped
  <1>3. CASE stack' = Aged(stack)
    <2>1. Len(stack') = Len(stack)
      BY <1>2, <1>3, AgedTyped
    <2>2. \A i \in 1..Len(stack) : stack'[i].canClose <=> stack'[i].forms = {}
      BY <1>1, <1>2, <1>3 DEF FormsGuarded
    <2> QED BY <1>2, <2>1, <2>2 DEF FormsGuarded, KeepsText
  <1>4. CASE stack # <<>> /\ \E f, v, n : f \in Fields /\ Fits(f, v) /\ WriteThrough(f, v, n)
    <2>1. PICK f, v, n : f \in Fields /\ Fits(f, v) /\ WriteThrough(f, v, n)
      BY <1>4
    <2> DEFINE w == [Top EXCEPT !.copy[f] = v, !.since = IF n = 0 THEN {} ELSE @]
    <2>2. /\ Front(stack) \in Seq(Windows) /\ Len(Front(stack)) = Len(stack) - 1
          /\ \A i \in 1..Len(stack) - 1 : Front(stack)[i] = stack[i]
          /\ Len(stack) \in 1..Len(stack) /\ Top \in Windows
      BY <1>4, FrontTyped
    <2>3. [Top.copy EXCEPT ![f] = v] \in Blobs
      BY <2>1, <2>2, SetFieldTyped DEF Windows
    <2>4. w \in Windows /\ w.forms = Top.forms /\ w.canClose = Top.canClose
      BY <2>2, <2>3 DEF Windows
    <2> HIDE DEF w
    <2>5. stack' = Append(Aged(Front(stack)), w)
      BY <2>1 DEF WriteThrough, w
    <2>6. Aged(Front(stack)) \in Seq(Windows) /\ Len(Aged(Front(stack))) = Len(stack) - 1
      BY <2>2, AgedTyped
    <2>7. /\ Len(stack') = Len(stack) /\ stack'[Len(stack)] = w
          /\ \A i \in 1..Len(stack) - 1 : stack'[i] = Aged(Front(stack))[i]
      BY <1>2, <2>2, <2>4, <2>5, <2>6
    <2>8. w.canClose <=> w.forms = {}
      BY <2>2, <2>4 DEF FormsGuarded, Top
    <2>9. \A i \in 1..Len(stack) - 1 : stack'[i].canClose <=> stack'[i].forms = {}
      <3> TAKE i \in 1..Len(stack) - 1
      <3>1. i \in 1..Len(Front(stack)) /\ i \in 1..Len(stack)
        BY <1>2, <2>2
      <3>2. stack'[i].forms = stack[i].forms /\ (stack'[i].canClose <=> stack[i].canClose)
        BY <1>1, <2>2, <2>7, <3>1
      <3> QED BY <3>1, <3>2 DEF FormsGuarded
    <2>10. \A i \in 1..Len(stack) : stack'[i].canClose <=> stack'[i].forms = {}
      <3> TAKE i \in 1..Len(stack)
      <3>1. i \in 1..Len(stack) - 1 \/ i = Len(stack)
        BY <1>2
      <3> QED BY <2>7, <2>8, <2>9, <3>1
    <2> QED BY <1>2, <2>7, <2>10 DEF FormsGuarded, KeepsText
  <1> QED BY <1>3, <1>4

LEMMA TextStep == ASSUME IInv, FormsGuarded, [Next]_vars PROVE FormsGuarded' /\ KeepsText
  <1>1. StackTyped /\ stack \in Seq(Windows) /\ Len(stack) \in Nat /\ DOMAIN stack = 1..Len(stack)
    BY DEF IInv, TypeInv, StackTyped
  <1>2. CASE UNCHANGED stack
    BY <1>1, <1>2 DEF FormsGuarded, KeepsText
  <1>3. CASE stack' = <<>> /\ ~running'
    BY <1>3 DEF FormsGuarded, KeepsText
  <1>4. CASE stack' = Aged(stack)
    BY <1>1, <1>4, SavesGuarded
  <1>5. ASSUME stack # <<>>, NEW f \in Fields, NEW v, Fits(f, v), NEW n, WriteThrough(f, v, n)
        PROVE  FormsGuarded' /\ KeepsText
    BY <1>1, <1>5, SavesGuarded
  <1>6. CASE OpenPreferences
    <2>1. PICK w : stack' = Append(stack, w) /\ (w.canClose <=> w.forms = {})
      <3>1. \A copy, since : NewWindow(copy, since).canClose <=> NewWindow(copy, since).forms = {}
        BY DEF NewWindow
      <3> QED BY <1>6, <3>1 DEF OpenPreferences
    <2>2. stack \in Seq(Windows \cup {w})
      BY <1>1
    <2>3. /\ Len(stack') = Len(stack) + 1
          /\ \A i \in 1..Len(stack) + 1 : stack'[i] = IF i = Len(stack) + 1 THEN w ELSE stack[i]
      BY <2>1, <2>2
    <2>4. \A i \in 1..Len(stack) + 1 : stack'[i].canClose <=> stack'[i].forms = {}
      BY <1>1, <2>1, <2>3 DEF FormsGuarded
    <2> QED BY <1>1, <2>3, <2>4 DEF FormsGuarded, KeepsText
  <1>7. CASE \E f \in {"theme", "weekends", "position", "primary"} : ChangeSetting(f)
    <2>1. PICK f \in {"theme", "weekends", "position", "primary"} : ChangeSetting(f)
      BY <1>7
    <2>2. f \in Versions
      BY DEF Versions, Fields, Panes
    <2>3. f \in Fields /\ Fits(f, NewVersion(f))
      BY <2>2, NewVersionFits DEF IInv, TypeInv
    <2>4. stack # <<>> /\ \E n : WriteThrough(f, NewVersion(f), n)
      BY <2>1 DEF ChangeSetting, OnTop
    <2> QED BY <1>5, <2>3, <2>4
  <1>8. CASE ChangeClock
    <2>1. PICK zones \in ClockChanges(Top.copy["zones"]) : \E n : WriteThrough("zones", zones, n)
      BY <1>8 DEF ChangeClock
    <2>2. stack # <<>>
      BY <1>8 DEF ChangeClock, OnTop
    <2>3. Top \in Windows
      BY <1>1, <2>2, FrontTyped
    <2>4. Fits("zones", zones)
      BY <2>1, <2>3, ClockTyped, FieldFacts DEF Fits, Windows, Blobs, IsBlob
    <2> QED BY <1>5, <2>1, <2>2, <2>4, FieldFacts
  <1>9. CASE Swap
    <2>1. stack # <<>>
      BY <1>9 DEF Swap, OnTop
    <2>2. CASE Top.copy["primary"] = Top.copy["secondary"]
      <3>1. PICK n : WriteThrough("primary", Top.copy["primary"], n)
        BY <1>9, <2>2 DEF Swap
      <3>2. "primary" \in Fields /\ Fits("primary", Top.copy["primary"])
        <4>1. Top \in Windows
          BY <1>1, <2>1, FrontTyped
        <4>2. "primary" \in Versions
          BY DEF Versions, Fields, Panes
        <4> QED BY <4>1, <4>2, FieldFacts DEF Windows, Blobs, IsBlob, Fits
      <3> QED BY <1>5, <2>1, <3>1, <3>2
    <2>3. CASE Top.copy["primary"] # Top.copy["secondary"]
      BY <1>3, <1>9, <2>3 DEF Swap, Leave
    <2> QED BY <2>2, <2>3
  <1>10. CASE Type
    <2>1. Len(stack) \in 1..Len(stack) /\ Top \in Windows /\ Top = stack[Len(stack)]
          /\ (Top.canClose <=> Top.forms = {})
      <3>1. Len(stack) \in 1..Len(stack) /\ Top \in Windows
        BY <1>1, <1>10, FrontTyped DEF Type, OnTop
      <3> QED BY <3>1 DEF Top, FormsGuarded
    <2>2. PICK w \in Windows : stack' = [stack EXCEPT ![Len(stack)] = w] /\ (w.canClose <=> w.forms = {})
      <3>1. CASE \E row \in FormRows : TypeForm(row)
        <4>1. PICK row \in FormRows : TypeForm(row)
          BY <3>1
        <4> DEFINE forms == IF row \in Top.forms THEN Top.forms \ {row} ELSE Top.forms \cup {row}
                   w == [Top EXCEPT !.forms = forms, !.canClose = (forms = {})]
        <4>2. forms \in SUBSET FormRows
          BY <2>1 DEF Windows
        <4>3. stack' = [stack EXCEPT ![Len(stack)] = w]
          BY <4>1 DEF TypeForm, Put
        <4> HIDE DEF forms
        <4>4. w \in Windows /\ (w.canClose <=> w.forms = {})
          BY <2>1, <4>2 DEF Windows
        <4> HIDE DEF w
        <4> QED BY <4>3, <4>4
      <3>2. CASE Put([Top EXCEPT !.search = ~@])
        <4> DEFINE w == [Top EXCEPT !.search = ~@]
        <4>1. w \in Windows /\ (w.canClose <=> w.forms = {})
          BY <2>1 DEF Windows
        <4>2. stack' = [stack EXCEPT ![Len(stack)] = w]
          BY <3>2 DEF Put
        <4> HIDE DEF w
        <4> QED BY <4>1, <4>2
      <3> QED BY <1>10, <3>1, <3>2 DEF Type
    <2> QED BY <1>1, <2>1, <2>2, PutGuarded
  <1>11. CASE CloseWindow
    <2>1. Len(stack) \in 1..Len(stack) /\ Attempt(Len(stack))
      BY <1>1, <1>11, FrontTyped DEF CloseWindow, OnTop
    <2> QED BY <1>1, <2>1, AttemptGuarded
  <1>12. ASSUME NEW i \in 1..Len(stack), NEW w, w \in Windows, w.canClose = stack[i].canClose,
                w.forms = stack[i].forms, stack' = [stack EXCEPT ![i] = w]
         PROVE  FormsGuarded' /\ KeepsText
    <2>1. w.canClose <=> w.forms = {}
      BY <1>12 DEF FormsGuarded
    <2> QED BY <1>1, <1>12, <2>1, PutGuarded
  <1>13. CASE Escape
    <2>1. PICK i \in 1..Len(stack) : stack' = [stack EXCEPT ![i].search = FALSE] \/ Attempt(i)
      BY <1>1, <1>13 DEF Escape
    <2>2. CASE stack' = [stack EXCEPT ![i].search = FALSE]
      <3> DEFINE w == [stack[i] EXCEPT !.search = FALSE]
      <3>1. w \in Windows /\ w.canClose = stack[i].canClose /\ w.forms = stack[i].forms
        BY <1>1, WindowAt DEF Windows
      <3>2. stack' = [stack EXCEPT ![i] = w]
        BY <2>2
      <3> HIDE DEF w
      <3> QED BY <1>12, <3>1, <3>2
    <2> QED BY <1>1, <2>1, <2>2, AttemptGuarded
  <1>14. CASE Answer
    <2>1. PICK i \in 1..Len(stack) :
            stack[i].asking /\ (stack' = [stack EXCEPT ![i].asking = FALSE] \/ stack' = RemoveAt(stack, i))
      BY <1>1, <1>14 DEF Answer
    <2>2. CASE stack' = [stack EXCEPT ![i].asking = FALSE]
      <3> DEFINE w == [stack[i] EXCEPT !.asking = FALSE]
      <3>1. w \in Windows /\ w.canClose = stack[i].canClose /\ w.forms = stack[i].forms
        BY <1>1, WindowAt DEF Windows
      <3>2. stack' = [stack EXCEPT ![i] = w]
        BY <2>2
      <3> HIDE DEF w
      <3> QED BY <1>12, <3>1, <3>2
    <2>3. CASE stack' = RemoveAt(stack, i)
      BY <1>1, <2>1, <2>3, RemoveGuarded
    <2> QED BY <2>1, <2>2, <2>3
  <1>15. CASE \E p \in Panes : TimerFires(p)
    BY <1>4, <1>15 DEF TimerFires
  <1>16. CASE DragPopup
    BY <1>4, <1>16 DEF DragPopup
  <1>17. CASE Shutdown
    BY <1>3, <1>17 DEF Shutdown, Leave
  <1>18. CASE \/ \E p \in Panes, width \in Widths : MovePane(p, width)
              \/ \E width \in Widths : MoveHidden(width) \/ RestoreSidebar(width)
              \/ Dock \/ ToggleBelow \/ Launch \/ UNCHANGED vars
    <2>1. UNCHANGED stack
      BY <1>18 DEF MovePane, MoveHidden, RestoreSidebar, Dock, ToggleBelow, Launch, vars
    <2> QED BY <1>2, <2>1
  <1> QED BY <1>6, <1>7, <1>8, <1>9, <1>10, <1>11, <1>13, <1>14, <1>15, <1>16, <1>17, <1>18 DEF Next

\* Typed text is asked about before it is lost: whichever of the windows Escape, the close
\* button or an answer closes, one with text is only taken away by the answer it asked for.
THEOREM TypedTextIsKept == Spec => TextKept
  <1> DEFINE Kept ==
        \A i \in DOMAIN stack :
          running' /\ stack' = RemoveAt(stack, i) => stack[i].forms = {} \/ stack[i].asking
  <1>1. Init => FormsGuarded
    BY DEF Init, FormsGuarded
  <1>2. IInv /\ FormsGuarded /\ [Next]_vars => FormsGuarded' /\ [Kept]_vars
    <2> SUFFICES ASSUME IInv, FormsGuarded, [Next]_vars PROVE FormsGuarded' /\ Kept
      OBVIOUS
    <2>1. FormsGuarded' /\ KeepsText
      BY TextStep
    <2> HIDE DEF Kept
    <2>2. Kept
      BY <2>1, TextIsKept DEF IInv, TypeInv, Kept
    <2> QED BY <2>1, <2>2
  <1>3. TextKept <=> [][Kept]_vars
    BY DEF TextKept
  <1> HIDE DEF Kept
  <1> QED BY <1>1, <1>2, <1>3, Invariance, PTL DEF Spec
=============================================================================
