--------------------------- MODULE AccountsProofs ---------------------------
(***************************************************************************)
(* The invariants of Accounts, for any number of identities, passes and    *)
(* row ids.                                                                *)
(*                                                                         *)
(* What a pass carries from one await to the next (an id, a token) is the  *)
(* reason NothingLeftBehind and OwnData are not inductive.  They follow    *)
(* once it is known that a resync which has its list still to store works  *)
(* on an enabled account, or is on record (relisted), and that a refresh   *)
(* works on an account that has its tokens, or is on record (rekeyed).     *)
(* Between the two sections of disable_service the account is enabled and  *)
(* already without calendars (HalfwayEmpty).                               *)
(***************************************************************************)
EXTENDS Accounts, TLAPS, FiniteSetTheorems

Working == {"token", "refresh", "call", "store"}
PassRecord ==
    [pc : Working \union {"idle", "next"}, resync : BOOLEAN, todo : SUBSET Ids,
     id : Ids \union {0}, listing : BOOLEAN, token : Tokens \union {NoTokens}]

\* What is true of a pass that may be in state r.
ListingFits(r) ==
    r.pc \in Working /\ r.listing /\ r.id \notin relisted =>
        /\ r.id \in enabled /\ ~Halfway(r.id)
        /\ r.pc # "token" /\ r.id \notin rekeyed => r.token.of = accounts[r.id]
RefreshFits(r) ==
    r.pc = "refresh" /\ r.id \notin rekeyed =>
        /\ r.id \in RowIds /\ keyring[r.id] # NoTokens
        /\ r.token.of = accounts[r.id]
Fits(r) ==
    /\ r \in PassRecord
    /\ r.pc \in Working => r.id \in Ids
    /\ r.pc \in Working \ {"token"} => r.token \in Tokens
    /\ r.pc = "store" => r.listing
    /\ ListingFits(r) /\ RefreshFits(r)

PassesFit == pass \in [Passes -> PassRecord] /\ \A p \in Passes : Fits(pass[p])

\* remove_account works from the services down, and no pass turns it back.
RemovalInOrder ==
    removing # 0 =>
        /\ "services" \in removed => removing \notin enabled
        /\ "tokens" \in removed => "services" \in removed
        /\ "tokens" \in removed /\ removing \notin rekeyed => keyring[removing] = NoTokens

\* One call for an account at a time; after its first section nothing is left.
HalfwayEmpty ==
    /\ removing \notin disabling
    /\ \A id \in Ids \ relisted : Halfway(id) => OwnedBy(id) = {}

\* TypeOK without the passes.
AccountsTyped ==
    /\ accounts \in [Ids -> Emails \union {NoAccount}]
    /\ enabled \subseteq RowIds
    /\ calendars \subseteq [id : RowIds, of : Emails]
    /\ keyring \in [Ids -> Tokens \union {NoTokens}]
    /\ disabling \subseteq enabled
    /\ removing \in RowIds \union {0}
    /\ removed \in SUBSET {"data", "services", "tokens"}
    /\ relisted \subseteq Ids /\ rekeyed \subseteq Ids

\* What is true of the accounts, and the counters of the bounds.
AccountsInv ==
    /\ AccountsTyped /\ NothingLeftBehind /\ OwnData /\ EnabledHasTokens
    /\ RemovalInOrder /\ HalfwayEmpty
CountersTyped == started \in 0..MaxPasses /\ expiries \in 0..MaxExpiries

IInv == AccountsInv /\ PassesFit /\ CountersTyped

-----------------------------------------------------------------------------
\* Tokens are told from no tokens, ids from no id, emails from no account.
LEMMA Distinct ==
    /\ \A t \in Tokens : t # NoTokens /\ t.of \in Emails
    /\ 0 \notin Ids /\ NoAccount \notin Emails
    /\ RowIds \subseteq Ids
  BY AccountsAssumption DEF Tokens, NoTokens, Ids, NoAccount, RowIds

\* A refreshed token is one of the same identity.
LEMMA Refreshed ==
    ASSUME NEW t \in Tokens, NEW b \in BOOLEAN
    PROVE  [t EXCEPT !.fresh = b] \in Tokens /\ [t EXCEPT !.fresh = b].of = t.of
  BY DEF Tokens

\* SQLite's next id is not in use.
LEMMA NextIdIsNew == NextId \in Ids => NextId \notin RowIds
<1> DEFINE S == {id \in Ids : \E other \in RowIds : id <= other}
<1>1. SUFFICES ASSUME NEW n \in RowIds, n = NextId, n \in Ids PROVE FALSE
  OBVIOUS
<1>2. MaxId \in Nat /\ Ids = 1..MaxId /\ n \in Nat
  BY <1>1, AccountsAssumption DEF Ids
<1>3. n = 1 + Cardinality(S)
  BY <1>1 DEF NextId
<1>4. S \subseteq Ids /\ \A i \in Ids : i <= n => i \in S
  BY <1>1
<1>5. 1..n \subseteq S
  <2>1. \A i \in 1..n : i \in Ids /\ i <= n
    BY <1>1, <1>2
  <2>2. QED
    BY <1>4, <2>1
<1> HIDE DEF S
<1>6. IsFiniteSet(S) /\ Cardinality(S) \in Nat
  <2>1. IsFiniteSet(Ids)
    BY <1>2, FS_Interval
  <2>2. QED
    BY <1>4, <2>1, FS_Subset, FS_CardinalityType
<1>7. Cardinality(1..n) = n /\ Cardinality(1..n) <= Cardinality(S)
  <2>1. n > 0 /\ n \in Int /\ 1 \in Int
    BY <1>1, <1>2
  <2>2. Cardinality(1..n) = n
    BY <2>1, FS_Interval
  <2>3. 1..n \in SUBSET S
    BY <1>5
  <2>4. QED
    BY <1>6, <2>2, <2>3, FS_Subset
<1>8. QED
  BY <1>2, <1>3, <1>6, <1>7

LEMMA TypeFollows == AccountsInv /\ PassesFit /\ CountersTyped => TypeOK
  BY DEF AccountsInv, AccountsTyped, PassesFit, PassRecord, Working, CountersTyped, TypeOK

\* The accounts change under the passes: a pass that fitted still does if what
\* it relies on stayed, or its id went on record.
LEMMA StillFits ==
    ASSUME NEW r, Fits(r), relisted \subseteq relisted', rekeyed \subseteq rekeyed',
           r.pc \in Working /\ r.listing =>
               \/ r.id \in relisted'
               \/ /\ accounts'[r.id] = accounts[r.id]
                  /\ r.id \in enabled /\ ~Halfway(r.id) => r.id \in enabled' /\ ~Halfway(r.id)',
           r.pc = "refresh" =>
               \/ r.id \in rekeyed'
               \/ /\ accounts'[r.id] = accounts[r.id]
                  /\ keyring[r.id] # NoTokens => keyring'[r.id] # NoTokens
    PROVE  Fits(r)'
<1>1. /\ r \in PassRecord
      /\ r.pc \in Working => r.id \in Ids
      /\ r.pc \in Working \ {"token"} => r.token \in Tokens
      /\ r.pc = "store" => r.listing
      /\ ListingFits(r) /\ RefreshFits(r)
  BY DEF Fits
<1>2. ListingFits(r)'
  BY <1>1 DEF ListingFits
<1>3. RefreshFits(r)'
  BY <1>1 DEF RefreshFits, RowIds
<1>4. QED
  BY <1>1, <1>2, <1>3 DEF Fits

LEMMA PassesStay ==
    ASSUME PassesFit, pass' = pass, relisted \subseteq relisted', rekeyed \subseteq rekeyed',
           \A p \in Passes, id \in Ids : Listing(p, id) =>
               \/ id \in relisted'
               \/ /\ accounts'[id] = accounts[id]
                  /\ id \in enabled /\ ~Halfway(id) => id \in enabled' /\ ~Halfway(id)',
           \A p \in Passes, id \in Ids : Refreshing(p, id) =>
               \/ id \in rekeyed'
               \/ /\ accounts'[id] = accounts[id]
                  /\ keyring[id] # NoTokens => keyring'[id] # NoTokens
    PROVE  PassesFit'
<1>1. SUFFICES ASSUME NEW p \in Passes PROVE Fits(pass[p])'
  BY DEF PassesFit
<1>2. PICK r : r = pass[p]
  OBVIOUS
<1>3. Fits(r) /\ (r.pc \in Working => r.id \in Ids)
  BY <1>2 DEF PassesFit, Fits
<1>4. r.pc \in Working /\ r.listing => Listing(p, r.id)
  BY <1>2 DEF Listing, Working
<1>5. r.pc = "refresh" => Refreshing(p, r.id) /\ r.pc \in Working
  BY <1>2 DEF Refreshing, Working
<1>6. Fits(r)'
  BY <1>3, <1>4, <1>5, StillFits
<1>7. QED
  BY <1>2, <1>6 DEF Fits, ListingFits, RefreshFits

\* A step of one pass keeps the others, if what they rely on stays.
LEMMA PassMoves ==
    ASSUME PassesFit, NEW p \in Passes, NEW r, pass' = [pass EXCEPT ![p] = r], Fits(r)',
           relisted \subseteq relisted',
           UNCHANGED <<accounts, enabled, disabling, removing, removed, rekeyed>>,
           \A id \in Ids : keyring[id] # NoTokens => keyring'[id] # NoTokens
    PROVE  PassesFit'
<1>1. r \in PassRecord
  BY DEF Fits
<1>2. pass' \in [Passes -> PassRecord]
  BY <1>1 DEF PassesFit
<1>3. ASSUME NEW q \in Passes, q # p PROVE Fits(pass[q])'
  <2>1. PICK s : s = pass[q]
    OBVIOUS
  <2>2. Fits(s) /\ (s.pc = "refresh" => s.id \in Ids)
    BY <2>1 DEF PassesFit, Fits, Working
  <2>3. \A id : Halfway(id)' <=> Halfway(id)
    BY DEF Halfway
  <2>4. Fits(s)'
    BY <2>2, <2>3, StillFits
  <2>5. pass'[q] = s
    BY <1>3, <2>1 DEF PassesFit
  <2>6. QED
    BY <2>4, <2>5 DEF Fits, ListingFits, RefreshFits
<1>4. pass'[p] = r
  BY DEF PassesFit
<1>5. Fits(pass[p])'
  BY <1>4 DEF Fits, ListingFits, RefreshFits
<1>6. QED
  BY <1>2, <1>3, <1>5 DEF PassesFit

LEMMA PassMovesOnly ==
    ASSUME PassesFit, NEW p \in Passes, NEW r, pass' = [pass EXCEPT ![p] = r], Fits(r),
           UNCHANGED <<accounts, enabled, keyring, disabling, removing, removed, relisted, rekeyed>>
    PROVE  PassesFit'
<1>1. Fits(r)'
  BY DEF Fits, ListingFits, RefreshFits, Halfway, RowIds
<1>2. QED
  BY <1>1, PassMoves

-----------------------------------------------------------------------------
\* Nothing moved.
LEMMA AccountsKept ==
    ASSUME AccountsInv, UNCHANGED accountVars
    PROVE  AccountsInv'
  BY DEF accountVars, AccountsInv, AccountsTyped, RowIds, NothingLeftBehind, OwnData,
         OwnedBy, EnabledHasTokens, RemovalInOrder, HalfwayEmpty, Halfway

LEMMA AllKept ==
    ASSUME IInv, UNCHANGED accountVars, UNCHANGED <<pass, started, expiries>>
    PROVE  IInv'
<1>1. AccountsInv'
  BY AccountsKept DEF IInv
<1>2. PassesFit'
  BY DEF IInv, accountVars, PassesFit, Fits, ListingFits, RefreshFits, Halfway, RowIds
<1>3. QED
  BY <1>1, <1>2 DEF IInv, CountersTyped

\* A new account gets an id that nothing is left of, except under a pass.
LEMMA AddInv ==
    ASSUME IInv, NEW email \in Emails, Add(email)
    PROVE  IInv'
<1>1. CASE UNCHANGED <<accounts, keyring, enabled>>
  BY <1>1, AllKept DEF Add, accountVars
<1>2. ASSUME NEW id \in Ids, id = NextId,
             accounts' = [accounts EXCEPT ![id] = email],
             keyring' = [keyring EXCEPT ![id] = [of |-> email, fresh |-> TRUE]],
             enabled' = enabled \union {id},
             UNCHANGED <<calendars, disabling, removing, removed, relisted, rekeyed,
                         pass, started, expiries>>
      PROVE  IInv'
  <2>1. AccountsInv /\ PassesFit /\ id \notin RowIds /\ accounts[id] = NoAccount
    BY <1>2, NextIdIsNew DEF IInv, RowIds
  <2>2. accounts'[id] = email /\ \A x \in Ids \ {id} : accounts'[x] = accounts[x]
    BY <1>2, <2>1 DEF AccountsInv, AccountsTyped
  <2>3. RowIds' = RowIds \union {id}
    BY <2>2, Distinct DEF RowIds
  <2>4. keyring'[id] = [of |-> email, fresh |-> TRUE] /\ \A x \in Ids \ {id} : keyring'[x] = keyring[x]
    BY <1>2, <2>1 DEF AccountsInv, AccountsTyped
  <2>5. [of |-> email, fresh |-> TRUE] \in Tokens
    BY DEF Tokens
  <2>6. id \notin enabled /\ OwnedBy(id) = {} /\ removing # id /\ id \notin disabling
    BY <2>1, Distinct DEF AccountsInv, AccountsTyped, OwnedBy
  <2>7. AccountsTyped'
    BY <1>2, <2>1, <2>3, <2>5 DEF AccountsInv, AccountsTyped
  <2>8. NothingLeftBehind' /\ OwnData' /\ EnabledHasTokens'
    <3>1. \A x \in Ids : OwnedBy(x)' = OwnedBy(x)
      BY <1>2 DEF OwnedBy
    <3>2. enabled \subseteq RowIds /\ RowIds \subseteq Ids
      BY <2>1, Distinct DEF AccountsInv, AccountsTyped
    <3>3. NothingLeftBehind'
      BY <1>2, <2>1, <2>3, <2>4, <3>1 DEF AccountsInv, NothingLeftBehind
    <3>4. OwnData'
      BY <1>2, <2>1, <2>2, <2>3, <2>4, <2>6, <3>1, <3>2 DEF AccountsInv, OwnData
    <3>5. EnabledHasTokens'
      BY <1>2, <2>1, <2>4, <2>5, <2>6, <3>2, Distinct DEF AccountsInv, EnabledHasTokens
    <3>6. QED
      BY <3>3, <3>4, <3>5
  <2>9. RemovalInOrder' /\ HalfwayEmpty'
    BY <1>2, <2>1, <2>4, <2>6, Distinct
       DEF AccountsInv, AccountsTyped, RemovalInOrder, HalfwayEmpty, Halfway, OwnedBy
  <2>10. PassesFit'
    <3>1. ~Halfway(id) /\ ~Halfway(id)'
      BY <1>2, <2>6 DEF Halfway
    <3>2. \A x \in Ids : Halfway(x)' <=> Halfway(x)
      BY <1>2 DEF Halfway
    <3>3. SUFFICES ASSUME NEW p \in Passes PROVE Fits(pass[p])'
      BY <1>2, <2>1 DEF PassesFit
    <3>4. PICK r : r = pass[p] /\ Fits(r)
      BY <2>1 DEF PassesFit
    <3>5. r.pc \in Working => r.id \in Ids
      BY <3>4 DEF Fits
    <3>6. r.pc \in Working /\ r.listing /\ r.id \notin relisted => r.id # id
      BY <2>6, <3>4 DEF Fits, ListingFits
    <3>7. r.pc = "refresh" /\ r.id \notin rekeyed => r.id # id
      BY <2>1, <3>4 DEF Fits, RefreshFits
    <3>8. Fits(r)'
      BY <1>2, <2>2, <2>4, <3>2, <3>4, <3>5, <3>6, <3>7, StillFits DEF Working
    <3>9. QED
      BY <1>2, <3>4, <3>8 DEF Fits, ListingFits, RefreshFits
  <2>11. QED
    BY <1>2, <2>7, <2>8, <2>9, <2>10 DEF IInv, AccountsInv, CountersTyped
<1>3. QED
  BY <1>1, <1>2 DEF Add

LEMMA EnableInv ==
    ASSUME IInv, NEW id \in Ids, Enable(id)
    PROVE  IInv'
<1>1. /\ id \in RowIds /\ removing # id /\ keyring[id] # NoTokens /\ enabled' = enabled \union {id}
      /\ UNCHANGED <<accounts, calendars, keyring, disabling, removing, removed, relisted, rekeyed,
                     pass, started, expiries>>
  BY DEF Enable
<1>2. AccountsInv'
  BY <1>1 DEF IInv, AccountsInv, AccountsTyped, RowIds, NothingLeftBehind, OwnData,
         OwnedBy, EnabledHasTokens, RemovalInOrder, HalfwayEmpty, Halfway
<1>3. \A x : Halfway(x)' <=> Halfway(x)
  BY <1>1 DEF Halfway
<1>4. PassesFit'
  BY <1>1, <1>3, PassesStay DEF IInv
<1>5. QED
  BY <1>1, <1>2, <1>4 DEF IInv, CountersTyped

\* The data of a service go, and a resync that has its list still to store is
\* on record.  What is between the two sections afterwards is id or was before.
LEMMA DroppedInv ==
    ASSUME IInv, NEW id \in enabled, Dropped(id), RemovalInOrder', removing \notin disabling',
           disabling' \subseteq enabled, removed' \in SUBSET {"data", "services", "tokens"},
           \A x \in Ids \ {id} : Halfway(x)' => Halfway(x),
           UNCHANGED <<accounts, enabled, keyring, removing, rekeyed, pass, started, expiries>>
    PROVE  IInv'
<1>1. AccountsInv /\ PassesFit /\ id \in Ids /\ id \in RowIds
  BY Distinct DEF IInv, AccountsInv, AccountsTyped
<1>2. /\ relisted \subseteq relisted' /\ relisted' \subseteq Ids
      /\ \A p \in Passes : Listing(p, id) => id \in relisted'
  BY <1>1 DEF Dropped, AccountsInv, AccountsTyped
<1>3. calendars' \subseteq calendars /\ \A x \in Ids : OwnedBy(x)' \subseteq OwnedBy(x)
  BY DEF Dropped, OwnedBy
<1>4. OwnedBy(id)' = {}
  BY DEF Dropped, OwnedBy
<1>5. RowIds' = RowIds
  BY DEF RowIds
<1>6. AccountsTyped'
  BY <1>1, <1>2, <1>3, <1>5 DEF AccountsInv, AccountsTyped
<1>7. NothingLeftBehind' /\ OwnData' /\ EnabledHasTokens'
  BY <1>1, <1>2, <1>3, <1>5, Distinct DEF AccountsInv, NothingLeftBehind, OwnData, EnabledHasTokens
<1>8. HalfwayEmpty'
  BY <1>1, <1>2, <1>3, <1>4 DEF AccountsInv, HalfwayEmpty
<1>9. PassesFit'
  BY <1>1, <1>2, PassesStay
<1>10. QED
  BY <1>6, <1>7, <1>8, <1>9 DEF IInv, AccountsInv, CountersTyped

LEMMA DisableInv ==
    ASSUME IInv, NEW id \in Ids, Disable(id)
    PROVE  IInv'
<1>1. AccountsInv /\ id \in enabled /\ removing # id /\ disabling' = disabling \union {id}
  BY DEF Disable, IInv
<1>2. /\ Dropped(id)
      /\ UNCHANGED <<accounts, enabled, keyring, removing, removed, rekeyed, pass, started, expiries>>
  BY DEF Disable
<1>3. RemovalInOrder' /\ removing \notin disabling' /\ disabling' \subseteq enabled
  BY <1>1, <1>2 DEF AccountsInv, AccountsTyped, RemovalInOrder, HalfwayEmpty
<1>4. \A x \in Ids \ {id} : Halfway(x)' => Halfway(x)
  BY <1>1, <1>2 DEF Halfway
<1>5. removed' \in SUBSET {"data", "services", "tokens"}
  BY <1>1, <1>2 DEF AccountsInv, AccountsTyped
<1>6. QED
  BY <1>1, <1>2, <1>3, <1>4, <1>5, DroppedInv

\* The second section.  No resync but those on record works on the account.
LEMMA FlippedInv ==
    ASSUME IInv, NEW id \in RowIds, Halfway(id), enabled' = enabled \ {id}, RemovalInOrder',
           disabling' = disabling \ {id}, removed' \in SUBSET {"data", "services", "tokens"},
           \A x \in Ids : Halfway(x)' => Halfway(x),
           UNCHANGED <<accounts, calendars, keyring, removing, relisted, rekeyed,
                       pass, started, expiries>>
    PROVE  IInv'
<1>1. AccountsInv /\ PassesFit /\ id \in Ids
  BY Distinct DEF IInv
<1>2. RowIds' = RowIds /\ \A x \in Ids : OwnedBy(x)' = OwnedBy(x)
  BY DEF RowIds, OwnedBy
<1>3. AccountsTyped'
  BY <1>1, <1>2 DEF AccountsInv, AccountsTyped
<1>4. NothingLeftBehind' /\ OwnData' /\ EnabledHasTokens'
  <2>1. NothingLeftBehind'
    BY <1>1, <1>2 DEF AccountsInv, HalfwayEmpty, NothingLeftBehind
  <2>2. OwnData' /\ EnabledHasTokens'
    BY <1>1, <1>2, Distinct DEF AccountsInv, OwnData, EnabledHasTokens
  <2>3. QED
    BY <2>1, <2>2
<1>5. HalfwayEmpty'
  BY <1>1, <1>2 DEF AccountsInv, HalfwayEmpty
<1>6. PassesFit'
  BY <1>1, PassesStay
<1>7. QED
  BY <1>3, <1>4, <1>5, <1>6 DEF IInv, AccountsInv, CountersTyped

LEMMA FlipToggleInv ==
    ASSUME IInv, NEW id \in Ids, FlipToggle(id)
    PROVE  IInv'
<1>1. /\ AccountsInv /\ id \in disabling /\ enabled' = enabled \ {id} /\ disabling' = disabling \ {id}
      /\ UNCHANGED <<accounts, calendars, keyring, removing, removed, relisted, rekeyed,
                     pass, started, expiries>>
  BY DEF FlipToggle, IInv
<1>2. id \in RowIds /\ Halfway(id) /\ removed' \in SUBSET {"data", "services", "tokens"}
  BY <1>1 DEF AccountsInv, AccountsTyped, Halfway
<1>3. RemovalInOrder' /\ \A x \in Ids : Halfway(x)' => Halfway(x)
  BY <1>1 DEF AccountsInv, RemovalInOrder, Halfway
<1>4. QED
  BY <1>1, <1>2, <1>3, FlippedInv

\* A call or a removal begins, or gives up half-way: only what is to be done changes.
LEMMA TurnsInv ==
    ASSUME IInv, removing' \in RowIds \union {0}, removing' \notin disabling', RemovalInOrder',
           removed' \in SUBSET {"data", "services", "tokens"}, disabling' \subseteq disabling,
           \A x \in Ids : Halfway(x)' => Halfway(x),
           UNCHANGED <<accounts, enabled, calendars, keyring, relisted, rekeyed,
                       pass, started, expiries>>
    PROVE  IInv'
<1>1. AccountsInv /\ PassesFit
  BY DEF IInv
<1>2. RowIds' = RowIds /\ \A x \in Ids : OwnedBy(x)' = OwnedBy(x)
  BY DEF RowIds, OwnedBy
<1>3. AccountsTyped'
  BY <1>1, <1>2 DEF AccountsInv, AccountsTyped
<1>4. NothingLeftBehind' /\ OwnData' /\ EnabledHasTokens' /\ HalfwayEmpty'
  <2>1. NothingLeftBehind' /\ HalfwayEmpty'
    BY <1>1, <1>2 DEF AccountsInv, HalfwayEmpty, NothingLeftBehind
  <2>2. OwnData' /\ EnabledHasTokens'
    BY <1>1, <1>2, Distinct DEF AccountsInv, OwnData, EnabledHasTokens
  <2>3. QED
    BY <2>1, <2>2
<1>5. PassesFit'
  BY <1>1, PassesStay
<1>6. QED
  BY <1>3, <1>4, <1>5 DEF IInv, AccountsInv, CountersTyped

LEMMA DisableFailsInv ==
    ASSUME IInv, NEW id \in Ids, DisableFails(id)
    PROVE  IInv'
<1>1. /\ AccountsInv /\ disabling' = disabling \ {id}
      /\ UNCHANGED <<accounts, enabled, calendars, keyring, removing, removed, relisted, rekeyed,
                     pass, started, expiries>>
  BY DEF DisableFails, IInv
<1>2. removing' \in RowIds \union {0} /\ removed' \in SUBSET {"data", "services", "tokens"}
  BY <1>1 DEF AccountsInv, AccountsTyped
<1>3. removing' \notin disabling' /\ RemovalInOrder' /\ \A x \in Ids : Halfway(x)' => Halfway(x)
  BY <1>1 DEF AccountsInv, HalfwayEmpty, RemovalInOrder, Halfway
<1>4. QED
  BY <1>1, <1>2, <1>3, TurnsInv

LEMMA RemovalTurnsInv ==
    ASSUME IInv, removing' \in (RowIds \ disabling) \union {0}, removed' = {},
           UNCHANGED <<accounts, enabled, calendars, keyring, disabling, relisted, rekeyed,
                       pass, started, expiries>>
    PROVE  IInv'
<1>1. removing' \notin disabling'
  BY Distinct DEF IInv, AccountsInv, AccountsTyped
<1>2. RemovalInOrder' /\ \A x \in Ids : Halfway(x)' => Halfway(x)
  BY DEF RemovalInOrder, Halfway
<1>3. QED
  BY <1>1, <1>2, TurnsInv

LEMMA RemoveDataInv ==
    ASSUME IInv, RemoveData
    PROVE  IInv'
<1>1. /\ AccountsInv /\ removing \in RowIds /\ removing # 0 /\ removed = {}
      /\ removing \notin disabling /\ disabling \subseteq enabled
      /\ UNCHANGED <<accounts, enabled, keyring, disabling, removing, rekeyed, pass, started, expiries>>
  BY DEF RemoveData, Removing, IInv, AccountsInv, AccountsTyped, HalfwayEmpty
<1>2. CASE removing \in enabled
  <2>1. Dropped(removing) /\ removed' = {"data"}
    BY <1>2 DEF RemoveData
  <2>2. RemovalInOrder' /\ \A x \in Ids \ {removing} : Halfway(x)' => Halfway(x)
    BY <1>1, <2>1 DEF RemovalInOrder, Halfway
  <2>3. PICK id \in enabled : id = removing
    BY <1>2
  <2>4. QED
    BY <1>1, <2>1, <2>2, <2>3, DroppedInv
<1>3. CASE removing \notin enabled
  <2>1. removed' = {"data", "services"} /\ UNCHANGED <<calendars, relisted>>
    BY <1>3 DEF RemoveData
  <2>2. RemovalInOrder' /\ \A x \in Ids : Halfway(x)' => Halfway(x)
    BY <1>1, <1>3, <2>1 DEF RemovalInOrder, Halfway
  <2>3. QED
    BY <1>1, <2>1, <2>2, TurnsInv
<1>4. QED
  BY <1>2, <1>3

LEMMA RemoveServicesInv ==
    ASSUME IInv, RemoveServices
    PROVE  IInv'
<1>1. /\ AccountsInv /\ removing \in RowIds /\ removing # 0 /\ removed = {"data"}
      /\ removing \notin disabling /\ enabled' = enabled \ {removing}
      /\ removed' = {"data", "services"}
      /\ UNCHANGED <<accounts, calendars, keyring, disabling, removing, relisted, rekeyed,
                     pass, started, expiries>>
  BY DEF RemoveServices, Removing, IInv, AccountsInv, AccountsTyped, HalfwayEmpty
<1>2. PICK id \in RowIds : id = removing
  BY <1>1
<1>3. RemovalInOrder' /\ Halfway(id) /\ (\A x \in Ids : Halfway(x)' => Halfway(x))
  BY <1>1, <1>2 DEF RemovalInOrder, Halfway
<1>4. disabling' = disabling \ {id}
  BY <1>1, <1>2
<1>5. QED
  BY <1>1, <1>2, <1>3, <1>4, FlippedInv

\* The tokens go when the services have; a refresh under way is on record.
LEMMA RemoveTokensInv ==
    ASSUME IInv, RemoveTokens
    PROVE  IInv'
<1> PICK id \in Ids : id = removing
  BY Distinct DEF RemoveTokens, Removing, IInv, AccountsInv, AccountsTyped
<1>1. /\ AccountsInv /\ PassesFit /\ id \in RowIds /\ id # 0 /\ id \notin enabled
      /\ removed = {"data", "services"}
  BY DEF RemoveTokens, Removing, IInv, AccountsInv, AccountsTyped, RemovalInOrder
<1>2. /\ keyring' = [keyring EXCEPT ![id] = NoTokens] /\ removed' = {"data", "services", "tokens"}
      /\ UNCHANGED <<accounts, enabled, calendars, disabling, removing, relisted, pass, started, expiries>>
  BY DEF RemoveTokens
<1>3. /\ rekeyed \subseteq rekeyed' /\ rekeyed' \subseteq Ids
      /\ \A p \in Passes : Refreshing(p, id) => id \in rekeyed'
  BY <1>1 DEF RemoveTokens, AccountsInv, AccountsTyped
<1>4. keyring'[id] = NoTokens /\ \A x \in Ids \ {id} : keyring'[x] = keyring[x]
  BY <1>1, <1>2 DEF AccountsInv, AccountsTyped
<1>5. RowIds' = RowIds /\ enabled \subseteq Ids /\ \A x \in Ids : OwnedBy(x)' = OwnedBy(x)
  BY <1>1, <1>2, Distinct DEF RowIds, OwnedBy, AccountsInv, AccountsTyped
<1>6. AccountsTyped'
  BY <1>1, <1>2, <1>3, <1>5 DEF AccountsInv, AccountsTyped
<1>7. NothingLeftBehind' /\ OwnData' /\ EnabledHasTokens'
  BY <1>1, <1>2, <1>3, <1>4, <1>5, Distinct
     DEF AccountsInv, NothingLeftBehind, OwnData, EnabledHasTokens
<1>8. RemovalInOrder'
  BY <1>1, <1>2, <1>4 DEF RemovalInOrder
<1>9. \A x \in Ids : Halfway(x)' <=> Halfway(x)
  BY <1>1, <1>2 DEF Halfway
<1>10. HalfwayEmpty'
  BY <1>1, <1>2, <1>5, <1>9 DEF AccountsInv, HalfwayEmpty
<1>11. PassesFit'
  BY <1>1, <1>2, <1>3, <1>4, <1>9, PassesStay
<1>12. QED
  BY <1>2, <1>6, <1>7, <1>8, <1>10, <1>11 DEF IInv, AccountsInv, CountersTyped

\* The row goes last: what is left under its id is left by a pass on record.
LEMMA RemoveRowInv ==
    ASSUME IInv, RemoveRow
    PROVE  IInv'
<1> PICK id \in RowIds : id = removing
  BY DEF RemoveRow, Removing, IInv, AccountsInv, AccountsTyped
<1>1. /\ AccountsInv /\ PassesFit /\ id \in Ids /\ id # 0 /\ id \notin enabled
      /\ id \notin rekeyed => keyring[id] = NoTokens
  BY Distinct DEF RemoveRow, Removing, IInv, AccountsInv, AccountsTyped, RemovalInOrder
<1>2. /\ accounts' = [accounts EXCEPT ![id] = NoAccount]
      /\ enabled' = enabled \ {id} /\ calendars' = calendars \ OwnedBy(id)
      /\ removing' = 0 /\ removed' = {}
      /\ UNCHANGED <<keyring, disabling, relisted, rekeyed, pass, started, expiries>>
  BY DEF RemoveRow
<1>3. RowIds' = RowIds \ {id} /\ \A x \in Ids \ {id} : accounts'[x] = accounts[x]
  BY <1>1, <1>2 DEF RowIds, AccountsInv, AccountsTyped
<1>4. OwnedBy(id)' = {} /\ \A x \in Ids : OwnedBy(x)' \subseteq OwnedBy(x)
  BY <1>2 DEF OwnedBy
<1>5. AccountsTyped'
  <2>1. accounts' \in [Ids -> Emails \union {NoAccount}]
    BY <1>1, <1>2 DEF AccountsInv, AccountsTyped
  <2>2. calendars' \subseteq [id : RowIds', of : Emails]
    BY <1>1, <1>2, <1>3 DEF AccountsInv, AccountsTyped, OwnedBy
  <2>3. disabling' \subseteq enabled' /\ enabled' \subseteq RowIds'
    BY <1>1, <1>2, <1>3 DEF AccountsInv, AccountsTyped
  <2>4. QED
    BY <1>1, <1>2, <2>1, <2>2, <2>3 DEF AccountsInv, AccountsTyped
<1>6. NothingLeftBehind' /\ OwnData' /\ EnabledHasTokens'
  BY <1>1, <1>2, <1>3, <1>4, Distinct
     DEF AccountsInv, NothingLeftBehind, OwnData, EnabledHasTokens
<1>7. RemovalInOrder'
  BY <1>2 DEF RemovalInOrder
<1>8. \A x \in Ids : Halfway(x)' => Halfway(x)
  BY <1>2 DEF Halfway
<1>9. HalfwayEmpty'
  <2>1. removing' \notin disabling'
    BY <1>1, <1>2, Distinct DEF AccountsInv, AccountsTyped
  <2>2. QED
    BY <1>1, <1>2, <1>4, <1>8, <2>1 DEF AccountsInv, HalfwayEmpty
<1>10. PassesFit'
  <2>1. SUFFICES ASSUME NEW p \in Passes PROVE Fits(pass[p])'
    BY <1>1, <1>2 DEF PassesFit
  <2>2. PICK r : r = pass[p] /\ Fits(r)
    BY <1>1 DEF PassesFit
  <2>3. r.pc \in Working => r.id \in Ids
    BY <2>2 DEF Fits
  <2>4. r.pc \in Working /\ r.listing /\ r.id \notin relisted => r.id # id
    BY <1>1, <2>2 DEF Fits, ListingFits
  <2>5. r.pc = "refresh" /\ r.id \notin rekeyed => r.id # id
    BY <1>1, <2>2 DEF Fits, RefreshFits
  <2>6. Fits(r)'
    BY <1>2, <1>3, <1>8, <2>2, <2>3, <2>4, <2>5, StillFits DEF Working
  <2>7. QED
    BY <1>2, <2>2, <2>6 DEF Fits, ListingFits, RefreshFits
<1>11. QED
  BY <1>2, <1>5, <1>6, <1>7, <1>9, <1>10 DEF IInv, AccountsInv, CountersTyped

LEMMA ExpireInv ==
    ASSUME IInv, NEW id \in Ids, Expire(id)
    PROVE  IInv'
<1>1. /\ AccountsInv /\ PassesFit /\ keyring[id].fresh /\ keyring' = [keyring EXCEPT ![id].fresh = FALSE]
      /\ expiries < MaxExpiries /\ expiries' = expiries + 1
      /\ UNCHANGED <<accounts, enabled, calendars, disabling, removing, removed, relisted, rekeyed,
                     pass, started>>
  BY DEF Expire, IInv
<1>2. keyring[id] \in Tokens
  BY <1>1 DEF AccountsInv, AccountsTyped, NoTokens
<1>3. /\ keyring'[id] \in Tokens /\ keyring'[id].of = keyring[id].of
      /\ \A x \in Ids \ {id} : keyring'[x] = keyring[x]
  BY <1>1, <1>2, Refreshed DEF AccountsInv, AccountsTyped
<1>4. AccountsTyped'
  BY <1>1, <1>3 DEF AccountsInv, AccountsTyped, RowIds
<1>5. \A x \in Ids : OwnedBy(x)' = OwnedBy(x)
  BY <1>1 DEF OwnedBy
<1>6. RowIds' = RowIds /\ enabled \subseteq Ids
  BY <1>1, Distinct DEF RowIds, AccountsInv, AccountsTyped
<1>7. \A x \in Ids : keyring'[x] = NoTokens <=> keyring[x] = NoTokens
  BY <1>2, <1>3, Distinct
<1>8. NothingLeftBehind' /\ OwnData' /\ EnabledHasTokens'
  <2>1. \A x \in Ids : keyring'[x].of = keyring[x].of
    BY <1>3
  <2>2. NothingLeftBehind'
    BY <1>1, <1>5, <1>6, <1>7 DEF AccountsInv, NothingLeftBehind
  <2>3. OwnData'
    BY <1>1, <1>5, <1>6, <1>7, <2>1, Distinct DEF AccountsInv, OwnData
  <2>4. EnabledHasTokens'
    BY <1>1, <1>6, <1>7 DEF AccountsInv, EnabledHasTokens
  <2>5. QED
    BY <2>2, <2>3, <2>4
<1>9. \A x : Halfway(x)' <=> Halfway(x)
  BY <1>1 DEF Halfway
<1>10. RemovalInOrder' /\ HalfwayEmpty'
  BY <1>1, <1>5, <1>7, <1>9, Distinct
     DEF AccountsInv, AccountsTyped, RemovalInOrder, HalfwayEmpty
<1>11. PassesFit'
  BY <1>1, <1>7, <1>9, PassesStay
<1>12. CountersTyped'
  BY <1>1, AccountsAssumption DEF IInv, CountersTyped
<1>13. QED
  BY <1>4, <1>8, <1>10, <1>11, <1>12 DEF IInv, AccountsInv

-----------------------------------------------------------------------------
\* A step of one pass that leaves the accounts alone.
LEMMA PassOnlyInv ==
    ASSUME IInv, NEW p \in Passes, NEW r, Fits(r), pass' = [pass EXCEPT ![p] = r],
           UNCHANGED accountVars, started' \in 0..MaxPasses, expiries' = expiries
    PROVE  IInv'
<1>1. AccountsInv'
  BY AccountsKept DEF IInv
<1>2. PassesFit'
  BY PassMovesOnly DEF IInv, accountVars
<1>3. QED
  BY <1>1, <1>2 DEF IInv, CountersTyped

\* The state a pass is in when an account's work is over.
LEMMA RestFits ==
    ASSUME NEW r \in PassRecord, r.pc \in {"idle", "next"}
    PROVE  Fits(r)
  BY DEF Fits, ListingFits, RefreshFits, Working

LEMMA DoneFits ==
    ASSUME PassesFit, NEW p \in Passes
    PROVE  Fits([pass[p] EXCEPT !.pc = "next", !.id = 0, !.listing = FALSE, !.token = NoTokens])
<1>1. pass[p] \in PassRecord
  BY DEF PassesFit
<1>2. [pass[p] EXCEPT !.pc = "next", !.id = 0, !.listing = FALSE, !.token = NoTokens] \in PassRecord
  BY <1>1 DEF PassRecord
<1>3. [pass[p] EXCEPT !.pc = "next", !.id = 0, !.listing = FALSE, !.token = NoTokens].pc = "next"
  BY <1>1 DEF PassRecord
<1>4. QED
  BY <1>2, <1>3, RestFits

LEMMA DoneInv ==
    ASSUME IInv, NEW p \in Passes, Done(p), UNCHANGED accountVars
    PROVE  IInv'
<1>1. Fits([pass[p] EXCEPT !.pc = "next", !.id = 0, !.listing = FALSE, !.token = NoTokens])
  BY DoneFits DEF IInv
<1>2. QED
  BY <1>1, PassOnlyInv DEF Done, Moves, IInv, CountersTyped

\* A pass begins, comes to an account that is switched off, or ends.
LEMMA StartPassInv ==
    ASSUME IInv, NEW p \in Passes, StartPass(p)
    PROVE  IInv'
<1>1. /\ started < MaxPasses /\ started' = started + 1 /\ expiries' = expiries /\ UNCHANGED accountVars
      /\ started' \in 0..MaxPasses
  BY AccountsAssumption DEF StartPass, IInv, CountersTyped
<1>2. PICK resync \in BOOLEAN :
        pass' = [pass EXCEPT ![p] = [Idle EXCEPT !.pc = "next", !.resync = resync, !.todo = RowIds]]
  BY DEF StartPass
<1>3. Idle \in PassRecord /\ RowIds \in SUBSET Ids
  BY Distinct DEF Idle, PassRecord
<1>4. /\ [Idle EXCEPT !.pc = "next", !.resync = resync, !.todo = RowIds] \in PassRecord
      /\ [Idle EXCEPT !.pc = "next", !.resync = resync, !.todo = RowIds].pc = "next"
  BY <1>3 DEF PassRecord
<1>5. QED
  BY <1>1, <1>2, <1>4, RestFits, PassOnlyInv

LEMMA EndPassInv ==
    ASSUME IInv, NEW p \in Passes, EndPass(p)
    PROVE  IInv'
<1>1. Idle \in PassRecord /\ Idle.pc = "idle"
  BY DEF Idle, PassRecord
<1>2. QED
  BY <1>1, RestFits, PassOnlyInv DEF EndPass, Moves, IInv, CountersTyped

\* A resync clears the calendars of the account whose turn it is; between the
\* sections of disable_service it is put on record.
LEMMA NextAccountInv ==
    ASSUME IInv, NEW p \in Passes, NextAccount(p)
    PROVE  IInv'
<1>1. PICK id :
        LET rest == [pass[p] EXCEPT !.todo = @ \ {id}] IN
        IF id \in enabled
        THEN /\ Moves(p, [rest EXCEPT !.pc = "token", !.id = id, !.listing = pass[p].resync])
             /\ calendars' = IF pass[p].resync THEN calendars \ OwnedBy(id) ELSE calendars
             /\ relisted' = IF pass[p].resync /\ Halfway(id) THEN relisted \union {id}
                            ELSE relisted
        ELSE /\ Moves(p, rest)
             /\ UNCHANGED <<calendars, relisted>>
  BY DEF NextAccount
<1> DEFINE rest == [pass[p] EXCEPT !.todo = @ \ {id}]
           turn == [rest EXCEPT !.pc = "token", !.id = id, !.listing = pass[p].resync]
<1>2. /\ UNCHANGED <<accounts, enabled, keyring, disabling, removing, removed, rekeyed>>
      /\ pass[p].pc = "next" /\ pass[p] \in PassRecord /\ AccountsInv
  BY DEF NextAccount, IInv, PassesFit
<1>3. rest \in PassRecord /\ rest.pc = "next"
  BY <1>2 DEF PassRecord
<1>4. CASE id \notin enabled
  BY <1>1, <1>2, <1>3, <1>4, RestFits, PassOnlyInv DEF Moves, accountVars, IInv, CountersTyped
<1>5. CASE id \in enabled
  <2>1. id \in Ids /\ id \in RowIds
    BY <1>2, <1>5, Distinct DEF AccountsInv, AccountsTyped
  <2>2. PICK r : r = turn
    OBVIOUS
  <2>3. r \in PassRecord /\ r.pc = "token" /\ r.id = id /\ (r.listing => pass[p].resync)
    BY <1>2, <1>3, <2>1, <2>2 DEF PassRecord, Working
  <2>4. /\ pass' = [pass EXCEPT ![p] = r] /\ UNCHANGED <<started, expiries>>
        /\ calendars' \subseteq calendars
        /\ relisted \subseteq relisted' /\ relisted' \subseteq relisted \union {id}
        /\ r.listing /\ Halfway(id) => id \in relisted'
    BY <1>1, <1>5, <2>2, <2>3 DEF Moves
  <2>5. \A x : Halfway(x)' <=> Halfway(x)
    BY <1>2 DEF Halfway
  <2>6. Fits(r)'
    BY <1>2, <1>5, <2>1, <2>3, <2>4, <2>5 DEF Fits, ListingFits, RefreshFits
  <2>7. PassesFit'
    BY <1>2, <2>4, <2>6, PassMoves DEF IInv
  <2>8. RowIds' = RowIds /\ \A x \in Ids : OwnedBy(x)' \subseteq OwnedBy(x)
    BY <1>2, <2>4 DEF OwnedBy, RowIds
  <2>9. AccountsTyped' /\ EnabledHasTokens' /\ RemovalInOrder'
    BY <1>2, <2>1, <2>4, <2>8
       DEF AccountsInv, AccountsTyped, EnabledHasTokens, RemovalInOrder
  <2>10. NothingLeftBehind' /\ OwnData' /\ HalfwayEmpty'
    BY <1>2, <2>4, <2>5, <2>8, Distinct DEF AccountsInv, NothingLeftBehind, OwnData, HalfwayEmpty
  <2>11. QED
    BY <2>4, <2>7, <2>9, <2>10 DEF IInv, AccountsInv, CountersTyped
<1>6. QED
  BY <1>4, <1>5

\* What is known of a pass at work.
LEMMA WorkerFits ==
    ASSUME IInv, NEW p \in Passes, pass[p].pc \in Working
    PROVE  /\ pass[p] \in PassRecord /\ pass[p].id \in Ids /\ pass[p].listing \in BOOLEAN
           /\ pass[p].pc # "token" => pass[p].token \in Tokens
           /\ pass[p].pc = "store" => pass[p].listing
           /\ ListingFits(pass[p]) /\ RefreshFits(pass[p])
  BY DEF IInv, PassesFit, Fits, PassRecord

\* A pass that goes on to pc with a token: of its account, if it lists for it.
LEMMA CarryingFits ==
    ASSUME IInv, NEW p \in Passes, pass[p].pc \in Working, NEW pc \in Working,
           NEW token \in Tokens \union {NoTokens}, NEW listing \in BOOLEAN,
           listing => pass[p].listing, pc = "store" => listing,
           pc # "token" => token \in Tokens,
           pc # "token" /\ listing /\ pass[p].id \notin relisted \union rekeyed =>
               token.of = accounts[pass[p].id],
           pc = "refresh" /\ pass[p].id \notin rekeyed =>
               /\ pass[p].id \in RowIds /\ keyring[pass[p].id] # NoTokens
               /\ token.of = accounts[pass[p].id]
    PROVE  Fits([pass[p] EXCEPT !.pc = pc, !.token = token, !.listing = listing])
<1> DEFINE r == [pass[p] EXCEPT !.pc = pc, !.token = token, !.listing = listing]
<1>1. pass[p] \in PassRecord /\ pass[p].id \in Ids /\ ListingFits(pass[p])
  BY WorkerFits
<1>2. r \in PassRecord /\ r.pc = pc /\ r.token = token /\ r.id = pass[p].id /\ r.listing = listing
  BY <1>1 DEF PassRecord
<1>3. ListingFits(r)
  BY <1>1, <1>2 DEF ListingFits
<1>4. RefreshFits(r)
  BY <1>2 DEF RefreshFits
<1>5. QED
  BY <1>1, <1>2, <1>3, <1>4 DEF Fits

\* What the keyring holds for an account not rekeyed is the account's.
LEMMA LoadTokensInv ==
    ASSUME IInv, NEW p \in Passes, LoadTokens(p)
    PROVE  IInv'
<1>1. PICK found : /\ found = keyring[pass[p].id]
                   /\ IF found = NoTokens THEN Done(p)
                      ELSE Moves(p, [pass[p] EXCEPT !.pc = IF found.fresh THEN "call" ELSE "refresh",
                                                    !.token = found])
  BY DEF LoadTokens
<1>2. pass[p].pc = "token" /\ pass[p].pc \in Working /\ UNCHANGED accountVars /\ AccountsInv
  BY DEF LoadTokens, IInv, Working
<1>3. CASE found = NoTokens
  BY <1>1, <1>2, <1>3, DoneInv
<1>4. CASE found # NoTokens
  <2>1. PICK pc \in {"call", "refresh"} : Moves(p, [pass[p] EXCEPT !.pc = pc, !.token = found])
    BY <1>1, <1>4
  <2>2. pass[p] \in PassRecord /\ pass[p].id \in Ids /\ pass[p].listing \in BOOLEAN
    BY <1>2, WorkerFits
  <2>3. found \in Tokens
    BY <1>1, <1>2, <1>4, <2>2 DEF AccountsInv, AccountsTyped
  <2>4. pass[p].id \notin rekeyed => pass[p].id \in RowIds /\ found.of = accounts[pass[p].id]
    BY <1>1, <1>2, <1>4, <2>2 DEF AccountsInv, AccountsTyped, OwnData, NothingLeftBehind
  <2>5. [pass[p] EXCEPT !.pc = pc, !.token = found]
           = [pass[p] EXCEPT !.pc = pc, !.token = found, !.listing = pass[p].listing]
    BY <2>2 DEF PassRecord
  <2>6. Fits([pass[p] EXCEPT !.pc = pc, !.token = found, !.listing = pass[p].listing])
    BY <1>1, <1>2, <1>4, <2>2, <2>3, <2>4, CarryingFits DEF Working
  <2>7. Fits([pass[p] EXCEPT !.pc = pc, !.token = found])
    BY <2>5, <2>6
  <2>8. QED
    BY <1>2, <2>1, <2>7, PassOnlyInv DEF Moves, IInv, CountersTyped
<1>5. QED
  BY <1>3, <1>4

\* A refreshed token goes back under the id; only an account whose tokens went
\* under the pass, and so is in rekeyed, gets one that is not its own.
LEMMA RefreshInv ==
    ASSUME IInv, NEW p \in Passes, Refresh(p)
    PROVE  IInv'
<1> PICK id \in Ids, tokens \in {[pass[p].token EXCEPT !.fresh = TRUE]} :
        /\ id = pass[p].id /\ tokens = [pass[p].token EXCEPT !.fresh = TRUE]
        /\ keyring' = [keyring EXCEPT ![id] = tokens]
        /\ Moves(p, [pass[p] EXCEPT !.pc = "call", !.token = tokens])
  BY WorkerFits DEF Refresh, Working
<1>1. /\ pass[p].pc = "refresh" /\ pass[p].pc \in Working /\ AccountsInv
      /\ UNCHANGED <<accounts, enabled, calendars, disabling, removing, removed, relisted, rekeyed,
                     started, expiries>>
  BY DEF Refresh, Working, IInv, Moves
<1>2. /\ pass[p] \in PassRecord /\ pass[p].token \in Tokens /\ pass[p].listing \in BOOLEAN
      /\ id \notin rekeyed => /\ id \in RowIds /\ keyring[id] # NoTokens
                              /\ pass[p].token.of = accounts[id]
  BY <1>1, WorkerFits DEF RefreshFits
<1>3. tokens \in Tokens /\ tokens.of = pass[p].token.of /\ tokens # NoTokens
  BY <1>2, Refreshed, Distinct
<1>4. keyring'[id] = tokens /\ \A x \in Ids \ {id} : keyring'[x] = keyring[x]
  BY <1>1 DEF AccountsInv, AccountsTyped
<1>5. /\ RowIds' = RowIds /\ enabled \subseteq RowIds /\ enabled \subseteq Ids
      /\ \A x \in Ids : OwnedBy(x)' = OwnedBy(x)
  BY <1>1, Distinct DEF RowIds, OwnedBy, AccountsInv, AccountsTyped
<1>6. AccountsTyped'
  BY <1>1, <1>3, <1>5 DEF AccountsInv, AccountsTyped
<1>7. NothingLeftBehind'
  BY <1>1, <1>2, <1>4, <1>5 DEF AccountsInv, NothingLeftBehind
<1>8. OwnData'
  <2>1. \A x \in RowIds \ rekeyed : keyring'[x] = keyring[x] \/ keyring'[x].of = accounts[x]
    BY <1>2, <1>3, <1>4, Distinct
  <2>2. QED
    BY <1>1, <1>5, <2>1, Distinct DEF AccountsInv, OwnData
<1>9. EnabledHasTokens'
  BY <1>1, <1>3, <1>4, <1>5 DEF AccountsInv, EnabledHasTokens
<1>10. RemovalInOrder'
  BY <1>1, <1>2, <1>4, Distinct DEF AccountsInv, AccountsTyped, RemovalInOrder
<1>11. \A x : Halfway(x)' <=> Halfway(x)
  BY <1>1 DEF Halfway
<1>12. HalfwayEmpty'
  BY <1>1, <1>5, <1>11 DEF AccountsInv, HalfwayEmpty
<1>13. PassesFit'
  <2>1. PICK r : r = [pass[p] EXCEPT !.pc = "call", !.token = tokens]
    OBVIOUS
  <2>2. r = [pass[p] EXCEPT !.pc = "call", !.token = tokens, !.listing = pass[p].listing]
    BY <1>2, <2>1 DEF PassRecord
  <2>3. Fits([pass[p] EXCEPT !.pc = "call", !.token = tokens, !.listing = pass[p].listing])
    BY <1>1, <1>2, <1>3, CarryingFits DEF Working
  <2>4. Fits(r) /\ r.pc = "call"
    BY <1>2, <2>1, <2>2, <2>3 DEF PassRecord
  <2>5. \A x \in Ids : keyring[x] # NoTokens => keyring'[x] # NoTokens
    BY <1>3, <1>4
  <2>6. Fits(r)'
    BY <1>1, <1>11, <2>4, StillFits
  <2>7. QED
    BY <1>1, <2>1, <2>5, <2>6, PassMoves DEF IInv, Moves
<1>14. QED
  BY <1>1, <1>6, <1>7, <1>8, <1>9, <1>10, <1>12, <1>13 DEF IInv, AccountsInv, CountersTyped

LEMMA AnsweredInv ==
    ASSUME IInv, NEW p \in Passes, Answered(p)
    PROVE  IInv'
<1>1. /\ pass[p].pc = "call" /\ pass[p].pc \in Working /\ UNCHANGED accountVars
      /\ pass[p] \in PassRecord /\ pass[p].token \in Tokens /\ pass[p].listing \in BOOLEAN
      /\ pass[p].listing /\ pass[p].id \notin relisted \union rekeyed =>
            pass[p].token.of = accounts[pass[p].id]
  BY WorkerFits DEF Answered, Working, ListingFits
<1>2. CASE Done(p)
  BY <1>1, <1>2, DoneInv
<1>3. CASE pass[p].listing /\ Moves(p, [pass[p] EXCEPT !.pc = "store"])
  <2>1. [pass[p] EXCEPT !.pc = "store"]
           = [pass[p] EXCEPT !.pc = "store", !.token = pass[p].token, !.listing = pass[p].listing]
    BY <1>1 DEF PassRecord
  <2>2. Fits([pass[p] EXCEPT !.pc = "store", !.token = pass[p].token, !.listing = pass[p].listing])
    <3>1. "store" \in Working
      BY DEF Working
    <3>2. QED
      BY <1>1, <1>3, <3>1, CarryingFits
  <2>3. Fits([pass[p] EXCEPT !.pc = "store"])
    BY <2>1, <2>2
  <2>4. QED
    BY <1>1, <1>3, <2>3, PassOnlyInv DEF Moves, IInv, CountersTyped
<1>4. CASE Moves(p, [pass[p] EXCEPT !.pc = "token", !.token = NoTokens])
  <2>1. [pass[p] EXCEPT !.pc = "token", !.token = NoTokens]
           = [pass[p] EXCEPT !.pc = "token", !.token = NoTokens, !.listing = pass[p].listing]
    BY <1>1 DEF PassRecord
  <2>2. Fits([pass[p] EXCEPT !.pc = "token", !.token = NoTokens])
    BY <1>1, <2>1, CarryingFits DEF Working
  <2>3. QED
    BY <1>1, <1>4, <2>2, PassOnlyInv DEF Moves, IInv, CountersTyped
<1>5. QED
  BY <1>2, <1>3, <1>4 DEF Answered

\* The list is stored under the id; it is the account's, and the account is
\* enabled, unless that ended meanwhile.
LEMMA StoreCalendarsInv ==
    ASSUME IInv, NEW p \in Passes, StoreCalendars(p)
    PROVE  IInv'
<1> PICK id \in Ids : id = pass[p].id
  BY WorkerFits DEF StoreCalendars, Working
<1>1. /\ pass[p].pc = "store" /\ pass[p].pc \in Working /\ AccountsInv
      /\ UNCHANGED <<accounts, enabled, keyring, disabling, removing, removed, relisted, rekeyed>>
      /\ pass[p] \in PassRecord /\ pass[p].token \in Tokens
      /\ id \notin relisted => id \in enabled /\ ~Halfway(id)
      /\ id \notin relisted \union rekeyed => pass[p].token.of = accounts[id]
  BY WorkerFits DEF StoreCalendars, Working, IInv, ListingFits
<1>2. CASE id \notin RowIds
  BY <1>1, <1>2, DoneInv DEF StoreCalendars, accountVars
<1>3. CASE id \in RowIds
  <2>1. /\ Moves(p, [pass[p] EXCEPT !.pc = "token", !.listing = FALSE, !.token = NoTokens])
        /\ calendars' = calendars \union {[id |-> id, of |-> pass[p].token.of]}
    BY <1>3 DEF StoreCalendars
  <2>2. Fits([pass[p] EXCEPT !.pc = "token", !.listing = FALSE, !.token = NoTokens])
    <3>1. [pass[p] EXCEPT !.pc = "token", !.listing = FALSE, !.token = NoTokens]
            = [pass[p] EXCEPT !.pc = "token", !.token = NoTokens, !.listing = FALSE]
      BY <1>1 DEF PassRecord
    <3>2. QED
      BY <1>1, <3>1, CarryingFits DEF Working
  <2>3. PassesFit' /\ UNCHANGED <<started, expiries>>
    BY <1>1, <2>1, <2>2, PassMovesOnly DEF IInv, Moves
  <2>4. RowIds' = RowIds /\ enabled \subseteq Ids
    BY <1>1, Distinct DEF RowIds, AccountsInv, AccountsTyped
  <2>5. \A x \in Ids : \A c \in OwnedBy(x)' :
           c \in OwnedBy(x) \/ (x = id /\ c.of = pass[p].token.of)
    BY <2>1 DEF OwnedBy
  <2>6. AccountsTyped'
    BY <1>1, <1>3, <2>1, <2>4, Distinct DEF AccountsInv, AccountsTyped
  <2>7. NothingLeftBehind' /\ OwnData'
    BY <1>1, <2>4, <2>5, Distinct DEF AccountsInv, NothingLeftBehind, OwnData
  <2>8. EnabledHasTokens' /\ RemovalInOrder'
    BY <1>1 DEF AccountsInv, EnabledHasTokens, RemovalInOrder
  <2>9. \A x : Halfway(x)' <=> Halfway(x)
    BY <1>1 DEF Halfway
  <2>10. HalfwayEmpty'
    BY <1>1, <2>5, <2>9 DEF AccountsInv, HalfwayEmpty
  <2>11. QED
    BY <2>3, <2>6, <2>7, <2>8, <2>10 DEF IInv, AccountsInv, CountersTyped
<1>4. QED
  BY <1>2, <1>3

-----------------------------------------------------------------------------
LEMMA InitInv == Init => IInv
<1> SUFFICES ASSUME Init PROVE IInv
  OBVIOUS
<1>1. RowIds = {} /\ 0 \notin Ids
  BY Distinct DEF Init, RowIds
<1>2. AccountsTyped
  BY <1>1 DEF Init, AccountsTyped
<1>3. /\ NothingLeftBehind /\ OwnData /\ EnabledHasTokens /\ RemovalInOrder
      /\ HalfwayEmpty
  BY <1>1 DEF Init, NothingLeftBehind, OwnData, OwnedBy, EnabledHasTokens, RemovalInOrder, HalfwayEmpty
<1>4. Idle \in PassRecord /\ Idle.pc = "idle"
  BY DEF Idle, PassRecord
<1>5. PassesFit
  BY <1>4, RestFits DEF Init, PassesFit
<1>6. CountersTyped
  BY AccountsAssumption DEF Init, CountersTyped
<1>7. QED
  BY <1>2, <1>3, <1>5, <1>6 DEF IInv, AccountsInv

LEMMA NextInv == IInv /\ [Next]_vars => IInv'
<1> SUFFICES ASSUME IInv, [Next]_vars PROVE IInv'
  OBVIOUS
<1>1. ASSUME NEW email \in Emails, Add(email) PROVE IInv'
  BY <1>1, AddInv
<1>2. ASSUME NEW id \in Ids, Enable(id) PROVE IInv'
  BY <1>2, EnableInv
<1>3. ASSUME NEW id \in Ids, Disable(id) \/ FlipToggle(id) \/ DisableFails(id) PROVE IInv'
  BY <1>3, DisableInv, FlipToggleInv, DisableFailsInv
<1>4. ASSUME NEW id \in Ids, StartRemoval(id) PROVE IInv'
  BY <1>4, RemovalTurnsInv DEF StartRemoval
<1>5. ASSUME NEW id \in Ids, Expire(id) PROVE IInv'
  BY <1>5, ExpireInv
<1>6. CASE RemovalStep
  BY <1>6, RemoveDataInv, RemoveServicesInv, RemoveTokensInv, RemoveRowInv, RemovalTurnsInv
     DEF RemovalStep, RemovalFails
<1>7. ASSUME NEW p \in Passes, PassStep(p) PROVE IInv'
  BY <1>7, StartPassInv, NextAccountInv, EndPassInv, LoadTokensInv, RefreshInv, AnsweredInv,
     StoreCalendarsInv, DoneInv DEF PassStep, Fails
<1>8. CASE UNCHANGED vars
  BY <1>8, AllKept DEF vars
<1>9. QED
  BY <1>1, <1>2, <1>3, <1>4, <1>5, <1>6, <1>7, <1>8 DEF Next

THEOREM Invariance == Spec => []IInv
  BY InitInv, NextInv, PTL DEF Spec

\* Every variable keeps its type; toggles and calendars belong to accounts that exist.
THEOREM TypeCorrect == Spec => []TypeOK
<1>1. IInv => TypeOK
  BY TypeFollows DEF IInv
<1>2. QED
  BY <1>1, Invariance, PTL

\* Whatever step of a removal or of disable_service fails, and however often it
\* is called again, an account or a service that is gone leaves nothing but what
\* a refresh or a resync under way at that moment brings back.
THEOREM RemovalIsClean == Spec => []NothingLeftBehind
<1>1. IInv => NothingLeftBehind
  BY DEF IInv, AccountsInv
<1>2. QED
  BY <1>1, Invariance, PTL

\* Although ids are used again, tokens and calendars are the account's own.
THEOREM DataIsOwn == Spec => []OwnData
<1>1. IInv => OwnData
  BY DEF IInv, AccountsInv
<1>2. QED
  BY <1>1, Invariance, PTL

\* An account that a pass will visit has tokens.
THEOREM EnabledCanBeVisited == Spec => []EnabledHasTokens
<1>1. IInv => EnabledHasTokens
  BY DEF IInv, AccountsInv
<1>2. QED
  BY <1>1, Invariance, PTL
=============================================================================
