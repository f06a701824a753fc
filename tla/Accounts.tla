------------------------------ MODULE Accounts ------------------------------
(***************************************************************************)
(* Accounts, their tokens and the passes that use both: AccountManager     *)
(* (core/src/account.rs), the keyring, the token provider each pass makes  *)
(* for itself, and the two background passes over all accounts             *)
(* (sync_all_accounts, clear_cache_and_resync_all).  The accounts screen   *)
(* is not part of the application yet: its calls follow what the comments  *)
(* of AccountManager ask of a caller, and those steps are marked external. *)
(*                                                                         *)
(* What a pass reads of events is CalendarSync's; here a pass is its       *)
(* tokens and the calendar list it stores.  A token, and a calendar row,   *)
(* carry the identity they really belong to.                               *)
(***************************************************************************)
EXTENDS Naturals, FiniteSets

CONSTANTS
    Emails,       \* the identities a user can sign in with
    Passes,       \* background passes that may be under way at once
    MaxId,        \* bound: the largest row id the accounts table hands out
    MaxPasses,    \* bound: passes started
    MaxExpiries   \* bound: times an access token runs out

ASSUME AccountsAssumption ==
    /\ MaxId \in Nat \ {0} /\ MaxPasses \in Nat /\ MaxExpiries \in Nat
    /\ "none" \notin Emails

VARIABLES
    accounts,   \* the accounts table: id |-> email, or NoAccount
    enabled,    \* ids with an enabled Calendar row in account_services
    calendars,  \* calendar rows: whose list was stored under which id
    keyring,    \* id |-> tokens, or NoTokens
    disabling,  \* ids whose calendars disable_service dropped, the toggle still on
    removing,   \* the id remove_account works on, or 0
    removed,    \* the steps of remove_account behind it
    pass,       \* what each pass is doing
    started,    \* passes started (for the bound)
    expiries,   \* access tokens run out (for the bound)
    relisted,   \* history: ids whose data went while a resync fetched their list
    rekeyed     \* history: ids whose tokens went while a pass refreshed them

accountVars == <<accounts, enabled, calendars, keyring, disabling, removing, removed,
                 relisted, rekeyed>>
vars == <<accountVars, pass, started, expiries>>

Ids == 1..MaxId
NoAccount == "none"
NoTokens == [of |-> "none", fresh |-> FALSE]
Tokens == [of : Emails, fresh : BOOLEAN]
RowIds == {id \in Ids : accounts[id] # NoAccount}

\* A pass walks the accounts it listed when it began.
Idle == [pc |-> "idle", resync |-> FALSE, todo |-> {},
         id |-> 0, listing |-> FALSE, token |-> NoTokens]
Listing(p, id) ==
    /\ pass[p].pc \in {"token", "refresh", "call", "store"} /\ pass[p].listing
    /\ pass[p].id = id
Refreshing(p, id) == pass[p].pc = "refresh" /\ pass[p].id = id

\* disable_service is between its two sections, from the screen or in a removal.
Halfway(id) == id \in disabling \/ (removing = id /\ removed = {"data"})

Init ==
    /\ accounts = [id \in Ids |-> NoAccount] /\ enabled = {} /\ calendars = {}
    /\ keyring = [id \in Ids |-> NoTokens]
    /\ disabling = {} /\ removing = 0 /\ removed = {}
    /\ pass = [p \in Passes |-> Idle]
    /\ started = 0 /\ expiries = 0 /\ relisted = {} /\ rekeyed = {}

-----------------------------------------------------------------------------
\* Adding, enabling, disabling.

\* INTEGER PRIMARY KEY without AUTOINCREMENT: one more than the largest in use.
NextId == 1 + Cardinality({id \in Ids : \E other \in RowIds : id <= other})

\* A sign-in has ended with tokens (SignIn).  add_account refuses an email it
\* has (UNIQUE); then the caller stores the tokens under the new id and
\* enables the service (external).
Add(email) ==
    /\ IF \E id \in RowIds : accounts[id] = email
       THEN UNCHANGED <<accounts, keyring, enabled>>
       ELSE /\ NextId \in Ids
            /\ accounts' = [accounts EXCEPT ![NextId] = email]
            /\ keyring' = [keyring EXCEPT ![NextId] = [of |-> email, fresh |-> TRUE]]
            /\ enabled' = enabled \union {NextId}
    /\ UNCHANGED <<calendars, disabling, removing, removed, relisted, rekeyed,
                   pass, started, expiries>>

\* Turning a service on needs the account's grant, so it has tokens (external).
Enable(id) ==
    /\ id \in RowIds \ enabled /\ removing # id /\ keyring[id] # NoTokens
    /\ enabled' = enabled \union {id}
    /\ UNCHANGED <<accounts, calendars, keyring, disabling, removing, removed,
                   relisted, rekeyed, pass, started, expiries>>

OwnedBy(id) == {c \in calendars : c.id = id}

\* on_disabled.  A resync may be on its way with the list it fetched.
Dropped(id) ==
    /\ calendars' = calendars \ OwnedBy(id)
    /\ relisted' = IF \E p \in Passes : Listing(p, id) THEN relisted \union {id} ELSE relisted

\* disable_service: on_disabled drops the calendars under one lock, the row is
\* flipped under another, and the second may fail.  The caller lets one call
\* for an account end before it makes the next (external).
\* Mutant: the service is not told.
Disable_Untold(id) ==
    /\ id \in enabled \ disabling /\ removing # id
    /\ disabling' = disabling \union {id}
    /\ UNCHANGED <<accounts, enabled, calendars, keyring, removing, removed,
                   relisted, rekeyed, pass, started, expiries>>
Disable(id) ==
    /\ id \in enabled \ disabling /\ removing # id
    /\ Dropped(id)
    /\ disabling' = disabling \union {id}
    /\ UNCHANGED <<accounts, enabled, keyring, removing, removed, rekeyed,
                   pass, started, expiries>>

FlipToggle(id) ==
    /\ id \in disabling
    /\ enabled' = enabled \ {id} /\ disabling' = disabling \ {id}
    /\ UNCHANGED <<accounts, calendars, keyring, removing, removed, relisted, rekeyed,
                   pass, started, expiries>>

DisableFails(id) ==
    /\ id \in disabling
    /\ disabling' = disabling \ {id}
    /\ UNCHANGED <<accounts, enabled, calendars, keyring, removing, removed,
                   relisted, rekeyed, pass, started, expiries>>

-----------------------------------------------------------------------------
\* remove_account: disable_service for what is enabled, the tokens, the row.
\* Each step can fail; the caller may call again, also for an account left
\* half removed.

StartRemoval(id) ==
    /\ removing = 0 /\ id \in RowIds \ disabling
    /\ removing' = id /\ removed' = {}
    /\ UNCHANGED <<accounts, enabled, calendars, keyring, disabling, relisted, rekeyed,
                   pass, started, expiries>>

Removing == removing # 0

\* Mutant: the data goes and the toggle stays until the row goes.
RemoveData_Only ==
    /\ Removing /\ removed = {}
    /\ Dropped(removing) /\ removed' = {"data", "services"}
    /\ UNCHANGED <<accounts, enabled, keyring, disabling, removing, rekeyed,
                   pass, started, expiries>>
RemoveData ==
    /\ Removing /\ removed = {}
    /\ IF removing \in enabled
       THEN Dropped(removing) /\ removed' = {"data"}
       ELSE removed' = {"data", "services"} /\ UNCHANGED <<calendars, relisted>>
    /\ UNCHANGED <<accounts, enabled, keyring, disabling, removing, rekeyed,
                   pass, started, expiries>>

RemoveServices ==
    /\ Removing /\ removed = {"data"}
    /\ enabled' = enabled \ {removing}
    /\ removed' = {"data", "services"}
    /\ UNCHANGED <<accounts, calendars, keyring, disabling, removing, relisted, rekeyed,
                   pass, started, expiries>>

RemoveTokens ==
    /\ Removing /\ removed = {"data", "services"}
    /\ keyring' = [keyring EXCEPT ![removing] = NoTokens]
    /\ rekeyed' = IF \E p \in Passes : Refreshing(p, removing)
                  THEN rekeyed \union {removing} ELSE rekeyed
    /\ removed' = {"data", "services", "tokens"}
    /\ UNCHANGED <<accounts, enabled, calendars, disabling, removing, relisted,
                   pass, started, expiries>>

\* Mutant: no foreign keys (PRAGMA foreign_keys is off).
RemoveRow_NoCascade ==
    /\ Removing /\ "tokens" \in removed
    /\ accounts' = [accounts EXCEPT ![removing] = NoAccount]
    /\ removing' = 0 /\ removed' = {}
    /\ UNCHANGED <<enabled, calendars, keyring, disabling, relisted, rekeyed,
                   pass, started, expiries>>

\* The foreign keys take the account's services and calendars along.
RemoveRow ==
    /\ Removing /\ "tokens" \in removed
    /\ accounts' = [accounts EXCEPT ![removing] = NoAccount]
    /\ enabled' = enabled \ {removing}
    /\ calendars' = calendars \ OwnedBy(removing)
    /\ removing' = 0 /\ removed' = {}
    /\ UNCHANGED <<keyring, disabling, relisted, rekeyed, pass, started, expiries>>

\* The next step returns an error: the keyring is locked, the disk is full.
RemovalFails ==
    /\ Removing
    /\ removing' = 0 /\ removed' = {}
    /\ UNCHANGED <<accounts, enabled, calendars, keyring, disabling, relisted, rekeyed,
                   pass, started, expiries>>

-----------------------------------------------------------------------------
\* The passes.  Each asks its own provider for a token before a request.

Moves(p, r) ==
    /\ pass' = [pass EXCEPT ![p] = r]
    /\ UNCHANGED <<started, expiries>>

StartPass(p) ==
    /\ pass[p] = Idle /\ started < MaxPasses
    /\ \E resync \in BOOLEAN :
          pass' = [pass EXCEPT ![p] =
                     [Idle EXCEPT !.pc = "next", !.resync = resync, !.todo = RowIds]]
    /\ started' = started + 1
    /\ UNCHANGED <<accountVars, expiries>>

\* The account whose turn it is; a resync first clears the calendars.
NextAccount(p) ==
    /\ pass[p].pc = "next" /\ pass[p].todo # {}
    /\ LET id == CHOOSE i \in pass[p].todo : \A j \in pass[p].todo : i <= j
           rest == [pass[p] EXCEPT !.todo = @ \ {id}]
       IN IF id \in enabled
          THEN /\ Moves(p, [rest EXCEPT !.pc = "token", !.id = id, !.listing = pass[p].resync])
               /\ calendars' = IF pass[p].resync THEN calendars \ OwnedBy(id) ELSE calendars
               /\ relisted' = IF pass[p].resync /\ Halfway(id) THEN relisted \union {id}
                              ELSE relisted
          ELSE /\ Moves(p, rest)
               /\ UNCHANGED <<calendars, relisted>>
    /\ UNCHANGED <<accounts, enabled, keyring, disabling, removing, removed, rekeyed>>

EndPass(p) ==
    /\ pass[p].pc = "next" /\ pass[p].todo = {}
    /\ Moves(p, Idle)
    /\ UNCHANGED accountVars

\* An account's work is over, well or not: the pass goes on to the next one.
Done(p) ==
    Moves(p, [pass[p] EXCEPT !.pc = "next", !.id = 0, !.listing = FALSE, !.token = NoTokens])

\* load_tokens; with time left the token is used, else it is refreshed.
LoadTokens(p) ==
    /\ pass[p].pc = "token"
    /\ LET found == keyring[pass[p].id]
       IN IF found = NoTokens THEN Done(p)
          ELSE Moves(p, [pass[p] EXCEPT !.pc = IF found.fresh THEN "call" ELSE "refresh",
                                        !.token = found])
    /\ UNCHANGED accountVars

\* The refreshed tokens go back under the id, whatever became of the account.
\* Mutant: the keyring item is not told apart by account.
Refresh_OneItem(p) ==
    /\ pass[p].pc = "refresh"
    /\ LET tokens == [pass[p].token EXCEPT !.fresh = TRUE]
       IN /\ keyring' = [id \in Ids |-> IF keyring[id] = NoTokens THEN NoTokens ELSE tokens]
          /\ Moves(p, [pass[p] EXCEPT !.pc = "call", !.token = tokens])
    /\ UNCHANGED <<accounts, enabled, calendars, disabling, removing, removed, relisted, rekeyed>>
Refresh(p) ==
    /\ pass[p].pc = "refresh"
    /\ LET tokens == [pass[p].token EXCEPT !.fresh = TRUE]
       IN /\ keyring' = [keyring EXCEPT ![pass[p].id] = tokens]
          /\ Moves(p, [pass[p] EXCEPT !.pc = "call", !.token = tokens])
    /\ UNCHANGED <<accounts, enabled, calendars, disabling, removing, removed, relisted, rekeyed>>

\* The request is answered: the calendar list of a resync, or a page of a
\* sync, which asks for the next one or is done.
Answered(p) ==
    /\ pass[p].pc = "call"
    /\ IF pass[p].listing
       THEN Moves(p, [pass[p] EXCEPT !.pc = "store"])
       ELSE Done(p) \/ Moves(p, [pass[p] EXCEPT !.pc = "token", !.token = NoTokens])
    /\ UNCHANGED accountVars

\* on_enabled stores the list it was sent, then the sync begins; the foreign
\* key wants the account.
StoreCalendars(p) ==
    /\ pass[p].pc = "store"
    /\ IF pass[p].id \in RowIds
       THEN Moves(p, [pass[p] EXCEPT !.pc = "token", !.listing = FALSE, !.token = NoTokens])
       ELSE Done(p)
    /\ calendars' = IF pass[p].id \in RowIds
                    THEN calendars \union {[id |-> pass[p].id, of |-> pass[p].token.of]}
                    ELSE calendars
    /\ UNCHANGED <<accounts, enabled, keyring, disabling, removing, removed, relisted, rekeyed>>

\* The keyring, the token endpoint, the API or the database says no.
Fails(p) ==
    /\ pass[p].pc \in {"token", "refresh", "call", "store"}
    /\ Done(p)
    /\ UNCHANGED accountVars

Expire(id) ==
    /\ keyring[id].fresh /\ expiries < MaxExpiries
    /\ keyring' = [keyring EXCEPT ![id].fresh = FALSE]
    /\ expiries' = expiries + 1
    /\ UNCHANGED <<accounts, enabled, calendars, disabling, removing, removed,
                   relisted, rekeyed, pass, started>>

-----------------------------------------------------------------------------
RemovalStep == RemoveData \/ RemoveServices \/ RemoveTokens \/ RemoveRow \/ RemovalFails

PassStep(p) ==
    \/ StartPass(p) \/ NextAccount(p) \/ EndPass(p) \/ LoadTokens(p)
    \/ Refresh(p) \/ Answered(p) \/ StoreCalendars(p) \/ Fails(p)

Next ==
    \/ \E email \in Emails : Add(email)
    \/ \E id \in Ids : Enable(id) \/ StartRemoval(id) \/ Expire(id)
    \/ \E id \in Ids : Disable(id) \/ FlipToggle(id) \/ DisableFails(id)
    \/ RemovalStep
    \/ \E p \in Passes : PassStep(p)

Spec == Init /\ [][Next]_vars

-----------------------------------------------------------------------------
TypeOK ==
    /\ accounts \in [Ids -> Emails \union {NoAccount}]
    /\ enabled \subseteq RowIds
    /\ calendars \subseteq [id : RowIds, of : Emails]
    /\ keyring \in [Ids -> Tokens \union {NoTokens}]
    /\ disabling \subseteq enabled
    /\ removing \in RowIds \union {0}
    /\ removed \in SUBSET {"data", "services", "tokens"}
    /\ pass \in [Passes ->
                   [pc : {"idle", "next", "token", "refresh", "call", "store"}, resync : BOOLEAN,
                    todo : SUBSET Ids, id : Ids \union {0}, listing : BOOLEAN, token : Tokens \union {NoTokens}]]
    /\ relisted \subseteq Ids /\ rekeyed \subseteq Ids
    /\ started \in 0..MaxPasses /\ expiries \in 0..MaxExpiries

\* An account that is gone leaves no tokens behind, and a disabled service no
\* calendars ("every enabled service is told to delete its local data, the
\* keyring entry is dropped", account.rs:143), whatever step failed and however
\* often it was called again.  The code keeps this with two exceptions only:
\* a refresh that was under way when the tokens went stores them back
\* (token_provider.rs:51), and a resync that had begun, or begins before the
\* toggle is flipped, stores the list it fetched (lib.rs:262-267).  Any other
\* pass that uses the account meanwhile brings nothing back.
NothingLeftBehind ==
    /\ \A id \in Ids \ (RowIds \union rekeyed) : keyring[id] = NoTokens
    /\ \A id \in Ids \ (enabled \union relisted) : OwnedBy(id) = {}

\* Row ids are used again.  An account has its own tokens and its own
\* calendars, never those of the account that had the id before, although the
\* passes go on with the ids and tokens they read; the same two are excepted.
OwnData ==
    \A id \in RowIds \ rekeyed :
        /\ keyring[id] = NoTokens \/ keyring[id].of = accounts[id]
        /\ id \notin relisted => \A c \in OwnedBy(id) : c.of = accounts[id]

\* An account a pass will visit can be visited: tokens go only after the
\* services do, so a removal that stops half-way leaves an account that is
\* skipped, and none whose every pass fails.
EnabledHasTokens == \A id \in enabled : keyring[id] # NoTokens

=============================================================================
