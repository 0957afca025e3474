---------------------------- MODULE WireguardKeys ----------------------------
(***************************************************************************)
(* WireGuard keys and the list of recent accounts: KeyManager              *)
(* (src/mullvad-daemon/src/wireguard.rs), AccountHistory                   *)
(* (account_history.rs) and the handlers of the daemon's event loop that   *)
(* use them (lib.rs).                                                      *)
(*                                                                         *)
(* The daemon's thread handles requests and key events one at a time. A    *)
(* key is generated either by a job on the API client's thread, which      *)
(* uploads it, retries as long as it takes and sends a key event to the    *)
(* daemon, or while the daemon's thread waits. Clients may ask for         *)
(* anything at any time, so requests need no queue; key events do.         *)
(***************************************************************************)
EXTENDS Naturals, Sequences, FiniteSets

CONSTANTS
    Accounts,       \* account tokens
    NoAccount,      \* no account token
    EmptyAccount,   \* the account token ""
    HistoryLimit,   \* ACCOUNT_HISTORY_LIMIT
    MaxKeys,        \* bound: keys that may be generated
    MaxFaultyKeys,  \* the same where anything may go wrong
    Requests,       \* what clients ask for, a subset of AllRequests
    FaultSets       \* what may go wrong in one behaviour, each a subset of AllKeyFaults

AllRequests == {"SetAccount", "GenerateWireguardKey", "RemoveAccountFromHistory",
                "FactoryReset", "LookUp", "Restart"}

\* settings, history: a file cannot be written.  api: the API refuses a key, or
\* a job fails for good.  spawn: a job cannot be started.
AllKeyFaults == {"settings", "history", "api", "spawn"}

ASSUME KeysAssumption ==
    /\ {NoAccount, EmptyAccount} \cap Accounts = {}
    /\ NoAccount # EmptyAccount
    /\ HistoryLimit \in Nat \ {0}
    /\ MaxKeys \in Nat /\ MaxFaultyKeys \in 0 .. MaxKeys
    /\ Requests \subseteq AllRequests
    /\ FaultSets \subseteq SUBSET AllKeyFaults

\* A key is known by when it was generated.
Keys   == 1 .. MaxKeys
NoKey  == 0

\* What is read from a file that was not written to its end.
Torn == <<>>

VARIABLES
    account,        \* the account token in the settings
    savedAccount,   \* the one in the settings file
    history,        \* AccountHistory: accounts, what its file reads as, a write left over
    running,        \* the daemon is not shutting down
    generated,      \* how many keys were generated
    owner,          \* the account each key was generated for
    job,            \* how far the job of each key is
    currentJob,     \* current_job
    cancelled,      \* jobs whose CancelHandle was used
    keyEvents,      \* the WgKeyEvents waiting
    forgotten,      \* history: a factory reset, and no account set since
    faults          \* what may go wrong, chosen at the start

keyVars == <<account, savedAccount, history, running, generated, owner, job,
             currentJob, cancelled, keyEvents, forgotten, faults>>

-----------------------------------------------------------------------------
(* AccountHistory. Its operations return what they may lead to: whether they *)
(* succeed, the entry found and the history afterwards.                      *)

AccountEntry(a, k) == [account |-> a, wireguard |-> k]
NoEntry == AccountEntry(NoAccount, NoKey)

AccountHistory(list, file, left) == [accounts |-> list, file |-> file, leftover |-> left]

Result(ok, entry, h) == [ok |-> ok, entry |-> entry, history |-> h]

\* The file is cut before it is written, so a failure may leave half of it. What
\* a failed write leaves in the BufWriter is flushed into the next one.
Saved(list, entry, file)         == Result(TRUE, entry, AccountHistory(list, file, FALSE))
NotSaved(list, entry, file, left) == Result(FALSE, entry, AccountHistory(list, file, left))

SaveToDisk(list, h, entry) ==
    {Saved(list, entry, file) : file \in {list} \cup (IF h.leftover THEN {Torn} ELSE {})}
    \cup (IF "history" \in faults
          THEN {NotSaved(list, entry, file, left) : file \in {h.file, Torn}, left \in BOOLEAN}
          ELSE {})

Places(list, a) == {i \in 1 .. Len(list) : list[i].account = a}

\* retain: no account is listed twice, so there is at most one entry to drop.
Without(list, a) ==
    IF Places(list, a) = {} THEN list
    ELSE LET place == CHOOSE i \in Places(list, a) : TRUE
         IN  [i \in 1 .. Len(list) - 1 |-> IF i < place THEN list[i] ELSE list[i + 1]]

\* The new entry first, and the oldest dropped if the list is full.
Inserted(list, entry) ==
    LET rest == Without(list, entry.account)
    IN  [i \in 1 .. (IF Len(rest) < HistoryLimit THEN Len(rest) + 1 ELSE Len(rest)) |->
            IF i = 1 THEN entry ELSE rest[i - 1]]

Insert(h, entry) == SaveToDisk(Inserted(h.accounts, entry), h, entry)

Listed(h, a) == Places(h.accounts, a) # {}

Entry(h, a) == h.accounts[CHOOSE i \in Places(h.accounts, a) : TRUE]

\* Looking an account up bumps it to the top, which may fail to be saved.
Get(h, a) ==
    CASE ~Listed(h, a) -> {Result(TRUE, NoEntry, h)}
      [] Listed(h, a) /\ h.accounts[1].account = a -> {Result(TRUE, Entry(h, a), h)}
      [] OTHER -> Insert(h, Entry(h, a))

BumpHistory(h, a) ==
    UNION {IF got.ok /\ got.entry = NoEntry
           THEN Insert(got.history, AccountEntry(a, NoKey)) ELSE {got} :
              got \in Get(h, a)}

-----------------------------------------------------------------------------
(* KeyManager *)

\* A job that is cancelled does not send its key, unless it already has it.
Reset ==
    cancelled' = IF currentJob = NoKey THEN cancelled ELSE cancelled \cup {currentJob}

NewKey(a) ==
    /\ generated < IF faults = {} THEN MaxKeys ELSE MaxFaultyKeys
    /\ generated' = generated + 1
    /\ owner' = [owner EXCEPT ![generated + 1] = a]

\* Mutant: the job that is under way is left alone.
GenerateKeyAsyncBesides(a) ==
    /\ NewKey(a)
    /\ job' = [job EXCEPT ![generated + 1] = "Uploading"]
    /\ currentJob' = generated + 1
    /\ UNCHANGED cancelled

GenerateKeyAsync(a) ==
    /\ Reset
    /\ NewKey(a)
    /\ \/ /\ job' = [job EXCEPT ![generated + 1] = "Uploading"]
          /\ currentJob' = generated + 1
       \/ /\ "spawn" \in faults
          /\ currentJob' = NoKey
          /\ UNCHANGED job

Answers == {"Generated"} \cup (IF "api" \in faults THEN {"TooManyKeys", "Failed"} ELSE {})

\* The job's thread sees that the key is uploaded, or that it never will be.
\* Any other answer is retried.
UploadAnswered(k) ==
    /\ job[k] = "Uploading"
    /\ k \notin cancelled
    /\ \E answer \in Answers : job' = [job EXCEPT ![k] = answer]
    /\ UNCHANGED <<account, savedAccount, history, running, generated, owner,
                   currentJob, cancelled, keyEvents, forgotten, faults>>

\* Then it sends the event: cancelling comes too late.
SendKeyEvent(k) ==
    /\ job[k] \in {"Generated", "TooManyKeys", "Failed"}
    /\ keyEvents' = Append(keyEvents, [account |-> owner[k], key |-> k, result |-> job[k]])
    /\ job' = [job EXCEPT ![k] = "Over"]
    /\ UNCHANGED <<account, savedAccount, history, running, generated, owner,
                   currentJob, cancelled, forgotten, faults>>

JobCancelled(k) ==
    /\ job[k] = "Uploading"
    /\ k \in cancelled
    /\ job' = [job EXCEPT ![k] = "Over"]
    /\ UNCHANGED <<account, savedAccount, history, running, generated, owner,
                   currentJob, cancelled, keyEvents, forgotten, faults>>

-----------------------------------------------------------------------------
(* The daemon's handlers *)

\* ensure_wireguard_keys_for_current_account, for account a and after the lookup.
EnsureWireguardKeys(a, got) ==
    IF a # NoAccount /\ (~got.ok \/ got.entry.wireguard = NoKey)
    THEN GenerateKeyAsync(a)
    ELSE UNCHANGED <<generated, owner, job, currentJob, cancelled>>

LookedUp(h, a) == IF a = NoAccount THEN {Result(TRUE, NoEntry, h)} ELSE Get(h, a)

\* on_set_account: the account stored and the token given differ for "".
OnSetAccount(token) ==
    LET new == IF token = EmptyAccount THEN NoAccount ELSE token IN
    /\ "SetAccount" \in Requests
    /\ running
    /\ new # account
    /\ account' = new
    /\ forgotten' = (forgotten /\ token = NoAccount)
    /\ UNCHANGED <<running, keyEvents, faults>>
    /\ \/ /\ savedAccount' = new
          /\ \E got \in LookedUp(history, new) :
                /\ EnsureWireguardKeys(new, got)
                /\ IF token = NoAccount THEN history' = got.history
                   ELSE \E bumped \in BumpHistory(got.history, token) :
                           history' = bumped.history
       \/ /\ "settings" \in faults
          /\ UNCHANGED <<savedAccount, history, generated, owner, job, currentJob, cancelled>>

\* on_generate_wireguard_key: the daemon's thread waits for the only attempt.
OnGenerateWireguardKey ==
    /\ "GenerateWireguardKey" \in Requests
    /\ running
    /\ account # NoAccount
    /\ \E got \in Get(history, account) :
          IF got.ok
          THEN /\ Reset
               /\ currentJob' = NoKey
               /\ NewKey(account)
               /\ \E answer \in Answers :
                     IF answer = "Generated"
                     THEN \E put \in Insert(got.history, AccountEntry(account, generated + 1)) :
                             history' = put.history
                     ELSE history' = got.history
          ELSE /\ history' = got.history
               /\ UNCHANGED <<generated, owner, currentJob, cancelled>>
    /\ UNCHANGED <<account, savedAccount, running, job, keyEvents, forgotten, faults>>

\* Mutant: the event's key goes to the account that is now current.
HandleKeyEventUnchecked ==
    /\ keyEvents # <<>>
    /\ keyEvents' = Tail(keyEvents)
    /\ LET event == Head(keyEvents) IN
       IF account # NoAccount /\ event.result = "Generated"
       THEN \E put \in Insert(history, AccountEntry(account, event.key)) :
               history' = put.history
       ELSE UNCHANGED history
    /\ UNCHANGED <<account, savedAccount, running, generated, owner, job, currentJob,
                   cancelled, forgotten, faults>>

\* Mutant: an event is dropped only if there is another account.
HandleKeyEventWithoutAccount ==
    /\ keyEvents # <<>>
    /\ keyEvents' = Tail(keyEvents)
    /\ LET event == Head(keyEvents) IN
       IF account \in {event.account, NoAccount} /\ event.result = "Generated"
       THEN \E put \in Insert(history, AccountEntry(event.account, event.key)) :
               history' = put.history
       ELSE UNCHANGED history
    /\ UNCHANGED <<account, savedAccount, running, generated, owner, job, currentJob,
                   cancelled, forgotten, faults>>

\* Mutant: events are dropped.
HandleKeyEventNever ==
    /\ keyEvents # <<>>
    /\ keyEvents' = Tail(keyEvents)
    /\ UNCHANGED <<account, savedAccount, history, running, generated, owner, job,
                   currentJob, cancelled, forgotten, faults>>

\* handle_wireguard_key_event, also while the daemon shuts down.
HandleWireguardKeyEvent ==
    /\ keyEvents # <<>>
    /\ keyEvents' = Tail(keyEvents)
    /\ LET event == Head(keyEvents) IN
       IF account = event.account /\ event.result = "Generated"
       THEN \E got \in Get(history, event.account) :
               \E put \in Insert(got.history, AccountEntry(event.account, event.key)) :
                  history' = put.history
       ELSE UNCHANGED history
    /\ UNCHANGED <<account, savedAccount, running, generated, owner, job, currentJob,
                   cancelled, forgotten, faults>>

OnRemoveAccountFromHistory(a) ==
    /\ "RemoveAccountFromHistory" \in Requests
    /\ running
    /\ \E put \in SaveToDisk(Without(history.accounts, a), history, NoEntry) :
          history' = put.history
    /\ UNCHANGED <<account, savedAccount, running, generated, owner, job, currentJob,
                   cancelled, keyEvents, forgotten, faults>>

\* on_get_wireguard_key, on_verify_wireguard_key and the parameters of a tunnel.
LookUp ==
    /\ "LookUp" \in Requests
    /\ running
    /\ account # NoAccount
    /\ \E got \in Get(history, account) : history' = got.history
    /\ UNCHANGED <<account, savedAccount, running, generated, owner, job, currentJob,
                   cancelled, keyEvents, forgotten, faults>>

\* on_factory_reset. A settings file that cannot be written is removed.
OnFactoryReset ==
    /\ "FactoryReset" \in Requests
    /\ running
    /\ account' = NoAccount
    /\ savedAccount' \in {NoAccount} \cup
          (IF "settings" \in faults THEN {savedAccount} ELSE {})
    /\ \E put \in SaveToDisk(<<>>, history, NoEntry) : history' = put.history
    /\ running' = FALSE
    /\ forgotten' = TRUE
    /\ UNCHANGED <<generated, owner, job, currentJob, cancelled, keyEvents, faults>>

-----------------------------------------------------------------------------
(* Processes *)

\* The process ends, in the middle of anything, and a new one starts: it reads
\* the files and makes sure of the key.
Restart ==
    /\ "Restart" \in Requests
    /\ account' = savedAccount
    /\ running' = TRUE
    /\ keyEvents' = <<>>
    /\ LET new == AccountHistory(history.file, history.file, FALSE)
       IN  \E got \in LookedUp(new, savedAccount) :
              /\ history' = got.history
              /\ IF savedAccount # NoAccount /\ (~got.ok \/ got.entry.wireguard = NoKey)
                 THEN /\ NewKey(savedAccount)
                      /\ \E started \in {TRUE} \cup (IF "spawn" \in faults THEN {FALSE} ELSE {}) :
                            /\ job' = [k \in Keys |-> IF started /\ k = generated + 1
                                                     THEN "Uploading" ELSE "Over"]
                            /\ currentJob' = IF started THEN generated + 1 ELSE NoKey
                 ELSE /\ job' = [k \in Keys |-> "Over"]
                      /\ currentJob' = NoKey
                      /\ UNCHANGED <<generated, owner>>
    /\ cancelled' = {}
    /\ UNCHANGED <<savedAccount, forgotten, faults>>

KeysInit ==
    /\ account = NoAccount /\ savedAccount = NoAccount
    /\ history = AccountHistory(<<>>, <<>>, FALSE)
    /\ running = TRUE
    /\ generated = 0
    /\ owner = [k \in Keys |-> NoAccount]
    /\ job = [k \in Keys |-> "Over"]
    /\ currentJob = NoKey
    /\ cancelled = {}
    /\ keyEvents = <<>>
    /\ forgotten = FALSE
    /\ faults \in FaultSets

KeysNext ==
    \/ \E token \in Accounts \cup {NoAccount, EmptyAccount} : OnSetAccount(token)
    \/ OnGenerateWireguardKey
    \/ HandleWireguardKeyEvent
    \/ \E a \in Accounts : OnRemoveAccountFromHistory(a)
    \/ LookUp
    \/ OnFactoryReset
    \/ \E k \in Keys : UploadAnswered(k) \/ SendKeyEvent(k) \/ JobCancelled(k)
    \/ Restart

KeysSpec == KeysInit /\ [][KeysNext]_keyVars

(***************************************************************************)
(* The daemon's thread handles its events, the API client's thread runs,   *)
(* and the API answers in the end. No client has to ask for anything.      *)
(***************************************************************************)
KeysFairness ==
    /\ WF_keyVars(HandleWireguardKeyEvent)
    /\ \A k \in Keys : WF_keyVars(UploadAnswered(k)) /\ WF_keyVars(SendKeyEvent(k))

FairKeysSpec == KeysSpec /\ KeysFairness

-----------------------------------------------------------------------------
(* Properties *)

AccountEntries == [account : Accounts \cup {EmptyAccount}, wireguard : Keys \cup {NoKey}]
WgKeyEvents    == [account : Accounts, key : Keys, result : {"Generated", "TooManyKeys", "Failed"}]

\* Every variable has its type; in memory and in the file, AccountHistory keeps to its limit.
KeysTypeOK ==
    /\ account \in Accounts \cup {NoAccount} /\ savedAccount \in Accounts \cup {NoAccount}
    /\ history \in [accounts : Seq(AccountEntries), file : Seq(AccountEntries), leftover : BOOLEAN]
    /\ Len(history.accounts) <= HistoryLimit /\ Len(history.file) <= HistoryLimit
    /\ running \in BOOLEAN /\ forgotten \in BOOLEAN
    /\ generated \in 0 .. MaxKeys
    /\ owner \in [Keys -> Accounts \cup {NoAccount}]
    /\ job \in [Keys -> {"Uploading", "Generated", "TooManyKeys", "Failed", "Over"}]
    /\ currentJob \in Keys \cup {NoKey} /\ cancelled \subseteq Keys /\ faults \in FaultSets
    /\ keyEvents \in Seq(WgKeyEvents)

(***************************************************************************)
(* The list is a most recently used cache in which the account in use      *)
(* never falls out: no account is listed twice, and the current one, if it *)
(* is listed, comes first, so that no insertion drops it with its key.     *)
(***************************************************************************)
CurrentAccountFirst ==
    LET list == history.accounts IN
    /\ \A i, j \in 1 .. Len(list) : list[i].account = list[j].account => i = j
    /\ "settings" \notin faults /\ Listed(history, account) => list[1].account = account

(***************************************************************************)
(* A key is only ever stored with the account it was generated for,        *)
(* whatever accounts were set while it was uploaded or waited.             *)
(***************************************************************************)
KeysBelongToAccounts ==
    \A i \in 1 .. Len(history.accounts) :
       LET e == history.accounts[i]
       IN  e.wireguard # NoKey => owner[e.wireguard] = e.account

(***************************************************************************)
(* The account in use stays listed, and every account has its own key.     *)
(***************************************************************************)
AccountsKeepTheirKeys == KeysTypeOK /\ CurrentAccountFirst /\ KeysBelongToAccounts

(***************************************************************************)
(* Two generations never compete: every job that was not told to stop is   *)
(* the one the key manager would stop.                                     *)
(***************************************************************************)
OneGeneration ==
    \A k \in Keys : job[k] = "Uploading" => k = currentJob \/ k \in cancelled

(***************************************************************************)
(* A factory reset forgets the accounts and their keys, and a key that was *)
(* being generated does not bring one back, before or after a restart,     *)
(* if the files can be written.                                            *)
(***************************************************************************)
FactoryResetForgets ==
    forgotten /\ {"settings", "history"} \cap faults = {} =>
       /\ account = NoAccount
       /\ history.accounts = <<>> /\ history.file = <<>>

(***************************************************************************)
(* An account that stays set gets a key, unless it is taken off the list,  *)
(* where nothing goes wrong for good.                                      *)
(***************************************************************************)
AccountGetsKey ==
    \A a \in Accounts :
       (account = a /\ faults = {}) ~>
          \/ account # a \/ ~Listed(history, a)
          \/ Listed(history, a) /\ Entry(history, a).wireguard # NoKey

=============================================================================
