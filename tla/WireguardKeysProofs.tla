------------------------- MODULE WireguardKeysProofs -------------------------
(***************************************************************************)
(* Proofs about WireguardKeys: for any number of accounts and keys and any *)
(* length of the account history, whatever requests, key events, failures  *)
(* and restarts come in between, no account gets another one's key, no two *)
(* generations compete and a factory reset is not undone.                  *)
(***************************************************************************)
EXTENDS WireguardKeys, SequenceTheorems, TLAPS

-----------------------------------------------------------------------------
(* Lists of accounts *)

\* No account is listed twice.
Distinct(list) ==
    \A i, j \in 1 .. Len(list) : list[i].account = list[j].account => i = j

\* A function on 1 .. n is a sequence of length n.
LEMMA FunctionIsSeq ==
    ASSUME NEW S, NEW n \in Nat, NEW f \in [1 .. n -> S]
    PROVE  f \in Seq(S) /\ Len(f) = n
<1>1. f \in Seq(S)
      BY SeqDef
<1>2. Len(f) \in Nat /\ DOMAIN f = 1 .. Len(f)
      BY <1>1, LenProperties
<1>3. 1 .. Len(f) = 1 .. n
      BY <1>2
<1> QED BY <1>1, <1>2, <1>3

\* Without drops the account's entry, keeps the others and keeps their order.
LEMMA WithoutLemma ==
    ASSUME NEW list \in Seq(AccountEntries), Distinct(list), NEW a
    PROVE  /\ Without(list, a) \in Seq(AccountEntries)
           /\ Len(Without(list, a)) <= Len(list) /\ Len(Without(list, a)) \in Nat
           /\ \A i \in 1 .. Len(Without(list, a)) :
                 /\ Without(list, a)[i].account # a
                 /\ \E j \in 1 .. Len(list) : Without(list, a)[i] = list[j]
           /\ Distinct(Without(list, a))
           /\ list # <<>> /\ list[1].account # a =>
                 Len(Without(list, a)) > 0 /\ Without(list, a)[1] = list[1]
<1>1. CASE Places(list, a) = {}
      <2>1. Without(list, a) = list
            BY <1>1 DEF Without
      <2>2. \A i \in 1 .. Len(list) : list[i].account # a
            BY <1>1 DEF Places
      <2> QED BY <2>1, <2>2
<1>2. CASE Places(list, a) # {}
      <2> DEFINE place == CHOOSE i \in Places(list, a) : TRUE
                 rest  == [i \in 1 .. Len(list) - 1 |-> IF i < place THEN list[i] ELSE list[i + 1]]
      <2>1. place \in 1 .. Len(list) /\ list[place].account = a
            <3>1. place \in Places(list, a)
                  BY <1>2
            <3> QED BY <3>1 DEF Places
      <2>2. Without(list, a) = rest
            BY <1>2 DEF Without
      <2> HIDE DEF place
      <2>3. \A i \in 1 .. Len(list) : i # place => list[i].account # a
            BY <2>1 DEF Distinct
      <2>4. Len(list) - 1 \in Nat /\ Len(list) \in Nat
            BY <2>1
      <2>5. rest \in [1 .. Len(list) - 1 -> AccountEntries]
            <3>1. \A i \in 1 .. Len(list) - 1 : list[i] \in AccountEntries /\ list[i + 1] \in AccountEntries
                  BY <2>4
            <3> QED BY <3>1
      <2>6. rest \in Seq(AccountEntries) /\ Len(rest) = Len(list) - 1
            BY <2>4, <2>5, FunctionIsSeq
      <2>7. \A i \in 1 .. Len(list) - 1 :
               LET j == IF i < place THEN i ELSE i + 1
               IN  j \in 1 .. Len(list) /\ j # place /\ rest[i] = list[j]
            BY <2>1, <2>4
      <2>8. \A i \in 1 .. Len(rest) :
               rest[i].account # a /\ \E j \in 1 .. Len(list) : rest[i] = list[j]
            BY <2>3, <2>6, <2>7
      <2>9. Distinct(rest)
            <3> SUFFICES ASSUME NEW i \in 1 .. Len(rest), NEW j \in 1 .. Len(rest),
                                rest[i].account = rest[j].account
                         PROVE  i = j
                BY DEF Distinct
            <3> DEFINE m == IF i < place THEN i ELSE i + 1
                       n == IF j < place THEN j ELSE j + 1
            <3>1. m \in 1 .. Len(list) /\ rest[i] = list[m] /\ n \in 1 .. Len(list) /\ rest[j] = list[n]
                  BY <2>6, <2>7
            <3>2. m = n
                  <4> HIDE DEF m, n
                  <4> QED BY <3>1 DEF Distinct
            <3> QED BY <2>1, <2>6, <3>2
      <2>10. list # <<>> /\ list[1].account # a => Len(rest) > 0 /\ rest[1] = list[1]
            BY <2>1, <2>4, <2>6, <2>7
      <2> QED BY <2>2, <2>4, <2>6, <2>8, <2>9, <2>10
<1> QED BY <1>1, <1>2

\* Inserted puts the entry first and keeps what it keeps of the others.
LEMMA InsertedLemma ==
    ASSUME NEW list \in Seq(AccountEntries), Distinct(list), Len(list) <= HistoryLimit,
           NEW entry \in AccountEntries
    PROVE  /\ Inserted(list, entry) \in Seq(AccountEntries)
           /\ Len(Inserted(list, entry)) \in 1 .. HistoryLimit
           /\ Inserted(list, entry)[1] = entry
           /\ \A i \in 1 .. Len(Inserted(list, entry)) :
                 \/ Inserted(list, entry)[i] = entry
                 \/ \E j \in 1 .. Len(list) : Inserted(list, entry)[i] = list[j]
           /\ Distinct(Inserted(list, entry))
<1> DEFINE rest == Without(list, entry.account)
           n    == IF Len(rest) < HistoryLimit THEN Len(rest) + 1 ELSE Len(rest)
           new  == [i \in 1 .. n |-> IF i = 1 THEN entry ELSE rest[i - 1]]
<1>1. /\ rest \in Seq(AccountEntries) /\ Len(rest) \in Nat /\ Len(rest) <= Len(list)
      /\ \A i \in 1 .. Len(rest) :
            rest[i].account # entry.account /\ \E j \in 1 .. Len(list) : rest[i] = list[j]
      /\ Distinct(rest)
      BY WithoutLemma
<1>2. Inserted(list, entry) = new
      BY DEF Inserted
<1>3. HistoryLimit \in Nat /\ HistoryLimit > 0 /\ Len(list) \in Nat
      BY KeysAssumption
<1> HIDE DEF rest
<1>4. n \in 1 .. HistoryLimit /\ n - 1 <= Len(rest)
      BY <1>1, <1>3
<1> HIDE DEF n
<1>5. \A i \in 1 .. n : i # 1 => i - 1 \in 1 .. Len(rest) /\ new[i] = rest[i - 1]
      BY <1>1, <1>3, <1>4
<1>6. new[1] = entry /\ n \in Nat
      BY <1>3, <1>4
<1>7. new \in [1 .. n -> AccountEntries]
      BY <1>1, <1>5, <1>6
<1>8. new \in Seq(AccountEntries) /\ Len(new) = n
      BY <1>6, <1>7, FunctionIsSeq
<1> HIDE DEF new
<1>9. \A i \in 1 .. Len(new) : new[i] = entry \/ \E j \in 1 .. Len(list) : new[i] = list[j]
      <2> SUFFICES ASSUME NEW i \in 1 .. Len(new), i # 1
                   PROVE  \E j \in 1 .. Len(list) : new[i] = list[j]
          BY <1>6
      <2>1. i - 1 \in 1 .. Len(rest) /\ new[i] = rest[i - 1]
            BY <1>5, <1>8
      <2> QED BY <1>1, <2>1
<1>10. Distinct(new)
      <2> SUFFICES ASSUME NEW i \in 1 .. Len(new), NEW j \in 1 .. Len(new),
                          new[i].account = new[j].account
                   PROVE  i = j
          BY DEF Distinct
      <2>1. CASE i = 1 /\ j # 1
            BY <1>1, <1>5, <1>6, <1>8, <2>1
      <2>2. CASE i # 1 /\ j = 1
            BY <1>1, <1>5, <1>6, <1>8, <2>2
      <2>3. CASE i # 1 /\ j # 1
            <3>1. /\ i - 1 \in 1 .. Len(rest) /\ new[i] = rest[i - 1]
                  /\ j - 1 \in 1 .. Len(rest) /\ new[j] = rest[j - 1]
                  BY <1>5, <1>8, <2>3
            <3>2. i - 1 = j - 1
                  BY <1>1, <3>1 DEF Distinct
            <3> QED BY <1>6, <1>8, <3>2
      <2> QED BY <2>1, <2>2, <2>3
<1> QED BY <1>2, <1>4, <1>6, <1>8, <1>9, <1>10

-----------------------------------------------------------------------------
(* What AccountHistory's operations keep *)

\* A key that an entry holds was generated, and for that account.
EntryOK(e, n, own) == e.wireguard # NoKey => e.wireguard <= n /\ own[e.wireguard] = e.account

ListOK(list, n, own) ==
    /\ list \in Seq(AccountEntries) /\ Len(list) <= HistoryLimit /\ Distinct(list)
    /\ \A i \in 1 .. Len(list) : EntryOK(list[i], n, own)

HistoryOK(h, n, own) ==
    /\ h \in [accounts : Seq(AccountEntries), file : Seq(AccountEntries), leftover : BOOLEAN]
    /\ ListOK(h.accounts, n, own) /\ ListOK(h.file, n, own)

\* The account, if it is listed, comes first.
OnTop(h, a) == Listed(h, a) => h.accounts[1].account = a

\* An empty list is a good one.
LEMMA EmptyListOK ==
    ASSUME NEW n, NEW own
    PROVE  ListOK(<<>>, n, own)
BY KeysAssumption DEF ListOK, Distinct

\* Saving keeps the list in memory, and the file is the list, what it was, or torn.
LEMMA SaveLemma ==
    ASSUME NEW n, NEW own, NEW h, HistoryOK(h, n, own), NEW list, ListOK(list, n, own), NEW entry,
           NEW r \in SaveToDisk(list, h, entry)
    PROVE  /\ r.entry = entry
           /\ r.history.accounts = list
           /\ r.history.file \in {list, Torn} \/ "history" \in faults
           /\ HistoryOK(r.history, n, own)
<1>1. ASSUME NEW file \in {list, Torn}, r = Saved(list, entry, file)
      PROVE  /\ r.entry = entry /\ r.history.accounts = list /\ r.history.file \in {list, Torn}
             /\ HistoryOK(r.history, n, own)
      <2>1. ListOK(file, n, own)
            BY EmptyListOK DEF Torn
      <2> QED BY <1>1, <2>1 DEF Saved, Result, AccountHistory, HistoryOK, ListOK
<1>2. ASSUME NEW file \in {h.file, Torn}, NEW left \in BOOLEAN, r = NotSaved(list, entry, file, left)
      PROVE  r.entry = entry /\ r.history.accounts = list /\ HistoryOK(r.history, n, own)
      <2>1. ListOK(file, n, own)
            BY EmptyListOK DEF Torn, HistoryOK
      <2> QED BY <1>2, <2>1 DEF NotSaved, Result, AccountHistory, HistoryOK, ListOK
<1>3. \/ \E file \in {list, Torn} : r = Saved(list, entry, file)
      \/ "history" \in faults /\ \E file \in {h.file, Torn}, left \in BOOLEAN : r = NotSaved(list, entry, file, left)
      BY DEF SaveToDisk
<1> QED BY <1>1, <1>2, <1>3

\* Inserting an entry puts its account first, in memory, and spoils nothing.
LEMMA InsertLemma ==
    ASSUME NEW n, NEW own, NEW h, HistoryOK(h, n, own), NEW entry \in AccountEntries,
           EntryOK(entry, n, own), NEW r \in Insert(h, entry)
    PROVE  /\ r.entry = entry
           /\ HistoryOK(r.history, n, own)
           /\ OnTop(r.history, entry.account)
<1> DEFINE list == Inserted(h.accounts, entry)
<1>1. /\ list \in Seq(AccountEntries) /\ Len(list) \in 1 .. HistoryLimit /\ list[1] = entry
      /\ \A i \in 1 .. Len(list) :
            list[i] = entry \/ \E j \in 1 .. Len(h.accounts) : list[i] = h.accounts[j]
      /\ Distinct(list)
      BY InsertedLemma DEF HistoryOK, ListOK
<1> HIDE DEF list
<1>2. ListOK(list, n, own)
      BY <1>1 DEF ListOK, HistoryOK
<1>3. r \in SaveToDisk(list, h, entry)
      BY DEF Insert, list
<1>4. r.entry = entry /\ r.history.accounts = list /\ HistoryOK(r.history, n, own)
      BY <1>2, <1>3, SaveLemma
<1> QED BY <1>1, <1>4 DEF OnTop

\* A listed account's entry is an entry of that account.
LEMMA EntryLemma ==
    ASSUME NEW n, NEW own, NEW h, HistoryOK(h, n, own), NEW a, Listed(h, a)
    PROVE  /\ Entry(h, a) \in AccountEntries /\ Entry(h, a).account = a /\ EntryOK(Entry(h, a), n, own)
           /\ h.accounts # <<>>
<1>1. (CHOOSE i \in Places(h.accounts, a) : TRUE) \in Places(h.accounts, a)
      BY DEF Listed
<1>2. PICK i \in 1 .. Len(h.accounts) : Entry(h, a) = h.accounts[i] /\ h.accounts[i].account = a
      BY <1>1 DEF Entry, Places
<1> QED BY <1>2 DEF HistoryOK, ListOK

\* Looking an account up puts it first if it is listed, and tells whether it is.
LEMMA GetLemma ==
    ASSUME NEW n, NEW own, NEW h, HistoryOK(h, n, own), NEW a, NEW r \in Get(h, a)
    PROVE  /\ HistoryOK(r.history, n, own)
           /\ OnTop(r.history, a)
           /\ Listed(h, a) => r.entry.account = a
           /\ ~Listed(h, a) => r = Result(TRUE, NoEntry, h)
<1>1. CASE ~Listed(h, a)
      BY <1>1 DEF Get, Result, OnTop
<1>2. CASE Listed(h, a) /\ h.accounts[1].account = a
      BY <1>2, EntryLemma DEF Get, Result, OnTop
<1>3. CASE Listed(h, a) /\ h.accounts[1].account # a
      <2>1. r \in Insert(h, Entry(h, a))
            BY <1>3 DEF Get
      <2> QED BY <1>3, <2>1, EntryLemma, InsertLemma
<1> QED BY <1>1, <1>2, <1>3

\* No account is never listed.
LEMMA NoneOnTop ==
    ASSUME NEW h, NEW n, NEW own, HistoryOK(h, n, own)
    PROVE  OnTop(h, NoAccount)
<1>1. \A e \in AccountEntries : e.account # NoAccount
      BY KeysAssumption DEF AccountEntries
<1>2. \A i \in 1 .. Len(h.accounts) : h.accounts[i] \in AccountEntries
      BY DEF HistoryOK
<1> QED BY <1>1, <1>2 DEF OnTop, Listed, Places

\* So does the lookup for an account that may be none.
LEMMA LookedUpLemma ==
    ASSUME NEW n, NEW own, NEW h, HistoryOK(h, n, own), NEW a \in Accounts \cup {NoAccount},
           NEW r \in LookedUp(h, a)
    PROVE  /\ HistoryOK(r.history, n, own)
           /\ OnTop(r.history, a)
<1>1. CASE a = NoAccount
      <2>1. r.history = h
            BY <1>1 DEF LookedUp, Result
      <2> QED BY <1>1, <2>1, NoneOnTop
<1>2. CASE a # NoAccount
      BY <1>2, GetLemma DEF LookedUp
<1> QED BY <1>1, <1>2

\* Bumping an account lists it first.
LEMMA BumpLemma ==
    ASSUME NEW n, NEW own, NEW h, HistoryOK(h, n, own), NEW a \in Accounts \cup {EmptyAccount},
           NEW r \in BumpHistory(h, a)
    PROVE  HistoryOK(r.history, n, own) /\ OnTop(r.history, a)
<1>1. PICK got \in Get(h, a) :
         r \in IF got.ok /\ got.entry = NoEntry
               THEN Insert(got.history, AccountEntry(a, NoKey)) ELSE {got}
      BY DEF BumpHistory
<1>2. HistoryOK(got.history, n, own) /\ OnTop(got.history, a)
      BY GetLemma
<1>3. CASE r \in Insert(got.history, AccountEntry(a, NoKey))
      <2>1. /\ AccountEntry(a, NoKey) \in AccountEntries /\ AccountEntry(a, NoKey).account = a
            /\ EntryOK(AccountEntry(a, NoKey), n, own)
            BY DEF AccountEntry, AccountEntries, EntryOK
      <2> QED BY <1>2, <1>3, <2>1, InsertLemma
<1>4. CASE r = got
      BY <1>2, <1>4
<1> QED BY <1>1, <1>3, <1>4

\* A key generated later is no entry's key yet.
LEMMA HistoryStaysOK ==
    ASSUME NEW h, NEW n \in 0 .. MaxKeys, NEW own \in [Keys -> Accounts \cup {NoAccount}],
           HistoryOK(h, n, own), NEW a, n < MaxKeys
    PROVE  HistoryOK(h, n + 1, [own EXCEPT ![n + 1] = a])
<1> DEFINE new == [own EXCEPT ![n + 1] = a]
<1>1. ASSUME NEW e \in AccountEntries, EntryOK(e, n, own) PROVE EntryOK(e, n + 1, new)
      <2>1. CASE e.wireguard # NoKey
            <3>1. e.wireguard \in Keys /\ e.wireguard <= n /\ own[e.wireguard] = e.account
                  BY <1>1, <2>1 DEF EntryOK, AccountEntries
            <3>2. MaxKeys \in Nat
                  BY KeysAssumption
            <3>3. new[e.wireguard] = own[e.wireguard] /\ e.wireguard <= n + 1
                  BY <3>1, <3>2 DEF Keys
            <3> QED BY <3>1, <3>3 DEF EntryOK
      <2> QED BY <2>1 DEF EntryOK
<1> HIDE DEF new
<1>2. \A list : ListOK(list, n, own) => ListOK(list, n + 1, new)
      BY <1>1 DEF ListOK
<1>3. HistoryOK(h, n + 1, new)
      BY <1>2 DEF HistoryOK
<1> QED BY <1>3 DEF new

-----------------------------------------------------------------------------
(* The inductive invariant *)

\* A job that may still send its key has a key that was generated for an account.
JobsOwned == \A k \in Keys : job[k] # "Over" => k <= generated /\ owner[k] \in Accounts

\* An event names the account its key was generated for.
EventsOwned ==
    \A i \in 1 .. Len(keyEvents) :
       keyEvents[i].key <= generated /\ owner[keyEvents[i].key] = keyEvents[i].account

\* Where settings can be saved, the account in use is the saved one and comes first.
AccountOnTop == "settings" \notin faults => savedAccount = account /\ OnTop(history, account)

\* A factory reset also leaves no account in the settings file.
StaysForgotten ==
    forgotten /\ {"settings", "history"} \cap faults = {} =>
       /\ account = NoAccount /\ savedAccount = NoAccount
       /\ history.accounts = <<>> /\ history.file = <<>>

KeysInv ==
    /\ KeysTypeOK
    /\ HistoryOK(history, generated, owner)
    /\ JobsOwned /\ EventsOwned
    /\ AccountOnTop /\ StaysForgotten
    /\ OneGeneration

\* What the key manager keeps of its own.
JobTypes ==
    /\ generated \in 0 .. MaxKeys /\ owner \in [Keys -> Accounts \cup {NoAccount}]
    /\ job \in [Keys -> {"Uploading", "Generated", "TooManyKeys", "Failed", "Over"}]
    /\ currentJob \in Keys \cup {NoKey} /\ cancelled \subseteq Keys

JobsInv == JobTypes /\ JobsOwned /\ OneGeneration

\* A new key leaves the owners of the others alone.
LEMMA NewKeyLemma ==
    ASSUME JobTypes, NEW a \in Accounts, NewKey(a)
    PROVE  /\ generated < MaxKeys /\ generated' = generated + 1 /\ generated + 1 \in Keys
           /\ generated' \in 0 .. MaxKeys /\ owner' \in [Keys -> Accounts \cup {NoAccount}]
           /\ owner'[generated + 1] = a
           /\ \A k \in Keys : k <= generated => owner'[k] = owner[k] /\ k # generated + 1
           /\ \A h : HistoryOK(h, generated, owner) => HistoryOK(h, generated', owner')
<1>1. generated < MaxKeys /\ MaxKeys \in Nat /\ generated \in Nat
      BY KeysAssumption DEF NewKey, JobTypes
<1>2. generated' = generated + 1 /\ owner' = [owner EXCEPT ![generated + 1] = a]
      BY DEF NewKey
<1>3. generated + 1 \in Keys /\ generated' \in 0 .. MaxKeys
      BY <1>1, <1>2 DEF Keys
<1>4. owner' \in [Keys -> Accounts \cup {NoAccount}] /\ owner'[generated + 1] = a
      BY <1>2, <1>3 DEF JobTypes
<1>5. \A k \in Keys : k <= generated => owner'[k] = owner[k] /\ k # generated + 1
      BY <1>1, <1>2 DEF JobTypes, Keys
<1>6. \A h : HistoryOK(h, generated, owner) => HistoryOK(h, generated', owner')
      BY <1>1, <1>2, HistoryStaysOK DEF JobTypes
<1> QED BY <1>1, <1>2, <1>3, <1>4, <1>5, <1>6

\* Starting a job stops the one before it.
LEMMA GenerateLemma ==
    ASSUME JobsInv, NEW a \in Accounts, GenerateKeyAsync(a)
    PROVE  JobsInv'
<1>1. NewKey(a) /\ Reset /\ JobTypes
      BY DEF GenerateKeyAsync, JobsInv
<1>2. CASE job' = [job EXCEPT ![generated + 1] = "Uploading"] /\ currentJob' = generated + 1
      <2>1. JobTypes'
            BY <1>1, <1>2, NewKeyLemma DEF JobTypes, Reset
      <2>2. \A k \in Keys : k # generated + 1 => job'[k] = job[k]
            BY <1>1, <1>2 DEF JobTypes
      <2>3. JobsOwned'
            <3> SUFFICES ASSUME NEW k \in Keys, job'[k] # "Over"
                         PROVE  k <= generated' /\ owner'[k] \in Accounts
                BY DEF JobsOwned
            <3>1. CASE k = generated + 1
                  BY <1>1, <3>1, NewKeyLemma DEF Keys, JobTypes
            <3>2. CASE k # generated + 1
                  <4>1. k <= generated /\ owner[k] \in Accounts
                        BY <2>2, <3>2 DEF JobsInv, JobsOwned
                  <4> QED BY <1>1, <4>1, NewKeyLemma DEF Keys, JobTypes
            <3> QED BY <3>1, <3>2
      <2>4. OneGeneration'
            BY <1>1, <1>2, <2>2 DEF JobsInv, OneGeneration, Reset, NoKey, Keys
      <2> QED BY <2>1, <2>3, <2>4 DEF JobsInv
<1>3. CASE currentJob' = NoKey /\ job' = job
      <2>1. JobTypes'
            BY <1>1, <1>3, NewKeyLemma DEF JobTypes, Reset
      <2>2. JobsOwned'
            <3> SUFFICES ASSUME NEW k \in Keys, job'[k] # "Over"
                         PROVE  k <= generated' /\ owner'[k] \in Accounts
                BY DEF JobsOwned
            <3>1. k <= generated /\ owner[k] \in Accounts
                  BY <1>3 DEF JobsInv, JobsOwned
            <3> QED BY <1>1, <3>1, NewKeyLemma DEF Keys, JobTypes
      <2>3. OneGeneration'
            BY <1>1, <1>3 DEF JobsInv, OneGeneration, Reset, NoKey, Keys
      <2> QED BY <2>1, <2>2, <2>3 DEF JobsInv
<1> QED BY <1>2, <1>3 DEF GenerateKeyAsync

\* Events keep naming the owners of their keys.
LEMMA EventsKept ==
    ASSUME KeysInv, keyEvents' = keyEvents,
           \/ UNCHANGED <<generated, owner>>
           \/ \E a \in Accounts : NewKey(a)
    PROVE  EventsOwned'
<1>1. CASE UNCHANGED <<generated, owner>>
      BY <1>1 DEF KeysInv, EventsOwned
<1>2. ASSUME NEW a \in Accounts, NewKey(a)
      PROVE  EventsOwned'
      <2>1. JobTypes
            BY DEF KeysInv, KeysTypeOK, JobTypes
      <2>2. \A i \in 1 .. Len(keyEvents) : keyEvents[i].key \in Keys
            <3>1. keyEvents \in Seq(WgKeyEvents)
                  BY DEF KeysInv, KeysTypeOK
            <3>2. \A i \in 1 .. Len(keyEvents) : keyEvents[i] \in WgKeyEvents
                  BY <3>1
            <3> QED BY <3>2 DEF WgKeyEvents
      <2> QED BY <1>2, <2>1, <2>2, NewKeyLemma DEF KeysInv, EventsOwned, Keys, JobTypes
<1> QED BY <1>1, <1>2

\* The types that make up KeysTypeOK.
LEMMA TypesOf ==
    /\ KeysInv => JobsInv
    /\ /\ account' \in Accounts \cup {NoAccount} /\ savedAccount' \in Accounts \cup {NoAccount}
       /\ HistoryOK(history', generated', owner')
       /\ running' \in BOOLEAN /\ forgotten' \in BOOLEAN /\ faults' \in FaultSets
       /\ keyEvents' \in Seq(WgKeyEvents) /\ JobsInv'
       => KeysTypeOK'
BY DEF KeysInv, KeysTypeOK, JobsInv, JobTypes, HistoryOK, ListOK

-----------------------------------------------------------------------------
(* The steps *)

\* A new account comes first, with a new key on its way if it has none.
LEMMA SetAccountStep ==
    ASSUME KeysInv, NEW token \in Accounts \cup {NoAccount, EmptyAccount}, OnSetAccount(token)
    PROVE  KeysInv'
<1> DEFINE new == IF token = EmptyAccount THEN NoAccount ELSE token
<1>1. /\ new # account /\ account' = new /\ new \in Accounts \cup {NoAccount}
      /\ forgotten' = (forgotten /\ token = NoAccount)
      /\ UNCHANGED <<running, keyEvents, faults>>
      BY DEF OnSetAccount
<1>2. /\ running' \in BOOLEAN /\ faults' \in FaultSets /\ keyEvents' \in Seq(WgKeyEvents)
      /\ forgotten' \in BOOLEAN
      BY <1>1 DEF KeysInv, KeysTypeOK
<1>3. StaysForgotten'
      <2> SUFFICES ASSUME forgotten', {"settings", "history"} \cap faults' = {} PROVE FALSE
          BY DEF StaysForgotten
      <2>1. forgotten /\ token = NoAccount
            BY <1>1
      <2>2. account = NoAccount
            BY <1>1, <2>1 DEF KeysInv, StaysForgotten
      <2> QED BY <1>1, <2>1, <2>2
<1>4. JobsInv /\ HistoryOK(history, generated, owner)
      BY TypesOf DEF KeysInv
<1>5. ASSUME savedAccount' = new, NEW got \in LookedUp(history, new), EnsureWireguardKeys(new, got),
             IF token = NoAccount THEN history' = got.history
             ELSE \E bumped \in BumpHistory(got.history, token) : history' = bumped.history
      PROVE  KeysInv'
      <2>1. HistoryOK(got.history, generated, owner) /\ OnTop(got.history, new)
            BY <1>1, <1>4, LookedUpLemma
      <2>2. HistoryOK(history', generated, owner) /\ OnTop(history', new)
            <3>1. CASE token = NoAccount
                  BY <1>5, <2>1, <3>1
            <3>2. CASE token # NoAccount
                  <4>1. PICK bumped \in BumpHistory(got.history, token) : history' = bumped.history
                        BY <1>5, <3>2
                  <4>2. HistoryOK(history', generated, owner) /\ OnTop(history', token)
                        BY <2>1, <3>2, <4>1, BumpLemma
                  <4> QED BY <4>2, NoneOnTop
            <3> QED BY <3>1, <3>2
      <2>3. CASE UNCHANGED <<generated, owner, job, currentJob, cancelled>>
            <3>1. JobsInv'
                  BY <1>4, <2>3 DEF JobsInv, JobTypes, JobsOwned, OneGeneration
            <3>2. EventsOwned' /\ HistoryOK(history, generated, owner)'
                  BY <1>1, <2>2, <2>3, EventsKept
            <3> QED BY <1>1, <1>2, <1>3, <1>5, <2>2, <3>1, <3>2, TypesOf DEF KeysInv, JobsInv, AccountOnTop
      <2>4. CASE new # NoAccount /\ GenerateKeyAsync(new)
            <3>1. new \in Accounts /\ NewKey(new)
                  BY <1>1, <2>4 DEF GenerateKeyAsync
            <3>2. JobsInv'
                  BY <1>4, <2>4, <3>1, GenerateLemma
            <3>3. EventsOwned' /\ HistoryOK(history, generated, owner)'
                  BY <1>1, <1>4, <2>2, <3>1, EventsKept, NewKeyLemma DEF JobsInv
            <3> QED BY <1>1, <1>2, <1>3, <1>5, <2>2, <3>2, <3>3, TypesOf DEF KeysInv, JobsInv, AccountOnTop
      <2> HIDE DEF new
      <2> QED BY <1>5, <2>3, <2>4 DEF EnsureWireguardKeys
<1>6. CASE "settings" \in faults
           /\ UNCHANGED <<savedAccount, history, generated, owner, job, currentJob, cancelled>>
      <2>1. JobsInv'
            BY <1>4, <1>6 DEF JobsInv, JobTypes, JobsOwned, OneGeneration
      <2>2. EventsOwned' /\ HistoryOK(history, generated, owner)'
            BY <1>1, <1>4, <1>6, EventsKept
      <2>3. AccountOnTop'
            BY <1>1, <1>6 DEF AccountOnTop
      <2>4. savedAccount' \in Accounts \cup {NoAccount}
            BY <1>6 DEF KeysInv, KeysTypeOK
      <2> QED BY <1>1, <1>2, <1>3, <2>1, <2>2, <2>3, <2>4, TypesOf DEF KeysInv, JobsInv
<1> QED BY <1>5, <1>6 DEF OnSetAccount

\* The steps that leave the account, the settings file and the requests alone.
LEMMA SameAccount ==
    ASSUME KeysInv, UNCHANGED <<account, savedAccount, running, forgotten, faults>>,
           HistoryOK(history', generated', owner'), OnTop(history', account),
           JobsInv', EventsOwned', keyEvents' \in Seq(WgKeyEvents),
           account # NoAccount \/ history' = history
    PROVE  KeysInv'
<1>1. StaysForgotten'
      BY DEF KeysInv, StaysForgotten
<1>2. AccountOnTop'
      BY DEF KeysInv, AccountOnTop
<1>3. KeysTypeOK'
      BY TypesOf DEF KeysInv, KeysTypeOK
<1> QED BY <1>1, <1>2, <1>3 DEF KeysInv, JobsInv

\* A key generated while the daemon waits is the current account's.
LEMMA GenerateStep ==
    ASSUME KeysInv, OnGenerateWireguardKey
    PROVE  KeysInv'
<1>1. /\ account \in Accounts /\ JobsInv /\ HistoryOK(history, generated, owner)
      /\ UNCHANGED <<account, savedAccount, running, job, keyEvents, forgotten, faults>>
      /\ keyEvents \in Seq(WgKeyEvents) /\ account # NoAccount
      BY TypesOf DEF KeysInv, KeysTypeOK, OnGenerateWireguardKey
<1>2. PICK got \in Get(history, account) :
         IF got.ok
         THEN /\ Reset
              /\ currentJob' = NoKey
              /\ NewKey(account)
              /\ \/ \E put \in Insert(got.history, AccountEntry(account, generated + 1)) :
                       history' = put.history
                 \/ history' = got.history
         ELSE /\ history' = got.history
              /\ UNCHANGED <<generated, owner, currentJob, cancelled>>
      BY DEF OnGenerateWireguardKey
<1>3. HistoryOK(got.history, generated, owner) /\ OnTop(got.history, account)
      BY <1>1, GetLemma
<1>4. CASE got.ok
      <2>1. Reset /\ currentJob' = NoKey /\ NewKey(account)
            BY <1>2, <1>4
      <2>2. HistoryOK(got.history, generated', owner')
            BY <1>1, <1>3, <2>1, NewKeyLemma DEF JobsInv
      <2>3. HistoryOK(history', generated', owner') /\ OnTop(history', account)
            <3> DEFINE entry == AccountEntry(account, generated + 1)
            <3>1. entry \in AccountEntries /\ entry.account = account /\ EntryOK(entry, generated', owner')
                  BY <1>1, <2>1, NewKeyLemma DEF JobsInv, AccountEntry, AccountEntries, EntryOK, Keys
            <3>2. CASE \E put \in Insert(got.history, entry) : history' = put.history
                  <4> HIDE DEF entry
                  <4> QED BY <2>2, <3>1, <3>2, InsertLemma
            <3>3. CASE history' = got.history
                  BY <1>3, <2>2, <3>3
            <3> QED BY <1>2, <1>4, <3>2, <3>3
      <2>4. JobTypes'
            BY <1>1, <2>1, NewKeyLemma DEF JobsInv, JobTypes, Reset
      <2>5. JobsOwned'
            <3> SUFFICES ASSUME NEW k \in Keys, job'[k] # "Over"
                         PROVE  k <= generated' /\ owner'[k] \in Accounts
                BY DEF JobsOwned
            <3>1. k <= generated /\ owner[k] \in Accounts
                  BY <1>1 DEF JobsInv, JobsOwned
            <3> QED BY <1>1, <2>1, <3>1, NewKeyLemma DEF JobsInv, Keys, JobTypes
      <2>6. OneGeneration'
            BY <1>1, <2>1 DEF JobsInv, OneGeneration, Reset, NoKey, Keys
      <2>7. EventsOwned'
            BY <1>1, <2>1, EventsKept
      <2> QED BY <1>1, <2>3, <2>4, <2>5, <2>6, <2>7, SameAccount DEF JobsInv
<1>5. CASE ~got.ok
      <2>1. history' = got.history /\ UNCHANGED <<generated, owner, currentJob, cancelled>>
            BY <1>2, <1>5
      <2>2. JobsInv'
            BY <1>1, <2>1 DEF JobsInv, JobTypes, JobsOwned, OneGeneration
      <2>3. EventsOwned'
            BY <1>1, <2>1, EventsKept
      <2> QED BY <1>1, <1>3, <2>1, <2>2, <2>3, SameAccount
<1> QED BY <1>4, <1>5

\* A key that arrives late is stored only with its own account, if that is the current one.
LEMMA KeyEventStep ==
    ASSUME KeysInv, HandleWireguardKeyEvent
    PROVE  KeysInv'
<1> DEFINE event == Head(keyEvents)
<1>1. /\ keyEvents \in Seq(WgKeyEvents) /\ keyEvents # <<>> /\ keyEvents' = Tail(keyEvents)
      /\ JobsInv /\ HistoryOK(history, generated, owner)
      /\ UNCHANGED <<account, savedAccount, running, generated, owner, job, currentJob, cancelled,
                     forgotten, faults>>
      BY TypesOf DEF KeysInv, KeysTypeOK, HandleWireguardKeyEvent
<1>2. /\ event \in WgKeyEvents /\ event.key <= generated /\ owner[event.key] = event.account
      /\ keyEvents' \in Seq(WgKeyEvents)
      <2>1. event = keyEvents[1] /\ 1 \in 1 .. Len(keyEvents) /\ event \in WgKeyEvents
            BY <1>1
      <2> QED BY <1>1, <2>1 DEF KeysInv, EventsOwned
<1>3. EventsOwned'
      <2>1. \A i \in 1 .. Len(keyEvents') : i + 1 \in 1 .. Len(keyEvents) /\ keyEvents'[i] = keyEvents[i + 1]
            BY <1>1
      <2> QED BY <1>1, <2>1 DEF KeysInv, EventsOwned
<1>4. JobsInv'
      BY <1>1 DEF JobsInv, JobTypes, JobsOwned, OneGeneration
<1> HIDE DEF event
<1>5. ASSUME account = event.account, NEW got \in Get(history, event.account),
             NEW put \in Insert(got.history, AccountEntry(event.account, event.key)), history' = put.history
      PROVE  KeysInv'
      <2> DEFINE entry == AccountEntry(event.account, event.key)
      <2>1. HistoryOK(got.history, generated, owner)
            BY <1>1, GetLemma
      <2>2. /\ entry \in AccountEntries /\ entry.account = account /\ EntryOK(entry, generated, owner)
            /\ account # NoAccount
            BY <1>2, <1>5, KeysAssumption DEF AccountEntry, AccountEntries, EntryOK, WgKeyEvents
      <2> HIDE DEF entry
      <2>3. HistoryOK(history', generated, owner) /\ OnTop(history', account)
            BY <1>5, <2>1, <2>2, InsertLemma DEF entry
      <2> QED BY <1>1, <1>2, <1>3, <1>4, <2>2, <2>3, SameAccount
<1>6. CASE history' = history
      <2>1. CASE "settings" \notin faults
            <3>1. OnTop(history', account)
                  BY <1>6, <2>1 DEF KeysInv, AccountOnTop
            <3> QED BY <1>1, <1>2, <1>3, <1>4, <1>6, <3>1, SameAccount
      <2>2. CASE "settings" \in faults
            <3>1. KeysTypeOK'
                  BY <1>1, <1>2, <1>4, <1>6, TypesOf DEF KeysInv, KeysTypeOK
            <3>2. AccountOnTop' /\ StaysForgotten'
                  BY <1>1, <1>6, <2>2 DEF KeysInv, AccountOnTop, StaysForgotten
            <3> QED BY <1>1, <1>3, <1>4, <1>6, <3>1, <3>2 DEF KeysInv, JobsInv
      <2> QED BY <2>1, <2>2
<1> QED BY <1>5, <1>6 DEF HandleWireguardKeyEvent, event

\* Removing another account leaves the current one first.
LEMMA RemoveStep ==
    ASSUME KeysInv, NEW a, OnRemoveAccountFromHistory(a)
    PROVE  KeysInv'
<1> DEFINE list == Without(history.accounts, a)
<1>1. /\ JobsInv /\ HistoryOK(history, generated, owner) /\ keyEvents' \in Seq(WgKeyEvents)
      /\ UNCHANGED <<account, savedAccount, running, generated, owner, job, currentJob, cancelled, keyEvents,
                     forgotten, faults>>
      BY TypesOf DEF KeysInv, KeysTypeOK, OnRemoveAccountFromHistory
<1>2. /\ list \in Seq(AccountEntries) /\ Len(list) <= Len(history.accounts) /\ Len(list) \in Nat
      /\ \A i \in 1 .. Len(list) :
            list[i].account # a /\ \E j \in 1 .. Len(history.accounts) : list[i] = history.accounts[j]
      /\ Distinct(list)
      /\ history.accounts # <<>> /\ history.accounts[1].account # a =>
            Len(list) > 0 /\ list[1] = history.accounts[1]
      BY <1>1, WithoutLemma DEF HistoryOK, ListOK
<1> HIDE DEF list
<1>3. ListOK(list, generated, owner)
      BY <1>1, <1>2, KeysAssumption DEF ListOK, HistoryOK
<1>4. PICK put \in SaveToDisk(list, history, NoEntry) : history' = put.history
      BY DEF OnRemoveAccountFromHistory, list
<1>5. /\ HistoryOK(history', generated, owner) /\ history'.accounts = list
      /\ history'.file \in {list, Torn} \/ "history" \in faults
      BY <1>1, <1>3, <1>4, SaveLemma
<1>6. OnTop(history, account) => OnTop(history', account)
      <2> SUFFICES ASSUME OnTop(history, account), Listed(history', account)
                   PROVE  list[1].account = account
          BY <1>5 DEF OnTop
      <2>1. PICK i \in 1 .. Len(list) : list[i].account = account
            BY <1>5 DEF Listed, Places
      <2>2. PICK j \in 1 .. Len(history.accounts) : list[i] = history.accounts[j]
            BY <1>2
      <2>3. account # a /\ Listed(history, account)
            BY <1>2, <2>1, <2>2 DEF Listed, Places
      <2>4. history.accounts[1].account = account /\ history.accounts # <<>>
            BY <2>2, <2>3 DEF OnTop
      <2> QED BY <1>2, <2>3, <2>4
<1>7. AccountOnTop'
      BY <1>1, <1>6 DEF KeysInv, AccountOnTop
<1>8. StaysForgotten'
      <2>1. history.accounts = <<>> => list = <<>>
            BY <1>2
      <2> QED BY <1>1, <1>5, <2>1 DEF KeysInv, StaysForgotten, Torn
<1>9. JobsInv' /\ EventsOwned'
      BY <1>1, EventsKept DEF JobsInv, JobTypes, JobsOwned, OneGeneration
<1>10. KeysTypeOK'
      BY <1>1, <1>5, <1>9, TypesOf DEF KeysInv, KeysTypeOK
<1> QED BY <1>1, <1>5, <1>7, <1>8, <1>9, <1>10 DEF KeysInv, JobsInv

\* Looking the current account up leaves it first.
LEMMA LookUpStep ==
    ASSUME KeysInv, LookUp
    PROVE  KeysInv'
<1>1. /\ JobsInv /\ HistoryOK(history, generated, owner) /\ keyEvents' \in Seq(WgKeyEvents)
      /\ UNCHANGED <<account, savedAccount, running, generated, owner, job, currentJob, cancelled, keyEvents,
                     forgotten, faults>>
      /\ account # NoAccount
      BY TypesOf DEF KeysInv, KeysTypeOK, LookUp
<1>2. HistoryOK(history', generated, owner) /\ OnTop(history', account)
      <2>1. PICK got \in Get(history, account) : history' = got.history
            BY DEF LookUp
      <2> QED BY <1>1, <2>1, GetLemma
<1>3. JobsInv' /\ EventsOwned'
      BY <1>1, EventsKept DEF JobsInv, JobTypes, JobsOwned, OneGeneration
<1> QED BY <1>1, <1>2, <1>3, SameAccount

\* A factory reset empties the list, the file and the settings.
LEMMA FactoryResetStep ==
    ASSUME KeysInv, OnFactoryReset
    PROVE  KeysInv'
<1>1. /\ JobsInv /\ HistoryOK(history, generated, owner) /\ keyEvents' \in Seq(WgKeyEvents)
      /\ UNCHANGED <<generated, owner, job, currentJob, cancelled, keyEvents, faults>>
      /\ account' = NoAccount /\ running' = FALSE /\ forgotten' = TRUE /\ faults \in FaultSets
      /\ savedAccount' \in Accounts \cup {NoAccount}
      /\ "settings" \notin faults => savedAccount' = NoAccount
      BY TypesOf DEF KeysInv, KeysTypeOK, OnFactoryReset
<1>2. PICK put \in SaveToDisk(<<>>, history, NoEntry) : history' = put.history
      BY DEF OnFactoryReset
<1>3. /\ HistoryOK(history', generated, owner) /\ history'.accounts = <<>>
      /\ history'.file = <<>> \/ "history" \in faults
      <2>1. ListOK(<<>>, generated, owner)
            BY EmptyListOK
      <2>2. /\ HistoryOK(put.history, generated, owner) /\ put.history.accounts = <<>>
            /\ put.history.file \in {<<>>, Torn} \/ "history" \in faults
            BY <1>1, <2>1, SaveLemma
      <2> QED BY <1>2, <2>2 DEF Torn
<1>4. JobsInv' /\ EventsOwned'
      BY <1>1, EventsKept DEF JobsInv, JobTypes, JobsOwned, OneGeneration
<1>5. AccountOnTop' /\ StaysForgotten'
      BY <1>1, <1>3, NoneOnTop DEF AccountOnTop, StaysForgotten
<1> QED BY <1>1, <1>3, <1>4, <1>5, TypesOf DEF KeysInv, JobsInv

\* A job only ever sends the key that was generated for its account.
LEMMA JobStep ==
    ASSUME KeysInv, NEW k \in Keys, UploadAnswered(k) \/ SendKeyEvent(k) \/ JobCancelled(k)
    PROVE  KeysInv'
<1>1. /\ JobsInv /\ HistoryOK(history, generated, owner) /\ keyEvents \in Seq(WgKeyEvents)
      /\ UNCHANGED <<account, savedAccount, history, running, generated, owner, currentJob, cancelled,
                     forgotten, faults>>
      BY TypesOf DEF KeysInv, KeysTypeOK, UploadAnswered, SendKeyEvent, JobCancelled
<1>2. PICK s \in {"Generated", "TooManyKeys", "Failed", "Over"} : job' = [job EXCEPT ![k] = s]
      BY DEF UploadAnswered, Answers, SendKeyEvent, JobCancelled
<1>3. job[k] # "Over"
      BY DEF UploadAnswered, SendKeyEvent, JobCancelled
<1>4. JobsInv'
      BY <1>1, <1>2, <1>3 DEF JobsInv, JobTypes, JobsOwned, OneGeneration
<1>5. keyEvents' \in Seq(WgKeyEvents) /\ EventsOwned'
      <2>1. CASE keyEvents' = keyEvents
            BY <1>1, <2>1, EventsKept
      <2>2. CASE SendKeyEvent(k)
            <3> DEFINE event == [account |-> owner[k], key |-> k, result |-> job[k]]
            <3>1. keyEvents' = Append(keyEvents, event)
                  BY <2>2 DEF SendKeyEvent
            <3>2. k <= generated /\ owner[k] \in Accounts /\ job[k] \in {"Generated", "TooManyKeys", "Failed"}
                  BY <1>1, <1>3, <2>2 DEF JobsInv, JobsOwned, SendKeyEvent
            <3>3. event \in WgKeyEvents /\ event.key = k /\ event.account = owner[k]
                  BY <3>2 DEF WgKeyEvents
            <3> HIDE DEF event
            <3>4. keyEvents' \in Seq(WgKeyEvents)
                  BY <1>1, <3>1, <3>3
            <3>5. /\ Len(keyEvents') = Len(keyEvents) + 1 /\ keyEvents'[Len(keyEvents) + 1] = event
                  /\ \A i \in 1 .. Len(keyEvents) : keyEvents'[i] = keyEvents[i]
                  BY <1>1, <3>1, <3>3
            <3>6. \A i \in 1 .. Len(keyEvents') : i \in 1 .. Len(keyEvents) \/ i = Len(keyEvents) + 1
                  BY <1>1, <3>5
            <3> QED BY <1>1, <3>2, <3>3, <3>4, <3>5, <3>6 DEF KeysInv, EventsOwned
      <2> QED BY <2>1, <2>2 DEF UploadAnswered, JobCancelled
<1>6. AccountOnTop' /\ StaysForgotten'
      BY <1>1 DEF KeysInv, AccountOnTop, StaysForgotten, OnTop, Listed, Places
<1>7. KeysTypeOK'
      BY <1>1, <1>4, <1>5, TypesOf DEF KeysInv, KeysTypeOK
<1> QED BY <1>1, <1>4, <1>5, <1>6, <1>7 DEF KeysInv, JobsInv

\* A restart goes on from what was saved.
LEMMA RestartStep ==
    ASSUME KeysInv, Restart
    PROVE  KeysInv'
<1> DEFINE new == AccountHistory(history.file, history.file, FALSE)
<1>1. /\ JobsInv /\ HistoryOK(history, generated, owner)
      /\ savedAccount \in Accounts \cup {NoAccount} /\ faults \in FaultSets /\ forgotten \in BOOLEAN
      /\ account' = savedAccount /\ running' = TRUE /\ keyEvents' = <<>> /\ cancelled' = {}
      /\ UNCHANGED <<savedAccount, forgotten, faults>>
      BY TypesOf DEF KeysInv, KeysTypeOK, Restart
<1>2. PICK got \in LookedUp(new, savedAccount) :
         /\ history' = got.history
         /\ IF savedAccount # NoAccount /\ (~got.ok \/ got.entry.wireguard = NoKey)
            THEN /\ NewKey(savedAccount)
                 /\ \E started \in {TRUE} \cup (IF "spawn" \in faults THEN {FALSE} ELSE {}) :
                       /\ job' = [k \in Keys |-> IF started /\ k = generated + 1
                                                THEN "Uploading" ELSE "Over"]
                       /\ currentJob' = IF started THEN generated + 1 ELSE NoKey
            ELSE /\ job' = [k \in Keys |-> "Over"]
                 /\ currentJob' = NoKey
                 /\ UNCHANGED <<generated, owner>>
      BY DEF Restart
<1>3. HistoryOK(new, generated, owner) /\ new.accounts = history.file /\ new.file = history.file
      BY <1>1 DEF AccountHistory, HistoryOK, ListOK
<1> HIDE DEF new
<1>4. HistoryOK(history', generated, owner) /\ OnTop(history', account')
      BY <1>1, <1>2, <1>3, LookedUpLemma
<1>5. HistoryOK(history', generated', owner') /\ JobsInv'
      <2>1. CASE savedAccount # NoAccount /\ NewKey(savedAccount)
            <3>1. savedAccount \in Accounts /\ JobTypes
                  BY <1>1, <2>1 DEF JobsInv
            <3>2. HistoryOK(history', generated', owner')
                  BY <1>4, <2>1, <3>1, NewKeyLemma
            <3>3. CASE /\ job' = [k \in Keys |-> IF k = generated + 1 THEN "Uploading" ELSE "Over"]
                       /\ currentJob' = generated + 1
                  <4>1. JobTypes'
                        BY <1>1, <2>1, <3>1, <3>3, NewKeyLemma DEF JobTypes
                  <4>2. JobsOwned'
                        BY <2>1, <3>1, <3>3, NewKeyLemma DEF JobsOwned, Keys, JobTypes
                  <4>3. OneGeneration'
                        BY <3>3 DEF OneGeneration
                  <4> QED BY <3>2, <4>1, <4>2, <4>3 DEF JobsInv
            <3>4. CASE job' = [k \in Keys |-> "Over"] /\ currentJob' = NoKey
                  <4>1. JobTypes'
                        BY <1>1, <2>1, <3>1, <3>4, NewKeyLemma DEF JobTypes
                  <4> QED BY <3>2, <3>4, <4>1 DEF JobsInv, JobsOwned, OneGeneration
            <3>5. \/ /\ job' = [k \in Keys |-> IF k = generated + 1 THEN "Uploading" ELSE "Over"]
                     /\ currentJob' = generated + 1
                  \/ job' = [k \in Keys |-> "Over"] /\ currentJob' = NoKey
                  BY <1>2, <2>1
            <3> QED BY <3>3, <3>4, <3>5
      <2>2. CASE UNCHANGED <<generated, owner>> /\ job' = [k \in Keys |-> "Over"] /\ currentJob' = NoKey
            BY <1>1, <1>4, <2>2 DEF JobsInv, JobTypes, JobsOwned, OneGeneration
      <2> QED BY <1>2, <2>1, <2>2
<1>6. keyEvents' \in Seq(WgKeyEvents) /\ EventsOwned'
      BY <1>1 DEF EventsOwned
<1>7. AccountOnTop'
      BY <1>1, <1>4 DEF AccountOnTop
<1>8. StaysForgotten'
      <2> SUFFICES ASSUME forgotten, {"settings", "history"} \cap faults = {}
                   PROVE  savedAccount = NoAccount /\ history'.accounts = <<>> /\ history'.file = <<>>
          BY <1>1 DEF StaysForgotten
      <2>1. savedAccount = NoAccount /\ history.file = <<>>
            BY DEF KeysInv, StaysForgotten
      <2>2. history' = new
            BY <1>2, <2>1 DEF LookedUp, Result
      <2> QED BY <1>3, <2>1, <2>2
<1> QED BY <1>1, <1>5, <1>6, <1>7, <1>8, TypesOf DEF KeysInv, JobsInv

-----------------------------------------------------------------------------
(* The theorems *)

\* It holds when the first process starts.
LEMMA KeysInvInit == KeysInit => KeysInv
<1> SUFFICES ASSUME KeysInit PROVE KeysInv
    OBVIOUS
<1>1. HistoryOK(history, generated, owner)
      BY EmptyListOK DEF KeysInit, HistoryOK, AccountHistory
<1>2. KeysTypeOK
      <2>1. Len(history.accounts) <= HistoryLimit /\ Len(history.file) <= HistoryLimit
            BY <1>1 DEF HistoryOK, ListOK
      <2>2. history \in [accounts : Seq(AccountEntries), file : Seq(AccountEntries), leftover : BOOLEAN]
            BY <1>1 DEF HistoryOK
      <2>3. generated \in 0 .. MaxKeys /\ keyEvents \in Seq(WgKeyEvents)
            BY KeysAssumption DEF KeysInit
      <2>4. /\ running \in BOOLEAN /\ forgotten \in BOOLEAN /\ cancelled \subseteq Keys
            /\ currentJob \in Keys \cup {NoKey} /\ faults \in FaultSets
            /\ owner \in [Keys -> Accounts \cup {NoAccount}]
            BY Zenon DEF KeysInit
      <2>5. job \in [Keys -> {"Uploading", "Generated", "TooManyKeys", "Failed", "Over"}]
            BY DEF KeysInit
      <2> QED BY <2>1, <2>2, <2>3, <2>4, <2>5 DEF KeysInit, KeysTypeOK
<1>3. JobsOwned /\ EventsOwned /\ OneGeneration
      BY DEF KeysInit, JobsOwned, EventsOwned, OneGeneration
<1>4. AccountOnTop /\ StaysForgotten
      BY <1>1, NoneOnTop DEF KeysInit, AccountOnTop, StaysForgotten
<1> QED BY <1>1, <1>2, <1>3, <1>4 DEF KeysInv

\* Every step keeps it.
LEMMA KeysInvNext ==
    ASSUME KeysInv, [KeysNext]_keyVars
    PROVE  KeysInv'
<1>1. CASE UNCHANGED keyVars
      BY <1>1 DEF keyVars, KeysInv, KeysTypeOK, JobsOwned, EventsOwned, OneGeneration, AccountOnTop,
         StaysForgotten, OnTop, Listed, Places
<1> QED BY <1>1, SetAccountStep, GenerateStep, KeyEventStep, RemoveStep, LookUpStep, FactoryResetStep, JobStep,
           RestartStep DEF KeysNext

\* So it always holds.
LEMMA KeysInvHolds == KeysSpec => []KeysInv
<1>1. KeysInit => KeysInv
      BY KeysInvInit
<1>2. KeysInv /\ [KeysNext]_keyVars => KeysInv'
      BY KeysInvNext
<1> QED BY <1>1, <1>2, PTL DEF KeysSpec

(***************************************************************************)
(* The account in use is not pushed off the list of recent accounts by an  *)
(* insertion, no account is listed twice, and every key in the list is     *)
(* stored with the account it was generated for, whatever was set, removed *)
(* or restarted while it was uploaded.                                     *)
(***************************************************************************)
THEOREM AccountsKeepTheirKeysHolds == KeysSpec => []AccountsKeepTheirKeys
<1>1. KeysInv => AccountsKeepTheirKeys
  <2> SUFFICES ASSUME KeysInv PROVE AccountsKeepTheirKeys
      OBVIOUS
  <2>1. CurrentAccountFirst
        BY DEF KeysInv, HistoryOK, ListOK, Distinct, AccountOnTop, OnTop, CurrentAccountFirst
  <2>2. KeysBelongToAccounts
        BY DEF KeysInv, HistoryOK, ListOK, EntryOK, KeysBelongToAccounts
  <2> QED BY <2>1, <2>2 DEF KeysInv, AccountsKeepTheirKeys
<1> QED BY <1>1, KeysInvHolds, PTL

(***************************************************************************)
(* Two key generations never compete: a job that is still uploading and    *)
(* was not told to stop is the current one of the key manager.             *)
(***************************************************************************)
THEOREM OneGenerationHolds == KeysSpec => []OneGeneration
<1>1. KeysInv => OneGeneration
      BY DEF KeysInv
<1> QED BY <1>1, KeysInvHolds, PTL

(***************************************************************************)
(* After a factory reset no late key event and no restart brings an        *)
(* account or a key back, if the files can be written.                     *)
(***************************************************************************)
THEOREM FactoryResetForgetsHolds == KeysSpec => []FactoryResetForgets
<1>1. KeysInv => FactoryResetForgets
      BY DEF KeysInv, StaysForgotten, FactoryResetForgets
<1> QED BY <1>1, KeysInvHolds, PTL
=============================================================================
