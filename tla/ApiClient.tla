------------------------------ MODULE ApiClient ------------------------------
(***************************************************************************)
(* The address the daemon uses for the API: resolved once when the daemon    *)
(* starts, from a file, the system's DNS or an address built in.            *)
(*                                                                         *)
(* Ages are classes: -1 is in the future (the clock was set back), 0 within  *)
(* the hour that both the address and the relay list stay fresh, 1 older.    *)
(***************************************************************************)
EXTENDS Integers

CONSTANTS
    Fallback,       \* API_IP
    ApiAddresses,   \* the addresses the API has had or will have
    BogusAddresses, \* private, loopback and unspecified addresses DNS may answer
    None            \* no address

ASSUME AddressAssumption ==
    /\ ApiAddresses # {} /\ ApiAddresses \cap BogusAddresses = {}
    /\ Fallback \notin BogusAddresses /\ None \notin ApiAddresses \cup BogusAddresses \cup {Fallback}

VARIABLES
    api,            \* the address that answers for the API now
    addrFile,       \* api-ip-address.txt: what it holds, None without, and its age
    handle,         \* the address of the HTTP handle, None while the daemon is down
    kept,           \* history: an address was saved, and its file is whole since
    torn            \* history: a write of the file was cut short

apiVars == <<api, addrFile, handle, kept, torn>>

Ages == -1 .. 1
Expired(age) == age # 0

\* What a write that was cut short leaves: nothing that parses, or another address.
TornContents == {"unreadable", "prefix"}
Addresses == ApiAddresses \cup {Fallback, "prefix"}

ApiInit ==
    /\ api \in ApiAddresses
    /\ addrFile = [addr |-> None, age |-> 0]
    /\ handle = None /\ kept = FALSE /\ torn = FALSE

\* load_initial_cached_address: a file that cannot be read or parsed counts as expired.
load_initial_cached_address ==
    IF addrFile.addr \in Addresses THEN addrFile ELSE [addr |-> Fallback, age |-> 1]

is_bogus_address(address) == address \in BogusAddresses

\* update_cache_file: creating it may fail, and so may writing it.
update_cache_file(address) ==
    \/ addrFile' = [addr |-> address, age |-> 0] /\ kept' = TRUE /\ UNCHANGED torn
    \/ UNCHANGED <<addrFile, torn>> /\ kept' = FALSE
    \/ /\ \E t \in TornContents : addrFile' = [addr |-> t, age |-> 0]
       /\ kept' = FALSE /\ torn' = TRUE

\* resolve and resolve_into_cache, when the handle is made: DNS answers the API's address
\* or a bogus one, or fails within its two seconds.
Resolve ==
    LET cached == load_initial_cached_address
    IN  /\ \/ /\ ~Expired(cached.age) /\ handle' = cached.addr /\ UNCHANGED <<addrFile, kept, torn>>
           \/ /\ Expired(cached.age)
              /\ handle' = cached.addr /\ UNCHANGED <<addrFile, kept, torn>>
           \/ /\ Expired(cached.age)
              /\ \E answer \in {api} \cup BogusAddresses :
                    IF is_bogus_address(answer)
                    THEN handle' = cached.addr /\ UNCHANGED <<addrFile, kept, torn>>
                    ELSE handle' = answer /\ update_cache_file(answer)
        /\ UNCHANGED api

\* The daemon is killed while it writes the file.
KilledResolving ==
    /\ \E t \in TornContents : addrFile' = [addr |-> t, age |-> 0]
    /\ kept' = FALSE /\ torn' = TRUE /\ UNCHANGED <<api, handle>>

\* The API moves to another address.
ApiMoves == api' \in ApiAddresses \ {api} /\ UNCHANGED <<addrFile, handle, kept, torn>>

-----------------------------------------------------------------------------
\* Whatever DNS answers, and at whatever step the daemon was killed before: the handle's
\* address is the built-in one or one that DNS gave and that is no bogus one, unless a
\* write of the file was cut short.
ApiAddressIsSound == ~torn => handle \in ApiAddresses \cup {Fallback, None}

\* An address that DNS gave outlives restarts: while its file is whole, however old, the
\* daemon does not go back to the built-in address (unless that is one of the API's).
KnownAddressSurvives == kept => handle \in ApiAddresses \cup {None}
=============================================================================
