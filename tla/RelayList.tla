------------------------------ MODULE RelayList ------------------------------
(***************************************************************************)
(* The relay list: the file bundled with the program, the cache file, the    *)
(* list in memory and the thread that updates it, over starts, upgrades and  *)
(* kills of the daemon.  A list is known by the version the API served it    *)
(* under; 0 is the empty list.                                              *)
(***************************************************************************)
EXTENDS ApiClient

CONSTANTS
    MaxVersion,     \* bound: lists the API serves
    MaxTicks,       \* bound: hours that pass
    MaxJumps,       \* bound: times the clock is set back
    MaxBoots,       \* bound: starts of the daemon
    MaxUpgrades     \* bound: installations while the daemon is down

ASSUME BoundsAssumption == /\ MaxVersion \in Nat \ {0} /\ MaxBoots \in Nat \ {0}
                           /\ {MaxTicks, MaxJumps, MaxUpgrades} \subseteq Nat

VARIABLES
    server,         \* the version the API serves
    list,           \* parsed_relays: version and age
    cache,          \* relays.json in the cache directory; version -1 when it is not readable
    bundled,        \* relays.json among the resources
    cacheNewer,     \* the cache file was modified after the bundled one
    phase,          \* the daemon: "down", "resolving", "loading", "up", "dropped"
    updater,        \* its thread: "none", "waiting", "downloading", "creating", "writing", "installing"
    got,            \* the version downloaded
    ticks, jumps, boots, upgrades

listVars == <<server, list, cache, bundled, cacheNewer, phase, updater, got, ticks, jumps, boots, upgrades>>
boundVars == <<ticks, jumps, boots, upgrades>>

Empty      == [ver |-> 0, age |-> 1]
Unreadable == [ver |-> -1, age |-> 0]
Readable(file) == file.ver >= 0

ListInit ==
    /\ ApiInit
    /\ server \in 1 .. MaxVersion
    /\ list = Empty /\ cache = Unreadable
    /\ bundled \in {Unreadable, [ver |-> 1, age |-> 1]} /\ cacheNewer = FALSE
    /\ phase = "down" /\ updater = "none" /\ got = 0
    /\ ticks = 0 /\ jumps = 0 /\ boots = 0 /\ upgrades = 0

-----------------------------------------------------------------------------
(* The world                                                               *)

Publish ==
    /\ server < MaxVersion /\ server' = server + 1
    /\ UNCHANGED <<list, cache, bundled, cacheNewer, phase, updater, got, boundVars, apiVars>>

Move ==
    /\ ApiMoves
    /\ UNCHANGED listVars

\* An hour passes.
Older(x) == [x EXCEPT !.age = IF @ < 1 THEN @ + 1 ELSE 1]
TimePasses ==
    /\ ticks < MaxTicks /\ ticks' = ticks + 1
    /\ list' = Older(list) /\ cache' = Older(cache) /\ bundled' = Older(bundled)
    /\ addrFile' = Older(addrFile)
    /\ UNCHANGED <<server, cacheNewer, phase, updater, got, jumps, boots, upgrades, api, handle, kept, torn>>

\* The clock is set back, before everything that carries a time except the epoch of the
\* empty list and of an unreadable address file.
Future(x) == [x EXCEPT !.age = -1]
ClockSetBack ==
    /\ jumps < MaxJumps /\ jumps' = jumps + 1
    /\ list' = IF list = Empty THEN Empty ELSE Future(list)
    /\ cache' = Future(cache) /\ bundled' = Future(bundled) /\ addrFile' = Future(addrFile)
    /\ UNCHANGED <<server, cacheNewer, phase, updater, got, ticks, boots, upgrades, api, handle, kept, torn>>

\* A new version of the program brings a list as new as its files.
Upgrade ==
    /\ phase = "down" /\ upgrades < MaxUpgrades /\ upgrades' = upgrades + 1
    /\ \E v \in 1 .. server : bundled' = [ver |-> v, age |-> 0]
    /\ cacheNewer' = (Readable(cache) /\ cache.age < 0)
    /\ UNCHANGED <<server, list, cache, phase, updater, got, ticks, jumps, boots, apiVars>>

\* The daemon is killed, or its process ends while the thread still runs: a file being
\* written is left as it is.
Killed ==
    /\ phase # "down" /\ phase' = "down"
    /\ updater' = "none" /\ got' = 0 /\ list' = Empty
    /\ \/ UNCHANGED <<api, addrFile, kept, torn>> /\ handle' = None
       \/ /\ phase = "resolving" /\ Expired(load_initial_cached_address.age)
          /\ KilledResolving
    /\ UNCHANGED <<server, cache, bundled, cacheNewer, boundVars>>

-----------------------------------------------------------------------------
(* Start                                                                   *)

Start ==
    /\ phase = "down" /\ boots < MaxBoots /\ boots' = boots + 1
    /\ phase' = "resolving"
    /\ UNCHANGED <<server, list, cache, bundled, cacheNewer, updater, got, ticks, jumps, upgrades, apiVars>>

MakeHandle ==
    /\ phase = "resolving" /\ Resolve /\ phase' = "loading"
    /\ UNCHANGED <<server, list, cache, bundled, cacheNewer, updater, got, boundVars>>

\* Mutant: the cache is taken whenever its file is the newer one.
ReadsNewerFile == IF cacheNewer THEN cache ELSE bundled

\* read_relays_from_disk: the cache if it is readable and newer, or if the bundled list is
\* not readable.
read_relays_from_disk ==
    IF ~Readable(bundled) \/ (Readable(cache) /\ cacheNewer) THEN cache ELSE bundled

\* RelaySelector::new, and the first update.
NewRelaySelector ==
    /\ phase = "loading" /\ phase' = "up"
    /\ list' = IF Readable(read_relays_from_disk) THEN read_relays_from_disk ELSE Empty
    /\ updater' = "waiting"
    /\ UNCHANGED <<server, cache, bundled, cacheNewer, got, boundVars, apiVars>>

\* The daemon ends its loop and drops the selector; its process goes on for a while.
DropSelector ==
    /\ phase = "up" /\ phase' = "dropped"
    /\ UNCHANGED <<server, list, cache, bundled, cacheNewer, updater, got, boundVars, apiVars>>

-----------------------------------------------------------------------------
(* RelayListUpdater                                                        *)

UpdaterUnchanged == UNCHANGED <<server, bundled, phase, boundVars, apiVars>>

\* Mutant: a time in the future counts as fresh.
FutureIsFresh == list.age > 0

should_update == Expired(list.age)

\* wait_for_next_iteration: the timer ends, or an update was asked for; the list is only
\* downloaded when it is old enough.  Without its sender the thread ends.
Wakes ==
    /\ updater = "waiting"
    /\ \/ phase = "up" /\ should_update /\ updater' = "downloading"
       \/ phase = "dropped" /\ updater' = "none"
    /\ UNCHANGED <<list, cache, cacheNewer, got>> /\ UpdaterUnchanged

\* download_relay_list, within its fifteen seconds.  Only the API's own address answers.
Downloads ==
    /\ updater = "downloading"
    /\ \/ handle = api /\ got' = server /\ updater' = "creating"
       \/ updater' = "waiting" /\ UNCHANGED got
    /\ UNCHANGED <<list, cache, cacheNewer>> /\ UpdaterUnchanged

\* cache_relays: the file is emptied ...
CreatesCache ==
    /\ updater = "creating"
    /\ \/ cache' = Unreadable /\ updater' = "writing"
       \/ UNCHANGED cache /\ updater' = "installing"
    /\ UNCHANGED <<list, got, cacheNewer>> /\ UpdaterUnchanged

\* ... and written.  That it failed is only logged.
WritesCache ==
    /\ updater = "writing" /\ updater' = "installing"
    /\ \/ cache' = [ver |-> got, age |-> 0] /\ cacheNewer' = (~Readable(bundled) \/ bundled.age >= 0)
       \/ UNCHANGED <<cache, cacheNewer>>
    /\ UNCHANGED <<list, got>> /\ UpdaterUnchanged

\* The list in memory is replaced, and the frontends are told under the same lock.
Installs ==
    /\ updater = "installing" /\ updater' = "waiting"
    /\ list' = [ver |-> got, age |-> 0] /\ got' = 0
    /\ UNCHANGED <<cache, cacheNewer>> /\ UpdaterUnchanged

UpdaterStep == Wakes \/ Downloads \/ CreatesCache \/ WritesCache \/ Installs

WorldStep == Publish \/ Move \/ TimePasses \/ ClockSetBack \/ Upgrade
StartStep == Start \/ MakeHandle \/ NewRelaySelector \/ DropSelector

-----------------------------------------------------------------------------
ListTypeOK ==
    /\ api \in ApiAddresses /\ handle \in Addresses \cup {None}
    /\ addrFile.addr \in Addresses \cup TornContents \cup {None} /\ addrFile.age \in Ages
    /\ kept \in BOOLEAN /\ torn \in BOOLEAN
    /\ server \in 1 .. MaxVersion /\ list.ver \in 0 .. MaxVersion /\ list.age \in Ages
    /\ {cache.ver, bundled.ver} \subseteq -1 .. MaxVersion /\ {cache.age, bundled.age} \subseteq Ages
    /\ phase \in {"down", "resolving", "loading", "up", "dropped"}
    /\ updater \in {"none", "waiting", "downloading", "creating", "writing", "installing"}
    /\ got \in 0 .. server
    /\ (phase \in {"down", "resolving", "loading"}) => updater = "none"

\* While a readable list is bundled, a daemon that runs has relays: also after a kill that
\* left the cache file half written, whichever file is the newer one.
StartsWithRelays == phase = "up" /\ Readable(bundled) => list.ver > 0

\* While the daemon runs its list is only ever replaced by one as new, whatever happens to
\* the cache file meanwhile.
ListNeverGoesBack ==
    [][phase = "up" /\ phase' = "up" => list'.ver >= list.ver]_<<listVars, apiVars>>

\* A list that is too old, or as far as the clock tells from the future, is asked for
\* again, unless the daemon ends.
StaleIsRefreshed ==
    (phase = "up" /\ list.age # 0) ~> (updater = "downloading" \/ list.age = 0 \/ phase # "up")

\* The thread ends once the selector is dropped.
UpdaterEnds == (phase = "dropped") ~> (updater = "none")

\* The list only gets newer, is refreshed when it is old, and its thread ends with the daemon.
ListStaysFresh == ListNeverGoesBack /\ StaleIsRefreshed /\ UpdaterEnds
=============================================================================
