---------------------------- MODULE OfflineMonitor ----------------------------
(***************************************************************************)
(* Whether the device is offline: the monitors of the three desktop           *)
(* platforms, the look the tunnel state machine takes itself when it is        *)
(* spawned, and the IsOffline commands in between.                            *)
(*                                                                         *)
(* The network is one interface that counts, with a running link and an       *)
(* address or without.                                                      *)
(***************************************************************************)
EXTENDS Naturals, Sequences

CONSTANT MaxChanges     \* bound: changes of the network, suspensions and resumptions

VARIABLES
    platform,           \* "linux", "macos" or "windows"
    net,                \* the interface: link and addr
    asleep,             \* the device is suspended (Windows)
    notices,            \* Linux and macOS: what the monitor has not been told yet
    callbacks,          \* Windows: the connectivity its callbacks have yet to report
    resumes,            \* Windows: threads that wait to report the end of a suspension
    monitor,            \* its view: offline on Linux, network_connectivity and suspended on Windows
    ended,              \* the Linux monitor has stopped
    look,               \* how far the looks are that the main thread and the monitor take
    begun,              \* start: "no", "monitor", "machine", "yes"
    commands,           \* IsOffline commands the machine has not handled
    is_offline,         \* what the machine goes by
    changes,
    blind,              \* history: a look failed
    differed,           \* history: the machine's first look differed from the monitor's view,
                        \* and no command has come since
    late                \* history: a suspension was reported over while the device slept

netVars  == <<net, asleep, changes>>
toldVars == <<notices, callbacks, resumes>>
viewVars == <<monitor, ended, look>>
machineVars == <<begun, commands, is_offline>>
historyVars == <<blind, differed, late>>
offlineVars == <<platform, netVars, toldVars, viewVars, machineVars, historyVars>>

Online == net.link /\ net.addr

Lookers == {"main", "monitor"}
Idle    == [who \in Lookers |-> "idle"]

OfflineInit ==
    /\ platform \in {"linux", "macos", "windows"}
    /\ net \in [link : BOOLEAN, addr : BOOLEAN] /\ (platform # "linux" => net.link)
    /\ asleep = FALSE /\ notices = 0 /\ callbacks = <<>> /\ resumes = 0
    /\ monitor = [offline |-> FALSE, network_connectivity |-> FALSE, suspended |-> FALSE]
    /\ ended = FALSE /\ look = Idle /\ begun = "no" /\ commands = <<>> /\ is_offline = FALSE
    /\ changes = 0 /\ blind = FALSE /\ differed = FALSE /\ late = FALSE

-----------------------------------------------------------------------------
(* The network                                                             *)

\* From here on changes are noticed: the socket is bound, the store's keys are registered,
\* the connectivity monitor is active.
Listening == /\ begun \in (IF platform = "linux" THEN {"monitor", "machine", "yes"} ELSE {"machine", "yes"})
             /\ ~ended

NetworkChanges ==
    /\ changes < MaxChanges /\ changes' = changes + 1
    /\ \/ net' = [net EXCEPT !.addr = ~@]
       \/ platform = "linux" /\ net' = [net EXCEPT !.link = ~@]
    /\ notices' = IF Listening /\ platform # "windows" THEN notices + 1 ELSE notices
    /\ callbacks' = IF Listening /\ platform = "windows"
                    THEN Append(callbacks, net'.link /\ net'.addr) ELSE callbacks
    /\ UNCHANGED <<platform, asleep, resumes, viewVars, machineVars, historyVars>>

-----------------------------------------------------------------------------
(* Linux                                                                   *)

Send(offline) == commands' = Append(commands, offline)

BindSocket ==
    /\ platform = "linux" /\ begun = "no" /\ begun' = "monitor"
    /\ UNCHANGED <<platform, netVars, toldVars, viewVars, commands, is_offline, historyVars>>

\* Mutant: only going offline is reported.
SendsOfflineOnly(offline) ==
    /\ monitor' = [monitor EXCEPT !.offline = offline]
    /\ IF offline /\ ~monitor.offline THEN Send(TRUE) ELSE UNCHANGED commands

set_is_offline(offline) ==
    /\ monitor' = [monitor EXCEPT !.offline = offline]
    /\ IF offline # monitor.offline THEN Send(offline) ELSE UNCHANGED commands

\* What a look is for: LinkMonitor::new, the machine's own, or LinkMonitor::update.
Looked(who, offline) ==
    CASE who = "main" /\ begun = "monitor" ->
            /\ monitor' = [monitor EXCEPT !.offline = offline] /\ begun' = "machine"
            /\ UNCHANGED <<commands, is_offline, differed>>
      [] who = "main" /\ begun = "machine" ->
            /\ is_offline' = offline /\ begun' = "yes" /\ differed' = (offline # monitor.offline)
            /\ UNCHANGED <<commands, monitor>>
      [] who = "monitor" -> set_is_offline(offline) /\ UNCHANGED <<begun, is_offline, differed>>

\* The main thread looks twice before the machine runs, the monitor's for every message.
MayLook(who) ==
    /\ platform = "linux" /\ look[who] = "idle"
    /\ IF who = "main" THEN begun \in {"monitor", "machine"} /\ UNCHANGED notices
       ELSE begun \in {"machine", "yes"} /\ notices > 0 /\ ~ended /\ notices' = notices - 1

\* check_if_offline reads the links, and the addresses only if some link is running.
LookAtLinks(who) ==
    /\ MayLook(who)
    /\ IF net.link THEN look' = [look EXCEPT ![who] = "links"] /\ UNCHANGED <<monitor, machineVars, differed>>
       ELSE Looked(who, TRUE) /\ UNCHANGED look
    /\ UNCHANGED <<platform, netVars, callbacks, resumes, ended, blind, late>>

LookAtAddresses(who) ==
    /\ look[who] = "links" /\ look' = [look EXCEPT ![who] = "idle"]
    /\ Looked(who, ~net.addr)
    /\ UNCHANGED <<platform, netVars, toldVars, ended, blind, late>>

\* is_offline takes a failure for being online.
LookFails(who) ==
    /\ \/ MayLook(who) \/ (look[who] = "links" /\ UNCHANGED notices)
    /\ look' = [look EXCEPT ![who] = "idle"]
    /\ Looked(who, FALSE) /\ blind' = TRUE
    /\ UNCHANGED <<platform, netVars, callbacks, resumes, ended, late>>

reset == Send(FALSE)

\* monitor_event_loop ends: the netlink connection has failed.
NetlinkFails ==
    /\ platform = "linux" /\ begun \in {"machine", "yes"} /\ ~ended /\ ended' = TRUE
    /\ look["monitor"] = "idle" /\ reset /\ notices' = 0
    /\ UNCHANGED <<platform, netVars, callbacks, resumes, monitor, look, begun, is_offline, historyVars>>

-----------------------------------------------------------------------------
(* macOS                                                                   *)

RegisterKeys ==
    /\ platform = "macos" /\ begun = "no" /\ begun' = "machine"
    /\ UNCHANGED <<platform, netVars, toldVars, viewVars, commands, is_offline, historyVars>>

\* primary_interface_change_callback: one call may stand for several changes.
PrimaryInterfaceChange ==
    /\ platform = "macos" /\ notices > 0 /\ notices' = 0
    /\ Send(~Online)
    /\ UNCHANGED <<platform, netVars, callbacks, resumes, viewVars, begun, is_offline, historyVars>>

-----------------------------------------------------------------------------
(* Windows                                                                 *)

is_offline_currently(state) == ~state.network_connectivity \/ state.suspended

\* SystemState::apply_change, under the lock.
apply_change(state) ==
    /\ monitor' = state
    /\ IF is_offline_currently(state) # is_offline_currently(monitor)
       THEN Send(is_offline_currently(state)) ELSE UNCHANGED commands

StartListener ==
    /\ platform = "windows" /\ begun = "no" /\ begun' = "monitor"
    /\ UNCHANGED <<platform, netVars, toldVars, viewVars, commands, is_offline, historyVars>>

\* setup_network_connectivity_listener
ActivateConnectivityMonitor ==
    /\ platform = "windows" /\ begun = "monitor" /\ begun' = "machine"
    /\ monitor' = [monitor EXCEPT !.network_connectivity = Online]
    /\ UNCHANGED <<platform, netVars, toldVars, ended, look, commands, is_offline, historyVars>>

ConnectivityCallback ==
    /\ callbacks # <<>> /\ callbacks' = Tail(callbacks)
    /\ apply_change([monitor EXCEPT !.network_connectivity = Head(callbacks)])
    /\ UNCHANGED <<platform, netVars, notices, resumes, ended, look, begun, is_offline, historyVars>>

Suspend ==
    /\ platform = "windows" /\ begun # "no" /\ ~asleep /\ asleep' = TRUE
    /\ changes < MaxChanges /\ changes' = changes + 1
    /\ apply_change([monitor EXCEPT !.suspended = TRUE])
    /\ UNCHANGED <<platform, net, toldVars, ended, look, begun, is_offline, historyVars>>

\* Every resumption has a thread of its own that waits for five seconds.
Resume ==
    /\ asleep /\ asleep' = FALSE /\ resumes' = resumes + 1
    /\ UNCHANGED <<platform, net, changes, notices, callbacks, viewVars, machineVars, historyVars>>

ResumeReported ==
    /\ resumes > 0 /\ resumes' = resumes - 1
    /\ apply_change([monitor EXCEPT !.suspended = FALSE])
    /\ late' = asleep
    /\ UNCHANGED <<platform, netVars, notices, callbacks, ended, look, begun, is_offline, blind, differed>>

-----------------------------------------------------------------------------
(* The tunnel state machine                                                *)

\* On macOS and Windows the machine's own look is one call; on Windows it may fail.
MachineLooks ==
    /\ platform # "linux" /\ begun = "machine" /\ begun' = "yes"
    /\ \/ is_offline' = ~Online /\ UNCHANGED blind
       \/ platform = "windows" /\ is_offline' = FALSE /\ blind' = TRUE
    /\ differed' = (platform = "windows" /\ is_offline' # is_offline_currently(monitor))
    /\ UNCHANGED <<platform, netVars, toldVars, viewVars, commands, late>>

HandleIsOffline ==
    /\ begun = "yes" /\ commands # <<>>
    /\ is_offline' = Head(commands) /\ commands' = Tail(commands) /\ differed' = FALSE
    /\ UNCHANGED <<platform, netVars, toldVars, viewVars, begun, blind, late>>

SpawnStep == BindSocket \/ RegisterKeys \/ StartListener \/ ActivateConnectivityMonitor

OfflineStep ==
    \/ SpawnStep \/ MachineLooks \/ HandleIsOffline
    \/ \E who \in Lookers : LookAtLinks(who) \/ LookAtAddresses(who)
    \/ PrimaryInterfaceChange \/ ConnectivityCallback \/ ResumeReported

NetworkStep == NetworkChanges \/ Suspend \/ Resume
OfflineFault == NetlinkFails \/ \E who \in Lookers : LookFails(who)

-----------------------------------------------------------------------------
OfflineTypeOK ==
    /\ platform \in {"linux", "macos", "windows"} /\ net \in [link : BOOLEAN, addr : BOOLEAN]
    /\ monitor \in [offline : BOOLEAN, network_connectivity : BOOLEAN, suspended : BOOLEAN]
    /\ look \in [Lookers -> {"idle", "links"}]
    /\ callbacks \in Seq(BOOLEAN) /\ commands \in Seq(BOOLEAN)
    /\ asleep \in BOOLEAN /\ ended \in BOOLEAN /\ is_offline \in BOOLEAN
    /\ blind \in BOOLEAN /\ differed \in BOOLEAN /\ late \in BOOLEAN
    /\ changes \in 0 .. MaxChanges /\ notices \in 0 .. MaxChanges /\ resumes \in 0 .. MaxChanges
    /\ begun \in {"no", "monitor", "machine", "yes"}
    /\ begun = "no" => commands = <<>> /\ look = Idle

\* Nothing is under way between the network and the machine.
Settled == /\ begun = "yes" /\ commands = <<>> /\ look = Idle
           /\ notices = 0 /\ callbacks = <<>> /\ resumes = 0

\* Once all news has arrived the machine goes by what is so, whenever the network changed
\* during the start or between the two reads of a look; unless the machine's first look
\* differed from the monitor's and nothing has been reported since.
KnowsTheNetwork ==
    Settled /\ ~ended /\ ~blind /\ ~differed /\ ~asleep => is_offline = ~Online

\* A device that sleeps is taken to be offline, unless the report of an earlier resumption
\* came after it went to sleep.
SleepIsOffline == Settled /\ asleep /\ ~late /\ ~differed => is_offline

\* A monitor that has failed leaves the machine online, whatever the machine saw first.
FailsOpen == ended /\ begun = "yes" /\ commands = <<>> => ~is_offline

\* What the machine knows of the network is so, awake, asleep and with a monitor that failed.
NetworkIsKnown == KnowsTheNetwork /\ SleepIsOffline /\ FailsOpen
=============================================================================
