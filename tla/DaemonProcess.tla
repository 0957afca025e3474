---------------------------- MODULE DaemonProcess ----------------------------
(***************************************************************************)
(* The life of a daemon process, over several starts: the check for another   *)
(* instance, the management interface, the settings, the monitor of the        *)
(* network and the tunnel state machine, the loop, and the way out; and on     *)
(* Windows the service around it.  What the loop does is module Daemon's.      *)
(***************************************************************************)
EXTENDS OfflineMonitor, SettingsFile, ManagementInterface

CONSTANTS
    MaxLaunches,        \* bound: starts of the process
    MaxRequests,        \* bound: changes of the settings
    Scenarios           \* bound: in one behaviour one part of the surroundings acts, of
                        \* "network", "settings", "clients" and "service"

ASSUME ProcessAssumption ==
    /\ {MaxLaunches, MaxRequests, MaxChanges, MaxEvents, Capacity} \subseteq Nat
    /\ Scenarios \subseteq {"network", "settings", "clients", "service"}

VARIABLES
    scenario,
    phase,              \* "off", "checked", "serving", "loaded", "running", "dropped", "called",
                        \* "finalized", "failed", "stopped"
    ending,             \* why the loop shall end: "no", "request", "trigger", "reset"
    exit,               \* how the last process ended: "none", "ok", "error"
    rival,              \* another process: "off", "checked", "serving"
    overlap,            \* history: both had looked for the other before either listened
    status,             \* the state of the service as it was reported last
    controls,           \* a stop control: "none", "sent", or "taken" by the event monitor
    stopper,            \* the event monitor's thread: "idle", "store", "trigger"
    clean_shutdown,
    launches, requests

serviceVars == <<status, controls, stopper, clean_shutdown>>
processVars == <<scenario, phase, ending, exit, rival, overlap, launches, requests>>
vars == <<processVars, serviceVars, offlineVars, settingsVars, interfaceVars>>

Up == phase # "off"
IsService == platform = "windows"

Init ==
    /\ OfflineInit /\ SettingsInit /\ InterfaceInit
    /\ scenario \in Scenarios
    /\ scenario # "settings" => file = V2(Default)
    /\ scenario # "network" => net = [link |-> TRUE, addr |-> TRUE]
    /\ scenario = "clients" => platform = "linux"
    /\ scenario = "service" => platform = "windows"
    /\ phase = "off" /\ ending = "no" /\ exit = "none" /\ rival = "off" /\ overlap = FALSE
    /\ status = "Stopped" /\ controls = "none" /\ stopper = "idle" /\ clean_shutdown = FALSE
    /\ launches = 0 /\ requests = 0

-----------------------------------------------------------------------------
(* Start                                                                   *)

\* Another daemon is one that can be connected to.
is_another_instance_running(answers) == answers

Launch ==
    /\ phase = "off" /\ launches < MaxLaunches /\ launches' = launches + 1
    /\ IF is_another_instance_running(rival = "serving")
       THEN phase' = "off" /\ exit' = "error" /\ UNCHANGED <<overlap, serviceVars>>
       ELSE /\ phase' = "checked" /\ exit' = "none" /\ overlap' = (rival = "checked")
            /\ status' = "StartPending" /\ controls' = "none" /\ stopper' = "idle" /\ clean_shutdown' = FALSE
    /\ ending' = "no"
    /\ UNCHANGED <<scenario, rival, requests, offlineVars, settingsVars, interfaceVars>>

StartManagementInterface ==
    /\ phase = "checked" /\ phase' = "serving" /\ server' = "open"
    /\ UNCHANGED <<scenario, ending, exit, rival, overlap, launches, requests, serviceVars, offlineVars, settingsVars,
                   subscriptions, connected, queue, notifying, sent, seen>>

LoadSettings ==
    /\ phase = "serving" /\ Load(IsService) /\ phase' = "loaded"
    /\ UNCHANGED <<scenario, ending, exit, rival, overlap, launches, requests, serviceVars, offlineVars, interfaceVars>>

\* The machine is spawned once the settings are loaded.
Spawn ==
    /\ phase = "loaded" /\ saving = "no" /\ OfflineStep
    /\ UNCHANGED <<processVars, serviceVars, settingsVars, interfaceVars>>

Run ==
    /\ phase = "loaded" /\ begun = "yes" /\ phase' = "running" /\ status' = "Running"
    /\ UNCHANGED <<scenario, ending, exit, rival, overlap, launches, requests, controls, stopper, clean_shutdown,
                   offlineVars, settingsVars, interfaceVars>>

\* The server, the account history or the machine cannot be started: the broadcaster is
\* dropped if there is one, and the process ends.
StartFails ==
    /\ phase \in {"checked", "loaded"} /\ saving = "no" /\ phase' = "failed"
    /\ IF server = "open" THEN CloseServer ELSE UNCHANGED interfaceVars
    /\ UNCHANGED <<scenario, ending, exit, rival, overlap, launches, requests, serviceVars, offlineVars, settingsVars>>

-----------------------------------------------------------------------------
(* The loop, seen from outside                                             *)

KeepsRunning == UNCHANGED <<scenario, phase, exit, rival, overlap, launches, serviceVars, offlineVars, interfaceVars>>

ChangeSettings ==
    /\ phase = "running" /\ scenario = "settings" /\ requests < MaxRequests /\ requests' = requests + 1
    /\ \/ Change /\ UNCHANGED ending
       \/ Reset /\ ending' = "reset"
    /\ KeepsRunning

Saves ==
    /\ phase \in {"loaded", "running"} /\ SaveStep
    /\ UNCHANGED <<ending, requests>> /\ KeepsRunning

\* The RPC shutdown, or a signal.
RequestShutdown ==
    /\ phase = "running" /\ ending = "no" /\ ending' = "request"
    /\ UNCHANGED <<requests, settingsVars>> /\ KeepsRunning

\* The loop ends, and all of the daemon but its broadcaster is dropped.
EndLoop ==
    /\ phase = "running" /\ ending # "no" /\ (saving = "no" \/ (saving = "answer" /\ purpose = "reset"))
    /\ notifying["loop"] = {} /\ phase' = "dropped"
    /\ UNCHANGED <<scenario, ending, exit, rival, overlap, launches, requests, serviceVars, offlineVars,
                   settingsVars, interfaceVars>>

\* The updater's thread ends, by itself once the daemon dropped the selector, or in a panic:
\* its copy of the broadcaster is dropped.
UpdaterThreadEnds ==
    /\ phase \in {"running", "dropped", "called"} /\ server = "open" /\ CloseServer
    /\ UNCHANGED <<processVars, serviceVars, offlineVars, settingsVars>>

\* ManagementInterfaceExited is an error: the loop is left at once.
InterfaceExited ==
    /\ phase = "running" /\ server = "closed" /\ notifying["loop"] = {}
    /\ saving = "no" \/ (saving = "answer" /\ purpose = "reset")
    /\ phase' = "failed"
    /\ UNCHANGED <<scenario, ending, exit, rival, overlap, launches, requests, serviceVars, offlineVars,
                   settingsVars, interfaceVars>>

\* finalize: the callback of a reset answers it, if the server is still there.
RunCallbacks ==
    /\ phase = "dropped" /\ phase' = "called"
    /\ IF saving = "answer" /\ server = "open" THEN Answer ELSE UNCHANGED settingsVars
    /\ UNCHANGED <<scenario, ending, exit, rival, overlap, launches, requests, serviceVars, offlineVars, interfaceVars>>

DropListener ==
    /\ phase = "called" /\ phase' = "finalized" /\ CloseServer
    /\ UNCHANGED <<scenario, ending, exit, rival, overlap, launches, requests, serviceVars, offlineVars, settingsVars>>

-----------------------------------------------------------------------------
(* The end of the process                                                  *)

\* run_service: without a stop control the service is to be started again.
EndsWell == phase = "finalized" /\ (IsService => clean_shutdown)

\* The daemon has returned; the service reports that it has stopped.
Return ==
    /\ phase \in {"finalized", "failed"} /\ phase' = "stopped"
    /\ exit' = IF EndsWell THEN "ok" ELSE "error"
    /\ status' = "Stopped"
    /\ UNCHANGED <<scenario, ending, rival, overlap, launches, requests, controls, stopper, clean_shutdown,
                   offlineVars, settingsVars, interfaceVars>>

\* The process is gone, and with it everything it had.  (A device that sleeps wakes up
\* before the next start.)
Gone ==
    /\ phase' = "off" /\ KilledSaving
    /\ server' = "none" /\ subscriptions' = {} /\ connected' = {} /\ queue' = [c \in Clients |-> <<>>]
    /\ notifying' = [t \in Threads |-> {}] /\ UNCHANGED <<sent, seen>>
    /\ notices' = 0 /\ callbacks' = <<>> /\ resumes' = 0 /\ look' = Idle /\ ended' = FALSE
    /\ monitor' = [offline |-> FALSE, network_connectivity |-> FALSE, suspended |-> FALSE]
    /\ begun' = "no" /\ commands' = <<>> /\ is_offline' = FALSE
    /\ asleep' = FALSE /\ blind' = FALSE /\ differed' = FALSE /\ late' = FALSE
    /\ status' = "Stopped" /\ controls' = "none" /\ stopper' = "idle" /\ clean_shutdown' = FALSE
    /\ ending' = "no"
    /\ UNCHANGED <<platform, net, changes, scenario, rival, overlap, launches, requests>>

ProcessExits == phase = "stopped" /\ Gone /\ UNCHANGED exit

Killed == Up /\ scenario # "network" /\ Gone /\ exit' = "error"

-----------------------------------------------------------------------------
(* The Windows service                                                     *)

ServiceUnchanged == UNCHANGED <<scenario, phase, exit, rival, overlap, launches, requests,
                                offlineVars, settingsVars, interfaceVars>>

\* Stop and preshutdown; the service never reports that it is paused.
accepted_controls_by_state(state) == state = "Running"

\* The system only sends controls the service accepts in the state it reported.
StopControl ==
    /\ scenario = "service" /\ accepted_controls_by_state(status) /\ controls = "none" /\ controls' = "sent"
    /\ UNCHANGED <<ending, status, stopper, clean_shutdown>> /\ ServiceUnchanged

\* The event monitor reports ...
ReportPendingStop ==
    /\ controls = "sent" /\ controls' = "taken" /\ status' = "StopPending" /\ stopper' = "store"
    /\ UNCHANGED <<ending, clean_shutdown>> /\ ServiceUnchanged

\* ... remembers that the stop was asked for ...
StoreCleanShutdown ==
    /\ stopper = "store" /\ stopper' = "trigger" /\ clean_shutdown' = TRUE
    /\ UNCHANGED <<ending, status, controls>> /\ ServiceUnchanged

\* Mutant: the daemon is not told.
OnlyRemembers ==
    /\ stopper = "trigger" /\ stopper' = "idle"
    /\ UNCHANGED <<ending, status, controls, clean_shutdown>> /\ ServiceUnchanged

\* ... and tells the daemon, which may be ending already.
TriggerShutdown ==
    /\ stopper = "trigger" /\ stopper' = "idle"
    /\ ending' = IF phase = "running" /\ ending = "no" THEN "trigger" ELSE ending
    /\ UNCHANGED <<status, controls, clean_shutdown>> /\ ServiceUnchanged

-----------------------------------------------------------------------------
(* Another daemon                                                          *)

RivalStep ==
    /\ scenario = "service"
    /\ \/ /\ rival = "off" /\ ~is_another_instance_running(server = "open")
          /\ rival' = "checked" /\ overlap' = (phase = "checked")
       \/ rival = "checked" /\ rival' = "serving" /\ UNCHANGED overlap
       \/ rival # "off" /\ rival' = "off" /\ UNCHANGED overlap
    /\ UNCHANGED <<scenario, phase, ending, exit, launches, requests, serviceVars, offlineVars,
                   settingsVars, interfaceVars>>

-----------------------------------------------------------------------------
(* The surroundings                                                        *)

Network ==
    /\ scenario = "network" /\ phase \in {"loaded", "running"} /\ (NetworkStep \/ OfflineFault)
    /\ UNCHANGED <<processVars, serviceVars, settingsVars, interfaceVars>>

MonitorAndMachine ==
    /\ phase = "running" /\ OfflineStep
    /\ UNCHANGED <<processVars, serviceVars, settingsVars, interfaceVars>>

Update ==
    /\ scenario = "settings" /\ IsService /\ phase = "off" /\ WindowsUpdate
    /\ UNCHANGED <<processVars, serviceVars, offlineVars, interfaceVars>>

ClientsAndEvents ==
    /\ scenario = "clients" /\ phase \in {"loaded", "running", "dropped"}
    /\ \/ ClientStep \/ Delivery
       \/ \E t \in Threads : (phase = "running" \/ t = "updater") /\ Notify(t)
    /\ UNCHANGED <<processVars, serviceVars, offlineVars, settingsVars>>

Next ==
    \/ Launch \/ StartManagementInterface \/ LoadSettings \/ Spawn \/ Run \/ StartFails
    \/ ChangeSettings \/ Saves \/ RequestShutdown \/ EndLoop \/ UpdaterThreadEnds \/ InterfaceExited
    \/ RunCallbacks \/ DropListener \/ Return \/ ProcessExits \/ Killed
    \/ StopControl \/ ReportPendingStop \/ StoreCleanShutdown \/ TriggerShutdown \/ RivalStep
    \/ Network \/ MonitorAndMachine \/ Update \/ ClientsAndEvents

\* The threads of the process run; nothing is assumed of users, the system or faults.
Fairness ==
    /\ WF_vars(EndLoop \/ InterfaceExited \/ RunCallbacks \/ DropListener \/ Return \/ ProcessExits)
    /\ WF_vars(ReportPendingStop \/ StoreCleanShutdown \/ TriggerShutdown)

Spec == Init /\ [][Next]_vars /\ Fairness

-----------------------------------------------------------------------------
OwnTypeOK ==
    /\ phase \in {"off", "checked", "serving", "loaded", "running", "dropped", "called",
                 "finalized", "failed", "stopped"}
    /\ ending \in {"no", "request", "trigger", "reset"} /\ exit \in {"none", "ok", "error"}
    /\ rival \in {"off", "checked", "serving"} /\ overlap \in BOOLEAN
    /\ status \in {"Stopped", "StartPending", "Running", "StopPending"}
    /\ controls \in {"none", "sent", "taken"} /\ stopper \in {"idle", "store", "trigger"}
    /\ clean_shutdown \in BOOLEAN

\* Every variable has its type, and nothing of a process is left when it is gone.
ProcessTypeOK ==
    /\ OfflineTypeOK /\ SettingsTypeOK /\ InterfaceTypeOK /\ OwnTypeOK
    /\ phase = "off" => server = "none" /\ saving = "no" /\ begun = "no" /\ controls = "none"

\* What the daemon starts with is what it promised to have saved, or what was asked for
\* last: over kills, failing saves, resets, the change of format and Windows updates; unless
\* the file was cut short, could not be copied, or had an old copy when it was removed.
SettingsSurvive ==
    [][phase = "serving" /\ phase' = "loaded" /\ ~cut' => settings' \in {acked, asked}]_vars

\* A service whose loop ended because the system asked it to stop ends well, and is not
\* started again; a service nobody asked to stop never ends well.
StopIsClean ==
    [][phase # "stopped" /\ phase' = "stopped" /\ IsService =>
        /\ phase = "finalized" /\ ending = "trigger" => exit' = "ok"
        /\ exit' = "ok" => controls = "taken"]_vars

\* Two daemons only ever listen at once if both looked for the other before either did.
OneDaemon == server = "open" /\ rival = "serving" => overlap

\* Clients talk to one daemon and miss none of its events.
ClientsAreServed == ProcessTypeOK /\ OneDaemon /\ NoEventIsLost

\* A service that was asked to stop stops.
StopControlStops == (controls = "sent") ~> (status = "Stopped")

\* A stop control stops the service, and the system is told that it was meant to.
StopsWhenAsked == StopIsClean /\ StopControlStops
=============================================================================
