------------------------------- MODULE Daemon -------------------------------
(***************************************************************************)
(* The daemon's event loop (src/mullvad-daemon/src/lib.rs) composed with   *)
(* the tunnel state machine.                                               *)
(*                                                                         *)
(* The daemon handles one event at a time from one queue: the transitions  *)
(* and the parameter requests of the tunnel state machine, the requests of *)
(* its clients, the reconnect timer and signals. It keeps its own copy of  *)
(* the tunnel state, which lags behind, and steers the machine with        *)
(* commands, which the machine handles later. Nothing else synchronises    *)
(* the two threads, but the machine waits for the parameters it asked for. *)
(***************************************************************************)
EXTENDS TunnelStateMachine

CONSTANTS
    Accounts,           \* account tokens
    NoAccount,          \* no account token
    EmptyAccount,       \* the account token ""
    Requests,           \* what clients may ask for, a subset of ManagementCommand
    MaxQueue,           \* requests are made while fewer events than this wait
    InitialSettings,    \* the allow_lan and block_when_disconnected to start with
    OfflineMonitor,     \* the platform's offline monitor keeps a command sender
    DaemonFaults        \* what may go wrong, a subset of AllDaemonFaults

\* save: the settings cannot be written.  relay: no parameters can be made.
\* management: the management interface's server dies.
AllDaemonFaults == {"save", "relay", "management"}

TargetState == {"Unsecured", "Secured"}

(***************************************************************************)
(* The requests that change state. ChangeTunnelOptions stands for the      *)
(* relay, bridge, IPv6, MSS and MTU settings: each restarts the tunnel if  *)
(* it changed.                                                             *)
(***************************************************************************)
ManagementCommand ==
    [name : {"SetTargetState"}, value : TargetState]
      \cup [name : {"SetAccount"}, value : Accounts \cup {NoAccount, EmptyAccount}]
      \cup [name : {"SetAllowLan", "SetBlockWhenDisconnected"}, value : BOOLEAN]
      \cup [name : {"ChangeTunnelOptions", "FactoryReset", "Shutdown"}]

ASSUME DaemonAssumption ==
    /\ {NoAccount, EmptyAccount} \cap Accounts = {}
    /\ NoAccount # EmptyAccount
    /\ Requests \subseteq ManagementCommand
    /\ MaxQueue \in Nat \ {0}
    /\ InitialSettings \subseteq [lan : BOOLEAN, block : BOOLEAN]
    /\ OfflineMonitor \in BOOLEAN
    /\ DaemonFaults \subseteq AllDaemonFaults

VARIABLES
    target,         \* target_state
    tunnelState,    \* tunnel_state: the last transition handled
    execution,      \* DaemonExecutionState, or Starting before run, Failed after an error
    queue,          \* the InternalDaemonEvents waiting
    timer,          \* reconnection_loop_tx: "Armed" while its thread waits
    late,           \* a reconnect thread has timed out but not yet sent its event
    account, lanSetting, blockSetting,      \* Settings
    reply,          \* what was sent to the waiting generator, if anything
    sender          \* the daemon still holds tunnel_command_tx

userSettings == <<account, lanSetting, blockSetting>>
reconnect    == <<timer, late>>
daemonVars   == <<target, tunnelState, execution, queue, reconnect, userSettings,
                  reply, sender>>
allVars      == <<vars, daemonVars>>

InternalDaemonEvent ==
    [event : {"TunnelStateTransition"}, transition : Transition]
      \cup [event : {"GenerateTunnelParameters"}]
      \cup [event : {"ManagementInterfaceEvent"}, command : ManagementCommand]
      \cup [event : {"ManagementInterfaceExited", "TriggerShutdown"}]

Request(c) == [event |-> "ManagementInterfaceEvent", command |-> c]
Looping    == execution \in {"Running", "Exiting"}

-----------------------------------------------------------------------------
(* What the handlers are made of *)

SendTunnelCommand(c) == commands' = Append(commands, c)

ConnectTunnel    == SendTunnelCommand([cmd |-> "Connect"])
DisconnectTunnel == SendTunnelCommand([cmd |-> "Disconnect"])

\* Mutant: the target is set but the machine is not told.
SetTargetStateUnsent(new) ==
    /\ target' = new
    /\ UNCHANGED commands

\* Mutant: the target is set but a blocked tunnel is not tried again.
SetTargetStateOnce(new) ==
    IF new # target
    THEN /\ target' = new
         /\ IF new = "Secured" THEN ConnectTunnel ELSE DisconnectTunnel
    ELSE UNCHANGED <<target, commands>>

SetTargetState(new) ==
    IF new # target \/ tunnelState.to = "Blocked"
    THEN /\ target' = new
         /\ IF new = "Secured" THEN ConnectTunnel ELSE DisconnectTunnel
    ELSE UNCHANGED <<target, commands>>

\* Mutant: settings changes connect a tunnel that is not wanted.
ReconnectAlways ==
    /\ UNCHANGED target
    /\ ConnectTunnel

ReconnectTunnel ==
    /\ UNCHANGED target
    /\ IF target = "Secured" THEN ConnectTunnel ELSE UNCHANGED commands

\* Mutant: a shutdown is not passed on to the tunnel.
TriggerShutdownQuietly ==
    /\ execution' = IF execution # "Running" THEN execution
                    ELSE IF tunnelState.to = "Disconnected" THEN "Finished" ELSE "Exiting"
    /\ UNCHANGED commands

TriggerShutdown ==
    /\ execution' = IF execution # "Running" THEN execution
                    ELSE IF tunnelState.to = "Disconnected" THEN "Finished" ELSE "Exiting"
    /\ DisconnectTunnel

\* Whether a changed setting gets saved; it is changed in memory either way.
Saved == IF "save" \in DaemonFaults THEN BOOLEAN ELSE {TRUE}

-----------------------------------------------------------------------------
(* The management commands: dropped unless the daemon is running *)

\* The settings take the empty token for none, the daemon for a new account.
OnSetAccount(new) ==
    /\ account' = IF new = EmptyAccount THEN NoAccount ELSE new
    /\ UNCHANGED <<execution, lanSetting, blockSetting>>
    /\ \E saved \in Saved :
          CASE account' = account \/ ~saved -> UNCHANGED <<target, commands>>
            [] account' # account /\ saved /\ new = NoAccount -> SetTargetState("Unsecured")
            [] OTHER -> ReconnectTunnel

OnSetAllowLan(new) ==
    /\ lanSetting' = new
    /\ UNCHANGED <<execution, target, account, blockSetting>>
    /\ \E saved \in Saved :
          IF new # lanSetting /\ saved
          THEN SendTunnelCommand([cmd |-> "AllowLan", value |-> new])
          ELSE UNCHANGED commands

\* Mutant: the extra kill switch is stored but the machine is not told.
OnSetBlockWhenDisconnectedUntold(new) ==
    /\ blockSetting' = new
    /\ UNCHANGED <<execution, target, account, lanSetting, commands>>

OnSetBlockWhenDisconnected(new) ==
    /\ blockSetting' = new
    /\ UNCHANGED <<execution, target, account, lanSetting>>
    /\ \E saved \in Saved :
          IF new # blockSetting /\ saved
          THEN SendTunnelCommand([cmd |-> "BlockWhenDisconnected", value |-> new])
          ELSE UNCHANGED commands

\* Relay settings, bridge settings and state, IPv6, MSS fix, MTU.
OnChangeTunnelOptions ==
    /\ UNCHANGED <<execution, userSettings>>
    /\ \E changed \in BOOLEAN, saved \in Saved :
          IF changed /\ saved THEN ReconnectTunnel ELSE UNCHANGED <<target, commands>>

\* The settings are reset and the daemon shuts down.
OnFactoryReset ==
    /\ account' = NoAccount
    /\ lanSetting' = FALSE
    /\ blockSetting' = FALSE
    /\ UNCHANGED target
    /\ TriggerShutdown

HandleManagementInterfaceEvent(c) ==
    /\ UNCHANGED <<tunnelState, timer, reply>>
    /\ \/ /\ execution # "Running"
          /\ UNCHANGED <<execution, target, userSettings, commands>>
       \/ /\ execution = "Running"
          /\ \/ /\ c.name = "SetTargetState"
                /\ SetTargetState(c.value)
                /\ UNCHANGED <<execution, userSettings>>
             \/ c.name = "SetAccount" /\ OnSetAccount(c.value)
             \/ c.name = "SetAllowLan" /\ OnSetAllowLan(c.value)
             \/ c.name = "SetBlockWhenDisconnected" /\ OnSetBlockWhenDisconnected(c.value)
             \/ c.name = "ChangeTunnelOptions" /\ OnChangeTunnelOptions
             \/ c.name = "FactoryReset" /\ OnFactoryReset
             \/ /\ c.name = "Shutdown"
                /\ TriggerShutdown
                /\ UNCHANGED <<target, userSettings>>

-----------------------------------------------------------------------------
(* The other events *)

\* Every transition cancels the reconnect timer; a failed authentication
\* starts a new one.
HandleTunnelStateTransition(transition) ==
    /\ tunnelState' = transition
    /\ timer' = IF transition.to = "Blocked" /\ transition.reason = "AuthFailed"
                THEN "Armed" ELSE "None"
    /\ execution' = IF transition.to = "Disconnected" /\ execution = "Exiting"
                    THEN "Finished" ELSE execution
    /\ UNCHANGED <<target, userSettings, commands, reply>>

\* Without an account, a matching relay, a bridge or a key nothing is sent and
\* the generator's receiver fails.
HandleGenerateTunnelParameters ==
    /\ \E answer \in IF account = NoAccount THEN {NoParameters}
                     ELSE TunnelParameters \cup
                            (IF "relay" \in DaemonFaults THEN {NoParameters} ELSE {}) :
          reply' = <<answer>>
    /\ UNCHANGED <<execution, target, tunnelState, timer, userSettings, commands>>

HandleDaemonEvent ==
    /\ Looping
    /\ queue # <<>>
    /\ queue' = Tail(queue)
    /\ output' = NoOutput
    /\ UNCHANGED <<late, sender>>
    /\ UNCHANGED <<machine, settings, fw, dns, handle, monitors, commandsOpen,
                   listening, requested>>
    /\ LET event == Head(queue) IN
       \/ /\ event.event = "TunnelStateTransition"
          /\ HandleTunnelStateTransition(event.transition)
       \/ /\ event.event = "GenerateTunnelParameters"
          /\ HandleGenerateTunnelParameters
       \/ /\ event.event = "ManagementInterfaceEvent"
          /\ HandleManagementInterfaceEvent(event.command)
       \/ /\ event.event = "ManagementInterfaceExited"
          /\ execution' = "Failed"
          /\ UNCHANGED <<target, tunnelState, timer, userSettings, commands, reply>>
       \/ /\ event.event = "TriggerShutdown"
          /\ TriggerShutdown
          /\ UNCHANGED <<target, tunnelState, timer, userSettings, reply>>

\* Daemon::run, up to its loop: auto_connect is a setting of its own.
Run ==
    /\ execution = "Starting"
    /\ execution' = "Running"
    /\ \E autoConnect \in BOOLEAN :
          IF autoConnect /\ account # NoAccount
          THEN SetTargetState("Secured")
          ELSE UNCHANGED <<target, commands>>
    /\ output' = NoOutput
    /\ UNCHANGED <<tunnelState, queue, reconnect, userSettings, reply, sender>>
    /\ UNCHANGED <<machine, settings, fw, dns, handle, monitors, commandsOpen,
                   listening, requested>>

\* The loop is left and the daemon dropped, its fields in their order: first
\* the command sender, then the receiver with the events still in it.
DropSender ==
    /\ execution \in {"Finished", "Failed"}
    /\ sender
    /\ sender' = FALSE
    /\ commandsOpen' = OfflineMonitor
    /\ output' = NoOutput
    /\ UNCHANGED <<target, tunnelState, execution, queue, reconnect, userSettings, reply>>
    /\ UNCHANGED <<machine, settings, fw, dns, handle, monitors, commands,
                   listening, requested>>

DropReceiver ==
    /\ ~sender
    /\ listening
    /\ listening' = FALSE
    /\ queue' = <<>>
    /\ output' = NoOutput
    /\ UNCHANGED <<target, tunnelState, execution, reconnect, userSettings, reply, sender>>
    /\ UNCHANGED <<machine, settings, fw, dns, handle, monitors, channel, requested>>

-----------------------------------------------------------------------------
(* The threads that send to the daemon *)

Enqueue(event) ==
    /\ queue' = IF listening THEN Append(queue, event) ELSE queue
    /\ output' = NoOutput
    /\ UNCHANGED <<machine, settings, fw, dns, handle, monitors, channel, listening,
                   requested>>

\* A client's request, a signal, or the end of the management interface.
ClientRequests ==
    /\ listening
    /\ Len(queue) < MaxQueue
    /\ Len(commands) < MaxCommands
    /\ \/ \E c \in Requests : Enqueue(Request(c))
       \/ Enqueue([event |-> "TriggerShutdown"])
       \/ /\ "management" \in DaemonFaults
          /\ Enqueue([event |-> "ManagementInterfaceExited"])
    /\ UNCHANGED <<target, tunnelState, execution, reconnect, userSettings, reply, sender>>

\* recv_timeout returns: from here on cancelling comes too late.
ReconnectTimesOut ==
    /\ timer = "Armed"
    /\ ~late
    /\ timer' = "None"
    /\ late' = TRUE
    /\ output' = NoOutput
    /\ UNCHANGED <<target, tunnelState, execution, queue, userSettings, reply, sender>>
    /\ UNCHANGED <<machine, settings, fw, dns, handle, monitors, channel, listening,
                   requested>>

SendReconnect ==
    /\ late
    /\ late' = FALSE
    /\ Enqueue(Request([name |-> "SetTargetState", value |-> "Secured"]))
    /\ UNCHANGED <<target, tunnelState, execution, timer, userSettings, reply, sender>>

-----------------------------------------------------------------------------
(* The tunnel state machine, connected to the daemon *)

\* Mutant: only settled states are reported.
DeliverSettled ==
    queue' = IF output' = NoOutput \/ ~listening \/ output'.to \in {"Disconnecting", "Connecting"}
             THEN queue
             ELSE IF output'.to = "Generate"
                  THEN Append(queue, [event |-> "GenerateTunnelParameters"])
                  ELSE Append(queue, [event |-> "TunnelStateTransition", transition |-> output'])

\* What the step sent goes to the queue, if the daemon still receives.
Deliver ==
    queue' = IF output' = NoOutput \/ ~listening THEN queue
             ELSE IF output'.to = "Generate"
                  THEN Append(queue, [event |-> "GenerateTunnelParameters"])
                  ELSE Append(queue, [event |-> "TunnelStateTransition", transition |-> output'])

TunnelStep ==
    /\ HandleEvent \/ MonitorThreads \/ OnTunnelEvent \/ DropEventSender
    /\ Deliver
    /\ UNCHANGED <<target, tunnelState, execution, reconnect, userSettings, reply, sender>>

\* MullvadTunnelParametersGenerator::generate returns: with the daemon's answer,
\* or without one because the daemon dropped the request.
ReceiveParameters ==
    /\ \/ reply # <<>> /\ Generated(Head(reply))
       \/ reply = <<>> /\ ~listening /\ Generated(NoParameters)
    /\ reply' = <<>>
    /\ Deliver
    /\ UNCHANGED <<target, tunnelState, execution, reconnect, userSettings, sender>>

OfflineNews ==
    /\ OfflineMonitor
    /\ \E value \in BOOLEAN : Send([cmd |-> "IsOffline", value |-> value])
    /\ UNCHANGED daemonVars

-----------------------------------------------------------------------------
DaemonInit ==
    /\ Init
    /\ target = "Unsecured"
    /\ tunnelState = [to |-> "Disconnected"]
    /\ execution = "Starting"
    /\ queue = <<>>
    /\ timer = "None" /\ late = FALSE
    /\ account \in Accounts \cup {NoAccount}
    /\ [lan |-> allowLan, block |-> blockWhenDisconnected] \in InitialSettings
    /\ ~OfflineMonitor => ~isOffline
    /\ lanSetting = allowLan
    /\ blockSetting = blockWhenDisconnected
    /\ reply = <<>>
    /\ sender = TRUE

DaemonNext ==
    \/ Run
    \/ HandleDaemonEvent
    \/ DropSender
    \/ DropReceiver
    \/ ClientRequests
    \/ ReconnectTimesOut
    \/ SendReconnect
    \/ TunnelStep
    \/ ReceiveParameters
    \/ OfflineNews

DaemonSpec == DaemonInit /\ [][DaemonNext]_allVars

(***************************************************************************)
(* Both threads and the threads around them run. No client has to ask for  *)
(* anything and no tunnel has to come up, but one that was told to close   *)
(* does, and the reconnect thread's timeout elapses.                       *)
(***************************************************************************)
DaemonFairness ==
    /\ WF_allVars(Run)
    /\ WF_allVars(HandleDaemonEvent)
    /\ WF_allVars(DropSender)
    /\ WF_allVars(DropReceiver)
    /\ WF_allVars(ReconnectTimesOut)
    /\ WF_allVars(SendReconnect)
    /\ WF_allVars(HandleEvent /\ TunnelStep)
    /\ WF_allVars(ReceiveParameters)
    /\ \A t \in Tunnels :
          /\ WF_allVars(t \in closing /\ MonitorExit(t) /\ TunnelStep)
          /\ WF_allVars(SendCloseEvent(t) /\ TunnelStep)

FairDaemonSpec == DaemonSpec /\ DaemonFairness

-----------------------------------------------------------------------------
(* Properties *)

\* Every variable of the daemon has its type: no empty account token is
\* ever kept.
DaemonTypeOK ==
    /\ target \in TargetState
    /\ tunnelState \in Transition
    /\ execution \in {"Starting", "Running", "Exiting", "Finished", "Failed"}
    /\ queue \in Seq(InternalDaemonEvent)
    /\ timer \in {"None", "Armed"} /\ late \in BOOLEAN
    /\ account \in Accounts \cup {NoAccount}
    /\ lanSetting \in BOOLEAN /\ blockSetting \in BOOLEAN
    /\ reply \in Seq(TunnelParameters \cup {NoParameters})
    /\ sender \in BOOLEAN

\* The last command of these kinds that the machine has not handled yet.
LatestWaiting(kinds, i) ==
    /\ i \in 1 .. Len(commands)
    /\ commands[i].cmd \in kinds
    /\ \A j \in i + 1 .. Len(commands) : commands[j].cmd \notin kinds

NoneWaiting(kinds) == \A i \in 1 .. Len(commands) : commands[i].cmd \notin kinds

Orders == {"Connect", "Disconnect"}

(***************************************************************************)
(* The order that matters, the last one sent whether handled or not, is    *)
(* the one the target state calls for, or Disconnect once the daemon shuts *)
(* down: no request is lost between the target, the stale copy of the      *)
(* tunnel state and the machine, and no setting change, timer or restart   *)
(* connects a tunnel nobody wants.                                         *)
(***************************************************************************)
OrdersFollowTarget ==
    execution # "Failed" =>
       LET wanted == IF execution \in {"Starting", "Running"} /\ target = "Secured"
                     THEN "Connect" ELSE "Disconnect"
       IN  /\ \A i \in 1 .. Len(commands) :
                LatestWaiting(Orders, i) => commands[i].cmd = wanted
           /\ NoneWaiting(Orders) => requested = wanted

(***************************************************************************)
(* While the target is Secured the computer does not leak, as the target   *)
(* state promises: once the machine has handled its orders and is not just *)
(* asking for the parameters, a firewall policy is in force.               *)
(***************************************************************************)
SecuredIsSealed ==
    /\ execution = "Running" /\ target = "Secured"
    /\ NoneWaiting(Orders) /\ state # "Generating"
    => firewall.kind # "None" \/ firewallErr

\* The transition is the last in the queue that the daemon has not handled yet.
IsTransition(e) == e.event = "TunnelStateTransition"
LastTransition(i) ==
    IsTransition(queue[i]) /\ \A j \in i + 1 .. Len(queue) : ~IsTransition(queue[j])

(***************************************************************************)
(* The daemon's copy of the tunnel state lags but is not lost or           *)
(* reordered: with the transitions still in the queue it ends in the state *)
(* the machine is in, and with the reason it is blocked for.               *)
(***************************************************************************)
CopyCatchesUp ==
    listening /\ state # "Generating" =>
       LET TellsState(last) ==
              /\ state \notin {"Finished", "Stopped"} => last.to = state
              /\ state = "Blocked" => last.reason = blockReason
       IN  /\ \A i \in 1 .. Len(queue) : LastTransition(i) => TellsState(queue[i].transition)
           /\ (\A i \in 1 .. Len(queue) : ~IsTransition(queue[i])) => TellsState(tunnelState)

(***************************************************************************)
(* The daemon's settings and the machine's copies of them agree once the   *)
(* commands that carry them are handled, provided settings can be saved.   *)
(***************************************************************************)
SettingsReachTunnel ==
    "save" \notin DaemonFaults /\ execution \in {"Starting", "Running"} =>
       /\ \A i \in 1 .. Len(commands) :
             /\ LatestWaiting({"AllowLan"}, i) => commands[i].value = lanSetting
             /\ LatestWaiting({"BlockWhenDisconnected"}, i) => commands[i].value = blockSetting
       /\ NoneWaiting({"AllowLan"}) => allowLan = lanSetting
       /\ NoneWaiting({"BlockWhenDisconnected"}) => blockWhenDisconnected = blockSetting

(***************************************************************************)
(* send_tunnel_command expects the machine's thread to be there: the       *)
(* daemon never sends to one that has ended.                               *)
(***************************************************************************)
MachineOutlivesLoop ==
    execution \in {"Starting", "Running", "Exiting"} => state \notin {"Finished", "Stopped"}

(***************************************************************************)
(* The loop and the machine lose nothing of each other: no transition, and *)
(* not the machine's thread while commands may be sent to it.              *)
(***************************************************************************)
LoopAndMachineAgree == CopyCatchesUp /\ MachineOutlivesLoop

(***************************************************************************)
(* A daemon that was told to shut down leaves its main loop, if the        *)
(* machine's command channel does not stay busy.                           *)
(***************************************************************************)
ShutdownCompletes ==
    <>[](commands = <<>>) => (execution = "Exiting" ~> execution \in {"Finished", "Failed"})

(***************************************************************************)
(* After a failed authentication the tunnel is tried again, unless the     *)
(* user or a shutdown changes course first.                                *)
(***************************************************************************)
AuthFailureIsRetried ==
    <>[](commands = <<>>) =>
       (state = "Blocked" /\ blockReason = "AuthFailed" ~>
           state # "Blocked" \/ execution \notin {"Starting", "Running"})

(***************************************************************************)
(* Settings::block_when_disconnected: when this setting is on, the         *)
(* disconnected state blocks the firewall, unless the setting could not be *)
(* saved or the firewall refuses.                                          *)
(***************************************************************************)
BlockWhenDisconnectedBlocks ==
    /\ execution = "Running" /\ blockSetting /\ "save" \notin DaemonFaults
    /\ state = "Disconnected" /\ commands = <<>> /\ ~firewallErr
    => firewall.kind = "Blocked"

(***************************************************************************)
(* Settings that were saved reach the machine, and through it the firewall.*)
(***************************************************************************)
SettingsTakeEffect == DaemonTypeOK /\ SettingsReachTunnel /\ BlockWhenDisconnectedBlocks

=============================================================================
