------------------------- MODULE TunnelStateMachine -------------------------
(***************************************************************************)
(* The tunnel state machine of talpid-core (src/talpid-core/src/           *)
(* tunnel_state_machine): the thread that owns the firewall, the DNS       *)
(* monitor and the tunnel, and that turns tunnel commands, tunnel events   *)
(* and the exit of the tunnel into state transitions.                      *)
(*                                                                         *)
(* One step of the thread is one call of handle_event, which is atomic to  *)
(* everybody else, except that ConnectingState::enter waits in the middle  *)
(* for the tunnel parameters: the machine is then in state "Generating".   *)
(* Around it run the threads that wait for a tunnel to exit, the threads   *)
(* that close a tunnel, the tunnel's event callbacks and the senders of    *)
(* commands.                                                               *)
(***************************************************************************)
EXTENDS Naturals, Sequences, FiniteSets

CONSTANTS
    Tunnels,            \* identities of tunnel monitors
    TunnelParameters,   \* what the generator may answer
    NoTunnel,           \* no tunnel monitor
    NoParameters,       \* the generator's None
    NoProxy,            \* OpenVPN parameters without a proxy
    RetryLimit,         \* retry_attempt is an unsigned integer below this
    MaxCommands,        \* commands waiting in the channel
    MaxEvents,          \* tunnel events waiting in the channel
    CommandReasons,     \* the reasons a Block command may carry
    Faults              \* what may go wrong, a subset of AllFaults

BlockReason == {"AuthFailed", "Ipv6Unavailable", "SetFirewallPolicyError",
                "SetDnsError", "StartTunnelError", "NoMatchingRelay",
                "IsOffline", "TapAdapterProblem"}

(***************************************************************************)
(* firewall, dns: a call of the OS integration returns an error.           *)
(* start: TunnelMonitor::start fails.  tap: OpenVPN exits because of the   *)
(* Windows TAP adapter.  cancel: the waiting thread dies without a word.   *)
(* hangup: every sender of commands goes away.  deaf: the listener of      *)
(* state transitions goes away.                                            *)
(***************************************************************************)
AllFaults == {"firewall", "dns", "start", "tap", "cancel", "hangup", "deaf"}

(***************************************************************************)
(* Tunnel parameters have a protocol, the relay's endpoint and, for        *)
(* OpenVPN, perhaps the endpoint of a proxy.                               *)
(***************************************************************************)
ASSUME TunnelAssumption ==
    /\ NoTunnel \notin Tunnels
    /\ NoTunnel # "System" /\ "System" \notin Tunnels

ASSUME ParametersAssumption ==
    /\ NoParameters \notin TunnelParameters
    /\ \A p \in TunnelParameters :
          DOMAIN p = {"protocol", "endpoint", "proxy"}

ASSUME BoundsAssumption ==
    /\ RetryLimit \in Nat \ {0}
    /\ MaxCommands \in Nat \ {0}
    /\ MaxEvents \in Nat \ {0}

ASSUME FaultsAssumption ==
    /\ Faults \subseteq AllFaults
    /\ CommandReasons \subseteq BlockReason \ {"IsOffline"}

VARIABLES
    state,          \* the variant of TunnelStateWrapper, or Generating, or how it ended
    after,          \* AfterDisconnect's variant while Disconnecting
    blockReason,    \* of Blocked, and of AfterDisconnect::Block
    retry,          \* retry_attempt: of Connecting, Generating and AfterDisconnect::Reconnect
    allowLan, blockWhenDisconnected, isOffline,   \* SharedTunnelStateValues
    firewall,       \* the policy the OS enforces
    firewallErr,    \* the last firewall call returned an error
    resolver,       \* the tunnel whose DNS servers the system uses, or "System"
    dnsActive,      \* DnsMonitor has set DNS and can still reset it
    tunnel,         \* the monitor the current state has a handle of
    parameters,     \* its tunnel_parameters
    events,         \* its tunnel_events channel
    eventsOpen,     \* that channel still has a sender
    closeEvent,     \* its tunnel_close_event
    monitor,        \* for each tunnel, how far its waiting thread is
    closing,        \* the tunnels whose CloseHandle was used
    commands,       \* the command channel
    commandsOpen,   \* that channel still has a sender
    listening,      \* the state change listener is still there
    output,         \* what the last step sent to the daemon
    requested       \* history: the last Connect, Disconnect or Block handled

settings  == <<allowLan, blockWhenDisconnected, isOffline>>
fw        == <<firewall, firewallErr>>
dns       == <<resolver, dnsActive>>
machine   == <<state, after, blockReason, retry>>
handle    == <<tunnel, parameters, events, eventsOpen, closeEvent>>
monitors  == <<monitor, closing>>
channel   == <<commands, commandsOpen>>
vars      == <<machine, settings, fw, dns, handle, monitors, channel,
               listening, output, requested>>

-----------------------------------------------------------------------------
(* Values *)

Flags == {"AllowLan", "BlockWhenDisconnected", "IsOffline"}

TunnelCommand ==
    [cmd : Flags, value : BOOLEAN]
      \cup [cmd : {"Connect", "Disconnect"}]
      \cup [cmd : {"Block"}, reason : CommandReasons]

\* What polling a channel without senders returns.
Closed == [cmd |-> "Closed"]

TunnelEvent == {"Up", "Down", "AuthFailed"}

None == "None"

Policy(kind, peer, tun, lan) ==
    [kind |-> kind, peer |-> peer, tunnel |-> tun, lan |-> lan]
NoPolicy == Policy("None", None, NoTunnel, TRUE)

\* Mutant: the blocked policy forgets the LAN setting.
BlockedPolicyWithoutLan(lan) == Policy("Blocked", None, NoTunnel, FALSE)

BlockedPolicy(lan) == Policy("Blocked", None, NoTunnel, lan)

\* The endpoint let through the firewall: the proxy's, if OpenVPN uses one.
PeerEndpoint(p) ==
    IF p.protocol = "OpenVpn" /\ p.proxy # NoProxy THEN p.proxy ELSE p.endpoint

ConnectingPolicy(p, lan)     == Policy("Connecting", PeerEndpoint(p), NoTunnel, lan)
ConnectedPolicy(p, tun, lan) == Policy("Connected", PeerEndpoint(p), tun, lan)

Peers    == {PeerEndpoint(p) : p \in TunnelParameters}
Policies ==
    [kind : {"None", "Blocked", "Connecting", "Connected"},
     peer : Peers \cup {None}, tunnel : Tunnels \cup {NoTunnel}, lan : BOOLEAN]

NoOutput == [to |-> "Nothing"]
Transition ==
    [to : {"Disconnected", "Connected", "Connecting"}]
      \cup [to : {"Disconnecting"}, action : {"Nothing", "Block", "Reconnect"}]
      \cup [to : {"Blocked"}, reason : BlockReason]
GenerateRequest == [to : {"Generate"}, retry : 0 .. RetryLimit - 1]

\* Whether a call of the OS integration succeeds.
Outcomes(part) == IF part \in Faults THEN BOOLEAN ELSE {TRUE}

\* Mutant: the attempt counter does not wrap.
NextAttemptUnbounded(n) == n + 1

\* retry_attempt + 1 on an unsigned integer.
NextAttempt(n) == (n + 1) % RetryLimit

-----------------------------------------------------------------------------
(* Firewall and DNS *)

\* apply_policy and reset_policy. A call that fails may have failed before or
\* after the rules were replaced (on Linux the tables are verified afterwards).
\* before: the policies that may be in force when the call is made.
Enforce(policy, before, ok) ==
    /\ firewall' \in IF ok THEN {policy} ELSE before \cup {policy}
    /\ firewallErr' = ~ok

\* DnsMonitor::reset: the monitor forgets what it set, even if resetting fails.
ResetDns ==
    /\ dnsActive' = FALSE
    /\ \E ok \in Outcomes("dns") :
          resolver' \in CASE ~dnsActive -> {resolver}
                          [] dnsActive /\ ok -> {"System"}
                          [] OTHER -> {resolver, "System"}

\* DnsMonitor::set: a reset, then a new monitor that sets the servers.
SetDns(tun, ok) ==
    /\ dnsActive' = ok
    /\ resolver' \in CASE ok -> {tun}
                       [] ~ok /\ dnsActive -> {resolver, "System", tun}
                       [] OTHER -> {resolver, tun}

-----------------------------------------------------------------------------
(* Entering a state. The shared values an entry reads are the ones the       *)
(* handler has already stored, hence the primes.                             *)

\* for_each: a transition nobody listens to ends the thread.
NewState(s, transition) ==
    /\ state'  = IF listening THEN s ELSE "Stopped"
    /\ output' = IF listening THEN transition ELSE NoOutput

SameState ==
    /\ output' = NoOutput
    /\ UNCHANGED <<machine, handle, monitors>>

Values(a, reason, n) ==
    /\ after' = a
    /\ blockReason' = reason
    /\ retry' = n

DropTunnel ==
    /\ tunnel' = NoTunnel
    /\ parameters' = NoParameters
    /\ events' = <<>>
    /\ eventsOpen' = FALSE
    /\ closeEvent' = "NotReady"

\* Mutant: the policy is computed from the settings as they were.
DisconnectedPolicyStale ==
    IF blockWhenDisconnected THEN BlockedPolicy(allowLan) ELSE NoPolicy

DisconnectedPolicy ==
    IF blockWhenDisconnected' THEN BlockedPolicy(allowLan') ELSE NoPolicy

\* Errors are only logged.
SetDisconnectedPolicy ==
    \E ok \in Outcomes("firewall") : Enforce(DisconnectedPolicy, {firewall}, ok)

EnterDisconnected ==
    /\ SetDisconnectedPolicy
    /\ NewState("Disconnected", [to |-> "Disconnected"])
    /\ Values("Nothing", None, 0)
    /\ DropTunnel
    /\ UNCHANGED monitors

\* Mutant: a failure to block is not reported.
EnterBlockedSilently(reason, before) ==
    \E ok \in Outcomes("firewall") :
       /\ Enforce(BlockedPolicy(allowLan'), before, ok)
       /\ NewState("Blocked", [to |-> "Blocked", reason |-> reason])
       /\ Values("Nothing", reason, 0)
       /\ DropTunnel
       /\ UNCHANGED monitors

EnterBlocked(reason, before) ==
    \E ok \in Outcomes("firewall") :
       LET actual == IF ok THEN reason ELSE "SetFirewallPolicyError"
       IN  /\ Enforce(BlockedPolicy(allowLan'), before, ok)
           /\ NewState("Blocked", [to |-> "Blocked", reason |-> actual])
           /\ Values("Nothing", actual, 0)
           /\ DropTunnel
           /\ UNCHANGED monitors

\* Mutant: the tunnel is not told to close.
EnterDisconnectingUntold(a, reason, n) ==
    /\ NewState("Disconnecting", [to |-> "Disconnecting", action |-> a])
    /\ Values(a, reason, n)
    /\ parameters' = NoParameters
    /\ events' = <<>>
    /\ eventsOpen' = FALSE
    /\ UNCHANGED <<tunnel, closeEvent, monitors>>

EnterDisconnecting(a, reason, n) ==
    /\ NewState("Disconnecting", [to |-> "Disconnecting", action |-> a])
    /\ Values(a, reason, n)
    /\ closing' = closing \cup {tunnel}
    /\ parameters' = NoParameters
    /\ events' = <<>>
    /\ eventsOpen' = FALSE
    /\ UNCHANGED <<tunnel, closeEvent, monitor>>

\* Mutant: connecting does not look whether the device is offline.
EnterConnectingBlindly(n) ==
    /\ state' = "Generating"
    /\ output' = [to |-> "Generate", retry |-> n]
    /\ Values("Nothing", None, n)
    /\ DropTunnel
    /\ UNCHANGED <<fw, monitors>>

\* ConnectingState::enter up to the call of the parameters generator.
EnterConnecting(n) ==
    \/ /\ isOffline'
       /\ EnterBlocked("IsOffline", {firewall})
    \/ /\ ~isOffline'
       /\ state' = "Generating"
       /\ output' = [to |-> "Generate", retry |-> n]
       /\ Values("Nothing", None, n)
       /\ DropTunnel
       /\ UNCHANGED <<fw, monitors>>

StartTunnel(p) ==
    \E t \in {u \in Tunnels : monitor[u] = "Idle"} :
       /\ monitor' = [monitor EXCEPT ![t] = "Running"]
       /\ tunnel' = t
       /\ parameters' = p
       /\ events' = <<>>
       /\ eventsOpen' = TRUE
       /\ closeEvent' = "NotReady"
       /\ NewState("Connecting", [to |-> "Connecting"])
       /\ Values("Nothing", None, retry)
       /\ UNCHANGED closing

\* ConnectingState::enter after the generator has answered.
Generated(answer) ==
    /\ state = "Generating"
    /\ UNCHANGED settings
    /\ \/ /\ answer = NoParameters
          /\ EnterBlocked("NoMatchingRelay", {firewall})
       \/ /\ answer # NoParameters
          /\ LET policy == ConnectingPolicy(answer, allowLan) IN
             \/ /\ "firewall" \in Faults
                /\ EnterBlocked("StartTunnelError", {firewall, policy})
             \/ /\ "start" \in Faults
                /\ \E reason \in {"Ipv6Unavailable", "StartTunnelError"} :
                      EnterBlocked(reason, {policy})
             \/ /\ Enforce(policy, {firewall}, TRUE)
                /\ StartTunnel(answer)
    /\ UNCHANGED <<dns, channel, listening, requested>>

\* ConnectedState::enter, on the Up event at the head of the channel.
EnterConnected ==
    \/ \E ok \in Outcomes("dns") :
          /\ Enforce(ConnectedPolicy(parameters, tunnel, allowLan), {firewall}, TRUE)
          /\ SetDns(tunnel, ok)
          /\ IF ok
             THEN /\ NewState("Connected", [to |-> "Connected"])
                  /\ Values("Nothing", None, 0)
                  /\ events' = Tail(events)
                  /\ UNCHANGED <<tunnel, parameters, eventsOpen, closeEvent, monitors>>
             ELSE EnterDisconnecting("Block", "SetDnsError", 0)
    \/ /\ "firewall" \in Faults
       /\ Enforce(ConnectedPolicy(parameters, tunnel, allowLan), {firewall}, FALSE)
       /\ EnterDisconnecting("Block", "SetFirewallPolicyError", 0)
       /\ UNCHANGED dns

-----------------------------------------------------------------------------
(* Commands *)

\* try_handle_event!(commands.poll()), and what every state stores.
Receive(c) ==
    /\ \/ /\ commands # <<>>
          /\ c = Head(commands)
          /\ commands' = Tail(commands)
       \/ /\ commands = <<>>
          /\ ~commandsOpen
          /\ c = Closed
          /\ UNCHANGED commands
    /\ allowLan' = IF c.cmd = "AllowLan" THEN c.value ELSE allowLan
    /\ blockWhenDisconnected' =
          IF c.cmd = "BlockWhenDisconnected" THEN c.value ELSE blockWhenDisconnected
    /\ isOffline' = IF c.cmd = "IsOffline" THEN c.value ELSE isOffline
    /\ requested' =
          IF c.cmd \in {"Connect", "Disconnect", "Block"} THEN c.cmd ELSE requested
    /\ UNCHANGED <<commandsOpen, listening>>

NoCommand == commands = <<>> /\ commandsOpen

DisconnectedHandleEvent(c) ==
    /\ state = "Disconnected"
    /\ Receive(c)
    /\ UNCHANGED dns
    /\ \/ /\ c.cmd \in {"AllowLan", "BlockWhenDisconnected"}
          /\ IF settings' # settings THEN SetDisconnectedPolicy ELSE UNCHANGED fw
          /\ SameState
       \/ c.cmd \in {"IsOffline", "Disconnect"} /\ SameState /\ UNCHANGED fw
       \/ c.cmd = "Connect" /\ EnterConnecting(0)
       \/ c.cmd = "Block" /\ EnterBlocked(c.reason, {firewall})
       \/ /\ c = Closed
          /\ state' = "Finished"
          /\ output' = NoOutput
          /\ UNCHANGED <<after, blockReason, retry, handle, monitors, fw>>

BlockedHandleEvent(c) ==
    /\ state = "Blocked"
    /\ Receive(c)
    /\ UNCHANGED dns
    /\ \/ /\ c.cmd = "AllowLan"
          /\ \E ok \in Outcomes("firewall") :
                Enforce(BlockedPolicy(allowLan'), {firewall}, ok)
          /\ SameState
       \/ c.cmd = "BlockWhenDisconnected" /\ SameState /\ UNCHANGED fw
       \/ /\ c.cmd = "IsOffline"
          /\ IF ~c.value /\ blockReason = "IsOffline"
             THEN EnterConnecting(0)
             ELSE SameState /\ UNCHANGED fw
       \/ c.cmd = "Connect" /\ EnterConnecting(0)
       \/ c.cmd \in {"Disconnect", "Closed"} /\ EnterDisconnected
       \/ c.cmd = "Block" /\ EnterBlocked(c.reason, {firewall})

ConnectingHandleCommands(c) ==
    /\ state = "Connecting"
    /\ Receive(c)
    /\ UNCHANGED dns
    /\ \/ /\ c.cmd = "AllowLan"
          /\ \E ok \in Outcomes("firewall") :
                /\ Enforce(ConnectingPolicy(parameters, allowLan'), {firewall}, ok)
                /\ IF ok THEN SameState
                   ELSE EnterDisconnecting("Block", "SetFirewallPolicyError", 0)
       \/ /\ c.cmd # "AllowLan"
          /\ UNCHANGED fw
          /\ \/ c.cmd = "BlockWhenDisconnected" /\ SameState
             \/ /\ c.cmd = "IsOffline"
                /\ IF c.value THEN EnterDisconnecting("Block", "IsOffline", 0)
                   ELSE SameState
             \/ c.cmd = "Connect" /\ EnterDisconnecting("Reconnect", None, 0)
             \/ /\ c.cmd \in {"Disconnect", "Closed"}
                /\ EnterDisconnecting("Nothing", None, 0)
             \/ c.cmd = "Block" /\ EnterDisconnecting("Block", c.reason, 0)

\* Mutant: DNS is left pointing at the tunnel.
DisconnectKeepingDns(a, reason) ==
    /\ UNCHANGED dns
    /\ EnterDisconnecting(a, reason, 0)

\* ConnectedState::disconnect.
Disconnect(a, reason) ==
    /\ ResetDns
    /\ EnterDisconnecting(a, reason, 0)

ConnectedHandleCommands(c) ==
    /\ state = "Connected"
    /\ Receive(c)
    /\ \/ /\ c.cmd = "AllowLan"
          /\ \E ok \in Outcomes("firewall") :
                /\ Enforce(ConnectedPolicy(parameters, tunnel, allowLan'), {firewall}, ok)
                /\ IF ok THEN SameState /\ UNCHANGED dns
                   ELSE Disconnect("Block", "SetFirewallPolicyError")
       \/ /\ c.cmd # "AllowLan"
          /\ UNCHANGED fw
          /\ \/ c.cmd = "BlockWhenDisconnected" /\ SameState /\ UNCHANGED dns
             \/ /\ c.cmd = "IsOffline"
                /\ IF c.value THEN Disconnect("Block", "IsOffline")
                   ELSE SameState /\ UNCHANGED dns
             \/ c.cmd = "Connect" /\ Disconnect("Reconnect", None)
             \/ c.cmd \in {"Disconnect", "Closed"} /\ Disconnect("Nothing", None)
             \/ c.cmd = "Block" /\ Disconnect("Block", c.reason)

\* Mutant: commands are ignored while the tunnel closes.
AfterCommandIgnored(c) == [action |-> after, reason |-> blockReason, retry |-> retry]

\* What DisconnectingState makes of its AfterDisconnect on a command.
AfterCommand(c) ==
    LET To(a, reason, n) == [action |-> a, reason |-> reason, retry |-> n] IN
    CASE c.cmd = "Connect" ->
            To("Reconnect", None, IF after = "Reconnect" THEN retry ELSE 0)
      [] c.cmd = "Disconnect" -> To("Nothing", None, 0)
      [] c.cmd = "Block" -> To("Block", c.reason, 0)
      [] c.cmd = "IsOffline" /\ ~c.value /\ after = "Block" /\ blockReason = "IsOffline" ->
            To("Reconnect", None, 0)
      [] c.cmd = "IsOffline" /\ c.value /\ after = "Reconnect" ->
            To("Block", "IsOffline", 0)
      [] c.cmd = "Closed" /\ after = "Reconnect" -> To("Nothing", None, 0)
      [] OTHER -> To(after, blockReason, retry)

\* Every command, and the closed channel too, leaves the machine in the state.
DisconnectingHandleCommands(c) ==
    /\ state = "Disconnecting"
    /\ Receive(c)
    /\ Values(AfterCommand(c).action, AfterCommand(c).reason, AfterCommand(c).retry)
    /\ output' = NoOutput
    /\ UNCHANGED <<state, handle, monitors, fw, dns>>

HandleCommand ==
    \E c \in TunnelCommand \cup {Closed} :
       \/ DisconnectedHandleEvent(c)
       \/ BlockedHandleEvent(c)
       \/ ConnectingHandleCommands(c)
       \/ ConnectedHandleCommands(c)
       \/ DisconnectingHandleCommands(c)

-----------------------------------------------------------------------------
(* Tunnel events: polled when no command is waiting *)

NoTunnelEvent == events = <<>> /\ eventsOpen

\* The next tunnel event, or "End" when the channel has no sender left.
Poll(e) ==
    \/ /\ events # <<>>
       /\ e = Head(events)
    \/ /\ events = <<>>
       /\ ~eventsOpen
       /\ e = "End"

\* The state is left alone, only the event is gone.
IgnoreEvent ==
    /\ events' = Tail(events)
    /\ output' = NoOutput
    /\ UNCHANGED <<machine, tunnel, parameters, eventsOpen, closeEvent, monitors, fw, dns>>

ConnectingHandleTunnelEvents(e) ==
    /\ state = "Connecting"
    /\ NoCommand
    /\ Poll(e)
    /\ UNCHANGED <<settings, channel, listening, requested>>
    /\ \/ e = "AuthFailed" /\ EnterDisconnecting("Block", "AuthFailed", 0) /\ UNCHANGED <<fw, dns>>
       \/ e = "Up" /\ EnterConnected
       \/ e = "Down" /\ IgnoreEvent
       \/ /\ e = "End"
          /\ EnterDisconnecting("Reconnect", None, NextAttempt(retry))
          /\ UNCHANGED <<fw, dns>>

ConnectedHandleTunnelEvents(e) ==
    /\ state = "Connected"
    /\ NoCommand
    /\ Poll(e)
    /\ UNCHANGED <<settings, channel, listening, requested>>
    /\ \/ e \in {"Down", "End"} /\ Disconnect("Reconnect", None) /\ UNCHANGED fw
       \/ e \in {"Up", "AuthFailed"} /\ IgnoreEvent

HandleTunnelEvent ==
    \E e \in TunnelEvent \cup {"End"} :
       \/ ConnectingHandleTunnelEvents(e)
       \/ ConnectedHandleTunnelEvents(e)

-----------------------------------------------------------------------------
(* The tunnel's exit: polled when nothing else is waiting *)

\* A block reason; otherwise the tunnel closed, or its thread was cancelled.
ExitReason == closeEvent \in BlockReason

ConnectingHandleTunnelCloseEvent ==
    /\ state = "Connecting"
    /\ NoCommand /\ NoTunnelEvent
    /\ closeEvent # "NotReady"
    /\ UNCHANGED <<settings, dns, channel, listening, requested>>
    /\ IF ExitReason THEN EnterBlocked(closeEvent, {firewall})
       ELSE EnterConnecting(NextAttempt(retry))

\* DNS is reset only on the way to a new tunnel, not on the way to Blocked.
ConnectedHandleTunnelCloseEvent ==
    /\ state = "Connected"
    /\ NoCommand /\ NoTunnelEvent
    /\ closeEvent # "NotReady"
    /\ UNCHANGED <<settings, channel, listening, requested>>
    /\ IF ExitReason THEN EnterBlocked(closeEvent, {firewall}) /\ UNCHANGED dns
       ELSE ResetDns /\ EnterConnecting(0)

\* Mutant: the disconnecting state does not wait for the tunnel to exit.
DisconnectingWithoutWaiting ==
    /\ state = "Disconnecting"
    /\ NoCommand
    /\ UNCHANGED <<settings, dns, channel, listening, requested>>
    /\ \/ after = "Nothing" /\ EnterDisconnected
       \/ after = "Block" /\ EnterBlocked(blockReason, {firewall})
       \/ after = "Reconnect" /\ EnterConnecting(retry)

\* DisconnectingState::handle_exit_event and after_disconnect.
DisconnectingHandleExitEvent ==
    /\ state = "Disconnecting"
    /\ NoCommand
    /\ closeEvent # "NotReady"
    /\ UNCHANGED <<settings, dns, channel, listening, requested>>
    /\ \/ ExitReason /\ EnterBlocked(closeEvent, {firewall})
       \/ /\ ~ExitReason
          /\ \/ after = "Nothing" /\ EnterDisconnected
             \/ after = "Block" /\ EnterBlocked(blockReason, {firewall})
             \/ after = "Reconnect" /\ EnterConnecting(retry)

HandleCloseEvent ==
    \/ ConnectingHandleTunnelCloseEvent
    \/ ConnectedHandleTunnelCloseEvent
    \/ DisconnectingHandleExitEvent

\* One iteration of TunnelStateMachine::poll.
HandleEvent == HandleCommand \/ HandleTunnelEvent \/ HandleCloseEvent

-----------------------------------------------------------------------------
(* The tunnel monitors *)

\* An event callback of the running tunnel.
OnTunnelEvent ==
    /\ eventsOpen
    /\ Len(events) < MaxEvents
    /\ monitor[tunnel] = "Running"
    /\ \E e \in TunnelEvent : events' = Append(events, e)
    /\ output' = NoOutput
    /\ UNCHANGED <<machine, settings, fw, dns, tunnel, parameters, eventsOpen,
                   closeEvent, monitors, channel, listening, requested>>

\* The event callback is dropped, before or after the tunnel exits.
DropEventSender ==
    /\ eventsOpen
    /\ eventsOpen' = FALSE
    /\ output' = NoOutput
    /\ UNCHANGED <<machine, settings, fw, dns, tunnel, parameters, events,
                   closeEvent, monitors, channel, listening, requested>>

\* TunnelMonitor::wait returns. A tunnel that died of a TAP adapter problem may
\* have done so before the thread that closes it got to it.
MonitorExit(t) ==
    /\ monitor[t] = "Running"
    /\ \E exit \in {"Exited"} \cup (IF "tap" \in Faults THEN {"TapExited"} ELSE {}) :
          monitor' = [monitor EXCEPT ![t] = exit]
    /\ output' = NoOutput
    /\ UNCHANGED <<machine, settings, fw, dns, handle, closing, channel, listening,
                   requested>>

\* The waiting thread sends the close event and ends.
SendCloseEvent(t) ==
    /\ monitor[t] \in {"Exited", "TapExited"}
    /\ monitor' = [monitor EXCEPT ![t] = "Idle"]
    /\ closing' = closing \ {t}
    /\ \E result \in {IF monitor[t] = "Exited" THEN None ELSE "TapAdapterProblem"}
                       \cup (IF "cancel" \in Faults THEN {"Cancelled"} ELSE {}) :
          closeEvent' = IF t = tunnel THEN result ELSE closeEvent
    /\ output' = NoOutput
    /\ UNCHANGED <<machine, settings, fw, dns, tunnel, parameters, events,
                   eventsOpen, channel, listening, requested>>

-----------------------------------------------------------------------------
(* The rest of the program, as the machine sees it *)

Send(c) ==
    /\ commandsOpen
    /\ Len(commands) < MaxCommands
    /\ commands' = Append(commands, c)
    /\ output' = NoOutput
    /\ UNCHANGED <<machine, settings, fw, dns, handle, monitors, commandsOpen,
                   listening, requested>>

Hangup ==
    /\ "hangup" \in Faults
    /\ commandsOpen
    /\ commandsOpen' = FALSE
    /\ output' = NoOutput
    /\ UNCHANGED <<machine, settings, fw, dns, handle, monitors, commands,
                   listening, requested>>

StopListening ==
    /\ "deaf" \in Faults
    /\ listening
    /\ listening' = FALSE
    /\ output' = NoOutput
    /\ UNCHANGED <<machine, settings, fw, dns, handle, monitors, channel, requested>>

-----------------------------------------------------------------------------
(* TunnelStateMachine::new: the firewall starts blocked if it has to stay so,   *)
(* then the machine enters the disconnected state, without telling anybody. If *)
(* that fails, what an earlier process left in force may still be there.       *)
InitialPolicy == IF blockWhenDisconnected THEN BlockedPolicy(allowLan) ELSE NoPolicy

Init ==
    /\ state = "Disconnected" /\ after = "Nothing" /\ blockReason = None /\ retry = 0
    /\ allowLan \in BOOLEAN /\ blockWhenDisconnected \in BOOLEAN /\ isOffline \in BOOLEAN
    /\ \E ok \in Outcomes("firewall") :
          /\ firewallErr = ~ok
          /\ firewall \in IF ok THEN {InitialPolicy} ELSE {NoPolicy, BlockedPolicy(allowLan)}
    /\ resolver = "System" /\ dnsActive = FALSE
    /\ tunnel = NoTunnel /\ parameters = NoParameters
    /\ events = <<>> /\ eventsOpen = FALSE /\ closeEvent = "NotReady"
    /\ monitor = [t \in Tunnels |-> "Idle"] /\ closing = {}
    /\ commands = <<>> /\ commandsOpen = TRUE
    /\ listening = TRUE /\ output = NoOutput
    /\ requested = "Disconnect"

GeneratorAnswers ==
    \E answer \in TunnelParameters \cup {NoParameters} : Generated(answer)

Environment ==
    \/ \E c \in TunnelCommand : Send(c)
    \/ Hangup
    \/ StopListening
    \/ OnTunnelEvent
    \/ DropEventSender

MonitorThreads == \E t \in Tunnels : MonitorExit(t) \/ SendCloseEvent(t)

Next == HandleEvent \/ GeneratorAnswers \/ MonitorThreads \/ Environment

Spec == Init /\ [][Next]_vars

(***************************************************************************)
(* The machine's thread runs, the daemon answers, a tunnel that was told   *)
(* to close exits and its waiting thread reports it. Nothing makes a       *)
(* command arrive or a tunnel fail.                                        *)
(***************************************************************************)
Fairness ==
    /\ WF_vars(HandleEvent)
    /\ WF_vars(GeneratorAnswers)
    /\ \A t \in Tunnels : WF_vars(t \in closing /\ MonitorExit(t))
    /\ \A t \in Tunnels : WF_vars(SendCloseEvent(t))

FairSpec == Spec /\ Fairness

-----------------------------------------------------------------------------
(* Properties *)

\* What entering a state assigns.
StateTypeOK ==
    /\ state \in {"Disconnected", "Generating", "Connecting", "Connected",
                  "Disconnecting", "Blocked", "Finished", "Stopped"}
    /\ after \in {"Nothing", "Block", "Reconnect"}
    /\ blockReason \in BlockReason \cup {None}
    /\ retry \in 0 .. RetryLimit - 1
    /\ output \in Transition \cup GenerateRequest \cup {NoOutput}

HandleTypeOK ==
    /\ tunnel \in Tunnels \cup {NoTunnel}
    /\ parameters \in TunnelParameters \cup {NoParameters}
    /\ events \in Seq(TunnelEvent) /\ eventsOpen \in BOOLEAN
    /\ closeEvent \in {"NotReady", None, "Cancelled", "TapAdapterProblem"}
    /\ monitor \in [Tunnels -> {"Idle", "Running", "Exited", "TapExited"}]
    /\ closing \subseteq Tunnels

SystemTypeOK ==
    /\ firewall \in Policies /\ firewallErr \in BOOLEAN
    /\ resolver \in Tunnels \cup {"System"} /\ dnsActive \in BOOLEAN

InputTypeOK ==
    /\ allowLan \in BOOLEAN /\ blockWhenDisconnected \in BOOLEAN /\ isOffline \in BOOLEAN
    /\ commands \in Seq(TunnelCommand) /\ commandsOpen \in BOOLEAN
    /\ listening \in BOOLEAN
    /\ requested \in {"Connect", "Disconnect", "Block"}

\* Every variable of the tunnel state machine has its type.
TypeOK == StateTypeOK /\ HandleTypeOK /\ SystemTypeOK /\ InputTypeOK

(***************************************************************************)
(* A state that owns a tunnel has its monitor and, unless it only waits    *)
(* for the exit, its parameters; the others own none. A state that waits   *)
(* to block knows the reason. An exit is reported only by a monitor that   *)
(* is gone, and a TAP problem only where those exist.                      *)
(***************************************************************************)
HandleOK ==
    /\ state \in {"Connecting", "Connected"} =>
          tunnel \in Tunnels /\ parameters \in TunnelParameters
    /\ state = "Disconnecting" => tunnel \in Tunnels
    /\ state = "Disconnecting" /\ after = "Block" => blockReason \in BlockReason
    /\ state \in {"Disconnected", "Generating", "Blocked", "Finished"} => tunnel = NoTunnel
    /\ tunnel = NoTunnel => ~eventsOpen /\ closeEvent = "NotReady"
    /\ closeEvent # "NotReady" => monitor[tunnel] = "Idle"
    /\ closeEvent = "TapAdapterProblem" => "tap" \in Faults
    /\ \A t \in Tunnels : monitor[t] = "TapExited" => "tap" \in Faults

(***************************************************************************)
(* The kill switch. Traffic is unrestricted only while the machine is      *)
(* disconnected, while it asks for parameters to leave that state, or when *)
(* it could not block and says so: never with a tunnel starting, up or     *)
(* closing, and never in a blocked state that reports another reason.      *)
(***************************************************************************)
KillSwitch ==
    firewall.kind = "None" =>
       \/ state \in {"Disconnected", "Generating", "Finished", "Stopped"}
       \/ state = "Blocked" /\ blockReason = "SetFirewallPolicyError"

(***************************************************************************)
(* When the last firewall call succeeded, the enforced policy is the one   *)
(* the state calls for: the current peer (the proxy's endpoint if there is *)
(* one), the current tunnel interface and the current LAN setting, however *)
(* commands and transitions were interleaved.                              *)
(***************************************************************************)
PolicyFitsState ==
    ~firewallErr =>
       CASE state = "Disconnected" ->
               firewall = IF blockWhenDisconnected THEN BlockedPolicy(allowLan) ELSE NoPolicy
         [] state = "Blocked" -> firewall = BlockedPolicy(allowLan)
         [] state = "Connecting" -> firewall = ConnectingPolicy(parameters, allowLan)
         [] state = "Connected" -> firewall = ConnectedPolicy(parameters, tunnel, allowLan)
         [] OTHER -> TRUE

(***************************************************************************)
(* A tunnel is started only when no earlier one is left: the only monitor  *)
(* that may be alive is the one the current state has a handle of, unless  *)
(* the thread ended because nobody listened.                               *)
(***************************************************************************)
OneTunnel ==
    state # "Stopped" => \A t \in Tunnels : monitor[t] # "Idle" => t = tunnel

(***************************************************************************)
(* What the user asked for last is what the machine is heading for. After  *)
(* Disconnect it never starts or keeps a tunnel; the one exception is the  *)
(* blocked state that a TAP adapter problem forces on it.                  *)
(***************************************************************************)
StaysDisconnected ==
    requested = "Disconnect" =>
       /\ state \notin {"Generating", "Connecting", "Connected"}
       /\ state = "Disconnecting" => after = "Nothing"
       /\ state = "Blocked" =>
             "tap" \in Faults /\ blockReason \in {"TapAdapterProblem", "SetFirewallPolicyError"}

(***************************************************************************)
(* After Connect or Block, and as long as somebody holds the command       *)
(* channel, the machine never falls back to the disconnected state on its  *)
(* own: failures lead to a retry or to the blocked state.                  *)
(***************************************************************************)
NeverGivesUp ==
    requested # "Disconnect" /\ commandsOpen =>
       /\ state \notin {"Disconnected", "Finished"}
       /\ state = "Disconnecting" => after # "Nothing"

(***************************************************************************)
(* The machine heads for what was requested last, whatever order commands, *)
(* tunnel events and exits come in.                                        *)
(***************************************************************************)
FollowsRequest == StaysDisconnected /\ NeverGivesUp

(***************************************************************************)
(* No tunnel runs while the machine knows that the device is offline, and  *)
(* it is not, or about to be, blocked for being offline once it knows      *)
(* better: the news may come in any state.                                 *)
(***************************************************************************)
OfflineIsKnown ==
    /\ isOffline => state \notin {"Generating", "Connecting", "Connected"}
    /\ blockReason = "IsOffline" => isOffline

(***************************************************************************)
(* The system uses the tunnel's DNS servers only while connected. A failed *)
(* DNS call can break this, and so does a TAP adapter problem reported     *)
(* while connected (the blocked state is entered without a reset). A       *)
(* machine that stopped because nobody listened resets nothing.            *)
(***************************************************************************)
DnsFollowsTunnel ==
    Faults \cap {"dns", "tap"} = {} /\ state # "Stopped" =>
       resolver = IF state = "Connected" THEN tunnel ELSE "System"

(***************************************************************************)
(* The firewall is opened only on the way into the disconnected state and  *)
(* only when every tunnel is gone.                                         *)
(***************************************************************************)
OpensOnlyWhenDown ==
    [][firewall.kind # "None" /\ firewall'.kind = "None" =>
          /\ state' \in {"Disconnected", "Stopped"}
          /\ \A t \in Tunnels : monitor'[t] = "Idle"]_vars

(***************************************************************************)
(* If commands stop coming, a tunnel that is being closed does get closed: *)
(* the disconnecting state is left.                                        *)
(***************************************************************************)
DisconnectingEnds ==
    <>[](commands = <<>>) => (state = "Disconnecting" ~> state # "Disconnecting")

(***************************************************************************)
(* If commands stop coming, a change of the LAN setting reaches the        *)
(* firewall, also when it was made while the tunnel was closing, unless    *)
(* the firewall refuses.                                                   *)
(***************************************************************************)
LanSettingReachesFirewall ==
    <>[](commands = <<>>) =>
       (firewall.lan # allowLan ~>
           firewall.lan = allowLan \/ firewall.kind = "None" \/ firewallErr)

=============================================================================
