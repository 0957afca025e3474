---------------------------- MODULE DaemonProofs ----------------------------
(***************************************************************************)
(* Proofs about the tunnel state machine, alone and composed with the      *)
(* daemon's loop.                                                          *)
(*                                                                         *)
(* First TunnelStateMachine: for every set of tunnels, parameters and      *)
(* faults and for channels of every length, with anybody at the other end  *)
(* of its channels.                                                        *)
(*                                                                         *)
(* Then Daemon: the daemon's loop and the machine, each acting on what it  *)
(* last heard of the other, agree in the end on what is wanted and on the  *)
(* settings, for any number of accounts, tunnels and requests; and what    *)
(* the machine promises alone it keeps in the composition.                 *)
(***************************************************************************)
EXTENDS Daemon, TunnelProtection, TLAPS

(***************************************************************************)
(* What the pieces of a step assign has its type.                          *)
(***************************************************************************)

\* The policies the machine asks the firewall for are policies.
LEMMA PolicyType ==
    /\ NoPolicy \in Policies
    /\ \A lan \in BOOLEAN : BlockedPolicy(lan) \in Policies
    /\ \A p \in TunnelParameters, lan \in BOOLEAN :
          ConnectingPolicy(p, lan) \in Policies
    /\ \A p \in TunnelParameters, t \in Tunnels, lan \in BOOLEAN :
          ConnectedPolicy(p, t, lan) \in Policies
BY DEF NoPolicy, BlockedPolicy, ConnectingPolicy, ConnectedPolicy, Policy,
       Policies, Peers

\* apply_policy and reset_policy leave one of the policies involved in force.
LEMMA EnforceType ==
    ASSUME NEW policy \in Policies, NEW before \in SUBSET Policies, NEW ok \in BOOLEAN,
           Enforce(policy, before, ok)
    PROVE  firewall' \in Policies /\ firewallErr' \in BOOLEAN
BY DEF Enforce

LEMMA OutcomesType == \A part : Outcomes(part) \subseteq BOOLEAN
BY DEF Outcomes

\* What is left of a tunnel that the machine no longer owns.
LEMMA DropTunnelType ==
    ASSUME HandleTypeOK, DropTunnel, UNCHANGED monitors
    PROVE  HandleTypeOK'
<1>1. eventsOpen' \in BOOLEAN
      BY Zenon DEF DropTunnel
<1>2. /\ tunnel' \in Tunnels \cup {NoTunnel}
      /\ parameters' \in TunnelParameters \cup {NoParameters}
      /\ events' \in Seq(TunnelEvent)
      /\ closeEvent' \in {"NotReady", None, "Cancelled", "TapAdapterProblem"}
      BY DEF DropTunnel
<1>3. monitor' = monitor /\ closing' = closing
      BY DEF monitors
<1> QED BY <1>1, <1>2, <1>3 DEF HandleTypeOK

\* A state is entered, or the thread ends, with well-typed values.
LEMMA NewStateType ==
    ASSUME NEW s \in {"Disconnected", "Generating", "Connecting", "Connected",
                      "Disconnecting", "Blocked"},
           NEW transition \in Transition,
           NEW a \in {"Nothing", "Block", "Reconnect"},
           NEW reason \in BlockReason \cup {None},
           NEW n \in 0 .. RetryLimit - 1,
           NewState(s, transition), Values(a, reason, n)
    PROVE  StateTypeOK'
BY DEF NewState, Values, StateTypeOK

LEMMA NextAttemptType == \A n \in Nat : NextAttempt(n) \in 0 .. RetryLimit - 1
BY BoundsAssumption DEF NextAttempt

LEMMA ZeroAttempt == 0 \in 0 .. RetryLimit - 1
BY BoundsAssumption

LEMMA TransitionType ==
    /\ \A s \in {"Disconnected", "Connecting", "Connected"} : [to |-> s] \in Transition
    /\ \A a \in {"Nothing", "Block", "Reconnect"} :
          [to |-> "Disconnecting", action |-> a] \in Transition
    /\ \A reason \in BlockReason : [to |-> "Blocked", reason |-> reason] \in Transition
BY DEF Transition

\* BlockedState::enter, whatever policies may have been in force.
LEMMA EnterBlockedType ==
    ASSUME TypeOK, allowLan' \in BOOLEAN,
           NEW reason \in BlockReason, NEW before \in SUBSET Policies,
           EnterBlocked(reason, before)
    PROVE  /\ StateTypeOK' /\ HandleTypeOK'
           /\ firewall' \in Policies /\ firewallErr' \in BOOLEAN
<1>1. PICK ok \in Outcomes("firewall") :
         LET actual == IF ok THEN reason ELSE "SetFirewallPolicyError"
         IN  /\ Enforce(BlockedPolicy(allowLan'), before, ok)
             /\ NewState("Blocked", [to |-> "Blocked", reason |-> actual])
             /\ Values("Nothing", actual, 0)
             /\ DropTunnel
             /\ UNCHANGED monitors
      BY DEF EnterBlocked
<1> DEFINE actual == IF ok THEN reason ELSE "SetFirewallPolicyError"
<1>2. actual \in BlockReason
      BY DEF BlockReason
<1>3. firewall' \in Policies /\ firewallErr' \in BOOLEAN
      BY <1>1, PolicyType, EnforceType, OutcomesType
<1>4. StateTypeOK'
      BY <1>1, <1>2, NewStateType, TransitionType, ZeroAttempt
<1>5. HandleTypeOK'
      BY <1>1, DropTunnelType DEF TypeOK
<1> QED BY <1>3, <1>4, <1>5

\* DisconnectedState::enter.
LEMMA EnterDisconnectedType ==
    ASSUME TypeOK, allowLan' \in BOOLEAN, blockWhenDisconnected' \in BOOLEAN,
           EnterDisconnected
    PROVE  /\ StateTypeOK' /\ HandleTypeOK'
           /\ firewall' \in Policies /\ firewallErr' \in BOOLEAN
<1>1. DisconnectedPolicy \in Policies
      BY PolicyType DEF DisconnectedPolicy
<1>2. firewall' \in Policies /\ firewallErr' \in BOOLEAN
  <2>1. PICK ok \in Outcomes("firewall") : Enforce(DisconnectedPolicy, {firewall}, ok)
        BY DEF EnterDisconnected, SetDisconnectedPolicy
  <2>2. {firewall} \in SUBSET Policies
        BY DEF TypeOK, SystemTypeOK
  <2> QED BY <1>1, <2>1, <2>2, EnforceType, OutcomesType
<1>3. StateTypeOK'
      BY NewStateType, TransitionType, ZeroAttempt DEF EnterDisconnected
<1>4. HandleTypeOK'
      BY DropTunnelType DEF EnterDisconnected, TypeOK
<1> QED BY <1>2, <1>3, <1>4

\* DisconnectingState::enter, from a state that owns a tunnel.
LEMMA EnterDisconnectingType ==
    ASSUME TypeOK, tunnel \in Tunnels,
           NEW a \in {"Nothing", "Block", "Reconnect"},
           NEW reason \in BlockReason \cup {None},
           NEW n \in 0 .. RetryLimit - 1,
           EnterDisconnecting(a, reason, n)
    PROVE  StateTypeOK' /\ HandleTypeOK'
<1>1. StateTypeOK'
      BY NewStateType, TransitionType DEF EnterDisconnecting
<1>2. eventsOpen' \in BOOLEAN
      BY Zenon DEF EnterDisconnecting
<1>3. HandleTypeOK'
      BY <1>2 DEF EnterDisconnecting, TypeOK, HandleTypeOK
<1> QED BY <1>1, <1>3

\* ConnectingState::enter, up to the generator's call.
LEMMA EnterConnectingType ==
    ASSUME TypeOK, allowLan' \in BOOLEAN,
           NEW n \in 0 .. RetryLimit - 1, EnterConnecting(n)
    PROVE  /\ StateTypeOK' /\ HandleTypeOK'
           /\ firewall' \in Policies /\ firewallErr' \in BOOLEAN
<1>1. CASE isOffline' /\ EnterBlocked("IsOffline", {firewall})
  <2>1. {firewall} \in SUBSET Policies /\ "IsOffline" \in BlockReason
        BY DEF TypeOK, SystemTypeOK, BlockReason
  <2> QED BY <1>1, <2>1, EnterBlockedType
<1>2. CASE /\ state' = "Generating"
           /\ output' = [to |-> "Generate", retry |-> n]
           /\ Values("Nothing", None, n)
           /\ DropTunnel
           /\ UNCHANGED <<fw, monitors>>
  <2>1. StateTypeOK'
        BY <1>2 DEF Values, StateTypeOK, GenerateRequest
  <2>2. HandleTypeOK'
        BY <1>2, DropTunnelType DEF TypeOK
  <2>3. firewall' = firewall /\ firewallErr' = firewallErr
        BY <1>2 DEF fw
  <2> QED BY <2>1, <2>2, <2>3 DEF TypeOK, SystemTypeOK
<1> QED BY <1>1, <1>2 DEF EnterConnecting

-----------------------------------------------------------------------------
(* Type correctness *)

\* The fields a command has.
LEMMA CommandType ==
    \A c \in TunnelCommand \cup {Closed} :
       /\ c.cmd \in Flags \cup {"Connect", "Disconnect", "Block", "Closed"}
       /\ c.cmd \in Flags => c.value \in BOOLEAN
       /\ c.cmd = "Block" => c.reason \in CommandReasons
       /\ c.cmd = "Closed" => c = Closed
BY DEF TunnelCommand, Closed, Flags

LEMMA ReasonType ==
    /\ CommandReasons \subseteq BlockReason
    /\ {"AuthFailed", "Ipv6Unavailable", "SetFirewallPolicyError", "SetDnsError",
        "StartTunnelError", "NoMatchingRelay", "IsOffline", "TapAdapterProblem"}
           \subseteq BlockReason
BY FaultsAssumption DEF BlockReason

\* Handling a command stores well-typed settings.
LEMMA ReceiveType ==
    ASSUME TypeOK, NEW c \in TunnelCommand \cup {Closed}, Receive(c)
    PROVE  InputTypeOK'
<1>1. commands' \in Seq(TunnelCommand)
      BY DEF Receive, TypeOK, InputTypeOK
<1>2. /\ allowLan' \in BOOLEAN
      /\ blockWhenDisconnected' \in BOOLEAN
      /\ isOffline' \in BOOLEAN
      BY CommandType DEF Receive, TypeOK, InputTypeOK, Flags
<1>3. requested' \in {"Connect", "Disconnect", "Block"}
      BY CommandType DEF Receive, TypeOK, InputTypeOK
<1>4. commandsOpen' = commandsOpen /\ listening' = listening
      BY DEF Receive
<1> QED BY <1>1, <1>2, <1>3, <1>4 DEF TypeOK, InputTypeOK

LEMMA SameStateType ==
    ASSUME TypeOK, SameState
    PROVE  StateTypeOK' /\ HandleTypeOK'
BY DEF SameState, machine, handle, monitors, TypeOK, StateTypeOK, HandleTypeOK

\* DnsMonitor::reset and DnsMonitor::set.
LEMMA DnsType ==
    ASSUME TypeOK
    PROVE  /\ ResetDns => resolver' \in Tunnels \cup {"System"} /\ dnsActive' \in BOOLEAN
           /\ \A t \in Tunnels, ok \in BOOLEAN :
                 SetDns(t, ok) => resolver' \in Tunnels \cup {"System"} /\ dnsActive' \in BOOLEAN
<1>1. ResetDns => dnsActive' \in BOOLEAN
      BY Zenon DEF ResetDns
<1>2. ResetDns => resolver' \in Tunnels \cup {"System"}
      BY OutcomesType DEF ResetDns, TypeOK, SystemTypeOK
<1>3. \A t \in Tunnels, ok \in BOOLEAN : SetDns(t, ok) => dnsActive' \in BOOLEAN
      BY DEF SetDns
<1>4. \A t \in Tunnels, ok \in BOOLEAN :
         SetDns(t, ok) => resolver' \in Tunnels \cup {"System"}
      BY DEF SetDns, TypeOK, SystemTypeOK
<1> QED BY <1>1, <1>2, <1>3, <1>4

LEMMA DnsUnchanged ==
    ASSUME TypeOK, UNCHANGED dns
    PROVE  resolver' \in Tunnels \cup {"System"} /\ dnsActive' \in BOOLEAN
BY DEF dns, TypeOK, SystemTypeOK

LEMMA FwUnchanged ==
    ASSUME TypeOK, UNCHANGED fw
    PROVE  firewall' \in Policies /\ firewallErr' \in BOOLEAN
BY DEF fw, TypeOK, SystemTypeOK

LEMMA SetDisconnectedPolicyType ==
    ASSUME TypeOK, allowLan' \in BOOLEAN, blockWhenDisconnected' \in BOOLEAN,
           SetDisconnectedPolicy
    PROVE  firewall' \in Policies /\ firewallErr' \in BOOLEAN
<1>1. DisconnectedPolicy \in Policies
      BY PolicyType DEF DisconnectedPolicy
<1>2. PICK ok \in Outcomes("firewall") : Enforce(DisconnectedPolicy, {firewall}, ok)
      BY DEF SetDisconnectedPolicy
<1>3. {firewall} \in SUBSET Policies
      BY DEF TypeOK, SystemTypeOK
<1> QED BY <1>1, <1>2, <1>3, EnforceType, OutcomesType

\* The command handlers.
LEMMA HandleCommandType ==
    ASSUME TypeOK, HandleOK, HandleCommand
    PROVE  TypeOK'
<1>1. PICK c \in TunnelCommand \cup {Closed} :
         \/ DisconnectedHandleEvent(c)
         \/ BlockedHandleEvent(c)
         \/ ConnectingHandleCommands(c)
         \/ ConnectedHandleCommands(c)
         \/ DisconnectingHandleCommands(c)
      BY DEF HandleCommand
<1>2. Receive(c)
      BY <1>1 DEF DisconnectedHandleEvent, BlockedHandleEvent, ConnectingHandleCommands,
                  ConnectedHandleCommands, DisconnectingHandleCommands
<1>3. InputTypeOK' /\ allowLan' \in BOOLEAN /\ blockWhenDisconnected' \in BOOLEAN
      BY <1>2, ReceiveType DEF InputTypeOK
<1>4. firewall \in Policies /\ {firewall} \in SUBSET Policies
      BY DEF TypeOK, SystemTypeOK
<1>5. c.cmd = "Block" => c.reason \in BlockReason
      BY CommandType, ReasonType
<1>6. CASE DisconnectedHandleEvent(c)
  <2>1. resolver' \in Tunnels \cup {"System"} /\ dnsActive' \in BOOLEAN
        BY <1>6, DnsUnchanged DEF DisconnectedHandleEvent
  <2>2. StateTypeOK' /\ HandleTypeOK' /\ firewall' \in Policies /\ firewallErr' \in BOOLEAN
    <3>1. CASE SameState /\ (SetDisconnectedPolicy \/ UNCHANGED fw)
          BY <1>3, <3>1, SameStateType, SetDisconnectedPolicyType, FwUnchanged
    <3>2. CASE c.cmd = "Connect" /\ EnterConnecting(0)
          BY <1>3, <3>2, EnterConnectingType, ZeroAttempt
    <3>3. CASE c.cmd = "Block" /\ EnterBlocked(c.reason, {firewall})
          BY <1>3, <1>4, <1>5, <3>3, EnterBlockedType
    <3>4. CASE /\ state' = "Finished"
               /\ output' = NoOutput
               /\ UNCHANGED <<after, blockReason, retry, handle, monitors, fw>>
          BY <3>4 DEF handle, monitors, fw, TypeOK, StateTypeOK, HandleTypeOK, SystemTypeOK
    <3> QED BY <1>6, <3>1, <3>2, <3>3, <3>4 DEF DisconnectedHandleEvent
  <2> QED BY <1>3, <2>1, <2>2 DEF TypeOK, SystemTypeOK
<1>7. CASE BlockedHandleEvent(c)
  <2>1. resolver' \in Tunnels \cup {"System"} /\ dnsActive' \in BOOLEAN
        BY <1>7, DnsUnchanged DEF BlockedHandleEvent
  <2>2. StateTypeOK' /\ HandleTypeOK' /\ firewall' \in Policies /\ firewallErr' \in BOOLEAN
    <3>1. CASE SameState /\ \E ok \in Outcomes("firewall") :
                               Enforce(BlockedPolicy(allowLan'), {firewall}, ok)
          BY <1>3, <1>4, <3>1, SameStateType, PolicyType, EnforceType, OutcomesType
    <3>2. CASE SameState /\ UNCHANGED fw
          BY <3>2, SameStateType, FwUnchanged
    <3>3. CASE EnterConnecting(0)
          BY <1>3, <3>3, EnterConnectingType, ZeroAttempt
    <3>4. CASE EnterDisconnected
          BY <1>3, <3>4, EnterDisconnectedType
    <3>5. CASE c.cmd = "Block" /\ EnterBlocked(c.reason, {firewall})
          BY <1>3, <1>4, <1>5, <3>5, EnterBlockedType
    <3> QED BY <1>7, <3>1, <3>2, <3>3, <3>4, <3>5 DEF BlockedHandleEvent
  <2> QED BY <1>3, <2>1, <2>2 DEF TypeOK, SystemTypeOK
<1>8. CASE ConnectingHandleCommands(c)
  <2>1. resolver' \in Tunnels \cup {"System"} /\ dnsActive' \in BOOLEAN
        BY <1>8, DnsUnchanged DEF ConnectingHandleCommands
  <2>2. tunnel \in Tunnels /\ parameters \in TunnelParameters
        BY <1>8 DEF ConnectingHandleCommands, HandleOK
  <2>3. StateTypeOK' /\ HandleTypeOK'
        BY <1>5, <1>8, <2>2, SameStateType, EnterDisconnectingType, ZeroAttempt, ReasonType
        DEF ConnectingHandleCommands
  <2>4. firewall' \in Policies /\ firewallErr' \in BOOLEAN
        BY <1>3, <1>4, <1>8, <2>2, FwUnchanged, PolicyType, EnforceType, OutcomesType
        DEF ConnectingHandleCommands
  <2> QED BY <1>3, <2>1, <2>3, <2>4 DEF TypeOK, SystemTypeOK
<1>9. CASE ConnectedHandleCommands(c)
  <2>1. resolver' \in Tunnels \cup {"System"} /\ dnsActive' \in BOOLEAN
        BY <1>9, DnsType, DnsUnchanged DEF ConnectedHandleCommands, Disconnect
  <2>2. tunnel \in Tunnels /\ parameters \in TunnelParameters
        BY <1>9 DEF ConnectedHandleCommands, HandleOK
  <2>3. StateTypeOK' /\ HandleTypeOK'
        BY <1>5, <1>9, <2>2, SameStateType, EnterDisconnectingType, ZeroAttempt, ReasonType
        DEF ConnectedHandleCommands, Disconnect
  <2>4. firewall' \in Policies /\ firewallErr' \in BOOLEAN
        BY <1>3, <1>4, <1>9, <2>2, FwUnchanged, PolicyType, EnforceType, OutcomesType
        DEF ConnectedHandleCommands
  <2> QED BY <1>3, <2>1, <2>3, <2>4 DEF TypeOK, SystemTypeOK
<1>10. CASE DisconnectingHandleCommands(c)
  <2>1. /\ AfterCommand(c).action \in {"Nothing", "Block", "Reconnect"}
        /\ AfterCommand(c).reason \in BlockReason \cup {None}
        /\ AfterCommand(c).retry \in 0 .. RetryLimit - 1
        BY <1>5, CommandType, ReasonType, ZeroAttempt DEF AfterCommand, TypeOK, StateTypeOK
  <2>2. StateTypeOK'
        BY <1>10, <2>1 DEF DisconnectingHandleCommands, Values, TypeOK, StateTypeOK
  <2>3. HandleTypeOK'
        BY <1>10 DEF DisconnectingHandleCommands, handle, monitors, TypeOK, HandleTypeOK
  <2> QED BY <1>3, <1>10, <2>2, <2>3, FwUnchanged, DnsUnchanged
          DEF DisconnectingHandleCommands, TypeOK, SystemTypeOK
<1> QED BY <1>1, <1>6, <1>7, <1>8, <1>9, <1>10

\* Nothing a handler reads changes unless a command is handled.
LEMMA InputUnchanged ==
    ASSUME TypeOK, UNCHANGED <<settings, channel, listening, requested>>
    PROVE  InputTypeOK' /\ allowLan' \in BOOLEAN /\ blockWhenDisconnected' \in BOOLEAN
BY DEF settings, channel, TypeOK, InputTypeOK

\* The tunnel event handlers.
LEMMA HandleTunnelEventType ==
    ASSUME TypeOK, HandleOK, HandleTunnelEvent
    PROVE  TypeOK'
<1>1. PICK e \in TunnelEvent \cup {"End"} :
         ConnectingHandleTunnelEvents(e) \/ ConnectedHandleTunnelEvents(e)
      BY DEF HandleTunnelEvent
<1>2. InputTypeOK'
      BY <1>1, InputUnchanged DEF ConnectingHandleTunnelEvents, ConnectedHandleTunnelEvents
<1>3. tunnel \in Tunnels /\ parameters \in TunnelParameters
      BY <1>1 DEF ConnectingHandleTunnelEvents, ConnectedHandleTunnelEvents, HandleOK
<1>4. retry \in Nat /\ {firewall} \in SUBSET Policies /\ allowLan \in BOOLEAN
      BY BoundsAssumption DEF TypeOK, StateTypeOK, SystemTypeOK, InputTypeOK
<1>5. ASSUME IgnoreEvent, events # <<>>
      PROVE  StateTypeOK' /\ HandleTypeOK' /\ SystemTypeOK'
  <2>1. StateTypeOK' /\ SystemTypeOK'
        BY <1>5 DEF IgnoreEvent, machine, fw, dns, TypeOK, StateTypeOK, SystemTypeOK
  <2>2. HandleTypeOK'
        BY <1>5 DEF IgnoreEvent, monitors, TypeOK, HandleTypeOK
  <2> QED BY <2>1, <2>2
<1>6. CASE ConnectingHandleTunnelEvents(e)
  <2>1. CASE e = "AuthFailed"
        BY <1>2, <1>3, <1>6, <2>1, EnterDisconnectingType, ZeroAttempt, ReasonType,
           FwUnchanged, DnsUnchanged
        DEF ConnectingHandleTunnelEvents, TypeOK, SystemTypeOK
  <2>2. CASE e = "Up"
    <3>1. EnterConnected /\ events # <<>>
          BY <1>6, <2>2 DEF ConnectingHandleTunnelEvents, Poll
    <3>2. ConnectedPolicy(parameters, tunnel, allowLan) \in Policies
          BY <1>3, <1>4, PolicyType
    <3>3. firewall' \in Policies /\ firewallErr' \in BOOLEAN
          BY <1>4, <3>1, <3>2, EnforceType DEF EnterConnected
    <3>4. resolver' \in Tunnels \cup {"System"} /\ dnsActive' \in BOOLEAN
          BY <1>3, <3>1, DnsType, DnsUnchanged, OutcomesType DEF EnterConnected
    <3>5. StateTypeOK' /\ HandleTypeOK'
      <4>1. CASE \E reason \in {"SetDnsError", "SetFirewallPolicyError"} :
                    EnterDisconnecting("Block", reason, 0)
            BY <1>3, <4>1, EnterDisconnectingType, ZeroAttempt, ReasonType
      <4>2. CASE /\ NewState("Connected", [to |-> "Connected"])
                 /\ Values("Nothing", None, 0)
                 /\ events' = Tail(events)
                 /\ UNCHANGED <<tunnel, parameters, eventsOpen, closeEvent, monitors>>
        <5>1. StateTypeOK'
              BY <4>2, NewStateType, TransitionType, ZeroAttempt
        <5>2. HandleTypeOK'
              BY <3>1, <4>2 DEF monitors, TypeOK, HandleTypeOK
        <5> QED BY <5>1, <5>2
      <4> QED BY <3>1, <4>1, <4>2 DEF EnterConnected
    <3> QED BY <1>2, <3>3, <3>4, <3>5 DEF TypeOK, SystemTypeOK
  <2>3. CASE e = "Down"
        BY <1>2, <1>5, <1>6, <2>3 DEF ConnectingHandleTunnelEvents, Poll, TypeOK
  <2>4. CASE e = "End"
        BY <1>2, <1>3, <1>4, <1>6, <2>4, EnterDisconnectingType, NextAttemptType,
           FwUnchanged, DnsUnchanged
        DEF ConnectingHandleTunnelEvents, TypeOK, SystemTypeOK
  <2> QED BY <2>1, <2>2, <2>3, <2>4 DEF TunnelEvent
<1>7. CASE ConnectedHandleTunnelEvents(e)
  <2>1. CASE e \in {"Down", "End"}
        BY <1>2, <1>3, <1>7, <2>1, EnterDisconnectingType, ZeroAttempt, FwUnchanged, DnsType
        DEF ConnectedHandleTunnelEvents, Disconnect, TypeOK, SystemTypeOK
  <2>2. CASE e \in {"Up", "AuthFailed"}
        BY <1>2, <1>5, <1>7, <2>2 DEF ConnectedHandleTunnelEvents, Poll, TypeOK
  <2> QED BY <2>1, <2>2 DEF TunnelEvent
<1> QED BY <1>1, <1>6, <1>7

\* The handlers of the tunnel's exit.
LEMMA HandleCloseEventType ==
    ASSUME TypeOK, HandleOK, HandleCloseEvent
    PROVE  TypeOK'
<1>1. InputTypeOK' /\ allowLan' \in BOOLEAN /\ blockWhenDisconnected' \in BOOLEAN
      BY InputUnchanged
      DEF HandleCloseEvent, ConnectingHandleTunnelCloseEvent,
          ConnectedHandleTunnelCloseEvent, DisconnectingHandleExitEvent
<1>2. retry \in 0 .. RetryLimit - 1 /\ retry \in Nat /\ {firewall} \in SUBSET Policies
      BY BoundsAssumption DEF TypeOK, StateTypeOK, SystemTypeOK
<1>3. ExitReason => closeEvent \in BlockReason
      BY DEF ExitReason
<1>4. CASE ConnectingHandleTunnelCloseEvent
      BY <1>1, <1>2, <1>3, <1>4, EnterBlockedType, EnterConnectingType, NextAttemptType,
         DnsUnchanged
      DEF ConnectingHandleTunnelCloseEvent, TypeOK, SystemTypeOK
<1>5. CASE ConnectedHandleTunnelCloseEvent
      BY <1>1, <1>2, <1>3, <1>5, EnterBlockedType, EnterConnectingType, ZeroAttempt,
         DnsUnchanged, DnsType
      DEF ConnectedHandleTunnelCloseEvent, TypeOK, SystemTypeOK
<1>6. CASE DisconnectingHandleExitEvent
  <2>1. resolver' \in Tunnels \cup {"System"} /\ dnsActive' \in BOOLEAN
        BY <1>6, DnsUnchanged DEF DisconnectingHandleExitEvent
  <2>2. StateTypeOK' /\ HandleTypeOK' /\ firewall' \in Policies /\ firewallErr' \in BOOLEAN
    <3>1. CASE EnterDisconnected
          BY <1>1, <3>1, EnterDisconnectedType
    <3>2. CASE ExitReason /\ EnterBlocked(closeEvent, {firewall})
          BY <1>1, <1>2, <1>3, <3>2, EnterBlockedType
    <3>3. CASE after = "Block" /\ EnterBlocked(blockReason, {firewall})
          BY <1>1, <1>2, <1>6, <3>3, EnterBlockedType
          DEF HandleOK, DisconnectingHandleExitEvent
    <3>4. CASE EnterConnecting(retry)
          BY <1>1, <1>2, <3>4, EnterConnectingType
    <3> QED BY <1>6, <3>1, <3>2, <3>3, <3>4 DEF DisconnectingHandleExitEvent
  <2> QED BY <1>1, <2>1, <2>2 DEF TypeOK, SystemTypeOK
<1> QED BY <1>4, <1>5, <1>6 DEF HandleCloseEvent

\* The rest of ConnectingState::enter.
LEMMA GeneratedType ==
    ASSUME TypeOK, NEW answer \in TunnelParameters \cup {NoParameters}, Generated(answer)
    PROVE  TypeOK'
<1>1. InputTypeOK' /\ allowLan' \in BOOLEAN
      BY InputUnchanged DEF Generated
<1>2. resolver' \in Tunnels \cup {"System"} /\ dnsActive' \in BOOLEAN
      BY DnsUnchanged DEF Generated
<1>3. firewall \in Policies /\ allowLan \in BOOLEAN
      BY DEF TypeOK, SystemTypeOK, InputTypeOK
<1> DEFINE policy == ConnectingPolicy(answer, allowLan)
<1>4. CASE EnterBlocked("NoMatchingRelay", {firewall})
      BY <1>1, <1>2, <1>3, <1>4, EnterBlockedType, ReasonType DEF TypeOK, SystemTypeOK
<1>5. CASE answer # NoParameters
  <2>1. policy \in Policies /\ {firewall, policy} \in SUBSET Policies /\ {policy} \in SUBSET Policies
        BY <1>3, <1>5, PolicyType
  <2>2. CASE EnterBlocked("StartTunnelError", {firewall, policy})
        BY <1>1, <1>2, <2>1, <2>2, EnterBlockedType, ReasonType DEF TypeOK, SystemTypeOK
  <2>3. CASE \E reason \in {"Ipv6Unavailable", "StartTunnelError"} :
                EnterBlocked(reason, {policy})
        BY <1>1, <1>2, <2>1, <2>3, EnterBlockedType, ReasonType DEF TypeOK, SystemTypeOK
  <2>4. CASE Enforce(policy, {firewall}, TRUE) /\ StartTunnel(answer)
    <3>1. firewall' \in Policies /\ firewallErr' \in BOOLEAN
          BY <1>3, <2>1, <2>4, EnforceType
    <3>2. StateTypeOK'
          BY <2>4, NewStateType, TransitionType DEF StartTunnel, TypeOK, StateTypeOK
    <3>3. eventsOpen' \in BOOLEAN
          BY <2>4, Zenon DEF StartTunnel
    <3>4. HandleTypeOK'
          BY <1>5, <2>4, <3>3 DEF StartTunnel, TypeOK, HandleTypeOK
    <3> QED BY <1>1, <1>2, <3>1, <3>2, <3>4 DEF TypeOK, SystemTypeOK
  <2> QED BY <1>5, <2>2, <2>3, <2>4 DEF Generated
<1> QED BY <1>4, <1>5 DEF Generated

\* The threads and callbacks around the machine, and a step that changes nothing.
LEMMA EnvironmentType ==
    ASSUME TypeOK, HandleOK, MonitorThreads \/ Environment \/ UNCHANGED vars
    PROVE  TypeOK'
<1>1. ASSUME NEW t \in Tunnels, MonitorExit(t)
      PROVE  TypeOK'
      BY <1>1 DEF MonitorExit, machine, settings, fw, dns, handle, channel,
                  TypeOK, StateTypeOK, HandleTypeOK, SystemTypeOK, InputTypeOK
<1>2. ASSUME NEW t \in Tunnels, SendCloseEvent(t)
      PROVE  TypeOK'
      BY <1>2 DEF SendCloseEvent, machine, settings, fw, dns, channel, None,
                  TypeOK, StateTypeOK, HandleTypeOK, SystemTypeOK, InputTypeOK
<1>3. ASSUME NEW c \in TunnelCommand, Send(c)
      PROVE  TypeOK'
      BY <1>3 DEF Send, machine, settings, fw, dns, handle, monitors,
                  TypeOK, StateTypeOK, HandleTypeOK, SystemTypeOK, InputTypeOK
<1>4. CASE Hangup
  <2>1. commandsOpen' \in BOOLEAN
        BY <1>4, Zenon DEF Hangup
  <2> QED BY <1>4, <2>1 DEF Hangup, machine, settings, fw, dns, handle, monitors,
                  TypeOK, StateTypeOK, HandleTypeOK, SystemTypeOK, InputTypeOK
<1>5. CASE StopListening
  <2>1. listening' \in BOOLEAN
        BY <1>5, Zenon DEF StopListening
  <2> QED BY <1>5, <2>1 DEF StopListening, machine, settings, fw, dns, handle, monitors,
                  channel, TypeOK, StateTypeOK, HandleTypeOK, SystemTypeOK, InputTypeOK
<1>6. CASE OnTunnelEvent
      BY <1>6 DEF OnTunnelEvent, machine, settings, fw, dns, monitors, channel,
                  TypeOK, StateTypeOK, HandleTypeOK, SystemTypeOK, InputTypeOK
<1>7. CASE DropEventSender
  <2>1. eventsOpen' \in BOOLEAN
        BY <1>7, Zenon DEF DropEventSender
  <2> QED BY <1>7, <2>1 DEF DropEventSender, machine, settings, fw, dns, monitors, channel,
                  TypeOK, StateTypeOK, HandleTypeOK, SystemTypeOK, InputTypeOK
<1>8. CASE UNCHANGED vars
      BY <1>8 DEF vars, machine, settings, fw, dns, handle, monitors, channel,
                  TypeOK, StateTypeOK, HandleTypeOK, SystemTypeOK, InputTypeOK
<1> QED BY <1>1, <1>2, <1>3, <1>4, <1>5, <1>6, <1>7, <1>8 DEF MonitorThreads, Environment

-----------------------------------------------------------------------------
(* Which state owns a tunnel *)

\* The states that are entered without a tunnel own none.
LEMMA DropTunnelHandle ==
    ASSUME HandleOK, TypeOK, DropTunnel, UNCHANGED monitors,
           state' \in {"Disconnected", "Generating", "Blocked", "Stopped"}
    PROVE  HandleOK'
BY DEF HandleOK, DropTunnel, monitors

LEMMA EnterBlockedHandle ==
    ASSUME HandleOK, TypeOK, NEW reason, NEW before, EnterBlocked(reason, before)
    PROVE  HandleOK'
<1>1. /\ state' \in {"Blocked", "Stopped"}
      /\ DropTunnel
      /\ UNCHANGED monitors
      BY DEF EnterBlocked, NewState
<1> QED BY <1>1, DropTunnelHandle

LEMMA EnterDisconnectedHandle ==
    ASSUME HandleOK, TypeOK, EnterDisconnected
    PROVE  HandleOK'
<1>1. /\ state' \in {"Disconnected", "Stopped"}
      /\ DropTunnel
      /\ UNCHANGED monitors
      BY DEF EnterDisconnected, NewState
<1> QED BY <1>1, DropTunnelHandle

LEMMA EnterConnectingHandle ==
    ASSUME HandleOK, TypeOK, NEW n, EnterConnecting(n)
    PROVE  HandleOK'
<1>1. CASE EnterBlocked("IsOffline", {firewall})
      BY <1>1, EnterBlockedHandle
<1>2. CASE state' = "Generating" /\ DropTunnel /\ UNCHANGED monitors
      BY <1>2, DropTunnelHandle
<1> QED BY <1>1, <1>2 DEF EnterConnecting

LEMMA EnterDisconnectingHandle ==
    ASSUME HandleOK, TypeOK, tunnel \in Tunnels,
           NEW a, NEW reason, NEW n, a = "Block" => reason \in BlockReason,
           EnterDisconnecting(a, reason, n)
    PROVE  HandleOK'
BY TunnelAssumption DEF EnterDisconnecting, NewState, Values, HandleOK

LEMMA SameStateHandle ==
    ASSUME HandleOK, SameState
    PROVE  HandleOK'
BY DEF HandleOK, SameState, machine, handle, monitors

\* Every handler hands its tunnel on, or drops it when it is gone.
LEMMA HandleEventHandle ==
    ASSUME TypeOK, HandleOK, HandleEvent
    PROVE  HandleOK'
<1>1. ASSUME NEW c \in TunnelCommand \cup {Closed}, DisconnectedHandleEvent(c)
      PROVE  HandleOK'
  <2>1. CASE /\ state' = "Finished"
             /\ UNCHANGED <<after, blockReason, retry, handle, monitors, fw>>
        BY <1>1, <2>1 DEF DisconnectedHandleEvent, HandleOK, handle, monitors
  <2> QED BY <1>1, <2>1, SameStateHandle, EnterConnectingHandle, EnterBlockedHandle
          DEF DisconnectedHandleEvent
<1>2. ASSUME NEW c \in TunnelCommand \cup {Closed}, BlockedHandleEvent(c)
      PROVE  HandleOK'
      BY <1>2, SameStateHandle, EnterConnectingHandle, EnterBlockedHandle,
         EnterDisconnectedHandle DEF BlockedHandleEvent
<1>3. ASSUME NEW c \in TunnelCommand \cup {Closed}, ConnectingHandleCommands(c)
      PROVE  HandleOK'
  <2>1. tunnel \in Tunnels /\ (c.cmd = "Block" => c.reason \in BlockReason)
        BY <1>3, CommandType, ReasonType DEF ConnectingHandleCommands, HandleOK
  <2> QED BY <1>3, <2>1, SameStateHandle, EnterDisconnectingHandle, ReasonType
          DEF ConnectingHandleCommands
<1>4. ASSUME NEW c \in TunnelCommand \cup {Closed}, ConnectedHandleCommands(c)
      PROVE  HandleOK'
  <2>1. tunnel \in Tunnels /\ (c.cmd = "Block" => c.reason \in BlockReason)
        BY <1>4, CommandType, ReasonType DEF ConnectedHandleCommands, HandleOK
  <2> QED BY <1>4, <2>1, SameStateHandle, EnterDisconnectingHandle, ReasonType
          DEF ConnectedHandleCommands, Disconnect
<1>5. ASSUME NEW c \in TunnelCommand \cup {Closed}, DisconnectingHandleCommands(c)
      PROVE  HandleOK'
  <2>1. after' = "Block" => blockReason' \in BlockReason
    <3>1. after' = AfterCommand(c).action /\ blockReason' = AfterCommand(c).reason
          BY <1>5 DEF DisconnectingHandleCommands, Values
    <3>2. AfterCommand(c).action = "Block" => AfterCommand(c).reason \in BlockReason
          BY <1>5, CommandType, ReasonType
          DEF DisconnectingHandleCommands, AfterCommand, HandleOK
    <3> QED BY <3>1, <3>2
  <2> QED BY <1>5, <2>1 DEF DisconnectingHandleCommands, HandleOK, handle, monitors
<1>6. ASSUME NEW e \in TunnelEvent \cup {"End"}, ConnectingHandleTunnelEvents(e)
      PROVE  HandleOK'
  <2>1. tunnel \in Tunnels /\ parameters \in TunnelParameters
        BY <1>6 DEF ConnectingHandleTunnelEvents, HandleOK
  <2>2. CASE \E a, reason, n :
                /\ a = "Block" => reason \in BlockReason
                /\ EnterDisconnecting(a, reason, n)
        BY <2>1, <2>2, EnterDisconnectingHandle
  <2>3. CASE /\ NewState("Connected", [to |-> "Connected"])
             /\ UNCHANGED <<tunnel, parameters, eventsOpen, closeEvent, monitors>>
        BY <2>1, <2>3, TunnelAssumption DEF NewState, HandleOK, monitors
  <2>4. CASE IgnoreEvent
        BY <2>4 DEF IgnoreEvent, HandleOK, machine, monitors
  <2>5. CASE EnterConnected
        BY <2>2, <2>3, <2>5, ReasonType DEF EnterConnected
  <2> QED BY <1>6, <2>2, <2>4, <2>5, ReasonType DEF ConnectingHandleTunnelEvents
<1>7. ASSUME NEW e \in TunnelEvent \cup {"End"}, ConnectedHandleTunnelEvents(e)
      PROVE  HandleOK'
  <2>1. CASE IgnoreEvent
        BY <2>1 DEF IgnoreEvent, HandleOK, machine, monitors
  <2>2. CASE EnterDisconnecting("Reconnect", None, 0)
        BY <1>7, <2>2, EnterDisconnectingHandle DEF ConnectedHandleTunnelEvents, HandleOK
  <2> QED BY <1>7, <2>1, <2>2 DEF ConnectedHandleTunnelEvents, Disconnect
<1>8. CASE HandleCloseEvent
      BY <1>8, EnterBlockedHandle, EnterConnectingHandle, EnterDisconnectedHandle
      DEF HandleCloseEvent, ConnectingHandleTunnelCloseEvent,
          ConnectedHandleTunnelCloseEvent, DisconnectingHandleExitEvent
<1> QED BY <1>1, <1>2, <1>3, <1>4, <1>5, <1>6, <1>7, <1>8
        DEF HandleEvent, HandleCommand, HandleTunnelEvent

LEMMA NextHandle ==
    ASSUME TypeOK, HandleOK, [Next]_vars
    PROVE  HandleOK'
<1>1. CASE HandleEvent
      BY <1>1, HandleEventHandle
<1>2. ASSUME NEW answer \in TunnelParameters \cup {NoParameters}, Generated(answer)
      PROVE  HandleOK'
  <2>1. CASE answer # NoParameters /\ StartTunnel(answer)
        BY <2>1, TunnelAssumption DEF StartTunnel, NewState, HandleOK, TypeOK, HandleTypeOK
  <2> QED BY <1>2, <2>1, EnterBlockedHandle DEF Generated
<1>3. ASSUME NEW t \in Tunnels, MonitorExit(t)
      PROVE  HandleOK'
      BY <1>3, TunnelAssumption
      DEF MonitorExit, machine, handle, HandleOK, TypeOK, HandleTypeOK
<1>4. ASSUME NEW t \in Tunnels, SendCloseEvent(t)
      PROVE  HandleOK'
  <2>1. /\ state' = state /\ after' = after /\ blockReason' = blockReason
        /\ tunnel' = tunnel /\ parameters' = parameters /\ eventsOpen' = eventsOpen
        /\ monitor' = [monitor EXCEPT ![t] = "Idle"]
        /\ closeEvent' # closeEvent => t = tunnel
        /\ closeEvent' = "TapAdapterProblem" /\ closeEvent # "TapAdapterProblem" =>
              monitor[t] = "TapExited"
        BY <1>4 DEF SendCloseEvent, machine, None, TypeOK, HandleTypeOK
  <2> QED BY <2>1, TunnelAssumption DEF HandleOK, TypeOK, HandleTypeOK
<1>5. CASE Environment
      BY <1>5 DEF Environment, Send, Hangup, StopListening, OnTunnelEvent, DropEventSender,
                  machine, handle, monitors, HandleOK
<1>6. CASE UNCHANGED vars
      BY <1>6 DEF vars, machine, handle, monitors, HandleOK
<1> QED BY <1>1, <1>2, <1>3, <1>4, <1>5, <1>6 DEF Next, GeneratorAnswers, MonitorThreads

-----------------------------------------------------------------------------
LEMMA InitType == Init => TypeOK /\ HandleOK
<1> SUFFICES ASSUME Init PROVE TypeOK /\ HandleOK
    OBVIOUS
<1>1. StateTypeOK
      BY ZeroAttempt DEF Init, StateTypeOK
<1>2. eventsOpen \in BOOLEAN /\ dnsActive \in BOOLEAN /\ commandsOpen \in BOOLEAN
        /\ listening \in BOOLEAN
      BY Zenon DEF Init
<1>3. HandleTypeOK
      BY <1>2 DEF Init, HandleTypeOK
<1>4. InputTypeOK
      BY <1>2 DEF Init, InputTypeOK
<1>5. SystemTypeOK
      BY <1>2, PolicyType, OutcomesType DEF Init, InitialPolicy, SystemTypeOK
<1>6. HandleOK
      BY DEF Init, HandleOK
<1> QED BY <1>1, <1>3, <1>4, <1>5, <1>6 DEF TypeOK

LEMMA NextType ==
    ASSUME TypeOK, HandleOK, [Next]_vars
    PROVE  TypeOK'
BY HandleCommandType, HandleTunnelEventType, HandleCloseEventType, GeneratedType,
   EnvironmentType DEF Next, HandleEvent, GeneratorAnswers

(***************************************************************************)
(* Every variable keeps its type, and a state owns a tunnel exactly when   *)
(* it should (HandleOK): whatever the handlers read of the tunnel, its     *)
(* parameters and the reason to block for is there when they read it.      *)
(***************************************************************************)
THEOREM TypeCorrect == Spec => [](TypeOK /\ HandleOK)
<1>1. Init => TypeOK /\ HandleOK
      BY InitType
<1>2. (TypeOK /\ HandleOK) /\ [Next]_vars => (TypeOK /\ HandleOK)'
      BY NextType, NextHandle
<1> QED BY <1>1, <1>2, PTL DEF Spec

-----------------------------------------------------------------------------
(***************************************************************************)
(* The safety invariants, each inductive together with TypeOK and HandleOK *)
(***************************************************************************)

(***************************************************************************)
(* What entering a state does, as the invariants see it                    *)
(***************************************************************************)

\* Only the unrestricted policy is of kind "None".
LEMMA PolicyKinds ==
    /\ NoPolicy.kind = "None"
    /\ \A lan : BlockedPolicy(lan).kind = "Blocked"
    /\ \A p, lan : ConnectingPolicy(p, lan).kind = "Connecting"
    /\ \A p, t, lan : ConnectedPolicy(p, t, lan).kind = "Connected"
BY DEF NoPolicy, BlockedPolicy, ConnectingPolicy, ConnectedPolicy, Policy

LEMMA EnterBlockedEffect ==
    ASSUME NEW reason, NEW before, EnterBlocked(reason, before)
    PROVE  /\ state' \in {"Blocked", "Stopped"}
           /\ firewall' \in before \cup {BlockedPolicy(allowLan')}
           /\ ~firewallErr' => firewall' = BlockedPolicy(allowLan') /\ blockReason' = reason
           /\ firewallErr' => blockReason' = "SetFirewallPolicyError"
           /\ firewall' # BlockedPolicy(allowLan') => blockReason' = "SetFirewallPolicyError"
           /\ blockReason' \in {reason, "SetFirewallPolicyError"}
           /\ tunnel' = NoTunnel /\ monitor' = monitor
           /\ after' = "Nothing" /\ parameters' = NoParameters
<1>1. PICK ok \in BOOLEAN :
         /\ Enforce(BlockedPolicy(allowLan'), before, ok)
         /\ NewState("Blocked", [to |-> "Blocked", reason |->
                        IF ok THEN reason ELSE "SetFirewallPolicyError"])
         /\ Values("Nothing", IF ok THEN reason ELSE "SetFirewallPolicyError", 0)
         /\ DropTunnel
         /\ UNCHANGED monitors
      BY OutcomesType DEF EnterBlocked
<1>2. CASE ok
      BY <1>1, <1>2 DEF Enforce, NewState, Values, DropTunnel, monitors
<1>3. CASE ~ok
      BY <1>1, <1>3 DEF Enforce, NewState, Values, DropTunnel, monitors
<1> QED BY <1>2, <1>3

LEMMA SetDisconnectedPolicyEffect ==
    ASSUME SetDisconnectedPolicy
    PROVE  /\ firewall' \in {firewall, DisconnectedPolicy}
           /\ ~firewallErr' => firewall' = DisconnectedPolicy
<1>1. PICK ok \in BOOLEAN : Enforce(DisconnectedPolicy, {firewall}, ok)
      BY OutcomesType DEF SetDisconnectedPolicy
<1>2. CASE ok
      BY <1>1, <1>2 DEF Enforce
<1>3. CASE ~ok
      BY <1>1, <1>3 DEF Enforce
<1> QED BY <1>2, <1>3

LEMMA EnterDisconnectedEffect ==
    ASSUME EnterDisconnected
    PROVE  /\ state' \in {"Disconnected", "Stopped"}
           /\ ~firewallErr' => firewall' = DisconnectedPolicy
           /\ tunnel' = NoTunnel /\ monitor' = monitor
           /\ after' = "Nothing" /\ blockReason' = None
BY SetDisconnectedPolicyEffect
DEF EnterDisconnected, NewState, Values, DropTunnel, monitors

LEMMA EnterDisconnectingEffect ==
    ASSUME NEW a, NEW reason, NEW n, EnterDisconnecting(a, reason, n)
    PROVE  /\ state' \in {"Disconnecting", "Stopped"}
           /\ after' = a /\ blockReason' = reason
           /\ tunnel' = tunnel /\ monitor' = monitor
BY DEF EnterDisconnecting, NewState, Values

LEMMA EnterConnectingEffect ==
    ASSUME NEW n, EnterConnecting(n)
    PROVE  \/ isOffline' /\ EnterBlocked("IsOffline", {firewall})
           \/ /\ ~isOffline' /\ state' = "Generating"
              /\ firewall' = firewall /\ firewallErr' = firewallErr
              /\ tunnel' = NoTunnel /\ monitor' = monitor
              /\ after' = "Nothing" /\ blockReason' = None
BY DEF EnterConnecting, Values, DropTunnel, fw, monitors

LEMMA SameStateEffect ==
    ASSUME SameState
    PROVE  /\ state' = state /\ after' = after /\ blockReason' = blockReason
           /\ tunnel' = tunnel /\ parameters' = parameters /\ monitor' = monitor
BY DEF SameState, machine, handle, monitors

LEMMA FwUnchangedEffect ==
    ASSUME UNCHANGED fw
    PROVE  firewall' = firewall /\ firewallErr' = firewallErr
BY DEF fw

\* The threads and callbacks around the machine touch none of its state.
LEMMA EnvironmentEffect ==
    ASSUME MonitorThreads \/ Environment \/ UNCHANGED vars
    PROVE  /\ state' = state /\ after' = after /\ blockReason' = blockReason
           /\ tunnel' = tunnel /\ parameters' = parameters
           /\ firewall' = firewall /\ firewallErr' = firewallErr
           /\ allowLan' = allowLan /\ isOffline' = isOffline
           /\ blockWhenDisconnected' = blockWhenDisconnected
           /\ requested' = requested
           /\ commandsOpen' => commandsOpen
<1>1. CASE MonitorThreads
      BY <1>1 DEF MonitorThreads, MonitorExit, SendCloseEvent, machine, handle, fw,
                  settings, channel
<1>2. CASE Environment
      BY <1>2 DEF Environment, Send, Hangup, StopListening, OnTunnelEvent, DropEventSender,
                  machine, handle, fw, settings, channel
<1>3. CASE UNCHANGED vars
      BY <1>3 DEF vars, machine, handle, fw, settings, channel
<1> QED BY <1>1, <1>2, <1>3

-----------------------------------------------------------------------------
(* The kill switch *)

LEMMA KillSwitchBlocked ==
    ASSUME NEW reason, NEW before, EnterBlocked(reason, before)
    PROVE  KillSwitch'
BY EnterBlockedEffect, PolicyKinds DEF KillSwitch

LEMMA KillSwitchConnecting ==
    ASSUME NEW n, EnterConnecting(n)
    PROVE  KillSwitch'
BY EnterConnectingEffect, KillSwitchBlocked DEF KillSwitch

LEMMA KillSwitchCommand ==
    ASSUME TypeOK, KillSwitch, HandleCommand
    PROVE  KillSwitch'
<1>1. ASSUME NEW c \in TunnelCommand \cup {Closed}, DisconnectedHandleEvent(c)
      PROVE  KillSwitch'
  <2>1. CASE SameState
        BY <1>1, <2>1, SameStateEffect DEF DisconnectedHandleEvent, KillSwitch
  <2>2. CASE state' = "Finished"
        BY <2>2 DEF KillSwitch
  <2> QED BY <1>1, <2>1, <2>2, KillSwitchBlocked, KillSwitchConnecting
          DEF DisconnectedHandleEvent
<1>2. ASSUME NEW c \in TunnelCommand \cup {Closed}, BlockedHandleEvent(c)
      PROVE  KillSwitch'
  <2>1. CASE /\ SameState
             /\ \E ok \in Outcomes("firewall") :
                   Enforce(BlockedPolicy(allowLan'), {firewall}, ok)
    <3>1. firewall' \in {firewall, BlockedPolicy(allowLan')}
          BY <2>1, OutcomesType DEF Enforce
    <3> QED BY <2>1, <3>1, SameStateEffect, PolicyKinds DEF KillSwitch
  <2>2. CASE SameState /\ UNCHANGED fw
        BY <2>2, SameStateEffect, FwUnchangedEffect DEF KillSwitch
  <2>3. CASE EnterDisconnected
        BY <2>3, EnterDisconnectedEffect DEF KillSwitch
  <2> QED BY <1>2, <2>1, <2>2, <2>3, KillSwitchBlocked, KillSwitchConnecting
          DEF BlockedHandleEvent
<1>3. ASSUME NEW c \in TunnelCommand \cup {Closed},
             \/ ConnectingHandleCommands(c)
             \/ ConnectedHandleCommands(c)
             \/ DisconnectingHandleCommands(c)
      PROVE  KillSwitch'
  <2>1. firewall.kind # "None"
        BY <1>3 DEF KillSwitch, ConnectingHandleCommands, ConnectedHandleCommands,
                    DisconnectingHandleCommands
  <2>2. firewall' \in {firewall, ConnectingPolicy(parameters, allowLan'),
                       ConnectedPolicy(parameters, tunnel, allowLan')}
        BY <1>3, OutcomesType DEF ConnectingHandleCommands, ConnectedHandleCommands,
                    DisconnectingHandleCommands, Enforce, fw
  <2> QED BY <2>1, <2>2, PolicyKinds DEF KillSwitch
<1> QED BY <1>1, <1>2, <1>3 DEF HandleCommand

LEMMA KillSwitchTunnelEvent ==
    ASSUME TypeOK, KillSwitch, HandleTunnelEvent
    PROVE  KillSwitch'
<1>1. firewall.kind # "None"
      BY DEF HandleTunnelEvent, KillSwitch, ConnectingHandleTunnelEvents,
             ConnectedHandleTunnelEvents
<1>2. firewall' \in {firewall, ConnectedPolicy(parameters, tunnel, allowLan)}
      BY DEF HandleTunnelEvent, ConnectingHandleTunnelEvents, ConnectedHandleTunnelEvents,
             EnterConnected, Enforce, IgnoreEvent, fw
<1> QED BY <1>1, <1>2, PolicyKinds DEF KillSwitch

LEMMA KillSwitchNext ==
    ASSUME TypeOK, KillSwitch, [Next]_vars
    PROVE  KillSwitch'
<1>1. CASE HandleCommand
      BY <1>1, KillSwitchCommand
<1>2. CASE HandleTunnelEvent
      BY <1>2, KillSwitchTunnelEvent
<1>3. CASE HandleCloseEvent
  <2>1. CASE EnterDisconnected
        BY <2>1, EnterDisconnectedEffect DEF KillSwitch
  <2> QED BY <1>3, <2>1, KillSwitchBlocked, KillSwitchConnecting
          DEF HandleCloseEvent, ConnectingHandleTunnelCloseEvent,
              ConnectedHandleTunnelCloseEvent, DisconnectingHandleExitEvent
<1>4. ASSUME NEW answer \in TunnelParameters \cup {NoParameters}, Generated(answer)
      PROVE  KillSwitch'
  <2>1. CASE Enforce(ConnectingPolicy(answer, allowLan), {firewall}, TRUE)
        BY <2>1, PolicyKinds DEF Enforce, KillSwitch
  <2> QED BY <1>4, <2>1, KillSwitchBlocked DEF Generated
<1>5. CASE MonitorThreads \/ Environment \/ UNCHANGED vars
      BY <1>5, EnvironmentEffect DEF KillSwitch
<1> QED BY <1>1, <1>2, <1>3, <1>4, <1>5 DEF Next, HandleEvent, GeneratorAnswers

(***************************************************************************)
(* The kill switch holds for every set of faults: no interleaving of       *)
(* commands, tunnel events, exits and firewall errors lets a tunnel state  *)
(* run, or the blocked state claim to block, without a firewall policy.    *)
(***************************************************************************)
THEOREM KillSwitchHolds == Spec => []KillSwitch
<1>1. Init => KillSwitch
      BY DEF Init, KillSwitch
<1>2. TypeOK /\ KillSwitch /\ [Next]_vars => KillSwitch'
      BY KillSwitchNext
<1>3. Spec => []TypeOK
      BY TypeCorrect, PTL
<1> QED BY <1>1, <1>2, <1>3, PTL DEF Spec

-----------------------------------------------------------------------------
(* At most one tunnel *)

\* No tunnel is left in a state that owns none, or once the exit is reported.
LEMMA AllIdle ==
    ASSUME HandleOK, OneTunnel, state # "Stopped",
           \/ state \in {"Disconnected", "Generating", "Blocked"}
           \/ closeEvent # "NotReady"
    PROVE  \A t \in Tunnels : monitor[t] = "Idle"
BY TunnelAssumption DEF HandleOK, OneTunnel

\* The handlers never touch a monitor; a handler keeps its tunnel, or has
\* nothing left to keep.
LEMMA HandleEventTunnel ==
    ASSUME HandleEvent
    PROVE  /\ monitor' = monitor
           /\ state # "Stopped"
           /\ \/ tunnel' = tunnel
              \/ state \in {"Disconnected", "Blocked"}
              \/ closeEvent # "NotReady"
<1>1. ASSUME NEW n, EnterConnecting(n)
      PROVE  monitor' = monitor
      BY <1>1, EnterConnectingEffect, EnterBlockedEffect
<1>2. CASE HandleCommand
      BY <1>1, <1>2, EnterBlockedEffect, EnterDisconnectedEffect, EnterDisconnectingEffect,
         SameStateEffect
      DEF HandleCommand, DisconnectedHandleEvent, BlockedHandleEvent,
          ConnectingHandleCommands, ConnectedHandleCommands, DisconnectingHandleCommands,
          Disconnect, handle, monitors
<1>3. CASE HandleTunnelEvent
      BY <1>3, EnterDisconnectingEffect
      DEF HandleTunnelEvent, ConnectingHandleTunnelEvents, ConnectedHandleTunnelEvents,
          Disconnect, IgnoreEvent, EnterConnected, monitors
<1>4. CASE HandleCloseEvent
      BY <1>1, <1>4, EnterBlockedEffect, EnterDisconnectedEffect
      DEF HandleCloseEvent, ConnectingHandleTunnelCloseEvent,
          ConnectedHandleTunnelCloseEvent, DisconnectingHandleExitEvent
<1> QED BY <1>2, <1>3, <1>4 DEF HandleEvent

LEMMA OneTunnelNext ==
    ASSUME TypeOK, HandleOK, OneTunnel, [Next]_vars
    PROVE  OneTunnel'
<1>1. CASE HandleEvent
      BY <1>1, HandleEventTunnel, AllIdle DEF OneTunnel
<1>2. ASSUME NEW answer \in TunnelParameters \cup {NoParameters}, Generated(answer)
      PROVE  OneTunnel'
  <2>1. \A t \in Tunnels : monitor[t] = "Idle"
        BY <1>2, AllIdle DEF Generated
  <2>2. CASE StartTunnel(answer)
        BY <2>1, <2>2 DEF StartTunnel, OneTunnel, TypeOK, HandleTypeOK
  <2> QED BY <1>2, <2>1, <2>2, EnterBlockedEffect DEF Generated, OneTunnel
<1>3. CASE MonitorThreads
      BY <1>3 DEF MonitorThreads, MonitorExit, SendCloseEvent, machine, handle,
                  OneTunnel, TypeOK, HandleTypeOK
<1>4. CASE Environment
      BY <1>4 DEF Environment, Send, Hangup, StopListening, OnTunnelEvent, DropEventSender,
                  machine, handle, monitors, OneTunnel
<1>5. CASE UNCHANGED vars
      BY <1>5 DEF vars, machine, handle, monitors, OneTunnel
<1> QED BY <1>1, <1>2, <1>3, <1>4, <1>5 DEF Next, GeneratorAnswers

(***************************************************************************)
(* Reconnecting never leaves an old tunnel behind: every monitor but the   *)
(* one the current state has a handle of has ended.                        *)
(***************************************************************************)
THEOREM OneTunnelHolds == Spec => []OneTunnel
<1>1. Init => OneTunnel
      BY DEF Init, OneTunnel
<1>2. TypeOK /\ HandleOK /\ OneTunnel /\ [Next]_vars => OneTunnel'
      BY OneTunnelNext
<1>3. Spec => [](TypeOK /\ HandleOK)
      BY TypeCorrect
<1> QED BY <1>1, <1>2, <1>3, PTL DEF Spec

-----------------------------------------------------------------------------
(* The firewall is opened last *)

LEMMA OpensNext ==
    ASSUME HandleOK, OneTunnel, Next,
           firewall.kind # "None", firewall'.kind = "None"
    PROVE  /\ state' \in {"Disconnected", "Stopped"}
           /\ \A t \in Tunnels : monitor'[t] = "Idle"
<1>1. ASSUME NEW reason, EnterBlocked(reason, {firewall})
      PROVE  FALSE
      BY <1>1, EnterBlockedEffect, PolicyKinds
<1>2. ASSUME NEW n, EnterConnecting(n)
      PROVE  FALSE
      BY <1>1, <1>2, EnterConnectingEffect
<1>3. firewall' # firewall
      OBVIOUS
<1>4. CASE HandleCommand
  <2>1. ASSUME NEW c \in TunnelCommand \cup {Closed}, DisconnectedHandleEvent(c)
        PROVE  state' = "Disconnected" /\ \A t \in Tunnels : monitor'[t] = "Idle"
    <3>1. SameState
          BY <1>1, <1>2, <1>3, <2>1 DEF DisconnectedHandleEvent, fw
    <3> QED BY <2>1, <3>1, AllIdle, SameStateEffect DEF DisconnectedHandleEvent
  <2>2. ASSUME NEW c \in TunnelCommand \cup {Closed}, BlockedHandleEvent(c)
        PROVE  /\ state' \in {"Disconnected", "Stopped"}
               /\ \A t \in Tunnels : monitor'[t] = "Idle"
    <3>1. ASSUME NEW ok \in BOOLEAN, Enforce(BlockedPolicy(allowLan'), {firewall}, ok)
          PROVE  FALSE
          BY <3>1, PolicyKinds DEF Enforce
    <3>2. EnterDisconnected
          BY <1>1, <1>2, <1>3, <2>2, <3>1, OutcomesType DEF BlockedHandleEvent, fw
    <3> QED BY <2>2, <3>2, AllIdle, EnterDisconnectedEffect DEF BlockedHandleEvent
  <2>3. ASSUME NEW c \in TunnelCommand \cup {Closed},
               \/ ConnectingHandleCommands(c)
               \/ ConnectedHandleCommands(c)
               \/ DisconnectingHandleCommands(c)
        PROVE  FALSE
        BY <1>3, <2>3, OutcomesType, PolicyKinds
        DEF ConnectingHandleCommands, ConnectedHandleCommands,
            DisconnectingHandleCommands, Enforce, fw
  <2> QED BY <1>4, <2>1, <2>2, <2>3 DEF HandleCommand
<1>5. CASE HandleTunnelEvent
      BY <1>3, <1>5, PolicyKinds
      DEF HandleTunnelEvent, ConnectingHandleTunnelEvents, ConnectedHandleTunnelEvents,
          EnterConnected, Enforce, IgnoreEvent, fw
<1>6. CASE HandleCloseEvent
  <2>1. EnterDisconnected /\ closeEvent # "NotReady" /\ state = "Disconnecting"
        BY <1>1, <1>2, <1>6 DEF HandleCloseEvent, ConnectingHandleTunnelCloseEvent,
              ConnectedHandleTunnelCloseEvent, DisconnectingHandleExitEvent
  <2> QED BY <2>1, AllIdle, EnterDisconnectedEffect
<1>7. ASSUME NEW answer \in TunnelParameters \cup {NoParameters}, Generated(answer)
      PROVE  FALSE
      BY <1>7, EnterBlockedEffect, PolicyKinds DEF Generated, Enforce
<1>8. CASE MonitorThreads \/ Environment
      BY <1>3, <1>8, EnvironmentEffect
<1> QED BY <1>4, <1>5, <1>6, <1>7, <1>8 DEF Next, HandleEvent, GeneratorAnswers

(***************************************************************************)
(* No step lifts the firewall policy while a tunnel is still there or on   *)
(* the way to any state but the disconnected one.                          *)
(***************************************************************************)
THEOREM OpensOnlyWhenDownHolds == Spec => OpensOnlyWhenDown
<1>1. HandleOK /\ OneTunnel /\ [Next]_vars =>
         [firewall.kind # "None" /\ firewall'.kind = "None" =>
             /\ state' \in {"Disconnected", "Stopped"}
             /\ \A t \in Tunnels : monitor'[t] = "Idle"]_vars
      BY OpensNext
<1> QED BY <1>1, TypeCorrect, OneTunnelHolds, PTL DEF Spec, OpensOnlyWhenDown

-----------------------------------------------------------------------------
(* The machine follows the last request *)

\* Its two parts are proved together: neither a tunnel after Disconnect nor the
\* disconnected state after Connect or Block.

LEMMA ReceiveRequest ==
    ASSUME TypeOK, NEW c, Receive(c)
    PROVE  /\ c.cmd \in {"Connect", "Disconnect", "Block"} => requested' = c.cmd
           /\ c.cmd \notin {"Connect", "Disconnect", "Block"} => requested' = requested
           /\ c = Closed => ~commandsOpen
           /\ commandsOpen' = commandsOpen
<1>1. commands # <<>> => Head(commands) \in TunnelCommand
      BY DEF TypeOK, InputTypeOK
<1>2. Closed \notin TunnelCommand
      BY DEF Closed, TunnelCommand, Flags
<1>3. c = Closed => ~commandsOpen
      BY <1>1, <1>2 DEF Receive
<1> QED BY <1>3 DEF Receive

LEMMA FollowsRequestCommand ==
    ASSUME TypeOK, FollowsRequest, HandleCommand
    PROVE  FollowsRequest'
<1> USE DEF FollowsRequest, StaysDisconnected, NeverGivesUp
<1>1. ASSUME NEW c \in TunnelCommand \cup {Closed}, DisconnectedHandleEvent(c)
      PROVE  FollowsRequest'
  <2>1. CASE SameState /\ c.cmd \in {"AllowLan", "BlockWhenDisconnected", "IsOffline", "Disconnect"}
        BY <1>1, <2>1, ReceiveRequest, SameStateEffect DEF DisconnectedHandleEvent
  <2>2. CASE c.cmd = "Connect" /\ EnterConnecting(0)
        BY <1>1, <2>2, ReceiveRequest, EnterConnectingEffect, EnterBlockedEffect
        DEF DisconnectedHandleEvent
  <2>3. CASE c.cmd = "Block" /\ EnterBlocked(c.reason, {firewall})
        BY <1>1, <2>3, ReceiveRequest, EnterBlockedEffect DEF DisconnectedHandleEvent
  <2>4. CASE c = Closed /\ state' = "Finished"
        BY <1>1, <2>4, ReceiveRequest DEF DisconnectedHandleEvent, Closed
  <2> QED BY <1>1, <2>1, <2>2, <2>3, <2>4 DEF DisconnectedHandleEvent
<1>2. ASSUME NEW c \in TunnelCommand \cup {Closed}, BlockedHandleEvent(c)
      PROVE  FollowsRequest'
  <2>1. CASE SameState /\ c.cmd \in Flags
        BY <1>2, <2>1, ReceiveRequest, SameStateEffect DEF BlockedHandleEvent, Flags
  <2>2. CASE c.cmd = "Connect" /\ EnterConnecting(0)
        BY <1>2, <2>2, ReceiveRequest, EnterConnectingEffect, EnterBlockedEffect
        DEF BlockedHandleEvent
  <2>3. CASE c.cmd = "IsOffline" /\ blockReason = "IsOffline" /\ EnterConnecting(0)
    <3>1. requested' # "Disconnect"
          BY <1>2, <2>3, ReceiveRequest DEF BlockedHandleEvent
    <3> QED BY <2>3, <3>1, EnterConnectingEffect, EnterBlockedEffect
  <2>4. CASE c.cmd = "Disconnect" /\ EnterDisconnected
        BY <1>2, <2>4, ReceiveRequest, EnterDisconnectedEffect DEF BlockedHandleEvent
  <2>5. CASE c.cmd = "Closed" /\ EnterDisconnected
        BY <1>2, <2>5, CommandType, ReceiveRequest, EnterDisconnectedEffect
        DEF BlockedHandleEvent
  <2>6. CASE c.cmd = "Block" /\ EnterBlocked(c.reason, {firewall})
        BY <1>2, <2>6, ReceiveRequest, EnterBlockedEffect DEF BlockedHandleEvent
  <2> QED BY <1>2, <2>1, <2>2, <2>3, <2>4, <2>5, <2>6 DEF BlockedHandleEvent, Flags
<1>3. ASSUME NEW c \in TunnelCommand \cup {Closed},
             ConnectingHandleCommands(c) \/ ConnectedHandleCommands(c)
      PROVE  FollowsRequest'
  <2>1. requested # "Disconnect" /\ Receive(c)
        BY <1>3 DEF ConnectingHandleCommands, ConnectedHandleCommands
  <2>2. CASE SameState /\ c.cmd \in Flags
        BY <1>3, <2>1, <2>2, ReceiveRequest, SameStateEffect
        DEF ConnectingHandleCommands, ConnectedHandleCommands, Flags
  <2>3. CASE /\ c.cmd \notin {"Disconnect", "Closed"}
             /\ \E a \in {"Block", "Reconnect"} : \E reason : EnterDisconnecting(a, reason, 0)
        BY <2>1, <2>3, CommandType, ReceiveRequest, EnterDisconnectingEffect
  <2>4. CASE /\ c.cmd \in {"Disconnect", "Closed"}
             /\ EnterDisconnecting("Nothing", None, 0)
        BY <2>1, <2>4, CommandType, ReceiveRequest, EnterDisconnectingEffect
  <2> QED BY <1>3, <2>2, <2>3, <2>4
          DEF ConnectingHandleCommands, ConnectedHandleCommands, Disconnect, Flags
<1>4. ASSUME NEW c \in TunnelCommand \cup {Closed}, DisconnectingHandleCommands(c)
      PROVE  FollowsRequest'
  <2>1. after' = AfterCommand(c).action /\ state' = state /\ Receive(c)
        BY <1>4 DEF DisconnectingHandleCommands, Values
  <2>2. /\ c.cmd = "Connect" => AfterCommand(c).action = "Reconnect"
        /\ c.cmd = "Disconnect" => AfterCommand(c).action = "Nothing"
        /\ c.cmd = "Block" => AfterCommand(c).action = "Block"
        /\ c.cmd \in Flags \cup {"Closed"} =>
              \/ AfterCommand(c).action = after
              \/ after # "Nothing" /\ AfterCommand(c).action # "Nothing"
              \/ c.cmd = "Closed" /\ after = "Reconnect" /\ AfterCommand(c).action = "Nothing"
        BY DEF AfterCommand, Flags
  <2> QED BY <1>4, <2>1, <2>2, CommandType, ReceiveRequest
          DEF DisconnectingHandleCommands, Flags
<1> QED BY <1>1, <1>2, <1>3, <1>4 DEF HandleCommand

LEMMA FollowsRequestNext ==
    ASSUME TypeOK, HandleOK, FollowsRequest, [Next]_vars
    PROVE  FollowsRequest'
<1> USE DEF FollowsRequest, StaysDisconnected, NeverGivesUp
<1>1. CASE HandleCommand
      BY <1>1, FollowsRequestCommand
<1>2. CASE HandleTunnelEvent
  <2>1. /\ requested' = requested /\ commandsOpen' = commandsOpen
        /\ requested # "Disconnect"
        BY <1>2 DEF HandleTunnelEvent, ConnectingHandleTunnelEvents,
                    ConnectedHandleTunnelEvents, channel
  <2>2. \/ state' \in {"Connecting", "Connected", "Stopped"}
        \/ state' = "Disconnecting" /\ after' # "Nothing"
    <3>1. ASSUME NEW a \in {"Block", "Reconnect"}, NEW reason, NEW n,
                 EnterDisconnecting(a, reason, n)
          PROVE  state' = "Stopped" \/ (state' = "Disconnecting" /\ after' # "Nothing")
          BY <3>1, EnterDisconnectingEffect
    <3>2. ASSUME IgnoreEvent PROVE state' = state
          BY <3>2 DEF IgnoreEvent, machine
    <3>3. ASSUME NewState("Connected", [to |-> "Connected"])
          PROVE  state' \in {"Connected", "Stopped"}
          BY <3>3 DEF NewState
    <3>4. ASSUME EnterConnected
          PROVE  \/ state' \in {"Connected", "Stopped"}
                 \/ state' = "Disconnecting" /\ after' # "Nothing"
          BY <3>1, <3>3, <3>4 DEF EnterConnected
    <3> QED BY <1>2, <3>1, <3>2, <3>4
            DEF HandleTunnelEvent, ConnectingHandleTunnelEvents,
                ConnectedHandleTunnelEvents, Disconnect
  <2>3. CASE state' = "Stopped"
        BY <2>1, <2>3
  <2> QED BY <2>1, <2>2, <2>3
<1>3. CASE HandleCloseEvent
  <2>1. requested' = requested /\ commandsOpen' = commandsOpen
        BY <1>3 DEF HandleCloseEvent, ConnectingHandleTunnelCloseEvent,
              ConnectedHandleTunnelCloseEvent, DisconnectingHandleExitEvent, channel
  <2>2. CASE ExitReason /\ EnterBlocked(closeEvent, {firewall})
    <3>1. "tap" \in Faults /\ closeEvent = "TapAdapterProblem"
          BY <2>2 DEF ExitReason, BlockReason, None, TypeOK, HandleTypeOK, HandleOK
    <3> QED BY <2>1, <2>2, <3>1, EnterBlockedEffect
  <2>3. CASE \E n : EnterConnecting(n) /\ requested # "Disconnect"
        BY <2>1, <2>3, EnterConnectingEffect, EnterBlockedEffect
  <2>4. CASE DisconnectingHandleExitEvent /\ after = "Nothing" /\ EnterDisconnected
        BY <2>1, <2>4, EnterDisconnectedEffect DEF DisconnectingHandleExitEvent
  <2>5. CASE DisconnectingHandleExitEvent /\ after = "Block" /\ EnterBlocked(blockReason, {firewall})
        BY <2>1, <2>5, EnterBlockedEffect DEF DisconnectingHandleExitEvent
  <2> QED BY <1>3, <2>2, <2>3, <2>4, <2>5
          DEF HandleCloseEvent, ConnectingHandleTunnelCloseEvent,
              ConnectedHandleTunnelCloseEvent, DisconnectingHandleExitEvent
<1>4. ASSUME NEW answer \in TunnelParameters \cup {NoParameters}, Generated(answer)
      PROVE  FollowsRequest'
  <2>1. /\ requested' = requested /\ commandsOpen' = commandsOpen
        /\ requested # "Disconnect"
        BY <1>4 DEF Generated, channel
  <2>2. state' \in {"Blocked", "Stopped", "Connecting"}
        BY <1>4, EnterBlockedEffect DEF Generated, StartTunnel, NewState
  <2> QED BY <2>1, <2>2
<1>5. CASE MonitorThreads \/ Environment \/ UNCHANGED vars
      BY <1>5, EnvironmentEffect
<1> QED BY <1>1, <1>2, <1>3, <1>4, <1>5 DEF Next, HandleEvent, GeneratorAnswers

(***************************************************************************)
(* Whatever fails in between, a Disconnect is final until the next Connect *)
(* or Block, and a Connect or Block is never given up for the unprotected  *)
(* disconnected state.                                                     *)
(***************************************************************************)
THEOREM FollowsRequestHolds == Spec => []FollowsRequest
<1>1. Init => FollowsRequest
      BY DEF Init, FollowsRequest, StaysDisconnected, NeverGivesUp
<1>2. TypeOK /\ HandleOK /\ FollowsRequest /\ [Next]_vars => FollowsRequest'
      BY FollowsRequestNext
<1> QED BY <1>1, <1>2, TypeCorrect, PTL DEF Spec

-----------------------------------------------------------------------------
(* The policy in force is the one the state calls for *)

\* PolicyFitsState, one implication for each state that has a policy of its own.
PolicyOf(s, err, f, block, lan, p, t) ==
    ~err =>
       /\ s = "Disconnected" => f = IF block THEN BlockedPolicy(lan) ELSE NoPolicy
       /\ s = "Blocked" => f = BlockedPolicy(lan)
       /\ s = "Connecting" => f = ConnectingPolicy(p, lan)
       /\ s = "Connected" => f = ConnectedPolicy(p, t, lan)

LEMMA PolicyFitsStateCases ==
    /\ PolicyFitsState <=> PolicyOf(state, firewallErr, firewall, blockWhenDisconnected,
                                    allowLan, parameters, tunnel)
    /\ PolicyFitsState' <=> PolicyOf(state', firewallErr', firewall', blockWhenDisconnected',
                                     allowLan', parameters', tunnel')
<1>1. PolicyFitsState <=> PolicyOf(state, firewallErr, firewall, blockWhenDisconnected,
                                   allowLan, parameters, tunnel)
  <2>1. CASE state = "Disconnected"
        BY <2>1 DEF PolicyFitsState, PolicyOf
  <2>2. CASE state = "Blocked"
        BY <2>2 DEF PolicyFitsState, PolicyOf
  <2>3. CASE state = "Connecting"
        BY <2>3 DEF PolicyFitsState, PolicyOf
  <2>4. CASE state = "Connected"
        BY <2>4 DEF PolicyFitsState, PolicyOf
  <2>5. CASE state \notin {"Disconnected", "Blocked", "Connecting", "Connected"}
        BY <2>5 DEF PolicyFitsState, PolicyOf
  <2> QED BY <2>1, <2>2, <2>3, <2>4, <2>5
<1>2. (PolicyFitsState <=> PolicyOf(state, firewallErr, firewall, blockWhenDisconnected,
                                   allowLan, parameters, tunnel))'
      BY <1>1, PTL
<1> QED BY <1>1, <1>2

LEMMA PolicyFitsEntered ==
    /\ \A reason, before : EnterBlocked(reason, before) => PolicyFitsState'
    /\ EnterDisconnected => PolicyFitsState'
    /\ \A n : EnterConnecting(n) => PolicyFitsState'
    /\ \A a, reason, n : EnterDisconnecting(a, reason, n) => PolicyFitsState'
<1> USE PolicyFitsStateCases DEF PolicyOf
<1>1. ASSUME NEW reason, NEW before, EnterBlocked(reason, before) PROVE PolicyFitsState'
      BY <1>1, EnterBlockedEffect
<1>2. ASSUME EnterDisconnected PROVE PolicyFitsState'
      BY <1>2, EnterDisconnectedEffect DEF DisconnectedPolicy
<1>3. ASSUME NEW n, EnterConnecting(n) PROVE PolicyFitsState'
      BY <1>1, <1>3, EnterConnectingEffect
<1>4. ASSUME NEW a, NEW reason, NEW n, EnterDisconnecting(a, reason, n) PROVE PolicyFitsState'
      BY <1>4, EnterDisconnectingEffect
<1> QED BY <1>1, <1>2, <1>3, <1>4

\* A command that changes what a policy is made of has the policy applied again.
LEMMA PolicyFitsCommand ==
    ASSUME TypeOK, PolicyFitsState, HandleCommand
    PROVE  PolicyFitsState'
<1> USE PolicyFitsStateCases DEF PolicyOf
<1>1. ASSUME NEW c \in TunnelCommand \cup {Closed}, Receive(c),
             c.cmd \notin {"AllowLan", "BlockWhenDisconnected"}
      PROVE  allowLan' = allowLan /\ blockWhenDisconnected' = blockWhenDisconnected
      BY <1>1 DEF Receive
<1>2. ASSUME NEW c \in TunnelCommand \cup {Closed}, DisconnectedHandleEvent(c)
      PROVE  PolicyFitsState'
  <2>1. CASE SetDisconnectedPolicy /\ SameState
        BY <1>2, <2>1, SetDisconnectedPolicyEffect, SameStateEffect
        DEF DisconnectedHandleEvent, DisconnectedPolicy
  <2>2. CASE settings' = settings /\ UNCHANGED fw /\ SameState
        BY <1>2, <2>2, FwUnchangedEffect, SameStateEffect DEF DisconnectedHandleEvent, settings
  <2>3. CASE c.cmd \in {"IsOffline", "Disconnect"} /\ SameState /\ UNCHANGED fw
        BY <1>1, <1>2, <2>3, FwUnchangedEffect, SameStateEffect DEF DisconnectedHandleEvent
  <2>4. CASE state' = "Finished"
        BY <2>4
  <2> QED BY <1>2, <2>1, <2>2, <2>3, <2>4, PolicyFitsEntered DEF DisconnectedHandleEvent
<1>3. ASSUME NEW c \in TunnelCommand \cup {Closed}, BlockedHandleEvent(c)
      PROVE  PolicyFitsState'
  <2>1. CASE /\ SameState
             /\ \E ok \in Outcomes("firewall") : Enforce(BlockedPolicy(allowLan'), {firewall}, ok)
    <3>1. ~firewallErr' => firewall' = BlockedPolicy(allowLan')
          BY <2>1, OutcomesType DEF Enforce
    <3> QED BY <1>3, <2>1, <3>1, SameStateEffect DEF BlockedHandleEvent
  <2>2. CASE SameState /\ UNCHANGED fw /\ c.cmd # "AllowLan"
    <3>1. allowLan' = allowLan
          BY <1>3, <2>2 DEF BlockedHandleEvent, Receive
    <3> QED BY <1>3, <2>2, <3>1, FwUnchangedEffect, SameStateEffect DEF BlockedHandleEvent
  <2> QED BY <1>3, <2>1, <2>2, PolicyFitsEntered DEF BlockedHandleEvent
<1>4. ASSUME NEW c \in TunnelCommand \cup {Closed}, ConnectingHandleCommands(c)
      PROVE  PolicyFitsState'
  <2>1. CASE SameState /\ Enforce(ConnectingPolicy(parameters, allowLan'), {firewall}, TRUE)
        BY <1>4, <2>1, SameStateEffect DEF ConnectingHandleCommands, Enforce
  <2>2. CASE SameState /\ UNCHANGED fw /\ c.cmd # "AllowLan"
    <3>1. allowLan' = allowLan
          BY <1>4, <2>2 DEF ConnectingHandleCommands, Receive
    <3> QED BY <1>4, <2>2, <3>1, FwUnchangedEffect, SameStateEffect DEF ConnectingHandleCommands
  <2> QED BY <1>4, <2>1, <2>2, PolicyFitsEntered, OutcomesType DEF ConnectingHandleCommands
<1>5. ASSUME NEW c \in TunnelCommand \cup {Closed}, ConnectedHandleCommands(c)
      PROVE  PolicyFitsState'
  <2>1. CASE SameState /\ Enforce(ConnectedPolicy(parameters, tunnel, allowLan'), {firewall}, TRUE)
        BY <1>5, <2>1, SameStateEffect DEF ConnectedHandleCommands, Enforce
  <2>2. CASE SameState /\ UNCHANGED fw /\ c.cmd # "AllowLan"
    <3>1. allowLan' = allowLan
          BY <1>5, <2>2 DEF ConnectedHandleCommands, Receive
    <3> QED BY <1>5, <2>2, <3>1, FwUnchangedEffect, SameStateEffect DEF ConnectedHandleCommands
  <2> QED BY <1>5, <2>1, <2>2, PolicyFitsEntered, OutcomesType
          DEF ConnectedHandleCommands, Disconnect
<1>6. ASSUME NEW c \in TunnelCommand \cup {Closed}, DisconnectingHandleCommands(c)
      PROVE  PolicyFitsState'
      BY <1>6 DEF DisconnectingHandleCommands
<1> QED BY <1>2, <1>3, <1>4, <1>5, <1>6 DEF HandleCommand

LEMMA PolicyFitsNext ==
    ASSUME TypeOK, PolicyFitsState, [Next]_vars
    PROVE  PolicyFitsState'
<1> USE PolicyFitsStateCases DEF PolicyOf
<1>1. CASE HandleCommand
      BY <1>1, PolicyFitsCommand
<1>2. CASE HandleTunnelEvent
  <2>1. allowLan' = allowLan
        BY <1>2 DEF HandleTunnelEvent, ConnectingHandleTunnelEvents,
                    ConnectedHandleTunnelEvents, settings
  <2>2. CASE IgnoreEvent
    <3>1. /\ state' = state /\ parameters' = parameters /\ tunnel' = tunnel
          /\ firewall' = firewall /\ firewallErr' = firewallErr
          BY <2>2 DEF IgnoreEvent, machine, fw
    <3> QED BY <1>2, <2>1, <3>1 DEF HandleTunnelEvent, ConnectingHandleTunnelEvents,
                                    ConnectedHandleTunnelEvents
  <2>3. CASE EnterConnected
    <3>1. CASE /\ Enforce(ConnectedPolicy(parameters, tunnel, allowLan), {firewall}, TRUE)
               /\ NewState("Connected", [to |-> "Connected"])
               /\ UNCHANGED <<tunnel, parameters, eventsOpen, closeEvent, monitors>>
          BY <2>1, <3>1 DEF Enforce, NewState
    <3> QED BY <2>3, <3>1, PolicyFitsEntered DEF EnterConnected
  <2> QED BY <1>2, <2>2, <2>3, PolicyFitsEntered
          DEF HandleTunnelEvent, ConnectingHandleTunnelEvents, ConnectedHandleTunnelEvents,
              Disconnect
<1>3. CASE HandleCloseEvent
      BY <1>3, PolicyFitsEntered
      DEF HandleCloseEvent, ConnectingHandleTunnelCloseEvent,
          ConnectedHandleTunnelCloseEvent, DisconnectingHandleExitEvent
<1>4. ASSUME NEW answer \in TunnelParameters \cup {NoParameters}, Generated(answer)
      PROVE  PolicyFitsState'
  <2>1. CASE Enforce(ConnectingPolicy(answer, allowLan), {firewall}, TRUE) /\ StartTunnel(answer)
        BY <1>4, <2>1 DEF Generated, Enforce, StartTunnel, NewState, settings
  <2> QED BY <1>4, <2>1, PolicyFitsEntered DEF Generated
<1>5. CASE MonitorThreads \/ Environment \/ UNCHANGED vars
      BY <1>5, EnvironmentEffect
<1> QED BY <1>1, <1>2, <1>3, <1>4, <1>5 DEF Next, HandleEvent, GeneratorAnswers

(***************************************************************************)
(* The firewall enforces what the state calls for whenever its last call   *)
(* succeeded: no interleaving of setting changes and transitions leaves an *)
(* old peer, an old tunnel interface or an old LAN setting in force.       *)
(***************************************************************************)
THEOREM PolicyFitsStateHolds == Spec => []PolicyFitsState
<1>1. Init => PolicyFitsState
      BY PolicyFitsStateCases DEF PolicyOf, Init, InitialPolicy
<1>2. TypeOK /\ PolicyFitsState /\ [Next]_vars => PolicyFitsState'
      BY PolicyFitsNext
<1>3. Spec => []TypeOK
      BY TypeCorrect, PTL
<1> QED BY <1>1, <1>2, <1>3, PTL DEF Spec

-----------------------------------------------------------------------------
(* Being offline *)

\* A state keeps a block reason only if it is blocked or waits to block: a machine that is
\* told it is back online looks for "IsOffline" there and nowhere else.
ReasonIsNeeded ==
    /\ state \in {"Disconnected", "Generating", "Connecting", "Connected"} => blockReason = None
    /\ state = "Disconnecting" /\ after # "Block" => blockReason = None

OfflineInv == OfflineIsKnown /\ ReasonIsNeeded

\* What a handler learns about the connection.
LEMMA ReceiveOffline ==
    ASSUME NEW c, Receive(c)
    PROVE  /\ c.cmd = "IsOffline" => isOffline' = c.value
           /\ c.cmd # "IsOffline" => isOffline' = isOffline
BY DEF Receive

\* No reason but its own is "IsOffline".
LEMMA OtherReasons ==
    /\ "IsOffline" \notin CommandReasons
    /\ None # "IsOffline"
BY FaultsAssumption DEF None

LEMMA OfflineEntered ==
    ASSUME TypeOK
    PROVE  /\ \A reason, before :
                 /\ EnterBlocked(reason, before)
                 /\ reason = "IsOffline" => isOffline'
                 => OfflineInv'
           /\ EnterDisconnected => OfflineInv'
           /\ \A n : EnterConnecting(n) => OfflineInv'
           /\ \A a, reason, n :
                 /\ EnterDisconnecting(a, reason, n)
                 /\ reason = "IsOffline" => isOffline'
                 /\ a # "Block" => reason = None
                 => OfflineInv'
<1> USE OtherReasons DEF OfflineInv, OfflineIsKnown, ReasonIsNeeded
<1>1. ASSUME NEW reason, NEW before, EnterBlocked(reason, before),
             reason = "IsOffline" => isOffline'
      PROVE  OfflineInv'
      BY <1>1, EnterBlockedEffect
<1>2. ASSUME EnterDisconnected PROVE OfflineInv'
      BY <1>2, EnterDisconnectedEffect
<1>3. ASSUME NEW n, EnterConnecting(n) PROVE OfflineInv'
      BY <1>1, <1>3, EnterConnectingEffect
<1>4. ASSUME NEW a, NEW reason, NEW n, EnterDisconnecting(a, reason, n),
             reason = "IsOffline" => isOffline', a # "Block" => reason = None
      PROVE  OfflineInv'
      BY <1>4, EnterDisconnectingEffect
<1> QED BY <1>1, <1>2, <1>3, <1>4

LEMMA OfflineCommand ==
    ASSUME TypeOK, OfflineInv, HandleCommand
    PROVE  OfflineInv'
<1> USE OtherReasons DEF OfflineInv, OfflineIsKnown, ReasonIsNeeded
<1>1. ASSUME NEW c \in TunnelCommand \cup {Closed}, DisconnectedHandleEvent(c)
      PROVE  OfflineInv'
  <2>1. CASE SameState
        BY <1>1, <2>1, SameStateEffect DEF DisconnectedHandleEvent
  <2>2. CASE state' = "Finished" /\ UNCHANGED blockReason
        BY <1>1, <2>2 DEF DisconnectedHandleEvent
  <2>3. CASE c.cmd = "Block" /\ EnterBlocked(c.reason, {firewall})
        BY <2>3, CommandType, OfflineEntered
  <2> QED BY <1>1, <2>1, <2>2, <2>3, OfflineEntered DEF DisconnectedHandleEvent
<1>2. ASSUME NEW c \in TunnelCommand \cup {Closed}, BlockedHandleEvent(c)
      PROVE  OfflineInv'
  <2>1. CASE SameState /\ c.cmd # "IsOffline"
        BY <1>2, <2>1, SameStateEffect, ReceiveOffline DEF BlockedHandleEvent
  <2>2. CASE SameState /\ c.cmd = "IsOffline" /\ ~(~c.value /\ blockReason = "IsOffline")
        BY <1>2, <2>2, SameStateEffect, ReceiveOffline DEF BlockedHandleEvent
  <2>3. CASE c.cmd = "Block" /\ EnterBlocked(c.reason, {firewall})
        BY <2>3, CommandType, OfflineEntered
  <2> QED BY <1>2, <2>1, <2>2, <2>3, OfflineEntered DEF BlockedHandleEvent
<1>3. ASSUME NEW c \in TunnelCommand \cup {Closed},
             ConnectingHandleCommands(c) \/ ConnectedHandleCommands(c)
      PROVE  OfflineInv'
  <2>1. Receive(c)
        BY <1>3 DEF ConnectingHandleCommands, ConnectedHandleCommands
  <2>2. CASE SameState /\ (c.cmd = "IsOffline" => ~c.value)
        BY <1>3, <2>1, <2>2, SameStateEffect, ReceiveOffline
        DEF ConnectingHandleCommands, ConnectedHandleCommands
  <2>3. CASE \E reason \in CommandReasons \cup {"SetFirewallPolicyError"} :
                EnterDisconnecting("Block", reason, 0)
        BY <2>3, OfflineEntered
  <2>4. CASE c.cmd = "IsOffline" /\ c.value /\ EnterDisconnecting("Block", "IsOffline", 0)
        BY <2>1, <2>4, ReceiveOffline, OfflineEntered
  <2>5. CASE \E a \in {"Reconnect", "Nothing"} : EnterDisconnecting(a, None, 0)
        BY <2>5, OfflineEntered
  <2>6. c.cmd = "Block" => c.reason \in CommandReasons
        BY CommandType
  <2> QED BY <1>3, <2>2, <2>3, <2>4, <2>5, <2>6
          DEF ConnectingHandleCommands, ConnectedHandleCommands, Disconnect
<1>4. ASSUME NEW c \in TunnelCommand \cup {Closed}, DisconnectingHandleCommands(c)
      PROVE  OfflineInv'
  <2>1. /\ after' = AfterCommand(c).action /\ blockReason' = AfterCommand(c).reason
        /\ state' = state /\ state = "Disconnecting" /\ Receive(c)
        BY <1>4 DEF DisconnectingHandleCommands, Values
  <2>2. c.cmd = "Block" => c.reason \in CommandReasons
        BY CommandType
  <2>3. /\ AfterCommand(c).reason = "IsOffline" =>
              \/ c.cmd = "IsOffline" /\ c.value
              \/ c.cmd # "IsOffline" /\ blockReason = "IsOffline"
        /\ AfterCommand(c).action # "Block" => AfterCommand(c).reason = None
        BY <2>1, <2>2 DEF AfterCommand
  <2> QED BY <2>1, <2>3, ReceiveOffline
<1> QED BY <1>1, <1>2, <1>3, <1>4 DEF HandleCommand

LEMMA OfflineNext ==
    ASSUME TypeOK, HandleOK, OfflineInv, [Next]_vars
    PROVE  OfflineInv'
<1> USE OtherReasons DEF OfflineInv, OfflineIsKnown, ReasonIsNeeded
<1>1. CASE HandleCommand
      BY <1>1, OfflineCommand
<1>2. CASE HandleTunnelEvent
  <2>1. isOffline' = isOffline
        BY <1>2 DEF HandleTunnelEvent, ConnectingHandleTunnelEvents,
                    ConnectedHandleTunnelEvents, settings
  <2>2. CASE IgnoreEvent
        BY <2>1, <2>2 DEF IgnoreEvent, machine
  <2>3. CASE EnterConnected
    <3>1. CASE NewState("Connected", [to |-> "Connected"]) /\ Values("Nothing", None, 0)
          BY <1>2, <2>1, <3>1 DEF NewState, Values, HandleTunnelEvent,
                ConnectingHandleTunnelEvents, ConnectedHandleTunnelEvents
    <3> QED BY <2>3, <3>1, OfflineEntered DEF EnterConnected
  <2> QED BY <1>2, <2>2, <2>3, OfflineEntered
          DEF HandleTunnelEvent, ConnectingHandleTunnelEvents, ConnectedHandleTunnelEvents,
              Disconnect
<1>3. CASE HandleCloseEvent
  <2>1. isOffline' = isOffline
        BY <1>3 DEF HandleCloseEvent, ConnectingHandleTunnelCloseEvent,
              ConnectedHandleTunnelCloseEvent, DisconnectingHandleExitEvent, settings
  <2>2. closeEvent # "IsOffline"
        BY DEF TypeOK, HandleTypeOK
  <2> QED BY <1>3, <2>1, <2>2, OfflineEntered
          DEF HandleCloseEvent, ConnectingHandleTunnelCloseEvent,
              ConnectedHandleTunnelCloseEvent, DisconnectingHandleExitEvent
<1>4. ASSUME NEW answer \in TunnelParameters \cup {NoParameters}, Generated(answer)
      PROVE  OfflineInv'
  <2>1. CASE StartTunnel(answer)
        BY <1>4, <2>1 DEF Generated, StartTunnel, NewState, Values, settings
  <2>2. CASE \E reason \in BlockReason \ {"IsOffline"} : \E before : EnterBlocked(reason, before)
        BY <2>2, OfflineEntered
  <2> QED BY <1>4, <2>1, <2>2 DEF Generated, BlockReason
<1>5. CASE MonitorThreads \/ Environment \/ UNCHANGED vars
      BY <1>5, EnvironmentEffect
<1> QED BY <1>1, <1>2, <1>3, <1>4, <1>5 DEF Next, HandleEvent, GeneratorAnswers

(***************************************************************************)
(* News of being offline or online is never missed, in whichever state it  *)
(* is handled: no tunnel is started or kept offline, and no block for      *)
(* being offline outlives the news that the device is online.              *)
(***************************************************************************)
THEOREM OfflineIsKnownHolds == Spec => []OfflineIsKnown
<1>1. Init => OfflineInv
      BY OtherReasons DEF Init, OfflineInv, OfflineIsKnown, ReasonIsNeeded
<1>2. (TypeOK /\ HandleOK) /\ OfflineInv /\ [Next]_vars => OfflineInv'
      BY OfflineNext
<1>3. OfflineInv => OfflineIsKnown
      BY DEF OfflineInv
<1> QED BY <1>1, <1>2, <1>3, TypeCorrect, PTL DEF Spec

-----------------------------------------------------------------------------
(* DNS follows the tunnel *)

\* The monitor can reset what it has set exactly while the machine is connected: a reset
\* on any other path would have nothing to go by.
DnsInv ==
    /\ DnsFollowsTunnel
    /\ Faults \cap {"dns", "tap"} = {} /\ state # "Stopped" =>
          dnsActive = (state = "Connected")

LEMMA DnsCalls ==
    ASSUME TypeOK, Faults \cap {"dns", "tap"} = {}
    PROVE  /\ Outcomes("dns") = {TRUE}
           /\ ResetDns => dnsActive' = FALSE /\ resolver' = IF dnsActive THEN "System" ELSE resolver
           /\ \A t : SetDns(t, TRUE) => dnsActive' = TRUE /\ resolver' = t
<1>1. Outcomes("dns") = {TRUE}
      BY DEF Outcomes
<1>2. ResetDns => dnsActive' = FALSE /\ resolver' = IF dnsActive THEN "System" ELSE resolver
      BY <1>1 DEF ResetDns, TypeOK, SystemTypeOK
<1>3. \A t : SetDns(t, TRUE) => dnsActive' = TRUE /\ resolver' = t
      BY DEF SetDns
<1> QED BY <1>1, <1>2, <1>3

LEMMA DnsNext ==
    ASSUME TypeOK, HandleOK, DnsInv, [Next]_vars,
           Faults \cap {"dns", "tap"} = {}, state' # "Stopped"
    PROVE  /\ resolver' = IF state' = "Connected" THEN tunnel' ELSE "System"
           /\ dnsActive' = (state' = "Connected")
<1> DEFINE Goal == /\ resolver' = IF state' = "Connected" THEN tunnel' ELSE "System"
                   /\ dnsActive' = (state' = "Connected")
<1>1. state # "Stopped"
      BY EnvironmentEffect
      DEF Next, HandleEvent, HandleCommand, HandleTunnelEvent, HandleCloseEvent,
          DisconnectedHandleEvent, BlockedHandleEvent, ConnectingHandleCommands,
          ConnectedHandleCommands, DisconnectingHandleCommands, ConnectingHandleTunnelEvents,
          ConnectedHandleTunnelEvents, ConnectingHandleTunnelCloseEvent,
          ConnectedHandleTunnelCloseEvent, DisconnectingHandleExitEvent,
          GeneratorAnswers, Generated
<1>2. /\ resolver = IF state = "Connected" THEN tunnel ELSE "System"
      /\ dnsActive = (state = "Connected")
      BY <1>1 DEF DnsInv, DnsFollowsTunnel
<1>3. ~ExitReason
      BY DEF ExitReason, BlockReason, None, TypeOK, HandleTypeOK, HandleOK
<1>4. ASSUME NEW reason, NEW before, EnterBlocked(reason, before)
      PROVE  state' # "Connected"
      BY <1>4, EnterBlockedEffect
<1>5. ASSUME NEW n, EnterConnecting(n)
      PROVE  state' # "Connected"
      BY <1>4, <1>5, EnterConnectingEffect
<1>6. ASSUME NEW a, NEW reason, NEW n, EnterDisconnecting(a, reason, n)
      PROVE  state' # "Connected"
      BY <1>6, EnterDisconnectingEffect
<1>7. CASE state' # "Connected" /\ state # "Connected" /\ UNCHANGED dns
      BY <1>2, <1>7 DEF dns
<1>8. CASE state' # "Connected" /\ ResetDns
      BY <1>2, <1>8, DnsCalls
<1>9. CASE state' = state /\ tunnel' = tunnel /\ UNCHANGED dns
      BY <1>2, <1>9 DEF dns
<1>10. CASE HandleCommand
  <2>1. ASSUME NEW c \in TunnelCommand \cup {Closed},
               \/ DisconnectedHandleEvent(c)
               \/ BlockedHandleEvent(c)
               \/ ConnectingHandleCommands(c)
               \/ DisconnectingHandleCommands(c)
        PROVE  Goal
    <3>1. state # "Connected" /\ UNCHANGED dns
          BY <2>1 DEF DisconnectedHandleEvent, BlockedHandleEvent,
                      ConnectingHandleCommands, DisconnectingHandleCommands
    <3>2. state' # "Connected"
          BY <1>4, <1>5, <1>6, <2>1, SameStateEffect, EnterDisconnectedEffect
          DEF DisconnectedHandleEvent, BlockedHandleEvent,
              ConnectingHandleCommands, DisconnectingHandleCommands
    <3> QED BY <1>7, <3>1, <3>2
  <2>2. ASSUME NEW c \in TunnelCommand \cup {Closed}, ConnectedHandleCommands(c)
        PROVE  Goal
    <3>1. CASE SameState /\ UNCHANGED dns
          BY <1>9, <3>1, SameStateEffect
    <3>2. CASE \E a, reason : Disconnect(a, reason)
          BY <1>6, <1>8, <3>2 DEF Disconnect
    <3> QED BY <2>2, <3>1, <3>2 DEF ConnectedHandleCommands
  <2> QED BY <1>10, <2>1, <2>2 DEF HandleCommand
<1>11. CASE HandleTunnelEvent
  <2>1. CASE IgnoreEvent
        BY <1>9, <2>1 DEF IgnoreEvent, machine
  <2>2. CASE \E a, reason : Disconnect(a, reason)
        BY <1>6, <1>8, <2>2 DEF Disconnect
  <2>3. CASE /\ state = "Connecting" /\ UNCHANGED dns
             /\ \E a, reason, n : EnterDisconnecting(a, reason, n)
        BY <1>6, <1>7, <2>3
  <2>4. CASE state = "Connecting" /\ EnterConnected
    <3>1. CASE /\ SetDns(tunnel, TRUE)
               /\ NewState("Connected", [to |-> "Connected"])
               /\ UNCHANGED <<tunnel, parameters, eventsOpen, closeEvent, monitors>>
          BY <3>1, DnsCalls DEF NewState
    <3>2. CASE UNCHANGED dns /\ EnterDisconnecting("Block", "SetFirewallPolicyError", 0)
          BY <2>3, <2>4, <3>2
    <3>3. Outcomes("dns") = {TRUE}
          BY DnsCalls
    <3> QED BY <2>4, <3>1, <3>2, <3>3 DEF EnterConnected
  <2> QED BY <1>11, <2>1, <2>2, <2>3, <2>4
          DEF HandleTunnelEvent, ConnectingHandleTunnelEvents, ConnectedHandleTunnelEvents
<1>12. CASE HandleCloseEvent
      BY <1>3, <1>4, <1>5, <1>7, <1>8, <1>12, EnterDisconnectedEffect
      DEF HandleCloseEvent, ConnectingHandleTunnelCloseEvent,
          ConnectedHandleTunnelCloseEvent, DisconnectingHandleExitEvent
<1>13. CASE GeneratorAnswers
      BY <1>4, <1>7, <1>13 DEF GeneratorAnswers, Generated, StartTunnel, NewState
<1>14. CASE MonitorThreads \/ Environment \/ UNCHANGED vars
  <2>1. UNCHANGED dns
        BY <1>14 DEF MonitorThreads, MonitorExit, SendCloseEvent, Environment, Send, Hangup,
             StopListening, OnTunnelEvent, DropEventSender, vars
  <2> QED BY <1>9, <1>14, <2>1, EnvironmentEffect
<1> QED BY <1>10, <1>11, <1>12, <1>13, <1>14 DEF Next, HandleEvent

(***************************************************************************)
(* The tunnel's DNS servers are used while connected and at no other time, *)
(* where the DNS calls work and no TAP adapter fails: every way out of the *)
(* connected state resets them.                                            *)
(***************************************************************************)
THEOREM DnsFollowsTunnelHolds == Spec => []DnsFollowsTunnel
<1>1. Init => DnsInv
      BY Zenon DEF Init, DnsInv, DnsFollowsTunnel
<1>2. (TypeOK /\ HandleOK) /\ DnsInv /\ [Next]_vars => DnsInv'
      BY DnsNext DEF DnsInv, DnsFollowsTunnel
<1>3. DnsInv => DnsFollowsTunnel
      BY DEF DnsInv
<1> QED BY <1>1, <1>2, <1>3, TypeCorrect, PTL DEF Spec

(***************************************************************************)
(* The state machine implements Protection.                                *)
(***************************************************************************)

\* Senders of commands never come back.
LEMMA ChannelStaysClosed ==
    ASSUME [Next]_vars
    PROVE  commandsOpen' => commandsOpen
<1>1. CASE HandleCommand
      BY <1>1 DEF HandleCommand, DisconnectedHandleEvent, BlockedHandleEvent,
          ConnectingHandleCommands, ConnectedHandleCommands, DisconnectingHandleCommands,
          Receive
<1>2. CASE HandleTunnelEvent
      BY <1>2 DEF HandleTunnelEvent, ConnectingHandleTunnelEvents,
          ConnectedHandleTunnelEvents, channel
<1>3. CASE HandleCloseEvent
      BY <1>3 DEF HandleCloseEvent, ConnectingHandleTunnelCloseEvent,
          ConnectedHandleTunnelCloseEvent, DisconnectingHandleExitEvent, channel
<1>4. CASE GeneratorAnswers
      BY <1>4 DEF GeneratorAnswers, Generated, channel
<1>5. CASE MonitorThreads \/ Environment \/ UNCHANGED vars
      BY <1>5, EnvironmentEffect
<1> QED BY <1>1, <1>2, <1>3, <1>4, <1>5 DEF Next, HandleEvent

\* The ends of the thread are final, and only an order leads out of the
\* disconnected state.
LEMMA LeavingOff ==
    ASSUME TypeOK, [Next]_vars, state \in {"Disconnected", "Finished", "Stopped"}
    PROVE  \/ state' = state
           \/ state = "Disconnected" /\ state' \in {"Finished", "Stopped"}
           \/ state = "Disconnected" /\ requested' # "Disconnect"
<1>1. ASSUME NEW c \in TunnelCommand \cup {Closed}, DisconnectedHandleEvent(c)
      PROVE  state' = state \/ state' = "Finished" \/ requested' # "Disconnect"
      BY <1>1, SameStateEffect, ReceiveRequest DEF DisconnectedHandleEvent
<1>2. CASE HandleCommand
      BY <1>1, <1>2 DEF HandleCommand, DisconnectedHandleEvent, BlockedHandleEvent,
          ConnectingHandleCommands, ConnectedHandleCommands, DisconnectingHandleCommands
<1>3. CASE HandleTunnelEvent \/ HandleCloseEvent \/ GeneratorAnswers
      BY <1>3 DEF HandleTunnelEvent, ConnectingHandleTunnelEvents,
          ConnectedHandleTunnelEvents, HandleCloseEvent, ConnectingHandleTunnelCloseEvent,
          ConnectedHandleTunnelCloseEvent, DisconnectingHandleExitEvent,
          GeneratorAnswers, Generated
<1>4. CASE MonitorThreads \/ Environment \/ UNCHANGED vars
      BY <1>4, EnvironmentEffect
<1> QED BY <1>2, <1>3, <1>4 DEF Next, HandleEvent

\* With the invariants of both ends, every step is one of Protection's actions
\* or leaves the phase alone.
LEMMA RefinementStep ==
    ASSUME TypeOK, HandleOK, OneTunnel, NeverGivesUp', StateTypeOK', InputTypeOK', [Next]_vars
    PROVE  [Abstract!Next]_(Abstract!protection)
<1>1. Wish' \in {"Open", "Protect"} /\ (Wish' = "Open" <=> requested' = "Disconnect")
      BY DEF Wish
<1>2. (~commandsOpen)' \in {~commandsOpen, TRUE}
  <2>1. CASE commandsOpen'
        BY <2>1, ChannelStaysClosed
  <2>2. CASE ~commandsOpen'
        BY <2>2
  <2> QED BY <2>1, <2>2
<1>3. Abstract!Orders
      BY <1>1, <1>2 DEF Abstract!Orders
<1>4. CASE Phase' = Phase
      BY <1>3, <1>4 DEF Abstract!Next
<1>5. CASE Phase' = "Ended" /\ Phase # "Ended"
      BY <1>3, <1>5 DEF Abstract!Next, Abstract!End
<1>6. CASE Phase \in {"Off", "Ended"} /\ Phase' # Phase /\ Phase' # "Ended"
  <2>1. state = "Disconnected" /\ requested' # "Disconnect"
        BY <1>6, LeavingOff DEF Phase
  <2>2. Phase = "Off" /\ Phase' \in {"Exposed", "Sealed"}
        BY <1>6, <2>1 DEF Phase
  <2> QED BY <1>1, <1>3, <2>1, <2>2 DEF Abstract!Next, Abstract!Engage
<1>7. CASE Phase \in {"Exposed", "Sealed"} /\ Phase' = "Off"
  <2>1. state' \in {"Disconnected", "Finished"}
        BY <1>7 DEF Phase
  <2>2. requested' = "Disconnect" \/ ~commandsOpen'
        BY <2>1 DEF NeverGivesUp
  <2> QED BY <1>1, <1>3, <1>7, <2>2 DEF Abstract!Next, Abstract!Release
<1>8. CASE Phase = "Exposed" /\ Phase' = "Sealed"
      BY <1>3, <1>8 DEF Abstract!Next, Abstract!Seal
<1>9. CASE Phase = "Sealed" /\ Phase' = "Exposed"
  <2>1. firewall.kind # "None" /\ firewall'.kind = "None"
        BY <1>9 DEF Phase
  <2>2. Next
        BY <2>1 DEF vars, fw
  <2>3. state' \in {"Disconnected", "Stopped"}
        BY <2>1, <2>2, OpensNext
  <2> QED BY <1>9, <2>3 DEF Phase
<1>10. Phase \in {"Off", "Exposed", "Sealed", "Ended"}
       /\ Phase' \in {"Off", "Exposed", "Sealed", "Ended"}
       BY DEF Phase
<1> QED BY <1>4, <1>5, <1>6, <1>7, <1>8, <1>9, <1>10

(***************************************************************************)
(* For every instance and every set of faults, each step of the tunnel     *)
(* state machine is a step of Protection: the traffic, once sealed, is     *)
(* opened by an order or by the daemon's end and by nothing else.          *)
(***************************************************************************)
THEOREM ImplementsProtectionHolds == Spec => ImplementsProtection
<1>1. Init => Abstract!Init
      BY DEF Init, Abstract!Init, Phase, Wish
<1>2. /\ TypeOK /\ HandleOK /\ OneTunnel /\ [Next]_vars
      /\ TypeOK' /\ FollowsRequest'
      => [Abstract!Next]_(Abstract!protection)
      BY RefinementStep DEF TypeOK, FollowsRequest
<1>3. Spec => []TypeOK /\ []HandleOK
      BY TypeCorrect, PTL
<1> QED BY <1>1, <1>2, <1>3, OneTunnelHolds, FollowsRequestHolds, PTL
        DEF Spec, ImplementsProtection, Abstract!Spec

(***************************************************************************)
(* The daemon's loop and the machine.                                      *)
(***************************************************************************)

-----------------------------------------------------------------------------
(* Commands on their way *)

\* What a command sets: a flag its value, an order what is requested.
Payload(c) == IF c.cmd \in Flags THEN c.value ELSE c.cmd

\* The i-th is the last command of these kinds in the channel.
LatestIn(s, kinds, i) ==
    /\ i \in 1 .. Len(s)
    /\ s[i].cmd \in kinds
    /\ \A j \in i + 1 .. Len(s) : s[j].cmd \notin kinds

NoneIn(s, kinds) == \A i \in 1 .. Len(s) : s[i].cmd \notin kinds

\* Once every command in the channel is handled, what they set is what is wanted.
Settles(s, kinds, stored, want) ==
    /\ \A i \in 1 .. Len(s) : LatestIn(s, kinds, i) => Payload(s[i]) = want
    /\ NoneIn(s, kinds) => stored = want

\* Handling the first command sets what it carries.
LEMMA SettlesTail ==
    ASSUME NEW T, NEW s \in Seq(T), s # <<>>, NEW kinds, NEW stored, NEW want,
           Settles(s, kinds, stored, want),
           NEW new, new = IF Head(s).cmd \in kinds THEN Payload(Head(s)) ELSE stored
    PROVE  Settles(Tail(s), kinds, new, want)
<1>1. /\ Len(s) \in Nat \ {0} /\ Len(Tail(s)) = Len(s) - 1 /\ Head(s) = s[1]
      /\ \A i \in 1 .. Len(Tail(s)) : Tail(s)[i] = s[i + 1]
      OBVIOUS
<1>2. ASSUME NEW i \in 1 .. Len(Tail(s)), LatestIn(Tail(s), kinds, i)
      PROVE  Payload(Tail(s)[i]) = want
      <2>1. i + 1 \in 1 .. Len(s) /\ s[i + 1].cmd \in kinds
            BY <1>1, <1>2 DEF LatestIn
      <2>2. ASSUME NEW j \in (i + 1) + 1 .. Len(s) PROVE s[j].cmd \notin kinds
            <3>1. j - 1 \in i + 1 .. Len(Tail(s)) /\ j - 1 \in 1 .. Len(Tail(s)) /\ (j - 1) + 1 = j
                  BY <1>1
            <3> QED BY <1>1, <1>2, <3>1 DEF LatestIn
      <2>3. LatestIn(s, kinds, i + 1)
            BY <2>1, <2>2 DEF LatestIn
      <2> QED BY <1>1, <2>1, <2>3 DEF Settles
<1>3. ASSUME NoneIn(Tail(s), kinds)
      PROVE  new = want
      <2>1. ASSUME NEW j \in 2 .. Len(s) PROVE s[j].cmd \notin kinds
            <3>1. j - 1 \in 1 .. Len(Tail(s)) /\ (j - 1) + 1 = j
                  BY <1>1
            <3> QED BY <1>1, <1>3, <3>1 DEF NoneIn
      <2>2. CASE Head(s).cmd \in kinds
            <3>1. LatestIn(s, kinds, 1)
                  BY <1>1, <2>1, <2>2 DEF LatestIn
            <3> QED BY <1>1, <2>2, <3>1 DEF Settles
      <2>3. CASE Head(s).cmd \notin kinds
            <3>1. NoneIn(s, kinds)
                  BY <1>1, <2>1, <2>3 DEF NoneIn
            <3> QED BY <2>3, <3>1 DEF Settles
      <2> QED BY <2>2, <2>3
<1> QED BY <1>2, <1>3 DEF Settles

\* Sending a command of another kind changes nothing, and one of these kinds decides.
LEMMA SettlesAppend ==
    ASSUME NEW T, NEW s \in Seq(T), NEW c \in T, NEW kinds, NEW stored, NEW want,
           \/ c.cmd \notin kinds /\ Settles(s, kinds, stored, want)
           \/ c.cmd \in kinds /\ Payload(c) = want
    PROVE  Settles(Append(s, c), kinds, stored, want)
<1> DEFINE a == Append(s, c)
<1>1. /\ Len(s) \in Nat /\ Len(a) = Len(s) + 1 /\ a[Len(s) + 1] = c
      /\ \A i \in 1 .. Len(s) : a[i] = s[i]
      OBVIOUS
<1> HIDE DEF a
<1>2. CASE c.cmd \in kinds /\ Payload(c) = want
      <2>1. ~NoneIn(a, kinds)
            BY <1>1, <1>2 DEF NoneIn
      <2>2. ASSUME NEW i \in 1 .. Len(a), LatestIn(a, kinds, i) PROVE i = Len(s) + 1
            BY <1>1, <1>2, <2>2 DEF LatestIn
      <2> QED BY <1>1, <1>2, <2>1, <2>2 DEF Settles, a
<1>3. CASE c.cmd \notin kinds /\ Settles(s, kinds, stored, want)
      <2>1. ASSUME NEW i \in 1 .. Len(a), LatestIn(a, kinds, i) PROVE i \in 1 .. Len(s) /\ LatestIn(s, kinds, i)
            BY <1>1, <1>3, <2>1 DEF LatestIn
      <2>2. NoneIn(a, kinds) => NoneIn(s, kinds)
            BY <1>1 DEF NoneIn
      <2> QED BY <1>1, <1>3, <2>1, <2>2 DEF Settles, a
<1> QED BY <1>2, <1>3


-----------------------------------------------------------------------------
(* The steps of the two threads *)

\* A step that leaves the machine's thread alone: it may send commands, drop an end of a
\* channel or add to the daemon's queue.
LoopStep ==
    /\ UNCHANGED <<machine, settings, fw, dns, handle, monitors, requested>>
    /\ output' \in {output, NoOutput}
    /\ \/ UNCHANGED commands
       \/ \E c \in TunnelCommand : c.cmd # "Block" /\ commands' = Append(commands, c)

\* A step of the machine's thread, or of the tunnel it runs.
MachineStep ==
    /\ Next
    /\ UNCHANGED <<commandsOpen, listening, target, tunnelState, execution, userSettings, sender, timer, late>>
    /\ Deliver
    /\ \/ UNCHANGED <<settings, commands, requested>>
       \/ \E c \in TunnelCommand \cup {Closed} : Receive(c)

\* What the machine's thread and its tunnel do is a step of the machine alone.
LEMMA MachineSteps ==
    ASSUME TypeOK, DaemonTypeOK, TunnelStep \/ ReceiveParameters
    PROVE  MachineStep
<1>1. CASE TunnelStep
      <2>1. Next
            BY <1>1 DEF TunnelStep, Next, Environment
      <2>2. UNCHANGED <<target, tunnelState, execution, userSettings, sender, timer, late>> /\ Deliver
            BY <1>1 DEF TunnelStep, reconnect
      <2>3. CASE HandleCommand
            <3>1. PICK c \in TunnelCommand \cup {Closed} : Receive(c)
                  BY <2>3 DEF HandleCommand, DisconnectedHandleEvent, BlockedHandleEvent,
                     ConnectingHandleCommands, ConnectedHandleCommands, DisconnectingHandleCommands
            <3>2. commandsOpen' = commandsOpen /\ listening' = listening
                  BY <3>1 DEF Receive
            <3> QED BY <2>1, <2>2, <3>1, <3>2 DEF MachineStep
      <2>4. CASE HandleTunnelEvent \/ HandleCloseEvent
            <3>1. UNCHANGED <<settings, channel, listening, requested>>
                  BY <2>4 DEF HandleTunnelEvent, HandleCloseEvent, ConnectingHandleTunnelEvents,
                     ConnectedHandleTunnelEvents, ConnectingHandleTunnelCloseEvent,
                     ConnectedHandleTunnelCloseEvent, DisconnectingHandleExitEvent
            <3> QED BY <2>1, <2>2, <3>1 DEF MachineStep, channel
      <2>5. CASE MonitorThreads \/ OnTunnelEvent \/ DropEventSender
            <3>1. UNCHANGED <<settings, channel, listening, requested>>
                  BY <2>5 DEF MonitorThreads, MonitorExit, SendCloseEvent, OnTunnelEvent, DropEventSender
            <3> QED BY <2>1, <2>2, <3>1 DEF MachineStep, channel
      <2> QED BY <1>1, <2>3, <2>4, <2>5 DEF TunnelStep, HandleEvent
<1>2. CASE ReceiveParameters
      <2>1. PICK answer \in TunnelParameters \cup {NoParameters} : Generated(answer)
            <3>1. CASE reply # <<>> /\ Generated(Head(reply))
                  <4>1. Head(reply) \in TunnelParameters \cup {NoParameters}
                        BY <3>1 DEF DaemonTypeOK
                  <4> QED BY <3>1, <4>1
            <3>2. CASE Generated(NoParameters)
                  BY <3>2
            <3> QED BY <1>2, <3>1, <3>2 DEF ReceiveParameters
      <2>2. Next
            BY <2>1 DEF Next, GeneratorAnswers
      <2>3. UNCHANGED <<settings, channel, listening, requested>>
            BY <2>1 DEF Generated
      <2>4. UNCHANGED <<target, tunnelState, execution, userSettings, sender, timer, late>> /\ Deliver
            BY <1>2 DEF ReceiveParameters, reconnect
      <2> QED BY <2>2, <2>3, <2>4 DEF MachineStep, channel
<1> QED BY <1>1, <1>2

\* The commands the daemon sends.
LEMMA DaemonCommands ==
    /\ [cmd |-> "Connect"] \in TunnelCommand /\ [cmd |-> "Disconnect"] \in TunnelCommand
    /\ \A v \in BOOLEAN, f \in Flags : [cmd |-> f, value |-> v] \in TunnelCommand
    /\ {"AllowLan", "BlockWhenDisconnected", "IsOffline"} \subseteq Flags
BY DEF TunnelCommand, Flags

\* The event the loop handles comes off its queue.
LEMMA LoopEvent ==
    ASSUME DaemonTypeOK, HandleDaemonEvent
    PROVE  queue # <<>> /\ Head(queue) \in InternalDaemonEvent /\ queue' \in Seq(InternalDaemonEvent)
BY DEF DaemonTypeOK, HandleDaemonEvent

\* What a management command carries.
LEMMA RequestType ==
    \A c \in ManagementCommand :
       /\ c.name = "SetTargetState" => c.value \in TargetState
       /\ c.name = "SetAccount" => c.value \in Accounts \cup {NoAccount, EmptyAccount}
       /\ c.name \in {"SetAllowLan", "SetBlockWhenDisconnected"} => c.value \in BOOLEAN
BY DEF ManagementCommand

\* What an event carries.
LEMMA EventType ==
    \A e \in InternalDaemonEvent :
       /\ e.event = "TunnelStateTransition" => e.transition \in Transition
       /\ e.event = "ManagementInterfaceEvent" => e.command \in ManagementCommand
BY DEF InternalDaemonEvent

\* The loop sends at most one command, to set the target or a flag.
LEMMA HandlerSends ==
    ASSUME DaemonTypeOK,
           \/ \E c \in ManagementCommand : HandleManagementInterfaceEvent(c)
           \/ \E new \in TargetState : SetTargetState(new)
           \/ TriggerShutdown
    PROVE  \/ UNCHANGED commands
           \/ \E c \in TunnelCommand : c.cmd # "Block" /\ commands' = Append(commands, c)
<1> DEFINE Sends == \/ UNCHANGED commands
                    \/ \E c \in TunnelCommand : c.cmd # "Block" /\ commands' = Append(commands, c)
<1>1. ConnectTunnel \/ DisconnectTunnel => Sends
      BY DaemonCommands DEF ConnectTunnel, DisconnectTunnel, SendTunnelCommand
<1>2. \A new : SetTargetState(new) => Sends
      BY <1>1 DEF SetTargetState
<1>3. ReconnectTunnel => Sends
      BY <1>1 DEF ReconnectTunnel
<1>4. TriggerShutdown => Sends
      BY <1>1 DEF TriggerShutdown
<1>5. \A v \in BOOLEAN, f \in {"AllowLan", "BlockWhenDisconnected"} :
         SendTunnelCommand([cmd |-> f, value |-> v]) => Sends
      BY DaemonCommands DEF SendTunnelCommand
<1> HIDE DEF Sends
<1>6. UNCHANGED commands => Sends
      BY DEF Sends
<1>7. ASSUME NEW c \in ManagementCommand, HandleManagementInterfaceEvent(c) PROVE Sends
      <2>1. CASE c.name = "SetAccount" /\ OnSetAccount(c.value)
            <3>1. UNCHANGED <<target, commands>> \/ SetTargetState("Unsecured") \/ ReconnectTunnel
                  BY <2>1 DEF OnSetAccount
            <3> QED BY <3>1, <1>2, <1>3, <1>6
      <2>2. CASE c.name = "SetAllowLan" /\ OnSetAllowLan(c.value)
            BY <1>5, <1>6, <2>2, RequestType DEF OnSetAllowLan
      <2>3. CASE c.name = "SetBlockWhenDisconnected" /\ OnSetBlockWhenDisconnected(c.value)
            BY <1>5, <1>6, <2>3, RequestType DEF OnSetBlockWhenDisconnected
      <2>4. CASE OnChangeTunnelOptions
            BY <1>3, <1>6, <2>4 DEF OnChangeTunnelOptions
      <2> QED BY <1>2, <1>4, <1>6, <1>7, <2>1, <2>2, <2>3, <2>4
              DEF HandleManagementInterfaceEvent, OnFactoryReset
<1> QED BY <1>2, <1>4, <1>7 DEF Sends

\* Everything else leaves the machine as it is.
LEMMA LoopSteps ==
    ASSUME DaemonTypeOK, DaemonNext \/ UNCHANGED allVars, ~TunnelStep, ~ReceiveParameters
    PROVE  LoopStep
<1>1. CASE Run
      <2>1. \/ UNCHANGED commands
            \/ \E c \in TunnelCommand : c.cmd # "Block" /\ commands' = Append(commands, c)
            BY <1>1, HandlerSends DEF Run, TargetState
      <2> QED BY <1>1, <2>1 DEF Run, LoopStep
<1>2. CASE HandleDaemonEvent
      <2>1. \/ UNCHANGED commands
            \/ \E c \in TunnelCommand : c.cmd # "Block" /\ commands' = Append(commands, c)
            <3> DEFINE event == Head(queue)
            <3>1. event \in InternalDaemonEvent
                  BY <1>2, LoopEvent
            <3>2. event.event = "ManagementInterfaceEvent" => event.command \in ManagementCommand
                  BY <3>1, EventType
            <3>3. \/ UNCHANGED commands
                  \/ event.event = "ManagementInterfaceEvent" /\ HandleManagementInterfaceEvent(event.command)
                  \/ TriggerShutdown
                  BY <1>2 DEF HandleDaemonEvent, HandleTunnelStateTransition, HandleGenerateTunnelParameters
            <3> HIDE DEF event
            <3> QED BY <3>2, <3>3, HandlerSends
      <2> QED BY <1>2, <2>1 DEF HandleDaemonEvent, LoopStep
<1>3. CASE DropSender \/ DropReceiver \/ ReconnectTimesOut
      BY <1>3 DEF DropSender, DropReceiver, ReconnectTimesOut, LoopStep, channel
<1>4. CASE ClientRequests \/ SendReconnect
      BY <1>4 DEF ClientRequests, SendReconnect, Enqueue, LoopStep, channel
<1>5. CASE OfflineNews
      <2>1. PICK v \in BOOLEAN : Send([cmd |-> "IsOffline", value |-> v])
            BY <1>5 DEF OfflineNews
      <2> QED BY <2>1, DaemonCommands DEF Send, LoopStep
<1>6. CASE UNCHANGED allVars
      BY <1>6 DEF allVars, vars, LoopStep, channel
<1> QED BY <1>1, <1>2, <1>3, <1>4, <1>5, <1>6 DEF DaemonNext

-----------------------------------------------------------------------------
(* Types *)

\* What each step leaves of the daemon's ends of the channels.
LEMMA ChannelEnds ==
    ASSUME DaemonNext \/ UNCHANGED allVars, DaemonTypeOK, TypeOK
    PROVE  /\ commandsOpen' \in BOOLEAN /\ listening' \in BOOLEAN /\ sender' \in BOOLEAN
           /\ commandsOpen' # commandsOpen => sender /\ sender' = FALSE
           /\ listening' # listening => sender' = FALSE /\ listening' = FALSE
           /\ sender' # sender => execution \in {"Finished", "Failed"} /\ UNCHANGED execution /\ sender' = FALSE
<1>1. CASE TunnelStep \/ ReceiveParameters
      BY <1>1, MachineSteps DEF MachineStep, TypeOK, InputTypeOK, DaemonTypeOK
<1>2. CASE DropSender
      BY <1>2, DaemonAssumption DEF DropSender, TypeOK, InputTypeOK, DaemonTypeOK
<1>3. CASE DropReceiver
      BY <1>3 DEF DropReceiver, channel, TypeOK, InputTypeOK, DaemonTypeOK
<1>4. CASE Run \/ HandleDaemonEvent
      BY <1>4 DEF Run, HandleDaemonEvent, TypeOK, InputTypeOK, DaemonTypeOK
<1>5. CASE ClientRequests \/ SendReconnect \/ ReconnectTimesOut
      BY <1>5 DEF ClientRequests, SendReconnect, ReconnectTimesOut, Enqueue, channel, TypeOK, InputTypeOK,
         DaemonTypeOK
<1>6. CASE OfflineNews
      BY <1>6 DEF OfflineNews, Send, daemonVars, TypeOK, InputTypeOK, DaemonTypeOK
<1>7. CASE UNCHANGED allVars
      BY <1>7 DEF allVars, vars, daemonVars, channel, TypeOK, InputTypeOK, DaemonTypeOK
<1> QED BY <1>1, <1>2, <1>3, <1>4, <1>5, <1>6, <1>7 DEF DaemonNext

\* The daemon's steps keep the machine's types.
LEMMA MachineTypeNext ==
    ASSUME TypeOK, HandleOK, DaemonTypeOK, DaemonNext \/ UNCHANGED allVars
    PROVE  TypeOK' /\ HandleOK'
<1>1. CASE TunnelStep \/ ReceiveParameters
      BY <1>1, MachineSteps, NextType, NextHandle DEF MachineStep
<1>2. CASE ~TunnelStep /\ ~ReceiveParameters
      <2>1. LoopStep
            BY <1>2, LoopSteps
      <2>2. HandleOK'
            BY <2>1 DEF LoopStep, HandleOK, machine, handle, monitors
      <2>3. StateTypeOK' /\ HandleTypeOK' /\ SystemTypeOK'
            BY <2>1 DEF LoopStep, TypeOK, StateTypeOK, HandleTypeOK, SystemTypeOK, machine, fw, dns, handle,
               monitors
      <2>4. commands' \in Seq(TunnelCommand)
            BY <2>1 DEF LoopStep, TypeOK, InputTypeOK
      <2>5. InputTypeOK'
            BY <2>1, <2>4, ChannelEnds DEF LoopStep, TypeOK, InputTypeOK, settings
      <2> QED BY <2>2, <2>3, <2>5 DEF TypeOK
<1> QED BY <1>1, <1>2

\* What a handler of the loop assigns.
LEMMA HandlerType ==
    ASSUME DaemonTypeOK, NEW c \in ManagementCommand, HandleManagementInterfaceEvent(c)
    PROVE  /\ target' \in TargetState /\ tunnelState' = tunnelState /\ timer' = timer /\ reply' = reply
           /\ execution' \in {"Starting", "Running", "Exiting", "Finished", "Failed"}
           /\ account' \in Accounts \cup {NoAccount}
           /\ lanSetting' \in BOOLEAN /\ blockSetting' \in BOOLEAN
<1> DEFINE Keeps == /\ execution' = execution /\ account' = account /\ lanSetting' = lanSetting
                    /\ blockSetting' = blockSetting
<1>1. tunnelState' = tunnelState /\ timer' = timer /\ reply' = reply
      BY DEF HandleManagementInterfaceEvent
<1>2. \A new \in TargetState : SetTargetState(new) => target' \in TargetState
      BY DEF SetTargetState, DaemonTypeOK
<1>3. ReconnectTunnel => target' \in TargetState
      BY DEF ReconnectTunnel, DaemonTypeOK
<1>4. TriggerShutdown => execution' \in {"Starting", "Running", "Exiting", "Finished", "Failed"}
      BY DEF TriggerShutdown, DaemonTypeOK
<1>5. CASE execution # "Running" /\ UNCHANGED <<execution, target, userSettings, commands>>
      BY <1>1, <1>5 DEF DaemonTypeOK, userSettings
<1>6. CASE c.name = "SetTargetState" /\ SetTargetState(c.value) /\ UNCHANGED <<execution, userSettings>>
      BY <1>1, <1>2, <1>6, RequestType DEF DaemonTypeOK, userSettings
<1>7. CASE c.name = "SetAccount" /\ OnSetAccount(c.value)
      <2>1. UNCHANGED <<target, commands>> \/ SetTargetState("Unsecured") \/ ReconnectTunnel
            BY <1>7 DEF OnSetAccount
      <2>2. target' \in TargetState
            BY <1>2, <1>3, <2>1 DEF TargetState, DaemonTypeOK
      <2>3. account' \in Accounts \cup {NoAccount}
            BY <1>7, RequestType DEF OnSetAccount
      <2> QED BY <1>1, <1>7, <2>2, <2>3 DEF OnSetAccount, DaemonTypeOK
<1>8. CASE c.name = "SetAllowLan" /\ OnSetAllowLan(c.value)
      BY <1>1, <1>8, RequestType DEF OnSetAllowLan, DaemonTypeOK
<1>9. CASE c.name = "SetBlockWhenDisconnected" /\ OnSetBlockWhenDisconnected(c.value)
      BY <1>1, <1>9, RequestType DEF OnSetBlockWhenDisconnected, DaemonTypeOK
<1>10. CASE OnChangeTunnelOptions
      BY <1>1, <1>3, <1>10 DEF OnChangeTunnelOptions, DaemonTypeOK, userSettings
<1>11. CASE OnFactoryReset
      BY <1>1, <1>4, <1>11 DEF OnFactoryReset, DaemonTypeOK
<1>12. CASE TriggerShutdown /\ UNCHANGED <<target, userSettings>>
      BY <1>1, <1>4, <1>12 DEF DaemonTypeOK, userSettings
<1> QED BY <1>5, <1>6, <1>7, <1>8, <1>9, <1>10, <1>11, <1>12 DEF HandleManagementInterfaceEvent

\* What the machine tells the daemon is an event.
LEMMA DeliverType ==
    ASSUME DaemonTypeOK, TypeOK', Deliver
    PROVE  queue' \in Seq(InternalDaemonEvent)
<1>1. output' \in Transition \cup GenerateRequest \cup {NoOutput}
      BY DEF TypeOK, StateTypeOK
<1>2. CASE output' = NoOutput \/ ~listening
      BY <1>2 DEF Deliver, DaemonTypeOK
<1>3. CASE ~(output' = NoOutput \/ ~listening) /\ output'.to = "Generate"
      <2>1. [event |-> "GenerateTunnelParameters"] \in InternalDaemonEvent
            BY DEF InternalDaemonEvent
      <2>2. queue' = Append(queue, [event |-> "GenerateTunnelParameters"])
            BY <1>3 DEF Deliver
      <2> QED BY <2>1, <2>2 DEF DaemonTypeOK
<1>4. CASE ~(output' = NoOutput \/ ~listening) /\ output'.to # "Generate"
      <2>1. output' \in Transition
            BY <1>1, <1>4 DEF GenerateRequest
      <2>2. [event |-> "TunnelStateTransition", transition |-> output'] \in InternalDaemonEvent
            BY <2>1 DEF InternalDaemonEvent
      <2>3. queue' = Append(queue, [event |-> "TunnelStateTransition", transition |-> output'])
            BY <1>4 DEF Deliver
      <2> QED BY <2>2, <2>3 DEF DaemonTypeOK
<1> QED BY <1>2, <1>3, <1>4

\* What is put in the queue stays in it.
LEMMA EnqueueType ==
    ASSUME DaemonTypeOK, NEW e \in InternalDaemonEvent, Enqueue(e)
    PROVE  queue' \in Seq(InternalDaemonEvent)
BY DEF DaemonTypeOK, Enqueue

\* Every step keeps the daemon's types.
LEMMA DaemonTypeNext ==
    ASSUME TypeOK, HandleOK, DaemonTypeOK, DaemonNext \/ UNCHANGED allVars
    PROVE  DaemonTypeOK'
<1>1. CASE TunnelStep \/ ReceiveParameters
      <2>1. queue' \in Seq(InternalDaemonEvent)
            BY <1>1, MachineTypeNext, MachineSteps, DeliverType DEF MachineStep
      <2>2. reply' \in Seq(TunnelParameters \cup {NoParameters})
            <3>1. reply' = reply \/ reply' = <<>>
                  BY <1>1 DEF TunnelStep, ReceiveParameters
            <3>2. <<>> \in Seq(TunnelParameters \cup {NoParameters})
                  OBVIOUS
            <3>3. reply \in Seq(TunnelParameters \cup {NoParameters})
                  BY DEF DaemonTypeOK
            <3> QED BY <3>1, <3>2, <3>3
      <2>3. UNCHANGED <<target, tunnelState, execution, userSettings, sender, timer, late>>
            BY <1>1, MachineSteps DEF MachineStep
      <2> QED BY <2>1, <2>2, <2>3 DEF DaemonTypeOK, userSettings
<1>2. CASE DropSender \/ DropReceiver \/ ReconnectTimesOut
      <2>1. queue' \in Seq(InternalDaemonEvent) /\ sender' \in BOOLEAN
            <3>1. queue' = queue \/ queue' = <<>>
                  BY <1>2 DEF DropSender, DropReceiver, ReconnectTimesOut
            <3>2. sender' \in BOOLEAN
                  BY <1>2 DEF DropSender, DropReceiver, ReconnectTimesOut, DaemonTypeOK
            <3>3. <<>> \in Seq(InternalDaemonEvent) /\ queue \in Seq(InternalDaemonEvent)
                  BY DEF DaemonTypeOK
            <3> QED BY <3>1, <3>2, <3>3
      <2>2. timer' \in {"None", "Armed"} /\ late' \in BOOLEAN
            BY <1>2 DEF DropSender, DropReceiver, ReconnectTimesOut, DaemonTypeOK, reconnect
      <2>3. UNCHANGED <<target, tunnelState, execution, userSettings, reply>>
            BY <1>2 DEF DropSender, DropReceiver, ReconnectTimesOut
      <2> QED BY <2>1, <2>2, <2>3 DEF DaemonTypeOK, userSettings
<1>3. CASE Run
      <2>1. target' \in TargetState
            BY <1>3 DEF Run, SetTargetState, DaemonTypeOK, TargetState
      <2> QED BY <1>3, <2>1 DEF Run, DaemonTypeOK, userSettings, reconnect
<1>4. CASE HandleDaemonEvent
      <2> DEFINE event == Head(queue)
      <2>1. queue' \in Seq(InternalDaemonEvent) /\ event \in InternalDaemonEvent
            BY <1>4, LoopEvent
      <2>2. UNCHANGED <<late, sender>>
            BY <1>4 DEF HandleDaemonEvent
      <2>3. /\ event.event = "TunnelStateTransition" => event.transition \in Transition
            /\ event.event = "ManagementInterfaceEvent" => event.command \in ManagementCommand
            BY <2>1, EventType
      <2>4. CASE event.event = "TunnelStateTransition" /\ HandleTunnelStateTransition(event.transition)
            <3> HIDE DEF event
            <3> QED BY <2>1, <2>2, <2>3, <2>4 DEF HandleTunnelStateTransition, DaemonTypeOK, userSettings
      <2>5. CASE HandleGenerateTunnelParameters
            <3>1. reply' \in Seq(TunnelParameters \cup {NoParameters})
                  BY <2>5 DEF HandleGenerateTunnelParameters
            <3> QED BY <2>1, <2>2, <2>5, <3>1 DEF HandleGenerateTunnelParameters, DaemonTypeOK, userSettings
      <2>6. CASE event.event = "ManagementInterfaceEvent" /\ HandleManagementInterfaceEvent(event.command)
            <3> HIDE DEF event
            <3> QED BY <2>1, <2>2, <2>3, <2>6, HandlerType DEF DaemonTypeOK
      <2>7. CASE execution' = "Failed" /\ UNCHANGED <<target, tunnelState, timer, userSettings, commands, reply>>
            BY <2>1, <2>2, <2>7 DEF DaemonTypeOK, userSettings
      <2>8. CASE TriggerShutdown /\ UNCHANGED <<target, tunnelState, timer, userSettings, reply>>
            BY <2>1, <2>2, <2>8 DEF DaemonTypeOK, userSettings, TriggerShutdown
      <2> QED BY <1>4, <2>4, <2>5, <2>6, <2>7, <2>8 DEF HandleDaemonEvent
<1>5. CASE ClientRequests
      <2>1. PICK e \in InternalDaemonEvent : Enqueue(e)
            BY <1>5, DaemonAssumption DEF ClientRequests, Request, InternalDaemonEvent
      <2> QED BY <1>5, <2>1, EnqueueType DEF ClientRequests, DaemonTypeOK, userSettings, reconnect
<1>6. CASE SendReconnect
      <2>1. Request([name |-> "SetTargetState", value |-> "Secured"]) \in InternalDaemonEvent
            BY DEF Request, InternalDaemonEvent, ManagementCommand, TargetState
      <2> QED BY <1>6, <2>1, EnqueueType DEF SendReconnect, DaemonTypeOK, userSettings
<1>7. CASE OfflineNews \/ UNCHANGED allVars
      BY <1>7 DEF OfflineNews, allVars, daemonVars, DaemonTypeOK, userSettings, reconnect
<1> QED BY <1>1, <1>2, <1>3, <1>4, <1>5, <1>6, <1>7 DEF DaemonNext


-----------------------------------------------------------------------------
(* The loop's orders and settings *)

\* A loop that has ended does not start again.
LEMMA LoopEnds ==
    ASSUME DaemonNext \/ UNCHANGED allVars, execution \in {"Finished", "Failed"}
    PROVE  execution' = execution
BY DEF DaemonNext, Run, HandleDaemonEvent, Looping, DropSender, DropReceiver, ClientRequests,
   ReconnectTimesOut, SendReconnect, TunnelStep, ReceiveParameters, OfflineNews, daemonVars, allVars

\* The daemon sends no Block command, and while it runs it holds both its ends.
ChannelInv ==
    /\ \A i \in 1 .. Len(commands) : commands[i].cmd # "Block"
    /\ sender => commandsOpen /\ listening
    /\ ~sender => execution \in {"Finished", "Failed"}

\* Nothing but dropping the daemon closes its ends of the channels.
LEMMA ChannelNext ==
    ASSUME TypeOK, DaemonTypeOK, ChannelInv, DaemonNext \/ UNCHANGED allVars
    PROVE  ChannelInv'
<1>1. \A i \in 1 .. Len(commands') : commands'[i].cmd # "Block"
      <2>1. commands \in Seq(TunnelCommand)
            BY DEF TypeOK, InputTypeOK
      <2>2. CASE UNCHANGED commands
            BY <2>2 DEF ChannelInv
      <2>3. CASE commands # <<>> /\ commands' = Tail(commands)
            BY <2>1, <2>3 DEF ChannelInv
      <2>4. ASSUME NEW c \in TunnelCommand, c.cmd # "Block", commands' = Append(commands, c)
            PROVE  \A i \in 1 .. Len(commands') : commands'[i].cmd # "Block"
            BY <2>1, <2>4 DEF ChannelInv
      <2>5. CASE TunnelStep \/ ReceiveParameters
            BY <2>2, <2>3, <2>5, MachineSteps DEF MachineStep, Receive
      <2> QED BY <2>2, <2>4, <2>5, LoopSteps DEF LoopStep
<1>2. sender' => commandsOpen' /\ listening'
      BY ChannelEnds DEF ChannelInv, DaemonTypeOK, TypeOK, InputTypeOK
<1>3. ~sender' => execution' \in {"Finished", "Failed"}
      BY ChannelEnds, LoopEnds DEF ChannelInv, DaemonTypeOK
<1> QED BY <1>1, <1>2, <1>3 DEF ChannelInv

\* A step of the loop that changes what is wanted sends what it wants now.
Conveys(kinds, before, now) ==
    \/ commands' = commands /\ now = before
    \/ \E c \in TunnelCommand :
          /\ commands' = Append(commands, c)
          /\ \/ c.cmd \notin kinds /\ now = before
             \/ c.cmd \in kinds /\ Payload(c) = now

\* A wish that is conveyed will be met.
LEMMA ConveysSettles ==
    ASSUME TypeOK, NEW kinds, NEW stored, NEW before, NEW now,
           Settles(commands, kinds, stored, before), Conveys(kinds, before, now)
    PROVE  Settles(commands', kinds, stored, now)
<1>1. commands \in Seq(TunnelCommand)
      BY DEF TypeOK, InputTypeOK
<1>2. CASE commands' = commands /\ now = before
      BY <1>2
<1>3. ASSUME NEW c \in TunnelCommand, commands' = Append(commands, c),
             \/ c.cmd \notin kinds /\ now = before
             \/ c.cmd \in kinds /\ Payload(c) = now
      PROVE  Settles(commands', kinds, stored, now)
      <2>1. Settles(Append(commands, c), kinds, stored, now)
            BY <1>1, <1>3, SettlesAppend
      <2> QED BY <1>3, <2>1
<1> QED BY <1>2, <1>3 DEF Conveys

\* A command the machine receives is stored, and nothing else is.
LEMMA MachineSettles ==
    ASSUME TypeOK, DaemonTypeOK, ChannelInv, TunnelStep \/ ReceiveParameters, NEW want
    PROVE  /\ Settles(commands, Orders, requested, want) => Settles(commands', Orders, requested', want)
           /\ Settles(commands, {"AllowLan"}, allowLan, want)
                 => Settles(commands', {"AllowLan"}, allowLan', want)
           /\ Settles(commands, {"BlockWhenDisconnected"}, blockWhenDisconnected, want)
                 => Settles(commands', {"BlockWhenDisconnected"}, blockWhenDisconnected', want)
<1>1. commands \in Seq(TunnelCommand)
      BY DEF TypeOK, InputTypeOK
<1>2. CASE UNCHANGED <<settings, commands, requested>>
      BY <1>2 DEF settings
<1>3. ASSUME NEW c \in TunnelCommand \cup {Closed}, Receive(c), commands = <<>>
      PROVE  UNCHANGED <<settings, commands, requested>>
      BY <1>3 DEF Receive, Closed, settings
<1>4. ASSUME NEW c \in TunnelCommand \cup {Closed}, Receive(c), commands # <<>>
      PROVE  /\ commands' = Tail(commands) /\ c = Head(commands) /\ c.cmd # "Block"
             /\ requested' = IF c.cmd \in Orders THEN Payload(c) ELSE requested
             /\ allowLan' = IF c.cmd \in {"AllowLan"} THEN Payload(c) ELSE allowLan
             /\ blockWhenDisconnected' =
                   IF c.cmd \in {"BlockWhenDisconnected"} THEN Payload(c) ELSE blockWhenDisconnected
      <2>1. commands' = Tail(commands) /\ c = Head(commands)
            BY <1>4 DEF Receive
      <2>2. c.cmd # "Block"
            <3>1. 1 \in 1 .. Len(commands) /\ Head(commands) = commands[1]
                  BY <1>1, <1>4
            <3> QED BY <2>1, <3>1 DEF ChannelInv
      <2> QED BY <1>4, <2>1, <2>2 DEF Receive, Orders, Payload, Flags
<1>5. ASSUME NEW c \in TunnelCommand \cup {Closed}, Receive(c), commands # <<>>
      PROVE  /\ Settles(commands, Orders, requested, want) => Settles(commands', Orders, requested', want)
             /\ Settles(commands, {"AllowLan"}, allowLan, want)
                   => Settles(commands', {"AllowLan"}, allowLan', want)
             /\ Settles(commands, {"BlockWhenDisconnected"}, blockWhenDisconnected, want)
                   => Settles(commands', {"BlockWhenDisconnected"}, blockWhenDisconnected', want)
      <2>1. Settles(commands, Orders, requested, want) => Settles(commands', Orders, requested', want)
            BY <1>1, <1>4, <1>5, SettlesTail
      <2>2. Settles(commands, {"AllowLan"}, allowLan, want)
               => Settles(commands', {"AllowLan"}, allowLan', want)
            BY <1>1, <1>4, <1>5, SettlesTail
      <2>3. Settles(commands, {"BlockWhenDisconnected"}, blockWhenDisconnected, want)
               => Settles(commands', {"BlockWhenDisconnected"}, blockWhenDisconnected', want)
            BY <1>1, <1>4, <1>5, SettlesTail
      <2> QED BY <2>1, <2>2, <2>3
<1> QED BY <1>2, <1>3, <1>5, MachineSteps DEF MachineStep

\* What the loop wants of the machine: a tunnel, or none.
Wanted == IF execution \in {"Starting", "Running"} /\ target = "Secured" THEN "Connect" ELSE "Disconnect"

\* An order sent is the one wanted from then on; settings and news are no orders.
LEMMA Ordering ==
    /\ \A o \in Orders : commands' = Append(commands, [cmd |-> o]) /\ Wanted' = o
                         => Conveys(Orders, Wanted, Wanted')
    /\ \A f \in Flags, v \in BOOLEAN :
          commands' = Append(commands, [cmd |-> f, value |-> v]) /\ Wanted' = Wanted
          => Conveys(Orders, Wanted, Wanted')
    /\ UNCHANGED commands /\ Wanted' = Wanted => Conveys(Orders, Wanted, Wanted')
<1>1. ASSUME NEW o \in Orders, commands' = Append(commands, [cmd |-> o]), Wanted' = o
      PROVE  Conveys(Orders, Wanted, Wanted')
      <2>1. [cmd |-> o] \in TunnelCommand /\ Payload([cmd |-> o]) = o
            BY DEF Orders, TunnelCommand, Payload, Flags
      <2> QED BY <1>1, <2>1 DEF Conveys
<1>2. ASSUME NEW f \in Flags, NEW v \in BOOLEAN,
             commands' = Append(commands, [cmd |-> f, value |-> v]), Wanted' = Wanted
      PROVE  Conveys(Orders, Wanted, Wanted')
      <2>1. [cmd |-> f, value |-> v] \in TunnelCommand /\ f \notin Orders
            BY DEF TunnelCommand, Flags, Orders
      <2> QED BY <1>2, <2>1 DEF Conveys
<1> QED BY <1>1, <1>2 DEF Conveys

\* A client's request that changes the target sends the order for it.
LEMMA HandlerOrders ==
    ASSUME DaemonTypeOK, NEW c \in ManagementCommand, HandleManagementInterfaceEvent(c)
    PROVE  Conveys(Orders, Wanted, Wanted')
<1>1. ASSUME execution = "Running", execution' = execution, NEW new \in TargetState, SetTargetState(new)
      PROVE  Conveys(Orders, Wanted, Wanted')
      BY <1>1, Ordering DEF SetTargetState, ConnectTunnel, DisconnectTunnel, SendTunnelCommand, Wanted,
         Orders, TargetState
<1>2. ASSUME execution = "Running", execution' = execution, ReconnectTunnel
      PROVE  Conveys(Orders, Wanted, Wanted')
      BY <1>2, Ordering DEF ReconnectTunnel, ConnectTunnel, SendTunnelCommand, Wanted, Orders
<1>3. ASSUME execution = "Running", TriggerShutdown
      PROVE  Conveys(Orders, Wanted, Wanted')
      BY <1>3, Ordering DEF TriggerShutdown, DisconnectTunnel, SendTunnelCommand, Wanted, Orders
<1>4. ASSUME UNCHANGED <<execution, target, commands>>
      PROVE  Conveys(Orders, Wanted, Wanted')
      BY <1>4, Ordering DEF Wanted
<1>5. CASE execution = "Running" /\ c.name = "SetAccount" /\ OnSetAccount(c.value)
      <2>1. UNCHANGED <<target, commands>> \/ SetTargetState("Unsecured") \/ ReconnectTunnel
            BY <1>5 DEF OnSetAccount
      <2>2. "Unsecured" \in TargetState /\ execution' = execution
            BY <1>5 DEF TargetState, OnSetAccount
      <2> QED BY <1>1, <1>2, <1>4, <1>5, <2>1, <2>2
<1>6. CASE c.name = "SetAllowLan" /\ OnSetAllowLan(c.value)
      <2>1. c.value \in BOOLEAN /\ Wanted' = Wanted
            BY <1>6, RequestType DEF OnSetAllowLan, Wanted
      <2>2. UNCHANGED commands \/ commands' = Append(commands, [cmd |-> "AllowLan", value |-> c.value])
            BY <1>6 DEF OnSetAllowLan, SendTunnelCommand
      <2> QED BY <2>1, <2>2, Ordering DEF Flags
<1>7. CASE c.name = "SetBlockWhenDisconnected" /\ OnSetBlockWhenDisconnected(c.value)
      <2>1. c.value \in BOOLEAN /\ Wanted' = Wanted
            BY <1>7, RequestType DEF OnSetBlockWhenDisconnected, Wanted
      <2>2. \/ UNCHANGED commands
            \/ commands' = Append(commands, [cmd |-> "BlockWhenDisconnected", value |-> c.value])
            BY <1>7 DEF OnSetBlockWhenDisconnected, SendTunnelCommand
      <2> QED BY <2>1, <2>2, Ordering DEF Flags
<1>8. CASE execution = "Running" /\ OnChangeTunnelOptions
      BY <1>2, <1>4, <1>8 DEF OnChangeTunnelOptions
<1> QED BY <1>1, <1>3, <1>4, <1>5, <1>6, <1>7, <1>8, RequestType
        DEF HandleManagementInterfaceEvent, OnFactoryReset

\* So does every other step of the loop.
LEMMA LoopOrders ==
    ASSUME DaemonTypeOK, DaemonNext \/ UNCHANGED allVars, ~TunnelStep, ~ReceiveParameters,
           execution' # "Failed"
    PROVE  Conveys(Orders, Wanted, Wanted')
<1>1. CASE Run
      BY <1>1, Ordering DEF Run, SetTargetState, ConnectTunnel, SendTunnelCommand, Wanted, Orders
<1>2. CASE HandleDaemonEvent
      <2> DEFINE event == Head(queue)
      <2>1. event.event = "ManagementInterfaceEvent" => event.command \in ManagementCommand
            BY <1>2, LoopEvent, EventType
      <2>2. CASE HandleTunnelStateTransition(event.transition)
            BY <2>2, Ordering DEF HandleTunnelStateTransition, Wanted
      <2>3. CASE HandleGenerateTunnelParameters
            BY <2>3, Ordering DEF HandleGenerateTunnelParameters, Wanted
      <2>4. CASE event.event = "ManagementInterfaceEvent" /\ HandleManagementInterfaceEvent(event.command)
            <3> HIDE DEF event
            <3> QED BY <2>1, <2>4, HandlerOrders
      <2>5. CASE TriggerShutdown
            BY <1>2, <2>5, Ordering
               DEF HandleDaemonEvent, Looping, TriggerShutdown, DisconnectTunnel, SendTunnelCommand, Wanted, Orders
      <2> QED BY <1>2, <2>2, <2>3, <2>4, <2>5 DEF HandleDaemonEvent
<1>3. CASE DropSender \/ DropReceiver \/ ReconnectTimesOut \/ ClientRequests \/ SendReconnect
      BY <1>3, Ordering DEF DropSender, DropReceiver, ReconnectTimesOut, ClientRequests, SendReconnect, Enqueue,
         channel, Wanted
<1>4. CASE OfflineNews
      <2>1. PICK v \in BOOLEAN : Send([cmd |-> "IsOffline", value |-> v])
            BY <1>4 DEF OfflineNews
      <2> QED BY <1>4, <2>1, Ordering DEF OfflineNews, daemonVars, Send, Flags, Wanted
<1>5. CASE UNCHANGED allVars
      BY <1>5, Ordering DEF allVars, vars, daemonVars, channel, Wanted
<1> QED BY <1>1, <1>2, <1>3, <1>4, <1>5 DEF DaemonNext

\* The order that decides is the wanted one, once every command is handled.
OrdersInv == execution # "Failed" => Settles(commands, Orders, requested, Wanted)

\* OrdersInv is OrdersFollowTarget, stated with Settles.
LEMMA OrdersInvIsOrders ==
    OrdersInv <=> OrdersFollowTarget
<1>1. \A i : LatestWaiting(Orders, i) <=> LatestIn(commands, Orders, i)
      BY DEF LatestWaiting, LatestIn
<1>2. NoneWaiting(Orders) <=> NoneIn(commands, Orders)
      BY DEF NoneWaiting, NoneIn
<1>3. \A i : LatestIn(commands, Orders, i) => Payload(commands[i]) = commands[i].cmd
      BY DEF LatestIn, Payload, Orders, Flags
<1> QED BY <1>1, <1>2, <1>3 DEF OrdersInv, OrdersFollowTarget, Settles, Wanted

\* No step of either thread leaves a wrong order as the last one.
LEMMA OrdersNext ==
    ASSUME TypeOK, DaemonTypeOK, ChannelInv, OrdersInv, DaemonNext \/ UNCHANGED allVars
    PROVE  OrdersInv'
<1> SUFFICES ASSUME execution' # "Failed" PROVE Settles(commands', Orders, requested', Wanted')
    BY DEF OrdersInv
<1>1. Settles(commands, Orders, requested, Wanted)
      BY LoopEnds DEF OrdersInv
<1>2. CASE TunnelStep \/ ReceiveParameters
      <2>1. Wanted' = Wanted
            BY <1>2, MachineSteps DEF MachineStep, Wanted
      <2> QED BY <1>1, <1>2, <2>1, MachineSettles
<1>3. CASE ~TunnelStep /\ ~ReceiveParameters
      <2>1. requested' = requested
            BY <1>3, LoopSteps DEF LoopStep
      <2> QED BY <1>1, <1>3, <2>1, LoopOrders, ConveysSettles
<1> QED BY <1>2, <1>3

\* A setting that is changed is sent; if settings can be saved, it always is.
LEMMA Setting ==
    ASSUME NEW f \in {"AllowLan", "BlockWhenDisconnected"}, NEW before, NEW now
    PROVE  /\ \A v \in BOOLEAN : commands' = Append(commands, [cmd |-> f, value |-> v]) /\ now = v
                 => Conveys({f}, before, now)
           /\ \A g \in Flags, v \in BOOLEAN :
                 g # f /\ commands' = Append(commands, [cmd |-> g, value |-> v]) /\ now = before
                 => Conveys({f}, before, now)
           /\ \A o \in Orders : commands' = Append(commands, [cmd |-> o]) /\ now = before
                 => Conveys({f}, before, now)
           /\ UNCHANGED commands /\ now = before => Conveys({f}, before, now)
<1>1. ASSUME NEW v \in BOOLEAN, commands' = Append(commands, [cmd |-> f, value |-> v]), now = v
      PROVE  Conveys({f}, before, now)
      <2>1. [cmd |-> f, value |-> v] \in TunnelCommand /\ Payload([cmd |-> f, value |-> v]) = v
            BY DEF TunnelCommand, Payload, Flags
      <2> QED BY <1>1, <2>1 DEF Conveys
<1>2. ASSUME NEW g \in Flags, NEW v \in BOOLEAN, g # f,
             commands' = Append(commands, [cmd |-> g, value |-> v]), now = before
      PROVE  Conveys({f}, before, now)
      <2>1. [cmd |-> g, value |-> v] \in TunnelCommand
            BY DEF TunnelCommand
      <2> QED BY <1>2, <2>1 DEF Conveys
<1>3. ASSUME NEW o \in Orders, commands' = Append(commands, [cmd |-> o]), now = before
      PROVE  Conveys({f}, before, now)
      <2>1. [cmd |-> o] \in TunnelCommand /\ o # f
            BY DEF TunnelCommand, Orders
      <2> QED BY <1>3, <2>1 DEF Conveys
<1> QED BY <1>1, <1>2, <1>3 DEF Conveys

\* Both settings, as a step of the loop leaves them.
SettingsConveyed ==
    /\ Conveys({"AllowLan"}, lanSetting, lanSetting')
    /\ Conveys({"BlockWhenDisconnected"}, blockSetting, blockSetting')

\* A step that changes no setting and sends at most an order.
LEMMA SettingsKept ==
    ASSUME UNCHANGED <<lanSetting, blockSetting>>,
           UNCHANGED commands \/ ConnectTunnel \/ DisconnectTunnel
    PROVE  SettingsConveyed
<1>1. UNCHANGED commands \/ \E o \in Orders : commands' = Append(commands, [cmd |-> o])
      BY DEF ConnectTunnel, DisconnectTunnel, SendTunnelCommand, Orders
<1> QED BY <1>1, Setting DEF SettingsConveyed

\* A request that changes a setting sends it, where settings can be saved.
LEMMA HandlerSettings ==
    ASSUME DaemonTypeOK, NEW c \in ManagementCommand, HandleManagementInterfaceEvent(c),
           "save" \notin DaemonFaults, execution' \in {"Starting", "Running"}
    PROVE  SettingsConveyed
<1>1. Saved = {TRUE}
      BY DEF Saved
<1>2. CASE c.name = "SetAccount" /\ OnSetAccount(c.value)
      <2>1. UNCHANGED <<target, commands>> \/ SetTargetState("Unsecured") \/ ReconnectTunnel
            BY <1>2 DEF OnSetAccount
      <2>2. UNCHANGED commands \/ ConnectTunnel \/ DisconnectTunnel
            BY <2>1 DEF SetTargetState, ReconnectTunnel
      <2> QED BY <1>2, <2>2, SettingsKept DEF OnSetAccount
<1>3. CASE c.name = "SetAllowLan" /\ OnSetAllowLan(c.value)
      <2>1. c.value \in BOOLEAN /\ lanSetting' = c.value /\ blockSetting' = blockSetting
            BY <1>3, RequestType DEF OnSetAllowLan
      <2>2. IF c.value # lanSetting
            THEN commands' = Append(commands, [cmd |-> "AllowLan", value |-> c.value])
            ELSE UNCHANGED commands
            BY <1>1, <1>3 DEF OnSetAllowLan, SendTunnelCommand
      <2>3. Conveys({"AllowLan"}, lanSetting, lanSetting')
            BY <2>1, <2>2, Setting
      <2>4. Conveys({"BlockWhenDisconnected"}, blockSetting, blockSetting')
            BY <2>1, <2>2, Setting DEF Flags
      <2> QED BY <2>3, <2>4 DEF SettingsConveyed
<1>4. CASE c.name = "SetBlockWhenDisconnected" /\ OnSetBlockWhenDisconnected(c.value)
      <2>1. c.value \in BOOLEAN /\ blockSetting' = c.value /\ lanSetting' = lanSetting
            BY <1>4, RequestType DEF OnSetBlockWhenDisconnected
      <2>2. IF c.value # blockSetting
            THEN commands' = Append(commands, [cmd |-> "BlockWhenDisconnected", value |-> c.value])
            ELSE UNCHANGED commands
            BY <1>1, <1>4 DEF OnSetBlockWhenDisconnected, SendTunnelCommand
      <2>3. Conveys({"AllowLan"}, lanSetting, lanSetting')
            BY <2>1, <2>2, Setting DEF Flags
      <2>4. Conveys({"BlockWhenDisconnected"}, blockSetting, blockSetting')
            BY <2>1, <2>2, Setting
      <2> QED BY <2>3, <2>4 DEF SettingsConveyed
<1>5. CASE OnChangeTunnelOptions
      <2>1. UNCHANGED commands \/ ConnectTunnel
            BY <1>5 DEF OnChangeTunnelOptions, ReconnectTunnel
      <2> QED BY <1>5, <2>1, SettingsKept DEF OnChangeTunnelOptions, userSettings
<1>6. CASE SetTargetState(c.value) /\ UNCHANGED <<execution, userSettings>>
      BY <1>6, SettingsKept DEF SetTargetState, userSettings
<1>7. CASE execution = "Running" /\ TriggerShutdown
      BY <1>7 DEF TriggerShutdown
<1>8. CASE UNCHANGED <<execution, target, userSettings, commands>>
      BY <1>8, SettingsKept DEF userSettings
<1> QED BY <1>2, <1>3, <1>4, <1>5, <1>6, <1>7, <1>8 DEF HandleManagementInterfaceEvent, OnFactoryReset

\* No other step of the loop changes a setting, unless it also ends.
LEMMA LoopSettings ==
    ASSUME DaemonTypeOK, DaemonNext \/ UNCHANGED allVars, ~TunnelStep, ~ReceiveParameters,
           "save" \notin DaemonFaults, execution' \in {"Starting", "Running"}
    PROVE  SettingsConveyed
<1>1. CASE Run
      <2>1. UNCHANGED commands \/ ConnectTunnel \/ DisconnectTunnel
            BY <1>1 DEF Run, SetTargetState
      <2> QED BY <1>1, <2>1, SettingsKept DEF Run, userSettings
<1>2. CASE HandleDaemonEvent
      <2> DEFINE event == Head(queue)
      <2>1. event.event = "ManagementInterfaceEvent" => event.command \in ManagementCommand
            BY <1>2, LoopEvent, EventType
      <2>2. CASE HandleTunnelStateTransition(event.transition)
            BY <2>2, SettingsKept DEF HandleTunnelStateTransition, userSettings
      <2>3. CASE HandleGenerateTunnelParameters
            BY <2>3, SettingsKept DEF HandleGenerateTunnelParameters, userSettings
      <2>4. CASE event.event = "ManagementInterfaceEvent" /\ HandleManagementInterfaceEvent(event.command)
            <3> HIDE DEF event
            <3> QED BY <2>1, <2>4, HandlerSettings
      <2>5. CASE TriggerShutdown /\ UNCHANGED <<target, tunnelState, timer, userSettings, reply>>
            BY <2>5, SettingsKept DEF TriggerShutdown, userSettings
      <2> QED BY <1>2, <2>2, <2>3, <2>4, <2>5 DEF HandleDaemonEvent
<1>3. CASE DropSender \/ DropReceiver \/ ReconnectTimesOut \/ ClientRequests \/ SendReconnect
      BY <1>3, SettingsKept DEF DropSender, DropReceiver, ReconnectTimesOut, ClientRequests, SendReconnect,
         Enqueue, channel, userSettings
<1>4. CASE OfflineNews
      <2>1. PICK v \in BOOLEAN : Send([cmd |-> "IsOffline", value |-> v])
            BY <1>4 DEF OfflineNews
      <2>2. UNCHANGED <<lanSetting, blockSetting>> /\ "IsOffline" \in Flags
            BY <1>4 DEF OfflineNews, daemonVars, userSettings, Flags
      <2> QED BY <2>1, <2>2, Setting DEF Send, SettingsConveyed
<1>5. CASE UNCHANGED allVars
      BY <1>5, SettingsKept DEF allVars, vars, daemonVars, channel, userSettings
<1> QED BY <1>1, <1>2, <1>3, <1>4, <1>5 DEF DaemonNext

\* The machine's settings are the daemon's, once every command is handled.
SettingsInv ==
    "save" \notin DaemonFaults /\ execution \in {"Starting", "Running"} =>
       /\ Settles(commands, {"AllowLan"}, allowLan, lanSetting)
       /\ Settles(commands, {"BlockWhenDisconnected"}, blockWhenDisconnected, blockSetting)

\* SettingsInv is SettingsReachTunnel, stated with Settles.
LEMMA SettingsInvReaches ==
    SettingsInv <=> SettingsReachTunnel
<1>1. \A kinds, i : LatestWaiting(kinds, i) <=> LatestIn(commands, kinds, i)
      BY DEF LatestWaiting, LatestIn
<1>2. \A kinds : NoneWaiting(kinds) <=> NoneIn(commands, kinds)
      BY DEF NoneWaiting, NoneIn
<1>3. \A i, f : f \in Flags /\ LatestIn(commands, {f}, i) => Payload(commands[i]) = commands[i].value
      BY DEF LatestIn, Payload
<1> QED BY <1>1, <1>2, <1>3 DEF SettingsInv, SettingsReachTunnel, Settles, Flags

\* A loop that is running was running or starting before.
LEMMA RunningWas ==
    ASSUME DaemonNext \/ UNCHANGED allVars, DaemonTypeOK
    PROVE  /\ execution' \in {"Starting", "Running"} => execution \in {"Starting", "Running"}
           /\ execution' \in {"Starting", "Running", "Exiting"} =>
                 execution \in {"Starting", "Running", "Exiting"}
<1>1. CASE HandleDaemonEvent
      <2>1. \A c : HandleManagementInterfaceEvent(c) => execution' = execution \/ execution = "Running"
            BY DEF HandleManagementInterfaceEvent
      <2>2. execution' \in {execution, "Finished", "Exiting", "Failed"} \/ execution = "Running"
            BY <1>1, <2>1 DEF HandleDaemonEvent, HandleTunnelStateTransition, HandleGenerateTunnelParameters,
               TriggerShutdown
      <2> QED BY <1>1, <2>2 DEF HandleDaemonEvent, Looping
<1>2. CASE Run \/ DropSender \/ DropReceiver \/ ReconnectTimesOut \/ ClientRequests \/ SendReconnect
      BY <1>2 DEF Run, DropSender, DropReceiver, ReconnectTimesOut, ClientRequests, SendReconnect
<1>3. CASE TunnelStep \/ ReceiveParameters \/ OfflineNews \/ UNCHANGED allVars
      BY <1>3 DEF TunnelStep, ReceiveParameters, OfflineNews, daemonVars, allVars
<1> QED BY <1>1, <1>2, <1>3 DEF DaemonNext

\* No step of either thread leaves a setting unsent.
LEMMA SettingsNext ==
    ASSUME TypeOK, DaemonTypeOK, ChannelInv, SettingsInv, DaemonNext \/ UNCHANGED allVars
    PROVE  SettingsInv'
<1> SUFFICES ASSUME "save" \notin DaemonFaults, execution' \in {"Starting", "Running"}
             PROVE  /\ Settles(commands', {"AllowLan"}, allowLan', lanSetting')
                    /\ Settles(commands', {"BlockWhenDisconnected"}, blockWhenDisconnected', blockSetting')
    BY DEF SettingsInv
<1>1. /\ Settles(commands, {"AllowLan"}, allowLan, lanSetting)
      /\ Settles(commands, {"BlockWhenDisconnected"}, blockWhenDisconnected, blockSetting)
      BY RunningWas DEF SettingsInv
<1>2. CASE TunnelStep \/ ReceiveParameters
      <2>1. lanSetting' = lanSetting /\ blockSetting' = blockSetting
            BY <1>2, MachineSteps DEF MachineStep, userSettings
      <2> QED BY <1>1, <1>2, <2>1, MachineSettles
<1>3. CASE ~TunnelStep /\ ~ReceiveParameters
      <2>1. allowLan' = allowLan /\ blockWhenDisconnected' = blockWhenDisconnected
            BY <1>3, LoopSteps DEF LoopStep, settings
      <2>2. SettingsConveyed
            BY <1>3, LoopSettings
      <2> QED BY <1>1, <2>1, <2>2, ConveysSettles DEF SettingsConveyed
<1> QED BY <1>2, <1>3

-----------------------------------------------------------------------------
(* The daemon's copy of the tunnel state *)

\* A transition that tells this state, and what it is blocked for.
Shows(last, s, reason) ==
    /\ s \notin {"Finished", "Stopped"} => last.to = s
    /\ s = "Blocked" => last.reason = reason

\* Once the queue is handled, the copy is what the last transition in it tells.
Catches(q, copy, s, reason) ==
    /\ \A i \in 1 .. Len(q) :
          IsTransition(q[i]) /\ (\A j \in i + 1 .. Len(q) : ~IsTransition(q[j]))
          => Shows(q[i].transition, s, reason)
    /\ (\A i \in 1 .. Len(q) : ~IsTransition(q[i])) => Shows(copy, s, reason)

\* Handling the first event copies the state it tells.
LEMMA CatchesTail ==
    ASSUME NEW T, NEW q \in Seq(T), q # <<>>, NEW copy, NEW s, NEW reason,
           Catches(q, copy, s, reason),
           NEW new, new = IF IsTransition(Head(q)) THEN Head(q).transition ELSE copy
    PROVE  Catches(Tail(q), new, s, reason)
<1>1. /\ Len(q) \in Nat \ {0} /\ Len(Tail(q)) = Len(q) - 1 /\ Head(q) = q[1]
      /\ \A i \in 1 .. Len(Tail(q)) : Tail(q)[i] = q[i + 1]
      OBVIOUS
<1>2. ASSUME NEW i \in 1 .. Len(Tail(q)), IsTransition(Tail(q)[i]),
             \A j \in i + 1 .. Len(Tail(q)) : ~IsTransition(Tail(q)[j])
      PROVE  Shows(Tail(q)[i].transition, s, reason)
      <2>1. i + 1 \in 1 .. Len(q) /\ Tail(q)[i] = q[i + 1]
            BY <1>1
      <2>2. ASSUME NEW j \in (i + 1) + 1 .. Len(q) PROVE ~IsTransition(q[j])
            <3>1. j - 1 \in i + 1 .. Len(Tail(q)) /\ j - 1 \in 1 .. Len(Tail(q)) /\ (j - 1) + 1 = j
                  BY <1>1
            <3> QED BY <1>1, <1>2, <3>1
      <2> QED BY <1>2, <2>1, <2>2 DEF Catches
<1>3. ASSUME \A i \in 1 .. Len(Tail(q)) : ~IsTransition(Tail(q)[i])
      PROVE  Shows(new, s, reason)
      <2>1. ASSUME NEW j \in 2 .. Len(q) PROVE ~IsTransition(q[j])
            <3>1. j - 1 \in 1 .. Len(Tail(q)) /\ (j - 1) + 1 = j
                  BY <1>1
            <3> QED BY <1>1, <1>3, <3>1
      <2>2. 1 \in 1 .. Len(q) /\ 1 + 1 = 2
            BY <1>1
      <2>3. CASE IsTransition(Head(q))
            BY <1>1, <2>1, <2>2, <2>3 DEF Catches
      <2>4. CASE ~IsTransition(Head(q))
            <3>1. \A i \in 1 .. Len(q) : i = 1 \/ i \in 2 .. Len(q)
                  BY <1>1
            <3> QED BY <1>1, <2>1, <2>4, <3>1 DEF Catches
      <2> QED BY <2>3, <2>4
<1> QED BY <1>2, <1>3 DEF Catches

\* A new transition decides, other events change nothing.
LEMMA CatchesAppend ==
    ASSUME NEW T, NEW q \in Seq(T), NEW e \in T, NEW copy, NEW s, NEW reason,
           \/ ~IsTransition(e) /\ Catches(q, copy, s, reason)
           \/ IsTransition(e) /\ Shows(e.transition, s, reason)
    PROVE  Catches(Append(q, e), copy, s, reason)
<1> DEFINE a == Append(q, e)
<1>1. /\ Len(q) \in Nat /\ Len(a) = Len(q) + 1 /\ a[Len(q) + 1] = e
      /\ \A i \in 1 .. Len(q) : a[i] = q[i]
      OBVIOUS
<1> HIDE DEF a
<1>2. CASE IsTransition(e) /\ Shows(e.transition, s, reason)
      <2>1. Len(q) + 1 \in 1 .. Len(a)
            BY <1>1
      <2>2. ASSUME NEW i \in 1 .. Len(a), \A j \in i + 1 .. Len(a) : ~IsTransition(a[j])
            PROVE  i = Len(q) + 1
            BY <1>1, <1>2, <2>2
      <2>3. Catches(a, copy, s, reason)
            BY <1>1, <1>2, <2>1, <2>2 DEF Catches
      <2> QED BY <2>3 DEF a
<1>3. CASE ~IsTransition(e) /\ Catches(q, copy, s, reason)
      <2>1. ASSUME NEW i \in 1 .. Len(a), IsTransition(a[i]),
                   \A j \in i + 1 .. Len(a) : ~IsTransition(a[j])
            PROVE  Shows(a[i].transition, s, reason)
            <3>1. i \in 1 .. Len(q) /\ a[i] = q[i]
                  BY <1>1, <1>3, <2>1
            <3>2. \A j \in i + 1 .. Len(q) : ~IsTransition(q[j])
                  BY <1>1, <2>1
            <3> QED BY <1>3, <2>1, <3>1, <3>2 DEF Catches
      <2>2. (\A i \in 1 .. Len(a) : ~IsTransition(a[i])) => \A i \in 1 .. Len(q) : ~IsTransition(q[i])
            BY <1>1
      <2>3. Catches(a, copy, s, reason)
            BY <1>3, <2>1, <2>2 DEF Catches
      <2> QED BY <2>3 DEF a
<1> QED BY <1>2, <1>3

\* A machine somebody listens to tells every state it enters, and asks for
\* parameters when it needs them; it ends only when the command channel is closed.
MachineTells ==
    \/ output' = NoOutput /\ state' = state /\ (state = "Blocked" => blockReason' = blockReason)
    \/ output' = NoOutput /\ state' = "Finished" /\ ~commandsOpen
    \/ output' # NoOutput /\ output'.to = "Generate" /\ state' = "Generating"
    \/ /\ output' # NoOutput /\ output'.to # "Generate" /\ Shows(output', state', blockReason')
       /\ state' \notin {"Generating", "Finished", "Stopped"}

\* Entering a state tells it.
LEMMA EnteredTells ==
    ASSUME TypeOK, listening
    PROVE  /\ \A reason, before : EnterBlocked(reason, before) => MachineTells
           /\ EnterDisconnected => MachineTells
           /\ \A n : EnterConnecting(n) => MachineTells
           /\ \A a, reason, n : EnterDisconnecting(a, reason, n) => MachineTells
           /\ SameState => MachineTells
<1>1. ASSUME NEW reason, NEW before, EnterBlocked(reason, before) PROVE MachineTells
      BY <1>1 DEF EnterBlocked, NewState, Values, MachineTells, Shows, NoOutput
<1>2. EnterDisconnected => MachineTells
      BY DEF EnterDisconnected, NewState, Values, MachineTells, Shows, NoOutput
<1>3. ASSUME NEW n, EnterConnecting(n) PROVE MachineTells
      BY <1>1, <1>3 DEF EnterConnecting, MachineTells, NoOutput
<1>4. ASSUME NEW a, NEW reason, NEW n, EnterDisconnecting(a, reason, n) PROVE MachineTells
      BY <1>4 DEF EnterDisconnecting, NewState, MachineTells, Shows, NoOutput
<1>5. SameState => MachineTells
      BY DEF SameState, machine, MachineTells
<1> QED BY <1>1, <1>2, <1>3, <1>4, <1>5

\* A command handled in place is not told, for the state stays what it was.
LEMMA CommandTells ==
    ASSUME TypeOK, listening, HandleCommand
    PROVE  MachineTells
<1>1. ASSUME NEW c \in TunnelCommand \cup {Closed}, DisconnectedHandleEvent(c) PROVE MachineTells
      <2>1. CASE c = Closed /\ state' = "Finished" /\ output' = NoOutput
            <3>1. ~commandsOpen
                  <4>1. Head(commands) # Closed \/ commands = <<>>
                        <5>1. commands \in Seq(TunnelCommand)
                              BY DEF TypeOK, InputTypeOK
                        <5>2. \A d \in TunnelCommand : d.cmd # "Closed"
                              BY DEF TunnelCommand, Flags
                        <5>3. commands # <<>> => Head(commands) \in TunnelCommand
                              BY <5>1
                        <5> QED BY <5>2, <5>3 DEF Closed
                  <4> QED BY <1>1, <2>1, <4>1 DEF DisconnectedHandleEvent, Receive
            <3> QED BY <2>1, <3>1 DEF MachineTells
      <2>2. CASE SameState
            BY <2>2, EnteredTells
      <2>3. CASE EnterConnecting(0)
            BY <2>3, EnteredTells
      <2>4. CASE EnterBlocked(c.reason, {firewall})
            BY <2>4, EnteredTells
      <2> QED BY <1>1, <2>1, <2>2, <2>3, <2>4 DEF DisconnectedHandleEvent
<1>2. ASSUME NEW c \in TunnelCommand \cup {Closed}, BlockedHandleEvent(c) PROVE MachineTells
      BY <1>2, EnteredTells DEF BlockedHandleEvent
<1>3. ASSUME NEW c \in TunnelCommand \cup {Closed}, ConnectingHandleCommands(c) PROVE MachineTells
      <2>1. SameState \/ \E a, reason, n : EnterDisconnecting(a, reason, n)
            BY <1>3 DEF ConnectingHandleCommands
      <2> QED BY <2>1, EnteredTells
<1>4. ASSUME NEW c \in TunnelCommand \cup {Closed}, ConnectedHandleCommands(c) PROVE MachineTells
      <2>1. SameState \/ \E a, reason, n : EnterDisconnecting(a, reason, n)
            BY <1>4 DEF ConnectedHandleCommands, Disconnect
      <2> QED BY <2>1, EnteredTells
<1>5. ASSUME NEW c \in TunnelCommand \cup {Closed}, DisconnectingHandleCommands(c) PROVE MachineTells
      BY <1>5 DEF DisconnectingHandleCommands, MachineTells
<1> QED BY <1>1, <1>2, <1>3, <1>4, <1>5 DEF HandleCommand

\* Nothing else changes the state silently.
LEMMA NextTells ==
    ASSUME TypeOK, listening, Next
    PROVE  MachineTells
<1>1. CASE HandleCommand
      BY <1>1, CommandTells
<1>2. CASE HandleTunnelEvent
      <2>1. \/ \E a, reason, n : EnterDisconnecting(a, reason, n)
            \/ IgnoreEvent
            \/ NewState("Connected", [to |-> "Connected"])
            BY <1>2 DEF HandleTunnelEvent, ConnectingHandleTunnelEvents, ConnectedHandleTunnelEvents,
               EnterConnected, Disconnect
      <2>2. CASE IgnoreEvent
            BY <2>2 DEF IgnoreEvent, machine, MachineTells
      <2>3. CASE NewState("Connected", [to |-> "Connected"])
            BY <2>3 DEF NewState, MachineTells, Shows, NoOutput
      <2> QED BY <2>1, <2>2, <2>3, EnteredTells
<1>3. CASE HandleCloseEvent
      BY <1>3, EnteredTells DEF HandleCloseEvent, ConnectingHandleTunnelCloseEvent,
         ConnectedHandleTunnelCloseEvent, DisconnectingHandleExitEvent
<1>4. ASSUME NEW answer, Generated(answer) PROVE MachineTells
      <2>1. (\E reason, before : EnterBlocked(reason, before)) \/ StartTunnel(answer)
            BY <1>4 DEF Generated
      <2>2. CASE StartTunnel(answer)
            BY <2>2 DEF StartTunnel, NewState, MachineTells, Shows, NoOutput
      <2> QED BY <2>1, <2>2, EnteredTells
<1>5. CASE MonitorThreads \/ Environment
      BY <1>5 DEF MonitorThreads, MonitorExit, SendCloseEvent, Environment, Send, Hangup, StopListening,
         OnTunnelEvent, DropEventSender, machine, MachineTells
<1> QED BY <1>1, <1>2, <1>3, <1>4, <1>5 DEF Next, HandleEvent, GeneratorAnswers

\* CopyCatchesUp, stated with the state it is about.
LEMMA CopyCatches ==
    /\ CopyCatchesUp <=>
          (listening /\ state # "Generating" => Catches(queue, tunnelState, state, blockReason))
    /\ CopyCatchesUp' <=>
          (listening' /\ state' # "Generating" => Catches(queue', tunnelState', state', blockReason'))
BY DEF CopyCatchesUp, Catches, Shows, LastTransition

\* The loop takes transitions off its queue in order and adds none.
LEMMA LoopCopy ==
    ASSUME DaemonTypeOK, TypeOK, Catches(queue, tunnelState, state, blockReason), listening',
           DaemonNext \/ UNCHANGED allVars, ~TunnelStep, ~ReceiveParameters
    PROVE  Catches(queue', tunnelState', state, blockReason)
<1>1. queue \in Seq(InternalDaemonEvent)
      BY DEF DaemonTypeOK
<1>2. CASE HandleDaemonEvent
      <2> DEFINE event == Head(queue)
      <2>1. queue # <<>> /\ queue' = Tail(queue)
            BY <1>2 DEF HandleDaemonEvent
      <2>2. \A c : HandleManagementInterfaceEvent(c) => tunnelState' = tunnelState
            BY DEF HandleManagementInterfaceEvent
      <2>3. tunnelState' = IF IsTransition(event) THEN event.transition ELSE tunnelState
            BY <1>2, <2>2 DEF HandleDaemonEvent, HandleTunnelStateTransition, HandleGenerateTunnelParameters,
               IsTransition
      <2> QED BY <1>1, <2>1, <2>3, CatchesTail
<1>3. ASSUME NEW e \in InternalDaemonEvent, Enqueue(e), ~IsTransition(e), tunnelState' = tunnelState
      PROVE  Catches(queue', tunnelState', state, blockReason)
      BY <1>1, <1>3, CatchesAppend DEF Enqueue
<1>4. CASE ClientRequests
      <2>1. PICK e \in InternalDaemonEvent : Enqueue(e) /\ ~IsTransition(e)
            <3>1. \A c \in Requests : Request(c) \in InternalDaemonEvent /\ ~IsTransition(Request(c))
                  BY DaemonAssumption DEF Request, InternalDaemonEvent, IsTransition
            <3>2. \A name \in {"ManagementInterfaceExited", "TriggerShutdown"} :
                     [event |-> name] \in InternalDaemonEvent /\ ~IsTransition([event |-> name])
                  BY DEF InternalDaemonEvent, IsTransition
            <3>3. \/ \E c \in Requests : Enqueue(Request(c))
                  \/ Enqueue([event |-> "TriggerShutdown"])
                  \/ Enqueue([event |-> "ManagementInterfaceExited"])
                  BY <1>4 DEF ClientRequests
            <3> QED BY <3>1, <3>2, <3>3
      <2> QED BY <1>3, <1>4, <2>1 DEF ClientRequests
<1>5. CASE SendReconnect
      <2> DEFINE e == Request([name |-> "SetTargetState", value |-> "Secured"])
      <2>1. e \in InternalDaemonEvent /\ ~IsTransition(e)
            BY DEF Request, InternalDaemonEvent, ManagementCommand, TargetState, IsTransition
      <2>2. Enqueue(e) /\ tunnelState' = tunnelState
            BY <1>5 DEF SendReconnect
      <2> HIDE DEF e
      <2> QED BY <1>3, <2>1, <2>2
<1>6. CASE Run \/ DropSender \/ ReconnectTimesOut
      BY <1>6 DEF Run, DropSender, ReconnectTimesOut
<1>7. CASE OfflineNews \/ UNCHANGED allVars
      BY <1>7 DEF OfflineNews, allVars, daemonVars
<1>8. CASE DropReceiver
      BY <1>8 DEF DropReceiver
<1> QED BY <1>2, <1>4, <1>5, <1>6, <1>7, <1>8 DEF DaemonNext

\* No step of either thread loses a transition.
LEMMA CopyNext ==
    ASSUME TypeOK, DaemonTypeOK, HandleOK, CopyCatchesUp, DaemonNext \/ UNCHANGED allVars
    PROVE  CopyCatchesUp'
<1> SUFFICES ASSUME listening', state' # "Generating"
             PROVE  Catches(queue', tunnelState', state', blockReason')
    BY CopyCatches
<1>1. CASE TunnelStep \/ ReceiveParameters
      <2>1. listening /\ tunnelState' = tunnelState /\ Deliver /\ MachineTells
            BY <1>1, MachineSteps, NextTells DEF MachineStep
      <2>2. CASE output' = NoOutput /\ state' = state /\ (state = "Blocked" => blockReason' = blockReason)
            <3>1. queue' = queue /\ Catches(queue, tunnelState, state, blockReason)
                  BY <2>1, <2>2, CopyCatches DEF Deliver
            <3>2. \A x : Shows(x, state, blockReason) => Shows(x, state', blockReason')
                  BY <2>2 DEF Shows
            <3> QED BY <2>1, <3>1, <3>2 DEF Catches
      <2>3. CASE state' = "Finished"
            BY <2>3 DEF Catches, Shows
      <2>4. CASE output' # NoOutput /\ output'.to # "Generate" /\ Shows(output', state', blockReason')
            <3> DEFINE e == [event |-> "TunnelStateTransition", transition |-> output']
            <3>1. queue' = Append(queue, e)
                  BY <2>1, <2>4 DEF Deliver
            <3>2. IsTransition(e) /\ e.transition = output'
                  BY DEF IsTransition
            <3>3. e \in InternalDaemonEvent
                  <4>1. output' \in Transition \cup GenerateRequest \cup {NoOutput}
                        BY MachineTypeNext DEF TypeOK, StateTypeOK
                  <4>2. output' \in Transition
                        BY <2>4, <4>1 DEF GenerateRequest
                  <4> QED BY <4>2 DEF InternalDaemonEvent
            <3>4. queue \in Seq(InternalDaemonEvent)
                  BY DEF DaemonTypeOK
            <3> HIDE DEF e
            <3> QED BY <2>4, <3>1, <3>2, <3>3, <3>4, CatchesAppend
      <2> QED BY <2>1, <2>2, <2>3, <2>4 DEF MachineTells
<1>2. CASE ~TunnelStep /\ ~ReceiveParameters
      <2>1. state' = state /\ blockReason' = blockReason
            BY <1>2, LoopSteps DEF LoopStep, machine
      <2>2. listening
            BY ChannelEnds
      <2>3. Catches(queue, tunnelState, state, blockReason)
            BY <2>1, <2>2, CopyCatches
      <2> QED BY <1>2, <2>1, <2>3, LoopCopy
<1> QED BY <1>1, <1>2

\* While the loop may send commands both ends are held, so the machine does not end.
LEMMA OutlivesNext ==
    ASSUME TypeOK, DaemonTypeOK, ChannelInv, MachineOutlivesLoop, DaemonNext \/ UNCHANGED allVars
    PROVE  MachineOutlivesLoop'
<1> SUFFICES ASSUME execution' \in {"Starting", "Running", "Exiting"}
             PROVE  state' \notin {"Finished", "Stopped"}
    BY DEF MachineOutlivesLoop
<1>1. /\ execution \in {"Starting", "Running", "Exiting"}
      /\ state \notin {"Finished", "Stopped"} /\ commandsOpen /\ listening
      BY RunningWas DEF MachineOutlivesLoop, ChannelInv
<1>2. CASE TunnelStep \/ ReceiveParameters
      BY <1>1, <1>2, MachineSteps, NextTells DEF MachineStep, MachineTells
<1>3. CASE ~TunnelStep /\ ~ReceiveParameters
      BY <1>1, <1>3, LoopSteps DEF LoopStep, machine
<1> QED BY <1>2, <1>3

-----------------------------------------------------------------------------
(* The machine keeps its promises to this daemon too *)

\* The daemon's steps break none of the machine's own invariants.
LEMMA MachineKeeps ==
    ASSUME TypeOK, HandleOK, DaemonTypeOK, ChannelInv, DaemonNext \/ UNCHANGED allVars,
           KillSwitch, PolicyFitsState, FollowsRequest, OneTunnel, OfflineInv, DnsInv
    PROVE  KillSwitch' /\ PolicyFitsState' /\ FollowsRequest' /\ OneTunnel' /\ OfflineInv' /\ DnsInv'
<1>1. CASE TunnelStep \/ ReceiveParameters
      <2>1. Next
            BY <1>1, MachineSteps DEF MachineStep
      <2>2. DnsInv'
            BY <2>1, DnsNext DEF DnsInv, DnsFollowsTunnel
      <2> QED BY <2>1, <2>2, KillSwitchNext, PolicyFitsNext, FollowsRequestNext, OneTunnelNext, OfflineNext
<1>2. CASE ~TunnelStep /\ ~ReceiveParameters
      <2>1. UNCHANGED <<state, after, blockReason, allowLan, blockWhenDisconnected, firewall, firewallErr,
                        tunnel, parameters, requested, isOffline, monitor, resolver, dnsActive>>
            BY <1>2, LoopSteps DEF LoopStep, machine, settings, fw, handle, monitors, dns
      <2>2. commandsOpen' => commandsOpen
            BY ChannelEnds DEF ChannelInv, DaemonTypeOK, TypeOK, InputTypeOK
      <2>3. KillSwitch'
            BY <2>1 DEF KillSwitch
      <2>4. PolicyFitsState'
            BY <2>1, PolicyFitsStateCases
      <2>5. FollowsRequest'
            BY <2>1, <2>2 DEF FollowsRequest, StaysDisconnected, NeverGivesUp
      <2>6. OneTunnel'
            BY <2>1 DEF OneTunnel
      <2>7. OfflineInv'
            BY <2>1 DEF OfflineInv, OfflineIsKnown, ReasonIsNeeded
      <2>8. DnsInv'
            BY <2>1 DEF DnsInv, DnsFollowsTunnel
      <2> QED BY <2>3, <2>4, <2>5, <2>6, <2>7, <2>8
<1> QED BY <1>1, <1>2

\* A step of the daemon's thread that is not the machine's leaves all of it alone but the
\* ends of its channels.
LEMMA LoopLeavesMachine ==
    ASSUME TypeOK, DaemonTypeOK, ChannelInv, DaemonNext \/ UNCHANGED allVars, ~TunnelStep, ~ReceiveParameters
    PROVE  UNCHANGED <<state, firewall, requested>> /\ (commandsOpen' => commandsOpen)
<1>1. UNCHANGED <<state, firewall, requested>>
      BY LoopSteps DEF LoopStep, machine, fw
<1>2. commandsOpen' => commandsOpen
      BY ChannelEnds DEF ChannelInv, DaemonTypeOK, TypeOK, InputTypeOK
<1> QED BY <1>1, <1>2

-----------------------------------------------------------------------------
(* The theorems *)

\* What the loop and the machine maintain between them.
DaemonInv ==
    /\ TypeOK /\ HandleOK /\ DaemonTypeOK /\ ChannelInv
    /\ OrdersInv /\ SettingsInv
    /\ CopyCatchesUp /\ MachineOutlivesLoop
    /\ KillSwitch /\ PolicyFitsState /\ FollowsRequest
    /\ OneTunnel /\ OfflineInv /\ DnsInv

\* It holds before the loop starts.
LEMMA DaemonInvInit == DaemonInit => DaemonInv
<1> SUFFICES ASSUME DaemonInit PROVE DaemonInv
    OBVIOUS
<1>1. TypeOK /\ HandleOK
      BY InitType DEF DaemonInit
<1>2. DaemonTypeOK
      <2>1. tunnelState \in Transition
            BY DEF DaemonInit, Transition
      <2>2. queue \in Seq(InternalDaemonEvent) /\ reply \in Seq(TunnelParameters \cup {NoParameters})
            BY DEF DaemonInit
      <2>3. lanSetting \in BOOLEAN /\ blockSetting \in BOOLEAN
            BY <1>1 DEF DaemonInit, TypeOK, InputTypeOK
      <2> QED BY <2>1, <2>2, <2>3 DEF DaemonInit, DaemonTypeOK, TargetState
<1>3. commands = <<>> /\ Len(commands) = 0
      BY DEF DaemonInit, Init
<1>4. ChannelInv
      <2>1. sender = TRUE /\ commandsOpen = TRUE /\ listening = TRUE
            BY DEF DaemonInit, Init
      <2> QED BY <1>3, <2>1 DEF ChannelInv
<1>5. \A kinds, want : Settles(commands, kinds, want, want)
      BY <1>3 DEF Settles, LatestIn
<1>6. OrdersInv
      <2>1. requested = Wanted
            BY DEF DaemonInit, Init, Wanted
      <2> QED BY <1>5, <2>1 DEF OrdersInv
<1>7. SettingsInv
      BY <1>5 DEF SettingsInv, DaemonInit
<1>8. CopyCatchesUp
      <2>1. queue = <<>> /\ Len(queue) = 0 /\ state = "Disconnected" /\ tunnelState.to = "Disconnected"
            BY DEF DaemonInit, Init
      <2> QED BY <2>1, CopyCatches DEF Catches, Shows
<1>9. MachineOutlivesLoop
      BY DEF DaemonInit, Init, MachineOutlivesLoop
<1>10. KillSwitch
      BY DEF DaemonInit, Init, KillSwitch
<1>11. PolicyFitsState
      BY PolicyFitsStateCases DEF PolicyOf, DaemonInit, Init, InitialPolicy
<1>12. FollowsRequest
      BY DEF DaemonInit, Init, FollowsRequest, StaysDisconnected, NeverGivesUp
<1>13. OneTunnel
      BY DEF DaemonInit, Init, OneTunnel
<1>14. OfflineInv
      BY OtherReasons DEF DaemonInit, Init, OfflineInv, OfflineIsKnown, ReasonIsNeeded
<1>15. DnsInv
      BY Zenon DEF DaemonInit, Init, DnsInv, DnsFollowsTunnel
<1> QED BY <1>1, <1>2, <1>4, <1>6, <1>7, <1>8, <1>9, <1>10, <1>11, <1>12, <1>13, <1>14, <1>15 DEF DaemonInv

\* Every step of either thread keeps it.
LEMMA DaemonInvNext ==
    ASSUME DaemonInv, [DaemonNext]_allVars
    PROVE  DaemonInv'
<1> USE DEF DaemonInv
<1>1. TypeOK' /\ HandleOK' /\ DaemonTypeOK'
      BY MachineTypeNext, DaemonTypeNext
<1>2. ChannelInv' /\ OrdersInv' /\ SettingsInv'
      BY ChannelNext, OrdersNext, SettingsNext
<1>3. CopyCatchesUp' /\ MachineOutlivesLoop'
      BY CopyNext, OutlivesNext
<1>4. KillSwitch' /\ PolicyFitsState' /\ FollowsRequest' /\ OneTunnel' /\ OfflineInv' /\ DnsInv'
      BY MachineKeeps
<1> QED BY <1>1, <1>2, <1>3, <1>4

\* So it always holds.
LEMMA DaemonInvHolds == DaemonSpec => []DaemonInv
<1>1. DaemonInit => DaemonInv
      BY DaemonInvInit
<1>2. DaemonInv /\ [DaemonNext]_allVars => DaemonInv'
      BY DaemonInvNext
<1> QED BY <1>1, <1>2, PTL DEF DaemonSpec

(***************************************************************************)
(* Whatever clients ask for, in whatever order, however late the daemon's  *)
(* copy of the tunnel state is and whenever the reconnect timer fires, the *)
(* last order on its way to the machine is the one the target state calls  *)
(* for, and Disconnect once the daemon shuts down.                         *)
(***************************************************************************)
THEOREM OrdersFollowTargetHolds == DaemonSpec => []OrdersFollowTarget
<1>1. DaemonInv => OrdersFollowTarget
      BY OrdersInvIsOrders DEF DaemonInv
<1> QED BY <1>1, DaemonInvHolds, PTL

(***************************************************************************)
(* While the target state is Secured the firewall is not open, once the    *)
(* machine has handled its orders and has its parameters, unless the       *)
(* firewall itself refused.                                                *)
(***************************************************************************)
THEOREM SecuredIsSealedHolds == DaemonSpec => []SecuredIsSealed
<1>1. DaemonInv => SecuredIsSealed
  <2> SUFFICES ASSUME DaemonInv, execution = "Running", target = "Secured", NoneWaiting(Orders),
                      state # "Generating", firewall.kind = "None", ~firewallErr
               PROVE  FALSE
      BY DEF SecuredIsSealed
  <2>1. requested = "Connect"
        BY OrdersInvIsOrders DEF DaemonInv, OrdersFollowTarget
  <2>2. commandsOpen /\ state \notin {"Finished", "Stopped"}
        BY DEF DaemonInv, ChannelInv, MachineOutlivesLoop
  <2>3. state # "Disconnected"
        BY <2>1, <2>2 DEF DaemonInv, FollowsRequest, NeverGivesUp
  <2>4. state = "Blocked"
        BY <2>2, <2>3 DEF DaemonInv, KillSwitch
  <2>5. firewall = BlockedPolicy(allowLan)
        BY <2>4, PolicyFitsStateCases DEF DaemonInv, PolicyOf
  <2> QED BY <2>5, PolicyKinds
<1> QED BY <1>1, DaemonInvHolds, PTL

(***************************************************************************)
(* No transition the machine makes is lost or reordered on its way to the  *)
(* daemon's copy, and the machine's thread does not end while the loop may *)
(* still send to it.                                                       *)
(***************************************************************************)
THEOREM LoopAndMachineAgreeHolds == DaemonSpec => []LoopAndMachineAgree
<1>1. DaemonInv => LoopAndMachineAgree
      BY DEF DaemonInv, LoopAndMachineAgree
<1> QED BY <1>1, DaemonInvHolds, PTL

(***************************************************************************)
(* Where settings can be saved, the machine's copies of allow_lan and      *)
(* block_when_disconnected become the daemon's, and with                   *)
(* block_when_disconnected the disconnected machine blocks the firewall.   *)
(***************************************************************************)
THEOREM SettingsTakeEffectHolds == DaemonSpec => []SettingsTakeEffect
<1>1. DaemonInv => SettingsTakeEffect
  <2> SUFFICES ASSUME DaemonInv PROVE SettingsTakeEffect
      OBVIOUS
  <2>1. SettingsReachTunnel
        BY SettingsInvReaches DEF DaemonInv
  <2>2. BlockWhenDisconnectedBlocks
    <3> SUFFICES ASSUME execution = "Running", blockSetting, "save" \notin DaemonFaults,
                        state = "Disconnected", commands = <<>>, ~firewallErr
                 PROVE  firewall.kind = "Blocked"
        BY DEF BlockWhenDisconnectedBlocks
    <3>1. NoneWaiting({"BlockWhenDisconnected"})
          BY DEF NoneWaiting
    <3>2. blockWhenDisconnected = blockSetting
          BY <2>1, <3>1 DEF SettingsReachTunnel
    <3>3. firewall = BlockedPolicy(allowLan)
          BY <3>2, PolicyFitsStateCases DEF DaemonInv, PolicyOf
    <3> QED BY <3>3, PolicyKinds
  <2> QED BY <2>1, <2>2 DEF DaemonInv, SettingsTakeEffect
<1> QED BY <1>1, DaemonInvHolds, PTL

(***************************************************************************)
(* What the machine promises whoever gives it commands it also keeps while *)
(* the daemon's loop steers it: its firewall policy, its one tunnel, the   *)
(* last request, the news of being offline and the DNS servers.            *)
(***************************************************************************)
THEOREM MachineKeepsPromisesHolds ==
    DaemonSpec => [](/\ KillSwitch /\ OneTunnel /\ PolicyFitsState
                     /\ FollowsRequest /\ OfflineIsKnown /\ DnsFollowsTunnel)
<1>1. DaemonInv => /\ KillSwitch /\ OneTunnel /\ PolicyFitsState
                   /\ FollowsRequest /\ OfflineIsKnown /\ DnsFollowsTunnel
      BY DEF DaemonInv, OfflineInv, DnsInv
<1> QED BY <1>1, DaemonInvHolds, PTL

(***************************************************************************)
(* Nor does the loop open the firewall: in the composition, too, a policy  *)
(* is only lifted into the disconnected state and once every tunnel is     *)
(* gone.                                                                   *)
(***************************************************************************)
THEOREM DaemonOpensOnlyWhenDownHolds == DaemonSpec => OpensOnlyWhenDown
<1>1. DaemonInv /\ [DaemonNext]_allVars =>
         [firewall.kind # "None" /\ firewall'.kind = "None" =>
             /\ state' \in {"Disconnected", "Stopped"}
             /\ \A t \in Tunnels : monitor'[t] = "Idle"]_vars
  <2> SUFFICES ASSUME DaemonInv, [DaemonNext]_allVars, firewall.kind # "None", firewall'.kind = "None"
               PROVE  /\ state' \in {"Disconnected", "Stopped"}
                      /\ \A t \in Tunnels : monitor'[t] = "Idle"
      OBVIOUS
  <2>1. TunnelStep \/ ReceiveParameters
        BY LoopLeavesMachine DEF DaemonInv
  <2>2. Next
        BY <2>1, MachineSteps DEF MachineStep, DaemonInv
  <2> QED BY <2>2, OpensNext DEF DaemonInv
<1> QED BY <1>1, DaemonInvHolds, PTL DEF DaemonSpec, OpensOnlyWhenDown

(***************************************************************************)
(* The daemon with its machine implements Protection: every step of the    *)
(* two threads is one that Protection allows. Whatever clients ask for and *)
(* whatever fails, traffic that is sealed is opened by an order to         *)
(* disconnect or by the daemon's end.                                      *)
(***************************************************************************)
THEOREM DaemonImplementsProtectionHolds == DaemonSpec => ImplementsProtection
<1>1. DaemonInit => Abstract!Init
      BY DEF DaemonInit, Init, Abstract!Init, Phase, Wish
<1>2. DaemonInv /\ DaemonInv' /\ [DaemonNext]_allVars => [Abstract!Next]_(Abstract!protection)
  <2> SUFFICES ASSUME DaemonInv, DaemonInv', [DaemonNext]_allVars
               PROVE  [Abstract!Next]_(Abstract!protection)
      OBVIOUS
  <2>1. CASE TunnelStep \/ ReceiveParameters
    <3>1. Next
          BY <2>1, MachineSteps DEF MachineStep, DaemonInv
    <3>2. NeverGivesUp' /\ StateTypeOK' /\ InputTypeOK'
          BY DEF DaemonInv, FollowsRequest, TypeOK
    <3> QED BY <3>1, <3>2, RefinementStep DEF DaemonInv
  <2>2. CASE ~TunnelStep /\ ~ReceiveParameters
    <3>1. UNCHANGED <<state, firewall, requested>> /\ (commandsOpen' => commandsOpen)
          BY <2>2, LoopLeavesMachine DEF DaemonInv
    <3>2. Phase' = Phase /\ Wish' = Wish
          BY <3>1 DEF Phase, Wish
    <3>3. Wish' \in {"Open", "Protect"}
          BY DEF Wish
    <3>4. (~commandsOpen)' \in {~commandsOpen, TRUE}
      <4>1. CASE commandsOpen'
            BY <3>1, <4>1
      <4>2. CASE ~commandsOpen'
            BY <4>2
      <4> QED BY <4>1, <4>2
    <3> QED BY <3>2, <3>3, <3>4 DEF Abstract!Next, Abstract!Orders
  <2> QED BY <2>1, <2>2
<1> QED BY <1>1, <1>2, DaemonInvHolds, PTL DEF DaemonSpec, ImplementsProtection, Abstract!Spec
=============================================================================
