-------------------------- MODULE WireguardMonitor --------------------------
(***************************************************************************)
(* One WireGuard tunnel, from TunnelMonitor::start to the return of wait,    *)
(* together with the route manager it starts: the configuration, the tunnel  *)
(* device, the routes, the thread that pings the gateway, and wait.  The     *)
(* tunnel may be closed at any time after start.                           *)
(***************************************************************************)
EXTENDS RouteManager

CONSTANT Params     \* the tunnel parameters to check

\* The daemon asks for default routes, a custom tunnel for any network; the peer is a host.
ASSUME ParamsAssumption ==
    \A p \in Params :
       /\ p.mtu \in Nat /\ p.enable_ipv6 \in BOOLEAN /\ p.peer \in {"v4", "v6"}
       /\ p.addresses \subseteq {"v4", "v6"} /\ p.gateways \subseteq {"v4", "v6"}
       /\ p.allowed_ips \subseteq [fam : {"v4", "v6"}, net : {"all", "lan"}]

VARIABLES
    params,
    phase,          \* the next step of start, then "started" or "failed"
    config,         \* Config, once it was made
    device,         \* the tunnel device: "none", "created", "on", "off", "stuck"
    ping,           \* the ping thread
    box,            \* the messages to wait
    wait,           \* the steps of wait
    result,
    sent,           \* the tunnel events sent: {}, {"Up"}, {"Down"} or both
    asked           \* history: close was called

monitorVars == <<params, phase, config, device, ping, box, wait, result, sent, asked>>
vars == <<routeVars, monitorVars>>

-----------------------------------------------------------------------------
(* Config                                                                  *)

NoConfig == [fams |-> {}, allowed |-> {}, gateways |-> {}]

\* IPv6 is used if it is enabled and the MTU, the default one if none is set, allows it.
is_ipv6_enabled(p) == p.mtu >= 1420 /\ p.enable_ipv6

Usable(p, fams) == {f \in fams : f = "v4" \/ is_ipv6_enabled(p)}

\* Config::new; the one peer of from_parameters.
ConfigNew(p) ==
    [fams     |-> Usable(p, p.addresses),
     allowed  |-> {d \in p.allowed_ips : d.fam \in Usable(p, Families)},
     gateways |-> Usable(p, p.gateways)]

ConfigError(p) == ConfigNew(p).allowed = {} \/ ConfigNew(p).fams = {}

\* get_tunnel_routes: a default route is set as two halves.
get_tunnel_routes(c) ==
    UNION {IF d.net = "all" THEN {[fam |-> d.fam, net |-> n] : n \in {"low", "high"}} ELSE {d}
             : d \in c.allowed}

-----------------------------------------------------------------------------
(* start                                                                   *)

Init ==
    /\ RoutesInit
    /\ params \in Params
    /\ required = {} /\ peer = [fam |-> params.peer, net |-> "peer"]
    /\ phase = "config" /\ config = NoConfig /\ device = "none"
    /\ ping = "none" /\ box = <<>> /\ wait = "none" /\ result = "none"
    /\ sent = {} /\ asked = FALSE

\* The device is closed; its routes go with it.
CloseDevice(to) ==
    /\ device' = to
    /\ table' = [d \in Dests |-> IF table[d].dev = Tun THEN Gone ELSE table[d]]

StartUnchanged == UNCHANGED <<params, ping, box, wait, result, sent, asked>>
RoutesUnchanged == UNCHANGED <<platform, hostVars, notices, heard, peer, todo, added, linuxVars,
                               best, macVars, stopSent, histories>>

MakeConfig ==
    /\ phase = "config"
    /\ IF ConfigError(params)
       THEN phase' = "failed" /\ UNCHANGED config
       ELSE phase' = "device" /\ config' = ConfigNew(params)
    /\ UNCHANGED <<device, table, required, manager>> /\ RoutesUnchanged /\ StartUnchanged

\* create_tun: the device is created, gets its addresses and is set up.
CreateTun ==
    /\ phase = "device"
    /\ \/ phase' = "turnOn" /\ device' = "created"
       \/ MayFail("device") /\ phase' = "failed" /\ UNCHANGED device
    /\ UNCHANGED <<config, table, required, manager>> /\ RoutesUnchanged /\ StartUnchanged

\* prepare_log_file, to_userspace_format, wgTurnOnWithFd; then RouteManager::new is called.
TurnOn ==
    /\ phase = "turnOn"
    /\ \/ /\ phase' = "routes" /\ device' = "on" /\ manager' = "new"
          /\ required' = get_tunnel_routes(config)
          /\ UNCHANGED table
       \/ /\ MayFail("device")
          /\ phase' = "failed" /\ CloseDevice("off") /\ UNCHANGED <<required, manager>>
    /\ UNCHANGED config /\ RoutesUnchanged /\ StartUnchanged

\* Mutant: the tunnel is not stopped when its routes cannot be set.
StartEndsLeaking ==
    /\ phase = "routes"
    /\ \/ /\ manager \in {"running", "failed"}
          /\ phase' = "started" /\ ping' = "first" /\ wait' = "recv"
          /\ UNCHANGED <<table, device>>
       \/ manager = "broken" /\ phase' = "failed" /\ UNCHANGED <<ping, wait, table, device>>
    /\ UNCHANGED <<config, required, manager, params, box, result, sent, asked>> /\ RoutesUnchanged

\* RouteManager::new has returned, the manager may have died since: the ping thread is
\* started.  It has failed: WgGoTunnel is dropped.
StartEnds ==
    /\ phase = "routes"
    /\ \/ /\ manager \in {"running", "failed"}
          /\ phase' = "started" /\ ping' = "first" /\ wait' = "recv"
          /\ UNCHANGED <<table, device>>
       \/ /\ manager = "broken"
          /\ phase' = "failed" /\ CloseDevice("off") /\ UNCHANGED <<ping, wait>>
    /\ UNCHANGED <<config, required, manager, params, box, result, sent, asked>> /\ RoutesUnchanged

-----------------------------------------------------------------------------
(* The ping thread                                                         *)

PingUnchanged == UNCHANGED <<routeVars, params, phase, config, device, wait, result, asked>>

\* Only the first message is ever received.
Send(msg) == box' = IF wait = "recv" THEN Append(box, msg) ELSE box

\* The gateway answers only through a tunnel that is on.
FirstPing ==
    /\ ping = "first"
    /\ \/ device = "on" /\ ping' = "answered" /\ UNCHANGED box
       \/ ping' = "lost" /\ Send("PingErr")
    /\ UNCHANGED sent /\ PingUnchanged

SendUp ==
    /\ ping = "answered"
    /\ ping' = "monitor" /\ sent' = sent \cup {"Up"}
    /\ UNCHANGED box /\ PingUnchanged

\* monitor_ping, also after a lost first ping: it ends with the first ping that fails.
MonitorPing ==
    /\ ping \in {"monitor", "lost"}
    /\ ping' = "ended" /\ Send("PingErr")
    /\ UNCHANGED sent /\ PingUnchanged

-----------------------------------------------------------------------------
(* close and wait                                                          *)

\* CloseHandle::close; nobody receives after wait has.
Close ==
    /\ phase = "started" /\ ~asked
    /\ asked' = TRUE /\ Send("Stop")
    /\ UNCHANGED <<routeVars, params, phase, config, device, ping, wait, result, sent>>

WaitUnchanged == UNCHANGED <<params, phase, config, ping, asked, required, manager, platform,
                             hostVars, notices, heard, peer, todo, added, linuxVars, best, macVars,
                             histories>>

\* wait: the first message decides the result.
WaitReceives ==
    /\ wait = "recv" /\ box # <<>>
    /\ result' = IF Head(box) = "Stop" THEN "Ok" ELSE "PingTimeout"
    /\ box' = <<>> /\ wait' = "stopRoutes"
    /\ UNCHANGED <<device, table, sent, stopSent>> /\ WaitUnchanged

\* RouteManager::stop sends its channel and waits for it.
WaitStopsRoutes ==
    /\ wait = "stopRoutes"
    /\ stopSent' = TRUE /\ wait' = "stopping"
    /\ UNCHANGED <<device, table, result, box, sent>> /\ WaitUnchanged

\* Mutant: stop only returns once the manager has answered.
WaitRoutesAnswered ==
    /\ wait = "stopping" /\ manager = "done"
    /\ wait' = "stopTunnel"
    /\ UNCHANGED <<device, table, result, box, sent, stopSent>> /\ WaitUnchanged

WaitRoutesStopped ==
    /\ wait = "stopping" /\ StopReturns
    /\ wait' = "stopTunnel"
    /\ UNCHANGED <<device, table, result, box, sent, stopSent>> /\ WaitUnchanged

\* tunnel.stop: wgTurnOff may fail; the device is closed all the same.
WaitStopsTunnel ==
    /\ wait = "stopTunnel" /\ wait' = "down"
    /\ \/ CloseDevice("off")
       \/ MayFail("device") /\ CloseDevice("stuck")
    /\ UNCHANGED <<result, box, sent, stopSent>> /\ WaitUnchanged

WaitSendsDown ==
    /\ wait = "down" /\ wait' = "returned" /\ sent' = sent \cup {"Down"}
    /\ UNCHANGED <<device, table, result, box, stopSent>> /\ WaitUnchanged

-----------------------------------------------------------------------------
StartStep == MakeConfig \/ CreateTun \/ TurnOn \/ StartEnds
WaitStep  == WaitReceives \/ WaitStopsRoutes \/ WaitRoutesStopped \/ WaitStopsTunnel \/ WaitSendsDown

Next ==
    \/ HostStep /\ UNCHANGED monitorVars
    \/ ManagerStep /\ UNCHANGED monitorVars
    \/ StartStep
    \/ FirstPing \/ SendUp \/ MonitorPing
    \/ Close
    \/ WaitStep

\* Commands end, threads and futures run; the host and the network do as they like.
Fairness ==
    /\ WF_vars(ManagerStep /\ UNCHANGED monitorVars)
    /\ WF_vars(StartStep)
    /\ WF_vars(WaitStep)

Spec == Init /\ [][Next]_vars /\ Fairness

-----------------------------------------------------------------------------
\* Every variable of the monitor and of its route manager has its type.
WireguardTypeOK ==
    /\ RoutesTypeOK /\ params \in Params
    /\ config \in [fams : SUBSET Families, allowed : SUBSET Dests, gateways : SUBSET Families]
    /\ box \in Seq({"Stop", "PingErr"}) /\ asked \in BOOLEAN
    /\ phase \in {"config", "device", "turnOn", "routes", "started", "failed"}
    /\ device \in {"none", "created", "on", "off", "stuck"}
    /\ ping \in {"none", "first", "answered", "monitor", "lost", "ended"}
    /\ wait \in {"none", "recv", "stopRoutes", "stopping", "stopTunnel", "down", "returned"}
    /\ result \in {"none", "Ok", "PingTimeout"} /\ sent \subseteq {"Up", "Down"}

\* Linux: once every queued change is made, the peer is routed through the best default node
\* the manager knows of, unless the host took the route away with its device.  (Not so after
\* an addition was left out, because one like it was queued before others, or called off by
\* an older message about the same route.)
PeerFollowsBest ==
    /\ platform = "linux" /\ manager = "running" /\ ~dropped
    /\ needed = <<>> /\ pending = <<>> /\ best[peer.fam] # NoNode
    => table[peer] \in {best[peer.fam], Gone}

\* Linux: no change of the host's default routes is missed: a default route of the host
\* is known to a running manager or its message is still to be read.
NoDefaultIsMissed ==
    platform = "linux" /\ manager = "running"
    => \A r \in hostDefaults :
          \/ \E k \in known : k.fam = r.fam /\ k.node.dev = r.dev
          \/ DefaultNotice("Add", r) \in ToSet(notices)

\* The tunnel's own packets are never routed into the tunnel: the default route that the
\* peer follows is never the tunnel's, however often the host changes.
PeerNeverInTunnel == table[peer].dev # Tun

\* The tunnel's own packets take the way the host's would take without the tunnel.
PeerFollowsHost == PeerFollowsBest /\ NoDefaultIsMissed /\ PeerNeverInTunnel

\* A start that fails leaves no device and no route, except the peer's where the manager
\* was complete and could not be run, or macOS had no change listener.
FailedStartLeavesNothing ==
    phase = "failed" =>
        /\ device \in {"none", "off"}
        /\ \A d \in Dests : table[d] \notin Nodes \/ (d = peer /\ todo = {} /\ peer \in DOMAIN added)

\* Down is only sent when the device is closed and the route manager is no more; on macOS
\* a manager that was stopped has by then removed the peer's route too, if the peer had a
\* gateway from the start and no removal failed.
DownMeansGone ==
    "Down" \in sent =>
        /\ device \in {"off", "stuck"} /\ manager \in {"done", "failed"}
        /\ \A d \in Dests : table[d].dev # Tun
        /\ (platform = "macos" /\ manager = "done" /\ best[peer.fam] # NoNode /\ ~removalFailed)
           => table[peer] \in {NoNode, Gone}

\* wait returns Ok only if the tunnel was closed, and an error only if a ping was lost.
ResultHasCause ==
    /\ result = "Ok" => asked
    /\ result = "PingTimeout" => ping \in {"lost", "ended"}

\* However start or wait ends, the device and the routes are gone by then, and what is
\* returned is what happened.
NothingIsLeftBehind == WireguardTypeOK /\ FailedStartLeavesNothing /\ DownMeansGone /\ ResultHasCause

\* A tunnel that is closed, or whose pings are lost, ends: wait returns, whatever its
\* route manager is doing or died of.
ClosedTunnelEnds == (asked \/ ping = "lost") ~> (wait = "returned")
=============================================================================
