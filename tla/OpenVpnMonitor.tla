--------------------------- MODULE OpenVpnMonitor ---------------------------
(***************************************************************************)
(* One OpenVPN tunnel, from TunnelMonitor::start to the return of wait: the *)
(* credential files, the proxy, the event server and OpenVPN's process are  *)
(* started one after the other; then a thread waits for each of them, and   *)
(* the end of one closes the others.  The tunnel may be closed at any time. *)
(*                                                                         *)
(* OpenVPN, its plugin and Shadowsocks are processes of their own: they    *)
(* exit when they like.                                                    *)
(***************************************************************************)
EXTENDS Naturals, Sequences

CONSTANTS
    Proxies,    \* the proxy settings to check
    Tries,      \* get_bound_port: how often the log is read
    Faults      \* what may fail besides the steps of start: "wait", "kill", "server"

ASSUME ProxiesAssumption == Proxies \subseteq {"None", "Local", "Remote", "RemoteAuth", "Shadowsocks"}
ASSUME TriesAssumption == Tries \in Nat \ {0}
ASSUME FaultsAssumption == Faults \subseteq {"wait", "kill", "server"}

VARIABLES
    proxy,          \* the proxy settings of this tunnel
    phase,          \* the next step of start, then "started" or "failed"
    files,          \* the temporary files with credentials on disk
    cmd,            \* the arguments OpenVPN is started with
    ss,             \* the Shadowsocks process
    tries,
    ssClosed,       \* ShadowsocksProxyMonitor.closed, or the message of the no-op monitor
    server,         \* the event dispatcher
    child, status,  \* the OpenVPN process and its exit status
    link, plugin,   \* how far OpenVPN got, and the event its plugin is delivering
    delivered,      \* the last event passed to on_event
    closed,         \* OpenVpnMonitor.closed
    closer,         \* the one call of close that got through
    childThread, dispatcherThread, tunnelThread, proxyThread,
    inner, outer,   \* the channels of inner_wait_tunnel and of wait
    result,         \* of wait
    asked,          \* history: the tunnel state machine has called close
    broke           \* history: what ended by itself or failed

startVars  == <<proxy, phase, cmd, tries>>
threadVars == <<childThread, dispatcherThread, tunnelThread, proxyThread, inner, outer, result>>
childVars  == <<child, status, link, plugin, delivered>>
closeVars  == <<closed, closer>>
vars == <<proxy, phase, files, cmd, ss, tries, ssClosed, server, childVars, closeVars,
          threadVars, asked, broke>>

-----------------------------------------------------------------------------
(* start                                                                   *)

NoCommand == [files |-> {}, socks |-> "None", route |-> "None"]

Init ==
    /\ proxy \in Proxies
    /\ phase = "prepare" /\ files = {} /\ cmd = NoCommand
    /\ ss = "none" /\ tries = 0 /\ ssClosed = FALSE
    /\ server = "none"
    /\ child = "none" /\ status = "none" /\ link = "new" /\ plugin = "idle" /\ delivered = "None"
    /\ closed = FALSE /\ closer = "none"
    /\ childThread = "none" /\ dispatcherThread = "none"
    /\ tunnelThread = "none" /\ proxyThread = "none"
    /\ inner = <<>> /\ outer = <<>> /\ result = "none"
    /\ asked = FALSE /\ broke = {}

\* An error returned from start: the temporary files are dropped, and nothing else.
StartFails ==
    /\ phase' = "failed" /\ files' = {}
    /\ UNCHANGED <<proxy, cmd, tries>>

NotStartedYet == UNCHANGED <<childVars, closeVars, threadVars, asked, broke>>

\* IPv6 may be unavailable, the log may not be rotated.
Prepare ==
    /\ phase = "prepare"
    /\ \/ phase' = "credentials" /\ UNCHANGED <<proxy, cmd, tries, files>>
       \/ StartFails
    /\ UNCHANGED <<ss, ssClosed, server>> /\ NotStartedYet

CreateCredentialsFile ==
    /\ phase = "credentials"
    /\ \/ phase' = "proxyAuth" /\ files' = files \cup {"userPass"} /\ UNCHANGED <<proxy, cmd, tries>>
       \/ StartFails
    /\ UNCHANGED <<ss, ssClosed, server>> /\ NotStartedYet

CreateProxyAuthFile ==
    /\ phase = "proxyAuth"
    /\ \/ /\ phase' = "proxy"
          /\ files' = files \cup (IF proxy = "RemoteAuth" THEN {"proxyAuth"} ELSE {})
          /\ UNCHANGED <<proxy, cmd, tries>>
       \/ proxy = "RemoteAuth" /\ StartFails
    /\ UNCHANGED <<ss, ssClosed, server>> /\ NotStartedYet

\* Shadowsocks is started by us, the other proxies are not; its log may fail to be
\* rotated before, or to be opened after the process was started.
StartProxy ==
    /\ phase = "proxy"
    /\ \/ /\ proxy # "Shadowsocks"
          /\ phase' = "command" /\ UNCHANGED <<proxy, cmd, tries, files, ss>>
       \/ /\ proxy = "Shadowsocks"
          /\ \/ phase' = "port" /\ ss' = "running" /\ UNCHANGED <<proxy, cmd, tries, files>>
             \/ StartFails /\ ss' \in {"none", "running"}
    /\ UNCHANGED <<ssClosed, server>> /\ NotStartedYet

\* One round of get_bound_port: the port is in the log, or the process has exited, or it
\* is time to look again.
GetBoundPort ==
    /\ phase = "port"
    /\ \/ phase' = "command" /\ UNCHANGED <<proxy, cmd, tries, files, ss>>
       \/ /\ ss = "running" /\ tries + 1 < Tries
          /\ tries' = tries + 1 /\ UNCHANGED <<proxy, phase, cmd, files, ss>>
       \/ /\ ss = "exited" \/ tries + 1 = Tries
          /\ StartFails
          /\ ss' \in {"exited"} \cup (IF "kill" \in Faults THEN {ss} ELSE {})
    /\ UNCHANGED <<ssClosed, server>> /\ NotStartedYet

\* proxy_arguments: the SOCKS proxy to use, and the peer that must be reached outside
\* the tunnel.
proxy_arguments ==
    CASE proxy = "None"        -> [socks |-> "None", route |-> "None"]
      [] proxy = "Local"       -> [socks |-> "localhost:port", route |-> "local.peer"]
      [] proxy \in {"Remote", "RemoteAuth"}
                               -> [socks |-> "remote", route |-> "remote"]
      [] proxy = "Shadowsocks" -> [socks |-> "localhost:bound", route |-> "ss.peer"]

\* Mutant: the files are not kept by the monitor, so they are dropped at the end of start.
create_openvpn_cmd_dropping ==
    /\ phase = "command"
    /\ cmd' = [files |-> files, socks |-> proxy_arguments.socks, route |-> proxy_arguments.route]
    /\ phase' = "server" /\ files' = {} /\ UNCHANGED <<proxy, tries>>
    /\ UNCHANGED <<ss, ssClosed, server>> /\ NotStartedYet

\* The binary, the `ip' program or the plugin may be missing, Windows may have no TAP adapter.
create_openvpn_cmd ==
    /\ phase = "command"
    /\ \/ /\ cmd' = [files |-> files, socks |-> proxy_arguments.socks,
                     route |-> proxy_arguments.route]
          /\ phase' = "server" /\ UNCHANGED <<proxy, tries, files>>
       \/ StartFails
    /\ UNCHANGED <<ss, ssClosed, server>> /\ NotStartedYet

StartEventServer ==
    /\ phase = "server"
    /\ \/ phase' = "spawn" /\ server' = "running" /\ UNCHANGED <<proxy, cmd, tries, files>>
       \/ StartFails /\ server' = "none"
    /\ UNCHANGED <<ss, ssClosed>> /\ NotStartedYet

\* The last step of start; the tunnel state machine goes on to wait at once.
SpawnChild ==
    /\ phase = "spawn"
    /\ \/ /\ phase' = "started" /\ child' = "running" /\ server' = server
          /\ childThread' = "wait" /\ dispatcherThread' = "wait"
          /\ proxyThread' = IF proxy = "None" THEN "none" ELSE "wait"
          /\ tunnelThread' = "wait"
          /\ UNCHANGED <<proxy, cmd, tries, files>>
       \/ StartFails /\ server' = "stopped"
          /\ UNCHANGED <<child, childThread, dispatcherThread, proxyThread, tunnelThread>>
    /\ UNCHANGED <<ss, ssClosed, status, link, plugin, delivered, closeVars, inner, outer, result,
                   asked, broke>>

-----------------------------------------------------------------------------
(* OpenVPN and its plugin: an event is one call over IPC that the plugin    *)
(* waits for, so OpenVPN does nothing else meanwhile.                       *)

Alive == child \in {"running", "stopping"}

ChildExits ==
    /\ Alive
    /\ child' = "exited" /\ status' \in {"success", "failure"} /\ plugin' = "idle"
    /\ broke' = IF closed THEN broke ELSE broke \cup {"child"}
    /\ UNCHANGED <<startVars, files, ss, ssClosed, server, link, delivered, closeVars, threadVars,
                   asked>>

Events == {"AuthFailed", "RouteUp", "RoutePredown"}

Emit(e) ==
    /\ Alive /\ plugin = "idle"
    /\ link = (IF e = "RoutePredown" THEN "up" ELSE "new")
    /\ plugin' = e
    /\ UNCHANGED <<startVars, files, ss, ssClosed, server, child, status, link, delivered,
                   closeVars, threadVars, asked, broke>>

from_openvpn_event(e) ==
    CASE e = "AuthFailed" -> "AuthFailed" [] e = "RouteUp" -> "Up" [] e = "RoutePredown" -> "Down"

LinkAfter(e) == IF e = "AuthFailed" THEN "new" ELSE IF e = "RouteUp" THEN "up" ELSE "down"

\* on_openvpn_event: the credentials have been read once the tunnel is up.
OnOpenVpnEvent ==
    /\ plugin # "idle" /\ server = "running"
    /\ files' = IF plugin = "RouteUp" THEN {} ELSE files
    /\ delivered' = from_openvpn_event(plugin)
    /\ link' = LinkAfter(plugin) /\ plugin' = "idle"
    /\ UNCHANGED <<startVars, ss, ssClosed, server, child, status, closeVars, threadVars, asked,
                   broke>>

\* The server is gone: the plugin reports a failure to OpenVPN, which goes on.
EventFails ==
    /\ plugin # "idle" /\ server # "running"
    /\ link' = LinkAfter(plugin) /\ plugin' = "idle"
    /\ UNCHANGED <<startVars, files, ss, ssClosed, server, child, status, delivered, closeVars,
                   threadVars, asked, broke>>

SsExits ==
    /\ ss = "running" /\ phase # "failed"
    /\ ss' = "exited" /\ broke' = IF ssClosed THEN broke ELSE broke \cup {"proxy"}
    /\ UNCHANGED <<startVars, files, ssClosed, server, childVars, closeVars, threadVars, asked>>

ServerDies ==
    /\ "server" \in Faults /\ server = "running" /\ phase = "started"
    /\ server' = "stopped" /\ broke' = broke \cup {"server"}
    /\ UNCHANGED <<startVars, files, ss, ssClosed, childVars, closeVars, threadVars, asked>>

-----------------------------------------------------------------------------
(* close and nice_kill                                                     *)

\* OpenVpnCloseHandle::close: the first call closes OpenVPN's standard input.
Close ==
    IF closed THEN UNCHANGED <<closed, closer, child>>
    ELSE /\ closed' = TRUE /\ closer' = "waiting"
         /\ child' = IF child = "running" THEN "stopping" ELSE child

TunnelClose ==
    /\ phase = "started" /\ ~asked
    /\ asked' = TRUE /\ Close
    /\ UNCHANGED <<startVars, files, ss, ssClosed, server, status, link, plugin, delivered,
                   threadVars, broke>>

StoppedInTime ==
    /\ closer = "waiting" /\ child = "exited"
    /\ closer' = "done"
    /\ UNCHANGED <<startVars, files, ss, ssClosed, server, childVars, closed, threadVars, asked,
                   broke>>

\* The timeout of nice_kill: the process is killed, if that works.
Kill ==
    /\ closer = "waiting" /\ child = "stopping"
    /\ \/ closer' = "done" /\ child' = "exited" /\ status' = "failure" /\ plugin' = "idle"
          /\ broke' = broke
       \/ "kill" \in Faults
          /\ closer' = "done" /\ broke' = broke \cup {"kill"} /\ UNCHANGED <<child, status, plugin>>
    /\ UNCHANGED <<startVars, files, ss, ssClosed, server, link, delivered, closed, threadVars,
                   asked>>

-----------------------------------------------------------------------------
(* wait: inner_wait_tunnel waits for OpenVPN and for the event server, wait *)
(* for the tunnel and for the proxy.                                        *)

ChildWaits ==
    /\ childThread = "wait" /\ child = "exited"
    /\ inner' = Append(inner, [who |-> "Child", status |-> status, closed |-> closed])
    /\ childThread' = "sent"
    /\ UNCHANGED <<startVars, files, ss, ssClosed, server, childVars, closeVars,
                   dispatcherThread, tunnelThread, proxyThread, outer, result, asked, broke>>

ChildWaitFails ==
    /\ "wait" \in Faults /\ childThread = "wait"
    /\ inner' = Append(inner, [who |-> "Child", status |-> "error", closed |-> closed])
    /\ childThread' = "sent" /\ broke' = broke \cup {"wait"}
    /\ UNCHANGED <<startVars, files, ss, ssClosed, server, childVars, closeVars,
                   dispatcherThread, tunnelThread, proxyThread, outer, result, asked>>

\* Mutant: the event server is not closed when OpenVPN has exited.
ChildLeavesDispatcher ==
    /\ childThread = "sent"
    /\ childThread' = "done"
    /\ UNCHANGED <<startVars, files, ss, ssClosed, server, childVars, closeVars,
                   dispatcherThread, tunnelThread, proxyThread, inner, outer, result, asked, broke>>

ChildClosesDispatcher ==
    /\ childThread = "sent"
    /\ server' = "stopped" /\ childThread' = "done"
    /\ UNCHANGED <<startVars, files, ss, ssClosed, childVars, closeVars,
                   dispatcherThread, tunnelThread, proxyThread, inner, outer, result, asked, broke>>

DispatcherWaits ==
    /\ dispatcherThread = "wait" /\ server = "stopped"
    /\ inner' = Append(inner, [who |-> "EventDispatcher"])
    /\ dispatcherThread' = "sent"
    /\ UNCHANGED <<startVars, files, ss, ssClosed, server, childVars, closeVars,
                   childThread, tunnelThread, proxyThread, outer, result, asked, broke>>

DispatcherClosesChild ==
    /\ dispatcherThread = "sent"
    /\ Close /\ dispatcherThread' = "done"
    /\ UNCHANGED <<startVars, files, ss, ssClosed, server, status, link, plugin, delivered,
                   childThread, tunnelThread, proxyThread, inner, outer, result, asked, broke>>

\* wait_tunnel: what the first end means; postmortem looks for TAP problems on Windows.
WaitResults(first) ==
    CASE first.who = "EventDispatcher" -> {"EventDispatcherExited"}
      [] first.who = "Child" /\ first.status = "error" -> {"ChildProcessError"}
      [] first.who = "Child" /\ (first.status = "success" \/ (first.status = "failure" /\ first.closed))
             -> {"Ok"}
      [] OTHER -> {"ChildProcessDied", "TapProblem"}

\* Both have ended.  Without a proxy this is the end of wait, and the monitor is dropped.
WaitTunnel ==
    /\ tunnelThread = "wait" /\ Len(inner) = 2
    /\ \E r \in WaitResults(inner[1]) :
        IF proxy = "None"
        THEN result' = r /\ tunnelThread' = "done" /\ files' = {} /\ outer' = outer
        ELSE /\ outer' = Append(outer, [who |-> "Tunnel", result |-> r])
             /\ tunnelThread' = "sent" /\ UNCHANGED <<result, files>>
    /\ UNCHANGED <<startVars, ss, ssClosed, server, childVars, closeVars,
                   childThread, dispatcherThread, proxyThread, inner, asked, broke>>

\* The tunnel's thread closes the proxy, and drops the monitor.
TunnelClosesProxy ==
    /\ tunnelThread = "sent"
    /\ ssClosed' = TRUE
    /\ \/ ss' = (IF ss = "running" /\ ~ssClosed THEN "exited" ELSE ss) /\ broke' = broke
       \/ "kill" \in Faults /\ ss = "running" /\ ss' = ss /\ broke' = broke \cup {"kill"}
    /\ files' = {} /\ tunnelThread' = "done"
    /\ UNCHANGED <<startVars, server, childVars, closeVars,
                   childThread, dispatcherThread, proxyThread, inner, outer, result, asked>>

\* ProxyMonitor::wait: of the Shadowsocks process, or for the message of the close handle.
ProxyWaits ==
    /\ proxyThread = "wait"
    /\ IF proxy = "Shadowsocks" THEN ss = "exited" ELSE ssClosed
    /\ outer' = Append(outer, [who |-> "Proxy",
                               result |-> IF ssClosed THEN "ProperShutdown" ELSE "UnexpectedExit"])
    /\ proxyThread' = "sent"
    /\ UNCHANGED <<startVars, files, ss, ssClosed, server, childVars, closeVars,
                   childThread, dispatcherThread, tunnelThread, inner, result, asked, broke>>

ProxyClosesTunnel ==
    /\ proxyThread = "sent"
    /\ Close /\ proxyThread' = "done"
    /\ UNCHANGED <<startVars, files, ss, ssClosed, server, status, link, plugin, delivered,
                   childThread, dispatcherThread, tunnelThread, inner, outer, result, asked, broke>>

\* Mutant: wait returns as soon as one of the two has stopped.
WaitForOne ==
    /\ Len(outer) = 1 /\ result = "none"
    /\ result' = IF outer[1].who = "Tunnel" THEN outer[1].result ELSE "ProxyExited"
    /\ UNCHANGED <<startVars, files, ss, ssClosed, server, childVars, closeVars, childThread,
                   dispatcherThread, tunnelThread, proxyThread, inner, outer, asked, broke>>

\* wait: the first end is the result, once both have stopped.
Wait ==
    /\ Len(outer) = 2 /\ result = "none"
    /\ result' = IF outer[1].who = "Tunnel" THEN outer[1].result ELSE "ProxyExited"
    /\ UNCHANGED <<startVars, files, ss, ssClosed, server, childVars, closeVars, childThread,
                   dispatcherThread, tunnelThread, proxyThread, inner, outer, asked, broke>>

Start == \/ Prepare \/ CreateCredentialsFile \/ CreateProxyAuthFile \/ StartProxy \/ GetBoundPort
         \/ create_openvpn_cmd \/ StartEventServer \/ SpawnChild

Threads == \/ ChildWaits \/ ChildWaitFails \/ ChildClosesDispatcher \/ DispatcherWaits
           \/ DispatcherClosesChild \/ WaitTunnel \/ TunnelClosesProxy \/ ProxyWaits \/ ProxyClosesTunnel \/ Wait

Over == (phase = "failed" \/ result # "none") /\ UNCHANGED vars

Next ==
    \/ Start \/ Threads \/ StoppedInTime \/ Kill \/ TunnelClose
    \/ ChildExits \/ (\E e \in Events : Emit(e)) \/ OnOpenVpnEvent \/ EventFails
    \/ SsExits \/ ServerDies \/ Over

\* Threads run; the timeout of nice_kill expires.  Nothing is assumed of the processes.
Spec ==
    /\ Init /\ [][Next]_vars
    /\ WF_vars(ChildWaits) /\ WF_vars(ChildClosesDispatcher)
    /\ WF_vars(DispatcherWaits) /\ WF_vars(DispatcherClosesChild)
    /\ WF_vars(WaitTunnel) /\ WF_vars(TunnelClosesProxy)
    /\ WF_vars(ProxyWaits) /\ WF_vars(ProxyClosesTunnel) /\ WF_vars(Wait)
    /\ WF_vars(StoppedInTime \/ Kill)

-----------------------------------------------------------------------------
Results == {"none", "Ok", "EventDispatcherExited", "ChildProcessError", "ChildProcessDied",
            "TapProblem", "ProxyExited"}
Stages == {"none", "wait", "sent", "done"}
Credentials == {"userPass", "proxyAuth"}

\* What OpenVPN is started with, in the end.
Commands == [files: SUBSET Credentials,
             socks: {"None", "localhost:port", "remote", "localhost:bound"},
             route: {"None", "local.peer", "remote", "ss.peer"}]

\* What the threads send.
InnerEnds == [who: {"Child"}, status: {"success", "failure", "error"}, closed: BOOLEAN]
                \cup [who: {"EventDispatcher"}]
OuterEnds == [who: {"Tunnel"}, result: Results] \cup [who: {"Proxy"}, result: {"ProperShutdown", "UnexpectedExit"}]

\* Every variable has its type, and no channel gets more than its threads send.
MonitorTypeOK ==
    /\ proxy \in Proxies
    /\ phase \in {"prepare", "credentials", "proxyAuth", "proxy", "port", "command", "server",
                  "spawn", "started", "failed"}
    /\ files \subseteq Credentials /\ cmd \in Commands
    /\ ss \in {"none", "running", "exited"} /\ tries \in 0..(Tries - 1) /\ ssClosed \in BOOLEAN
    /\ server \in {"none", "running", "stopped"}
    /\ child \in {"none", "running", "stopping", "exited"}
    /\ status \in {"none", "success", "failure"}
    /\ link \in {"new", "up", "down"} /\ plugin \in Events \cup {"idle"}
    /\ delivered \in {"None", "AuthFailed", "Up", "Down"}
    /\ closed \in BOOLEAN /\ closer \in {"none", "waiting", "done"}
    /\ childThread \in Stages /\ dispatcherThread \in Stages
    /\ tunnelThread \in Stages /\ proxyThread \in Stages
    /\ inner \in Seq(InnerEnds) /\ Len(inner) <= 2 /\ outer \in Seq(OuterEnds) /\ Len(outer) <= 2
    /\ result \in Results /\ asked \in BOOLEAN
    /\ broke \subseteq {"child", "proxy", "server", "kill", "wait"}

\* The credentials OpenVPN was told to read are there until it has reported that the tunnel
\* is up (unless waiting for it failed), and neither longer than that nor after the monitor is gone.
CredentialsLiveAsLongAsNeeded ==
    /\ Alive /\ link = "new" /\ "wait" \notin broke => cmd.files \subseteq files
    /\ delivered \in {"Up", "Down"} \/ tunnelThread = "done" \/ phase = "failed" => files = {}

\* wait returns success only if the tunnel state machine closed the tunnel or OpenVPN
\* exited successfully: closing OpenVPN because something else broke is no success.
OkMeansAsked == result = "Ok" => asked \/ status = "success"

\* An error of wait names something that really ended by itself: closing the tunnel is
\* never mistaken for a failure, also while the threads close each other.
ErrorsHaveCauses ==
    /\ result \in {"ChildProcessDied", "TapProblem"} => "child" \in broke
    /\ result = "ProxyExited" => "proxy" \in broke
    /\ result = "EventDispatcherExited" => "server" \in broke
    /\ result = "ChildProcessError" => "wait" \in broke

\* When wait has returned, neither OpenVPN nor the event server nor the proxy we started is
\* running, unless waiting for OpenVPN itself failed.
NothingLeftRunning ==
    result # "none" /\ "wait" \notin broke =>
        child = "exited" /\ server = "stopped" /\ ss # "running"

\* What wait returns is what happened, whichever thread was first, and it returns when
\* everything has ended.
WaitTellsTheTruth == MonitorTypeOK /\ OkMeansAsked /\ ErrorsHaveCauses /\ NothingLeftRunning

\* Once anything closes the tunnel, wait returns, unless a kill or a wait failed.
CloseEnds == closed ~> (result # "none" \/ broke \cap {"kill", "wait"} # {})

\* Once anything of the tunnel has ended, all of it ends.
OneEndEndsAll ==
    (phase = "started" /\ (child = "exited" \/ ss = "exited" \/ server = "stopped"))
        ~> (result # "none" \/ broke \cap {"kill", "wait"} # {})

\* The parts of a tunnel end together, whichever is closed or ends first.
AllEndsTogether == CloseEnds /\ OneEndEndsAll
=============================================================================
