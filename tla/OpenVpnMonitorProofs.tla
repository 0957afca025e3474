------------------------ MODULE OpenVpnMonitorProofs ------------------------
(***************************************************************************)
(* The properties of one OpenVPN tunnel, for every proxy, every number of    *)
(* looks at the Shadowsocks log and every set of faults.                     *)
(*                                                                         *)
(* What wait returns is decided by the thread that sent first, so the        *)
(* invariant says what the first message of either channel is a proof of,    *)
(* and why nothing that happens later takes that back.                       *)
(***************************************************************************)
EXTENDS OpenVpnMonitor, TLAPS

Sent(stage) == stage \in {"sent", "done"}

\* How many of two threads have sent their message.
Ends(a, b) == (IF Sent(a) THEN 1 ELSE 0) + (IF Sent(b) THEN 1 ELSE 0)

\* Until start has returned nothing but what it started is there.
NothingYet ==
    /\ child = "none" /\ link = "new" /\ plugin = "idle" /\ delivered = "None"
    /\ closed = FALSE /\ closer = "none" /\ asked = FALSE /\ ssClosed = FALSE
    /\ childThread = "none" /\ dispatcherThread = "none"
    /\ tunnelThread = "none" /\ proxyThread = "none"
    /\ inner = <<>> /\ outer = <<>> /\ result = "none"

\* The steps of start follow one another.
StartInv ==
    /\ phase # "started" => NothingYet
    /\ phase = "spawn" => server = "running"
    /\ phase \in {"server", "spawn"} => files = cmd.files
    /\ phase = "failed" => files = {}
    /\ proxy # "Shadowsocks" => ss = "none" /\ phase # "port"
    /\ proxy = "Shadowsocks" /\ phase \in {"port", "command", "server", "spawn", "started"} => ss # "none"
    /\ phase = "started" =>
           /\ child # "none" /\ server # "none"
           /\ childThread # "none" /\ dispatcherThread # "none" /\ tunnelThread # "none"
           /\ proxyThread = "none" <=> proxy = "None"

\* The files are dropped when OpenVPN no longer needs them.
FilesInv ==
    /\ Alive /\ link = "new" /\ "wait" \notin broke => files = cmd.files
    /\ link # "new" /\ server = "running" => files = {}
    /\ delivered \in {"Up", "Down"} => files = {}
    /\ tunnelThread = "done" => files = {}
    /\ plugin \in {"AuthFailed", "RouteUp"} => link = "new"
    /\ plugin = "RoutePredown" => link = "up"

\* Who may have closed the tunnel, and what may have ended which part of it.
CauseInv ==
    /\ closed => asked \/ dispatcherThread = "done" \/ proxyThread = "done"
    /\ closer = "waiting" => closed
    /\ child = "stopping" => closed
    /\ child = "exited" => closed \/ "child" \in broke
    /\ child = "exited" <=> status # "none"
    /\ phase = "started" /\ server = "stopped" => childThread = "done" \/ "server" \in broke
    /\ ss = "exited" /\ phase # "failed" => ssClosed \/ "proxy" \in broke
    /\ ssClosed => tunnelThread = "done"

\* A thread sends when what it waits for has ended, once.
SentInv ==
    /\ Len(inner) = Ends(childThread, dispatcherThread)
    /\ Sent(childThread) => child = "exited" \/ "wait" \in broke
    /\ Sent(dispatcherThread) => server = "stopped"
    /\ Sent(tunnelThread) => Len(inner) = 2
    /\ proxy = "None" => outer = <<>> /\ (result # "none" <=> tunnelThread = "done")
                         /\ tunnelThread # "sent"
    /\ proxy # "None" => Len(outer) = Ends(tunnelThread, proxyThread)
                         /\ (result # "none" => Len(outer) = 2)
    /\ Sent(proxyThread) /\ proxy = "Shadowsocks" => ss = "exited"

\* The proxy was the first to send.
ProxyFirst == Len(outer) >= 1 /\ outer[1].who = "Proxy"

\* What the first message of inner_wait_tunnel proves.
InnerTruth ==
    Len(inner) >= 1 =>
        /\ inner[1].who = "EventDispatcher" => "server" \in broke /\ Sent(dispatcherThread)
        /\ inner[1].who = "Child" =>
              /\ Sent(childThread)
              /\ inner[1].status = "error" => "wait" \in broke
              /\ inner[1].status # "error" => child = "exited" /\ status = inner[1].status
              /\ inner[1].closed => asked \/ ProxyFirst
              /\ ~inner[1].closed /\ inner[1].status # "error" => "child" \in broke

\* A result of wait_tunnel says what happened.
Truthful(r) ==
    /\ r = "Ok" => asked \/ status = "success"
    /\ r \in {"ChildProcessDied", "TapProblem"} => "child" \in broke
    /\ r = "EventDispatcherExited" => "server" \in broke
    /\ r = "ChildProcessError" => "wait" \in broke
    /\ r \notin {"none", "ProxyExited"}

\* What the first message of wait proves.
OuterTruth ==
    Len(outer) >= 1 =>
        /\ outer[1].who = "Proxy" => "proxy" \in broke
        /\ outer[1].who = "Tunnel" => Sent(tunnelThread) /\ Truthful(outer[1].result)
        /\ outer[1].who = "Proxy" => Sent(proxyThread)

\* The result says what happened.
ResultTruth == result # "none" => Truthful(result) \/ (result = "ProxyExited" /\ "proxy" \in broke)

MonitorInv ==
    /\ MonitorTypeOK /\ StartInv /\ FilesInv /\ CauseInv /\ SentInv
    /\ InnerTruth /\ OuterTruth /\ ResultTruth

-----------------------------------------------------------------------------
\* Appending to a channel: the first message stays the first.
LEMMA AppendFacts ==
    ASSUME NEW S, NEW s \in Seq(S), NEW x \in S
    PROVE  /\ Append(s, x) \in Seq(S) /\ Len(Append(s, x)) = Len(s) + 1 /\ Len(s) \in Nat
           /\ Append(s, x)[1] = IF Len(s) = 0 THEN x ELSE s[1]
  OBVIOUS

\* The first message of a channel that is not empty is one of the messages sent there.
LEMMA FirstMessage ==
    ASSUME NEW S, NEW s \in Seq(S), Len(s) >= 1
    PROVE  s[1] \in S
  OBVIOUS

\* Two messages are there only when both threads have sent theirs.
LEMMA BothSent ==
    ASSUME NEW a, NEW b
    PROVE  /\ Ends(a, b) \in 0..2
           /\ Ends(a, b) = 2 => Sent(a) /\ Sent(b)
           /\ Ends(a, b) = 0 => ~Sent(a) /\ ~Sent(b)
<1>1. CASE Sent(a)
  BY <1>1 DEF Ends
<1>2. CASE ~Sent(a)
  BY <1>2 DEF Ends
<1>3. QED
  BY <1>1, <1>2

\* close keeps the types of what it changes.
LEMMA CloseTypes ==
    ASSUME MonitorTypeOK, Close
    PROVE  /\ closed' \in BOOLEAN /\ closer' \in {"none", "waiting", "done"}
           /\ child' \in {"none", "running", "stopping", "exited"}
<1>1. CASE closed
  BY <1>1 DEF MonitorTypeOK, Close
<1>2. CASE ~closed
  BY <1>2 DEF MonitorTypeOK, Close
<1>3. QED
  BY <1>1, <1>2

\* Every step keeps the types; a channel has at most one message of each of its threads.
LEMMA TypesKept ==
    ASSUME MonitorInv, [Next]_vars
    PROVE  MonitorTypeOK'
<1> USE DEF MonitorInv, MonitorTypeOK, Stages,
    startVars, childVars, threadVars, closeVars
<1>1. CASE Prepare
  BY <1>1 DEF Prepare, StartFails, NotStartedYet
<1>2. CASE CreateCredentialsFile
  <2>1. files' \subseteq Credentials
    BY <1>2 DEF CreateCredentialsFile, StartFails, Credentials
  <2>2. QED
    BY <1>2, <2>1 DEF CreateCredentialsFile, StartFails, NotStartedYet
<1>3. CASE CreateProxyAuthFile
  <2>1. files' \subseteq Credentials
    BY <1>3 DEF CreateProxyAuthFile, StartFails, Credentials
  <2>2. QED
    BY <1>3, <2>1 DEF CreateProxyAuthFile, StartFails, NotStartedYet
<1>4. CASE StartProxy
  BY <1>4 DEF StartProxy, StartFails, NotStartedYet
<1>5. CASE GetBoundPort
  BY <1>5, TriesAssumption DEF GetBoundPort, StartFails, NotStartedYet
<1>6. CASE create_openvpn_cmd
  <2>1. [files |-> files, socks |-> proxy_arguments.socks, route |-> proxy_arguments.route] \in Commands
    BY ProxiesAssumption DEF proxy_arguments, Commands
  <2>2. cmd' \in Commands
    BY <1>6, <2>1 DEF create_openvpn_cmd, StartFails
  <2>3. files' \subseteq Credentials
    BY <1>6 DEF create_openvpn_cmd, StartFails
  <2>4. QED
    BY <1>6, <2>2, <2>3 DEF create_openvpn_cmd, StartFails, NotStartedYet
<1>7. CASE StartEventServer
  BY <1>7 DEF StartEventServer, StartFails, NotStartedYet
<1>8. CASE SpawnChild
  BY <1>8 DEF SpawnChild, StartFails
<1>9. CASE ChildWaits
  BY <1>9, AppendFacts DEF ChildWaits, SentInv, CauseInv, Ends, Sent, InnerEnds
<1>10. CASE ChildWaitFails
  BY <1>10, AppendFacts DEF ChildWaitFails, SentInv, Ends, Sent, InnerEnds
<1>11. CASE ChildClosesDispatcher
  BY <1>11 DEF ChildClosesDispatcher
<1>12. CASE DispatcherWaits
  BY SMTT(30), <1>12, AppendFacts DEF DispatcherWaits, SentInv, Ends, Sent, InnerEnds
<1>13. CASE DispatcherClosesChild
  <2>1. Close
    BY <1>13 DEF DispatcherClosesChild
  <2>2. QED
    BY <1>13, <2>1, CloseTypes DEF DispatcherClosesChild
<1>14. CASE WaitTunnel
  BY <1>14, AppendFacts DEF WaitTunnel, WaitResults, SentInv, Ends, Sent, InnerEnds, OuterEnds,
     Results
<1>15. CASE TunnelClosesProxy
  <2>1. broke' \subseteq {"child", "proxy", "server", "kill", "wait"} /\ ss' \in {"none", "running", "exited"}
    BY <1>15 DEF TunnelClosesProxy
  <2>2. QED
    BY <1>15, <2>1 DEF TunnelClosesProxy
<1>16. CASE ProxyWaits
  BY <1>16, AppendFacts DEF ProxyWaits, SentInv, Ends, Sent, OuterEnds
<1>17. CASE ProxyClosesTunnel
  <2>1. Close
    BY <1>17 DEF ProxyClosesTunnel
  <2>2. QED
    BY <1>17, <2>1, CloseTypes DEF ProxyClosesTunnel
<1>18. CASE Wait
  <2>1. outer[1] \in OuterEnds
    BY <1>18, FirstMessage DEF Wait
  <2>2. result' \in Results
    BY <1>18, <2>1 DEF Wait, OuterEnds, Results
  <2>3. UNCHANGED <<startVars, files, ss, ssClosed, server, childVars, closeVars, childThread,
                    dispatcherThread, tunnelThread, proxyThread, inner, outer, asked, broke>>
    BY <1>18 DEF Wait
  <2>4. QED
    BY <2>2, <2>3
<1>19. CASE StoppedInTime
  BY <1>19 DEF StoppedInTime
<1>20. CASE Kill
  <2>1. broke' \subseteq {"child", "proxy", "server", "kill", "wait"}
    BY <1>20 DEF Kill
  <2>2. QED
    BY <1>20, <2>1 DEF Kill, Events
<1>21. CASE TunnelClose
  <2>1. Close
    BY <1>21 DEF TunnelClose
  <2>2. QED
    BY <1>21, <2>1, CloseTypes DEF TunnelClose
<1>22. CASE ChildExits
  BY <1>22 DEF ChildExits, Events
<1>23. CASE \E e \in Events : Emit(e)
  BY <1>23 DEF Emit, Events
<1>24. CASE OnOpenVpnEvent
  BY <1>24 DEF OnOpenVpnEvent, from_openvpn_event, LinkAfter, Events
<1>25. CASE EventFails
  BY <1>25 DEF EventFails, LinkAfter, Events
<1>26. CASE SsExits
  BY <1>26 DEF SsExits
<1>27. CASE ServerDies
  BY <1>27 DEF ServerDies
<1>28. CASE UNCHANGED vars
  BY <1>28 DEF vars
<1>29. QED
  BY <1>1, <1>2, <1>3, <1>4, <1>5, <1>6, <1>7, <1>8, <1>9, <1>10, <1>11, <1>12, <1>13, <1>14,
     <1>15, <1>16, <1>17, <1>18, <1>19, <1>20, <1>21, <1>22, <1>23, <1>24, <1>25, <1>26, <1>27,
     <1>28
  DEF Next, Start, Threads, Over

\* The steps of start, and what runs meanwhile, keep the order of start.
LEMMA StartKept ==
    ASSUME MonitorInv, [Next]_vars
    PROVE  StartInv'
<1> USE DEF MonitorInv, MonitorTypeOK, StartInv, NothingYet, Alive, Events, Stages,
    startVars, childVars, threadVars, closeVars
<1>1. CASE Prepare
  BY <1>1 DEF Prepare, StartFails, NotStartedYet
<1>2. CASE CreateCredentialsFile
  BY <1>2 DEF CreateCredentialsFile, StartFails, NotStartedYet
<1>3. CASE CreateProxyAuthFile
  BY <1>3 DEF CreateProxyAuthFile, StartFails, NotStartedYet
<1>4. CASE StartProxy
  BY <1>4 DEF StartProxy, StartFails, NotStartedYet
<1>5. CASE GetBoundPort
  BY <1>5 DEF GetBoundPort, StartFails, NotStartedYet
<1>6. CASE create_openvpn_cmd
  BY <1>6 DEF create_openvpn_cmd, proxy_arguments, StartFails, NotStartedYet
<1>7. CASE StartEventServer
  BY <1>7 DEF StartEventServer, StartFails, NotStartedYet
<1>8. CASE SpawnChild
  BY <1>8 DEF SpawnChild, StartFails
<1>9. CASE ChildWaits
  BY <1>9, AppendFacts DEF ChildWaits
<1>10. CASE ChildWaitFails
  BY <1>10, AppendFacts DEF ChildWaitFails
<1>11. CASE ChildClosesDispatcher
  BY <1>11 DEF ChildClosesDispatcher
<1>12. CASE DispatcherWaits
  BY <1>12, AppendFacts DEF DispatcherWaits
<1>13. CASE DispatcherClosesChild
  BY <1>13 DEF DispatcherClosesChild, Close
<1>14. CASE WaitTunnel
  BY <1>14, AppendFacts DEF WaitTunnel, WaitResults
<1>15. CASE TunnelClosesProxy
  BY <1>15 DEF TunnelClosesProxy
<1>16. CASE ProxyWaits
  BY <1>16, AppendFacts DEF ProxyWaits
<1>17. CASE ProxyClosesTunnel
  BY <1>17 DEF ProxyClosesTunnel, Close
<1>18. CASE Wait
  <2>1. phase = "started"
    BY <1>18 DEF Wait
  <2>2. QED
    BY <1>18, <2>1 DEF Wait
<1>19. CASE StoppedInTime
  BY <1>19 DEF StoppedInTime
<1>20. CASE Kill
  BY <1>20 DEF Kill
<1>21. CASE TunnelClose
  BY <1>21 DEF TunnelClose, Close
<1>22. CASE ChildExits
  BY <1>22 DEF ChildExits
<1>23. CASE \E e \in Events : Emit(e)
  BY <1>23 DEF Emit, Events
<1>24. CASE OnOpenVpnEvent
  BY <1>24 DEF OnOpenVpnEvent, from_openvpn_event, LinkAfter
<1>25. CASE EventFails
  BY <1>25 DEF EventFails, LinkAfter
<1>26. CASE SsExits
  BY <1>26 DEF SsExits
<1>27. CASE ServerDies
  BY <1>27 DEF ServerDies
<1>28. CASE UNCHANGED vars
  BY <1>28 DEF vars
<1>29. QED
  BY <1>1, <1>2, <1>3, <1>4, <1>5, <1>6, <1>7, <1>8, <1>9, <1>10, <1>11, <1>12, <1>13, <1>14,
     <1>15, <1>16, <1>17, <1>18, <1>19, <1>20, <1>21, <1>22, <1>23, <1>24, <1>25, <1>26, <1>27,
     <1>28
  DEF Next, Start, Threads, Over

\* The files are dropped only when OpenVPN no longer needs them.
LEMMA FilesKept ==
    ASSUME MonitorInv, [Next]_vars
    PROVE  FilesInv'
<1> USE DEF MonitorInv, MonitorTypeOK, StartInv, NothingYet, FilesInv, SentInv, Sent, Ends, Alive,
    Events, Stages,
    startVars, childVars, threadVars, closeVars
<1>1. CASE Prepare
  BY <1>1 DEF Prepare, StartFails, NotStartedYet
<1>2. CASE CreateCredentialsFile
  BY <1>2 DEF CreateCredentialsFile, StartFails, NotStartedYet
<1>3. CASE CreateProxyAuthFile
  BY <1>3 DEF CreateProxyAuthFile, StartFails, NotStartedYet
<1>4. CASE StartProxy
  BY <1>4 DEF StartProxy, StartFails, NotStartedYet
<1>5. CASE GetBoundPort
  BY <1>5 DEF GetBoundPort, StartFails, NotStartedYet
<1>6. CASE create_openvpn_cmd
  BY <1>6 DEF create_openvpn_cmd, proxy_arguments, StartFails, NotStartedYet
<1>7. CASE StartEventServer
  BY <1>7 DEF StartEventServer, StartFails, NotStartedYet
<1>8. CASE SpawnChild
  BY <1>8 DEF SpawnChild, StartFails
<1>9. CASE ChildWaits
  BY <1>9, AppendFacts DEF ChildWaits
<1>10. CASE ChildWaitFails
  BY <1>10, AppendFacts DEF ChildWaitFails
<1>11. CASE ChildClosesDispatcher
  BY <1>11 DEF ChildClosesDispatcher
<1>12. CASE DispatcherWaits
  BY <1>12, AppendFacts DEF DispatcherWaits
<1>13. CASE DispatcherClosesChild
  BY <1>13 DEF DispatcherClosesChild, Close
<1>14. CASE WaitTunnel
  <2>1. Len(inner) = 2 /\ phase = "started"
    BY <1>14 DEF WaitTunnel
  <2>2. child = "exited" \/ "wait" \in broke
    BY <2>1, BothSent
  <2>3. files' = {} \/ (files' = files /\ tunnelThread' # "done")
    BY <1>14 DEF WaitTunnel
  <2>4. QED
    BY <1>14, <2>1, <2>2, <2>3 DEF WaitTunnel
<1>15. CASE TunnelClosesProxy
  BY <1>15 DEF TunnelClosesProxy
<1>16. CASE ProxyWaits
  BY <1>16, AppendFacts DEF ProxyWaits
<1>17. CASE ProxyClosesTunnel
  BY <1>17 DEF ProxyClosesTunnel, Close
<1>18. CASE Wait
  BY <1>18 DEF Wait
<1>19. CASE StoppedInTime
  BY <1>19 DEF StoppedInTime
<1>20. CASE Kill
  BY <1>20 DEF Kill
<1>21. CASE TunnelClose
  BY <1>21 DEF TunnelClose, Close
<1>22. CASE ChildExits
  BY <1>22 DEF ChildExits
<1>23. CASE \E e \in Events : Emit(e)
  BY <1>23 DEF Emit, Events
<1>24. CASE OnOpenVpnEvent
  BY <1>24 DEF OnOpenVpnEvent, from_openvpn_event, LinkAfter
<1>25. CASE EventFails
  BY <1>25 DEF EventFails, LinkAfter
<1>26. CASE SsExits
  BY <1>26 DEF SsExits
<1>27. CASE ServerDies
  BY <1>27 DEF ServerDies
<1>28. CASE UNCHANGED vars
  BY <1>28 DEF vars
<1>29. QED
  BY <1>1, <1>2, <1>3, <1>4, <1>5, <1>6, <1>7, <1>8, <1>9, <1>10, <1>11, <1>12, <1>13, <1>14,
     <1>15, <1>16, <1>17, <1>18, <1>19, <1>20, <1>21, <1>22, <1>23, <1>24, <1>25, <1>26, <1>27,
     <1>28
  DEF Next, Start, Threads, Over

\* What has ended has a cause that lasts.
LEMMA CausesKept ==
    ASSUME MonitorInv, [Next]_vars
    PROVE  CauseInv'
<1> USE DEF MonitorInv, MonitorTypeOK, StartInv, NothingYet, CauseInv, Alive, Stages, Events,
    startVars, childVars, threadVars, closeVars
<1>1. CASE Prepare
  BY <1>1 DEF Prepare, StartFails, NotStartedYet
<1>2. CASE CreateCredentialsFile
  BY <1>2 DEF CreateCredentialsFile, StartFails, NotStartedYet
<1>3. CASE CreateProxyAuthFile
  BY <1>3 DEF CreateProxyAuthFile, StartFails, NotStartedYet
<1>4. CASE StartProxy
  BY <1>4 DEF StartProxy, StartFails, NotStartedYet
<1>5. CASE GetBoundPort
  BY <1>5 DEF GetBoundPort, StartFails, NotStartedYet
<1>6. CASE create_openvpn_cmd
  BY <1>6 DEF create_openvpn_cmd, proxy_arguments, StartFails, NotStartedYet
<1>7. CASE StartEventServer
  BY <1>7 DEF StartEventServer, StartFails, NotStartedYet
<1>8. CASE SpawnChild
  BY <1>8 DEF SpawnChild, StartFails
<1>9. CASE ChildWaits
  BY <1>9, AppendFacts DEF ChildWaits
<1>10. CASE ChildWaitFails
  BY <1>10, AppendFacts DEF ChildWaitFails
<1>11. CASE ChildClosesDispatcher
  BY <1>11 DEF ChildClosesDispatcher
<1>12. CASE DispatcherWaits
  BY <1>12, AppendFacts DEF DispatcherWaits
<1>13. CASE DispatcherClosesChild
  BY <1>13 DEF DispatcherClosesChild, Close
<1>14. CASE WaitTunnel
  BY <1>14, AppendFacts DEF WaitTunnel, WaitResults
<1>15. CASE TunnelClosesProxy
  BY <1>15 DEF TunnelClosesProxy
<1>16. CASE ProxyWaits
  BY <1>16, AppendFacts DEF ProxyWaits
<1>17. CASE ProxyClosesTunnel
  BY <1>17 DEF ProxyClosesTunnel, Close
<1>18. CASE Wait
  BY <1>18 DEF Wait
<1>19. CASE StoppedInTime
  BY <1>19 DEF StoppedInTime
<1>20. CASE Kill
  BY <1>20 DEF Kill
<1>21. CASE TunnelClose
  BY <1>21 DEF TunnelClose, Close
<1>22. CASE ChildExits
  BY <1>22 DEF ChildExits
<1>23. CASE \E e \in Events : Emit(e)
  BY <1>23 DEF Emit, Events
<1>24. CASE OnOpenVpnEvent
  BY <1>24 DEF OnOpenVpnEvent, from_openvpn_event, LinkAfter
<1>25. CASE EventFails
  BY <1>25 DEF EventFails, LinkAfter
<1>26. CASE SsExits
  BY <1>26 DEF SsExits
<1>27. CASE ServerDies
  BY <1>27 DEF ServerDies
<1>28. CASE UNCHANGED vars
  BY <1>28 DEF vars
<1>29. QED
  BY <1>1, <1>2, <1>3, <1>4, <1>5, <1>6, <1>7, <1>8, <1>9, <1>10, <1>11, <1>12, <1>13, <1>14,
     <1>15, <1>16, <1>17, <1>18, <1>19, <1>20, <1>21, <1>22, <1>23, <1>24, <1>25, <1>26, <1>27,
     <1>28
  DEF Next, Start, Threads, Over

\* What a thread has seen to end stays ended.
LEMMA SentKept ==
    ASSUME MonitorInv, [Next]_vars
    PROVE  SentInv'
<1> USE DEF MonitorInv, MonitorTypeOK, StartInv, NothingYet, CauseInv, SentInv, Sent, Ends, Alive,
    Results, Stages, InnerEnds, OuterEnds, Events,
    startVars, childVars, threadVars, closeVars
<1>1. CASE Prepare
  BY <1>1 DEF Prepare, StartFails, NotStartedYet
<1>2. CASE CreateCredentialsFile
  BY <1>2 DEF CreateCredentialsFile, StartFails, NotStartedYet
<1>3. CASE CreateProxyAuthFile
  BY <1>3 DEF CreateProxyAuthFile, StartFails, NotStartedYet
<1>4. CASE StartProxy
  BY <1>4 DEF StartProxy, StartFails, NotStartedYet
<1>5. CASE GetBoundPort
  BY <1>5 DEF GetBoundPort, StartFails, NotStartedYet
<1>6. CASE create_openvpn_cmd
  BY <1>6 DEF create_openvpn_cmd, proxy_arguments, StartFails, NotStartedYet
<1>7. CASE StartEventServer
  BY <1>7 DEF StartEventServer, StartFails, NotStartedYet
<1>8. CASE SpawnChild
  BY <1>8 DEF SpawnChild, StartFails
<1>9. CASE ChildWaits
  BY SMTT(30), <1>9, AppendFacts DEF ChildWaits
<1>10. CASE ChildWaitFails
  <2>1. Len(inner') = Len(inner) + 1 /\ Len(inner) \in Nat
    BY SMTT(30), <1>10, AppendFacts DEF ChildWaitFails
  <2>2. ~Sent(tunnelThread)
    BY <1>10 DEF ChildWaitFails
  <2>3. QED
    BY <1>10, <2>1, <2>2 DEF ChildWaitFails
<1>11. CASE ChildClosesDispatcher
  BY <1>11 DEF ChildClosesDispatcher
<1>12. CASE DispatcherWaits
  <2>1. Len(inner') = Len(inner) + 1 /\ Len(inner) \in Nat
    BY SMTT(30), <1>12, AppendFacts DEF DispatcherWaits
  <2>2. ~Sent(tunnelThread)
    BY <1>12 DEF DispatcherWaits
  <2>3. QED
    BY <1>12, <2>1, <2>2 DEF DispatcherWaits
<1>13. CASE DispatcherClosesChild
  BY <1>13 DEF DispatcherClosesChild, Close
<1>14. CASE WaitTunnel
  <2>1. PICK r \in WaitResults(inner[1]) :
           IF proxy = "None"
           THEN result' = r /\ tunnelThread' = "done" /\ files' = {} /\ outer' = outer
           ELSE /\ outer' = Append(outer, [who |-> "Tunnel", result |-> r])
                /\ tunnelThread' = "sent" /\ UNCHANGED <<result, files>>
    BY <1>14 DEF WaitTunnel
  <2>2. r \in Results \ {"none"}
    BY DEF WaitResults
  <2>3. CASE proxy = "None"
    BY <1>14, <2>1, <2>2, <2>3 DEF WaitTunnel
  <2>4. CASE proxy # "None"
    <3>1. [who |-> "Tunnel", result |-> r] \in OuterEnds
      BY <2>2
    <3>2. Len(outer') = Len(outer) + 1 /\ Len(outer) \in Nat
      BY <2>1, <2>4, <3>1, AppendFacts
    <3>3. QED
      BY SMTT(30), <1>14, <2>1, <2>4, <3>2 DEF WaitTunnel
  <2>5. QED
    BY <2>3, <2>4
<1>15. CASE TunnelClosesProxy
  BY <1>15 DEF TunnelClosesProxy
<1>16. CASE ProxyWaits
  BY <1>16, AppendFacts DEF ProxyWaits
<1>17. CASE ProxyClosesTunnel
  BY <1>17 DEF ProxyClosesTunnel, Close
<1>18. CASE Wait
  <2>1. UNCHANGED <<startVars, ss, server, child, childThread, dispatcherThread, tunnelThread,
                    proxyThread, inner, outer, broke>> /\ Len(outer) = 2
    BY <1>18 DEF Wait
  <2>2. proxy # "None"
    BY <2>1
  <2>3. QED
    BY <2>1, <2>2
<1>19. CASE StoppedInTime
  BY <1>19 DEF StoppedInTime
<1>20. CASE Kill
  BY <1>20 DEF Kill
<1>21. CASE TunnelClose
  BY <1>21 DEF TunnelClose, Close
<1>22. CASE ChildExits
  BY <1>22 DEF ChildExits
<1>23. CASE \E e \in Events : Emit(e)
  BY <1>23 DEF Emit, Events
<1>24. CASE OnOpenVpnEvent
  BY <1>24 DEF OnOpenVpnEvent, from_openvpn_event, LinkAfter
<1>25. CASE EventFails
  BY <1>25 DEF EventFails, LinkAfter
<1>26. CASE SsExits
  BY <1>26 DEF SsExits
<1>27. CASE ServerDies
  BY <1>27 DEF ServerDies
<1>28. CASE UNCHANGED vars
  BY <1>28 DEF vars
<1>29. QED
  BY <1>1, <1>2, <1>3, <1>4, <1>5, <1>6, <1>7, <1>8, <1>9, <1>10, <1>11, <1>12, <1>13, <1>14,
     <1>15, <1>16, <1>17, <1>18, <1>19, <1>20, <1>21, <1>22, <1>23, <1>24, <1>25, <1>26, <1>27,
     <1>28
  DEF Next, Start, Threads, Over

\* The first message of inner_wait_tunnel is true when it is sent, and stays true.
LEMMA InnerKept ==
    ASSUME MonitorInv, [Next]_vars
    PROVE  InnerTruth'
<1> USE DEF MonitorInv, MonitorTypeOK, StartInv, NothingYet, CauseInv, SentInv, InnerTruth,
    OuterTruth, ProxyFirst, Sent, Ends, Alive, Stages, InnerEnds, OuterEnds, Events,
    startVars, childVars, threadVars, closeVars
<1>1. CASE Prepare
  BY <1>1 DEF Prepare, StartFails, NotStartedYet
<1>2. CASE CreateCredentialsFile
  BY <1>2 DEF CreateCredentialsFile, StartFails, NotStartedYet
<1>3. CASE CreateProxyAuthFile
  BY <1>3 DEF CreateProxyAuthFile, StartFails, NotStartedYet
<1>4. CASE StartProxy
  BY <1>4 DEF StartProxy, StartFails, NotStartedYet
<1>5. CASE GetBoundPort
  BY <1>5 DEF GetBoundPort, StartFails, NotStartedYet
<1>6. CASE create_openvpn_cmd
  BY <1>6 DEF create_openvpn_cmd, proxy_arguments, StartFails, NotStartedYet
<1>7. CASE StartEventServer
  BY <1>7 DEF StartEventServer, StartFails, NotStartedYet
<1>8. CASE SpawnChild
  BY <1>8 DEF SpawnChild, StartFails
<1>9. CASE ChildWaits
  BY <1>9, AppendFacts DEF ChildWaits
<1>10. CASE ChildWaitFails
  BY <1>10, AppendFacts DEF ChildWaitFails
<1>11. CASE ChildClosesDispatcher
  BY <1>11 DEF ChildClosesDispatcher
<1>12. CASE DispatcherWaits
  BY <1>12, AppendFacts DEF DispatcherWaits
<1>13. CASE DispatcherClosesChild
  BY <1>13 DEF DispatcherClosesChild, Close
<1>14. CASE WaitTunnel
  BY <1>14, AppendFacts DEF WaitTunnel, WaitResults
<1>15. CASE TunnelClosesProxy
  BY <1>15 DEF TunnelClosesProxy
<1>16. CASE ProxyWaits
  BY <1>16, AppendFacts DEF ProxyWaits
<1>17. CASE ProxyClosesTunnel
  BY <1>17 DEF ProxyClosesTunnel, Close
<1>18. CASE Wait
  BY <1>18 DEF Wait
<1>19. CASE StoppedInTime
  BY <1>19 DEF StoppedInTime
<1>20. CASE Kill
  BY <1>20 DEF Kill
<1>21. CASE TunnelClose
  BY <1>21 DEF TunnelClose, Close
<1>22. CASE ChildExits
  BY <1>22 DEF ChildExits
<1>23. CASE \E e \in Events : Emit(e)
  BY <1>23 DEF Emit, Events
<1>24. CASE OnOpenVpnEvent
  BY <1>24 DEF OnOpenVpnEvent, from_openvpn_event, LinkAfter
<1>25. CASE EventFails
  BY <1>25 DEF EventFails, LinkAfter
<1>26. CASE SsExits
  BY <1>26 DEF SsExits
<1>27. CASE ServerDies
  BY <1>27 DEF ServerDies
<1>28. CASE UNCHANGED vars
  BY <1>28 DEF vars
<1>29. QED
  BY <1>1, <1>2, <1>3, <1>4, <1>5, <1>6, <1>7, <1>8, <1>9, <1>10, <1>11, <1>12, <1>13, <1>14,
     <1>15, <1>16, <1>17, <1>18, <1>19, <1>20, <1>21, <1>22, <1>23, <1>24, <1>25, <1>26, <1>27,
     <1>28
  DEF Next, Start, Threads, Over

\* The first message of wait is true when it is sent, and stays true.
LEMMA OuterKept ==
    ASSUME MonitorInv, [Next]_vars
    PROVE  OuterTruth'
<1> USE DEF MonitorInv, MonitorTypeOK, StartInv, NothingYet, CauseInv, SentInv, InnerTruth,
    OuterTruth, ProxyFirst, Truthful, Sent, Ends, Alive, Results, Stages, InnerEnds, OuterEnds,
    Events,
    startVars, childVars, threadVars, closeVars
<1>1. CASE Prepare
  BY <1>1 DEF Prepare, StartFails, NotStartedYet
<1>2. CASE CreateCredentialsFile
  BY <1>2 DEF CreateCredentialsFile, StartFails, NotStartedYet
<1>3. CASE CreateProxyAuthFile
  BY <1>3 DEF CreateProxyAuthFile, StartFails, NotStartedYet
<1>4. CASE StartProxy
  BY <1>4 DEF StartProxy, StartFails, NotStartedYet
<1>5. CASE GetBoundPort
  BY <1>5 DEF GetBoundPort, StartFails, NotStartedYet
<1>6. CASE create_openvpn_cmd
  BY <1>6 DEF create_openvpn_cmd, proxy_arguments, StartFails, NotStartedYet
<1>7. CASE StartEventServer
  BY <1>7 DEF StartEventServer, StartFails, NotStartedYet
<1>8. CASE SpawnChild
  BY <1>8 DEF SpawnChild, StartFails
<1>9. CASE ChildWaits
  BY <1>9, AppendFacts DEF ChildWaits
<1>10. CASE ChildWaitFails
  BY <1>10, AppendFacts DEF ChildWaitFails
<1>11. CASE ChildClosesDispatcher
  BY <1>11 DEF ChildClosesDispatcher
<1>12. CASE DispatcherWaits
  BY <1>12, AppendFacts DEF DispatcherWaits
<1>13. CASE DispatcherClosesChild
  BY <1>13 DEF DispatcherClosesChild, Close
<1>14. CASE WaitTunnel
  BY <1>14, AppendFacts DEF WaitTunnel, WaitResults
<1>15. CASE TunnelClosesProxy
  BY <1>15 DEF TunnelClosesProxy
<1>16. CASE ProxyWaits
  BY <1>16, AppendFacts DEF ProxyWaits
<1>17. CASE ProxyClosesTunnel
  BY <1>17 DEF ProxyClosesTunnel, Close
<1>18. CASE Wait
  BY <1>18 DEF Wait
<1>19. CASE StoppedInTime
  BY <1>19 DEF StoppedInTime
<1>20. CASE Kill
  BY <1>20 DEF Kill
<1>21. CASE TunnelClose
  BY <1>21 DEF TunnelClose, Close
<1>22. CASE ChildExits
  BY <1>22 DEF ChildExits
<1>23. CASE \E e \in Events : Emit(e)
  BY <1>23 DEF Emit, Events
<1>24. CASE OnOpenVpnEvent
  BY <1>24 DEF OnOpenVpnEvent, from_openvpn_event, LinkAfter
<1>25. CASE EventFails
  BY <1>25 DEF EventFails, LinkAfter
<1>26. CASE SsExits
  BY <1>26 DEF SsExits
<1>27. CASE ServerDies
  BY <1>27 DEF ServerDies
<1>28. CASE UNCHANGED vars
  BY <1>28 DEF vars
<1>29. QED
  BY <1>1, <1>2, <1>3, <1>4, <1>5, <1>6, <1>7, <1>8, <1>9, <1>10, <1>11, <1>12, <1>13, <1>14,
     <1>15, <1>16, <1>17, <1>18, <1>19, <1>20, <1>21, <1>22, <1>23, <1>24, <1>25, <1>26, <1>27,
     <1>28
  DEF Next, Start, Threads, Over

\* The result is true when wait returns, and stays true.
LEMMA ResultKept ==
    ASSUME MonitorInv, [Next]_vars
    PROVE  ResultTruth'
<1> USE DEF MonitorInv, MonitorTypeOK, StartInv, NothingYet, CauseInv, SentInv, InnerTruth,
    OuterTruth, ResultTruth, ProxyFirst, Truthful, Sent, Ends, Alive, Results, Stages, InnerEnds,
    OuterEnds,
    startVars, childVars, threadVars, closeVars
<1>1. CASE Prepare
  BY <1>1 DEF Prepare, StartFails, NotStartedYet
<1>2. CASE CreateCredentialsFile
  BY <1>2 DEF CreateCredentialsFile, StartFails, NotStartedYet
<1>3. CASE CreateProxyAuthFile
  BY <1>3 DEF CreateProxyAuthFile, StartFails, NotStartedYet
<1>4. CASE StartProxy
  BY <1>4 DEF StartProxy, StartFails, NotStartedYet
<1>5. CASE GetBoundPort
  BY <1>5 DEF GetBoundPort, StartFails, NotStartedYet
<1>6. CASE create_openvpn_cmd
  BY <1>6 DEF create_openvpn_cmd, proxy_arguments, StartFails, NotStartedYet
<1>7. CASE StartEventServer
  BY <1>7 DEF StartEventServer, StartFails, NotStartedYet
<1>8. CASE SpawnChild
  BY <1>8 DEF SpawnChild, StartFails
<1>9. CASE ChildWaits
  BY <1>9, AppendFacts DEF ChildWaits
<1>10. CASE ChildWaitFails
  BY <1>10, AppendFacts DEF ChildWaitFails
<1>11. CASE ChildClosesDispatcher
  BY <1>11 DEF ChildClosesDispatcher
<1>12. CASE DispatcherWaits
  BY <1>12, AppendFacts DEF DispatcherWaits
<1>13. CASE DispatcherClosesChild
  BY <1>13 DEF DispatcherClosesChild, Close
<1>14. CASE WaitTunnel
  BY <1>14, AppendFacts DEF WaitTunnel, WaitResults
<1>15. CASE TunnelClosesProxy
  BY <1>15 DEF TunnelClosesProxy
<1>16. CASE ProxyWaits
  BY <1>16, AppendFacts DEF ProxyWaits
<1>17. CASE ProxyClosesTunnel
  BY <1>17 DEF ProxyClosesTunnel, Close
<1>18. CASE Wait
  <2>1. Len(outer) >= 1 /\ outer \in Seq(OuterEnds)
    BY <1>18 DEF Wait
  <2>2. outer[1] \in OuterEnds
    BY <2>1, FirstMessage
  <2>3. outer[1].who \in {"Tunnel", "Proxy"}
    BY <2>2
  <2>4. QED
    BY <1>18, <2>1, <2>3 DEF Wait
<1>19. CASE StoppedInTime
  BY <1>19 DEF StoppedInTime
<1>20. CASE Kill
  BY <1>20 DEF Kill
<1>21. CASE TunnelClose
  BY <1>21 DEF TunnelClose, Close
<1>22. CASE ChildExits
  BY <1>22 DEF ChildExits
<1>23. CASE \E e \in Events : Emit(e)
  BY <1>23 DEF Emit, Events
<1>24. CASE OnOpenVpnEvent
  BY <1>24 DEF OnOpenVpnEvent, from_openvpn_event, LinkAfter
<1>25. CASE EventFails
  BY <1>25 DEF EventFails, LinkAfter
<1>26. CASE SsExits
  BY <1>26 DEF SsExits
<1>27. CASE ServerDies
  BY <1>27 DEF ServerDies
<1>28. CASE UNCHANGED vars
  BY <1>28 DEF vars
<1>29. QED
  BY <1>1, <1>2, <1>3, <1>4, <1>5, <1>6, <1>7, <1>8, <1>9, <1>10, <1>11, <1>12, <1>13, <1>14,
     <1>15, <1>16, <1>17, <1>18, <1>19, <1>20, <1>21, <1>22, <1>23, <1>24, <1>25, <1>26, <1>27,
     <1>28
  DEF Next, Start, Threads, Over

-----------------------------------------------------------------------------
\* The invariant holds when start is called.
LEMMA InvInit == Init => MonitorInv
<1> SUFFICES ASSUME Init PROVE MonitorInv
  OBVIOUS
<1>1. inner \in Seq(InnerEnds) /\ outer \in Seq(OuterEnds) /\ Len(inner) = 0 /\ Len(outer) = 0
  BY DEF Init
<1>2. cmd \in Commands
  BY DEF Init, NoCommand, Commands
<1>3. 0 \in 0..(Tries - 1)
  BY TriesAssumption
<1>4. MonitorTypeOK
  <2>1. files \subseteq Credentials /\ broke \subseteq {"child", "proxy", "server", "kill", "wait"}
    BY DEF Init
  <2>2. closed \in BOOLEAN /\ asked \in BOOLEAN /\ ssClosed \in BOOLEAN
    BY Zenon DEF Init
  <2>3. tries \in 0..(Tries - 1) /\ Len(inner) <= 2 /\ Len(outer) <= 2
    BY <1>1, <1>3 DEF Init
  <2>4. QED
    BY <1>1, <1>2, <2>1, <2>2, <2>3 DEF Init, MonitorTypeOK, Results, Stages
<1>5. StartInv /\ FilesInv /\ CauseInv
  BY DEF Init, StartInv, NothingYet, FilesInv, CauseInv, Alive
<1>6. SentInv /\ InnerTruth /\ OuterTruth /\ ResultTruth
  BY <1>1 DEF Init, SentInv, Sent, Ends, InnerTruth, OuterTruth, ResultTruth
<1>7. QED
  BY <1>4, <1>5, <1>6 DEF MonitorInv

\* The invariant holds of every run.
LEMMA InvHolds == Spec => []MonitorInv
<1>1. MonitorInv /\ [Next]_vars => MonitorInv'
  BY TypesKept, StartKept, FilesKept, CausesKept, SentKept, InnerKept, OuterKept, ResultKept
  DEF MonitorInv
<1>2. QED
  BY InvInit, <1>1, PTL DEF Spec

\* The credential files OpenVPN was told to read are there until it has reported that the
\* tunnel is up, and neither longer than that nor after the monitor is gone, whatever is
\* closed, killed or ends by itself meanwhile.
THEOREM CredentialsLiveHolds == Spec => []CredentialsLiveAsLongAsNeeded
<1>1. MonitorInv => CredentialsLiveAsLongAsNeeded
  BY DEF MonitorInv, FilesInv, StartInv, CredentialsLiveAsLongAsNeeded
<1>2. QED
  BY InvHolds, <1>1, PTL

\* wait returns success only when the tunnel was asked to close or OpenVPN exited
\* successfully, an error only when that part ended by itself, and when it returns nothing
\* of the tunnel is running.
THEOREM WaitTellsTheTruthHolds == Spec => []WaitTellsTheTruth
<1>1. MonitorInv => OkMeansAsked /\ ErrorsHaveCauses
  BY DEF MonitorInv, MonitorTypeOK, ResultTruth, Truthful, OkMeansAsked, ErrorsHaveCauses, Results
<1>2. MonitorInv => NothingLeftRunning
  <2> SUFFICES ASSUME MonitorInv, result # "none", "wait" \notin broke
               PROVE  child = "exited" /\ server = "stopped" /\ ss # "running"
    BY DEF NothingLeftRunning
  <2>1. Len(inner) = 2 /\ (proxy # "None" => Sent(proxyThread))
    BY BothSent DEF MonitorInv, SentInv, Sent
  <2>2. Sent(childThread) /\ Sent(dispatcherThread)
    BY <2>1, BothSent DEF MonitorInv, SentInv
  <2>3. QED
    BY <2>1, <2>2 DEF MonitorInv, StartInv, SentInv
<1>3. MonitorInv => WaitTellsTheTruth
  BY <1>1, <1>2 DEF MonitorInv, WaitTellsTheTruth
<1>4. QED
  BY InvHolds, <1>3, PTL
=============================================================================
