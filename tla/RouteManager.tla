---------------------------- MODULE RouteManager ----------------------------
(***************************************************************************)
(* The route managers of Linux and macOS.  Both add the routes of a tunnel  *)
(* to the routing table and route the tunnel's peer through the default     *)
(* route of the host, which they follow while the tunnel is up.            *)
(*                                                                         *)
(* The rest of the host changes the routing table too: a default route      *)
(* appears, is announced again, or goes away with its device.  Linux tells  *)
(* the manager through netlink; macOS through the lines of `route monitor'. *)
(***************************************************************************)
EXTENDS Naturals, Sequences, FiniteSets, SequencesExt

CONSTANTS
    Platforms,      \* subset of {"linux", "macos"}
    DefaultRoutes,  \* the default routes the host may have
    InitialDefaults,\* the sets of them it may have at the start
    MaxHostChanges, \* bound: how often the host changes its default routes
    Faults          \* what may fail: "command", "listener", "notice", "spawn", "device", ...

\* No two default routes of a family have the same metric, as in Linux's own table; none is
\* the tunnel's, whose device is new.
ASSUME DefaultRoutesAssumption ==
    /\ IsFiniteSet(DefaultRoutes) /\ MaxHostChanges \in Nat
    /\ \A r \in DefaultRoutes : /\ r \in [fam : {"v4", "v6"}, dev : STRING, metric : Nat]
                                /\ r.dev \notin {"tun", "none", "gone"}
    /\ \A r, s \in DefaultRoutes : r.fam = s.fam /\ r.metric = s.metric => r = s
    /\ InitialDefaults \subseteq SUBSET DefaultRoutes

VARIABLES
    platform,
    hostDefaults,   \* the default routes of the host
    hostChanges,    \* how often the host has changed them
    table,          \* the node of each destination that is ours
    notices,        \* Linux: the netlink messages not read yet
    heard,          \* macOS: the change listener has a line for us
    required,       \* the destinations in the tunnel
    peer,           \* the one destination outside of it
    manager,        \* the steps of new, then "broken", or "running", "stopping", "done", "failed"
    todo,           \* destinations still to add, and on macOS to delete at shutdown
    added,          \* added_routes, applied_routes
    known,          \* Linux: default_routes
    best,           \* best_default_node_v4 and _v6, v4_gateway and v6_gateway
    needed, pending,\* Linux: needed_changes and pending_change
    mac,            \* macOS: RouteManagerState
    fetched,        \* macOS: the gateways just obtained
    stopSent,       \* stop has sent its channel
    removalFailed,  \* history: macOS could not remove a route at shutdown
    dropped         \* history: Linux left out an addition to the table or called one off

hostVars  == <<hostDefaults, hostChanges>>
linuxVars == <<known, needed, pending>>
histories == <<removalFailed, dropped>>
macVars   == <<mac, fetched>>
routeVars == <<platform, hostVars, table, notices, heard, required, peer, manager, todo, added,
               linuxVars, best, macVars, stopSent, histories>>

Families == {"v4", "v6"}
Tun      == "tun"
Devices  == {r.dev : r \in DefaultRoutes} \cup {Tun}

\* A node has a device and, when gw, the gateway's address too.
Node(dev, gw) == [dev |-> dev, gw |-> gw]
NoNode == Node("none", FALSE)   \* no route
Gone   == Node("gone", FALSE)   \* the host removed our route with its device
Nodes  == [dev : Devices, gw : BOOLEAN]

Dests == [fam : Families, net : {"all", "low", "high", "lan", "peer"}]

Links == {r.dev : r \in hostDefaults} \cup {Tun}

\* Linux's netlink messages and queued changes; metric 0 is none.
Change(op, dest, node, metric) == [op |-> op, dest |-> dest, node |-> node, metric |-> metric]

-----------------------------------------------------------------------------
(* The host                                                                *)

\* The listener of a manager that is up hears of a change to the table.
Announce(msgs) ==
    IF platform = "linux"
    THEN /\ notices' = IF manager \in {"listening", "adding", "running"} THEN notices \o msgs
                       ELSE notices
         /\ UNCHANGED heard
    ELSE /\ heard' = (heard \/ (manager = "running" /\ mac = "Listening" /\ msgs # <<>>))
         /\ UNCHANGED notices

\* get_route: a gateway in a message only tells that the route is a default route; the
\* node is the device alone.
Notice(op, dest, dev, metric) == Change(op, dest, Node(dev, FALSE), metric)

DefaultNotice(op, r) == Notice(op, [fam |-> r.fam, net |-> "all"], r.dev, r.metric)

\* IPv6 routes are announced with the metric the kernel gave them.
OwnMetric(dest) == IF dest.fam = "v6" THEN 1024 ELSE 0

HostUnchanged == UNCHANGED <<platform, required, peer, manager, todo, added, linuxVars, best,
                             macVars, stopSent, histories>>

\* Changes before and after the life of a manager are left to Init, and left out.
Live == {"new", "listening", "adding", "running", "stopping"}

\* A default route appears, or is announced once more.
DefaultAppears ==
    /\ hostChanges < MaxHostChanges /\ manager \in Live
    /\ hostChanges' = hostChanges + 1
    /\ \E r \in DefaultRoutes :
          /\ hostDefaults' = hostDefaults \cup {r}
          /\ Announce(<<DefaultNotice("Add", r)>>)
    /\ UNCHANGED table /\ HostUnchanged

\* A device goes away with all its routes; Linux does not announce all of them.
LinkLost ==
    /\ hostChanges < MaxHostChanges /\ manager \in Live
    /\ hostChanges' = hostChanges + 1
    /\ \E dev \in Links \ {Tun}, told \in BOOLEAN :
          LET lost == {r \in hostDefaults : r.dev = dev}
              ours == {d \in Dests : table[d].dev = dev}
          IN  /\ hostDefaults' = hostDefaults \ lost
              /\ table' = [d \in Dests |-> IF d \in ours THEN Gone ELSE table[d]]
              /\ Announce(IF ~told THEN <<>>
                          ELSE SetToSeq({Notice("Remove", d, dev, OwnMetric(d)) : d \in ours})
                               \o SetToSeq({DefaultNotice("Remove", r) : r \in lost}))
    /\ HostUnchanged

\* The host's own default node of a family, as `route get' or the lowest metric tells it.
\* A default route of ours would be the best one.
HostDefault(f) ==
    LET rs == {r \in hostDefaults : r.fam = f}
    IN  IF table[[fam |-> f, net |-> "all"]].dev = Tun THEN Node(Tun, FALSE)
        ELSE IF rs = {} THEN NoNode
        ELSE Node((CHOOSE r \in rs : \A s \in rs : r.metric <= s.metric).dev, TRUE)

-----------------------------------------------------------------------------
(* Commands that change the table                                           *)

\* ip route replace, route add: needs its device.
Added(t, dest, node) == [t EXCEPT ![dest] = node]
CanAdd(node) == node.dev \in Links

\* ip route delete: an argument that was not given matches everything.
Matches(node, there) == there.dev = node.dev /\ (node.gw => there.gw)
Deleted(t, dests) == [d \in Dests |-> IF d \in dests THEN NoNode ELSE t[d]]

MayFail(what) == what \in Faults

-----------------------------------------------------------------------------
(* RouteManagerImpl::new                                                    *)

\* parse_ip_route_show_line: what `ip route show' prints of a default route.
Shown(r) == [fam |-> r.fam, node |-> Node(r.dev, TRUE), metric |-> r.metric]

\* pick_best_default_node: the lowest metric; among equals whichever the set yields first.
pick_best_default_node(routes, f) ==
    LET rs == {r \in routes : r.fam = f}
    IN  IF rs = {} THEN {NoNode}
        ELSE {r.node : r \in {q \in rs : \A s \in rs : q.metric <= s.metric}}

Bests(routes) == [v4 : pick_best_default_node(routes, "v4"),
                  v6 : pick_best_default_node(routes, "v6")]

\* new begins: called by the tunnel's monitor with the routes it needs.
NewFails == manager' = "broken" /\ UNCHANGED <<todo, added, table>>

LinuxNewListener ==
    /\ platform = "linux" /\ manager = "new"
    /\ \/ manager' = "listening" /\ UNCHANGED <<todo, added, table>>
       \/ MayFail("listener") /\ NewFails
    /\ UNCHANGED <<platform, hostVars, notices, heard, required, peer, linuxVars, best, macVars,
                   stopSent, histories>>

LinuxGetDefaultRoutes ==
    /\ platform = "linux" /\ manager = "listening"
    /\ \/ /\ manager' = "adding"
          /\ known' = {Shown(r) : r \in hostDefaults}
          /\ best' \in Bests(known')
          /\ todo' = required \cup {peer} /\ UNCHANGED <<added, table>>
       \/ MayFail("command") /\ NewFails /\ UNCHANGED <<known, best>>
    /\ UNCHANGED <<platform, hostVars, notices, heard, required, peer, needed, pending, macVars,
                   stopSent, histories>>

MacGetDefaultRoutes ==
    /\ platform = "macos" /\ manager = "new"
    /\ best' = [f \in Families |-> HostDefault(f)]
    /\ \/ /\ \E f \in Families : best'[f] # NoNode
          /\ manager' = "adding" /\ todo' = required \cup {peer} /\ UNCHANGED <<added, table>>
       \/ /\ MayFail("command") \/ \A f \in Families : best'[f] = NoNode
          /\ NewFails
    /\ UNCHANGED <<platform, hostVars, notices, heard, required, peer, linuxVars, macVars, stopSent,
                   histories>>

NodeOf(d) == IF d = peer THEN best[d.fam] ELSE Node(Tun, FALSE)

\* The routes into the tunnel first, the peer last; a failure takes back what was added.
\* macOS only minds a command that could not be run.  Netlink messages about a part of the
\* tunnel change nothing and are left out.
AddFails ==
    /\ table' = Deleted(table, DOMAIN added)
    /\ manager' = "broken" /\ UNCHANGED <<todo, added>>

NewAddsRoute ==
    /\ manager = "adding"
    /\ \E d \in todo :
          /\ d = peer => todo = {peer}
          /\ \/ /\ NodeOf(d) = NoNode
                /\ UNCHANGED <<table, added, manager, notices>> /\ todo' = todo \ {d}
             \/ /\ NodeOf(d) # NoNode /\ CanAdd(NodeOf(d))
                /\ table' = Added(table, d, NodeOf(d)) /\ todo' = todo \ {d}
                /\ added' = [x \in DOMAIN added \cup {d} |-> IF x = d THEN NodeOf(d) ELSE added[x]]
                /\ notices' = IF platform = "linux" /\ d.net \in {"all", "peer"}
                              THEN Append(notices, Notice("Add", d, NodeOf(d).dev, OwnMetric(d)))
                              ELSE notices
                /\ UNCHANGED manager
             \/ /\ NodeOf(d) # NoNode /\ ~CanAdd(NodeOf(d)) /\ platform = "macos"
                /\ todo' = todo \ {d} /\ UNCHANGED <<table, manager, notices>>
                /\ added' = [x \in DOMAIN added \cup {d} |-> IF x = d THEN NodeOf(d) ELSE added[x]]
             \/ /\ NodeOf(d) # NoNode
                /\ MayFail("command") \/ (platform = "linux" /\ ~CanAdd(NodeOf(d)))
                /\ AddFails /\ UNCHANGED notices
    /\ UNCHANGED <<platform, hostVars, heard, required, peer, linuxVars, best, macVars, stopSent,
                   histories>>

\* Mutant: Linux too listens only once its routes are set.
NewDoneListensLate ==
    /\ manager = "adding" /\ todo = {}
    /\ manager' = "running" /\ notices' = <<>>
    /\ mac' = IF platform = "macos" THEN "Listening" ELSE mac
    /\ UNCHANGED <<todo, added, table, platform, hostVars, heard, required, peer, linuxVars, best,
                   fetched, stopSent, histories>>

\* macOS starts its listener last; the manager is handed to the executor.
NewDone ==
    /\ manager = "adding" /\ todo = {}
    /\ \/ /\ manager' = "running"
          /\ mac' = IF platform = "macos" THEN "Listening" ELSE mac
          /\ UNCHANGED <<todo, added, table>>
       \/ /\ MayFail("spawn") \/ (MayFail("listener") /\ platform = "macos")
          /\ NewFails /\ UNCHANGED mac
    /\ UNCHANGED <<platform, hostVars, notices, heard, required, peer, linuxVars, best, fetched,
                   stopSent, histories>>

-----------------------------------------------------------------------------
(* Linux                                                                   *)

\* A `?' of poll: the future ends and all it holds is dropped.
LinuxDies ==
    /\ platform = "linux" /\ manager' = "failed"
    /\ notices' = <<>> /\ needed' = <<>> /\ pending' = <<>> /\ known' = {}
    /\ UNCHANGED <<platform, hostVars, table, heard, required, peer, todo, added, best, macVars,
                   stopSent, histories>>

\* enque_route_change: the same change is not queued twice.
Queued(queue, c) == pending = <<c>> \/ c \in ToSet(queue)

enque_route_change(queue, c) == IF Queued(queue, c) THEN queue ELSE Append(queue, c)

\* The retain of process_new_route and process_deleted_route: no change is queued twice.
Without(queue, c) ==
    IF c \in ToSet(queue) THEN RemoveAt(queue, CHOOSE i \in DOMAIN queue : queue[i] = c) ELSE queue

\* update_default_rotues: the peer moves from the old best node to the new one.
update_default_rotues(queue) ==
    LET old == best[peer.fam]
        new == best'[peer.fam]
        without == IF old = NoNode THEN queue
                   ELSE enque_route_change(queue, Change("Remove", peer, old, 0))
    IN  IF new = old \/ new = NoNode THEN queue
        ELSE enque_route_change(without, Change("Add", peer, new, 0))

\* get_route: a message without destination is a default route's if it has a gateway, and
\* otherwise an error.  A default route into the tunnel has none.
Readable(msg) == msg.dest.net = "all" => msg.node.dev # Tun

\* process_new_route and process_deleted_route: what the host did already need not be
\* done; a default route is remembered, and never forgotten.
LinuxReadsNotice ==
    /\ platform = "linux" /\ manager = "running" /\ notices # <<>> /\ Readable(Head(notices))
    /\ LET msg  == Head(notices)
           kept == Without(needed, msg)
       IN  /\ IF msg.dest.net = "all"
              THEN /\ known' = IF msg.op = "Add"
                               THEN known \cup {[fam |-> msg.dest.fam, node |-> msg.node,
                                                 metric |-> msg.metric]}
                               ELSE known
                   /\ IF known' = known THEN UNCHANGED best ELSE best' \in Bests(known')
                   /\ needed' = update_default_rotues(kept)
              ELSE needed' = kept /\ UNCHANGED <<known, best>>
           /\ dropped' = (\/ dropped
                          \/ msg.op = "Add" /\ msg \in ToSet(needed)
                          \/ /\ best'[peer.fam] # best[peer.fam]
                             /\ Queued(kept, Change("Add", peer, best'[peer.fam], 0)))
    /\ notices' = Tail(notices)
    /\ UNCHANGED <<platform, hostVars, table, heard, required, peer, manager, todo, added, pending,
                   macVars, stopSent, removalFailed>>

\* Another unreadable message, one for an unknown device, a closed netlink socket.
LinuxNoticeFails ==
    /\ manager = "running" /\ LinuxDies
    /\ MayFail("notice") \/ (notices # <<>> /\ ~Readable(Head(notices)))

LinuxUp == platform = "linux" /\ manager \in {"running", "stopping"}

\* apply_route_table_changes: one command at a time.
LinuxStartsChange ==
    /\ LinuxUp /\ pending = <<>> /\ needed # <<>>
    /\ pending' = <<Head(needed)>> /\ needed' = Tail(needed)
    /\ UNCHANGED <<platform, hostVars, table, notices, heard, required, peer, manager, todo, added,
                   known, best, macVars, stopSent, histories>>

\* The exit status of the pending command.
Succeeds(c) ==
    IF c.op = "Add" THEN CanAdd(c.node) ELSE Matches(c.node, table[c.dest])

LinuxChangeDone ==
    /\ LinuxUp /\ pending # <<>> /\ Succeeds(pending[1])
    /\ LET c == pending[1] IN
          /\ table' = IF c.op = "Add" THEN Added(table, c.dest, c.node) ELSE Deleted(table, {c.dest})
          /\ added' = IF c.op = "Add"
                      THEN [x \in DOMAIN added \cup {c.dest} |-> IF x = c.dest THEN c.node ELSE added[x]]
                      ELSE [x \in DOMAIN added \ {c.dest} |-> added[x]]
          /\ Announce(<<Notice(c.op, c.dest, c.node.dev, OwnMetric(c.dest))>>)
    /\ pending' = <<>>
    /\ UNCHANGED <<platform, hostVars, required, peer, manager, todo, known, best, needed,
                   macVars, stopSent, histories>>

LinuxChangeFails ==
    /\ LinuxUp /\ pending # <<>>
    /\ ~Succeeds(pending[1]) \/ MayFail("command")
    /\ LinuxDies

\* poll: stop is seen once; from then on no message is read.
LinuxSeesStop ==
    /\ platform = "linux" /\ manager = "running" /\ stopSent
    /\ manager' = "stopping" /\ notices' = <<>>
    /\ UNCHANGED <<platform, hostVars, table, heard, required, peer, todo, added,
                   linuxVars, best, macVars, stopSent, histories>>

LinuxStopped ==
    /\ platform = "linux" /\ manager = "stopping"
    /\ pending = <<>> /\ needed = <<>>
    /\ manager' = "done"
    /\ UNCHANGED <<platform, hostVars, table, notices, heard, required, peer, todo, added,
                   linuxVars, best, macVars, stopSent, histories>>

-----------------------------------------------------------------------------
(* macOS                                                                   *)

MacUp == platform = "macos" /\ manager = "running"

MacUnchanged == UNCHANGED <<platform, hostVars, notices, required, peer, added, linuxVars, best,
                            stopSent, histories>>

MacHears ==
    /\ MacUp /\ mac = "Listening" /\ heard
    /\ mac' = "Obtaining" /\ heard' = FALSE
    /\ UNCHANGED <<manager, table, todo, fetched>> /\ MacUnchanged

\* get_default_routes_future
MacObtains ==
    /\ MacUp /\ mac = "Obtaining"
    /\ fetched' = HostDefault(peer.fam)
    /\ mac' = IF fetched' = NoNode THEN "Relisten" ELSE "Deleting"
    /\ UNCHANGED <<heard, manager, table, todo>> /\ MacUnchanged

\* apply_new_default_routes: the old route is deleted, the new one added; a failure is
\* only logged.
MacDeletes ==
    /\ MacUp /\ mac = "Deleting"
    /\ mac' = "Adding"
    /\ \/ table' = Deleted(table, {peer})
       \/ MayFail("command") /\ UNCHANGED table
    /\ UNCHANGED <<heard, manager, todo, fetched>> /\ MacUnchanged

MacAdds ==
    /\ MacUp /\ mac = "Adding"
    /\ mac' = "Relisten"
    /\ IF CanAdd(fetched) /\ table[peer] \in {NoNode, Gone}
       THEN \/ table' = Added(table, peer, fetched)
            \/ MayFail("command") /\ UNCHANGED table
       ELSE UNCHANGED table
    /\ UNCHANGED <<heard, manager, todo, fetched>> /\ MacUnchanged

\* A new change listener: what happened since the last one is not heard of.
MacRelistens ==
    /\ MacUp /\ mac = "Relisten"
    /\ mac' = "Listening" /\ heard' = FALSE /\ fetched' = NoNode
    /\ UNCHANGED <<manager, table, todo>> /\ MacUnchanged

\* A command cannot be run, the listener ends in an error: the future ends.
MacDies ==
    /\ MacUp
    /\ \/ mac = "Obtaining" /\ MayFail("command")
       \/ mac \in {"Listening", "Relisten"} /\ MayFail("listener")
    /\ manager' = "failed" /\ heard' = FALSE /\ mac' = "Listening" /\ fetched' = NoNode
    /\ UNCHANGED <<table, todo>> /\ MacUnchanged

\* shutdown_future: the applied routes, and the peer if it had a gateway at the start.
MacSeesStop ==
    /\ MacUp /\ stopSent
    /\ manager' = "stopping"
    /\ todo' = DOMAIN added \cup {d \in {peer} : best[d.fam] # NoNode}
    /\ heard' = FALSE /\ mac' = "Listening" /\ fetched' = NoNode
    /\ UNCHANGED table /\ MacUnchanged

MacRemoves ==
    /\ platform = "macos" /\ manager = "stopping" /\ todo # {}
    /\ \E d \in todo :
          /\ todo' = todo \ {d}
          /\ \/ table' = Deleted(table, {d}) /\ UNCHANGED removalFailed
             \/ MayFail("command") /\ removalFailed' = TRUE /\ UNCHANGED table
    /\ UNCHANGED <<platform, hostVars, notices, heard, required, peer, manager, added, linuxVars,
                   best, macVars, stopSent, dropped>>

MacStopped ==
    /\ platform = "macos" /\ manager = "stopping" /\ todo = {}
    /\ manager' = "done"
    /\ UNCHANGED <<heard, table, todo, macVars>> /\ MacUnchanged

-----------------------------------------------------------------------------
\* RouteManager::stop has returned: the manager is done, or is no more.
StopReturns == stopSent /\ manager \in {"done", "failed"}

RoutesInit ==
    /\ platform \in Platforms
    /\ hostDefaults \in InitialDefaults /\ hostChanges = 0
    /\ table = [d \in Dests |-> NoNode]
    /\ notices = <<>> /\ heard = FALSE
    /\ manager = "none" /\ todo = {} /\ added = [d \in {} |-> NoNode]
    /\ known = {} /\ best = [f \in Families |-> NoNode]
    /\ needed = <<>> /\ pending = <<>>
    /\ mac = "Listening" /\ fetched = NoNode /\ stopSent = FALSE
    /\ removalFailed = FALSE /\ dropped = FALSE

HostStep == DefaultAppears \/ LinkLost

ManagerStep ==
    \/ LinuxNewListener \/ LinuxGetDefaultRoutes \/ MacGetDefaultRoutes \/ NewAddsRoute \/ NewDone
    \/ LinuxReadsNotice \/ LinuxNoticeFails \/ LinuxStartsChange \/ LinuxChangeDone
    \/ LinuxChangeFails \/ LinuxSeesStop \/ LinuxStopped
    \/ MacHears \/ MacObtains \/ MacDeletes \/ MacAdds \/ MacRelistens \/ MacDies
    \/ MacSeesStop \/ MacRemoves \/ MacStopped

-----------------------------------------------------------------------------
Changes     == [op : {"Add", "Remove"}, dest : Dests, node : Nodes, metric : Nat]
KnownRoutes == [fam : Families, node : Nodes, metric : Nat]

RoutesTypeOK ==
    /\ platform \in Platforms /\ hostDefaults \subseteq DefaultRoutes
    /\ hostChanges \in 0..MaxHostChanges
    /\ table \in [Dests -> Nodes \cup {NoNode, Gone}]
    /\ notices \in Seq(Changes) /\ needed \in Seq(Changes) /\ pending \in Seq(Changes)
    /\ Len(pending) <= 1 /\ known \subseteq KnownRoutes
    /\ heard \in BOOLEAN /\ stopSent \in BOOLEAN
    /\ removalFailed \in BOOLEAN /\ dropped \in BOOLEAN
    /\ required \subseteq Dests /\ peer \in Dests /\ todo \subseteq Dests
    /\ DOMAIN added \subseteq Dests /\ \A d \in DOMAIN added : added[d] \in Nodes
    /\ best \in [Families -> Nodes \cup {NoNode}] /\ fetched \in Nodes \cup {NoNode}
    /\ manager \in Live \cup {"none", "done", "failed", "broken"}
    /\ mac \in {"Listening", "Obtaining", "Deleting", "Adding", "Relisten"}
=============================================================================
