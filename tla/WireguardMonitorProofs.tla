----------------------- MODULE WireguardMonitorProofs -----------------------
(***************************************************************************)
(* Proofs about the WireGuard monitor and its route manager, for every set *)
(* of default routes, parameters and faults and for any number of changes  *)
(* of the host.                                                            *)
(***************************************************************************)
EXTENDS WireguardMonitor, Integers, FiniteSetTheorems, TLAPS

(***************************************************************************)
(* The inductive invariant.                                                *)
(***************************************************************************)

\* How far start, the manager and wait are goes together.
StepInv ==
    /\ phase \in {"config", "device", "turnOn"} => manager = "none"
    /\ phase = "routes" => manager \in {"new", "listening", "adding", "running", "failed", "broken"}
    /\ phase = "started" => manager \in {"running", "stopping", "done", "failed"}
    /\ phase = "failed" => manager \in {"none", "broken"}
    /\ wait = "none" <=> phase # "started"
    /\ stopSent => wait \in {"stopping", "stopTunnel", "down", "returned"}
    /\ wait \in {"stopTunnel", "down", "returned"} => manager \in {"done", "failed"}
    /\ manager \in {"stopping", "done"} => stopSent
    /\ "Down" \in sent => wait = "returned"

\* The device is there as long as start and wait need it.
DeviceInv ==
    /\ phase \in {"config", "device"} => device = "none"
    /\ phase = "turnOn" => device = "created"
    /\ phase = "routes" => device = "on"
    /\ phase = "failed" => device \in {"none", "off"}
    /\ wait \in {"recv", "stopRoutes", "stopping", "stopTunnel"} => device = "on"
    /\ wait \in {"down", "returned"} =>
          device \in {"off", "stuck"} /\ \A d \in Dests : table[d].dev # Tun

\* What wait receives was sent for a reason.
BoxInv ==
    /\ "Stop" \in ToSet(box) => asked
    /\ "PingErr" \in ToSet(box) => ping \in {"lost", "ended"}
    /\ phase # "started" => ping = "none"

\* The destinations in the tunnel: no default route, which is set as two halves, and not
\* the peer.
Inside == [fam : Families, net : {"low", "high", "lan"}]

RequiredInv ==
    /\ peer.net = "peer" /\ required \subseteq Inside
    /\ config.allowed \subseteq [fam : Families, net : {"all", "lan"}]
    /\ todo \subseteq Inside \cup {peer} /\ DOMAIN added \subseteq Inside \cup {peer}

\* No node that the manager knows of, means to use or has used for the peer is the
\* tunnel's; no other destination has a node that is not the tunnel's.
PeerNodesInv ==
    /\ \A k \in known : k.node.dev # Tun
    /\ \A f \in Families : best[f].dev # Tun
    /\ fetched.dev # Tun
    /\ \A i \in DOMAIN needed : needed[i].dest = peer /\ needed[i].node.dev # Tun
    /\ \A i \in DOMAIN pending : pending[i].dest = peer /\ pending[i].node.dev # Tun
    /\ table[peer].dev # Tun
    /\ \A d \in Dests \ {peer} : table[d] \in {Node(Tun, FALSE), NoNode, Gone}
    /\ \A d \in Dests : d.net = "all" => table[d].dev # Tun

\* Linux: the last change queued, if there is one, makes the peer follow the best node.
Addition == Change("Add", peer, best[peer.fam], 0)

Settled ==
    IF needed # <<>> THEN needed[Len(needed)] = Addition
    ELSE IF pending # <<>> THEN pending[1] = Addition
    ELSE table[peer] \in {best[peer.fam], Gone}

QueueInv ==
    /\ manager \in {"none", "new", "listening", "adding"} => needed = <<>> /\ pending = <<>>
    /\ platform = "linux" /\ best[peer.fam] # NoNode =>
          /\ manager = "adding" /\ peer \notin todo => table[peer] \in {best[peer.fam], Gone}
          /\ manager = "running" /\ ~dropped => Settled

\* Linux: what the host has and the manager does not know of will be read.
MissedInv ==
    platform = "linux" /\ manager \in {"adding", "running"} =>
       \A r \in hostDefaults :
          \/ \E k \in known : k.fam = r.fam /\ k.node.dev = r.dev
          \/ DefaultNotice("Add", r) \in ToSet(notices)

\* What new has set so far, it knows of; the peer comes last.
AddingInv ==
    /\ manager \in {"none", "new", "listening"} =>
          DOMAIN added = {} /\ \A d \in Dests : table[d] \notin Nodes
    /\ manager = "adding" =>
          /\ \A d \in Dests : table[d] \in Nodes => d \in DOMAIN added
          /\ todo # {} => peer \in todo /\ peer \notin DOMAIN added
    /\ manager = "broken" /\ table[peer] \in Nodes => todo = {} /\ peer \in DOMAIN added
    /\ phase = "failed" => \A d \in Dests \ {peer} : table[d] \notin Nodes

\* macOS: a stop removes the peer's route.
RemovalInv ==
    platform = "macos" =>
       /\ manager \in {"stopping", "done"} /\ best[peer.fam] # NoNode /\ ~removalFailed =>
             peer \in todo \/ table[peer] \notin Nodes
       /\ manager = "done" => todo = {}

WireguardInv ==
    /\ WireguardTypeOK /\ StepInv /\ DeviceInv /\ BoxInv /\ ResultHasCause /\ RequiredInv
    /\ PeerNodesInv /\ QueueInv /\ MissedInv /\ AddingInv /\ RemovalInv

(***************************************************************************)
(* What the pieces of a step assign has its type.                          *)
(***************************************************************************)

\* The elements of a finite set, put in some order, are a sequence.
LEMMA SetToSeqType ==
    ASSUME NEW S, IsFiniteSet(S)
    PROVE  SetToSeq(S) \in Seq(S)
<1>1. PICK f \in Bijection(1..Cardinality(S), S) : TRUE
      BY FS_CardinalityType DEF ExistsBijection
<1>2. f \in [1..Cardinality(S) -> S] /\ IsInjective(f)
      BY <1>1 DEF Bijection, Injection
<1>3. SetToSeq(S) \in [1..Cardinality(S) -> S]
      BY <1>2 DEF SetToSeq
<1> QED BY <1>3, FS_CardinalityType

LEMMA DestsFinite == IsFiniteSet(Dests)
<1> DEFINE N == {"all", "low", "high", "lan", "peer"}
           f == [p \in Families \X N |-> [fam |-> p[1], net |-> p[2]]]
<1>1. IsFiniteSet(Families)
  <2>1. Families = ({} \cup {"v4"}) \cup {"v6"}
        BY DEF Families
  <2> QED BY <2>1, FS_EmptySet, FS_AddElement
<1>2. IsFiniteSet(N)
  <2>1. N = ((((({} \cup {"all"}) \cup {"low"}) \cup {"high"}) \cup {"lan"}) \cup {"peer"})
        OBVIOUS
  <2> HIDE DEF N
  <2> QED BY <2>1, FS_EmptySet, FS_AddElement
<1>3. IsFiniteSet(Families \X N)
      BY <1>1, <1>2, FS_Product
<1>4. f \in [Families \X N -> Dests]
      BY DEF Dests
<1>5. ASSUME NEW d \in Dests PROVE \E p \in Families \X N : f[p] = d
  <2>1. <<d.fam, d.net>> \in Families \X N
        BY DEF Dests
  <2>2. f[<<d.fam, d.net>>] = d
        BY <2>1 DEF Dests
  <2> QED BY <2>1, <2>2
<1>6. f \in Surjection(Families \X N, Dests)
      BY <1>4, <1>5 DEF Surjection
<1> HIDE DEF f, N
<1> QED BY <1>3, <1>6, FS_Surjection

\* A message about a default route of the host, and one about a route of ours.
LEMMA NoticeType ==
    /\ \A op \in {"Add", "Remove"}, r \in DefaultRoutes :
          /\ DefaultNotice(op, r) \in Changes
          /\ DefaultNotice(op, r).node.dev # Tun
    /\ \A op \in {"Add", "Remove"}, d \in Dests, dev \in Devices :
          Notice(op, d, dev, OwnMetric(d)) \in Changes
BY DefaultRoutesAssumption
   DEF DefaultNotice, Notice, Change, Changes, Dests, Nodes, Node, Devices, Families, OwnMetric, Tun

\* What is announced of a device that went away.
LEMMA LinkNoticesType ==
    ASSUME NEW ours \in SUBSET Dests, NEW lost \in SUBSET DefaultRoutes, NEW dev \in Devices
    PROVE  SetToSeq({Notice("Remove", d, dev, OwnMetric(d)) : d \in ours})
           \o SetToSeq({DefaultNotice("Remove", r) : r \in lost}) \in Seq(Changes)
<1> DEFINE A == {Notice("Remove", d, dev, OwnMetric(d)) : d \in ours}
           B == {DefaultNotice("Remove", r) : r \in lost}
           f == [d \in ours |-> Notice("Remove", d, dev, OwnMetric(d))]
           g == [r \in lost |-> DefaultNotice("Remove", r)]
<1>1. IsFiniteSet(ours) /\ IsFiniteSet(lost)
      BY FS_Subset, DestsFinite, DefaultRoutesAssumption
<1>2. f \in Surjection(ours, A) /\ g \in Surjection(lost, B)
      BY DEF Surjection
<1>3. A \subseteq Changes /\ B \subseteq Changes
      BY NoticeType
<1> HIDE DEF f, g, A, B
<1>4. IsFiniteSet(A) /\ IsFiniteSet(B)
      BY <1>1, <1>2, FS_Surjection
<1>5. SetToSeq(A) \in Seq(A) /\ SetToSeq(B) \in Seq(B)
      BY <1>4, SetToSeqType
<1>6. SetToSeq(A) \in Seq(Changes) /\ SetToSeq(B) \in Seq(Changes)
      BY <1>3, <1>5
<1>7. SetToSeq(A) \o SetToSeq(B) \in Seq(Changes)
      BY <1>6
<1> QED BY <1>7 DEF A, B

LEMMA BestsType ==
    ASSUME NEW routes \in SUBSET KnownRoutes, NEW b \in Bests(routes)
    PROVE  /\ b \in [Families -> Nodes \cup {NoNode}]
           /\ \A f \in Families : b[f] = NoNode \/ \E k \in routes : b[f] = k.node
<1>1. \A f \in Families : \A n \in pick_best_default_node(routes, f) :
         n = NoNode \/ (n \in Nodes /\ \E k \in routes : n = k.node)
  <2> SUFFICES ASSUME NEW f \in Families, NEW n \in pick_best_default_node(routes, f), n # NoNode
               PROVE  n \in Nodes /\ \E k \in routes : n = k.node
      OBVIOUS
  <2> DEFINE rs == {r \in routes : r.fam = f}
  <2>1. rs # {} /\ n \in {r.node : r \in {q \in rs : \A s \in rs : q.metric <= s.metric}}
        BY DEF pick_best_default_node
  <2>2. PICK r \in routes : n = r.node
        BY <2>1
  <2> QED BY <2>2 DEF KnownRoutes
<1>2. b = [v4 |-> b.v4, v6 |-> b.v6] /\ b.v4 \in pick_best_default_node(routes, "v4")
      /\ b.v6 \in pick_best_default_node(routes, "v6")
      BY DEF Bests
<1>3. \A f \in Families : b[f] \in pick_best_default_node(routes, f)
      BY <1>2 DEF Families
<1>4. b \in [Families -> {b[f] : f \in Families}]
      BY <1>2 DEF Families
<1> QED BY <1>1, <1>3, <1>4

\* The host's default node is one of its own, unless a default route of ours hides it.
LEMMA HostDefaultType ==
    ASSUME RoutesTypeOK, NEW f \in Families
    PROVE  /\ HostDefault(f) \in Nodes \cup {NoNode}
           /\ table[[fam |-> f, net |-> "all"]].dev # Tun => HostDefault(f).dev # Tun
<1> DEFINE rs == {r \in hostDefaults : r.fam = f}
           M  == {r.metric : r \in rs}
<1>1. \A r \in rs : r \in DefaultRoutes /\ r.dev \in Devices /\ r.dev # Tun /\ r.metric \in Nat
      BY DefaultRoutesAssumption DEF RoutesTypeOK, Devices, Tun
<1>2. CASE table[[fam |-> f, net |-> "all"]].dev = Tun \/ rs = {}
      BY <1>2 DEF HostDefault, Nodes, Node, NoNode, Devices, Tun
<1>3. CASE table[[fam |-> f, net |-> "all"]].dev # Tun /\ rs # {}
  <2>1. M \in SUBSET Nat /\ M # {}
        BY <1>1, <1>3
  <2>2. \E m \in M : \A n \in M : m <= n
    <3> HIDE DEF M
    <3>1. PICK m \in M : \A n \in M : ~(<<n, m>> \in OpToRel(<, Nat))
          BY <2>1, NatLessThanWellFounded, WFMin
    <3>2. \A n \in M : ~(n < m)
      <4> SUFFICES ASSUME NEW n \in M, n < m PROVE FALSE
          OBVIOUS
      <4>1. <<n, m>> \in Nat \X Nat /\ <<n, m>>[1] < <<n, m>>[2]
            BY <2>1
      <4> QED BY <3>1, <4>1 DEF OpToRel
    <3> QED BY <2>1, <3>2
  <2>3. \E r \in rs : \A s \in rs : r.metric <= s.metric
        BY <2>2
  <2> DEFINE r == CHOOSE r \in rs : \A s \in rs : r.metric <= s.metric
  <2>4. r \in rs
        BY <2>3
  <2>5. HostDefault(f) = Node(r.dev, TRUE)
        BY <1>3 DEF HostDefault
  <2> HIDE DEF r, rs
  <2> QED BY <1>1, <2>4, <2>5 DEF Node, Nodes
<1> QED BY <1>2, <1>3

LEMMA AnnounceType ==
    ASSUME RoutesTypeOK, NEW msgs \in Seq(Changes), Announce(msgs)
    PROVE  notices' \in Seq(Changes) /\ heard' \in BOOLEAN
<1>1. notices' \in Seq(Changes)
  <2>1. notices \o msgs \in Seq(Changes)
        BY DEF RoutesTypeOK
  <2> QED BY <2>1, Zenon DEF Announce, RoutesTypeOK
<1>2. heard' \in BOOLEAN
      BY Zenon DEF Announce, RoutesTypeOK
<1> QED BY <1>1, <1>2

\* A queue without one of its changes holds the others in their order.
LEMMA WithoutType ==
    ASSUME NEW S, NEW q \in Seq(S), NEW c
    PROVE  /\ Without(q, c) \in Seq(S)
           /\ \A i \in DOMAIN Without(q, c) : \E j \in DOMAIN q : Without(q, c)[i] = q[j]
           /\ q # <<>> /\ q[Len(q)] # c
              => Without(q, c) # <<>> /\ Without(q, c)[Len(Without(q, c))] = q[Len(q)]
<1>1. CASE c \notin ToSet(q)
      BY <1>1 DEF Without
<1>2. CASE c \in ToSet(q)
  <2> DEFINE k == CHOOSE i \in DOMAIN q : q[i] = c
  <2>1. k \in 1..Len(q) /\ q[k] = c
        BY <1>2 DEF ToSet
  <2>2. Without(q, c) = SubSeq(q, 1, k-1) \o SubSeq(q, k+1, Len(q))
        BY <1>2 DEF Without, RemoveAt
  <2> HIDE DEF k
  <2>3. /\ SubSeq(q, 1, k-1) \in Seq(S) /\ Len(SubSeq(q, 1, k-1)) = k-1
        /\ \A i \in 1..(k-1) : SubSeq(q, 1, k-1)[i] = q[i]
        BY <2>1
  <2>4. /\ SubSeq(q, k+1, Len(q)) \in Seq(S) /\ Len(SubSeq(q, k+1, Len(q))) = Len(q) - k
        /\ \A i \in 1..(Len(q)-k) : SubSeq(q, k+1, Len(q))[i] = q[k + i]
        BY <2>1
  <2>5. /\ Without(q, c) \in Seq(S) /\ Len(Without(q, c)) = Len(q) - 1
        /\ \A i \in 1..(Len(q)-1) : Without(q, c)[i] = IF i < k THEN q[i] ELSE q[i+1]
    <3> DEFINE a == SubSeq(q, 1, k-1)
               b == SubSeq(q, k+1, Len(q))
    <3>1. /\ a \in Seq(S) /\ Len(a) = k-1 /\ \A i \in 1..(k-1) : a[i] = q[i]
          /\ b \in Seq(S) /\ Len(b) = Len(q) - k /\ \A i \in 1..(Len(q)-k) : b[i] = q[k + i]
          BY <2>3, <2>4
    <3> HIDE DEF a, b
    <3>2. /\ a \o b \in Seq(S) /\ Len(a \o b) = Len(a) + Len(b)
          /\ \A i \in 1..(Len(a) + Len(b)) :
                (a \o b)[i] = IF i <= Len(a) THEN a[i] ELSE b[i - Len(a)]
      <4>1. a \in Seq(S) /\ b \in Seq(S)
            BY <3>1
      <4>2. a \o b \in Seq(S)
            BY <4>1
      <4>3. Len(a \o b) = Len(a) + Len(b)
            BY <4>1
      <4>4. \A i \in 1..(Len(a) + Len(b)) :
                (a \o b)[i] = IF i <= Len(a) THEN a[i] ELSE b[i - Len(a)]
            BY <4>1
      <4> QED BY <4>2, <4>3, <4>4
    <3>3. Len(a) + Len(b) = Len(q) - 1
          BY <2>1, <3>1
    <3>4. ASSUME NEW i \in 1..(Len(q)-1)
          PROVE  (a \o b)[i] = IF i < k THEN q[i] ELSE q[i+1]
      <4>1. CASE i < k
            BY <2>1, <3>1, <3>2, <3>3, <4>1
      <4>2. CASE ~(i < k)
        <5>1. i - Len(a) \in 1..(Len(q)-k) /\ k + (i - Len(a)) = i + 1
              BY <2>1, <3>1, <4>2
        <5>2. (a \o b)[i] = b[i - Len(a)]
              BY <2>1, <3>1, <3>2, <3>3, <4>2
        <5> QED BY <3>1, <4>2, <5>1, <5>2
      <4> QED BY <4>1, <4>2
    <3> QED BY <2>2, <3>2, <3>3, <3>4 DEF a, b
  <2> DEFINE w == Without(q, c)
  <2>6. /\ w \in Seq(S) /\ Len(w) = Len(q) - 1 /\ Len(q) \in Nat
        /\ \A i \in 1..(Len(q)-1) : w[i] = IF i < k THEN q[i] ELSE q[i+1]
        BY <2>5
  <2> HIDE DEF w
  <2>7. ASSUME NEW i \in DOMAIN w
        PROVE  \E j \in DOMAIN q : w[i] = q[j]
    <3>1. i \in 1..(Len(q)-1) /\ i \in DOMAIN q /\ i+1 \in DOMAIN q
          BY <2>6
    <3>2. w[i] = q[i] \/ w[i] = q[i+1]
          BY <2>6, <3>1
    <3> QED BY <3>1, <3>2
  <2>8. ASSUME q[Len(q)] # c
        PROVE  w # <<>> /\ w[Len(w)] = q[Len(q)]
    <3>1. k < Len(q) /\ Len(q)-1 \in 1..(Len(q)-1)
          BY <2>1, <2>6, <2>8
    <3>2. ~(Len(q)-1 < k) /\ (Len(q)-1) + 1 = Len(q)
          BY <2>1, <2>6, <3>1
    <3>3. w[Len(q)-1] = q[Len(q)]
          BY <2>6, <3>1, <3>2
    <3>4. w # <<>>
          BY <2>6, <3>1
    <3> QED BY <2>6, <3>3, <3>4
  <2> QED BY <2>6, <2>7, <2>8 DEF w
<1> QED BY <1>1, <1>2

\* The table after a command or the loss of a device.
LEMMA TableType ==
    ASSUME RoutesTypeOK, NEW D
    PROVE  /\ Deleted(table, D) \in [Dests -> Nodes \cup {NoNode, Gone}]
           /\ \A d \in Dests : Deleted(table, D)[d] = IF d \in D THEN NoNode ELSE table[d]
           /\ \A d \in Dests, n \in Nodes :
                 /\ Added(table, d, n) \in [Dests -> Nodes \cup {NoNode, Gone}]
                 /\ \A e \in Dests : Added(table, d, n)[e] = IF e = d THEN n ELSE table[e]
BY DEF RoutesTypeOK, Deleted, Added

LEMMA EnqueType ==
    ASSUME NEW q \in Seq(Changes), NEW c \in Changes
    PROVE  /\ enque_route_change(q, c) \in Seq(Changes)
           /\ \A i \in DOMAIN enque_route_change(q, c) :
                 \/ enque_route_change(q, c)[i] = c
                 \/ \E j \in DOMAIN q : enque_route_change(q, c)[i] = q[j]
           /\ ~Queued(q, c) => /\ enque_route_change(q, c) # <<>>
                               /\ enque_route_change(q, c)[Len(enque_route_change(q, c))] = c
           /\ \A a : Queued(enque_route_change(q, c), a) => a = c \/ Queued(q, a)
<1>1. CASE Queued(q, c)
      BY <1>1 DEF enque_route_change
<1>2. CASE ~Queued(q, c)
  <2>1. enque_route_change(q, c) = Append(q, c)
        BY <1>2 DEF enque_route_change
  <2>2. /\ Append(q, c) \in Seq(Changes) /\ Len(Append(q, c)) = Len(q) + 1
        /\ \A i \in 1..Len(q) : Append(q, c)[i] = q[i]
        /\ Append(q, c)[Len(q) + 1] = c
        OBVIOUS
  <2> HIDE DEF enque_route_change
  <2> QED BY <1>2, <2>1, <2>2 DEF Queued, ToSet
<1> QED BY <1>1, <1>2

\* update_default_rotues leaves the queue alone, or puts the addition of the new best node
\* at its end.
LEMMA UpdateType ==
    ASSUME RoutesTypeOK, best' \in [Families -> Nodes \cup {NoNode}], NEW q \in Seq(Changes),
           NEW u, u = update_default_rotues(q)
    PROVE  /\ u \in Seq(Changes)
           /\ \A i \in DOMAIN u :
                 \/ \E j \in DOMAIN q : u[i] = q[j]
                 \/ u[i].dest = peer /\ u[i].node \in {best[peer.fam], best'[peer.fam]}
           /\ best'[peer.fam] \in {best[peer.fam], NoNode} => u = q
           /\ /\ best'[peer.fam] \notin {best[peer.fam], NoNode}
              /\ ~Queued(q, Change("Add", peer, best'[peer.fam], 0))
              => u # <<>> /\ u[Len(u)] = Change("Add", peer, best'[peer.fam], 0)
<1> DEFINE old == best[peer.fam]
           new == best'[peer.fam]
           rem == Change("Remove", peer, old, 0)
           add == Change("Add", peer, new, 0)
           w == IF old = NoNode THEN q ELSE enque_route_change(q, rem)
<1>1. CASE new \in {old, NoNode}
      BY <1>1 DEF update_default_rotues
<1>2. CASE new \notin {old, NoNode}
  <2>1. peer \in Dests /\ peer.fam \in Families /\ new \in Nodes /\ (old = NoNode \/ old \in Nodes)
        BY <1>2 DEF RoutesTypeOK, Dests
  <2>2. add \in Changes /\ (old # NoNode => rem \in Changes)
        BY <2>1 DEF Change, Changes
  <2>3. u = enque_route_change(w, add)
        BY <1>2 DEF update_default_rotues
  <2>4. add # rem
        BY DEF Change
  <2>5. add.dest = peer /\ add.node = new /\ rem.dest = peer /\ rem.node = old
        BY DEF Change
  <2> HIDE DEF add, rem
  <2>6. /\ w \in Seq(Changes)
        /\ \A i \in DOMAIN w : w[i] = rem \/ \E j \in DOMAIN q : w[i] = q[j]
        /\ Queued(w, add) => Queued(q, add)
        BY <2>2, <2>4, EnqueType
  <2> HIDE DEF w
  <2>7. /\ u \in Seq(Changes)
        /\ \A i \in DOMAIN u : u[i] = add \/ \E j \in DOMAIN w : u[i] = w[j]
        /\ ~Queued(w, add) => u # <<>> /\ u[Len(u)] = add
    <3> DEFINE v == enque_route_change(w, add)
    <3>1. /\ v \in Seq(Changes)
          /\ \A i \in DOMAIN v : v[i] = add \/ \E j \in DOMAIN w : v[i] = w[j]
          /\ ~Queued(w, add) => v # <<>> /\ v[Len(v)] = add
          BY <2>2, <2>6, EnqueType
    <3> QED BY <2>3, <3>1
  <2>8. \A i \in DOMAIN u : u[i] = add \/ u[i] = rem \/ \E j \in DOMAIN q : u[i] = q[j]
        BY <2>6, <2>7
  <2>9. ~Queued(q, add) => u # <<>> /\ u[Len(u)] = add
        BY <2>6, <2>7
  <2> QED BY <1>2, <2>5, <2>7, <2>8, <2>9 DEF add
<1> QED BY <1>1, <1>2

(***************************************************************************)
(* Every variable keeps its type.                                          *)
(***************************************************************************)

\* The steps of start, of the ping thread, of close and of wait.
LEMMA MonitorStepRoutesType ==
    ASSUME WireguardTypeOK, RequiredInv,
           StartStep \/ FirstPing \/ SendUp \/ MonitorPing \/ Close \/ WaitStep
    PROVE  RoutesTypeOK'
<1> DEFINE closed == [d \in Dests |-> IF table[d].dev = Tun THEN Gone ELSE table[d]]
<1>1. closed \in [Dests -> Nodes \cup {NoNode, Gone}]
      BY DEF WireguardTypeOK, RoutesTypeOK
<1>2. get_tunnel_routes(config) \subseteq Dests
      BY DEF get_tunnel_routes, RequiredInv, Dests
<1> USE DEF WireguardTypeOK, RoutesTypeOK, routeVars, hostVars, linuxVars, macVars, histories
<1>3. CASE MakeConfig \/ CreateTun
      BY <1>3 DEF MakeConfig, CreateTun, RoutesUnchanged
<1>4. CASE TurnOn
      BY <1>1, <1>2, <1>4 DEF TurnOn, RoutesUnchanged, CloseDevice, Live
<1>5. CASE StartEnds
      BY <1>1, <1>5 DEF StartEnds, RoutesUnchanged, CloseDevice
<1>6. CASE FirstPing \/ SendUp \/ MonitorPing \/ Close
      BY <1>6 DEF FirstPing, SendUp, MonitorPing, Close, PingUnchanged
<1>7. CASE WaitStopsTunnel
      BY <1>1, <1>7 DEF WaitStopsTunnel, WaitUnchanged, CloseDevice
<1>8. CASE WaitReceives \/ WaitStopsRoutes \/ WaitRoutesStopped \/ WaitSendsDown
      BY <1>8 DEF WaitReceives, WaitStopsRoutes, WaitRoutesStopped, WaitSendsDown, WaitUnchanged
<1> QED BY <1>3, <1>4, <1>5, <1>6, <1>7, <1>8 DEF StartStep, WaitStep

LEMMA HostStepRoutesType ==
    ASSUME RoutesTypeOK, HostStep
    PROVE  RoutesTypeOK'
<1> USE DEF HostUnchanged, linuxVars, macVars, histories
<1>1. CASE DefaultAppears
  <2>1. PICK r \in DefaultRoutes : /\ hostDefaults' = hostDefaults \cup {r}
                                   /\ Announce(<<DefaultNotice("Add", r)>>)
        BY <1>1 DEF DefaultAppears
  <2>2. <<DefaultNotice("Add", r)>> \in Seq(Changes)
        BY NoticeType
  <2>3. notices' \in Seq(Changes) /\ heard' \in BOOLEAN
        BY <2>1, <2>2, AnnounceType
  <2>4. hostChanges' \in 0..MaxHostChanges
        BY <1>1, DefaultRoutesAssumption DEF DefaultAppears, RoutesTypeOK
  <2> QED BY <1>1, <2>1, <2>3, <2>4 DEF DefaultAppears, RoutesTypeOK
<1>2. CASE LinkLost
  <2>1. PICK dev \in Links \ {Tun}, told \in BOOLEAN :
          LET lost == {r \in hostDefaults : r.dev = dev}
              ours == {d \in Dests : table[d].dev = dev}
          IN  /\ hostDefaults' = hostDefaults \ lost
              /\ table' = [d \in Dests |-> IF d \in ours THEN Gone ELSE table[d]]
              /\ Announce(IF ~told THEN <<>>
                          ELSE SetToSeq({Notice("Remove", d, dev, OwnMetric(d)) : d \in ours})
                               \o SetToSeq({DefaultNotice("Remove", r) : r \in lost}))
        BY <1>2 DEF LinkLost
  <2> DEFINE lost == {r \in hostDefaults : r.dev = dev}
             ours == {d \in Dests : table[d].dev = dev}
             msgs == IF ~told THEN <<>>
                     ELSE SetToSeq({Notice("Remove", d, dev, OwnMetric(d)) : d \in ours})
                          \o SetToSeq({DefaultNotice("Remove", r) : r \in lost})
  <2>2. dev \in Devices
        BY DEF Links, Devices, RoutesTypeOK
  <2>3. lost \in SUBSET DefaultRoutes /\ ours \in SUBSET Dests
        BY DEF RoutesTypeOK
  <2>4. msgs \in Seq(Changes)
    <3> HIDE DEF ours, lost
    <3> QED BY <2>2, <2>3, LinkNoticesType
  <2>5. Announce(msgs)
        BY <2>1
  <2> HIDE DEF msgs
  <2>6. notices' \in Seq(Changes) /\ heard' \in BOOLEAN
        BY <2>4, <2>5, AnnounceType
  <2>7. table' \in [Dests -> Nodes \cup {NoNode, Gone}] /\ hostDefaults' \subseteq DefaultRoutes
        BY <2>1 DEF RoutesTypeOK
  <2>8. hostChanges' \in 0..MaxHostChanges
        BY <1>2, DefaultRoutesAssumption DEF LinkLost, RoutesTypeOK
  <2> QED BY <1>2, <2>6, <2>7, <2>8 DEF LinkLost, RoutesTypeOK
<1> QED BY <1>1, <1>2 DEF HostStep

LEMMA NewStepRoutesType ==
    ASSUME RoutesTypeOK,
           LinuxNewListener \/ LinuxGetDefaultRoutes \/ MacGetDefaultRoutes \/ NewAddsRoute \/ NewDone
    PROVE  RoutesTypeOK'
<1> USE DEF hostVars, linuxVars, macVars, histories
<1>1. CASE LinuxNewListener
      BY <1>1 DEF LinuxNewListener, NewFails, RoutesTypeOK, Live
<1>2. CASE LinuxGetDefaultRoutes
  <2>1. {Shown(r) : r \in hostDefaults} \subseteq KnownRoutes
    <3> SUFFICES ASSUME NEW r \in hostDefaults PROVE Shown(r) \in KnownRoutes
        OBVIOUS
    <3>1. r.fam \in Families /\ r.dev \in Devices /\ r.metric \in Nat
          BY DefaultRoutesAssumption DEF RoutesTypeOK, Devices, Families
    <3> QED BY <3>1 DEF Shown, KnownRoutes, Node, Nodes
  <2>2. known' \subseteq KnownRoutes /\ best' \in [Families -> Nodes \cup {NoNode}]
        BY <1>2, <2>1, BestsType DEF LinuxGetDefaultRoutes, RoutesTypeOK
  <2> QED BY <1>2, <2>2 DEF LinuxGetDefaultRoutes, NewFails, RoutesTypeOK, Live
<1>3. CASE MacGetDefaultRoutes
  <2>1. best' \in [Families -> Nodes \cup {NoNode}]
        BY <1>3, HostDefaultType DEF MacGetDefaultRoutes
  <2> QED BY <1>3, <2>1 DEF MacGetDefaultRoutes, NewFails, RoutesTypeOK, Live
<1>4. CASE NewAddsRoute
  <2>1. PICK d \in todo : 
          \/ /\ NodeOf(d) = NoNode
             /\ UNCHANGED <<table, added, manager, notices>> /\ todo' = todo \ {d}
          \/ /\ NodeOf(d) # NoNode
             /\ table' = Added(table, d, NodeOf(d)) /\ todo' = todo \ {d}
             /\ added' = [x \in DOMAIN added \cup {d} |-> IF x = d THEN NodeOf(d) ELSE added[x]]
             /\ notices' \in {notices, Append(notices, Notice("Add", d, NodeOf(d).dev, OwnMetric(d)))}
             /\ UNCHANGED manager
          \/ /\ NodeOf(d) # NoNode
             /\ todo' = todo \ {d} /\ UNCHANGED <<table, manager, notices>>
             /\ added' = [x \in DOMAIN added \cup {d} |-> IF x = d THEN NodeOf(d) ELSE added[x]]
          \/ /\ NodeOf(d) # NoNode /\ AddFails /\ UNCHANGED notices
        BY <1>4 DEF NewAddsRoute
  <2>2. d \in Dests /\ d.fam \in Families
        BY DEF RoutesTypeOK, Dests
  <2>3. NodeOf(d) # NoNode => NodeOf(d) \in Nodes /\ NodeOf(d).dev \in Devices
        BY <2>2 DEF RoutesTypeOK, NodeOf, Nodes, Node, Devices
  <2>4. NodeOf(d) # NoNode => Append(notices, Notice("Add", d, NodeOf(d).dev, OwnMetric(d))) \in Seq(Changes)
        BY <2>2, <2>3, NoticeType DEF RoutesTypeOK
  <2>5. table' \in [Dests -> Nodes \cup {NoNode, Gone}]
        BY <2>1, <2>2, <2>3, TableType DEF AddFails, RoutesTypeOK
  <2>6. notices' \in Seq(Changes)
        BY <2>1, <2>4 DEF RoutesTypeOK
  <2>7. todo' \subseteq Dests /\ manager' \in {manager, "broken"}
        BY <2>1 DEF RoutesTypeOK, AddFails
  <2>8. DOMAIN added' \subseteq Dests /\ \A x \in DOMAIN added' : added'[x] \in Nodes
        BY <2>1, <2>2, <2>3 DEF RoutesTypeOK, AddFails
  <2> QED BY <1>4, <2>5, <2>6, <2>7, <2>8 DEF NewAddsRoute, RoutesTypeOK
<1>5. CASE NewDone
      BY <1>5 DEF NewDone, NewFails, RoutesTypeOK, Live
<1> QED BY <1>1, <1>2, <1>3, <1>4, <1>5

LEMMA LinuxStepRoutesType ==
    ASSUME RoutesTypeOK,
           \/ LinuxReadsNotice \/ LinuxNoticeFails \/ LinuxStartsChange \/ LinuxChangeDone
           \/ LinuxChangeFails \/ LinuxSeesStop \/ LinuxStopped
    PROVE  RoutesTypeOK'
<1>0. <<>> \in Seq(Changes) /\ Len(<<>>) <= 1
      OBVIOUS
<1> USE DEF hostVars, linuxVars, macVars, histories
<1>1. CASE LinuxReadsNotice
  <2>1. Head(notices) \in Changes /\ Tail(notices) \in Seq(Changes)
        BY <1>1 DEF LinuxReadsNotice, RoutesTypeOK
  <2>2. known' \subseteq KnownRoutes
        BY <1>1, <2>1 DEF LinuxReadsNotice, RoutesTypeOK, Changes, KnownRoutes, Dests
  <2>3. best' \in [Families -> Nodes \cup {NoNode}]
        BY <1>1, <2>2, BestsType DEF LinuxReadsNotice, RoutesTypeOK
  <2>4. Without(needed, Head(notices)) \in Seq(Changes)
        BY WithoutType DEF RoutesTypeOK
  <2>5. needed' \in Seq(Changes)
        BY <1>1, <2>3, <2>4, UpdateType DEF LinuxReadsNotice
  <2>6. dropped' \in BOOLEAN
        BY <1>1, Zenon DEF LinuxReadsNotice
  <2> QED BY <1>1, <2>1, <2>2, <2>3, <2>5, <2>6 DEF LinuxReadsNotice, RoutesTypeOK
<1>2. CASE LinuxNoticeFails \/ LinuxChangeFails
      BY <1>0, <1>2 DEF LinuxNoticeFails, LinuxChangeFails, LinuxDies, RoutesTypeOK
<1>3. CASE LinuxStartsChange
  <2>1. pending' \in Seq(Changes) /\ Len(pending') <= 1 /\ needed' \in Seq(Changes)
        BY <1>3 DEF LinuxStartsChange, RoutesTypeOK
  <2> QED BY <1>3, <2>1 DEF LinuxStartsChange, RoutesTypeOK
<1>4. CASE LinuxChangeDone
  <2> DEFINE c == pending[1]
  <2>1. c \in Changes
        BY <1>4 DEF LinuxChangeDone, RoutesTypeOK
  <2>2. c.op \in {"Add", "Remove"} /\ c.dest \in Dests /\ c.node \in Nodes /\ c.node.dev \in Devices
        BY <2>1 DEF Changes, Nodes
  <2>3. Announce(<<Notice(c.op, c.dest, c.node.dev, OwnMetric(c.dest))>>)
        BY <1>4 DEF LinuxChangeDone
  <2> HIDE DEF c
  <2>4. notices' \in Seq(Changes) /\ heard' \in BOOLEAN
    <3>1. <<Notice(c.op, c.dest, c.node.dev, OwnMetric(c.dest))>> \in Seq(Changes)
          BY <2>2, NoticeType
    <3> QED BY <2>3, <3>1, AnnounceType
  <2>5. table' \in [Dests -> Nodes \cup {NoNode, Gone}]
        BY <1>4, <2>2, TableType DEF LinuxChangeDone, c
  <2>6. DOMAIN added' \subseteq Dests /\ \A x \in DOMAIN added' : added'[x] \in Nodes
        BY <1>4, <2>2 DEF LinuxChangeDone, c, RoutesTypeOK
  <2> QED BY <1>0, <1>4, <2>4, <2>5, <2>6 DEF LinuxChangeDone, RoutesTypeOK
<1>5. CASE LinuxSeesStop \/ LinuxStopped
      BY <1>0, <1>5 DEF LinuxSeesStop, LinuxStopped, RoutesTypeOK, Live
<1> QED BY <1>1, <1>2, <1>3, <1>4, <1>5

LEMMA MacStepRoutesType ==
    ASSUME RoutesTypeOK,
           \/ MacHears \/ MacObtains \/ MacDeletes \/ MacAdds \/ MacRelistens \/ MacDies
           \/ MacSeesStop \/ MacRemoves \/ MacStopped
    PROVE  RoutesTypeOK'
<1> USE DEF hostVars, linuxVars, macVars, histories, MacUnchanged
<1>1. CASE MacHears \/ MacRelistens \/ MacDies \/ MacStopped
      BY <1>1 DEF MacHears, MacRelistens, MacDies, MacStopped, RoutesTypeOK, Live
<1>2. CASE MacObtains
  <2>1. fetched' \in Nodes \cup {NoNode}
        BY <1>2, HostDefaultType DEF MacObtains, RoutesTypeOK, Dests
  <2> QED BY <1>2, <2>1 DEF MacObtains, RoutesTypeOK
<1>3. CASE MacDeletes
  <2>1. table' \in [Dests -> Nodes \cup {NoNode, Gone}]
        BY <1>3, TableType DEF MacDeletes, RoutesTypeOK
  <2> QED BY <1>3, <2>1 DEF MacDeletes, RoutesTypeOK
<1>4. CASE MacAdds
  <2>1. CanAdd(fetched) => fetched \in Nodes
        BY DefaultRoutesAssumption DEF RoutesTypeOK, CanAdd, Links, NoNode, Node, Tun
  <2>2. table' \in [Dests -> Nodes \cup {NoNode, Gone}]
        BY <1>4, <2>1, TableType DEF MacAdds, RoutesTypeOK
  <2> QED BY <1>4, <2>2 DEF MacAdds, RoutesTypeOK
<1>5. CASE MacSeesStop
      BY <1>5 DEF MacSeesStop, RoutesTypeOK, Live
<1>6. CASE MacRemoves
  <2>1. table' \in [Dests -> Nodes \cup {NoNode, Gone}]
        BY <1>6, TableType DEF MacRemoves, RoutesTypeOK
  <2> QED BY <1>6, <2>1 DEF MacRemoves, RoutesTypeOK
<1> QED BY <1>1, <1>2, <1>3, <1>4, <1>5, <1>6

\* A relay's peers and networks have an address family that is in use.
LEMMA ConfigType ==
    ASSUME NEW p \in Params
    PROVE  /\ ConfigNew(p) \in [fams : SUBSET Families, allowed : SUBSET Dests,
                                gateways : SUBSET Families]
           /\ ConfigNew(p).allowed \subseteq [fam : Families, net : {"all", "lan"}]
<1>1. \A F \in SUBSET Families : Usable(p, F) \subseteq Families
      BY DEF Usable
<1>2. p.allowed_ips \subseteq [fam : Families, net : {"all", "lan"}]
      /\ p.addresses \subseteq Families /\ p.gateways \subseteq Families
      BY ParamsAssumption DEF Families
<1>3. [fam : Families, net : {"all", "lan"}] \subseteq Dests
      BY DEF Dests
<1> QED BY <1>1, <1>2, <1>3 DEF ConfigNew

LEMMA WireguardTypeNext ==
    ASSUME WireguardTypeOK, RequiredInv, [Next]_vars
    PROVE  WireguardTypeOK'
<1>1. CASE HostStep /\ UNCHANGED monitorVars
      BY <1>1, HostStepRoutesType DEF WireguardTypeOK, monitorVars
<1>2. CASE ManagerStep /\ UNCHANGED monitorVars
  <2>1. RoutesTypeOK'
        BY <1>2, NewStepRoutesType, LinuxStepRoutesType, MacStepRoutesType
           DEF ManagerStep, WireguardTypeOK
  <2> QED BY <1>2, <2>1 DEF WireguardTypeOK, monitorVars
<1>3. CASE StartStep
  <2>1. RoutesTypeOK'
        BY <1>3, MonitorStepRoutesType
  <2>2. config' \in {config, ConfigNew(params)}
        BY <1>3 DEF StartStep, MakeConfig, CreateTun, TurnOn, StartEnds
  <2>3. config' \in [fams : SUBSET Families, allowed : SUBSET Dests, gateways : SUBSET Families]
        BY <2>2, ConfigType DEF WireguardTypeOK
  <2> HIDE DEF RoutesTypeOK
  <2> QED BY <1>3, <2>1, <2>3 DEF StartStep, MakeConfig, CreateTun, TurnOn, StartEnds, StartUnchanged,
          CloseDevice, WireguardTypeOK
<1>4. CASE FirstPing \/ SendUp \/ MonitorPing \/ Close
  <2>1. RoutesTypeOK'
        BY <1>4, MonitorStepRoutesType
  <2>2. box' \in Seq({"Stop", "PingErr"})
        BY <1>4 DEF FirstPing, SendUp, MonitorPing, Close, Send, WireguardTypeOK
  <2>3. asked' \in BOOLEAN
        BY <1>4 DEF FirstPing, SendUp, MonitorPing, Close, PingUnchanged, WireguardTypeOK
  <2>4. sent' \subseteq {"Up", "Down"}
        BY <1>4 DEF FirstPing, SendUp, MonitorPing, Close, WireguardTypeOK
  <2>5. ping' \in {"none", "first", "answered", "monitor", "lost", "ended"}
        BY <1>4 DEF FirstPing, SendUp, MonitorPing, Close, WireguardTypeOK
  <2>6. UNCHANGED <<params, phase, config, device, wait, result>>
        BY <1>4 DEF FirstPing, SendUp, MonitorPing, Close, PingUnchanged
  <2> QED BY <2>1, <2>2, <2>3, <2>4, <2>5, <2>6 DEF WireguardTypeOK
<1>5. CASE WaitStep
  <2>1. RoutesTypeOK'
        BY <1>5, MonitorStepRoutesType
  <2>2. box' \in Seq({"Stop", "PingErr"})
    <3>1. <<>> \in Seq({"Stop", "PingErr"})
          OBVIOUS
    <3> QED BY <1>5, <3>1 DEF WaitStep, WaitReceives, WaitStopsRoutes, WaitRoutesStopped, WaitStopsTunnel,
            WaitSendsDown, WireguardTypeOK
  <2> QED BY <1>5, <2>1, <2>2 DEF WaitStep, WaitReceives, WaitStopsRoutes, WaitRoutesStopped,
          WaitStopsTunnel, WaitSendsDown, WaitUnchanged, CloseDevice, WireguardTypeOK
<1>6. CASE UNCHANGED vars
      BY <1>6 DEF vars, routeVars, monitorVars, hostVars, linuxVars, macVars, histories,
         WireguardTypeOK, RoutesTypeOK
<1> QED BY <1>1, <1>2, <1>3, <1>4, <1>5, <1>6 DEF Next

(***************************************************************************)
(* How far start, the manager and wait are.                                *)
(***************************************************************************)

LEMMA HostEffect ==
    ASSUME HostStep
    PROVE  UNCHANGED <<manager, stopSent, platform, peer, required, todo, added, best, known,
                       needed, pending, fetched, removalFailed, dropped>>
BY DEF HostStep, DefaultAppears, LinkLost, HostUnchanged, linuxVars, macVars, histories

LEMMA ManagerEffect ==
    ASSUME ManagerStep
    PROVE  /\ UNCHANGED <<stopSent, platform, peer, required>>
           /\ \/ manager' = manager /\ manager \in {"adding", "running", "stopping"}
              \/ /\ manager \in {"new", "listening", "adding"}
                 /\ manager' \in {"listening", "adding", "running", "broken"}
              \/ manager = "running" /\ manager' = "failed"
              \/ manager = "running" /\ manager' = "stopping" /\ stopSent
              \/ manager = "stopping" /\ manager' \in {"done", "failed"}
<1>1. CASE LinuxNewListener \/ LinuxGetDefaultRoutes \/ MacGetDefaultRoutes
      BY <1>1 DEF LinuxNewListener, LinuxGetDefaultRoutes, MacGetDefaultRoutes, NewFails
<1>2. CASE NewAddsRoute \/ NewDone
      BY <1>2 DEF NewAddsRoute, NewDone, NewFails, AddFails
<1>3. CASE LinuxReadsNotice \/ LinuxStartsChange \/ LinuxChangeDone
      BY <1>3 DEF LinuxReadsNotice, LinuxStartsChange, LinuxChangeDone, LinuxUp
<1>4. CASE LinuxNoticeFails \/ LinuxChangeFails \/ LinuxSeesStop \/ LinuxStopped
      BY <1>4 DEF LinuxNoticeFails, LinuxChangeFails, LinuxSeesStop, LinuxStopped, LinuxUp,
         LinuxDies
<1>5. CASE MacHears \/ MacObtains \/ MacDeletes \/ MacAdds \/ MacRelistens
      BY <1>5 DEF MacHears, MacObtains, MacDeletes, MacAdds, MacRelistens, MacUp, MacUnchanged
<1>6. CASE MacDies \/ MacSeesStop \/ MacRemoves \/ MacStopped
      BY <1>6 DEF MacDies, MacSeesStop, MacRemoves, MacStopped, MacUp, MacUnchanged
<1> QED BY <1>1, <1>2, <1>3, <1>4, <1>5, <1>6 DEF ManagerStep

LEMMA StepInvNext ==
    ASSUME WireguardTypeOK, StepInv, [Next]_vars
    PROVE  StepInv'
<1>1. CASE HostStep /\ UNCHANGED monitorVars
      BY <1>1, HostEffect DEF StepInv, monitorVars
<1>2. CASE ManagerStep /\ UNCHANGED monitorVars
      BY <1>2, ManagerEffect DEF StepInv, monitorVars
<1>3. CASE StartStep
      BY <1>3 DEF StartStep, MakeConfig, CreateTun, TurnOn, StartEnds, StartUnchanged,
         RoutesUnchanged, CloseDevice, StepInv
<1>4. CASE FirstPing \/ SendUp \/ MonitorPing \/ Close
      BY <1>4 DEF FirstPing, SendUp, MonitorPing, Close, PingUnchanged, routeVars, StepInv
<1>5. CASE WaitStep
      BY <1>5 DEF WaitStep, WaitReceives, WaitStopsRoutes, WaitRoutesStopped, WaitStopsTunnel,
         WaitSendsDown, WaitUnchanged, CloseDevice, StopReturns, StepInv, WireguardTypeOK
<1>6. CASE UNCHANGED vars
      BY <1>6 DEF vars, routeVars, monitorVars, StepInv
<1> QED BY <1>1, <1>2, <1>3, <1>4, <1>5, <1>6 DEF Next

\* The message that wait receives was sent after what it stands for.
LEMMA CauseNext ==
    ASSUME WireguardTypeOK, BoxInv, ResultHasCause, [Next]_vars
    PROVE  BoxInv' /\ ResultHasCause'
<1> USE DEF StartUnchanged
<1>1. \A q \in Seq({"Stop", "PingErr"}), m \in {"Stop", "PingErr"} :
         \A x : x \in ToSet(Append(q, m)) => x \in ToSet(q) \/ x = m
      BY DEF ToSet
<1>2. ASSUME NEW m \in {"Stop", "PingErr"}, Send(m)
      PROVE  \A x : x \in ToSet(box') => x \in ToSet(box) \/ x = m
      BY <1>1, <1>2 DEF Send, WireguardTypeOK
<1>3. CASE FirstPing \/ SendUp \/ MonitorPing
      BY <1>2, <1>3 DEF FirstPing, SendUp, MonitorPing, PingUnchanged, BoxInv, ResultHasCause
<1>4. CASE Close
      BY <1>2, <1>4 DEF Close, BoxInv, ResultHasCause
<1>5. CASE WaitReceives
  <2>1. Head(box) \in ToSet(box) /\ Head(box) \in {"Stop", "PingErr"}
        BY <1>5 DEF WaitReceives, WireguardTypeOK, ToSet
  <2>2. ToSet(<<>>) = {}
        BY DEF ToSet
  <2> QED BY <1>5, <2>1, <2>2 DEF WaitReceives, WaitUnchanged, BoxInv, ResultHasCause
<1>6. CASE WaitStopsRoutes \/ WaitRoutesStopped \/ WaitStopsTunnel \/ WaitSendsDown
      BY <1>6 DEF WaitStopsRoutes, WaitRoutesStopped, WaitStopsTunnel, WaitSendsDown, WaitUnchanged,
         BoxInv, ResultHasCause
<1>7. CASE StartStep
      BY <1>7 DEF StartStep, MakeConfig, CreateTun, TurnOn, StartEnds, StartUnchanged, BoxInv,
         ResultHasCause
<1>8. CASE UNCHANGED monitorVars
      BY <1>8 DEF monitorVars, BoxInv, ResultHasCause
<1> QED BY <1>3, <1>4, <1>5, <1>6, <1>7, <1>8 DEF Next, WaitStep, vars

LEMMA RequiredInvNext ==
    ASSUME WireguardTypeOK, RequiredInv, PeerNodesInv, [Next]_vars
    PROVE  RequiredInv'
<1>1. CASE HostStep /\ UNCHANGED monitorVars
      BY <1>1, HostEffect DEF RequiredInv, monitorVars
<1>2. CASE ManagerStep /\ UNCHANGED monitorVars
  <2> DEFINE S == Inside \cup {peer}
  <2>1. peer' = peer /\ required' = required /\ config' = config
        BY <1>2, ManagerEffect DEF monitorVars
  <2> SUFFICES todo' \subseteq S /\ DOMAIN added' \subseteq S
      BY <2>1 DEF RequiredInv
  <2>2. todo \subseteq S /\ DOMAIN added \subseteq S /\ required \subseteq S /\ peer \in S
        BY DEF RequiredInv
  <2> HIDE DEF S
  <2>3. CASE LinuxNewListener \/ LinuxGetDefaultRoutes \/ MacGetDefaultRoutes \/ NewDone
        BY <2>2, <2>3 DEF LinuxNewListener, LinuxGetDefaultRoutes, MacGetDefaultRoutes, NewFails,
           NewDone
  <2>4. CASE NewAddsRoute
        BY <2>2, <2>4 DEF NewAddsRoute, AddFails
  <2>5. CASE LinuxReadsNotice \/ LinuxStartsChange \/ LinuxNoticeFails \/ LinuxChangeFails
             \/ LinuxSeesStop \/ LinuxStopped
        BY <2>2, <2>5 DEF LinuxReadsNotice, LinuxStartsChange, LinuxNoticeFails, LinuxChangeFails,
           LinuxSeesStop, LinuxStopped, LinuxDies
  <2>6. CASE LinuxChangeDone
    <3>1. pending[1].dest = peer
          BY <2>6 DEF LinuxChangeDone, PeerNodesInv, WireguardTypeOK, RoutesTypeOK
    <3> QED BY <2>2, <2>6, <3>1 DEF LinuxChangeDone
  <2>7. CASE MacHears \/ MacObtains \/ MacDeletes \/ MacAdds \/ MacRelistens \/ MacDies
        BY <2>2, <2>7 DEF MacHears, MacObtains, MacDeletes, MacAdds, MacRelistens, MacDies,
           MacUnchanged
  <2>8. CASE MacSeesStop \/ MacRemoves \/ MacStopped
        BY <2>2, <2>8 DEF MacSeesStop, MacRemoves, MacStopped, MacUnchanged
  <2> QED BY <1>2, <2>3, <2>4, <2>5, <2>6, <2>7, <2>8 DEF ManagerStep
<1>3. CASE MakeConfig
  <2>1. config' \in {config, ConfigNew(params)}
        BY <1>3 DEF MakeConfig
  <2>2. config'.allowed \subseteq [fam : Families, net : {"all", "lan"}]
        BY <2>1, ConfigType DEF RequiredInv, WireguardTypeOK
  <2> QED BY <1>3, <2>2 DEF MakeConfig, RoutesUnchanged, RequiredInv
<1>4. CASE TurnOn
  <2>1. get_tunnel_routes(config) \subseteq Inside
        BY DEF get_tunnel_routes, RequiredInv, Inside
  <2> QED BY <1>4, <2>1 DEF TurnOn, RoutesUnchanged, RequiredInv
<1>5. CASE CreateTun \/ StartEnds
      BY <1>5 DEF CreateTun, StartEnds, RoutesUnchanged, RequiredInv
<1>6. CASE FirstPing \/ SendUp \/ MonitorPing \/ Close
      BY <1>6 DEF FirstPing, SendUp, MonitorPing, Close, PingUnchanged, routeVars, RequiredInv
<1>7. CASE WaitStep
      BY <1>7 DEF WaitStep, WaitReceives, WaitStopsRoutes, WaitRoutesStopped, WaitStopsTunnel,
         WaitSendsDown, WaitUnchanged, RequiredInv
<1>8. CASE UNCHANGED vars
      BY <1>8 DEF vars, routeVars, monitorVars, RequiredInv
<1> QED BY <1>1, <1>2, <1>3, <1>4, <1>5, <1>6, <1>7, <1>8 DEF Next, StartStep

(***************************************************************************)
(* The tunnel's packets are never routed into the tunnel.                  *)
(***************************************************************************)

\* The steps of start, the ping thread, close and wait leave what the manager knows alone;
\* of the table they only take the tunnel's routes.
LEMMA MonitorEffect ==
    ASSUME StartStep \/ FirstPing \/ SendUp \/ MonitorPing \/ Close \/ WaitStep
    PROVE  /\ UNCHANGED <<platform, hostDefaults, notices, peer, todo, added, known, needed, pending,
                         best, fetched, removalFailed, dropped>>
           /\ \/ table' = table
              \/ table' = [d \in Dests |-> IF table[d].dev = Tun THEN Gone ELSE table[d]]
<1> USE DEF hostVars, linuxVars, macVars, histories
<1>1. CASE StartStep
      BY <1>1 DEF StartStep, MakeConfig, CreateTun, TurnOn, StartEnds, RoutesUnchanged, CloseDevice
<1>2. CASE FirstPing \/ SendUp \/ MonitorPing \/ Close
      BY <1>2 DEF FirstPing, SendUp, MonitorPing, Close, PingUnchanged, routeVars
<1>3. CASE WaitStep
      BY <1>3 DEF WaitStep, WaitReceives, WaitStopsRoutes, WaitRoutesStopped, WaitStopsTunnel,
         WaitSendsDown, WaitUnchanged, CloseDevice
<1> QED BY <1>1, <1>2, <1>3

\* Where a step of the manager or the host leaves a node of the table that was not there:
\* NoNode, Gone, or the node meant for the destination.
LEMMA TableEffect ==
    ASSUME WireguardTypeOK, RequiredInv, PeerNodesInv, HostStep \/ ManagerStep, NEW d \in Dests
    PROVE  \/ table'[d] \in {table[d], NoNode, Gone}
           \/ d \in Inside /\ table'[d] = Node(Tun, FALSE)
           \/ d = peer /\ table'[d] \in Nodes /\ table'[d].dev # Tun
<1>0. RoutesTypeOK /\ peer \in Dests /\ peer \notin Inside /\ peer.fam \in Families
      BY DEF WireguardTypeOK, RoutesTypeOK, RequiredInv, Inside, Dests
<1> USE DEF hostVars
<1>1. CASE HostStep
      BY <1>1 DEF HostStep, DefaultAppears, LinkLost
<1>2. CASE LinuxNewListener \/ LinuxGetDefaultRoutes \/ MacGetDefaultRoutes \/ NewDone
      BY <1>2 DEF LinuxNewListener, LinuxGetDefaultRoutes, MacGetDefaultRoutes, NewFails, NewDone
<1>3. CASE NewAddsRoute
  <2>1. PICK e \in todo : \/ table' = table
                          \/ table' = Deleted(table, DOMAIN added)
                          \/ NodeOf(e) # NoNode /\ table' = Added(table, e, NodeOf(e))
        BY <1>3 DEF NewAddsRoute, AddFails
  <2>2. e \in Inside \cup {peer} /\ e \in Dests
        BY <1>0 DEF RequiredInv, RoutesTypeOK
  <2>3. NodeOf(e) # NoNode =>
           /\ NodeOf(e) \in Nodes
           /\ e = peer => NodeOf(e).dev # Tun
           /\ e # peer => NodeOf(e) = Node(Tun, FALSE)
        BY <1>0 DEF NodeOf, RoutesTypeOK, PeerNodesInv, Nodes, Node, Devices
  <2>4. \/ table' = table
        \/ table'[d] \in {table[d], NoNode}
        \/ NodeOf(e) # NoNode /\ table'[d] = IF d = e THEN NodeOf(e) ELSE table[d]
        BY <1>0, <2>1, <2>2 DEF Deleted, Added, RoutesTypeOK
  <2> QED BY <2>2, <2>3, <2>4
<1>4. CASE LinuxReadsNotice \/ LinuxStartsChange \/ LinuxNoticeFails \/ LinuxChangeFails
           \/ LinuxSeesStop \/ LinuxStopped
      BY <1>4 DEF LinuxReadsNotice, LinuxStartsChange, LinuxNoticeFails, LinuxChangeFails,
         LinuxSeesStop, LinuxStopped, LinuxDies
<1>5. CASE LinuxChangeDone
  <2>1. pending[1].dest = peer /\ pending[1].node.dev # Tun /\ pending[1].node \in Nodes
    <3>1. 1 \in DOMAIN pending /\ pending[1] \in Changes
          BY <1>0, <1>5 DEF LinuxChangeDone, RoutesTypeOK
    <3> QED BY <3>1 DEF PeerNodesInv, Changes
  <2>2. \/ table' = Added(table, peer, pending[1].node)
        \/ table' = Deleted(table, {peer})
        BY <1>5, <2>1 DEF LinuxChangeDone
  <2> QED BY <1>0, <2>1, <2>2 DEF Deleted, Added, RoutesTypeOK
<1>6. CASE MacHears \/ MacObtains \/ MacRelistens \/ MacDies \/ MacSeesStop \/ MacStopped
      BY <1>6 DEF MacHears, MacObtains, MacRelistens, MacDies, MacSeesStop, MacStopped
<1>7. CASE MacDeletes \/ MacRemoves
      BY <1>0, <1>7 DEF MacDeletes, MacRemoves, Deleted, RoutesTypeOK
<1>8. CASE MacAdds
  <2>1. CanAdd(fetched) => fetched \in Nodes
        BY <1>0, DefaultRoutesAssumption DEF RoutesTypeOK, CanAdd, Links, NoNode, Node, Tun
  <2>2. fetched.dev # Tun
        BY DEF PeerNodesInv
  <2> QED BY <1>0, <1>8, <2>1, <2>2 DEF MacAdds, Added, RoutesTypeOK
<1> QED BY <1>1, <1>2, <1>3, <1>4, <1>5, <1>6, <1>7, <1>8 DEF ManagerStep

\* What the manager knows of the host's default routes.
LEMMA KnownNodesNext ==
    ASSUME WireguardTypeOK, RequiredInv, PeerNodesInv, [Next]_vars
    PROVE  /\ \A k \in known' : k.node.dev # Tun
           /\ \A f \in Families : best'[f].dev # Tun
           /\ fetched'.dev # Tun
<1>0. /\ RoutesTypeOK /\ \A k \in known : k.node.dev # Tun
      /\ fetched.dev # Tun /\ NoNode.dev # Tun
      /\ \A f \in Families : best[f].dev # Tun
      BY DEF WireguardTypeOK, PeerNodesInv, NoNode, Node, Tun, Families
<1>1. \A f \in Families : HostDefault(f).dev # Tun
  <2>1. \A f \in Families : [fam |-> f, net |-> "all"] \in Dests
        BY DEF Dests
  <2> QED BY <1>0, <2>1, HostDefaultType DEF PeerNodesInv
<1> USE DEF hostVars, linuxVars, macVars, histories
<1>2. CASE LinuxGetDefaultRoutes
  <2>1. ASSUME known' = {Shown(r) : r \in hostDefaults}, best' \in Bests(known')
        PROVE  (\A k \in known' : k.node.dev # Tun) /\ \A f \in Families : best'[f].dev # Tun
    <3>1. \A r \in hostDefaults : Shown(r).node.dev # Tun
          BY <1>0, DefaultRoutesAssumption DEF RoutesTypeOK, Shown, Node, Tun
    <3>2. \A k \in known' : k.node.dev # Tun
          BY <2>1, <3>1
    <3>3. known' \subseteq KnownRoutes
          BY <1>0, <1>2, NewStepRoutesType DEF RoutesTypeOK
    <3> QED BY <1>0, <2>1, <3>2, <3>3, BestsType
  <2> QED BY <1>0, <1>2, <2>1 DEF LinuxGetDefaultRoutes
<1>3. CASE MacGetDefaultRoutes
      BY <1>0, <1>1, <1>3 DEF MacGetDefaultRoutes
<1>4. CASE LinuxReadsNotice
  <2>1. Head(notices).dest.net = "all" => Head(notices).node.dev # Tun
        BY <1>4 DEF LinuxReadsNotice, Readable
  <2>2. \A k \in known' : k.node.dev # Tun
        BY <1>0, <1>4, <2>1 DEF LinuxReadsNotice
  <2>3. known' \subseteq KnownRoutes
        BY <1>0, <1>4, LinuxStepRoutesType DEF RoutesTypeOK
  <2>4. UNCHANGED best \/ best' \in Bests(known')
        BY <1>4 DEF LinuxReadsNotice
  <2>5. \A f \in Families : best'[f].dev # Tun
        BY <1>0, <2>2, <2>3, <2>4, BestsType
  <2> QED BY <1>0, <1>4, <2>2, <2>5 DEF LinuxReadsNotice
<1>5. CASE MacObtains
  <2>1. peer.fam \in Families
        BY <1>0 DEF RoutesTypeOK, Dests
  <2> QED BY <1>0, <1>1, <1>5, <2>1 DEF MacObtains, MacUnchanged
<1>6. CASE LinuxNewListener \/ NewAddsRoute \/ NewDone
      BY <1>0, <1>6 DEF LinuxNewListener, NewFails, NewDone, NewAddsRoute, AddFails
<1>7. CASE LinuxStartsChange \/ LinuxNoticeFails \/ LinuxChangeFails \/ LinuxChangeDone
           \/ LinuxSeesStop \/ LinuxStopped
      BY <1>0, <1>7 DEF LinuxStartsChange, LinuxNoticeFails, LinuxChangeFails, LinuxChangeDone,
         LinuxSeesStop, LinuxStopped, LinuxDies
<1>8. CASE MacHears \/ MacRelistens \/ MacDies \/ MacSeesStop \/ MacStopped \/ MacDeletes \/ MacAdds
           \/ MacRemoves
      BY <1>0, <1>8 DEF MacHears, MacRelistens, MacDies, MacSeesStop, MacStopped, MacDeletes,
         MacAdds,
         MacRemoves, MacUnchanged
<1>9. CASE UNCHANGED <<known, best, fetched>>
      BY <1>0, <1>9
<1> QED BY <1>2, <1>3, <1>4, <1>5, <1>6, <1>7, <1>8, <1>9, HostEffect, MonitorEffect
        DEF Next, ManagerStep, vars, routeVars

\* Every queued change is about the peer and about a node outside of the tunnel.
LEMMA QueueNodesNext ==
    ASSUME WireguardTypeOK, RequiredInv, PeerNodesInv, [Next]_vars
    PROVE  /\ \A i \in DOMAIN needed' : needed'[i].dest = peer /\ needed'[i].node.dev # Tun
           /\ \A i \in DOMAIN pending' : pending'[i].dest = peer /\ pending'[i].node.dev # Tun
<1>0. /\ RoutesTypeOK
      /\ \A i \in DOMAIN needed : needed[i].dest = peer /\ needed[i].node.dev # Tun
      /\ \A i \in DOMAIN pending : pending[i].dest = peer /\ pending[i].node.dev # Tun
      BY DEF WireguardTypeOK, PeerNodesInv
<1> USE DEF hostVars, linuxVars, macVars, histories
<1>1. CASE LinuxReadsNotice
  <2> DEFINE q == Without(needed, Head(notices))
  <2>1. /\ q \in Seq(Changes)
        /\ \A i \in DOMAIN q : q[i].dest = peer /\ q[i].node.dev # Tun
    <3>1. q \in Seq(Changes) /\ \A i \in DOMAIN q : \E j \in DOMAIN needed : q[i] = needed[j]
          BY <1>0, WithoutType DEF RoutesTypeOK
    <3> QED BY <1>0, <3>1
  <2> HIDE DEF q
  <2>2. best' \in [Families -> Nodes \cup {NoNode}] /\ peer.fam \in Families
        BY <1>0, <1>1, LinuxStepRoutesType DEF RoutesTypeOK, Dests
  <2>3. best[peer.fam].dev # Tun /\ best'[peer.fam].dev # Tun
        BY <2>2, KnownNodesNext DEF PeerNodesInv
  <2>4. needed' = q \/ needed' = update_default_rotues(q)
        BY <1>1 DEF LinuxReadsNotice, q
  <2>5. \A i \in DOMAIN needed' : needed'[i].dest = peer /\ needed'[i].node.dev # Tun
    <3>1. CASE needed' = q
          BY <2>1, <3>1
    <3>2. CASE needed' = update_default_rotues(q)
      <4>1. \A i \in DOMAIN needed' :
               \/ \E j \in DOMAIN q : needed'[i] = q[j]
               \/ needed'[i].dest = peer /\ needed'[i].node \in {best[peer.fam], best'[peer.fam]}
            BY <1>0, <2>1, <2>2, <3>2, UpdateType
      <4> QED BY <2>1, <2>3, <4>1
    <3> QED BY <2>4, <3>1, <3>2
  <2> QED BY <1>0, <1>1, <2>5 DEF LinuxReadsNotice
<1>2. CASE LinuxStartsChange
      BY <1>0, <1>2 DEF LinuxStartsChange, RoutesTypeOK
<1>3. CASE LinuxNoticeFails \/ LinuxChangeFails \/ LinuxChangeDone
      BY <1>0, <1>3 DEF LinuxNoticeFails, LinuxChangeFails, LinuxChangeDone, LinuxDies
<1>4. CASE LinuxNewListener \/ LinuxGetDefaultRoutes \/ MacGetDefaultRoutes \/ NewAddsRoute \/ NewDone
      BY <1>0, <1>4 DEF LinuxNewListener, LinuxGetDefaultRoutes, MacGetDefaultRoutes, NewFails,
         NewDone,
         NewAddsRoute
<1>5. CASE LinuxSeesStop \/ LinuxStopped
      BY <1>0, <1>5 DEF LinuxSeesStop, LinuxStopped
<1>6. CASE MacHears \/ MacObtains \/ MacRelistens \/ MacDies \/ MacSeesStop \/ MacStopped \/ MacDeletes
           \/ MacAdds \/ MacRemoves
      BY <1>0, <1>6 DEF MacHears, MacObtains, MacRelistens, MacDies, MacSeesStop, MacStopped,
         MacDeletes,
         MacAdds, MacRemoves, MacUnchanged
<1>7. CASE UNCHANGED <<needed, pending>>
      BY <1>0, <1>7
<1> QED BY <1>1, <1>2, <1>3, <1>4, <1>5, <1>6, <1>7, HostEffect, MonitorEffect
        DEF Next, ManagerStep, vars, routeVars

LEMMA PeerNodesInvNext ==
    ASSUME WireguardTypeOK, RequiredInv, PeerNodesInv, [Next]_vars
    PROVE  PeerNodesInv'
<1>1. peer' = peer
      BY HostEffect, ManagerEffect, MonitorEffect DEF Next, vars, routeVars
<1>2. peer \in Dests /\ \A d \in Inside : d.net # "all" /\ d # peer
      BY DEF WireguardTypeOK, RoutesTypeOK, RequiredInv, Inside
<1>3. NoNode.dev # Tun /\ Gone.dev # Tun
      BY DEF NoNode, Gone, Node, Tun
<1>4. ASSUME NEW d \in Dests
      PROVE  /\ d = peer => table'[d].dev # Tun
             /\ d # peer => table'[d] \in {Node(Tun, FALSE), NoNode, Gone}
             /\ d.net = "all" => table'[d].dev # Tun
  <2>1. /\ d = peer => table[d].dev # Tun
        /\ d # peer => table[d] \in {Node(Tun, FALSE), NoNode, Gone}
        /\ d.net = "all" => table[d].dev # Tun
        BY DEF PeerNodesInv
  <2>2. CASE HostStep \/ ManagerStep
        BY <1>2, <1>3, <2>1, <2>2, TableEffect DEF RequiredInv
  <2>3. CASE StartStep \/ FirstPing \/ SendUp \/ MonitorPing \/ Close \/ WaitStep
        BY <1>3, <2>1, <2>3, MonitorEffect
  <2>4. CASE UNCHANGED vars
        BY <2>1, <2>4 DEF vars, routeVars
  <2> QED BY <2>2, <2>3, <2>4 DEF Next
<1> QED BY <1>1, <1>2, <1>4, KnownNodesNext, QueueNodesNext DEF PeerNodesInv

(***************************************************************************)
(* The device and the routes are gone at the end.                          *)
(***************************************************************************)

\* Neither the host nor the manager does anything where there is no live manager.
LEMMA OnlyLiveManagers ==
    ASSUME HostStep \/ ManagerStep
    PROVE  manager \in Live
BY ManagerEffect DEF HostStep, DefaultAppears, LinkLost, Live

LEMMA NotNodes == NoNode \notin Nodes /\ Gone \notin Nodes /\ Gone.dev # Tun /\ NoNode.dev # Tun
<1>1. "none" \notin Devices /\ "gone" \notin Devices
      BY DefaultRoutesAssumption DEF Devices, Tun
<1> QED BY <1>1 DEF NoNode, Gone, Node, Nodes, Tun

LEMMA DeviceInvNext ==
    ASSUME WireguardTypeOK, StepInv, DeviceInv, [Next]_vars
    PROVE  DeviceInv'
<1>1. CASE (HostStep \/ ManagerStep) /\ UNCHANGED monitorVars
  <2>1. wait \notin {"down", "returned"}
        BY <1>1, OnlyLiveManagers DEF StepInv, Live
  <2> QED BY <1>1, <2>1 DEF DeviceInv, monitorVars
<1>2. CASE StartStep
      BY <1>2 DEF StartStep, MakeConfig, CreateTun, TurnOn, StartEnds, StartUnchanged, CloseDevice,
         DeviceInv, StepInv
<1>3. CASE FirstPing \/ SendUp \/ MonitorPing \/ Close
      BY <1>3 DEF FirstPing, SendUp, MonitorPing, Close, PingUnchanged, routeVars, DeviceInv
<1>4. CASE WaitStopsTunnel
  <2>1. \A d \in Dests : table'[d].dev # Tun
        BY <1>4, NotNodes DEF WaitStopsTunnel, CloseDevice
  <2>2. phase' = phase /\ phase = "started"
        BY <1>4 DEF WaitStopsTunnel, WaitUnchanged, StepInv, WireguardTypeOK
  <2> QED BY <1>4, <2>1, <2>2 DEF WaitStopsTunnel, CloseDevice, DeviceInv
<1>5. CASE WaitReceives \/ WaitStopsRoutes \/ WaitRoutesStopped \/ WaitSendsDown
      BY <1>5 DEF WaitReceives, WaitStopsRoutes, WaitRoutesStopped, WaitSendsDown, WaitUnchanged,
         DeviceInv
<1>6. CASE UNCHANGED vars
      BY <1>6 DEF vars, routeVars, monitorVars, DeviceInv
<1> QED BY <1>1, <1>2, <1>3, <1>4, <1>5, <1>6 DEF Next, WaitStep

LEMMA AddingInvNext ==
    ASSUME WireguardTypeOK, StepInv, RequiredInv, PeerNodesInv, AddingInv, [Next]_vars
    PROVE  AddingInv'
<1>0. RoutesTypeOK /\ peer \in Dests
      BY DEF WireguardTypeOK, RoutesTypeOK
<1>1. CASE HostStep /\ UNCHANGED monitorVars
  <2>1. \A d \in Dests : table'[d] \in Nodes => table[d] \in Nodes
        BY <1>1, NotNodes DEF HostStep, DefaultAppears, LinkLost
  <2> QED BY <1>0, <1>1, <2>1, HostEffect DEF AddingInv, monitorVars
<1>2. CASE ManagerStep /\ UNCHANGED monitorVars
  <2> USE DEF hostVars, linuxVars, macVars, histories
  <2>0. phase' = phase /\ phase # "failed" /\ peer' = peer
        BY <1>2, ManagerEffect DEF monitorVars, StepInv
  <2>1. CASE LinuxNewListener \/ LinuxGetDefaultRoutes \/ MacGetDefaultRoutes
    <3>1. table' = table /\ added' = added /\ manager \in {"new", "listening"}
          BY <2>1 DEF LinuxNewListener, LinuxGetDefaultRoutes, MacGetDefaultRoutes, NewFails
    <3>2. manager' = "adding" => todo' = required \cup {peer}
          BY <2>1 DEF LinuxNewListener, LinuxGetDefaultRoutes, MacGetDefaultRoutes, NewFails
    <3> QED BY <1>0, <2>0, <3>1, <3>2 DEF AddingInv
  <2>2. CASE NewAddsRoute
    <3>1. manager = "adding" /\ manager' \in {"adding", "broken"}
          BY <2>2 DEF NewAddsRoute, AddFails
    <3>2. PICK d \in todo : 
             /\ d = peer => todo = {peer}
             /\ \/ /\ UNCHANGED <<table, added, manager>> /\ todo' = todo \ {d}
                \/ /\ table' \in {table, Added(table, d, NodeOf(d))}
                   /\ todo' = todo \ {d} /\ UNCHANGED manager
                   /\ added' = [x \in DOMAIN added \cup {d} |-> IF x = d THEN NodeOf(d) ELSE added[x]]
                \/ AddFails
          BY <2>2 DEF NewAddsRoute
    <3>3. CASE AddFails
      <4>1. \A e \in Dests : table'[e] \notin Nodes
            BY <1>0, <3>1, <3>3, NotNodes DEF AddFails, Deleted, AddingInv
      <4> QED BY <1>0, <2>0, <3>3, <4>1 DEF AddFails, AddingInv
    <3>4. CASE UNCHANGED <<table, added, manager>> /\ todo' = todo \ {d}
          BY <2>0, <3>1, <3>2, <3>4 DEF AddingInv
    <3>5. CASE /\ table' \in {table, Added(table, d, NodeOf(d))}
               /\ todo' = todo \ {d} /\ UNCHANGED manager
               /\ added' = [x \in DOMAIN added \cup {d} |-> IF x = d THEN NodeOf(d) ELSE added[x]]
      <4>1. DOMAIN added' = DOMAIN added \cup {d}
            BY <3>5
      <4>2. \A e \in Dests : e # d => table'[e] = table[e]
            BY <1>0, <3>5 DEF Added, RoutesTypeOK
      <4>3. \A e \in Dests : table'[e] \in Nodes => e \in DOMAIN added'
            BY <3>1, <4>1, <4>2 DEF AddingInv
      <4>4. todo' # {} => peer \in todo' /\ peer \notin DOMAIN added'
            BY <3>1, <3>2, <3>5, <4>1 DEF AddingInv
      <4> QED BY <2>0, <3>1, <3>5, <4>3, <4>4 DEF AddingInv
    <3> QED BY <3>2, <3>3, <3>4, <3>5
  <2>3. CASE NewDone
        BY <1>0, <2>0, <2>3 DEF NewDone, NewFails, AddingInv
  <2>4. CASE manager \in {"running", "stopping"}
    <3>1. manager' \in {"running", "stopping", "failed", "done"}
          BY <1>2, <2>4, ManagerEffect
    <3> QED BY <2>0, <3>1 DEF AddingInv
  <2> QED BY <1>2, <2>1, <2>2, <2>3, <2>4 DEF ManagerStep, LinuxReadsNotice, LinuxStartsChange,
          LinuxNoticeFails, LinuxChangeFails, LinuxChangeDone, LinuxSeesStop, LinuxStopped, LinuxUp,
          MacHears, MacObtains, MacRelistens, MacDies, MacSeesStop, MacStopped, MacDeletes, MacAdds,
          MacRemoves, MacUp
<1>3. CASE StartStep \/ FirstPing \/ SendUp \/ MonitorPing \/ Close \/ WaitStep
  <2>1. UNCHANGED <<peer, todo, added>> /\ \A d \in Dests : table'[d] \in Nodes => table'[d] = table[d]
        BY <1>3, MonitorEffect, NotNodes
  <2>2. manager' = manager \/ (manager = "none" /\ manager' = "new")
        BY <1>3 DEF StartStep, MakeConfig, CreateTun, TurnOn, StartEnds, FirstPing, SendUp,
           MonitorPing,
           Close, PingUnchanged, WaitStep, WaitReceives, WaitStopsRoutes, WaitRoutesStopped,
           WaitStopsTunnel, WaitSendsDown, WaitUnchanged, routeVars, StepInv
  <2>3. ASSUME phase' = "failed", NEW d \in Dests \ {peer}
        PROVE  table'[d] \notin Nodes
    <3>1. CASE phase = "failed" \/ manager = "none"
          BY <2>1, <2>3, <3>1 DEF AddingInv
    <3>2. CASE phase # "failed" /\ manager # "none"
      <4>1. CloseDevice("off")
            BY <1>3, <2>3, <3>2 DEF StartStep, MakeConfig, CreateTun, TurnOn, StartEnds, FirstPing,
               SendUp, MonitorPing, Close, PingUnchanged, WaitStep, WaitReceives, WaitStopsRoutes,
               WaitRoutesStopped, WaitStopsTunnel, WaitSendsDown, WaitUnchanged, StepInv
      <4>2. table'[d] = IF table[d].dev = Tun THEN Gone ELSE table[d]
            BY <4>1 DEF CloseDevice
      <4>3. table[d] \in {Node(Tun, FALSE), NoNode, Gone} /\ Node(Tun, FALSE).dev = Tun
            BY <2>3 DEF PeerNodesInv, Node
      <4> QED BY <4>2, <4>3, NotNodes
    <3> QED BY <3>1, <3>2
  <2> QED BY <1>0, <2>1, <2>2, <2>3 DEF AddingInv
<1>4. CASE UNCHANGED vars
      BY <1>4 DEF vars, routeVars, monitorVars, AddingInv
<1> QED BY <1>1, <1>2, <1>3, <1>4 DEF Next

LEMMA RemovalInvNext ==
    ASSUME WireguardTypeOK, PeerNodesInv, StepInv, RemovalInv, [Next]_vars
    PROVE  RemovalInv'
<1>0. RoutesTypeOK /\ peer \in Dests
      BY DEF WireguardTypeOK, RoutesTypeOK
<1>1. CASE HostStep
  <2>1. table'[peer] \in Nodes => table[peer] \in Nodes
        BY <1>0, <1>1, NotNodes DEF HostStep, DefaultAppears, LinkLost
  <2> QED BY <1>1, <2>1, HostEffect DEF RemovalInv
<1>2. CASE ManagerStep
  <2>0. peer' = peer /\ platform' = platform
        BY <1>2, ManagerEffect
  <2>1. CASE MacSeesStop
        BY <1>0, <2>0, <2>1 DEF MacSeesStop, MacUnchanged, RemovalInv
  <2>2. CASE MacRemoves
    <3>1. PICK d \in todo : /\ todo' = todo \ {d}
                            /\ \/ table' = Deleted(table, {d}) /\ UNCHANGED removalFailed
                               \/ removalFailed' = TRUE /\ UNCHANGED table
          BY <2>2 DEF MacRemoves
    <3>2. best' = best /\ manager' = manager /\ manager = "stopping"
          BY <2>2 DEF MacRemoves
    <3>3. table' = Deleted(table, {d}) => table'[peer] = IF peer = d THEN NoNode ELSE table[peer]
          BY <1>0 DEF Deleted
    <3> QED BY <2>0, <3>1, <3>2, <3>3, NotNodes DEF RemovalInv
  <2>3. CASE MacStopped
        BY <2>0, <2>3 DEF MacStopped, MacUnchanged, histories, RemovalInv
  <2>4. CASE platform = "linux" \/ manager' \notin {"stopping", "done"}
        BY <2>0, <2>4 DEF RemovalInv
  <2> QED BY <1>2, <2>1, <2>2, <2>3, <2>4 DEF ManagerStep, LinuxNewListener, LinuxGetDefaultRoutes,
          MacGetDefaultRoutes, NewFails, NewAddsRoute, AddFails, NewDone, LinuxReadsNotice,
          LinuxStartsChange, LinuxNoticeFails, LinuxChangeFails, LinuxChangeDone, LinuxSeesStop,
          LinuxStopped, LinuxDies, LinuxUp, MacHears, MacObtains, MacRelistens, MacDies, MacDeletes,
          MacAdds, MacUp
<1>3. CASE StartStep \/ FirstPing \/ SendUp \/ MonitorPing \/ Close \/ WaitStep
  <2>1. /\ UNCHANGED <<platform, peer, todo, best, removalFailed>>
        /\ table'[peer] \in Nodes => table[peer] \in Nodes
        BY <1>0, <1>3, MonitorEffect, NotNodes
  <2>2. manager' = manager \/ manager' = "new"
        BY <1>3 DEF StartStep, MakeConfig, CreateTun, TurnOn, StartEnds, FirstPing, SendUp,
           MonitorPing,
           Close, PingUnchanged, WaitStep, WaitReceives, WaitStopsRoutes, WaitRoutesStopped,
           WaitStopsTunnel, WaitSendsDown, WaitUnchanged, routeVars
  <2> QED BY <2>1, <2>2 DEF RemovalInv
<1>4. CASE UNCHANGED vars
      BY <1>4 DEF vars, routeVars, histories, RemovalInv
<1> QED BY <1>1, <1>2, <1>3, <1>4 DEF Next

(***************************************************************************)
(* Linux: the peer follows the default route of the host.                  *)
(***************************************************************************)

\* A message changes the queue, what is known and what is best, and nothing else.
LEMMA ReadingSettles ==
    ASSUME WireguardTypeOK, LinuxReadsNotice, ~dropped', best'[peer.fam] # NoNode,
           best[peer.fam] # NoNode => Settled
    PROVE  Settled'
<1> DEFINE msg == Head(notices)
           q == Without(needed, msg)
           add == Change("Add", peer, best'[peer.fam], 0)
<1>1. /\ peer' = peer /\ pending' = pending /\ table' = table /\ RoutesTypeOK
      /\ best' \in [Families -> Nodes \cup {NoNode}]
      BY LinuxStepRoutesType DEF LinuxReadsNotice, WireguardTypeOK, RoutesTypeOK
<1>2. /\ ~(msg.op = "Add" /\ msg \in ToSet(needed))
      /\ best'[peer.fam] # best[peer.fam] => ~Queued(q, add)
      BY DEF LinuxReadsNotice
<1>3. \/ needed' = update_default_rotues(q)
      \/ needed' = q /\ best' = best
      BY DEF LinuxReadsNotice
<1>4. needed \in Seq(Changes) /\ q \in Seq(Changes)
      BY <1>1, WithoutType DEF RoutesTypeOK
<1>5. Addition' = add
      BY <1>1 DEF Addition
<1>6. CASE best'[peer.fam] # best[peer.fam]
  <2>1. needed' = update_default_rotues(q)
        BY <1>3, <1>6
  <2> HIDE DEF q, add
  <2>2. needed' # <<>> /\ needed'[Len(needed')] = add
        BY <1>1, <1>2, <1>4, <1>6, <2>1, UpdateType DEF add
  <2> QED BY <1>5, <2>2 DEF Settled
<1>7. CASE best'[peer.fam] = best[peer.fam]
  <2>1. Settled /\ Addition = add
        BY <1>7 DEF Addition
  <2>2. needed' = q
    <3> HIDE DEF q
    <3> QED BY <1>1, <1>3, <1>4, <1>7, UpdateType
  <2>3. CASE needed = <<>>
    <3>1. needed' = <<>>
          BY <2>2, <2>3 DEF Without, ToSet
    <3> QED BY <1>1, <1>5, <1>7, <2>1, <2>3, <3>1 DEF Settled
  <2>4. CASE needed # <<>>
    <3>1. needed[Len(needed)] = add
          BY <2>1, <2>4 DEF Settled
    <3>2. add \in ToSet(needed) /\ add.op = "Add"
          BY <1>4, <2>4, <3>1 DEF ToSet, Change
    <3>3. msg # add
          BY <1>2, <3>2
    <3> HIDE DEF add, msg
    <3>4. q # <<>> /\ q[Len(q)] = add
          BY <1>4, <2>4, <3>1, <3>3, WithoutType
    <3> QED BY <1>5, <2>2, <3>4 DEF Settled
  <2> QED BY <2>3, <2>4
<1> QED BY <1>6, <1>7

LEMMA QueueInvNext ==
    ASSUME WireguardTypeOK, StepInv, RequiredInv, PeerNodesInv, AddingInv, QueueInv, [Next]_vars
    PROVE  QueueInv'
<1>0. RoutesTypeOK /\ peer \in Dests /\ peer.fam \in Families
      BY DEF WireguardTypeOK, RoutesTypeOK, Dests
<1> USE DEF hostVars, linuxVars, macVars, histories
\* A step that leaves the queue and the best node alone, and may take the peer's route.
<1>1. ASSUME UNCHANGED <<platform, peer, todo, needed, pending, best, dropped>>,
             table'[peer] \in {table[peer], Gone},
             manager' = manager \/ (manager = "none" /\ manager' = "new")
      PROVE  QueueInv'
      BY <1>1 DEF QueueInv, Settled, Addition
<1>2. CASE HostStep
  <2>1. table'[peer] \in {table[peer], Gone}
        BY <1>0, <1>2 DEF HostStep, DefaultAppears, LinkLost
  <2> QED BY <1>1, <1>2, <2>1, HostEffect
<1>3. CASE ManagerStep
  <2>0. peer' = peer /\ platform' = platform
        BY <1>3, ManagerEffect
  <2>1. CASE LinuxNewListener \/ LinuxGetDefaultRoutes \/ MacGetDefaultRoutes
    <3>1. UNCHANGED <<needed, pending>> /\ manager \in {"new", "listening"} /\ manager' # "running"
          BY <2>1 DEF LinuxNewListener, LinuxGetDefaultRoutes, MacGetDefaultRoutes, NewFails
    <3>2. manager' = "adding" => todo' = required \cup {peer}
          BY <2>1 DEF LinuxNewListener, LinuxGetDefaultRoutes, MacGetDefaultRoutes, NewFails
    <3> QED BY <2>0, <3>1, <3>2 DEF QueueInv
  <2>2. CASE NewAddsRoute
    <3>1. UNCHANGED <<needed, pending, best>> /\ manager = "adding" /\ manager' \in {"adding", "broken"}
          BY <2>2 DEF NewAddsRoute, AddFails
    <3>2. ASSUME platform = "linux", best[peer.fam] # NoNode, manager' = "adding", peer \notin todo'
          PROVE  table'[peer] \in {best[peer.fam], Gone}
      <4>1. PICK d \in todo : /\ todo' = todo \ {d}
                              /\ \/ NodeOf(d) = NoNode /\ UNCHANGED table
                                 \/ NodeOf(d) # NoNode /\ table' = Added(table, d, NodeOf(d))
            BY <2>2, <3>2 DEF NewAddsRoute, AddFails
      <4>2. d = peer
            BY <3>1, <3>2, <4>1 DEF AddingInv
      <4>3. table' = Added(table, peer, best[peer.fam])
            BY <3>2, <4>1, <4>2 DEF NodeOf
      <4> QED BY <1>0, <4>3 DEF Added, RoutesTypeOK
    <3> QED BY <2>0, <3>1, <3>2 DEF QueueInv
  <2>3. CASE NewDone
    <3>1. UNCHANGED <<needed, pending, best, table, todo>> /\ manager = "adding" /\ todo = {}
          BY <2>3 DEF NewDone, NewFails
    <3>2. manager' \in {"running", "broken"}
          BY <2>3 DEF NewDone, NewFails
    <3> QED BY <2>0, <3>1, <3>2 DEF QueueInv, Settled
  <2>4. CASE LinuxReadsNotice
    <3>1. manager' = "running" /\ manager = "running" /\ platform = "linux" /\ (dropped => dropped')
          BY <2>4 DEF LinuxReadsNotice
    <3>2. best'[peer.fam] # NoNode /\ ~dropped' => Settled'
          BY <2>4, <3>1, ReadingSettles DEF QueueInv
    <3> QED BY <2>0, <3>1, <3>2 DEF QueueInv
  <2>5. CASE LinuxStartsChange
    <3>1. /\ UNCHANGED <<manager, best, table, dropped>> /\ manager \in {"running", "stopping"}
          /\ pending = <<>> /\ needed # <<>> /\ pending' = <<Head(needed)>> /\ needed' = Tail(needed)
          BY <2>5 DEF LinuxStartsChange, LinuxUp
    <3>2. needed \in Seq(Changes)
          BY <1>0 DEF RoutesTypeOK
    <3>3. IF needed' # <<>> THEN needed'[Len(needed')] = needed[Len(needed)]
          ELSE pending' # <<>> /\ pending'[1] = needed[Len(needed)]
          BY <3>1, <3>2
    <3>4. Settled => Settled'
          BY <2>0, <3>1, <3>3 DEF Settled, Addition
    <3> QED BY <2>0, <3>1, <3>4 DEF QueueInv
  <2>6. CASE LinuxChangeDone
    <3>1. /\ UNCHANGED <<manager, best, needed, dropped>> /\ manager \in {"running", "stopping"}
          /\ pending # <<>> /\ pending' = <<>>
          BY <2>6 DEF LinuxChangeDone, LinuxUp
    <3>2. ASSUME Settled PROVE Settled'
      <4>1. CASE needed # <<>>
            BY <2>0, <3>1, <3>2, <4>1 DEF Settled, Addition
      <4>2. CASE needed = <<>>
        <5>1. pending[1] = Addition
              BY <3>1, <3>2, <4>2 DEF Settled
        <5>2. table' = Added(table, peer, best[peer.fam])
              BY <2>6, <5>1 DEF LinuxChangeDone, Addition, Change
        <5>3. table'[peer] = best[peer.fam]
              BY <1>0, <5>2 DEF Added, RoutesTypeOK
        <5> QED BY <2>0, <3>1, <4>2, <5>3 DEF Settled
      <4> QED BY <4>1, <4>2
    <3> QED BY <2>0, <3>1, <3>2 DEF QueueInv
  <2>7. CASE LinuxNoticeFails \/ LinuxChangeFails \/ LinuxSeesStop \/ LinuxStopped
        BY <2>0, <2>7 DEF LinuxNoticeFails, LinuxChangeFails, LinuxSeesStop, LinuxStopped,
           LinuxDies,
           QueueInv
  <2>8. CASE platform = "macos" /\ manager \in {"running", "stopping"}
    <3>1. manager' \in {"running", "stopping", "failed", "done"}
          BY <1>3, <2>8, ManagerEffect
    <3> QED BY <2>0, <2>8, <3>1 DEF QueueInv
  <2> QED BY <1>3, <2>1, <2>2, <2>3, <2>4, <2>5, <2>6, <2>7, <2>8 DEF ManagerStep, MacHears, MacObtains,
          MacRelistens, MacDies, MacSeesStop, MacStopped, MacDeletes, MacAdds, MacRemoves, MacUp
<1>4. CASE StartStep \/ FirstPing \/ SendUp \/ MonitorPing \/ Close \/ WaitStep
  <2>1. table'[peer] \in {table[peer], Gone}
        BY <1>0, <1>4, MonitorEffect
  <2>2. manager' = manager \/ (manager = "none" /\ manager' = "new")
        BY <1>4 DEF StartStep, MakeConfig, CreateTun, TurnOn, StartEnds, FirstPing, SendUp,
           MonitorPing,
           Close, PingUnchanged, WaitStep, WaitReceives, WaitStopsRoutes, WaitRoutesStopped,
           WaitStopsTunnel, WaitSendsDown, WaitUnchanged, routeVars, StepInv
  <2> QED BY <1>1, <1>4, <2>1, <2>2, MonitorEffect
<1>5. CASE UNCHANGED vars
      BY <1>1, <1>5 DEF vars, routeVars
<1> QED BY <1>2, <1>3, <1>4, <1>5 DEF Next

\* A listener that is up loses no message.
LEMMA AnnounceKeeps ==
    ASSUME RoutesTypeOK, NEW msgs \in Seq(Changes), Announce(msgs), platform = "linux",
           manager \in {"listening", "adding", "running"}
    PROVE  ToSet(notices) \subseteq ToSet(notices') /\ ToSet(msgs) \subseteq ToSet(notices')
<1>1. notices \in Seq(Changes) /\ notices' = notices \o msgs
      BY DEF Announce, RoutesTypeOK
<1>2. \A i \in 1..Len(notices) : i \in DOMAIN notices' /\ notices'[i] = notices[i]
      BY <1>1
<1>3. \A i \in 1..Len(msgs) :
         Len(notices) + i \in DOMAIN notices' /\ notices'[Len(notices) + i] = msgs[i]
      BY <1>1
<1>4. ASSUME NEW x \in ToSet(notices) PROVE x \in ToSet(notices')
  <2>1. PICK i \in 1..Len(notices) : x = notices[i]
        BY <1>1, <1>4 DEF ToSet
  <2> QED BY <1>2, <2>1 DEF ToSet
<1>5. ASSUME NEW x \in ToSet(msgs) PROVE x \in ToSet(notices')
  <2>1. PICK i \in 1..Len(msgs) : x = msgs[i]
        BY <1>5 DEF ToSet
  <2> QED BY <1>3, <2>1 DEF ToSet
<1> QED BY <1>4, <1>5

LEMMA MissedInvNext ==
    ASSUME WireguardTypeOK, StepInv, MissedInv, [Next]_vars
    PROVE  MissedInv'
<1> DEFINE Seen(r) == \/ \E k \in known : k.fam = r.fam /\ k.node.dev = r.dev
                      \/ DefaultNotice("Add", r) \in ToSet(notices)
           SeenNext(r) == \/ \E k \in known' : k.fam = r.fam /\ k.node.dev = r.dev
                          \/ DefaultNotice("Add", r) \in ToSet(notices')
<1>0. RoutesTypeOK
      BY DEF WireguardTypeOK
<1> USE DEF hostVars, linuxVars, macVars, histories
<1>1. CASE HostStep
  <2>1. UNCHANGED <<platform, manager, known>>
        BY <1>1, HostEffect
  <2> SUFFICES ASSUME platform = "linux", manager \in {"adding", "running"}, NEW r \in hostDefaults'
               PROVE  SeenNext(r)
      BY <2>1 DEF MissedInv
  <2>2. CASE DefaultAppears
    <3>1. PICK s \in DefaultRoutes : /\ hostDefaults' = hostDefaults \cup {s}
                                     /\ Announce(<<DefaultNotice("Add", s)>>)
          BY <2>2 DEF DefaultAppears
    <3>2. <<DefaultNotice("Add", s)>> \in Seq(Changes)
          BY NoticeType
    <3>3. /\ ToSet(notices) \subseteq ToSet(notices')
          /\ ToSet(<<DefaultNotice("Add", s)>>) \subseteq ToSet(notices')
          BY <1>0, <3>1, <3>2, AnnounceKeeps
    <3>4. DefaultNotice("Add", s) \in ToSet(notices')
          BY <3>3 DEF ToSet
    <3> QED BY <2>1, <3>1, <3>3, <3>4 DEF MissedInv
  <2>3. CASE LinkLost
    <3>1. hostDefaults' \subseteq hostDefaults
          BY <2>3 DEF LinkLost
    <3>2. ToSet(notices) \subseteq ToSet(notices')
      <4>1. PICK dev \in Links \ {Tun}, told \in BOOLEAN :
              LET lost == {q \in hostDefaults : q.dev = dev}
                  ours == {d \in Dests : table[d].dev = dev}
              IN  Announce(IF ~told THEN <<>>
                           ELSE SetToSeq({Notice("Remove", d, dev, OwnMetric(d)) : d \in ours})
                                \o SetToSeq({DefaultNotice("Remove", q) : q \in lost}))
            BY <2>3 DEF LinkLost
      <4> DEFINE lost == {q \in hostDefaults : q.dev = dev}
                 ours == {d \in Dests : table[d].dev = dev}
                 msgs == IF ~told THEN <<>>
                         ELSE SetToSeq({Notice("Remove", d, dev, OwnMetric(d)) : d \in ours})
                              \o SetToSeq({DefaultNotice("Remove", q) : q \in lost})
      <4>2. dev \in Devices /\ lost \in SUBSET DefaultRoutes /\ ours \in SUBSET Dests
            BY <1>0 DEF Links, Devices, RoutesTypeOK
      <4>3. msgs \in Seq(Changes)
        <5> HIDE DEF ours, lost
        <5>1. CASE told
              BY <4>2, <5>1, LinkNoticesType
        <5>2. CASE ~told
              BY <5>2
        <5> QED BY <5>1, <5>2
      <4>4. Announce(msgs)
            BY <4>1
      <4> HIDE DEF msgs
      <4> QED BY <1>0, <4>3, <4>4, AnnounceKeeps
    <3> QED BY <2>1, <3>1, <3>2 DEF MissedInv
  <2> QED BY <1>1, <2>2, <2>3 DEF HostStep
<1>2. CASE LinuxGetDefaultRoutes
  <2>1. ASSUME manager' \in {"adding", "running"}, NEW r \in hostDefaults'
        PROVE  \E k \in known' : k.fam = r.fam /\ k.node.dev = r.dev
    <3>1. hostDefaults' = hostDefaults /\ known' = {Shown(s) : s \in hostDefaults}
          BY <1>2, <2>1 DEF LinuxGetDefaultRoutes, NewFails
    <3>2. Shown(r) \in known' /\ Shown(r).fam = r.fam /\ Shown(r).node.dev = r.dev
          BY <2>1, <3>1 DEF Shown, Node
    <3> QED BY <3>2
  <2> QED BY <2>1 DEF MissedInv
<1>3. CASE LinuxReadsNotice
  <2>1. UNCHANGED <<platform, manager, hostDefaults>> /\ platform = "linux" /\ manager = "running"
        BY <1>3 DEF LinuxReadsNotice
  <2> SUFFICES ASSUME NEW r \in hostDefaults PROVE SeenNext(r)
      BY <2>1 DEF MissedInv
  <2>2. known \subseteq known' /\ notices' = Tail(notices) /\ notices # <<>> /\ notices \in Seq(Changes)
        BY <1>0, <1>3 DEF LinuxReadsNotice, RoutesTypeOK
  <2>3. CASE DefaultNotice("Add", r) = Head(notices)
    <3>1. /\ Head(notices).op = "Add" /\ Head(notices).dest.net = "all"
          /\ Head(notices).dest.fam = r.fam /\ Head(notices).node.dev = r.dev
          BY <2>3 DEF DefaultNotice, Notice, Change, Node
    <3>2. [fam |-> r.fam, node |-> Head(notices).node, metric |-> Head(notices).metric] \in known'
          BY <1>3, <3>1 DEF LinuxReadsNotice
    <3> QED BY <3>1, <3>2
  <2>4. CASE DefaultNotice("Add", r) \in ToSet(notices) /\ DefaultNotice("Add", r) # Head(notices)
    <3>1. PICK i \in 1..Len(notices) : notices[i] = DefaultNotice("Add", r)
          BY <2>2, <2>4 DEF ToSet
    <3>2. i # 1
          BY <2>2, <2>4, <3>1
    <3>3. i - 1 \in DOMAIN Tail(notices) /\ Tail(notices)[i - 1] = notices[i]
          BY <2>2, <3>2
    <3> QED BY <2>2, <3>1, <3>3 DEF ToSet
  <2>5. CASE \E k \in known : k.fam = r.fam /\ k.node.dev = r.dev
        BY <2>2, <2>5
  <2> QED BY <2>1, <2>3, <2>4, <2>5 DEF MissedInv
<1>4. CASE NewAddsRoute
  <2>1. UNCHANGED <<platform, hostDefaults, known>> /\ manager = "adding"
        BY <1>4 DEF NewAddsRoute
  <2>2. ToSet(notices) \subseteq ToSet(notices')
    <3>1. notices' = notices \/ \E c : notices' = Append(notices, c)
          BY <1>4 DEF NewAddsRoute
    <3>2. ASSUME NEW c PROVE ToSet(notices) \subseteq ToSet(Append(notices, c))
      <4>1. notices \in Seq(Changes)
            BY <1>0 DEF RoutesTypeOK
      <4>2. \A i \in DOMAIN notices :
               i \in DOMAIN Append(notices, c) /\ Append(notices, c)[i] = notices[i]
            BY <4>1
      <4> QED BY <4>2 DEF ToSet
    <3> QED BY <3>1, <3>2
  <2> QED BY <2>1, <2>2 DEF MissedInv
<1>5. CASE LinuxChangeDone
  <2>1. UNCHANGED <<platform, hostDefaults, known, manager>> /\ platform = "linux"
        BY <1>5 DEF LinuxChangeDone, LinuxUp
  <2>2. ASSUME manager = "running" PROVE ToSet(notices) \subseteq ToSet(notices')
    <3> DEFINE c == pending[1]
    <3>1. c \in Changes
          BY <1>0, <1>5 DEF LinuxChangeDone, RoutesTypeOK
    <3>2. c.op \in {"Add", "Remove"} /\ c.dest \in Dests /\ c.node.dev \in Devices
          BY <3>1 DEF Changes, Nodes
    <3>3. Announce(<<Notice(c.op, c.dest, c.node.dev, OwnMetric(c.dest))>>)
          BY <1>5 DEF LinuxChangeDone
    <3> HIDE DEF c
    <3>4. <<Notice(c.op, c.dest, c.node.dev, OwnMetric(c.dest))>> \in Seq(Changes)
          BY <3>2, NoticeType
    <3> QED BY <1>0, <2>1, <2>2, <3>3, <3>4, AnnounceKeeps
  <2>3. manager # "adding"
        BY <1>5 DEF LinuxChangeDone, LinuxUp
  <2> QED BY <2>1, <2>2, <2>3 DEF MissedInv
<1>6. CASE LinuxNewListener \/ NewDone \/ LinuxStartsChange
      BY <1>6 DEF LinuxNewListener, NewDone, NewFails, LinuxStartsChange, MissedInv
<1>7. CASE LinuxNoticeFails \/ LinuxChangeFails \/ LinuxSeesStop \/ LinuxStopped
      BY <1>7 DEF LinuxNoticeFails, LinuxChangeFails, LinuxSeesStop, LinuxStopped, LinuxDies,
         MissedInv
<1>8. CASE platform' = "macos"
      BY <1>8 DEF MissedInv
<1>9. CASE StartStep \/ FirstPing \/ SendUp \/ MonitorPing \/ Close \/ WaitStep
  <2>1. manager' = manager \/ manager' = "new"
        BY <1>9 DEF StartStep, MakeConfig, CreateTun, TurnOn, StartEnds, FirstPing, SendUp,
           MonitorPing,
           Close, PingUnchanged, WaitStep, WaitReceives, WaitStopsRoutes, WaitRoutesStopped,
           WaitStopsTunnel, WaitSendsDown, WaitUnchanged, routeVars
  <2> QED BY <1>9, <2>1, MonitorEffect DEF MissedInv
<1>10. CASE UNCHANGED vars
       BY <1>10 DEF vars, routeVars, MissedInv
<1> QED BY <1>1, <1>2, <1>3, <1>4, <1>5, <1>6, <1>7, <1>8, <1>9, <1>10 DEF Next, ManagerStep,
        MacGetDefaultRoutes, MacHears, MacObtains, MacRelistens, MacDies, MacSeesStop, MacStopped,
        MacDeletes, MacAdds, MacRemoves, MacUp, MacUnchanged

(***************************************************************************)
(* The theorems                                                            *)
(***************************************************************************)

\* Nothing is routed and nothing is asked for at the start.
LEMMA InitInv == Init => WireguardInv
<1> SUFFICES ASSUME Init PROVE WireguardInv
    OBVIOUS
<1>1. params \in Params /\ params.peer \in Families
      BY ParamsAssumption DEF Init, Families
<1>2. peer \in Dests /\ peer.net = "peer" /\ peer.fam \in Families
      BY <1>1 DEF Init, Dests
<1>3. /\ <<>> \in Seq(Changes) /\ Len(<<>>) = 0 /\ <<>> \in Seq({"Stop", "PingErr"})
      /\ ToSet(<<>>) = {} /\ DOMAIN <<>> = {}
      BY DEF ToSet
<1>4. RoutesTypeOK
  <2>1. hostDefaults \subseteq DefaultRoutes /\ hostChanges \in 0..MaxHostChanges
        BY DefaultRoutesAssumption DEF Init, RoutesInit
  <2>2. table \in [Dests -> Nodes \cup {NoNode, Gone}] /\ best \in [Families -> Nodes \cup {NoNode}]
        BY DEF Init, RoutesInit
  <2>3. DOMAIN added = {} /\ required = {} /\ todo = {} /\ known = {}
        BY DEF Init, RoutesInit
  <2>4. /\ notices \in Seq(Changes) /\ needed \in Seq(Changes) /\ pending \in Seq(Changes)
        /\ Len(pending) <= 1
        BY <1>3 DEF Init, RoutesInit
  <2>5. /\ platform \in Platforms /\ heard \in BOOLEAN /\ stopSent \in BOOLEAN
        /\ removalFailed \in BOOLEAN /\ dropped \in BOOLEAN /\ fetched = NoNode
        BY DEF Init, RoutesInit
  <2>6. manager = "none" /\ mac = "Listening"
        BY DEF Init, RoutesInit
  <2> QED BY <1>2, <2>1, <2>2, <2>3, <2>4, <2>5, <2>6 DEF RoutesTypeOK
<1>5. WireguardTypeOK
      BY <1>1, <1>3, <1>4 DEF Init, WireguardTypeOK, NoConfig
<1>6. StepInv /\ DeviceInv /\ BoxInv /\ ResultHasCause
      BY <1>3 DEF Init, RoutesInit, StepInv, DeviceInv, BoxInv, ResultHasCause
<1>7. RequiredInv
      BY <1>2 DEF Init, RoutesInit, RequiredInv, NoConfig
<1>8. PeerNodesInv
      BY <1>2, <1>3, NotNodes DEF Init, RoutesInit, PeerNodesInv
<1>9. QueueInv /\ MissedInv /\ AddingInv /\ RemovalInv
      BY <1>2, <1>3, NotNodes DEF Init, RoutesInit, QueueInv, MissedInv, AddingInv, RemovalInv
<1> QED BY <1>5, <1>6, <1>7, <1>8, <1>9 DEF WireguardInv

LEMMA InvNext == WireguardInv /\ [Next]_vars => WireguardInv'
BY WireguardTypeNext, StepInvNext, DeviceInvNext, CauseNext, RequiredInvNext, PeerNodesInvNext,
   QueueInvNext, MissedInvNext, AddingInvNext, RemovalInvNext DEF WireguardInv

LEMMA InvHolds == Spec => []WireguardInv
BY InitInv, InvNext, PTL DEF Spec

(***************************************************************************)
(* For every set of default routes, however often the host changes them    *)
(* and whatever fails: the manager learns of every default route, the peer *)
(* follows the best it knows of once the queue is empty, and the peer is   *)
(* never routed into the tunnel.                                           *)
(***************************************************************************)
THEOREM PeerFollowsHostHolds == Spec => []PeerFollowsHost
<1>1. WireguardInv => PeerFollowsHost
      BY DEF WireguardInv, PeerFollowsHost, PeerFollowsBest, NoDefaultIsMissed, PeerNeverInTunnel,
         QueueInv, Settled, MissedInv, PeerNodesInv
<1> QED BY <1>1, InvHolds, PTL

(***************************************************************************)
(* For every set of default routes, parameters and faults: a start that    *)
(* fails leaves no device and no route in the tunnel, Down is sent when    *)
(* the device, the manager and its routes are gone, and wait returns what  *)
(* happened.                                                               *)
(***************************************************************************)
THEOREM NothingIsLeftBehindHolds == Spec => []NothingIsLeftBehind
<1> SUFFICES WireguardInv => NothingIsLeftBehind
    BY InvHolds, PTL
<1> SUFFICES ASSUME WireguardInv PROVE NothingIsLeftBehind
    OBVIOUS
<1>0. RoutesTypeOK /\ peer \in Dests
      BY DEF WireguardInv, WireguardTypeOK, RoutesTypeOK
<1>1. FailedStartLeavesNothing
      BY DEF WireguardInv, FailedStartLeavesNothing, StepInv, DeviceInv, AddingInv
<1>2. DownMeansGone
  <2>1. ASSUME "Down" \in sent
        PROVE  /\ device \in {"off", "stuck"} /\ manager \in {"done", "failed"}
               /\ \A d \in Dests : table[d].dev # Tun
        BY <2>1 DEF WireguardInv, StepInv, DeviceInv
  <2>2. ASSUME platform = "macos", manager = "done", best[peer.fam] # NoNode, ~removalFailed
        PROVE  table[peer] \in {NoNode, Gone}
        BY <1>0, <2>2 DEF WireguardInv, RemovalInv, RoutesTypeOK
  <2> QED BY <2>1, <2>2 DEF DownMeansGone
<1> QED BY <1>1, <1>2 DEF NothingIsLeftBehind, WireguardInv
=============================================================================
