---------------------------- MODULE RelaySelector ----------------------------
(***************************************************************************)
(* The choice of a relay, of one of its endpoints and of a bridge, for the   *)
(* user's settings and the number of the attempt, while the list of relays   *)
(* may be replaced between two lookups (desktop builds).                    *)
(*                                                                         *)
(* A constraint is the set of values it matches, Any the set of all values;  *)
(* a constraint on the location is a tuple: <<>> for anywhere, <<country>>,   *)
(* <<country, city>> or <<country, city, hostname>>.  What is chosen at       *)
(* random is chosen from the set of all outcomes.                           *)
(***************************************************************************)
EXTENDS RelayList, Sequences

CONSTANTS
    Lists,          \* the relays of every version of the list
    PortBits,       \* width of a port
    Port443,        \* the port that preferred_constraints tries with TCP
    Updates,        \* what users change: records with some of the fields of constraints
    BridgeSettings, \* what users set: normal ones with a location, or custom ones
    Attempts,       \* retry attempts
    MaxUpdates,     \* bound: changes of the settings
    Focused         \* bound: see MayChoose

Ports     == 0 .. 2 ^ PortBits - 1
Protocols == {"udp", "tcp"}
Tunnels   == {"openvpn", "wireguard"}

\* What get_random_tunnel and get_tunnel_endpoint_internal return when they find nothing.
NoEndpoint == [tunnel |-> "none", port |-> 0, protocol |-> "none"]
NoRelay    == [relay |-> "none", km |-> 0, endpoint |-> NoEndpoint]

\* A relay: openvpn are its endpoints, wireguard the port ranges of each of its tunnels,
\* bridges the protocols of its bridges, and km is where it is, on a line.
Relay ==
    [name : STRING, country : STRING, city : STRING, include_in_country : BOOLEAN, weight : Nat,
     openvpn : SUBSET [port : Ports, protocol : Protocols], wireguard : SUBSET Seq(Ports \X Ports),
     bridges : SUBSET Protocols, km : Nat]

\* The values of the constraints.
ConstraintValues ==
    [location        |-> Seq(STRING),
     tunnel_protocol |-> {Tunnels, {"openvpn"}, {"wireguard"}},
     wireguard       |-> SUBSET Ports,
     openvpn         |-> [port : SUBSET Ports, protocol : SUBSET Protocols]]

ASSUME PortsAssumption == 2 ^ PortBits \in Nat \ {0} /\ Port443 \in Ports

\* "none" and "custom" are no names of relays: they stand for no relay and a custom bridge.
ASSUME ListsAssumption ==
    /\ DOMAIN Lists = 0 .. MaxVersion /\ Lists[0] = <<>>
    /\ \A v \in DOMAIN Lists :
          /\ Lists[v] \in Seq(Relay)
          /\ \A k \in DOMAIN Lists[v] :
                /\ Lists[v][k].name \notin {"none", "custom"}
                /\ \A w \in Lists[v][k].wireguard : \A i \in DOMAIN w : w[i][1] <= w[i][2]

ASSUME RequestsAssumption ==
    /\ \A u \in Updates : /\ DOMAIN u \subseteq DOMAIN ConstraintValues
                          /\ \A f \in DOMAIN u : u[f] \in ConstraintValues[f]
    /\ BridgeSettings \subseteq [kind : {"normal", "custom"}, location : Seq(STRING)]
    /\ Attempts \subseteq Nat /\ MaxUpdates \in Nat /\ Focused \in BOOLEAN

VARIABLES
    settings,       \* the user's relay constraints
    bridge,         \* bridge_state and the location of the bridge settings
    pick,           \* the request being worked on, or its result
    last_generated_relay, last_generated_bridge_relay,
    updates

selectorVars == <<settings, bridge, pick, last_generated_relay, last_generated_bridge_relay, updates>>
vars == <<listVars, apiVars, selectorVars>>

-----------------------------------------------------------------------------
(* Constraints                                                             *)

AnyOpenVpn == [port |-> Ports, protocol |-> Protocols]

\* RelayConstraints::default
DefaultConstraints ==
    [location |-> <<>>, tunnel_protocol |-> Tunnels, wireguard |-> Ports, openvpn |-> AnyOpenVpn]

\* RelayConstraints::merge: what the update does not name stays.
merge(constraints, update) ==
    LET New(f) == IF f \in DOMAIN update THEN update[f] ELSE constraints[f]
    IN  [location  |-> New("location"),  tunnel_protocol |-> New("tunnel_protocol"),
         wireguard |-> New("wireguard"), openvpn         |-> New("openvpn")]

\* Mutant: TCP is preferred from the start, whatever the user asked for.
PreferTcp(original, attempt) ==
    [original EXCEPT !.openvpn = [port |-> {Port443}, protocol |-> {"tcp"}],
                     !.tunnel_protocol = {"openvpn"}]

\* preferred_constraints: nothing the user set explicitly is changed.
preferred_constraints(original, attempt) ==
    LET preferred ==
          CASE attempt \in {0, 1} -> [port |-> Ports, protocol |-> {"udp"}]
            [] attempt \in {2, 3} -> [port |-> {Port443}, protocol |-> {"tcp"}]
            [] attempt > 3 /\ attempt % 2 = 0 -> [port |-> Ports, protocol |-> {"udp"}]
            [] OTHER -> [port |-> Ports, protocol |-> {"tcp"}]
    IN  [location        |-> original.location,
         tunnel_protocol |-> original.tunnel_protocol,
         wireguard       |-> IF original.tunnel_protocol = {"wireguard"} THEN original.wireguard ELSE Ports,
         openvpn         |-> CASE original.tunnel_protocol = {"wireguard"} -> AnyOpenVpn
                               [] original.tunnel_protocol = Tunnels /\ original.openvpn = AnyOpenVpn -> preferred
                               [] OTHER -> original.openvpn]

\* A country only has the relays that want to be found by it.
relay_matches_location(relay, location) ==
    /\ Len(location) > 0 => relay.country = location[1]
    /\ Len(location) = 1 => relay.include_in_country
    /\ Len(location) > 1 => relay.city = location[2]
    /\ Len(location) > 2 => relay.name = location[3]

MatchesOpenVpn(constraint, endpoint) ==
    endpoint.port \in constraint.port /\ endpoint.protocol \in constraint.protocol

InRange(port, range) == range[1] <= port /\ port <= range[2]

MatchesWireguard(ports, ranges) ==
    ports # Ports => \E p \in ports, k \in DOMAIN ranges : InRange(p, ranges[k])

\* matching_openvpn_tunnels, matching_wireguard_tunnels.  With any tunnel protocol allowed
\* the tunnels are not filtered.
MatchingTunnels(relay, constraints) ==
    CASE constraints.tunnel_protocol = Tunnels -> relay
      [] constraints.tunnel_protocol = {"openvpn"} ->
            [relay EXCEPT !.openvpn = {e \in @ : MatchesOpenVpn(constraints.openvpn, e)}, !.wireguard = {}]
      [] constraints.tunnel_protocol = {"wireguard"} ->
            [relay EXCEPT !.wireguard = {w \in @ : MatchesWireguard(constraints.wireguard, w)}, !.openvpn = {}]

\* matching_relay, over the whole list: the relays that match, by their place in it.
MatchingRelays(relays, constraints) ==
    LET Fits(r) == /\ relay_matches_location(r, constraints.location)
                   /\ LET m == MatchingTunnels(r, constraints) IN m.openvpn # {} \/ m.wireguard # {}
    IN  [k \in {i \in DOMAIN relays : Fits(relays[i])} |-> MatchingTunnels(relays[k], constraints)]

-----------------------------------------------------------------------------
(* Random choices, among relays at places up to n of a list                *)

\* The sums of the first k of n amounts.
SumUpTo(amount, n) == LET s[k \in 0 .. n] == IF k = 0 THEN 0 ELSE s[k - 1] + amount[k] IN s

WeightUpTo(relays, n) ==
    SumUpTo([k \in 1 .. n |-> IF k \in DOMAIN relays THEN relays[k].weight ELSE 0], n)

\* The relay found for the random number i, between 0 and the total weight.
FoundBy(relays, n, i) ==
    LET w == WeightUpTo(relays, n)
    IN  {k \in DOMAIN relays : w[k] >= i /\ \A j \in DOMAIN relays : j < k => w[j] < i}

pick_random_relay(relays, n) ==
    LET total == WeightUpTo(relays, n)[n]
    IN  IF total = 0 THEN {} ELSE {relays[k] : k \in UNION {FoundBy(relays, n, i) : i \in 0 .. total}}

\* The number of ports of a range, in the width of a port.
PortAmount(range) == (1 + range[2] - range[1]) % 2 ^ PortBits

\* How many ports the first k ranges have.
PortsUpTo(ranges) == SumUpTo([k \in 1 .. Len(ranges) |-> PortAmount(ranges[k])], Len(ranges))

\* The port with index i, which is looked for range after range.
PortAt(ranges, i) ==
    LET k == CHOOSE n \in DOMAIN ranges : PortsUpTo(ranges)[n - 1] <= i /\ i < PortsUpTo(ranges)[n]
    IN  ranges[k][1] + i - PortsUpTo(ranges)[k - 1]

\* get_port_for_wireguard_relay: all ports it may return, none if there are none.
get_port_for_wireguard_relay(ranges, ports) ==
    IF ports = Ports
    THEN {PortAt(ranges, i) : i \in 0 .. PortsUpTo(ranges)[Len(ranges)] - 1}
    ELSE {p \in ports : \E k \in DOMAIN ranges : InRange(p, ranges[k])}

OrNoEndpoint(endpoints) == IF endpoints = {} THEN {NoEndpoint} ELSE endpoints

\* wg_data_to_endpoint, for one tunnel.
wg_data_to_endpoint(ranges, ports) ==
    OrNoEndpoint({[tunnel |-> "wireguard", port |-> p, protocol |-> "udp"] :
                     p \in get_port_for_wireguard_relay(ranges, ports)})

\* get_random_tunnel: any protocol means OpenVPN.  A WireGuard tunnel is picked before one
\* of its ports.
get_random_tunnel(relay, constraints) ==
    OrNoEndpoint(
        IF "openvpn" \in constraints.tunnel_protocol
        THEN {[tunnel |-> "openvpn", port |-> e.port, protocol |-> e.protocol] : e \in relay.openvpn}
        ELSE UNION {wg_data_to_endpoint(w, constraints.wireguard) : w \in relay.wireguard})

\* get_tunnel_endpoint_internal: every outcome, NoRelay among them if no relay is picked,
\* or one that has no endpoint to pick.
get_tunnel_endpoint_internal(relays, constraints) ==
    LET picked == pick_random_relay(MatchingRelays(relays, constraints), Len(relays))
        Of(r)  == {IF e = NoEndpoint THEN NoRelay ELSE [relay |-> r.name, km |-> r.km, endpoint |-> e] :
                      e \in get_random_tunnel(r, constraints)}
    IN  IF picked = {} THEN {NoRelay} ELSE UNION {Of(r) : r \in picked}

-----------------------------------------------------------------------------
(* Bridges                                                                 *)

should_use_bridge(attempt) == attempt > 3 /\ attempt % 4 < 2

Distance(a, b) == IF a > b THEN a - b ELSE b - a

\* matching_bridge_relay, over the whole list: the places of those that match.
MatchingBridges(relays, location, protocol) ==
    {k \in DOMAIN relays : relay_matches_location(relays[k], location) /\ protocol \in relays[k].bridges}

\* get_proxy_settings: the relays with a bridge for the protocol, the nearest first, and
\* among those as near the first of the list.
get_proxy_settings(relays, location, protocol, km) ==
    LET matching == MatchingBridges(relays, location, protocol)
        Before(i, j) == \/ Distance(relays[i].km, km) < Distance(relays[j].km, km)
                        \/ Distance(relays[i].km, km) = Distance(relays[j].km, km) /\ i <= j
    IN  {relays[i].name : i \in {k \in matching : \A j \in matching : Before(k, j)}}

\* get_auto_proxy_settings: only TCP goes through a bridge.
get_auto_proxy_settings(relays, location, protocol, km, attempt) ==
    IF ~should_use_bridge(attempt) \/ protocol = "udp"
    THEN {} ELSE get_proxy_settings(relays, location, protocol, km)

-----------------------------------------------------------------------------
(* The daemon                                                              *)

RelaysOf(version) == Lists[version]

\* from is a history variable: the version of the list that was looked at.
NoPick == [step |-> "idle", attempt |-> 0, from |-> 0, chosen |-> NoRelay, bridge |-> "none", result |-> "none"]

SelectorInit ==
    /\ settings = [kind |-> "normal", constraints |-> DefaultConstraints]
    /\ bridge = [state |-> "auto", kind |-> "normal", location |-> <<>>]
    /\ pick = NoPick
    /\ last_generated_relay = "none" /\ last_generated_bridge_relay = "none" /\ updates = 0

Idle == phase = "up" /\ pick.step = "idle"

SettingsChange ==
    /\ Idle /\ updates < MaxUpdates /\ updates' = updates + 1 /\ pick' = NoPick
    /\ UNCHANGED <<listVars, apiVars, last_generated_relay, last_generated_bridge_relay>>

\* RelaySettings::merge: constraints merged into a custom endpoint start from the default.
OnUpdateRelaySettings ==
    /\ SettingsChange /\ UNCHANGED bridge
    /\ settings' \in {[kind |-> "normal", constraints |-> merge(settings.constraints, u)] : u \in Updates}
                     \cup {[kind |-> "custom", constraints |-> DefaultConstraints]}

OnSetBridgeSettings ==
    /\ SettingsChange /\ UNCHANGED settings
    /\ bridge' \in {[state |-> bridge.state, kind |-> b.kind, location |-> b.location] : b \in BridgeSettings}

\* apply_proxy_constraints
ProxyConstraints ==
    [tunnel_protocol |-> {"openvpn"}, openvpn |-> [port |-> Ports, protocol |-> {"tcp"}]]

\* Switching bridges on also sets OpenVPN over TCP, unless the new state was not saved.
OnSetBridgeState ==
    /\ SettingsChange
    /\ \E s \in {"off", "auto", "on"} \ {bridge.state} :
          /\ bridge' = [bridge EXCEPT !.state = s]
          /\ \/ /\ s = "on"
                /\ settings' = [kind |-> "normal", constraints |-> merge(settings.constraints, ProxyConstraints)]
             \/ UNCHANGED settings      \* another state, or saving it failed

\* get_tunnel_endpoint, the first lookup: with preferences.  A custom endpoint has no relay.
GenerateTunnelParameters ==
    /\ Idle
    /\ \E attempt \in Attempts :
          IF settings.kind = "custom"
          THEN /\ last_generated_relay' = "none"
               /\ pick' = [NoPick EXCEPT !.attempt = attempt, !.result = "custom"]
          ELSE /\ \E o \in get_tunnel_endpoint_internal(RelaysOf(list.ver),
                                      preferred_constraints(settings.constraints, attempt)) :
                     pick' = [NoPick EXCEPT !.attempt = attempt, !.from = list.ver, !.chosen = o,
                                            !.step = IF o = NoRelay THEN "second" ELSE "parameters"]
               /\ UNCHANGED last_generated_relay
    /\ UNCHANGED <<listVars, apiVars, settings, bridge, last_generated_bridge_relay, updates>>

\* The second lookup, as the user said; the list may be another one by now.
SecondLookup ==
    /\ pick.step = "second" /\ phase = "up"
    /\ \E o \in get_tunnel_endpoint_internal(RelaysOf(list.ver), settings.constraints) :
          pick' = [pick EXCEPT !.from = list.ver, !.chosen = o,
                               !.step = IF o = NoRelay THEN "idle" ELSE "parameters",
                               !.result = IF o = NoRelay THEN "NoRelay" ELSE "none"]
    /\ UNCHANGED <<listVars, apiVars, settings, bridge, last_generated_relay,
                   last_generated_bridge_relay, updates>>

\* create_tunnel_parameters clears the bridge that is remembered before it looks for one.
RememberedBridge(b) == b

\* create_tunnel_parameters.  A WireGuard tunnel needs a key, which may be there or not.
CreateTunnelParameters ==
    /\ pick.step = "parameters" /\ phase = "up"
    /\ LET km     == pick.chosen.km
           proto  == pick.chosen.endpoint.protocol
           found  == IF bridge.state = "on"
                     THEN get_proxy_settings(RelaysOf(list.ver), bridge.location, proto, km)
                     ELSE get_auto_proxy_settings(RelaysOf(list.ver), bridge.location, proto, km, pick.attempt)
           Done(b, result) == /\ pick' = [pick EXCEPT !.step = "idle", !.bridge = b, !.result = result]
                              /\ last_generated_bridge_relay' = RememberedBridge(IF b = "custom" THEN "none" ELSE b)
       IN  IF pick.chosen.endpoint.tunnel = "wireguard"
           THEN \E result \in {"ok", "NoKey"} : Done("none", result)
           ELSE CASE bridge.state = "off" -> Done("none", "ok")
                  [] bridge.state # "off" /\ bridge.kind = "custom" ->
                        Done(IF bridge.state = "on" \/ should_use_bridge(pick.attempt) THEN "custom" ELSE "none", "ok")
                  [] bridge.state # "off" /\ bridge.kind = "normal" ->
                        IF found = {} THEN Done("none", IF bridge.state = "on" THEN "NoBridge" ELSE "ok")
                        ELSE \E b \in found : Done(b, "ok")
    /\ last_generated_relay' = pick.chosen.relay
    /\ UNCHANGED <<listVars, apiVars, settings, bridge, updates>>

-----------------------------------------------------------------------------
Init == ListInit /\ SelectorInit

SelectorStep == GenerateTunnelParameters \/ SecondLookup \/ CreateTunnelParameters
UserStep == OnUpdateRelaySettings \/ OnSetBridgeSettings \/ OnSetBridgeState

\* What is being chosen and what was chosen dies with the daemon; the settings are saved.
Forgets ==
    /\ pick' = NoPick /\ last_generated_relay' = "none" /\ last_generated_bridge_relay' = "none"
    /\ UNCHANGED <<settings, bridge, updates>>

\* Bound, if the search is focused: relays are chosen in a first life of the daemon that
\* reaches the API; from the first choice on, the world stands still and only the updater may
\* replace the list.
MayChoose == Focused => boots = 1 /\ ticks + jumps + upgrades = 0 /\ handle = api /\ kept
Untouched == Focused => updates = 0 /\ pick = NoPick

\* The daemon's loop works on one request until it is done.
Next ==
    \/ WorldStep /\ Untouched /\ UNCHANGED selectorVars
    \/ Killed /\ Untouched /\ Forgets
    \/ StartStep /\ Untouched /\ pick.step = "idle" /\ UNCHANGED selectorVars
    \/ UpdaterStep /\ UNCHANGED selectorVars
    \/ MayChoose /\ (UserStep \/ SelectorStep)

\* The updater's thread runs, and its timer ends.
Spec == Init /\ [][Next]_vars /\ WF_vars(UpdaterStep /\ UNCHANGED selectorVars)

-----------------------------------------------------------------------------
\* Every variable has its type.
RelaysTypeOK ==
    /\ ListTypeOK
    /\ settings.kind \in {"normal", "custom"} /\ DOMAIN settings.constraints = DOMAIN DefaultConstraints
    /\ settings.constraints.tunnel_protocol \subseteq Tunnels
    /\ bridge.state \in {"off", "auto", "on"} /\ pick.step \in {"idle", "second", "parameters"}
    /\ pick.result \in {"none", "custom", "ok", "NoRelay", "NoBridge", "NoKey"}
    /\ pick.from \in 0 .. MaxVersion

\* The endpoint that is used belongs to a relay of the list, at the place the user chose,
\* over the tunnel protocol the user chose and, when one was chosen, over a port and a
\* transport protocol the user allows: preferring others never overrides the settings.
SelectionFits ==
    pick.step = "parameters" \/ pick.result = "ok" =>
        \E i \in DOMAIN RelaysOf(pick.from) :
            LET c == settings.constraints
                r == RelaysOf(pick.from)[i]
                e == pick.chosen.endpoint
            IN  /\ r.name = pick.chosen.relay /\ r.km = pick.chosen.km
                /\ relay_matches_location(r, c.location)
                /\ e.tunnel \in c.tunnel_protocol
                /\ e.tunnel = "openvpn" => [port |-> e.port, protocol |-> e.protocol] \in r.openvpn
                /\ c.tunnel_protocol = {"openvpn"} => e.port \in c.openvpn.port /\ e.protocol \in c.openvpn.protocol
                /\ e.tunnel = "wireguard" =>
                      e.port \in c.wireguard /\ \E w \in r.wireguard : \E k \in DOMAIN w : InRange(e.port, w[k])

AllPorts == <<0, 2 ^ PortBits - 1>>

\* A relay that fits the constraints and may be picked.
Usable(r, c) ==
    /\ r.weight > 0 /\ relay_matches_location(r, c.location)
    /\ \/ "openvpn" \in c.tunnel_protocol /\ \E e \in r.openvpn : MatchesOpenVpn(c.openvpn, e)
       \/ /\ "wireguard" \in c.tunnel_protocol
          /\ \E w \in r.wireguard, p \in c.wireguard : \E k \in DOMAIN w : InRange(p, w[k])

\* When a tunnel protocol is chosen, no relay is found only if the list has none with a
\* weight and an endpoint that fit; or if a tunnel has no ranges, or only ranges of all ports
\* there are, whose number is zero in the width of a port.
NoRelayMeansNone ==
    LET relays == {RelaysOf(pick.from)[k] : k \in DOMAIN RelaysOf(pick.from)}
    IN  pick.result = "NoRelay" /\ settings.constraints.tunnel_protocol # Tunnels =>
            \/ \A r \in relays : ~Usable(r, settings.constraints)
            \/ \E r \in relays : \E w \in r.wireguard : \A k \in DOMAIN w : w[k] = AllPorts

\* A bridge is only used with OpenVPN, never when it is switched off, automatically only for
\* TCP and after the fourth attempt; a user who wants a bridge never goes without one.
BridgeOnlyWhenWanted ==
    /\ pick.bridge # "none" =>
          /\ pick.chosen.endpoint.tunnel = "openvpn" /\ bridge.state # "off"
          /\ bridge.state = "auto" => pick.attempt >= 4
          /\ bridge.state = "auto" /\ bridge.kind = "normal" => pick.chosen.endpoint.protocol = "tcp"
    /\ pick.result = "ok" /\ pick.chosen.endpoint.tunnel = "openvpn" /\ bridge.state = "on" =>
          pick.bridge # "none"

build_location_from_relay ==
    [relay  |-> last_generated_relay,
     bridge |-> IF last_generated_relay = "none" THEN "none" ELSE last_generated_bridge_relay]

\* The location the daemon reports is that of the relay and the bridge it last made tunnel
\* parameters for: no relay for a custom endpoint, no bridge of an earlier attempt.
LocationIsThatOfParameters ==
    /\ pick.result = "ok" => build_location_from_relay =
          [relay |-> pick.chosen.relay, bridge |-> IF pick.bridge = "custom" THEN "none" ELSE pick.bridge]
    /\ pick.result = "custom" => build_location_from_relay = [relay |-> "none", bridge |-> "none"]

\* Every random number finds a relay, each relay with a weight can be found, and one without
\* only if it is the first.
RelayChoiceIsSound(relays, n) ==
    LET total == WeightUpTo(relays, n)[n]
    IN  total > 0 =>
          /\ \A i \in 0 .. total : FoundBy(relays, n, i) # {}
          /\ pick_random_relay(relays, n) =
                {relays[k] : k \in {j \in DOMAIN relays :
                    relays[j].weight > 0 \/ \A i \in DOMAIN relays : j <= i}}

\* The ports that can be picked are those in the ranges.
PortChoiceIsSound(ranges) ==
    get_port_for_wireguard_relay(ranges, Ports) = {p \in Ports : \E k \in DOMAIN ranges : InRange(p, ranges[k])}

\* Whatever the weights, and whatever the ranges, short of one that has every port, the random
\* choices are sound.
RandomChoiceIsSound ==
    phase = "down" /\ boots = 0 =>
        /\ \A n \in 1 .. 4 : \A weights \in [1 .. n -> 0 .. 2] :
              RelayChoiceIsSound([k \in 1 .. n |-> [weight |-> weights[k], nr |-> k]], n)
        /\ \A n \in 1 .. 2 : \A ranges \in [1 .. n -> {r \in Ports \X Ports : r[1] <= r[2] /\ r # AllPorts}] :
              PortChoiceIsSound(ranges)

\* Whatever is chosen, by chance or not, is what the settings allow, and is reported.
SelectionIsSound ==
    /\ SelectionFits /\ NoRelayMeansNone /\ BridgeOnlyWhenWanted
    /\ LocationIsThatOfParameters /\ RandomChoiceIsSound

\* After kills, upgrades and cut-short files the daemon starts with a sound address of the API
\* and with relays.
StartIsSound == RelaysTypeOK /\ ApiAddressIsSound /\ KnownAddressSurvives /\ StartsWithRelays
=============================================================================
