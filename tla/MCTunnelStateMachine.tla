------------------------ MODULE MCTunnelStateMachine ------------------------
(***************************************************************************)
(* Small instances of the tunnel state machine. Two tunnel monitors are    *)
(* enough to tell a tunnel from its successor; the two parameter sets      *)
(* differ in their peer and in whether it is a proxy's endpoint.           *)
(***************************************************************************)
EXTENDS TunnelStateMachine, TLC

CONSTANTS t1, t2

MCTunnels == {t1, t2}
MCParameters ==
    {[protocol |-> "OpenVpn", endpoint |-> "relay", proxy |-> "bridge"],
     [protocol |-> "Wireguard", endpoint |-> "relay", proxy |-> NoProxy]}
MCOneParameters ==
    {[protocol |-> "OpenVpn", endpoint |-> "relay", proxy |-> NoProxy]}
Symmetry == Permutations(MCTunnels)

=============================================================================
