------------------------- MODULE MCTunnelProtection -------------------------
(***************************************************************************)
(* The refinement is checked on the instances of the tunnel state machine. *)
(***************************************************************************)
EXTENDS MCTunnelStateMachine, TunnelProtection

=============================================================================
