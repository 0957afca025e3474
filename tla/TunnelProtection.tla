-------------------------- MODULE TunnelProtection --------------------------
(***************************************************************************)
(* The tunnel state machine implements Protection: however commands,       *)
(* tunnel events, failures and exits interleave, a step of the machine is  *)
(* one Protection allows.                                                  *)
(***************************************************************************)
EXTENDS TunnelStateMachine

Phase ==
    CASE state = "Stopped" -> "Ended"
      [] state \in {"Disconnected", "Finished"} -> "Off"
      [] OTHER -> IF firewall.kind = "None" THEN "Exposed" ELSE "Sealed"

Wish == IF requested = "Disconnect" THEN "Open" ELSE "Protect"

Abstract == INSTANCE Protection
                WITH wish <- Wish, abandoned <- ~commandsOpen, phase <- Phase

(***************************************************************************)
(* The refinement: once a firewall policy is in force it stays until the   *)
(* user disconnects or the daemon is gone, and no protection is set up     *)
(* that was not asked for.                                                 *)
(***************************************************************************)
ImplementsProtection == Abstract!Spec

=============================================================================
