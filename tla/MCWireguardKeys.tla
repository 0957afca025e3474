--------------------------- MODULE MCWireguardKeys ---------------------------
(* An instance of WireguardKeys for TLC. *)
EXTENDS WireguardKeys

CONSTANTS a1, a2

\* With the empty one they are more than the list holds.
MCAccounts  == {a1, a2}
MCRequests  == AllRequests
\* Nothing goes wrong, or anything may.
MCFaultSets == {{}, AllKeyFaults}

=============================================================================
