------------------------------ MODULE MCDaemon ------------------------------
(***************************************************************************)
(* Small instances of the daemon with the tunnel state machine. One tunnel *)
(* monitor is enough: the machine never has two.                           *)
(***************************************************************************)
EXTENDS Daemon

CONSTANTS t1, a1

MCTunnels == {t1}
MCParameters == {[protocol |-> "Wireguard", endpoint |-> "relay", proxy |-> NoProxy]}
MCAccounts == {a1}

MCDefaults == {[lan |-> FALSE, block |-> FALSE]}

TargetRequests == [name : {"SetTargetState"}, value : TargetState]
MCSteering ==
    TargetRequests \cup [name : {"ChangeTunnelOptions", "Shutdown"}]
MCSettings ==
    TargetRequests
      \cup [name : {"SetBlockWhenDisconnected"}, value : BOOLEAN]
      \cup [name : {"SetAccount"}, value : {a1, NoAccount, EmptyAccount}]
      \cup [name : {"FactoryReset"}]
MCShutdown ==
    TargetRequests
      \cup [name : {"SetAllowLan"}, value : {TRUE}]
      \cup [name : {"Shutdown"}]

=============================================================================
