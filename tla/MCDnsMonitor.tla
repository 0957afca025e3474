---------------------------- MODULE MCDnsMonitor ----------------------------
EXTENDS DnsMonitor

\* One host for every backend, one that names a backend that does not work, and one that
\* names the static file although systemd-resolved runs.
SystemdHost    == [module |-> "", resolved |-> TRUE, nm |-> "systemd-resolved",
                   resolvconf |-> "resolvectl", conf |-> "resolved"]
NmHost         == [module |-> "", resolved |-> TRUE, nm |-> "default",
                   resolvconf |-> "resolvectl", conf |-> "nm"]
ResolvconfHost == [module |-> "", resolved |-> FALSE, nm |-> "default",
                   resolvconf |-> "own", conf |-> "other"]
StaticHost     == [module |-> "", resolved |-> FALSE, nm |-> "unmanaged",
                   resolvconf |-> "absent", conf |-> "other"]
WrongModule    == [NmHost EXCEPT !.module = "systemd"]
StaticModule   == [SystemdHost EXCEPT !.module = "static-file"]

MCHosts == {SystemdHost, NmHost, ResolvconfHost, StaticHost, WrongModule, StaticModule}
=============================================================================
