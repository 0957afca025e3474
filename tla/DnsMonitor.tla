----------------------------- MODULE DnsMonitor -----------------------------
(***************************************************************************)
(* The host's DNS settings while the tunnel state machine sets and resets    *)
(* them: the four ways of Linux, the dynamic store of macOS and WinDns.      *)
(* The host changes its settings too; the daemon may be killed at any step   *)
(* and started again.                                                       *)
(*                                                                         *)
(* DNS settings are kept in places.  A value is the list of name servers of  *)
(* a place: one of the host's or one of ours.  Writing a file or a place is  *)
(* one step.                                                               *)
(***************************************************************************)
EXTENDS Naturals

CONSTANTS
    Platforms,      \* subset of {"linux", "macos", "windows"}
    Hosts,          \* the ways a Linux host may be set up
    Ours,           \* the server lists the tunnel state machine sets
    Theirs,         \* those of the host
    None,           \* no servers
    MaxHostChanges, \* bound: how often the host changes its settings
    MaxCrashes,     \* bound: how often the daemon is killed
    Faults          \* subset of {"write", "remove"}

ASSUME PlatformsAssumption == Platforms \subseteq {"linux", "macos", "windows"} /\ Hosts # {}
ASSUME ValuesAssumption == /\ Ours \cap Theirs = {} /\ None \notin Ours \cup Theirs
                           /\ Theirs # {} /\ Ours # {}
ASSUME HostsAssumption ==
    Hosts \subseteq [module: {"", "systemd", "network-manager", "resolvconf", "static-file"},
                    resolved: BOOLEAN,                            \* systemd-resolved runs
                    nm: {"absent", "unmanaged", "none", "systemd-resolved", "default"},
                    resolvconf: {"absent", "resolvectl", "own"},  \* what the program is
                    conf: {"resolved", "nm", "other"}]            \* whose resolv.conf it is

VARIABLES
    platform,
    host,           \* how this Linux host is set up; module is TALPID_DNS_MODULE
    dns,            \* the value of every place
    changed,        \* places whose change our watcher has not handled yet
    backup,         \* the backup file
    inner,          \* Linux: the backend of DnsMonitor.inner, "None" without
    holding,        \* the state of the static and of the macOS monitor: what it enforces
    saved,          \* its backup of every place, None where the host has no value
    op,             \* the step the current call is at, "idle" or "down"
    want,           \* the servers the current call sets, None for a reset
    desired,        \* history: the servers of the last call, if it succeeded
    wish,           \* history: what the host last set itself
    failed,         \* history: a step failed, or a change was lost to a race or a crash
    hostChanges, crashes

vars == <<platform, host, dns, changed, backup, inner, holding, saved, op, want, desired, wish,
          failed, hostChanges, crashes>>
monitorVars == <<inner, holding, saved>>
historyVars == <<wish, hostChanges, crashes>>

\* /etc/resolv.conf, the tunnel's link in systemd-resolved, NetworkManager's global
\* settings, our resolvconf record; the two entries of a macOS service; WinDns' adapters.
PlacesOf(p) == CASE p = "linux"   -> {"file", "link", "global", "record"}
                 [] p = "macos"   -> {"state", "setup"}
                 [] p = "windows" -> {"adapters"}
Places  == PlacesOf(platform)
HostOwn == Places \cap {"file", "state", "setup", "adapters"}   \* the host writes these

Values == Ours \cup Theirs \cup {None}

Init ==
    /\ platform \in Platforms
    /\ host \in IF platform = "linux" THEN Hosts ELSE {CHOOSE h \in Hosts : TRUE}
    /\ \E v \in Theirs : dns = [p \in PlacesOf(platform) |-> IF p \in {"file", "state", "adapters"} THEN v ELSE None]
    /\ changed = {} /\ backup = None /\ inner = "None" /\ holding = None
    /\ saved = [p \in PlacesOf(platform) |-> None]
    /\ op = "idle" /\ want = None /\ desired = None
    /\ wish = dns /\ failed = FALSE /\ hostChanges = 0 /\ crashes = 0

MayFail(what) == what \in Faults

-----------------------------------------------------------------------------
(* The host                                                                *)

HostWrites ==
    /\ hostChanges < MaxHostChanges /\ hostChanges' = hostChanges + 1
    /\ \E p \in HostOwn, v \in Theirs \cup (IF platform = "macos" THEN {None} ELSE {}) :
          /\ dns' = [dns EXCEPT ![p] = v] /\ wish' = [wish EXCEPT ![p] = v]
          /\ changed' = changed \cup {p}
    /\ UNCHANGED <<platform, host, backup, monitorVars, op, want, desired, failed, crashes>>

\* Another program manages DNS from now on.  The daemon's environment stays.
HostSwitches ==
    /\ platform = "linux"
    /\ hostChanges < MaxHostChanges /\ hostChanges' = hostChanges + 1
    /\ host' \in {h \in Hosts \ {host} : h.module = host.module}
    /\ UNCHANGED <<platform, dns, changed, backup, monitorVars, op, want, desired, wish, failed,
                   crashes>>

\* The tunnel's link goes away, and with it what systemd-resolved knew of it.
LinkGone ==
    /\ platform = "linux" /\ dns["link"] # None
    /\ dns' = [dns EXCEPT !["link"] = None] /\ failed' = TRUE
    /\ UNCHANGED <<platform, host, changed, backup, monitorVars, op, want, desired, historyVars>>

-----------------------------------------------------------------------------
(* The calls of the tunnel state machine                                    *)

\* set on Linux resets first.
CallSet ==
    /\ op = "idle"
    /\ want' \in Ours
    /\ op' = CASE platform = "linux" -> "reset" [] platform = "macos" -> "macSet"
               [] platform = "windows" -> "winBackup"
    /\ UNCHANGED <<platform, host, dns, changed, backup, monitorVars, desired, failed, historyVars>>

CallReset ==
    /\ op = "idle"
    /\ want' = None
    /\ op' = CASE platform = "linux" -> "reset" [] platform = "macos" -> "macReset"
               [] platform = "windows" -> "winReset"
    /\ UNCHANGED <<platform, host, dns, changed, backup, monitorVars, desired, failed, historyVars>>

CallUnchanged == UNCHANGED <<platform, host, want, historyVars>>

Succeeds == op' = "idle" /\ desired' = want /\ UNCHANGED failed
Fails    == op' = "idle" /\ desired' = None /\ failed' = TRUE
GoesOn(step) == op' = step /\ UNCHANGED <<desired, failed>>

-----------------------------------------------------------------------------
(* Linux: reset                                                            *)

\* After a reset: a set goes on with a new backend.
ResetDone == IF want = None THEN Succeeds ELSE GoesOn("new")

\* The place the backend keeps our servers in.
PlaceOf(b) == CASE b = "systemd" -> "link" [] b = "network-manager" -> "global"
                [] b = "resolvconf" -> "record" [] b = "static" -> "file"

\* Mutant: a set does not reset what is set.
LinuxResetForgets ==
    /\ op = "reset"
    /\ inner' = "None" /\ holding' = None /\ UNCHANGED <<dns, changed, saved, backup>>
    /\ ResetDone
    /\ CallUnchanged

\* SystemdResolved::reset reverts the link, and a link that is gone is no error;
\* NetworkManager::reset sets an empty configuration; Resolvconf::reset deletes our record.
ProgramResets ==
    /\ inner \in {"systemd", "network-manager", "resolvconf"}
    /\ dns' = [dns EXCEPT ![PlaceOf(inner)] = None]
    /\ ResetDone /\ UNCHANGED <<changed, holding>>

\* StaticResolvConf::reset writes the backup; its file is removed in the next step.
StaticResets ==
    /\ inner = "static" /\ holding' = None
    /\ dns' = [dns EXCEPT !["file"] = saved["file"]]
    /\ op' = "removeBackup" /\ UNCHANGED <<changed, desired>>
    /\ failed' = (failed \/ dns["file"] # holding)

\* DnsMonitor::reset: inner is taken before it is reset; a reset that fails is not tried
\* again.
LinuxReset ==
    /\ op = "reset"
    /\ inner' = "None"
    /\ \/ inner = "None" /\ ResetDone /\ UNCHANGED <<dns, changed, holding>>
       \/ ProgramResets
       \/ StaticResets
       \/ inner # "None" /\ MayFail("write") /\ holding' = None /\ Fails /\ UNCHANGED <<dns, changed>>
    /\ UNCHANGED <<backup, saved>> /\ CallUnchanged

\* Failing to remove the file is ignored.
LinuxRemoveBackup ==
    /\ op = "removeBackup"
    /\ \/ backup' = None /\ ResetDone
       \/ /\ MayFail("remove") /\ UNCHANGED <<backup, desired>> /\ failed' = TRUE
          /\ op' = IF want = None THEN "idle" ELSE "new"
    /\ UNCHANGED <<dns, changed, monitorVars>> /\ CallUnchanged

-----------------------------------------------------------------------------
(* Linux: a new backend, and set                                            *)

\* SystemdResolved::new: resolv.conf must be resolved's link and name its stub.
SystemdWorks == host.resolved /\ host.conf = "resolved"

\* NetworkManager::new: it must manage resolv.conf itself, with the contents it has.
NetworkManagerWorks == host.nm = "default" /\ host.conf = "nm"

\* Resolvconf::new: the program must not be resolvectl by another name.
ResolvconfWorks == host.resolvconf = "own"

\* with_detected_dns_manager: the first that works; the static file always may be tried.
with_detected_dns_manager ==
    CASE SystemdWorks -> "systemd"
      [] ~SystemdWorks /\ NetworkManagerWorks -> "network-manager"
      [] ~SystemdWorks /\ ~NetworkManagerWorks /\ ResolvconfWorks -> "resolvconf"
      [] OTHER -> "static"

\* DnsMonitorHolder::new: TALPID_DNS_MODULE may name the backend, which then must work.
LinuxNew ==
    /\ op = "new"
    /\ LET named == CASE host.module = "systemd"         -> SystemdWorks
                      [] host.module = "network-manager" -> NetworkManagerWorks
                      [] host.module = "resolvconf"      -> ResolvconfWorks
                      [] OTHER                           -> TRUE
           backend == CASE host.module = ""            -> with_detected_dns_manager
                        [] host.module = "static-file" -> "static"
                        [] OTHER                       -> host.module
       IN  IF named THEN GoesOn(IF backend = "static" THEN "restore" ELSE backend) ELSE Fails
    /\ UNCHANGED <<dns, changed, backup, monitorVars>> /\ CallUnchanged

\* StaticResolvConf::new, restore_from_backup: the file is written, then its backup removed.
StaticRestores ==
    /\ op = "restore"
    /\ \/ backup = None /\ GoesOn("save") /\ UNCHANGED dns
       \/ /\ backup # None /\ dns' = [dns EXCEPT !["file"] = backup]
          /\ op' = "restoreRemove" /\ UNCHANGED desired
          /\ failed' = (failed \/ dns["file"] \in Theirs)
       \/ backup # None /\ MayFail("write") /\ Fails /\ UNCHANGED dns
    /\ UNCHANGED <<changed, backup, monitorVars>> /\ CallUnchanged

StaticRestoreRemoves ==
    /\ op = "restoreRemove"
    /\ \/ backup' = None /\ GoesOn("save")
       \/ MayFail("remove") /\ Fails /\ UNCHANGED backup
    /\ UNCHANGED <<dns, changed, monitorVars>> /\ CallUnchanged

\* The backend is kept only when its set worked.
Kept(b)  == inner' = b /\ Succeeds
NotKept  == MayFail("write") /\ Fails /\ UNCHANGED inner
Asked(b) == op = b /\ UNCHANGED <<changed, backup, holding, saved>> /\ CallUnchanged

\* SystemdResolved::set_dns: the servers of the tunnel's link, then its search domain; when
\* the second call fails the servers stay.
SystemdSets ==
    /\ Asked("systemd")
    /\ \/ dns' = [dns EXCEPT !["link"] = want] /\ Kept("systemd")
       \/ dns' \in {dns, [dns EXCEPT !["link"] = want]} /\ NotKept

\* NetworkManager::set_dns: the global configuration is replaced.
NetworkManagerSets ==
    /\ Asked("network-manager")
    /\ \/ dns' = [dns EXCEPT !["global"] = want] /\ Kept("network-manager")
       \/ UNCHANGED dns /\ NotKept

\* Resolvconf::set_dns: our record is added.
ResolvconfSets ==
    /\ Asked("resolvconf")
    /\ \/ dns' = [dns EXCEPT !["record"] = want] /\ Kept("resolvconf")
       \/ UNCHANGED dns /\ NotKept

\* Mutant: the backup is only written with the first change the watcher sees.
StaticSavesLate ==
    /\ op = "save"
    /\ saved' = [saved EXCEPT !["file"] = dns["file"]] /\ GoesOn("staticWrite")
    /\ UNCHANGED <<dns, changed, inner, holding, backup>> /\ CallUnchanged

\* StaticResolvConf::set_dns: the file is read and backed up ...
StaticSaves ==
    /\ op = "save"
    /\ \/ /\ saved' = [saved EXCEPT !["file"] = dns["file"]] /\ backup' = dns["file"]
          /\ GoesOn("staticWrite")
       \/ MayFail("write") /\ Fails /\ UNCHANGED <<saved, backup>>
    /\ UNCHANGED <<dns, changed, inner, holding>> /\ CallUnchanged

\* ... and then written.  The lock is held all the while.
StaticWrites ==
    /\ op = "staticWrite"
    /\ \/ /\ dns' = [dns EXCEPT !["file"] = want] /\ changed' = changed \cup {"file"}
          /\ inner' = "static" /\ holding' = want /\ op' = "idle" /\ desired' = want
          /\ failed' = (failed \/ dns["file"] # saved["file"])
       \/ MayFail("write") /\ Fails /\ UNCHANGED <<dns, changed, inner, holding>>
    /\ UNCHANGED <<saved, backup>> /\ CallUnchanged

\* Mutant: the host's change is remembered but left in force.
WatcherSavesOnly ==
    /\ platform = "linux" /\ "file" \in changed
    /\ op \notin {"staticWrite", "removeBackup", "down"}
    /\ saved' = IF holding # None /\ dns["file"] # holding
                THEN [saved EXCEPT !["file"] = dns["file"]] ELSE saved
    /\ changed' = changed \ {"file"}
    /\ UNCHANGED <<dns, backup, failed>>
    /\ UNCHANGED <<platform, host, inner, holding, op, want, desired, historyVars>>

\* DnsWatcher::update, in its own thread, when it gets the lock: a change of the host's is
\* kept as the new backup and undone; a change of ours has the backup written.
WatcherUpdates ==
    /\ platform = "linux" /\ "file" \in changed
    /\ op \notin {"staticWrite", "removeBackup", "down"}
    /\ IF holding = None
       THEN changed' = changed \ {"file"} /\ UNCHANGED <<dns, saved, backup, failed>>
       ELSE IF dns["file"] # holding
       THEN /\ saved' = [saved EXCEPT !["file"] = dns["file"]]
            /\ \/ dns' = [dns EXCEPT !["file"] = holding] /\ UNCHANGED <<changed, failed>>
               \/ /\ MayFail("write") /\ failed' = TRUE
                  /\ changed' = changed \ {"file"} /\ UNCHANGED dns
            /\ UNCHANGED backup
       ELSE /\ changed' = changed \ {"file"}
            /\ \/ backup' = saved["file"] /\ UNCHANGED failed
               \/ MayFail("write") /\ failed' = TRUE /\ UNCHANGED backup
            /\ UNCHANGED <<dns, saved>>
    /\ UNCHANGED <<platform, host, inner, holding, op, want, desired, historyVars>>

-----------------------------------------------------------------------------
(* macOS                                                                   *)

\* read_all_dns: a state entry is kept with its setup entry, there or not; a setup entry
\* without a state entry alone.
read_all_dns ==
    LET kept == IF dns["state"] # None THEN Places ELSE {p \in {"setup"} : dns[p] # None}
    IN  [p \in kept |-> dns[p]]

\* Our servers in some of the entries.
Overwritten(ps, v) == [p \in Places |-> IF p \in ps THEN v ELSE dns[p]]

\* A change of the host's that was not seen yet is written over.
LosesChange(ps) == \E p \in ps : dns[p] # holding

\* set: everything is backed up the first time, and the same servers are not set again; an
\* error on the way forgets the state with its backup.
MacSet ==
    /\ op = "macSet"
    /\ LET kept == IF holding = None THEN read_all_dns ELSE saved
           keys == DOMAIN kept
       IN  \/ want = holding /\ Succeeds /\ UNCHANGED <<dns, changed, holding, saved>>
           \/ /\ want # holding /\ holding' = want /\ saved' = kept
              /\ dns' = Overwritten(keys, want) /\ changed' = changed \cup keys
              /\ op' = "idle" /\ desired' = want
              /\ failed' = (failed \/ (holding # None /\ LosesChange(keys)))
           \/ /\ want # holding /\ MayFail("write") /\ Fails /\ holding' = None /\ UNCHANGED saved
              /\ \E some \in SUBSET keys \ {keys} :
                    dns' = Overwritten(some, want) /\ changed' = changed \cup some
    /\ UNCHANGED <<inner, backup>> /\ CallUnchanged

\* reset: every entry gets its backup back, or is removed; an error leaves the rest.
MacReset ==
    /\ op = "macReset" /\ holding' = None
    /\ LET Back(ps) == [p \in Places |-> IF p \in ps THEN saved[p] ELSE dns[p]]
           keys     == DOMAIN saved
       IN  \/ holding = None /\ Succeeds /\ UNCHANGED <<dns, changed>>
           \/ /\ holding # None /\ dns' = Back(keys) /\ changed' = changed \cup keys
              /\ op' = "idle" /\ desired' = None /\ failed' = (failed \/ LosesChange(keys))
           \/ /\ holding # None /\ MayFail("write") /\ Fails
              /\ \E some \in SUBSET keys \ {keys} :
                    dns' = Back(some) /\ changed' = changed \cup some
    /\ UNCHANGED <<inner, saved, backup>> /\ CallUnchanged

\* dns_change_callback_internal: a change that is not ours is backed up and undone, a
\* state entry together with its setup entry.
MacCallback(p) ==
    /\ platform = "macos" /\ op # "down" /\ p \in changed
    /\ IF holding = None \/ dns[p] = holding
       THEN changed' = changed \ {p} /\ UNCHANGED <<dns, saved, failed>>
       ELSE LET also == IF p = "state" THEN {"setup"} ELSE {}
                all  == {p} \cup also
            IN  /\ saved' = [q \in DOMAIN saved \cup all |->
                                IF q \in DOMAIN saved \ {p} THEN saved[q] ELSE dns[q]]
                /\ \E done \in IF MayFail("write") THEN SUBSET all ELSE {all} :
                      /\ dns' = Overwritten(done, holding)
                      /\ changed' = (changed \ {p}) \cup (done \cap also)
                      /\ failed' = (failed \/ done # all \/ LosesChange(also \cap DOMAIN saved))
    /\ UNCHANGED <<platform, host, inner, holding, backup, op, want, desired, historyVars>>

-----------------------------------------------------------------------------
(* Windows.  WinDns enforces the servers itself; it hands its backup to us first. *)

WinBackup ==
    /\ op = "winBackup"
    /\ \/ /\ backup' = IF dns["adapters"] \in Ours THEN backup ELSE dns["adapters"]
          /\ saved' = IF dns["adapters"] \in Ours THEN saved ELSE dns
          /\ GoesOn("winSet")
       \/ MayFail("write") /\ Fails /\ UNCHANGED <<backup, saved>>
    /\ UNCHANGED <<dns, changed, inner, holding>> /\ CallUnchanged

WinSet ==
    /\ op = "winSet"
    /\ \/ /\ dns' = [dns EXCEPT !["adapters"] = want] /\ holding' = want
          /\ op' = "idle" /\ desired' = want
          /\ failed' = (failed \/ dns["adapters"] \in Theirs \ {saved["adapters"]})
       \/ MayFail("write") /\ Fails /\ UNCHANGED <<dns, holding>>
    /\ UNCHANGED <<changed, inner, saved, backup>> /\ CallUnchanged

\* WinDns sees the host's changes: it remembers them and sets its own servers again.
WinDnsEnforces ==
    /\ platform = "windows" /\ changed # {} /\ op \notin {"down", "winBackup", "winSet", "winReset"}
    /\ changed' = {}
    /\ IF holding = None \/ dns["adapters"] \in Ours
       THEN UNCHANGED <<dns, saved, backup>>
       ELSE saved' = dns /\ backup' = dns["adapters"] /\ dns' = [dns EXCEPT !["adapters"] = holding]
    /\ UNCHANGED <<platform, host, inner, holding, op, want, desired, failed, historyVars>>

WinReset ==
    /\ op = "winReset"
    /\ \/ /\ dns' = IF holding = None \/ dns["adapters"] \notin Ours THEN dns ELSE saved
          /\ holding' = None /\ GoesOn("winRemove")
       \/ MayFail("write") /\ Fails /\ UNCHANGED <<dns, holding>>
    /\ UNCHANGED <<changed, inner, saved, backup>> /\ CallUnchanged

\* A backup that cannot be removed is only logged.
WinRemove ==
    /\ op = "winRemove"
    /\ \/ backup' = None /\ Succeeds
       \/ MayFail("remove") /\ UNCHANGED backup /\ op' = "idle" /\ desired' = want /\ failed' = TRUE
    /\ UNCHANGED <<dns, changed, monitorVars>> /\ CallUnchanged

-----------------------------------------------------------------------------
(* The daemon is killed, and started again                                  *)

Crash ==
    /\ op # "down" /\ crashes < MaxCrashes /\ crashes' = crashes + 1
    /\ op' = "down" /\ want' = None /\ desired' = None
    /\ inner' = "None" /\ holding' = None /\ saved' = [p \in Places |-> None] /\ changed' = {}
    /\ failed' = (failed \/ platform # "windows" \/ changed # {})
    /\ UNCHANGED <<platform, host, dns, backup, wish, hostChanges>>

\* DnsMonitor::new.  Windows restores the backup, and removes it whether or not that worked.
New ==
    /\ op = "down"
    /\ IF platform = "windows" /\ backup # None
       THEN /\ op' = "winRemove"
            /\ \/ /\ dns' = [dns EXCEPT !["adapters"] = backup]
                  /\ failed' = (failed \/ dns["adapters"] \in Theirs \ {backup})
               \/ MayFail("write") /\ failed' = TRUE /\ UNCHANGED dns
       ELSE op' = "idle" /\ UNCHANGED <<dns, failed>>
    /\ changed' = {}
    /\ UNCHANGED <<platform, host, backup, monitorVars, want, desired, historyVars>>

-----------------------------------------------------------------------------
CallStep ==
    \/ LinuxReset \/ LinuxRemoveBackup \/ LinuxNew \/ StaticRestores \/ StaticRestoreRemoves
    \/ SystemdSets \/ NetworkManagerSets \/ ResolvconfSets \/ StaticSaves \/ StaticWrites \/ MacSet \/ MacReset
    \/ WinBackup \/ WinSet \/ WinReset \/ WinRemove
WatcherStep == WatcherUpdates \/ (\E p \in Places : MacCallback(p)) \/ WinDnsEnforces

Next ==
    \/ HostWrites \/ HostSwitches \/ LinkGone
    \/ CallSet \/ CallReset \/ CallStep
    \/ WatcherStep
    \/ Crash \/ New

\* The watching threads run, every change reaches them, and a call runs to its end.
Spec ==
    /\ Init /\ [][Next]_vars
    /\ WF_vars(CallStep) /\ WF_vars(WatcherUpdates) /\ WF_vars(WinDnsEnforces)
    /\ \A p \in {"state", "setup"} : WF_vars(MacCallback(p))

-----------------------------------------------------------------------------
\* Every variable has its type.
DnsTypeOK ==
    /\ platform \in Platforms /\ host \in Hosts
    /\ dns \in [Places -> Values] /\ DOMAIN saved \subseteq Places
    /\ \A p \in DOMAIN saved : saved[p] \in Values
    /\ wish \in [Places -> Values \ Ours] /\ changed \subseteq HostOwn
    /\ backup \in Values \ Ours /\ holding \in Ours \cup {None}
    /\ inner \in {"None", "systemd", "network-manager", "resolvconf", "static"}
    /\ op \in {"idle", "down", "reset", "removeBackup", "new", "restore", "restoreRemove", "save",
               "systemd", "network-manager", "resolvconf",
               "staticWrite", "macSet", "macReset", "winBackup", "winSet", "winReset", "winRemove"}
    /\ want \in Ours \cup {None} /\ desired \in Ours \cup {None} /\ failed \in BOOLEAN

\* Where our servers are found when they are in force.
InForce ==
    CASE platform = "linux" -> inner # "None" /\ dns[PlaceOf(inner)] = desired
      [] platform = "macos" -> \A p \in Places : dns[p] = desired \/ (dns[p] = None /\ p \notin DOMAIN saved)
      [] platform = "windows" -> dns["adapters"] = desired

\* After a set that succeeded, and once every change of the host's was handled, our
\* servers are the ones in force.
DesiredIsInForce == desired # None /\ op = "idle" /\ changed = {} /\ ~failed => InForce

\* A set on Linux replaces what the set before it left, in whichever program that was: our
\* servers are never in two places at once.
OnePlaceOnLinux ==
    platform = "linux" /\ ~failed => \A p, q \in Places : dns[p] \in Ours /\ dns[q] \in Ours => p = q

\* While DNS is set, our servers are in force, in the one place where they belong.
OurServersAreInForce == DesiredIsInForce /\ OnePlaceOnLinux

\* After a reset, or a restart on Windows, nothing of ours is left, and the host's
\* settings are those it last chose itself, unless a step failed or came too late.
HostGetsItsDnsBack ==
    desired = None /\ op = "idle" /\ changed = {} /\ ~failed => dns = wish

\* Whatever step the daemon is killed at: while resolv.conf or the adapters hold our
\* servers, the backup file holds settings of the host's to put back.  On Linux this is so
\* whatever fails; Windows gives the backup up when it cannot be put back.
BackupIsThere ==
    /\ (platform = "linux" /\ dns["file"] \in Ours) => backup \in Theirs
    /\ (platform = "windows" /\ ~failed /\ dns["adapters"] \in Ours) => backup \in Theirs

\* The host's own settings are never lost: they are back after a reset, and can be put back
\* after a kill.
HostKeepsItsDns == DnsTypeOK /\ HostGetsItsDnsBack /\ BackupIsThere

\* A change the host makes while our servers are enforced does not stay: our servers are
\* put back, unless they are reset meanwhile or a step fails.
ChangesAreUndone ==
    \A p \in {"file", "state", "setup", "adapters"} :
        (p \in changed /\ holding # None) ~> (p \notin Places \/ dns[p] \in Ours \/ holding = None \/ failed)
=============================================================================
