-------------------------- MODULE DnsMonitorProofs --------------------------
(***************************************************************************)
(* The host's DNS settings are never lost and ours are in force, for every   *)
(* host, every set of server lists and any number of changes and crashes.    *)
(*                                                                         *)
(* Where the host's last wish is kept differs from platform to platform: in  *)
(* the place itself, or, while our servers are there, in the monitor's       *)
(* backup.  The invariant is one such statement for each platform.           *)
(***************************************************************************)
EXTENDS DnsMonitor, TLAPS

Programs == {"systemd", "network-manager", "resolvconf"}

-----------------------------------------------------------------------------
(* Linux                                                                   *)

\* Every call goes through the steps of Linux, and a set knows its servers all the way.
LinuxSteps ==
    /\ op \in {"idle", "down", "reset", "removeBackup", "new", "restore", "restoreRemove", "save",
               "staticWrite"} \cup Programs
    /\ saved \in [Places -> Values]
    /\ op \notin {"idle", "down", "reset", "removeBackup"} => want \in Ours

\* resolv.conf, whatever fails: its backup is there before our servers are.
LinuxFile ==
    /\ dns["file"] \in Ours \cup Theirs
    /\ dns["file"] \in Ours => backup \in Theirs
    /\ inner = "static" <=> holding # None
    /\ inner # "None" => op \in {"idle", "reset"}
    /\ holding # None => /\ saved["file"] \in Theirs /\ backup \in Theirs
                         /\ dns["file"] \in Theirs \cup {holding}
    /\ op \in {"removeBackup", "restoreRemove", "save", "staticWrite"} => dns["file"] \in Theirs
    /\ op = "staticWrite" => backup \in Theirs /\ saved["file"] \in Theirs

\* Our servers are with the one program that is set, or nowhere.
LinuxPrograms ==
    /\ op # "down"
    /\ op \in {"idle", "reset"} => (inner = "None" <=> desired = None)
    /\ \A p \in {"link", "global", "record"} :
          /\ dns[p] = IF inner \in Programs /\ PlaceOf(inner) = p THEN desired ELSE None
          /\ wish[p] = None

\* The host's last resolv.conf is in the file, or in the backup of the monitor that holds it.
LinuxWish ==
    /\ inner = "static" => holding = desired
    /\ \/ dns["file"] = wish["file"]
       \/ holding # None /\ dns["file"] = holding /\ saved["file"] = wish["file"]
    /\ holding # None /\ "file" \notin changed => dns["file"] = holding

LinuxInv == LinuxSteps /\ LinuxFile /\ (~failed => LinuxPrograms /\ LinuxWish)

-----------------------------------------------------------------------------
(* macOS                                                                   *)

MacSteps ==
    /\ op \in {"idle", "down", "macSet", "macReset"} /\ inner = "None" /\ backup = None
    /\ op = "macSet" => want \in Ours
    /\ op = "macReset" => want = None

\* The host's last value of every entry is in the entry or in our backup of it; an entry
\* that is not ours has a change to handle, or is one that neither has.
MacWish ==
    /\ op # "down" /\ holding = desired
    /\ holding = None => dns = wish
    /\ holding # None =>
          \A p \in Places :
              IF p \in DOMAIN saved
              THEN \/ dns[p] = holding /\ saved[p] = wish[p]
                   \/ dns[p] = wish[p] /\ p \in changed
              ELSE dns[p] = wish[p] /\ (p \in changed \/ dns[p] = None)

MacInv == MacSteps /\ (~failed => MacWish)

-----------------------------------------------------------------------------
(* Windows                                                                 *)

WinSteps ==
    /\ op \in {"idle", "down", "winBackup", "winSet", "winReset", "winRemove"} /\ inner = "None"
    /\ saved \in [Places -> Values] /\ wish["adapters"] \in Theirs
    /\ op \in {"winBackup", "winSet"} => want \in Ours
    /\ op \in {"winReset", "winRemove", "down"} => want = None

\* The host's last setting is on the adapters, or in the backup file and, while the daemon
\* runs, with WinDns.
WinWish ==
    /\ op # "winRemove" => holding = desired
    /\ op \in {"winRemove", "down"} => holding = None
    /\ dns["adapters"] \notin Ours => dns["adapters"] = wish["adapters"]
    /\ dns["adapters"] \in Ours => backup = wish["adapters"]
    /\ dns["adapters"] \in Ours /\ op # "down" =>
          dns["adapters"] = holding /\ saved["adapters"] = wish["adapters"]
    /\ op = "winSet" => saved["adapters"] = backup
    /\ holding # None => dns["adapters"] = holding \/ changed # {}

WinInv == WinSteps /\ (~failed => WinWish)

-----------------------------------------------------------------------------
DnsInv ==
    /\ DnsTypeOK
    /\ platform = "linux" => LinuxInv
    /\ platform = "macos" => MacInv
    /\ platform = "windows" => WinInv

-----------------------------------------------------------------------------
\* The platform never changes, and with it the places.
LEMMA PlatformStays ==
    ASSUME DnsInv, [Next]_vars
    PROVE  platform' = platform /\ Places' = Places /\ HostOwn' = HostOwn
<1>1. platform' = platform
  BY DEF Next, CallStep, WatcherStep, HostWrites, HostSwitches, LinkGone, CallSet, CallReset,
     LinuxReset, LinuxRemoveBackup, LinuxNew,
     StaticRestores, StaticRestoreRemoves, SystemdSets, NetworkManagerSets, ResolvconfSets,
        StaticSaves,
     StaticWrites, MacSet, MacReset, WinBackup, WinSet, WinReset, WinRemove, WatcherUpdates,
        MacCallback,
     WinDnsEnforces, Crash, New, CallUnchanged, Asked, vars
<1>2. QED
  BY <1>1 DEF Places, HostOwn

\* The places of Linux.
LEMMA LinuxPlaces ==
    ASSUME platform = "linux"
    PROVE  Places = {"file", "link", "global", "record"} /\ HostOwn = {"file"}
<1>1. Places = {"file", "link", "global", "record"}
  BY DEF Places, PlacesOf
<1>2. QED
  BY <1>1 DEF HostOwn

\* The places of macOS.
LEMMA MacPlaces ==
    ASSUME platform = "macos"
    PROVE  Places = {"state", "setup"} /\ HostOwn = Places
<1>1. Places = {"state", "setup"}
  BY DEF Places, PlacesOf
<1>2. QED
  BY <1>1 DEF HostOwn

\* The places of Windows.
LEMMA WinPlaces ==
    ASSUME platform = "windows"
    PROVE  Places = {"adapters"} /\ HostOwn = Places
<1>1. Places = {"adapters"}
  BY DEF Places, PlacesOf
<1>2. QED
  BY <1>1 DEF HostOwn

\* read_all_dns takes the value of every entry it keeps, and keeps every entry that has one.
LEMMA ReadsAll ==
    ASSUME DnsTypeOK, platform = "macos"
    PROVE  /\ DOMAIN read_all_dns \subseteq Places
           /\ \A p \in DOMAIN read_all_dns : read_all_dns[p] = dns[p] /\ dns[p] \in Values
           /\ \A p \in Places \ DOMAIN read_all_dns : dns[p] = None
<1>1. Places = {"state", "setup"}
  BY MacPlaces
<1>2. CASE dns["state"] # None
  BY <1>1, <1>2 DEF read_all_dns, DnsTypeOK
<1>3. CASE dns["state"] = None
  BY <1>1, <1>3 DEF read_all_dns, DnsTypeOK
<1>4. QED
  BY <1>2, <1>3

\* What a step on a Linux host keeps.
LEMMA LinuxKept ==
    ASSUME DnsInv, Next, platform = "linux"
    PROVE  DnsTypeOK' /\ LinuxInv'
<1>a. platform' = platform /\ Places' = Places /\ HostOwn' = HostOwn
  BY PlatformStays
<1>b. Places = {"file", "link", "global", "record"} /\ HostOwn = {"file"}
  BY LinuxPlaces
<1>c. DnsTypeOK /\ LinuxInv
  BY DEF DnsInv
<1> USE <1>a, <1>b, <1>c, ValuesAssumption
    DEF monitorVars, historyVars, CallUnchanged, Succeeds, Fails, GoesOn, ResetDone, MayFail,
        DnsTypeOK, Values, LinuxInv
<1>1. CASE HostWrites
  <2>1. DnsTypeOK'
    BY <1>1 DEF LinuxSteps, LinuxFile, Programs, HostWrites
  <2>2. LinuxSteps'
    BY <1>1 DEF LinuxSteps, Programs, HostWrites
  <2>3. LinuxFile'
    BY <1>1 DEF LinuxSteps, LinuxFile, Programs, HostWrites
  <2>4. ~failed' => LinuxPrograms'
    BY <1>1 DEF LinuxSteps, LinuxFile, LinuxPrograms, LinuxWish, PlaceOf, Programs, HostWrites
  <2>5. ~failed' => LinuxWish'
    BY <1>1 DEF LinuxSteps, LinuxFile, LinuxPrograms, LinuxWish, Programs, HostWrites
  <2>6. QED
    BY <2>1, <2>2, <2>3, <2>4, <2>5
<1>2. CASE HostSwitches
  <2>1. DnsTypeOK'
    BY <1>2 DEF LinuxSteps, LinuxFile, Programs, HostSwitches
  <2>2. LinuxSteps'
    BY <1>2 DEF LinuxSteps, Programs, HostSwitches
  <2>3. LinuxFile'
    BY <1>2 DEF LinuxSteps, LinuxFile, Programs, HostSwitches
  <2>4. ~failed' => LinuxPrograms'
    BY <1>2 DEF LinuxSteps, LinuxFile, LinuxPrograms, LinuxWish, PlaceOf, Programs, HostSwitches
  <2>5. ~failed' => LinuxWish'
    BY <1>2 DEF LinuxSteps, LinuxFile, LinuxPrograms, LinuxWish, Programs, HostSwitches
  <2>6. QED
    BY <2>1, <2>2, <2>3, <2>4, <2>5
<1>3. CASE LinkGone
  <2>1. DnsTypeOK'
    BY <1>3 DEF LinuxSteps, LinuxFile, Programs, LinkGone
  <2>2. LinuxSteps'
    BY <1>3 DEF LinuxSteps, Programs, LinkGone
  <2>3. LinuxFile'
    BY <1>3 DEF LinuxSteps, LinuxFile, Programs, LinkGone
  <2>4. ~failed' => LinuxPrograms'
    BY <1>3 DEF LinuxSteps, LinuxFile, LinuxPrograms, LinuxWish, PlaceOf, Programs, LinkGone
  <2>5. ~failed' => LinuxWish'
    BY <1>3 DEF LinuxSteps, LinuxFile, LinuxPrograms, LinuxWish, Programs, LinkGone
  <2>6. QED
    BY <2>1, <2>2, <2>3, <2>4, <2>5
<1>4. CASE CallSet
  <2>1. DnsTypeOK'
    BY <1>4 DEF LinuxSteps, LinuxFile, Programs, CallSet
  <2>2. LinuxSteps'
    BY <1>4 DEF LinuxSteps, Programs, CallSet
  <2>3. LinuxFile'
    BY <1>4 DEF LinuxSteps, LinuxFile, Programs, CallSet
  <2>4. ~failed' => LinuxPrograms'
    BY <1>4 DEF LinuxSteps, LinuxFile, LinuxPrograms, LinuxWish, PlaceOf, Programs, CallSet
  <2>5. ~failed' => LinuxWish'
    BY <1>4 DEF LinuxSteps, LinuxFile, LinuxPrograms, LinuxWish, Programs, CallSet
  <2>6. QED
    BY <2>1, <2>2, <2>3, <2>4, <2>5
<1>5. CASE CallReset
  <2>1. DnsTypeOK'
    BY <1>5 DEF LinuxSteps, LinuxFile, Programs, CallReset
  <2>2. LinuxSteps'
    BY <1>5 DEF LinuxSteps, Programs, CallReset
  <2>3. LinuxFile'
    BY <1>5 DEF LinuxSteps, LinuxFile, Programs, CallReset
  <2>4. ~failed' => LinuxPrograms'
    BY <1>5 DEF LinuxSteps, LinuxFile, LinuxPrograms, LinuxWish, PlaceOf, Programs, CallReset
  <2>5. ~failed' => LinuxWish'
    BY <1>5 DEF LinuxSteps, LinuxFile, LinuxPrograms, LinuxWish, Programs, CallReset
  <2>6. QED
    BY <2>1, <2>2, <2>3, <2>4, <2>5
<1>6. CASE LinuxReset
  <2>1. DnsTypeOK'
    BY <1>6 DEF LinuxSteps, LinuxFile, Programs, LinuxReset, ProgramResets, StaticResets
  <2>2. LinuxSteps'
    BY <1>6 DEF LinuxSteps, Programs, LinuxReset, ProgramResets, StaticResets
  <2>3. LinuxFile'
    <3>1. CASE inner = "None"
      BY <1>6, <3>1 DEF LinuxSteps, LinuxFile, Programs, LinuxReset, ProgramResets, StaticResets
    <3>2. CASE ProgramResets
      <4>1. PlaceOf(inner) \in {"link", "global", "record"} /\ inner \in Programs
        BY <3>2 DEF ProgramResets, PlaceOf, Programs
      <4>2. dns'["file"] = dns["file"]
        BY <3>2, <4>1 DEF ProgramResets
      <4>3. QED
        BY <1>6, <3>2, <4>1, <4>2 DEF LinuxSteps, LinuxFile, Programs, LinuxReset, ProgramResets
    <3>3. CASE StaticResets
      BY <1>6, <3>3 DEF LinuxSteps, LinuxFile, Programs, LinuxReset, StaticResets
    <3>4. CASE inner # "None" /\ holding' = None /\ Fails /\ UNCHANGED <<dns, changed>>
      BY <1>6, <3>4 DEF LinuxSteps, LinuxFile, Programs, LinuxReset
    <3>5. QED
      BY <1>6, <3>1, <3>2, <3>3, <3>4 DEF LinuxReset
  <2>4. ~failed' => LinuxPrograms'
    BY <1>6 DEF LinuxSteps, LinuxFile, LinuxPrograms, LinuxWish, PlaceOf, Programs, LinuxReset,
       ProgramResets, StaticResets
  <2>5. ~failed' => LinuxWish'
    <3>1. CASE inner = "None"
      BY <1>6, <3>1 DEF LinuxSteps, LinuxFile, LinuxPrograms, LinuxWish, Programs, LinuxReset,
         ProgramResets, StaticResets
    <3>2. CASE ProgramResets
      <4>1. PlaceOf(inner) \in {"link", "global", "record"} /\ inner \in Programs
        BY <3>2 DEF ProgramResets, PlaceOf, Programs
      <4>2. dns'["file"] = dns["file"]
        BY <3>2, <4>1 DEF ProgramResets
      <4>3. QED
        BY <1>6, <3>2, <4>1, <4>2 DEF LinuxSteps, LinuxFile, LinuxPrograms, LinuxWish, Programs,
           LinuxReset, ProgramResets
    <3>3. CASE StaticResets
      BY <1>6, <3>3 DEF LinuxSteps, LinuxFile, LinuxPrograms, LinuxWish, Programs, LinuxReset,
         StaticResets
    <3>4. CASE inner # "None" /\ holding' = None /\ Fails /\ UNCHANGED <<dns, changed>>
      BY <1>6, <3>4 DEF LinuxSteps, LinuxFile, LinuxPrograms, LinuxWish, Programs, LinuxReset
    <3>5. QED
      BY <1>6, <3>1, <3>2, <3>3, <3>4 DEF LinuxReset
  <2>6. QED
    BY <2>1, <2>2, <2>3, <2>4, <2>5
<1>7. CASE LinuxRemoveBackup
  <2>1. DnsTypeOK'
    BY <1>7 DEF LinuxSteps, LinuxFile, Programs, LinuxRemoveBackup
  <2>2. LinuxSteps'
    BY <1>7 DEF LinuxSteps, Programs, LinuxRemoveBackup
  <2>3. LinuxFile'
    BY <1>7 DEF LinuxSteps, LinuxFile, Programs, LinuxRemoveBackup
  <2>4. ~failed' => LinuxPrograms'
    BY <1>7 DEF LinuxSteps, LinuxFile, LinuxPrograms, LinuxWish, PlaceOf, Programs,
       LinuxRemoveBackup
  <2>5. ~failed' => LinuxWish'
    BY <1>7 DEF LinuxSteps, LinuxFile, LinuxPrograms, LinuxWish, Programs, LinuxRemoveBackup
  <2>6. QED
    BY <2>1, <2>2, <2>3, <2>4, <2>5
<1>8. CASE LinuxNew
  <2>0. /\ \/ GoesOn("restore") \/ GoesOn("systemd") \/ GoesOn("network-manager")
           \/ GoesOn("resolvconf") \/ Fails
        /\ UNCHANGED <<dns, changed, backup, monitorVars>> /\ CallUnchanged /\ op = "new"
    <3>1. host.module \in {"", "systemd", "network-manager", "resolvconf", "static-file"}
      BY HostsAssumption
    <3>2. with_detected_dns_manager \in {"systemd", "network-manager", "resolvconf", "static"}
      BY DEF with_detected_dns_manager
    <3> HIDE DEF GoesOn, Fails
    <3>3. QED
      BY <1>8, <3>1, <3>2 DEF LinuxNew
  <2>1. DnsTypeOK'
    BY <2>0 DEF LinuxSteps
  <2>2. LinuxSteps'
    BY <2>0 DEF LinuxSteps, Programs
  <2>3. LinuxFile'
    BY <2>0 DEF LinuxSteps, LinuxFile
  <2>4. ~failed' => LinuxPrograms'
    BY <2>0 DEF LinuxSteps, LinuxFile, LinuxPrograms, LinuxWish
  <2>5. ~failed' => LinuxWish'
    BY <2>0 DEF LinuxSteps, LinuxFile, LinuxPrograms, LinuxWish
  <2>6. QED
    BY <2>1, <2>2, <2>3, <2>4, <2>5
<1>9. CASE StaticRestores
  <2>1. DnsTypeOK'
    <3>1. dns' \in [Places -> Values] /\ op' \in {"save", "restoreRemove", "idle"}
      BY <1>9 DEF StaticRestores
    <3>2. desired' \in {desired, None} /\ failed' \in BOOLEAN
      BY <1>9 DEF StaticRestores
    <3>3. UNCHANGED <<host, changed, backup, inner, holding, saved, want, wish>>
      BY <1>9 DEF StaticRestores
    <3>4. QED
      BY <3>1, <3>2, <3>3
  <2>2. LinuxSteps'
    BY <1>9 DEF LinuxSteps, Programs, StaticRestores
  <2>3. LinuxFile'
    BY <1>9 DEF LinuxSteps, LinuxFile, Programs, StaticRestores
  <2>4. ~failed' => LinuxPrograms'
    BY <1>9 DEF LinuxSteps, LinuxFile, LinuxPrograms, LinuxWish, PlaceOf, Programs, StaticRestores
  <2>5. ~failed' => LinuxWish'
    BY <1>9 DEF LinuxSteps, LinuxFile, LinuxPrograms, LinuxWish, Programs, StaticRestores
  <2>6. QED
    BY <2>1, <2>2, <2>3, <2>4, <2>5
<1>10. CASE StaticRestoreRemoves
  <2>1. DnsTypeOK'
    BY <1>10 DEF LinuxSteps, LinuxFile, Programs, StaticRestoreRemoves
  <2>2. LinuxSteps'
    BY <1>10 DEF LinuxSteps, Programs, StaticRestoreRemoves
  <2>3. LinuxFile'
    BY <1>10 DEF LinuxSteps, LinuxFile, Programs, StaticRestoreRemoves
  <2>4. ~failed' => LinuxPrograms'
    BY <1>10 DEF LinuxSteps, LinuxFile, LinuxPrograms, LinuxWish, PlaceOf, Programs,
       StaticRestoreRemoves
  <2>5. ~failed' => LinuxWish'
    BY <1>10 DEF LinuxSteps, LinuxFile, LinuxPrograms, LinuxWish, Programs, StaticRestoreRemoves
  <2>6. QED
    BY <2>1, <2>2, <2>3, <2>4, <2>5
<1>11. CASE SystemdSets
  <2>1. DnsTypeOK'
    <3>1. dns' \in [Places -> Values]
      BY <1>11 DEF LinuxSteps, Programs, SystemdSets, Asked, Kept, NotKept
    <3>2. inner' \in {inner, "systemd"} /\ desired' \in {want, None} /\ op' = "idle" /\ failed' \in BOOLEAN
      BY <1>11 DEF SystemdSets, Asked, Kept, NotKept
    <3>3. UNCHANGED <<host, changed, backup, holding, saved, want, wish>>
      BY <1>11 DEF SystemdSets, Asked
    <3>4. QED
      BY <3>1, <3>2, <3>3
  <2>2. LinuxSteps'
    BY <1>11 DEF LinuxSteps, Programs, SystemdSets, Asked, Kept, NotKept
  <2>3. LinuxFile'
    BY <1>11 DEF LinuxSteps, LinuxFile, Programs, SystemdSets, Asked, Kept, NotKept
  <2>4. ~failed' => LinuxPrograms'
    BY <1>11 DEF LinuxSteps, LinuxFile, LinuxPrograms, LinuxWish, PlaceOf, Programs, SystemdSets,
       Asked, Kept, NotKept
  <2>5. ~failed' => LinuxWish'
    BY <1>11 DEF LinuxSteps, LinuxFile, LinuxPrograms, LinuxWish, Programs, SystemdSets, Asked,
       Kept, NotKept
  <2>6. QED
    BY <2>1, <2>2, <2>3, <2>4, <2>5
<1>12. CASE NetworkManagerSets
  <2>1. DnsTypeOK'
    <3>1. dns' \in [Places -> Values]
      BY <1>12 DEF LinuxSteps, Programs, NetworkManagerSets, Asked, Kept, NotKept
    <3>2. inner' \in {inner, "network-manager"} /\ desired' \in {want, None} /\ op' = "idle" /\ failed' \in BOOLEAN
      BY <1>12 DEF NetworkManagerSets, Asked, Kept, NotKept
    <3>3. UNCHANGED <<host, changed, backup, holding, saved, want, wish>>
      BY <1>12 DEF NetworkManagerSets, Asked
    <3>4. QED
      BY <3>1, <3>2, <3>3
  <2>2. LinuxSteps'
    BY <1>12 DEF LinuxSteps, Programs, NetworkManagerSets, Asked, Kept, NotKept
  <2>3. LinuxFile'
    BY <1>12 DEF LinuxSteps, LinuxFile, Programs, NetworkManagerSets, Asked, Kept, NotKept
  <2>4. ~failed' => LinuxPrograms'
    BY <1>12 DEF LinuxSteps, LinuxFile, LinuxPrograms, LinuxWish, PlaceOf, Programs,
       NetworkManagerSets, Asked, Kept, NotKept
  <2>5. ~failed' => LinuxWish'
    BY <1>12 DEF LinuxSteps, LinuxFile, LinuxPrograms, LinuxWish, Programs, NetworkManagerSets,
       Asked, Kept, NotKept
  <2>6. QED
    BY <2>1, <2>2, <2>3, <2>4, <2>5
<1>13. CASE ResolvconfSets
  <2>1. DnsTypeOK'
    <3>1. dns' \in [Places -> Values]
      BY <1>13 DEF LinuxSteps, Programs, ResolvconfSets, Asked, Kept, NotKept
    <3>2. inner' \in {inner, "resolvconf"} /\ desired' \in {want, None} /\ op' = "idle" /\ failed' \in BOOLEAN
      BY <1>13 DEF ResolvconfSets, Asked, Kept, NotKept
    <3>3. UNCHANGED <<host, changed, backup, holding, saved, want, wish>>
      BY <1>13 DEF ResolvconfSets, Asked
    <3>4. QED
      BY <3>1, <3>2, <3>3
  <2>2. LinuxSteps'
    BY <1>13 DEF LinuxSteps, Programs, ResolvconfSets, Asked, Kept, NotKept
  <2>3. LinuxFile'
    BY <1>13 DEF LinuxSteps, LinuxFile, Programs, ResolvconfSets, Asked, Kept, NotKept
  <2>4. ~failed' => LinuxPrograms'
    BY <1>13 DEF LinuxSteps, LinuxFile, LinuxPrograms, LinuxWish, PlaceOf, Programs,
       ResolvconfSets, Asked, Kept, NotKept
  <2>5. ~failed' => LinuxWish'
    BY <1>13 DEF LinuxSteps, LinuxFile, LinuxPrograms, LinuxWish, Programs, ResolvconfSets, Asked,
       Kept, NotKept
  <2>6. QED
    BY <2>1, <2>2, <2>3, <2>4, <2>5
<1>14. CASE StaticSaves
  <2>1. DnsTypeOK'
    BY <1>14 DEF LinuxSteps, LinuxFile, Programs, StaticSaves
  <2>2. LinuxSteps'
    BY <1>14 DEF LinuxSteps, Programs, StaticSaves
  <2>3. LinuxFile'
    BY <1>14 DEF LinuxSteps, LinuxFile, Programs, StaticSaves
  <2>4. ~failed' => LinuxPrograms'
    BY <1>14 DEF LinuxSteps, LinuxFile, LinuxPrograms, LinuxWish, PlaceOf, Programs, StaticSaves
  <2>5. ~failed' => LinuxWish'
    BY <1>14 DEF LinuxSteps, LinuxFile, LinuxPrograms, LinuxWish, Programs, StaticSaves
  <2>6. QED
    BY <2>1, <2>2, <2>3, <2>4, <2>5
<1>15. CASE StaticWrites
  <2>1. DnsTypeOK'
    <3>1. dns' \in [Places -> Values]
      BY <1>15 DEF LinuxSteps, StaticWrites
    <3>5. changed' \subseteq HostOwn
      BY <1>15 DEF StaticWrites
    <3>2. /\ inner' \in {inner, "static"} /\ holding' \in {holding, want} /\ op' = "idle"
          /\ desired' \in {want, None} /\ failed' \in BOOLEAN
      BY <1>15 DEF StaticWrites
    <3>3. UNCHANGED <<host, backup, saved, want, wish>>
      BY <1>15 DEF StaticWrites
    <3>4. QED
      BY <3>1, <3>2, <3>3, <3>5
  <2>2. LinuxSteps'
    BY <1>15 DEF LinuxSteps, Programs, StaticWrites
  <2>3. LinuxFile'
    BY <1>15 DEF LinuxSteps, LinuxFile, Programs, StaticWrites
  <2>4. ~failed' => LinuxPrograms'
    BY <1>15 DEF LinuxSteps, LinuxFile, LinuxPrograms, LinuxWish, PlaceOf, Programs, StaticWrites
  <2>5. ~failed' => LinuxWish'
    BY <1>15 DEF LinuxSteps, LinuxFile, LinuxPrograms, LinuxWish, Programs, StaticWrites
  <2>6. QED
    BY <2>1, <2>2, <2>3, <2>4, <2>5
<1>16. CASE WatcherUpdates
  <2>1. DnsTypeOK'
    <3>1. dns' \in [Places -> Values] /\ saved' \in [Places -> Values]
      BY <1>16 DEF LinuxSteps, WatcherUpdates
    <3>2. changed' \subseteq changed /\ failed' \in BOOLEAN /\ backup' \in {backup, saved["file"]}
      BY <1>16 DEF WatcherUpdates
    <3>3. UNCHANGED <<host, inner, holding, op, want, desired, wish>>
      BY <1>16 DEF WatcherUpdates
    <3>4. backup' \in Values \ Ours
      BY <1>16 DEF LinuxSteps, LinuxFile, WatcherUpdates
    <3>5. QED
      BY <3>1, <3>2, <3>3, <3>4
  <2>2. LinuxSteps'
    BY <1>16 DEF LinuxSteps, Programs, WatcherUpdates
  <2>3. LinuxFile'
    <3>1. CASE holding = None
      BY <1>16, <3>1 DEF LinuxSteps, LinuxFile, WatcherUpdates
    <3>2. CASE holding # None /\ dns["file"] # holding
      <4>1. dns["file"] \in Theirs /\ saved'["file"] = dns["file"]
        BY <1>16, <3>2 DEF LinuxSteps, LinuxFile, WatcherUpdates
      <4>2. dns'["file"] \in {holding, dns["file"]} /\ UNCHANGED <<backup, inner, holding, op, want>>
        BY <1>16, <3>2 DEF WatcherUpdates
      <4>3. QED
        BY <3>2, <4>1, <4>2 DEF LinuxFile
    <3>3. CASE holding # None /\ dns["file"] = holding
      BY <1>16, <3>3 DEF LinuxSteps, LinuxFile, WatcherUpdates
    <3>4. QED
      BY <3>1, <3>2, <3>3
  <2>4. ~failed' => LinuxPrograms'
    BY <1>16 DEF LinuxSteps, LinuxFile, LinuxPrograms, LinuxWish, PlaceOf, Programs, WatcherUpdates
  <2>5. ~failed' => LinuxWish'
    BY <1>16 DEF LinuxSteps, LinuxFile, LinuxPrograms, LinuxWish, Programs, WatcherUpdates
  <2>6. QED
    BY <2>1, <2>2, <2>3, <2>4, <2>5
<1>17. CASE Crash
  <2>1. DnsTypeOK'
    BY <1>17 DEF LinuxSteps, LinuxFile, Programs, Crash
  <2>2. LinuxSteps'
    BY <1>17 DEF LinuxSteps, Programs, Crash
  <2>3. LinuxFile'
    BY <1>17 DEF LinuxSteps, LinuxFile, Programs, Crash
  <2>4. ~failed' => LinuxPrograms'
    BY <1>17 DEF LinuxSteps, LinuxFile, LinuxPrograms, LinuxWish, PlaceOf, Programs, Crash
  <2>5. ~failed' => LinuxWish'
    BY <1>17 DEF LinuxSteps, LinuxFile, LinuxPrograms, LinuxWish, Programs, Crash
  <2>6. QED
    BY <2>1, <2>2, <2>3, <2>4, <2>5
<1>18. CASE New
  <2>1. DnsTypeOK'
    BY <1>18 DEF LinuxSteps, LinuxFile, Programs, New
  <2>2. LinuxSteps'
    BY <1>18 DEF LinuxSteps, Programs, New
  <2>3. LinuxFile'
    BY <1>18 DEF LinuxSteps, LinuxFile, Programs, New
  <2>4. ~failed' => LinuxPrograms'
    BY <1>18 DEF LinuxSteps, LinuxFile, LinuxPrograms, LinuxWish, PlaceOf, Programs, New
  <2>5. ~failed' => LinuxWish'
    BY <1>18 DEF LinuxSteps, LinuxFile, LinuxPrograms, LinuxWish, Programs, New
  <2>6. QED
    BY <2>1, <2>2, <2>3, <2>4, <2>5
<1>19. QED
  BY <1>1, <1>2, <1>3, <1>4, <1>5, <1>6, <1>7, <1>8, <1>9, <1>10, <1>11, <1>12, <1>13, <1>14,
     <1>15, <1>16, <1>17, <1>18
  DEF Next, CallStep, WatcherStep, LinuxSteps, Programs, MacSet, MacReset,
      WinBackup, WinSet, WinReset, WinRemove, MacCallback, WinDnsEnforces

\* What a step on macOS keeps.
LEMMA MacKept ==
    ASSUME DnsInv, Next, platform = "macos"
    PROVE  DnsTypeOK' /\ MacInv'
<1>a. platform' = platform /\ Places' = Places /\ HostOwn' = HostOwn
  BY PlatformStays
<1>b. Places = {"state", "setup"} /\ HostOwn = Places
  BY MacPlaces
<1>c. DnsTypeOK /\ MacInv
  BY DEF DnsInv
<1> USE <1>a, <1>b, <1>c, ValuesAssumption
    DEF monitorVars, historyVars, CallUnchanged, Succeeds, Fails, GoesOn, ResetDone, MayFail,
        DnsTypeOK, Values, MacInv
<1>1. CASE HostWrites
  <2>1. DnsTypeOK'
    BY <1>1 DEF MacSteps, HostWrites
  <2>2. MacSteps'
    BY <1>1 DEF MacSteps, HostWrites
  <2>3. ~failed' => MacWish'
    <3> SUFFICES ASSUME ~failed' PROVE MacWish'
      OBVIOUS
    <3>1. PICK p \in Places, v \in Values \ Ours :
             /\ dns' = [dns EXCEPT ![p] = v] /\ wish' = [wish EXCEPT ![p] = v] /\ changed' = changed \cup {p}
      BY <1>1 DEF HostWrites
    <3>2. MacWish /\ UNCHANGED <<op, holding, saved, desired, failed>>
      BY <1>1 DEF HostWrites
    <3>3. holding = None => dns' = wish'
      BY <3>1, <3>2 DEF MacWish
    <3>4. ASSUME holding # None, NEW q \in Places
          PROVE  IF q \in DOMAIN saved
                 THEN \/ dns'[q] = holding /\ saved[q] = wish'[q]
                      \/ dns'[q] = wish'[q] /\ q \in changed'
                 ELSE dns'[q] = wish'[q] /\ (q \in changed' \/ dns'[q] = None)
      <4>1. CASE q = p
        BY <3>1, <4>1
      <4>2. CASE q # p
        BY <3>1, <3>2, <3>4, <4>2 DEF MacWish
      <4>3. QED
        BY <4>1, <4>2
    <3>5. QED
      BY <3>2, <3>3, <3>4 DEF MacWish
  <2>4. QED
    BY <2>1, <2>2, <2>3
<1>2. CASE CallSet
  <2>1. DnsTypeOK'
    BY <1>2 DEF MacSteps, CallSet
  <2>2. MacSteps'
    BY <1>2 DEF MacSteps, CallSet
  <2>3. ~failed' => MacWish'
    BY <1>2 DEF MacSteps, MacWish, CallSet
  <2>4. QED
    BY <2>1, <2>2, <2>3
<1>3. CASE CallReset
  <2>1. DnsTypeOK'
    BY <1>3 DEF MacSteps, CallReset
  <2>2. MacSteps'
    BY <1>3 DEF MacSteps, CallReset
  <2>3. ~failed' => MacWish'
    BY <1>3 DEF MacSteps, MacWish, CallReset
  <2>4. QED
    BY <2>1, <2>2, <2>3
<1>4. CASE MacSet
  <2> DEFINE kept == IF holding = None THEN read_all_dns ELSE saved
              keys == DOMAIN kept
  <2>1. /\ keys \subseteq Places /\ \A p \in keys : kept[p] \in Values
        /\ holding = None => (\A p \in keys : kept[p] = dns[p]) /\ \A p \in Places \ keys : dns[p] = None
        /\ holding # None => kept = saved
    BY ReadsAll
  <2>2. want \in Ours /\ UNCHANGED <<host, inner, backup, want, wish>>
    BY <1>4 DEF MacSteps, MacSet
  <2>3. \/ want = holding /\ Succeeds /\ UNCHANGED <<dns, changed, holding, saved>>
        \/ /\ want # holding /\ holding' = want /\ saved' = kept
           /\ dns' = Overwritten(keys, want) /\ changed' = changed \cup keys
           /\ op' = "idle" /\ desired' = want
           /\ failed' = (failed \/ (holding # None /\ LosesChange(keys)))
        \/ /\ Fails /\ holding' = None /\ UNCHANGED saved
           /\ \E some \in SUBSET keys \ {keys} :
                 dns' = Overwritten(some, want) /\ changed' = changed \cup some
    BY <1>4 DEF MacSet
  <2> HIDE DEF kept
  <2>4. CASE want = holding /\ Succeeds /\ UNCHANGED <<dns, changed, holding, saved>>
    BY <2>2, <2>4 DEF MacSteps, MacWish
  <2>5. CASE /\ want # holding /\ holding' = want /\ saved' = kept
             /\ dns' = Overwritten(keys, want) /\ changed' = changed \cup keys
             /\ op' = "idle" /\ desired' = want
             /\ failed' = (failed \/ (holding # None /\ LosesChange(keys)))
    <3>1. dns' \in [Places -> Values] /\ \A p \in Places : dns'[p] = IF p \in keys THEN want ELSE dns[p]
      BY <2>2, <2>5 DEF Overwritten
    <3>2. failed' \in BOOLEAN
      BY <2>5, Zenon
    <3>3. DnsTypeOK' /\ MacSteps'
      BY <2>1, <2>2, <2>5, <3>1, <3>2 DEF MacSteps
    <3>4. ASSUME ~failed' PROVE MacWish'
      <4>1. ~failed /\ MacWish /\ (holding # None => \A p \in keys : dns[p] = holding)
        BY <2>5, <3>4 DEF LosesChange
      <4>2. ASSUME NEW p \in keys PROVE kept[p] = wish[p] /\ p \in Places
        BY <2>1, <4>1 DEF MacWish
      <4>3. ASSUME NEW p \in Places \ keys PROVE dns[p] = wish[p] /\ (p \in changed \/ dns[p] = None)
        BY <2>1, <4>1 DEF MacWish
      <4>4. QED
        BY <2>2, <2>5, <3>1, <4>2, <4>3 DEF MacWish
    <3>5. QED
      BY <3>3, <3>4
  <2>6. CASE /\ Fails /\ holding' = None /\ UNCHANGED saved
             /\ \E some \in SUBSET keys \ {keys} :
                   dns' = Overwritten(some, want) /\ changed' = changed \cup some
    <3>1. PICK some \in SUBSET keys : dns' = Overwritten(some, want) /\ changed' = changed \cup some
      BY <2>6
    <3>2. dns' \in [Places -> Values] /\ changed' \subseteq HostOwn
      BY <2>1, <2>2, <3>1 DEF Overwritten
    <3>3. QED
      BY <2>2, <2>6, <3>2 DEF MacSteps
  <2>7. QED
    BY <2>3, <2>4, <2>5, <2>6
<1>5. CASE MacReset
  <2> DEFINE Back(ps) == [p \in Places |-> IF p \in ps THEN saved[p] ELSE dns[p]]
              keys == DOMAIN saved
  <2>1. holding' = None /\ want = None /\ UNCHANGED <<host, inner, saved, backup, want, wish>>
    BY <1>5 DEF MacSteps, MacReset
  <2>2. ASSUME NEW ps \in SUBSET keys PROVE Back(ps) \in [Places -> Values]
    OBVIOUS
  <2>3. \/ holding = None /\ Succeeds /\ UNCHANGED <<dns, changed>>
        \/ /\ holding # None /\ dns' = Back(keys) /\ changed' = changed \cup keys
           /\ op' = "idle" /\ desired' = None /\ failed' = (failed \/ LosesChange(keys))
        \/ /\ Fails
           /\ \E some \in SUBSET keys \ {keys} : dns' = Back(some) /\ changed' = changed \cup some
    BY <1>5 DEF MacReset
  <2>4. CASE holding = None /\ Succeeds /\ UNCHANGED <<dns, changed>>
    BY <2>1, <2>4 DEF MacSteps, MacWish
  <2>5. CASE /\ holding # None /\ dns' = Back(keys) /\ changed' = changed \cup keys
             /\ op' = "idle" /\ desired' = None /\ failed' = (failed \/ LosesChange(keys))
    <3>1. dns' \in [Places -> Values]
      BY <2>2, <2>5
    <3>2. failed' \in BOOLEAN
      BY <2>5, Zenon
    <3>3. DnsTypeOK' /\ MacSteps'
      BY <2>1, <2>5, <3>1, <3>2 DEF MacSteps
    <3>4. ASSUME ~failed' PROVE MacWish'
      <4>1. MacWish /\ \A p \in keys : dns[p] = holding
        BY <2>5, <3>4 DEF LosesChange
      <4>2. ASSUME NEW p \in Places PROVE dns'[p] = wish[p]
        BY <2>5, <4>1 DEF MacWish
      <4>3. dns' = wish'
        BY <2>1, <3>1, <4>2
      <4>4. QED
        BY <2>1, <2>5, <4>3 DEF MacWish
    <3>5. QED
      BY <3>3, <3>4
  <2>6. CASE /\ Fails
             /\ \E some \in SUBSET keys \ {keys} : dns' = Back(some) /\ changed' = changed \cup some
    <3>1. PICK some \in SUBSET keys : dns' = Back(some) /\ changed' = changed \cup some
      BY <2>6
    <3>2. dns' \in [Places -> Values] /\ changed' \subseteq HostOwn
      BY <2>2, <3>1
    <3>3. QED
      BY <2>1, <2>6, <3>2 DEF MacSteps
  <2>7. QED
    BY <2>3, <2>4, <2>5, <2>6
<1>6. CASE \E p \in Places : MacCallback(p)
  <2>1. PICK p \in Places : MacCallback(p)
    BY <1>6
  <2> DEFINE also == IF p = "state" THEN {"setup"} ELSE {}
             all  == {p} \cup also
  <2>2. op # "down" /\ p \in changed /\ UNCHANGED <<host, inner, holding, backup, op, want, desired, wish>>
    BY <2>1 DEF MacCallback
  <2>3. CASE holding = None \/ dns[p] = holding
    <3>1. changed' = changed \ {p} /\ UNCHANGED <<dns, saved, failed>>
      BY <2>1, <2>3 DEF MacCallback
    <3>2. QED
      BY <2>2, <2>3, <3>1 DEF MacSteps, MacWish
  <2>4. CASE ~(holding = None \/ dns[p] = holding)
    <3>1. saved' = [q \in DOMAIN saved \cup all |-> IF q \in DOMAIN saved \ {p} THEN saved[q] ELSE dns[q]]
      BY <2>1, <2>4 DEF MacCallback
    <3>2. PICK done \in SUBSET all :
             /\ dns' = Overwritten(done, holding)
             /\ changed' = (changed \ {p}) \cup (done \cap also)
             /\ failed' = (failed \/ done # all \/ LosesChange(also \cap DOMAIN saved))
      BY <2>1, <2>4 DEF MacCallback
    <3>3. dns' \in [Places -> Values] /\ \A q \in Places : dns'[q] = IF q \in done THEN holding ELSE dns[q]
      BY <3>2, <2>4 DEF Overwritten
    <3>4. all \subseteq Places /\ changed' \subseteq HostOwn
      BY <3>2
    <3>5. DOMAIN saved' \subseteq Places /\ \A q \in DOMAIN saved' : saved'[q] \in Values
      BY <3>1, <3>4
    <3>6. failed' \in BOOLEAN
      BY <3>2, Zenon
    <3>7. DnsTypeOK' /\ MacSteps'
      BY <2>2, <3>3, <3>4, <3>5, <3>6 DEF MacSteps
    <3>8. ASSUME ~failed' PROVE MacWish'
      <4>1. /\ MacWish /\ done = all /\ dns[p] = wish[p] /\ holding # None
            /\ \A q \in also \cap DOMAIN saved : dns[q] = holding
        BY <2>4, <3>2, <3>8 DEF LosesChange, MacWish
      <4>2. ASSUME NEW q \in all PROVE q \in DOMAIN saved' /\ dns'[q] = holding /\ saved'[q] = wish[q]
        BY <2>4, <3>1, <3>3, <3>4, <4>1 DEF MacWish
      <4>3. ASSUME NEW q \in Places \ all
            PROVE  /\ q \in DOMAIN saved' <=> q \in DOMAIN saved
                   /\ dns'[q] = dns[q] /\ (q \in changed => q \in changed')
                   /\ q \in DOMAIN saved => saved'[q] = saved[q]
        BY <3>1, <3>2, <3>3, <4>1
      <4>4. QED
        BY <2>2, <4>1, <4>2, <4>3 DEF MacWish
    <3>9. QED
      BY <3>7, <3>8
  <2>5. QED
    BY <2>3, <2>4
<1>7. CASE Crash
  <2>1. DnsTypeOK'
    BY <1>7 DEF MacSteps, Crash
  <2>2. MacSteps'
    BY <1>7 DEF MacSteps, Crash
  <2>3. ~failed' => MacWish'
    BY <1>7 DEF MacSteps, MacWish, Crash
  <2>4. QED
    BY <2>1, <2>2, <2>3
<1>8. CASE New
  <2>1. DnsTypeOK'
    BY <1>8 DEF MacSteps, New
  <2>2. MacSteps'
    BY <1>8 DEF MacSteps, New
  <2>3. ~failed' => MacWish'
    BY <1>8 DEF MacSteps, MacWish, New
  <2>4. QED
    BY <2>1, <2>2, <2>3
<1>9. QED
  BY <1>1, <1>2, <1>3, <1>4, <1>5, <1>6, <1>7, <1>8
  DEF Next, CallStep, WatcherStep, MacSteps,
      HostSwitches, LinkGone, LinuxReset, LinuxRemoveBackup, LinuxNew, StaticRestores,
      StaticRestoreRemoves, SystemdSets, NetworkManagerSets, ResolvconfSets, StaticSaves,
         StaticWrites,
      Asked, WatcherUpdates, WinBackup, WinSet, WinReset, WinRemove, WinDnsEnforces

\* What a step on Windows keeps.
LEMMA WinKept ==
    ASSUME DnsInv, Next, platform = "windows"
    PROVE  DnsTypeOK' /\ WinInv'
<1>a. platform' = platform /\ Places' = Places /\ HostOwn' = HostOwn
  BY PlatformStays
<1>b. Places = {"adapters"} /\ HostOwn = Places
  BY WinPlaces
<1>c. DnsTypeOK /\ WinInv
  BY DEF DnsInv
<1> USE <1>a, <1>b, <1>c, ValuesAssumption
    DEF monitorVars, historyVars, CallUnchanged, Succeeds, Fails, GoesOn, ResetDone, MayFail,
        DnsTypeOK, Values, WinInv
<1>1. CASE HostWrites
  <2>1. DnsTypeOK'
    BY <1>1 DEF WinSteps, HostWrites
  <2>2. WinSteps'
    BY <1>1 DEF WinSteps, HostWrites
  <2>3. ~failed' => WinWish'
    BY <1>1 DEF WinSteps, WinWish, HostWrites
  <2>4. QED
    BY <2>1, <2>2, <2>3
<1>2. CASE CallSet
  <2>1. DnsTypeOK'
    BY <1>2 DEF WinSteps, CallSet
  <2>2. WinSteps'
    BY <1>2 DEF WinSteps, CallSet
  <2>3. ~failed' => WinWish'
    BY <1>2 DEF WinSteps, WinWish, CallSet
  <2>4. QED
    BY <2>1, <2>2, <2>3
<1>3. CASE CallReset
  <2>1. DnsTypeOK'
    BY <1>3 DEF WinSteps, CallReset
  <2>2. WinSteps'
    BY <1>3 DEF WinSteps, CallReset
  <2>3. ~failed' => WinWish'
    BY <1>3 DEF WinSteps, WinWish, CallReset
  <2>4. QED
    BY <2>1, <2>2, <2>3
<1>4. CASE WinBackup
  <2>1. DnsTypeOK'
    BY ZenonT(60), <1>4 DEF WinSteps, WinBackup
  <2>2. WinSteps'
    BY <1>4 DEF WinSteps, WinBackup
  <2>3. ~failed' => WinWish'
    BY <1>4 DEF WinSteps, WinWish, WinBackup
  <2>4. QED
    BY <2>1, <2>2, <2>3
<1>5. CASE WinSet
  <2>1. DnsTypeOK'
    <3>1. dns' \in [Places -> Values]
      BY <1>5 DEF WinSteps, WinSet
    <3>5. failed' \in BOOLEAN
      BY <1>5, Zenon DEF WinSet
    <3>2. holding' \in {holding, want} /\ op' = "idle" /\ desired' \in {want, None}
      BY <1>5 DEF WinSet
    <3>3. UNCHANGED <<host, changed, inner, saved, backup, want, wish>>
      BY <1>5 DEF WinSet
    <3>4. QED
      BY <3>1, <3>2, <3>3, <3>5
  <2>2. WinSteps'
    BY <1>5 DEF WinSteps, WinSet
  <2>3. ~failed' => WinWish'
    BY <1>5 DEF WinSteps, WinWish, WinSet
  <2>4. QED
    BY <2>1, <2>2, <2>3
<1>6. CASE WinReset
  <2>1. DnsTypeOK'
    BY <1>6 DEF WinSteps, WinReset
  <2>2. WinSteps'
    BY <1>6 DEF WinSteps, WinReset
  <2>3. ~failed' => WinWish'
    BY <1>6 DEF WinSteps, WinWish, WinReset
  <2>4. QED
    BY <2>1, <2>2, <2>3
<1>7. CASE WinRemove
  <2>1. DnsTypeOK'
    BY <1>7 DEF WinSteps, WinRemove
  <2>2. WinSteps'
    BY <1>7 DEF WinSteps, WinRemove
  <2>3. ~failed' => WinWish'
    BY <1>7 DEF WinSteps, WinWish, WinRemove
  <2>4. QED
    BY <2>1, <2>2, <2>3
<1>8. CASE WinDnsEnforces
  <2>1. DnsTypeOK'
    BY <1>8 DEF WinSteps, WinDnsEnforces
  <2>2. WinSteps'
    BY <1>8 DEF WinSteps, WinDnsEnforces
  <2>3. ~failed' => WinWish'
    BY <1>8 DEF WinSteps, WinWish, WinDnsEnforces
  <2>4. QED
    BY <2>1, <2>2, <2>3
<1>9. CASE Crash
  <2>1. DnsTypeOK'
    BY <1>9 DEF WinSteps, Crash
  <2>2. WinSteps'
    BY <1>9 DEF WinSteps, Crash
  <2>3. ~failed' => WinWish'
    BY <1>9 DEF WinSteps, WinWish, Crash
  <2>4. QED
    BY <2>1, <2>2, <2>3
<1>10. CASE New
  <2>1. DnsTypeOK'
    <3>1. dns' \in [Places -> Values]
      BY <1>10 DEF WinSteps, New
    <3>5. failed' \in BOOLEAN
      BY <1>10, Zenon DEF New
    <3>2. op' \in {"winRemove", "idle"} /\ changed' = {}
      BY <1>10 DEF New
    <3>3. UNCHANGED <<host, backup, inner, holding, saved, want, desired, wish>>
      BY <1>10 DEF New
    <3>4. QED
      BY <3>1, <3>2, <3>3, <3>5
  <2>2. WinSteps'
    BY <1>10 DEF WinSteps, New
  <2>3. ~failed' => WinWish'
    BY ZenonT(60), <1>10 DEF WinSteps, WinWish, New
  <2>4. QED
    BY <2>1, <2>2, <2>3
<1>11. QED
  BY <1>1, <1>2, <1>3, <1>4, <1>5, <1>6, <1>7, <1>8, <1>9, <1>10
  DEF Next, CallStep, WatcherStep, WinSteps,
      HostSwitches, LinkGone, LinuxReset, LinuxRemoveBackup, LinuxNew, StaticRestores,
      StaticRestoreRemoves, SystemdSets, NetworkManagerSets, ResolvconfSets, StaticSaves,
         StaticWrites,
      Asked, WatcherUpdates, MacSet, MacReset, MacCallback

-----------------------------------------------------------------------------
\* The invariant holds when the daemon starts.
LEMMA InvInit == Init => DnsInv
<1> SUFFICES ASSUME Init PROVE DnsInv
  OBVIOUS
<1>1. host \in Hosts /\ platform \in {"linux", "macos", "windows"}
  BY PlatformsAssumption DEF Init
<1>2. PICK v \in Theirs :
         dns = [p \in Places |-> IF p \in {"file", "state", "adapters"} THEN v ELSE None]
  BY DEF Init, Places
<1>3. /\ dns \in [Places -> Values] /\ wish \in [Places -> Values \ Ours]
      /\ saved \in [Places -> Values]
  BY <1>2, ValuesAssumption DEF Init, Places, Values
<1>4. DnsTypeOK
  BY <1>1, <1>3, ValuesAssumption DEF Init, DnsTypeOK, Values
<1>5. CASE platform = "linux"
  BY <1>2, <1>3, <1>4, <1>5, LinuxPlaces, ValuesAssumption
  DEF Init, DnsInv, LinuxInv, LinuxSteps, LinuxFile, LinuxPrograms, LinuxWish, Programs
<1>6. CASE platform = "macos"
  BY <1>4, <1>6 DEF Init, DnsInv, MacInv, MacSteps, MacWish
<1>7. CASE platform = "windows"
  BY <1>2, <1>3, <1>4, <1>7, WinPlaces, ValuesAssumption DEF Init, DnsInv, WinInv, WinSteps, WinWish
<1>8. QED
  BY <1>1, <1>5, <1>6, <1>7

\* The invariant holds of every run.
LEMMA InvHolds == Spec => []DnsInv
<1>1. DnsInv /\ Next => DnsInv'
  <2> SUFFICES ASSUME DnsInv, Next PROVE DnsInv'
    OBVIOUS
  <2>1. platform' = platform /\ platform \in {"linux", "macos", "windows"}
    BY PlatformStays, PlatformsAssumption DEF DnsInv, DnsTypeOK
  <2>2. QED
    BY <2>1, LinuxKept, MacKept, WinKept DEF DnsInv
<1>2. DnsInv /\ UNCHANGED vars => DnsInv'
  BY DEF vars, DnsInv, DnsTypeOK, Places, HostOwn, LinuxInv, LinuxSteps, LinuxFile, LinuxPrograms,
     LinuxWish, MacInv, MacSteps, MacWish, WinInv, WinSteps, WinWish
<1>3. QED
  BY InvInit, <1>1, <1>2, PTL DEF Spec

\* After a set that succeeded, and once every change of the host's was handled, our servers
\* are in force, and on Linux they are in one place only, whichever program it is and
\* whichever program had them before.
THEOREM OurServersAreInForceHolds == Spec => []OurServersAreInForce
<1>1. DnsInv => DesiredIsInForce
  <2> SUFFICES ASSUME DnsInv, desired # None, op = "idle", changed = {}, ~failed
               PROVE  InForce
    BY DEF DesiredIsInForce
  <2>1. CASE platform = "linux"
    <3>1. inner # "None" /\ dns[PlaceOf(inner)] = desired
      BY <2>1 DEF DnsInv, DnsTypeOK, LinuxInv, LinuxFile, LinuxPrograms, LinuxWish, PlaceOf,
         Programs
    <3>2. QED
      BY <2>1, <3>1 DEF InForce
  <2>2. CASE platform = "macos"
    BY <2>2 DEF DnsInv, MacInv, MacWish, InForce
  <2>3. CASE platform = "windows"
    BY <2>3 DEF DnsInv, WinInv, WinWish, InForce
  <2>4. QED
    BY <2>1, <2>2, <2>3, PlatformsAssumption DEF DnsInv, DnsTypeOK
<1>2. DnsInv => OnePlaceOnLinux
  <2> SUFFICES ASSUME DnsInv, platform = "linux", ~failed,
                      NEW p \in Places, NEW q \in Places, dns[p] \in Ours, dns[q] \in Ours
               PROVE  p = q
    BY DEF OnePlaceOnLinux
  <2>1. Places = {"file", "link", "global", "record"}
    BY LinuxPlaces
  <2>2. QED
    BY <2>1, ValuesAssumption
    DEF DnsInv, DnsTypeOK, LinuxInv, LinuxFile, LinuxPrograms, LinuxWish, PlaceOf, Programs
<1>3. QED
  BY <1>1, <1>2, InvHolds, PTL DEF OurServersAreInForce

\* The host's settings are back after every reset, and while ours are in force the backup
\* file holds the host's, at whatever step the daemon is killed.
THEOREM HostKeepsItsDnsHolds == Spec => []HostKeepsItsDns
<1>1. DnsInv => HostGetsItsDnsBack
  <2> SUFFICES ASSUME DnsInv, desired = None, op = "idle", changed = {}, ~failed
               PROVE  dns = wish
    BY DEF HostGetsItsDnsBack
  <2>1. dns \in [Places -> Values] /\ wish \in [Places -> Values]
    BY DEF DnsInv, DnsTypeOK
  <2>2. CASE platform = "linux"
    <3>1. ASSUME NEW p \in Places PROVE dns[p] = wish[p]
      BY <2>2, LinuxPlaces DEF DnsInv, LinuxInv, LinuxFile, LinuxPrograms, LinuxWish, Programs
    <3>2. QED
      BY <2>1, <3>1
  <2>3. CASE platform = "macos"
    BY <2>3 DEF DnsInv, MacInv, MacWish
  <2>4. CASE platform = "windows"
    <3>1. dns["adapters"] = wish["adapters"]
      BY <2>4, ValuesAssumption DEF DnsInv, DnsTypeOK, WinInv, WinWish
    <3>2. QED
      BY <2>1, <2>4, <3>1, WinPlaces
  <2>5. QED
    BY <2>2, <2>3, <2>4, PlatformsAssumption DEF DnsInv, DnsTypeOK
<1>2. DnsInv => BackupIsThere
  BY DEF DnsInv, LinuxInv, LinuxFile, WinInv, WinSteps, WinWish, BackupIsThere
<1>3. DnsInv => DnsTypeOK
  BY DEF DnsInv
<1>4. QED
  BY <1>1, <1>2, <1>3, InvHolds, PTL DEF HostKeepsItsDns
=============================================================================
