------------------------ MODULE DaemonProcessProofs ------------------------
(***************************************************************************)
(* Proofs about the life of the daemon's process, over any number of        *)
(* starts, changes of the network and of the settings, and of clients.      *)
(***************************************************************************)
EXTENDS DaemonProcess, Integers, TLAPS

-----------------------------------------------------------------------------
(* The invariant                                                           *)

\* What the machine will go by once it has handled all its commands.
Told == IF commands = <<>> THEN is_offline ELSE commands[Len(commands)]

\* The connectivity the Windows monitor will go by after its callbacks.
Reported == IF callbacks = <<>> THEN monitor.network_connectivity ELSE callbacks[Len(callbacks)]

\* There is news for the machine only once there is a monitor, and what is left out of one
\* platform stays as it began.
StartOfNews ==
    /\ begun \in {"no", "monitor"} => commands = <<>> /\ look["monitor"] = "idle" /\ ~ended
    /\ look["main"] = "links" => begun \in {"monitor", "machine"}
    /\ platform # "linux" => look = Idle /\ ~ended
    /\ platform = "macos" => begun # "monitor"
    /\ platform # "windows" => callbacks = <<>> /\ resumes = 0 /\ ~asleep
    /\ notices <= changes /\ resumes <= changes /\ (asleep => resumes < changes)
    /\ begun = "no" => notices = 0 /\ callbacks = <<>> /\ resumes = 0 /\ ~asleep

\* Linux: without notices the monitor's view is what the links and addresses are, also
\* between the two reads of a look; and its view is what it told the machine last.  A monitor
\* that has ended has told the machine that the device is online.
LinuxKnows ==
    /\ notices = 0 /\ ~ended =>
        /\ look["monitor"] = "links" => net.link
        /\ look["main"] = "links" /\ begun = "monitor" => net.link
        /\ begun \in {"machine", "yes"} /\ look["monitor"] = "idle" /\ ~blind
              => monitor.offline = ~Online
    /\ ~ended /\ (commands # <<>> \/ (begun = "yes" /\ ~differed)) => Told = monitor.offline
    /\ ended => ~Told /\ look["monitor"] = "idle" /\ (begun = "machine" => commands # <<>>)

\* macOS: every call tells the machine what is so.
MacosKnows ==
    /\ notices = 0 /\ (commands # <<>> \/ begun = "yes") => Told = ~Online
    /\ ~blind

\* Windows: the machine was told what follows from the monitor's state, the callbacks end
\* with what is so, and who sleeps is known to be suspended.
WindowsKnows ==
    /\ begun \in {"no", "monitor"} => ~monitor.network_connectivity /\ callbacks = <<>>
    /\ begun \in {"machine", "yes"} => Reported = Online
    /\ commands # <<>> \/ (begun = "yes" /\ ~differed) => Told = is_offline_currently(monitor)
    /\ ~asleep /\ resumes = 0 => ~monitor.suspended
    /\ asleep /\ ~late => monitor.suspended

OfflineInv ==
    /\ OfflineTypeOK /\ StartOfNews
    /\ platform = "linux" => LinuxKnows
    /\ platform = "macos" => MacosKnows
    /\ platform = "windows" => WindowsKnows

\* What is loaded at the next start if nothing fails.
Kept == parse_settings(IF file.format = "absent" /\ backup.format # "absent" THEN backup ELSE file)

SettingsInv ==
    /\ SettingsTypeOK
    /\ platform # "windows" => backup.format = "absent"
    /\ saving # "no" => /\ settings = asked
                        /\ purpose = "migration" => acked = asked
                        /\ purpose = "reset" => settings = Default
    /\ ~cut => /\ saving = "create" => Kept = acked
               /\ saving = "answer" => Kept = asked
               /\ saving = "no" /\ phase \in {"loaded", "running"} => Kept = acked
               /\ saving = "no" => Kept \in {acked, asked}

\* A queue is that of a client with a connection and a subscription.
InterfaceInv ==
    /\ InterfaceTypeOK /\ NoEventIsLost
    /\ \A c \in Clients \ (subscriptions \cap connected) : queue[c] = <<>>

\* Who has looked for another daemon, or listens, has been seen by the other one unless it
\* was too early.
RivalInv == (phase = "checked" \/ server = "open") /\ rival # "off" => overlap

\* The steps of the event monitor come one after the other.
StopInv ==
    /\ stopper = "store" => controls = "taken"
    /\ stopper = "trigger" \/ ending = "trigger" => clean_shutdown
    /\ clean_shutdown => controls = "taken"

PhaseInv ==
    /\ phase \in {"off", "checked"} => server = "none"
    /\ phase \in {"off", "checked", "serving"} => saving = "no" /\ begun = "no"
    /\ phase = "off" => status = "Stopped" /\ stopper = "idle" /\ controls = "none"

LifeInv == OwnTypeOK /\ RivalInv /\ StopInv /\ PhaseInv

ProcessInv == OfflineInv /\ SettingsInv /\ InterfaceInv /\ LifeInv

-----------------------------------------------------------------------------
(* News of the network                                                     *)

\* The bounds are numbers.
LEMMA Bounds == MaxChanges \in Nat /\ MaxEvents \in Nat /\ Capacity \in Nat
BY ProcessAssumption

\* Being online is a matter of yes or no.
LEMMA OnlineIsBoolean == Online \in BOOLEAN /\ (~Online) \in BOOLEAN
BY DEF Online

\* The last of what waits after one more.
LEMMA LastOfAppend ==
    ASSUME NEW s \in Seq(BOOLEAN), NEW b \in BOOLEAN
    PROVE  /\ Append(s, b) \in Seq(BOOLEAN) /\ Append(s, b) # <<>>
           /\ Append(s, b)[Len(Append(s, b))] = b
<1>1. Append(s, b) \in Seq(BOOLEAN) /\ Len(Append(s, b)) = Len(s) + 1 /\ Append(s, b)[Len(s) + 1] = b
      OBVIOUS
<1>2. Len(s) \in Nat
      OBVIOUS
<1> QED BY <1>1, <1>2

\* The first of what waits is the last if nothing is left after it.
LEMMA LastOfTail ==
    ASSUME NEW s \in Seq(BOOLEAN), s # <<>>
    PROVE  /\ Tail(s) \in Seq(BOOLEAN) /\ Head(s) \in BOOLEAN
           /\ Tail(s) = <<>> => Head(s) = s[Len(s)]
           /\ Tail(s) # <<>> => Tail(s)[Len(Tail(s))] = s[Len(s)]
<1>1. Tail(s) \in Seq(BOOLEAN) /\ Len(Tail(s)) = Len(s) - 1 /\ Len(s) \in Nat \ {0}
      OBVIOUS
<1>2. Head(s) = s[1] /\ s[1] \in BOOLEAN
      BY <1>1
<1>3. CASE Tail(s) = <<>>
      BY <1>1, <1>2, <1>3
<1>4. CASE Tail(s) # <<>>
  <2>1. Len(Tail(s)) # 0
        BY <1>1, <1>4
  <2> QED BY <1>1, <1>2, <1>4, <2>1
<1> QED BY <1>1, <1>2, <1>3, <1>4

\* The machine goes by what it was sent last.
LEMMA SendEffect ==
    ASSUME commands \in Seq(BOOLEAN), NEW b \in BOOLEAN, Send(b)
    PROVE  commands' \in Seq(BOOLEAN) /\ commands' # <<>> /\ Told' = b
BY LastOfAppend DEF Send, Told

\* Handling a command changes nothing of where the commands lead.
LEMMA HandleEffect ==
    ASSUME OfflineTypeOK, HandleIsOffline
    PROVE  /\ commands' \in Seq(BOOLEAN) /\ is_offline' \in BOOLEAN /\ Told' = Told
           /\ commands # <<>>
BY LastOfTail DEF HandleIsOffline, Told, OfflineTypeOK

\* What is left as it is.
LEMMA OfflineUnchanged ==
    ASSUME OfflineInv, UNCHANGED offlineVars
    PROVE  OfflineInv'
BY DEF OfflineInv, OfflineTypeOK, StartOfNews, LinuxKnows, MacosKnows, WindowsKnows, Told,
   Reported, Online,
    is_offline_currently, offlineVars, netVars, toldVars, viewVars, machineVars, historyVars, Idle

\* A monitor begins to listen.
LEMMA ListeningBegins ==
    ASSUME OfflineInv, BindSocket \/ RegisterKeys \/ StartListener
    PROVE  OfflineInv'
<1> USE DEF BindSocket, RegisterKeys, StartListener, netVars, toldVars, viewVars, machineVars,
    historyVars
<1>1. OfflineTypeOK' /\ StartOfNews'
      BY DEF OfflineInv, OfflineTypeOK, StartOfNews, Idle, Lookers
<1>2. platform = "linux" => LinuxKnows'
      BY DEF OfflineInv, OfflineTypeOK, StartOfNews, LinuxKnows, Told, Online
<1>3. platform = "macos" => MacosKnows'
      BY DEF OfflineInv, OfflineTypeOK, StartOfNews, MacosKnows, Told, Online
<1>4. platform = "windows" => WindowsKnows'
      BY DEF OfflineInv, OfflineTypeOK, StartOfNews, WindowsKnows, Told, Reported, Online,
         is_offline_currently
<1> QED BY <1>1, <1>2, <1>3, <1>4 DEF OfflineInv

\* The Windows monitor takes its first look.
LEMMA ActivateKnows ==
    ASSUME OfflineInv, ActivateConnectivityMonitor
    PROVE  OfflineInv'
<1> USE DEF ActivateConnectivityMonitor, netVars, toldVars, viewVars, machineVars, historyVars
<1>1. OfflineTypeOK' /\ StartOfNews'
      BY OnlineIsBoolean DEF OfflineInv, OfflineTypeOK, StartOfNews, Idle, Lookers
<1>4. platform = "windows" => WindowsKnows'
      BY DEF OfflineInv, OfflineTypeOK, StartOfNews, WindowsKnows, Told, Reported, Online,
         is_offline_currently
<1> QED BY <1>1, <1>4 DEF OfflineInv

\* The machine looks itself, on macOS and Windows.
LEMMA MachineLooksKnows ==
    ASSUME OfflineInv, MachineLooks
    PROVE  OfflineInv'
<1> USE DEF MachineLooks, netVars, toldVars, viewVars, machineVars, historyVars
<1>1. OfflineTypeOK' /\ StartOfNews'
      BY DEF OfflineInv, OfflineTypeOK, StartOfNews, Idle, Lookers
<1>2. platform = "linux" => LinuxKnows'
      BY DEF OfflineInv, OfflineTypeOK, StartOfNews, LinuxKnows, Told, Online
<1>3. platform = "macos" => MacosKnows'
      BY DEF OfflineInv, OfflineTypeOK, StartOfNews, MacosKnows, Told, Online
<1>4. platform = "windows" => WindowsKnows'
      BY DEF OfflineInv, OfflineTypeOK, StartOfNews, WindowsKnows, Told, Reported, Online,
         is_offline_currently
<1> QED BY <1>1, <1>2, <1>3, <1>4 DEF OfflineInv

\* The machine handles a command.
LEMMA HandleIsOfflineKnows ==
    ASSUME OfflineInv, HandleIsOffline
    PROVE  OfflineInv'
<1>0. commands' \in Seq(BOOLEAN) /\ is_offline' \in BOOLEAN /\ Told' = Told /\ commands # <<>>
      BY HandleEffect DEF OfflineInv
<1> USE DEF HandleIsOffline, netVars, toldVars, viewVars, machineVars, historyVars
<1>1. OfflineTypeOK' /\ StartOfNews'
      BY ZenonT(60), <1>0 DEF OfflineInv, OfflineTypeOK, StartOfNews, Idle, Lookers
<1>2. platform = "linux" => LinuxKnows'
      BY <1>0 DEF OfflineInv, OfflineTypeOK, StartOfNews, LinuxKnows, Told, Online
<1>3. platform = "macos" => MacosKnows'
      BY <1>0 DEF OfflineInv, OfflineTypeOK, StartOfNews, MacosKnows, Told, Online
<1>4. platform = "windows" => WindowsKnows'
      BY <1>0 DEF OfflineInv, OfflineTypeOK, StartOfNews, WindowsKnows, Told, Reported, Online,
         is_offline_currently
<1> QED BY <1>1, <1>2, <1>3, <1>4 DEF OfflineInv

\* The network changes: the monitor has not been told yet, or a callback will report it.
LEMMA NetworkChangesKnows ==
    ASSUME OfflineInv, NetworkChanges
    PROVE  OfflineInv'
<1> USE DEF NetworkChanges, Listening, netVars, toldVars, viewVars, machineVars, historyVars
<1>5. net' \in [link : BOOLEAN, addr : BOOLEAN]
      BY DEF OfflineInv, OfflineTypeOK
<1>6. /\ callbacks' \in Seq(BOOLEAN)
      /\ platform # "windows" \/ begun = "no" => callbacks' = callbacks
      BY <1>5, LastOfAppend DEF OfflineInv, OfflineTypeOK
<1>7. /\ changes' \in 0 .. MaxChanges /\ changes' = changes + 1
      /\ notices' \in 0 .. changes' /\ (begun = "no" => notices' = notices)
      BY Bounds DEF OfflineInv, OfflineTypeOK, StartOfNews
<1>1. OfflineTypeOK' /\ StartOfNews'
      BY <1>5, <1>6, <1>7, Bounds DEF OfflineInv, OfflineTypeOK, StartOfNews, Idle, Lookers
<1>2. platform = "linux" => LinuxKnows'
      BY DEF OfflineInv, OfflineTypeOK, StartOfNews, LinuxKnows, Told, Online
<1>3. platform = "macos" => MacosKnows'
      BY DEF OfflineInv, OfflineTypeOK, StartOfNews, MacosKnows, Told, Online
<1>4. platform = "windows" => WindowsKnows'
      BY LastOfAppend DEF OfflineInv, OfflineTypeOK, StartOfNews, WindowsKnows, Told, Reported,
         Online, is_offline_currently
<1> QED BY <1>1, <1>2, <1>3, <1>4 DEF OfflineInv

\* The Linux monitor ends.
LEMMA NetlinkFailsKnows ==
    ASSUME OfflineInv, NetlinkFails
    PROVE  OfflineInv'
<1> USE DEF NetlinkFails, reset, netVars, toldVars, viewVars, machineVars, historyVars
<1>1. OfflineTypeOK' /\ StartOfNews'
      BY ZenonT(60), SendEffect, Bounds DEF OfflineInv, OfflineTypeOK, StartOfNews, Idle, Lookers
<1>2. platform = "linux" => LinuxKnows'
      BY SendEffect DEF OfflineInv, OfflineTypeOK, StartOfNews, LinuxKnows, Told, Online
<1> QED BY <1>1, <1>2 DEF OfflineInv

\* The macOS monitor is called.
LEMMA PrimaryInterfaceChangeKnows ==
    ASSUME OfflineInv, PrimaryInterfaceChange
    PROVE  OfflineInv'
<1> USE DEF PrimaryInterfaceChange, netVars, toldVars, viewVars, machineVars, historyVars
<1>5. commands' \in Seq(BOOLEAN)
      BY OnlineIsBoolean, SendEffect DEF OfflineInv, OfflineTypeOK
<1>8. OfflineTypeOK'
      BY <1>5, Bounds DEF OfflineInv, OfflineTypeOK, StartOfNews
<1>9. StartOfNews'
      BY <1>5 DEF OfflineInv, OfflineTypeOK, StartOfNews
<1>1. OfflineTypeOK' /\ StartOfNews'
      BY <1>8, <1>9
<1>3. platform = "macos" => MacosKnows'
      BY OnlineIsBoolean, SendEffect
      DEF OfflineInv, OfflineTypeOK, StartOfNews, MacosKnows, Told, Online
<1> QED BY <1>1, <1>3 DEF OfflineInv

\* The device wakes up.
LEMMA ResumeKnows ==
    ASSUME OfflineInv, Resume
    PROVE  OfflineInv'
<1> USE DEF Resume, netVars, toldVars, viewVars, machineVars, historyVars
<1>0. resumes' \in 0 .. changes /\ platform = "windows" /\ begun # "no"
      BY DEF OfflineInv, OfflineTypeOK, StartOfNews
<1>6. asleep' \in BOOLEAN
      BY Zenon
<1>7. resumes' \in 0 .. MaxChanges
      BY <1>0, Bounds DEF OfflineInv, OfflineTypeOK
<1>8. OfflineTypeOK'
      BY <1>6, <1>7 DEF OfflineInv, OfflineTypeOK
<1>9. StartOfNews'
      BY <1>0 DEF OfflineInv, OfflineTypeOK, StartOfNews
<1>1. OfflineTypeOK' /\ StartOfNews'
      BY <1>8, <1>9
<1>2. platform = "linux" => LinuxKnows'
      BY DEF OfflineInv, OfflineTypeOK, StartOfNews, LinuxKnows, Told, Online
<1>3. platform = "macos" => MacosKnows'
      BY DEF OfflineInv, OfflineTypeOK, StartOfNews, MacosKnows, Told, Online
<1>4. platform = "windows" => WindowsKnows'
      BY DEF OfflineInv, OfflineTypeOK, StartOfNews, WindowsKnows, Told, Reported, Online,
         is_offline_currently
<1> QED BY <1>1, <1>2, <1>3, <1>4 DEF OfflineInv

\* SystemState::apply_change tells the machine what follows from the new state.
LEMMA ApplyEffect ==
    ASSUME OfflineInv, platform = "windows", UNCHANGED <<begun, is_offline, differed>>,
           NEW new \in [offline : BOOLEAN, network_connectivity : BOOLEAN, suspended : BOOLEAN],
           apply_change(new)
    PROVE  /\ commands' \in Seq(BOOLEAN) /\ monitor' = new
           /\ commands' # <<>> \/ (begun = "yes" /\ ~differed) => Told' = is_offline_currently(new)
           /\ ~monitor.network_connectivity /\ ~new.network_connectivity => commands' = commands
<1>1. is_offline_currently(new) \in BOOLEAN
      BY DEF is_offline_currently
<1>2. CASE is_offline_currently(new) # is_offline_currently(monitor)
  <2>1. Send(is_offline_currently(new))
        BY <1>2 DEF apply_change
  <2>2. commands' \in Seq(BOOLEAN) /\ Told' = is_offline_currently(new)
        BY <1>1, <2>1, SendEffect DEF OfflineInv, OfflineTypeOK
  <2>3. ~(~monitor.network_connectivity /\ ~new.network_connectivity)
        BY <1>2 DEF is_offline_currently
  <2> QED BY <2>2, <2>3 DEF apply_change
<1>3. CASE is_offline_currently(new) = is_offline_currently(monitor)
  <2>1. commands' = commands /\ monitor' = new
        BY <1>3 DEF apply_change
  <2>2. Told' = Told
        BY <2>1 DEF Told
  <2> QED BY <1>3, <2>1, <2>2 DEF OfflineInv, OfflineTypeOK, WindowsKnows
<1> QED BY <1>2, <1>3

\* A callback reports the connectivity.
LEMMA ConnectivityCallbackKnows ==
    ASSUME OfflineInv, ConnectivityCallback
    PROVE  OfflineInv'
<1> DEFINE new == [monitor EXCEPT !.network_connectivity = Head(callbacks)]
<1> USE DEF ConnectivityCallback, netVars, toldVars, viewVars, machineVars, historyVars
<1>1. platform = "windows"
      BY DEF OfflineInv, StartOfNews
<1>2. /\ new \in [offline : BOOLEAN, network_connectivity : BOOLEAN, suspended : BOOLEAN]
      /\ new.network_connectivity = Head(callbacks)
      /\ new.suspended = monitor.suspended
      BY LastOfTail DEF OfflineInv, OfflineTypeOK
<1>3. apply_change(new) /\ UNCHANGED <<begun, is_offline, differed>>
      OBVIOUS
<1> HIDE DEF new
<1>4. /\ commands' \in Seq(BOOLEAN) /\ monitor' = new
      /\ commands' # <<>> \/ (begun = "yes" /\ ~differed) => Told' = is_offline_currently(new)
      /\ ~monitor.network_connectivity /\ ~new.network_connectivity => commands' = commands
      BY <1>1, <1>2, <1>3, ApplyEffect
<1>5. OfflineTypeOK' /\ StartOfNews'
      BY <1>1, <1>2, <1>4, LastOfTail, Bounds
      DEF OfflineInv, OfflineTypeOK, StartOfNews, WindowsKnows, Idle, Lookers
<1>6. WindowsKnows'
      BY <1>1, <1>2, <1>4, LastOfTail
      DEF OfflineInv, OfflineTypeOK, StartOfNews, WindowsKnows, Reported, Online,
          is_offline_currently
<1> QED BY <1>1, <1>5, <1>6 DEF OfflineInv

\* The device goes to sleep.
LEMMA SuspendKnows ==
    ASSUME OfflineInv, Suspend
    PROVE  OfflineInv'
<1> DEFINE new == [monitor EXCEPT !.suspended = TRUE]
<1> USE DEF Suspend, netVars, toldVars, viewVars, machineVars, historyVars
<1>1. platform = "windows"
      BY DEF OfflineInv, StartOfNews
<1>2. /\ new \in [offline : BOOLEAN, network_connectivity : BOOLEAN, suspended : BOOLEAN]
      /\ new.suspended = TRUE
      /\ new.network_connectivity = monitor.network_connectivity
      BY DEF OfflineInv, OfflineTypeOK
<1>3. apply_change(new) /\ UNCHANGED <<begun, is_offline, differed>>
      OBVIOUS
<1> HIDE DEF new
<1>4. /\ commands' \in Seq(BOOLEAN) /\ monitor' = new
      /\ commands' # <<>> \/ (begun = "yes" /\ ~differed) => Told' = is_offline_currently(new)
      /\ ~monitor.network_connectivity /\ ~new.network_connectivity => commands' = commands
      BY <1>1, <1>2, <1>3, ApplyEffect
<1>5. OfflineTypeOK' /\ StartOfNews'
      BY <1>1, <1>2, <1>4, Bounds
      DEF OfflineInv, OfflineTypeOK, StartOfNews, WindowsKnows, Idle, Lookers
<1>6. WindowsKnows'
      BY <1>1, <1>2, <1>4 DEF OfflineInv, OfflineTypeOK, StartOfNews, WindowsKnows, Reported,
         Online, is_offline_currently
<1> QED BY <1>1, <1>5, <1>6 DEF OfflineInv

\* The end of a suspension is reported.
LEMMA ResumeReportedKnows ==
    ASSUME OfflineInv, ResumeReported
    PROVE  OfflineInv'
<1> DEFINE new == [monitor EXCEPT !.suspended = FALSE]
<1> USE DEF ResumeReported, netVars, toldVars, viewVars, machineVars, historyVars
<1>1. platform = "windows"
      BY DEF OfflineInv, StartOfNews
<1>2. /\ new \in [offline : BOOLEAN, network_connectivity : BOOLEAN, suspended : BOOLEAN]
      /\ new.suspended = FALSE
      /\ new.network_connectivity = monitor.network_connectivity
      BY DEF OfflineInv, OfflineTypeOK
<1>3. apply_change(new) /\ UNCHANGED <<begun, is_offline, differed>>
      OBVIOUS
<1> HIDE DEF new
<1>4. /\ commands' \in Seq(BOOLEAN) /\ monitor' = new
      /\ commands' # <<>> \/ (begun = "yes" /\ ~differed) => Told' = is_offline_currently(new)
      /\ ~monitor.network_connectivity /\ ~new.network_connectivity => commands' = commands
      BY <1>1, <1>2, <1>3, ApplyEffect
<1>5. OfflineTypeOK' /\ StartOfNews'
      BY <1>1, <1>2, <1>4, Bounds
      DEF OfflineInv, OfflineTypeOK, StartOfNews, WindowsKnows, Idle, Lookers
<1>6. WindowsKnows'
      BY <1>1, <1>2, <1>4 DEF OfflineInv, OfflineTypeOK, StartOfNews, WindowsKnows, Reported,
         Online, is_offline_currently
<1> QED BY <1>1, <1>5, <1>6 DEF OfflineInv

\* What a look of Linux comes to, if it is right when the monitor takes it and nothing is left
\* to be told.
LEMMA LookedKnows ==
    ASSUME OfflineInv, platform = "linux", NEW who \in Lookers, NEW offline \in BOOLEAN,
           Looked(who, offline),
           look' \in [Lookers -> {"idle", "links"}], look'[who] = "idle",
           \A other \in Lookers \ {who} : look'[other] = look[other],
           IF who = "main" THEN begun \in {"monitor", "machine"} /\ notices' = notices
           ELSE begun \in {"machine", "yes"} /\ ~ended /\ notices' \in 0 .. notices,
           UNCHANGED <<platform, netVars, callbacks, resumes, ended, late>>,
           blind' \in BOOLEAN, blind => blind',
           (who = "monitor" \/ begun = "monitor") /\ notices' = 0 /\ ~blind' => offline = ~Online
    PROVE  OfflineInv'
<1> USE DEF netVars, Lookers
<1>1. CASE who = "main" /\ begun = "monitor"
  <2>1. /\ monitor' = [monitor EXCEPT !.offline = offline] /\ begun' = "machine"
        /\ UNCHANGED <<commands, is_offline, differed>>
        BY <1>1 DEF Looked
  <2>2. OfflineTypeOK'
        BY <1>1, <2>1 DEF OfflineInv, OfflineTypeOK
  <2>3. StartOfNews'
        BY <1>1, <2>1 DEF OfflineInv, OfflineTypeOK, StartOfNews
  <2>4. LinuxKnows'
        BY <1>1, <2>1 DEF OfflineInv, OfflineTypeOK, StartOfNews, LinuxKnows, Told, Online
  <2> QED BY <2>2, <2>3, <2>4 DEF OfflineInv
<1>2. CASE who = "main" /\ begun = "machine"
  <2>1. /\ is_offline' = offline /\ begun' = "yes" /\ differed' = (offline # monitor.offline)
        /\ UNCHANGED <<commands, monitor>>
        BY <1>2 DEF Looked
  <2>2. OfflineTypeOK'
        BY <1>2, <2>1 DEF OfflineInv, OfflineTypeOK
  <2>3. StartOfNews'
        BY <1>2, <2>1 DEF OfflineInv, OfflineTypeOK, StartOfNews
  <2>4. LinuxKnows'
        BY <1>2, <2>1 DEF OfflineInv, OfflineTypeOK, StartOfNews, LinuxKnows, Told, Online
  <2> QED BY <2>2, <2>3, <2>4 DEF OfflineInv
<1>3. CASE who = "monitor"
  <2>1. /\ monitor' = [monitor EXCEPT !.offline = offline] /\ UNCHANGED <<begun, is_offline, differed>>
        /\ IF offline # monitor.offline THEN Send(offline) ELSE UNCHANGED commands
        BY <1>3 DEF Looked, set_is_offline
  <2>2. /\ commands' \in Seq(BOOLEAN)
        /\ commands' # <<>> \/ (begun = "yes" /\ ~differed) => Told' = offline
    <3>1. CASE offline # monitor.offline
          BY <2>1, <3>1, SendEffect DEF OfflineInv, OfflineTypeOK
    <3>2. CASE offline = monitor.offline
          BY <1>3, <2>1, <3>2 DEF OfflineInv, OfflineTypeOK, LinuxKnows, Told
    <3> QED BY <3>1, <3>2
  <2>6. notices' \in 0 .. MaxChanges /\ begun' # "no"
        BY <1>3, <2>1, Bounds DEF OfflineInv, OfflineTypeOK
  <2>3. OfflineTypeOK'
        BY <2>1, <2>2, <2>6 DEF OfflineInv, OfflineTypeOK
  <2>4. StartOfNews'
        BY <1>3, <2>1, <2>2 DEF OfflineInv, OfflineTypeOK, StartOfNews
  <2>5. LinuxKnows'
        BY <1>3, <2>1, <2>2 DEF OfflineInv, OfflineTypeOK, StartOfNews, LinuxKnows, Online
  <2> QED BY <2>3, <2>4, <2>5 DEF OfflineInv
<1> QED BY <1>1, <1>2, <1>3

\* The first read of a look.
LEMMA LookAtLinksKnows ==
    ASSUME OfflineInv, NEW who \in Lookers, LookAtLinks(who)
    PROVE  OfflineInv'
<1>1. /\ platform = "linux" /\ look[who] = "idle"
      /\ IF who = "main" THEN begun \in {"monitor", "machine"} /\ notices' = notices
         ELSE begun \in {"machine", "yes"} /\ ~ended /\ notices > 0 /\ notices' = notices - 1
      /\ UNCHANGED <<platform, netVars, callbacks, resumes, ended, blind, late>>
      BY DEF LookAtLinks, MayLook
<1>2. notices' \in 0 .. notices
      BY <1>1 DEF OfflineInv, OfflineTypeOK
<1>3. CASE net.link
  <2>1. look' = [look EXCEPT ![who] = "links"] /\ UNCHANGED <<monitor, machineVars, differed>>
        BY <1>3 DEF LookAtLinks
  <2> USE DEF netVars, machineVars, Lookers
  <2>5. notices' \in 0 .. MaxChanges /\ begun' # "no"
        BY <1>1, <1>2, <2>1, Bounds DEF OfflineInv, OfflineTypeOK
  <2>6. look' \in [Lookers -> {"idle", "links"}]
        BY <2>1 DEF OfflineInv, OfflineTypeOK
  <2>2. OfflineTypeOK'
        BY <1>1, <2>1, <2>5, <2>6 DEF OfflineInv, OfflineTypeOK
  <2>3. StartOfNews'
        BY <1>1, <1>2, <2>1 DEF OfflineInv, OfflineTypeOK, StartOfNews
  <2>4. LinuxKnows'
        BY <1>1, <1>2, <1>3, <2>1 DEF OfflineInv, OfflineTypeOK, StartOfNews, LinuxKnows, Told,
           Online
  <2> QED BY <1>1, <2>2, <2>3, <2>4 DEF OfflineInv
<1>4. CASE ~net.link
  <2>1. Looked(who, TRUE) /\ look' = look
        BY <1>4 DEF LookAtLinks
  <2>2. TRUE = ~Online
        BY <1>4 DEF Online
  <2> QED BY <1>1, <1>2, <2>1, <2>2, LookedKnows DEF OfflineInv, OfflineTypeOK, Lookers
<1> QED BY <1>3, <1>4

\* The second read of a look.
LEMMA LookAtAddressesKnows ==
    ASSUME OfflineInv, NEW who \in Lookers, LookAtAddresses(who)
    PROVE  OfflineInv'
<1>1. /\ look[who] = "links" /\ look' = [look EXCEPT ![who] = "idle"] /\ Looked(who, ~net.addr)
      /\ UNCHANGED <<platform, netVars, callbacks, resumes, ended, blind, late>> /\ notices' = notices
      BY DEF LookAtAddresses, toldVars
<1>2. platform = "linux"
      BY <1>1 DEF OfflineInv, StartOfNews, Idle
<1>3. who = "main" => begun \in {"monitor", "machine"}
      BY <1>1 DEF OfflineInv, StartOfNews
<1>4. who = "monitor" => begun \in {"machine", "yes"} /\ ~ended
      BY <1>1, <1>2 DEF OfflineInv, OfflineTypeOK, StartOfNews, LinuxKnows
<1>5. (who = "monitor" \/ begun = "monitor") /\ notices' = 0 => (~net.addr) = ~Online
      BY <1>1, <1>2, <1>3, <1>4 DEF OfflineInv, OfflineTypeOK, StartOfNews, LinuxKnows, Online,
         Lookers
<1>6. (~net.addr) \in BOOLEAN /\ notices' \in 0 .. notices
      BY <1>1 DEF OfflineInv, OfflineTypeOK
<1>7. /\ look' \in [Lookers -> {"idle", "links"}] /\ look'[who] = "idle"
      /\ \A other \in Lookers \ {who} : look'[other] = look[other]
      BY <1>1 DEF OfflineInv, OfflineTypeOK
<1>8. IF who = "main" THEN begun \in {"monitor", "machine"} /\ notices' = notices
      ELSE begun \in {"machine", "yes"} /\ ~ended /\ notices' \in 0 .. notices
      BY <1>1, <1>3, <1>4, <1>6 DEF Lookers
<1>9. blind' \in BOOLEAN /\ (blind => blind')
      BY <1>1 DEF OfflineInv, OfflineTypeOK
<1> QED BY <1>1, <1>2, <1>5, <1>6, <1>7, <1>8, <1>9, LookedKnows

\* A look fails.
LEMMA LookFailsKnows ==
    ASSUME OfflineInv, NEW who \in Lookers, LookFails(who)
    PROVE  OfflineInv'
<1>1. /\ look' = [look EXCEPT ![who] = "idle"] /\ Looked(who, FALSE) /\ blind' = TRUE
      /\ UNCHANGED <<platform, netVars, callbacks, resumes, ended, late>>
      /\ MayLook(who) \/ (look[who] = "links" /\ notices' = notices)
      BY DEF LookFails
<1>2. platform = "linux"
      BY <1>1 DEF OfflineInv, StartOfNews, Idle, MayLook
<1>3. IF who = "main" THEN begun \in {"monitor", "machine"} /\ notices' = notices
      ELSE begun \in {"machine", "yes"} /\ ~ended /\ notices' \in 0 .. notices
      BY <1>1, <1>2 DEF OfflineInv, OfflineTypeOK, StartOfNews, LinuxKnows, MayLook, Lookers
<1>4. /\ look' \in [Lookers -> {"idle", "links"}] /\ look'[who] = "idle"
      /\ \A other \in Lookers \ {who} : look'[other] = look[other]
      BY <1>1 DEF OfflineInv, OfflineTypeOK
<1> QED BY <1>1, <1>2, <1>3, <1>4, LookedKnows

\* The state of the monitors at the start of a process.
OfflineFresh ==
    /\ notices = 0 /\ callbacks = <<>> /\ resumes = 0 /\ look = Idle /\ ended = FALSE
    /\ monitor = [offline |-> FALSE, network_connectivity |-> FALSE, suspended |-> FALSE]
    /\ begun = "no" /\ commands = <<>> /\ is_offline = FALSE
    /\ asleep = FALSE /\ blind = FALSE /\ differed = FALSE /\ late = FALSE
    /\ platform \in {"linux", "macos", "windows"} /\ net \in [link : BOOLEAN, addr : BOOLEAN]
    /\ changes \in 0 .. MaxChanges

\* A process that starts knows nothing wrong.
LEMMA FreshKnows == OfflineFresh => OfflineInv
<1> SUFFICES ASSUME OfflineFresh PROVE OfflineInv
    OBVIOUS
<1>4. callbacks \in Seq(BOOLEAN) /\ commands \in Seq(BOOLEAN) /\ look \in [Lookers -> {"idle", "links"}]
      BY DEF OfflineFresh, Idle
<1>5. /\ asleep \in BOOLEAN /\ ended \in BOOLEAN /\ is_offline \in BOOLEAN
      /\ blind \in BOOLEAN /\ differed \in BOOLEAN /\ late \in BOOLEAN
      BY Zenon DEF OfflineFresh
<1>1. OfflineTypeOK
      BY <1>4, <1>5, Bounds DEF OfflineFresh, OfflineTypeOK
<1>2. StartOfNews
      BY DEF OfflineFresh, StartOfNews, Idle, Lookers
<1>3. LinuxKnows /\ MacosKnows /\ WindowsKnows
      BY DEF OfflineFresh, LinuxKnows, MacosKnows, WindowsKnows, Told, Idle, Lookers
<1> QED BY <1>1, <1>2, <1>3 DEF OfflineInv

\* The same after a step.
LEMMA FreshKnowsThen == OfflineFresh' => OfflineInv'
BY FreshKnows, PTL

\* The monitors and the machine keep to what they know, whatever the network does.
LEMMA OfflineStepKnows ==
    ASSUME OfflineInv, OfflineStep \/ NetworkStep \/ OfflineFault
    PROVE  OfflineInv'
<1>1. CASE SpawnStep
      BY <1>1, ListeningBegins, ActivateKnows DEF SpawnStep
<1>2. CASE NetworkStep
      BY <1>2, NetworkChangesKnows, SuspendKnows, ResumeKnows DEF NetworkStep
<1>3. CASE OfflineFault
      BY <1>3, NetlinkFailsKnows, LookFailsKnows DEF OfflineFault
<1>4. CASE MachineLooks \/ HandleIsOffline \/ PrimaryInterfaceChange \/ ConnectivityCallback \/ ResumeReported
      BY <1>4, MachineLooksKnows, HandleIsOfflineKnows, PrimaryInterfaceChangeKnows,
         ConnectivityCallbackKnows,
         ResumeReportedKnows
<1>5. CASE \E who \in Lookers : LookAtLinks(who) \/ LookAtAddresses(who)
      BY <1>5, LookAtLinksKnows, LookAtAddressesKnows
<1> QED BY <1>1, <1>2, <1>3, <1>4, <1>5 DEF OfflineStep

\* What the machine knows follows once nothing is under way.
LEMMA KnownWhenSettled == OfflineInv => NetworkIsKnown
<1> SUFFICES ASSUME OfflineInv PROVE NetworkIsKnown
    OBVIOUS
<1>1. Settled => look["monitor"] = "idle"
      BY DEF Settled, Idle, Lookers
<1>2. KnowsTheNetwork
  <2> SUFFICES ASSUME Settled, ~ended, ~blind, ~differed, ~asleep PROVE is_offline = ~Online
      BY DEF KnowsTheNetwork
  <2>1. CASE platform = "linux"
        BY <1>1, <2>1 DEF OfflineInv, OfflineTypeOK, LinuxKnows, Told, Settled, Online
  <2>2. CASE platform = "macos"
        BY <2>2 DEF OfflineInv, OfflineTypeOK, MacosKnows, Told, Settled, Online
  <2>3. CASE platform = "windows"
        BY <2>3 DEF OfflineInv, OfflineTypeOK, WindowsKnows, Told, Reported, Settled, Online,
           is_offline_currently
  <2> QED BY <2>1, <2>2, <2>3 DEF OfflineInv, OfflineTypeOK
<1>3. SleepIsOffline
      BY DEF OfflineInv, OfflineTypeOK, StartOfNews, WindowsKnows, Told, Settled, SleepIsOffline,
         is_offline_currently
<1>4. FailsOpen
      BY DEF OfflineInv, OfflineTypeOK, StartOfNews, LinuxKnows, Told, FailsOpen
<1> QED BY <1>2, <1>3, <1>4 DEF NetworkIsKnown

-----------------------------------------------------------------------------
(* The settings                                                            *)

\* What a file holds, and what is read of it.
LEMMA FileContents ==
    /\ Default \in Values /\ Absent \in Files /\ Torn \in Files
    /\ \A v \in Values : V2(v) \in Files /\ parse_settings(V2(v)) = v /\ V2(v).format = "v2"
    /\ \A f \in Files : parse_settings(f) \in Values
    /\ \A f \in Files : f.format = "absent" => parse_settings(f) = Default
    /\ Absent.format = "absent" /\ Torn.format = "torn" /\ parse_settings(Absent) = Default
<1>1. Default \in Values
      BY DEF Default, Values
<1>2. \A v \in Values : migrate(v) \in Values
      BY DEF migrate, Values
<1>3. Absent \in Files /\ Torn \in Files /\ Absent.format = "absent" /\ Torn.format = "torn"
      BY <1>1 DEF Absent, Torn, Files
<1>4. \A v \in Values : V2(v) \in Files /\ parse_settings(V2(v)) = v /\ V2(v).format = "v2"
      BY DEF V2, Files, parse_settings
<1>5. \A f \in Files : parse_settings(f) \in Values
      BY <1>1, <1>2 DEF Files, parse_settings
<1>6. \A f \in Files : f.format = "absent" => parse_settings(f) = Default
      BY DEF parse_settings
<1> QED BY <1>1, <1>3, <1>4, <1>5, <1>6

\* Nothing touches the settings.
LEMMA SettingsUnchanged ==
    ASSUME SettingsInv, UNCHANGED <<settingsVars, platform>>,
           phase' \in {"loaded", "running"} => phase \in {"loaded", "running"}
    PROVE  SettingsInv'
BY DEF SettingsInv, SettingsTypeOK, settingsVars, Kept

\* What is loaded is what was kept, and is what the daemon starts with.
LEMMA LoadKeeps ==
    ASSUME SettingsInv, saving = "no", Load(platform = "windows"), platform' = platform
    PROVE  SettingsInv' /\ (~cut' => settings' \in {acked, asked})
<1> USE FileContents DEF fileVars
<1>1. acked' = settings' /\ asked' = settings'
      BY DEF Load
<1>2. CASE /\ file.format # "absent" \/ platform # "windows" \/ backup.format = "absent"
           /\ settings' = parse_settings(file) /\ StartsSaving(file) /\ UNCHANGED <<fileVars, cut>>
  <2>1. Kept = settings' /\ Kept' = settings'
        BY <1>2 DEF SettingsInv, SettingsTypeOK, Kept
  <2>2. SettingsTypeOK'
        BY <1>1, <1>2 DEF SettingsInv, SettingsTypeOK, StartsSaving
  <2> QED BY <1>1, <1>2, <2>1, <2>2 DEF SettingsInv, StartsSaving
<1>3. CASE /\ platform = "windows" /\ file.format = "absent" /\ backup.format # "absent"
           /\ file' = backup /\ backup' \in {backup, Absent}
           /\ settings' = LoadsAgain(backup) /\ StartsSaving(backup) /\ UNCHANGED cut
  <2>1. Kept = settings' /\ Kept' = settings'
        BY <1>3 DEF SettingsInv, SettingsTypeOK, Kept, LoadsAgain
  <2>2. SettingsTypeOK'
        BY <1>1, <1>3 DEF SettingsInv, SettingsTypeOK, StartsSaving, LoadsAgain
  <2> QED BY <1>1, <1>3, <2>1, <2>2 DEF SettingsInv, StartsSaving
<1>4. CASE /\ platform = "windows" /\ file' \in {Absent, Torn} /\ UNCHANGED backup
           /\ settings' = Default /\ StartsSaving(Absent) /\ cut' = TRUE
  <2>1. SettingsTypeOK'
        BY <1>1, <1>4 DEF SettingsInv, SettingsTypeOK, StartsSaving
  <2> QED BY <1>1, <1>4, <2>1 DEF SettingsInv, StartsSaving
<1> QED BY <1>2, <1>3, <1>4 DEF Load

\* A change or a reset begins: nothing is written yet.
LEMMA RequestKeeps ==
    ASSUME SettingsInv, phase \in {"loaded", "running"}, Change \/ Reset, platform' = platform
    PROVE  SettingsInv'
<1> USE FileContents DEF fileVars
<1>1. /\ saving = "no" /\ saving' = "create" /\ settings' = asked' /\ purpose' \in {"request", "reset"}
      /\ settings' \in Values /\ (purpose' = "reset" => settings' = Default)
      /\ UNCHANGED <<file, backup, acked, cut>>
      BY DEF Change, Reset
<1>2. Kept' = Kept
      BY <1>1 DEF Kept
<1>3. SettingsTypeOK'
      BY <1>1 DEF SettingsInv, SettingsTypeOK
<1> QED BY <1>1, <1>2, <1>3 DEF SettingsInv

\* A save goes on, works or fails.
LEMMA SaveKeeps ==
    ASSUME SettingsInv, phase \in {"loaded", "running"}, SaveStep, UNCHANGED <<phase, platform>>
    PROVE  SettingsInv'
<1> USE FileContents
<1>1. CASE SaveCreates
  <2>1. SettingsTypeOK'
        BY <1>1 DEF SettingsInv, SettingsTypeOK, SaveCreates
  <2> QED BY <1>1, <2>1 DEF SettingsInv, SaveCreates
<1>2. CASE SaveWrites
  <2>1. SettingsTypeOK'
        BY <1>2 DEF SettingsInv, SettingsTypeOK, SaveWrites
  <2>2. Kept' = settings
        BY <1>2, <2>1 DEF SettingsInv, SettingsTypeOK, SaveWrites, Kept
  <2> QED BY <1>2, <2>1, <2>2 DEF SettingsInv, SettingsTypeOK, SaveWrites
<1>3. CASE SaveFails /\ purpose = "reset" /\ file' = Absent /\ saving' = "answer"
                     /\ cut' = (backup.format # "absent")
  <2>1. SettingsTypeOK'
        BY <1>3 DEF SettingsInv, SettingsTypeOK, SaveFails
  <2>2. ~cut' => Kept' = Default
        BY <1>3, <2>1 DEF SettingsTypeOK, SaveFails, Kept
  <2> QED BY <1>3, <2>1, <2>2 DEF SettingsInv, SaveFails
<1>4. CASE SaveFails /\ saving' = "no" /\ UNCHANGED file /\ cut' = (cut \/ saving = "write")
  <2>1. SettingsTypeOK'
        BY <1>4 DEF SettingsInv, SettingsTypeOK, SaveFails
  <2>2. Kept' = Kept
        BY <1>4 DEF SaveFails, Kept
  <2> QED BY <1>4, <2>1, <2>2 DEF SettingsInv, SaveFails
<1>5. CASE Answer
  <2>1. SettingsTypeOK'
        BY <1>5 DEF SettingsInv, SettingsTypeOK, Answer, fileVars
  <2>2. Kept' = Kept
        BY <1>5 DEF Answer, Kept, fileVars
  <2> QED BY <1>5, <2>1, <2>2 DEF SettingsInv, Answer, fileVars
<1> QED BY <1>1, <1>2, <1>3, <1>4, <1>5 DEF SaveStep, SaveFails

\* The answer to a reset, when the daemon has ended.
LEMMA AnswerKeeps ==
    ASSUME SettingsInv, Answer, platform' = platform
    PROVE  SettingsInv'
<1>1. SettingsTypeOK'
      BY DEF SettingsInv, SettingsTypeOK, Answer, fileVars
<1>2. Kept' = Kept
      BY DEF Answer, Kept, fileVars
<1> QED BY <1>1, <1>2 DEF SettingsInv, Answer, fileVars

\* The process is gone in the middle of whatever it did.
LEMMA KilledKeeps ==
    ASSUME SettingsInv, KilledSaving, phase' = "off", platform' = platform
    PROVE  SettingsInv'
<1>1. SettingsTypeOK'
      BY DEF SettingsInv, SettingsTypeOK, KilledSaving
<1>2. Kept' = Kept
      BY DEF KilledSaving, Kept
<1>3. saving \in {"no", "create", "write", "answer"}
      BY DEF SettingsInv, SettingsTypeOK
<1> QED BY <1>1, <1>2, <1>3 DEF SettingsInv, KilledSaving

\* A Windows update moves what is kept.
LEMMA UpdateKeeps ==
    ASSUME SettingsInv, platform = "windows", phase = "off", WindowsUpdate, UNCHANGED <<phase, platform>>
    PROVE  SettingsInv'
<1>1. SettingsTypeOK'
      BY FileContents DEF SettingsInv, SettingsTypeOK, WindowsUpdate
<1>2. Kept' = Kept
      BY FileContents DEF WindowsUpdate, Kept
<1>3. ~cut /\ saving' = "no" => Kept' \in {acked', asked'}
      BY <1>2 DEF SettingsInv, WindowsUpdate
<1> QED BY <1>1, <1>2, <1>3 DEF SettingsInv, WindowsUpdate

-----------------------------------------------------------------------------
(* Clients and events                                                      *)

\* The two threads that send events.
LEMMA ThreadsAre == Threads = {"loop", "updater"}
BY DEF Threads

\* Nothing touches the interface.
LEMMA InterfaceUnchanged ==
    ASSUME InterfaceInv, UNCHANGED interfaceVars
    PROVE  InterfaceInv'
BY DEF InterfaceInv, InterfaceTypeOK, NoEventIsLost, LastFor, interfaceVars

\* The promise to one client about one thread, in terms of what is in the way.
Complete(q, low, high, t) ==
    /\ low <= high
    /\ \A n \in low + 1 .. high : \E k \in DOMAIN q : q[k] = [thread |-> t, number |-> n]
    /\ \A k \in DOMAIN q : q[k].thread = t => q[k].number \in low + 1 .. high
    /\ \A j, k \in DOMAIN q : j < k /\ q[j].thread = t /\ q[k].thread = t => q[j].number < q[k].number

\* What waits for a client is complete ...
LEMMA CompleteNow ==
    ASSUME NoEventIsLost, NEW c \in subscriptions \cap connected, NEW t \in Threads
    PROVE  Complete(queue[c], seen[c][t], LastFor(c, t), t)
BY DEF NoEventIsLost, Complete

\* ... and if it is after a step, then nothing is lost.
LEMMA CompleteThen ==
    ASSUME \A c \in subscriptions' \cap connected', t \in Threads :
               Complete(queue'[c], seen'[c][t], LastFor(c, t)', t)
    PROVE  NoEventIsLost'
BY DEF NoEventIsLost, Complete

\* A queue that is empty is complete if nothing is to be in it.
LEMMA CompleteEmpty ==
    ASSUME NEW n \in Int, NEW t
    PROVE  Complete(<<>>, n, n, t)
<1>1. DOMAIN <<>> = {}
      OBVIOUS
<1>2. n + 1 .. n = {} /\ n <= n
      OBVIOUS
<1> QED BY <1>1, <1>2 DEF Complete

\* One more event at the end.
LEMMA CompleteAppend ==
    ASSUME NEW q \in Seq(Event), NEW low \in Int, NEW high \in Int, NEW t, NEW e \in Event,
           Complete(q, low, high, t),
           e.thread = t => e.number = high + 1
    PROVE  Complete(Append(q, e), low, IF e.thread = t THEN high + 1 ELSE high, t)
<1> DEFINE p == Append(q, e)
           high2 == IF e.thread = t THEN high + 1 ELSE high
<1>1. /\ p \in Seq(Event) /\ Len(p) = Len(q) + 1 /\ Len(q) \in Nat /\ p[Len(q) + 1] = e
      /\ DOMAIN p = 1 .. Len(q) + 1 /\ DOMAIN q = 1 .. Len(q)
      /\ \A k \in DOMAIN q : p[k] = q[k] /\ q[k] \in Event
      OBVIOUS
<1>2. \A x \in Event : x.number \in Int /\ x = [thread |-> x.thread, number |-> x.number]
      BY DEF Event
<1> HIDE DEF p
<1>3. low <= high2 /\ high2 \in Int /\ high <= high2
      BY DEF Complete
<1>4. \A n \in low + 1 .. high2 : \E k \in DOMAIN p : p[k] = [thread |-> t, number |-> n]
  <2> SUFFICES ASSUME NEW n \in low + 1 .. high2
               PROVE  \E k \in DOMAIN p : p[k] = [thread |-> t, number |-> n]
      OBVIOUS
  <2>1. CASE n \in low + 1 .. high
    <3>1. PICK k \in DOMAIN q : q[k] = [thread |-> t, number |-> n]
          BY <2>1 DEF Complete
    <3> QED BY <1>1, <3>1
  <2>2. CASE n \notin low + 1 .. high
    <3>1. e.thread = t /\ n = high + 1
          BY <2>2
    <3>2. p[Len(q) + 1] = [thread |-> t, number |-> n]
          BY <1>1, <1>2, <3>1
    <3> QED BY <1>1, <3>2
  <2> QED BY <2>1, <2>2
<1>5. \A k \in DOMAIN p : p[k].thread = t => p[k].number \in low + 1 .. high2
  <2> SUFFICES ASSUME NEW k \in DOMAIN p, p[k].thread = t
               PROVE  p[k].number \in low + 1 .. high2
      OBVIOUS
  <2>1. CASE k \in DOMAIN q
        BY <1>1, <1>3, <2>1 DEF Complete
  <2>2. CASE k = Len(q) + 1
        BY <1>1, <2>2 DEF Complete
  <2> QED BY <1>1, <2>1, <2>2
<1>6. \A j, k \in DOMAIN p : j < k /\ p[j].thread = t /\ p[k].thread = t => p[j].number < p[k].number
  <2> SUFFICES ASSUME NEW j \in DOMAIN p, NEW k \in DOMAIN p, j < k, p[j].thread = t, p[k].thread = t
               PROVE  p[j].number < p[k].number
      OBVIOUS
  <2>1. j \in DOMAIN q
        BY <1>1
  <2>2. CASE k \in DOMAIN q
        BY <1>1, <2>1, <2>2 DEF Complete
  <2>3. CASE k = Len(q) + 1
        BY <1>1, <1>2, <2>1, <2>3 DEF Complete
  <2> QED BY <1>1, <2>2, <2>3
<1> QED BY <1>3, <1>4, <1>5, <1>6 DEF Complete, p

\* The first event is read.
LEMMA CompleteTail ==
    ASSUME NEW q \in Seq(Event), q # <<>>, NEW low \in Int, NEW high \in Int, NEW t,
           Complete(q, low, high, t)
    PROVE  Complete(Tail(q), IF Head(q).thread = t THEN Head(q).number ELSE low, high, t)
<1> DEFINE p == Tail(q)
           low2 == IF Head(q).thread = t THEN Head(q).number ELSE low
<1>1. /\ p \in Seq(Event) /\ Len(p) = Len(q) - 1 /\ Len(q) \in Nat \ {0}
      /\ DOMAIN p = 1 .. Len(q) - 1 /\ DOMAIN q = 1 .. Len(q)
      OBVIOUS
<1>2. \A k \in DOMAIN p : p[k] = q[k + 1] /\ k + 1 \in DOMAIN q
      BY <1>1
<1>3. Head(q) = q[1] /\ 1 \in DOMAIN q /\ \A k \in DOMAIN q : q[k] \in Event
      BY <1>1
<1>4. \A x \in Event : x.number \in Int
      BY DEF Event
<1> HIDE DEF p
<1>5. low2 \in Int /\ low <= low2 /\ low2 <= high
      BY <1>3, <1>4 DEF Complete
<1>6. \A n \in low2 + 1 .. high : \E k \in DOMAIN p : p[k] = [thread |-> t, number |-> n]
  <2> SUFFICES ASSUME NEW n \in low2 + 1 .. high
               PROVE  \E k \in DOMAIN p : p[k] = [thread |-> t, number |-> n]
      OBVIOUS
  <2>1. n \in low + 1 .. high
        BY <1>5
  <2>2. PICK k \in DOMAIN q : q[k] = [thread |-> t, number |-> n]
        BY <2>1 DEF Complete
  <2>3. k # 1
        BY <1>3, <1>5, <2>2
  <2>4. k - 1 \in DOMAIN p /\ k = (k - 1) + 1
        BY <1>1, <2>3
  <2>5. p[k - 1] = q[k]
        BY <1>2, <2>4
  <2> QED BY <2>2, <2>4, <2>5
<1>7. \A k \in DOMAIN p : p[k].thread = t => p[k].number \in low2 + 1 .. high
  <2> SUFFICES ASSUME NEW k \in DOMAIN p, p[k].thread = t
               PROVE  p[k].number \in low2 + 1 .. high
      OBVIOUS
  <2>1. p[k] = q[k + 1] /\ k + 1 \in DOMAIN q /\ 1 < k + 1
        BY <1>1, <1>2
  <2>2. q[k + 1].number \in low + 1 .. high
        BY <2>1 DEF Complete
  <2>3. q[1].thread = t => q[1].number < q[k + 1].number
        BY <1>3, <2>1 DEF Complete
  <2> QED BY <1>3, <1>4, <1>5, <2>1, <2>2, <2>3
<1>8. \A j, k \in DOMAIN p : j < k /\ p[j].thread = t /\ p[k].thread = t => p[j].number < p[k].number
      BY <1>1, <1>2 DEF Complete
<1> QED BY <1>5, <1>6, <1>7, <1>8 DEF Complete, p

\* Connecting, and leaving in any way, loses nothing for the others.
LEMMA ConnectionKeeps ==
    ASSUME InterfaceInv, NEW c \in Clients, Connect(c) \/ daemon_event_unsubscribe(c) \/ ClientGoes(c)
    PROVE  InterfaceInv'
<1> USE DEF Connect, daemon_event_unsubscribe, ClientGoes
<1>6. \/ queue' = queue
      \/ queue' = [queue EXCEPT ![c] = <<>>] /\ c \notin subscriptions' \cap connected'
      OBVIOUS
<1>7. /\ queue' \in [Clients -> Seq(Event)]
      /\ \A d \in Clients : queue'[d] = queue[d] \/ (queue'[d] = <<>> /\ d \notin subscriptions' \cap connected')
  <2> HIDE DEF Connect, daemon_event_unsubscribe, ClientGoes
  <2>1. queue \in [Clients -> Seq(Event)] /\ <<>> \in Seq(Event)
        BY DEF InterfaceInv, InterfaceTypeOK
  <2>2. CASE queue' = queue
        BY <2>1, <2>2
  <2>3. CASE queue' = [queue EXCEPT ![c] = <<>>] /\ c \notin subscriptions' \cap connected'
        BY <2>1, <2>3
  <2> QED BY <1>6, <2>2, <2>3
<1>8. /\ subscriptions' \cap connected' \subseteq subscriptions \cap connected
      /\ subscriptions' \subseteq Clients /\ connected' \subseteq Clients
      BY DEF InterfaceInv, InterfaceTypeOK
<1>1. UNCHANGED <<server, notifying, sent, seen>>
      OBVIOUS
<1>2. notifying' \in [Threads -> SUBSET subscriptions']
      BY DEF InterfaceInv, InterfaceTypeOK, WriteLock
<1>3. \A d \in Clients : Len(queue'[d]) <= Capacity
      BY <1>7, Bounds DEF InterfaceInv, InterfaceTypeOK
<1>4. \A d \in Clients \ (subscriptions' \cap connected') : queue'[d] = <<>>
      BY DEF InterfaceInv, InterfaceTypeOK
<1>5. NoEventIsLost'
  <2> SUFFICES ASSUME NEW d \in subscriptions' \cap connected', NEW t \in Threads
               PROVE  Complete(queue'[d], seen'[d][t], LastFor(d, t)', t)
      BY CompleteThen
  <2>1. d \in subscriptions \cap connected /\ queue'[d] = queue[d] /\ LastFor(d, t)' = LastFor(d, t)
        BY <1>1, <1>7, <1>8 DEF LastFor
  <2> QED BY <1>1, <2>1, CompleteNow DEF InterfaceInv
<1> QED BY <1>1, <1>2, <1>3, <1>4, <1>5, <1>7, <1>8 DEF InterfaceInv, InterfaceTypeOK

\* A client that subscribes begins with what has been sent until then.
LEMMA SubscribeKeeps ==
    ASSUME InterfaceInv, NEW c \in Clients, daemon_event_subscribe(c)
    PROVE  InterfaceInv'
<1> USE DEF daemon_event_subscribe
<1>1. seen' \in [Clients -> [Threads -> 0 .. MaxEvents]]
      BY DEF InterfaceInv, InterfaceTypeOK
<1>2. notifying' \in [Threads -> SUBSET subscriptions']
      BY DEF InterfaceInv, InterfaceTypeOK
<1>3. InterfaceTypeOK'
      BY <1>1, <1>2 DEF InterfaceInv, InterfaceTypeOK
<1>4. \A d \in Clients \ (subscriptions' \cap connected') : queue'[d] = <<>>
      BY DEF InterfaceInv, InterfaceTypeOK
<1>5. NoEventIsLost'
  <2> SUFFICES ASSUME NEW d \in subscriptions' \cap connected', NEW t \in Threads
               PROVE  Complete(queue'[d], seen'[d][t], LastFor(d, t)', t)
      BY CompleteThen
  <2>1. CASE d = c
    <3>1. queue'[d] = <<>> /\ seen'[d][t] = sent[t] /\ LastFor(d, t)' = sent[t] /\ sent[t] \in Int
          BY <2>1 DEF InterfaceInv, InterfaceTypeOK, LastFor, WriteLock
    <3> QED BY <3>1, CompleteEmpty
  <2>2. CASE d # c
    <3>1. /\ d \in subscriptions \cap connected /\ queue'[d] = queue[d] /\ seen'[d] = seen[d]
          /\ LastFor(d, t)' = LastFor(d, t)
          BY <2>2 DEF InterfaceInv, InterfaceTypeOK, LastFor
    <3> QED BY <3>1, CompleteNow DEF InterfaceInv
  <2> QED BY <2>1, <2>2
<1> QED BY <1>3, <1>4, <1>5 DEF InterfaceInv

\* The numbers of the events are numbers.
LEMMA Numbers ==
    ASSUME InterfaceTypeOK, NEW c \in Clients, NEW t \in Threads
    PROVE  /\ queue[c] \in Seq(Event) /\ seen[c][t] \in Int /\ sent[t] \in Int
           /\ LastFor(c, t) \in Int
BY Bounds DEF InterfaceTypeOK, LastFor

\* A client reads its next event.
LEMMA ReadKeeps ==
    ASSUME InterfaceInv, NEW c \in Clients, ClientReads(c)
    PROVE  InterfaceInv'
<1> USE DEF ClientReads
<1>1. /\ queue[c] \in Seq(Event) /\ queue[c] # <<>> /\ Head(queue[c]) \in Event
      /\ Tail(queue[c]) \in Seq(Event) /\ Len(Tail(queue[c])) <= Len(queue[c])
      BY DEF InterfaceInv, InterfaceTypeOK
<1>2. /\ queue' = [queue EXCEPT ![c] = Tail(queue[c])] /\ queue' \in [Clients -> Seq(Event)]
      /\ \A d \in Clients : Len(queue'[d]) <= Capacity
  <2>1. \A d \in Clients : Len(queue[d]) \in Nat /\ Len(queue[d]) <= Capacity
        BY DEF InterfaceInv, InterfaceTypeOK
  <2> QED BY <1>1, <2>1, Bounds DEF InterfaceInv, InterfaceTypeOK
<1>3. Head(queue[c]).thread \in Threads /\ Head(queue[c]).number \in 0 .. MaxEvents
      BY <1>1 DEF Event
<1>4. /\ seen' \in [Clients -> [Threads -> 0 .. MaxEvents]]
      /\ \A t \in Threads : seen'[c][t] = IF Head(queue[c]).thread = t THEN Head(queue[c]).number ELSE seen[c][t]
      /\ \A d \in Clients \ {c} : seen'[d] = seen[d]
      BY <1>3 DEF InterfaceInv, InterfaceTypeOK
<1>5. InterfaceTypeOK'
      BY <1>2, <1>4 DEF InterfaceInv, InterfaceTypeOK
<1>6. \A d \in Clients \ (subscriptions' \cap connected') : queue'[d] = <<>>
      BY DEF InterfaceInv, InterfaceTypeOK
<1>7. NoEventIsLost'
  <2> SUFFICES ASSUME NEW d \in subscriptions' \cap connected', NEW t \in Threads
               PROVE  Complete(queue'[d], seen'[d][t], LastFor(d, t)', t)
      BY CompleteThen
  <2>1. d \in subscriptions \cap connected /\ d \in Clients /\ LastFor(d, t)' = LastFor(d, t)
        BY DEF InterfaceInv, InterfaceTypeOK, LastFor
  <2>2. Complete(queue[d], seen[d][t], LastFor(d, t), t)
        BY <2>1, CompleteNow DEF InterfaceInv
  <2>3. CASE d = c
    <3>1. queue'[d] = Tail(queue[c])
          BY <1>2, <2>3 DEF InterfaceInv, InterfaceTypeOK
    <3> QED BY <1>1, <1>4, <2>1, <2>2, <2>3, <3>1, Numbers, CompleteTail DEF InterfaceInv
  <2>4. CASE d # c
        BY <1>2, <1>4, <2>1, <2>2, <2>4 DEF InterfaceInv, InterfaceTypeOK
  <2> QED BY <2>3, <2>4
<1> QED BY <1>5, <1>6, <1>7 DEF InterfaceInv

\* A thread has an event for all that are subscribed now.
LEMMA NotifyKeeps ==
    ASSUME InterfaceInv, NEW t \in Threads, Notify(t)
    PROVE  InterfaceInv'
<1> USE DEF Notify
<1>1. /\ sent' \in [Threads -> 0 .. MaxEvents] /\ sent'[t] = sent[t] + 1
      /\ \A u \in Threads \ {t} : sent'[u] = sent[u] /\ notifying'[u] = notifying[u]
      /\ notifying' \in [Threads -> SUBSET subscriptions'] /\ notifying'[t] = subscriptions
      BY Bounds DEF InterfaceInv, InterfaceTypeOK
<1>2. InterfaceTypeOK'
      BY <1>1 DEF InterfaceInv, InterfaceTypeOK
<1>3. NoEventIsLost'
  <2> SUFFICES ASSUME NEW d \in subscriptions' \cap connected', NEW u \in Threads
               PROVE  Complete(queue'[d], seen'[d][u], LastFor(d, u)', u)
      BY CompleteThen
  <2>1. d \in subscriptions \cap connected /\ d \in Clients
        BY DEF InterfaceInv, InterfaceTypeOK
  <2>2. LastFor(d, u)' = LastFor(d, u)
    <3>1. CASE u = t
          BY <1>1, <2>1, <3>1, Numbers DEF InterfaceInv, LastFor
    <3>2. CASE u # t
          BY <1>1, <3>2 DEF LastFor
    <3> QED BY <3>1, <3>2
  <2> QED BY <2>1, <2>2, CompleteNow DEF InterfaceInv
<1> QED BY <1>2, <1>3 DEF InterfaceInv

\* An event goes to one client, or passes it over.
LEMMA SendKeeps ==
    ASSUME InterfaceInv, NEW t \in Threads, NEW c \in Clients, SendTo(t, c)
    PROVE  InterfaceInv'
<1> DEFINE e == [thread |-> t, number |-> sent[t]]
<1> USE DEF SendTo
<1>1. c \in notifying[t] /\ c \in subscriptions
      BY DEF InterfaceInv, InterfaceTypeOK
<1>2. e \in Event /\ e.thread = t /\ e.number = sent[t]
      BY DEF InterfaceInv, InterfaceTypeOK, Event
<1>3. notifying' \in [Threads -> SUBSET subscriptions']
      BY DEF InterfaceInv, InterfaceTypeOK
<1>4. /\ \A u \in Threads, d \in Clients : u # t \/ d # c => LastFor(d, u)' = LastFor(d, u)
      /\ LastFor(c, t) = sent[t] - 1 /\ LastFor(c, t)' = sent[t]
      BY <1>1 DEF InterfaceInv, InterfaceTypeOK, LastFor
<1>5. CASE c \notin connected /\ UNCHANGED queue
  <2>1. InterfaceTypeOK'
        BY <1>3, <1>5 DEF InterfaceInv, InterfaceTypeOK
  <2>2. NoEventIsLost'
    <3> SUFFICES ASSUME NEW d \in subscriptions' \cap connected', NEW u \in Threads
                 PROVE  Complete(queue'[d], seen'[d][u], LastFor(d, u)', u)
        BY CompleteThen
    <3>1. d \in subscriptions \cap connected /\ d # c /\ d \in Clients
          BY <1>5 DEF InterfaceInv, InterfaceTypeOK
    <3> QED BY <1>4, <1>5, <3>1, CompleteNow DEF InterfaceInv
  <2> QED BY <1>5, <2>1, <2>2 DEF InterfaceInv
<1>6. CASE c \in connected /\ Len(queue[c]) < Capacity /\ queue' = [queue EXCEPT ![c] = Append(@, e)]
  <2> HIDE DEF e
  <2>1. queue[c] \in Seq(Event) /\ Append(queue[c], e) \in Seq(Event) /\ Len(Append(queue[c], e)) = Len(queue[c]) + 1
        BY <1>2 DEF InterfaceInv, InterfaceTypeOK
  <2>2. /\ queue' \in [Clients -> Seq(Event)] /\ queue'[c] = Append(queue[c], e)
        /\ \A d \in Clients \ {c} : queue'[d] = queue[d]
        BY <1>6, <2>1 DEF InterfaceInv, InterfaceTypeOK
  <2>3. \A d \in Clients : Len(queue'[d]) <= Capacity
    <3>1. Len(queue[c]) \in Nat
          BY <2>1
    <3> QED BY <1>6, <2>1, <2>2, <3>1, Bounds DEF InterfaceInv, InterfaceTypeOK
  <2>4. InterfaceTypeOK'
        BY <1>3, <2>2, <2>3 DEF InterfaceInv, InterfaceTypeOK
  <2>5. NoEventIsLost'
    <3> SUFFICES ASSUME NEW d \in subscriptions' \cap connected', NEW u \in Threads
                 PROVE  Complete(queue'[d], seen'[d][u], LastFor(d, u)', u)
        BY CompleteThen
    <3>1. d \in subscriptions \cap connected /\ d \in Clients /\ seen' = seen
          BY DEF InterfaceInv, InterfaceTypeOK
    <3>2. Complete(queue[d], seen[d][u], LastFor(d, u), u)
          BY <3>1, CompleteNow DEF InterfaceInv
    <3>3. CASE d # c
          BY <1>4, <2>2, <3>1, <3>2, <3>3
    <3>4. CASE d = c
      <4>1. seen[d][u] \in Int /\ LastFor(d, u) \in Int /\ sent[t] \in Int
            BY <3>1, Numbers DEF InterfaceInv
      <4>2. e.thread = u => e.number = LastFor(d, u) + 1
            BY <1>2, <1>4, <3>4, <4>1
      <4>3. LastFor(d, u)' = IF e.thread = u THEN LastFor(d, u) + 1 ELSE LastFor(d, u)
            BY <1>2, <1>4, <3>1, <3>4, <4>1
      <4>4. Complete(Append(queue[c], e), seen[d][u], IF e.thread = u THEN LastFor(d, u) + 1 ELSE LastFor(d, u), u)
            BY <1>2, <2>1, <3>2, <3>4, <4>1, <4>2, CompleteAppend
      <4> QED BY <2>2, <3>1, <3>4, <4>3, <4>4
    <3> QED BY <3>3, <3>4
  <2>6. \A d \in Clients \ (subscriptions' \cap connected') : queue'[d] = <<>>
        BY <1>1, <1>6, <2>2 DEF InterfaceInv
  <2> QED BY <2>4, <2>5, <2>6 DEF InterfaceInv
<1> QED BY <1>5, <1>6

\* A server that is closed, or gone with its process, serves nobody.
LEMMA ClosedKeeps ==
    ASSUME InterfaceInv, connected' = {}, queue' = [c \in Clients |-> <<>>], UNCHANGED <<sent, seen>>,
           server' \in {"none", "closed"},
           \/ UNCHANGED <<subscriptions, notifying>>
           \/ subscriptions' = {} /\ notifying' = [t \in Threads |-> {}]
    PROVE  InterfaceInv'
<1>1. queue' \in [Clients -> Seq(Event)] /\ \A c \in Clients : Len(queue'[c]) <= Capacity
      BY Bounds
<1>2. subscriptions' \subseteq Clients /\ notifying' \in [Threads -> SUBSET subscriptions']
      BY DEF InterfaceInv, InterfaceTypeOK
<1>3. InterfaceTypeOK'
      BY <1>1, <1>2 DEF InterfaceInv, InterfaceTypeOK
<1>4. NoEventIsLost'
      BY DEF NoEventIsLost
<1> QED BY <1>3, <1>4 DEF InterfaceInv

-----------------------------------------------------------------------------
(* The process                                                             *)

\* The monitors only move with the machine, with the network and with the process.
LEMMA OfflineKept ==
    ASSUME OfflineInv, [Next]_vars
    PROVE  OfflineInv'
<1>1. CASE ProcessExits \/ Killed
  <2>1. OfflineFresh'
        BY <1>1 DEF ProcessExits, Killed, Gone, OfflineFresh, OfflineInv, OfflineTypeOK, Idle
  <2> QED BY <2>1, FreshKnowsThen
<1>2. CASE Spawn \/ MonitorAndMachine \/ Network
      BY <1>2, OfflineStepKnows DEF Spawn, MonitorAndMachine, Network
<1>3. CASE UNCHANGED offlineVars
      BY <1>3, OfflineUnchanged
<1>4. CASE Launch \/ StartManagementInterface \/ LoadSettings \/ Run \/ StartFails
      BY <1>3, <1>4 DEF Launch, StartManagementInterface, LoadSettings, Run, StartFails
<1>5. CASE ChangeSettings \/ Saves \/ RequestShutdown \/ EndLoop \/ UpdaterThreadEnds \/ InterfaceExited
      BY <1>3, <1>5 DEF ChangeSettings, Saves, RequestShutdown, EndLoop, UpdaterThreadEnds,
         InterfaceExited,
         KeepsRunning
<1>6. CASE RunCallbacks \/ DropListener \/ Return \/ RivalStep \/ Update \/ ClientsAndEvents
      BY <1>3, <1>6 DEF RunCallbacks, DropListener, Return, RivalStep, Update, ClientsAndEvents
<1>7. CASE StopControl \/ ReportPendingStop \/ StoreCleanShutdown \/ TriggerShutdown
      BY <1>3, <1>7 DEF StopControl, ReportPendingStop, StoreCleanShutdown, TriggerShutdown,
         ServiceUnchanged
<1>8. CASE UNCHANGED vars
      BY <1>3, <1>8 DEF vars
<1> QED BY <1>1, <1>2, <1>4, <1>5, <1>6, <1>7, <1>8 DEF Next

\* The platform stays.
LEMMA PlatformStays ==
    ASSUME [Next]_vars
    PROVE  platform' = platform
<1>1. CASE ProcessExits \/ Killed
      BY <1>1 DEF ProcessExits, Killed, Gone
<1>2. CASE Spawn \/ MonitorAndMachine \/ Network
  <2>1. CASE SpawnStep \/ MachineLooks \/ HandleIsOffline \/ PrimaryInterfaceChange \/ ConnectivityCallback
             \/ ResumeReported \/ NetworkStep \/ NetlinkFails
        BY <2>1 DEF SpawnStep, BindSocket, RegisterKeys, StartListener,
           ActivateConnectivityMonitor, MachineLooks,
           HandleIsOffline, PrimaryInterfaceChange, ConnectivityCallback, ResumeReported,
              NetworkStep,
           NetworkChanges, Suspend, Resume, NetlinkFails
  <2>2. CASE \E who \in Lookers : LookAtLinks(who) \/ LookAtAddresses(who) \/ LookFails(who)
        BY <2>2 DEF LookAtLinks, LookAtAddresses, LookFails
  <2> QED BY <1>2, <2>1, <2>2 DEF Spawn, MonitorAndMachine, Network, OfflineStep, OfflineFault
<1>3. CASE UNCHANGED offlineVars
      BY <1>3 DEF offlineVars
<1>4. CASE Launch \/ StartManagementInterface \/ LoadSettings \/ Run \/ StartFails
      BY <1>3, <1>4 DEF Launch, StartManagementInterface, LoadSettings, Run, StartFails
<1>5. CASE ChangeSettings \/ Saves \/ RequestShutdown \/ EndLoop \/ UpdaterThreadEnds \/ InterfaceExited
      BY <1>3, <1>5 DEF ChangeSettings, Saves, RequestShutdown, EndLoop, UpdaterThreadEnds,
         InterfaceExited,
         KeepsRunning
<1>6. CASE RunCallbacks \/ DropListener \/ Return \/ RivalStep \/ Update \/ ClientsAndEvents
      BY <1>3, <1>6 DEF RunCallbacks, DropListener, Return, RivalStep, Update, ClientsAndEvents
<1>7. CASE StopControl \/ ReportPendingStop \/ StoreCleanShutdown \/ TriggerShutdown
      BY <1>3, <1>7 DEF StopControl, ReportPendingStop, StoreCleanShutdown, TriggerShutdown,
         ServiceUnchanged
<1>8. CASE UNCHANGED vars
      BY <1>3, <1>8 DEF vars
<1> QED BY <1>1, <1>2, <1>4, <1>5, <1>6, <1>7, <1>8 DEF Next

\* The settings are loaded at the start, saved while the daemon runs, and left to the next start.
LEMMA SettingsKept ==
    ASSUME SettingsInv, LifeInv, [Next]_vars
    PROVE  SettingsInv'
<1>0. platform' = platform
      BY PlatformStays
<1>1. CASE ProcessExits \/ Killed
      BY <1>0, <1>1, KilledKeeps DEF ProcessExits, Killed, Gone
<1>2. CASE LoadSettings
  <2>1. saving = "no"
        BY <1>2 DEF LoadSettings, LifeInv, PhaseInv
  <2> QED BY <1>0, <1>2, <2>1, LoadKeeps DEF LoadSettings, IsService
<1>3. CASE ChangeSettings
      BY <1>0, <1>3, RequestKeeps DEF ChangeSettings
<1>4. CASE Saves
      BY <1>0, <1>4, SaveKeeps DEF Saves, KeepsRunning
<1>5. CASE RunCallbacks
  <2>1. CASE Answer
        BY <1>0, <2>1, AnswerKeeps
  <2>2. CASE UNCHANGED settingsVars
        BY <1>0, <1>5, <2>2, SettingsUnchanged DEF RunCallbacks
  <2> QED BY <1>5, <2>1, <2>2 DEF RunCallbacks
<1>6. CASE Update
      BY <1>0, <1>6, UpdateKeeps DEF Update, IsService, processVars
<1>7. CASE /\ UNCHANGED settingsVars
           /\ phase' \in {"loaded", "running"} => phase \in {"loaded", "running"}
      BY <1>0, <1>7, SettingsUnchanged
<1>8. CASE Launch \/ StartManagementInterface \/ Spawn \/ Run \/ StartFails
      BY <1>7, <1>8 DEF Launch, StartManagementInterface, Spawn, Run, StartFails, processVars
<1>9. CASE RequestShutdown \/ EndLoop \/ UpdaterThreadEnds \/ InterfaceExited \/ DropListener \/ Return
      BY <1>7, <1>9 DEF RequestShutdown, EndLoop, UpdaterThreadEnds, InterfaceExited, DropListener,
         Return,
         KeepsRunning, processVars
<1>10. CASE StopControl \/ ReportPendingStop \/ StoreCleanShutdown \/ TriggerShutdown \/ RivalStep
      BY <1>7, <1>10 DEF StopControl, ReportPendingStop, StoreCleanShutdown, TriggerShutdown,
         ServiceUnchanged,
         RivalStep
<1>11. CASE Network \/ MonitorAndMachine \/ ClientsAndEvents \/ UNCHANGED vars
      BY <1>7, <1>11 DEF Network, MonitorAndMachine, ClientsAndEvents, vars, processVars
<1> QED BY <1>1, <1>2, <1>3, <1>4, <1>5, <1>6, <1>8, <1>9, <1>10, <1>11 DEF Next

\* Clients are served until the server is closed.
LEMMA InterfaceKept ==
    ASSUME InterfaceInv, [Next]_vars
    PROVE  InterfaceInv'
<1>1. CASE ProcessExits \/ Killed
      BY <1>1, ClosedKeeps DEF ProcessExits, Killed, Gone
<1>2. CASE CloseServer
      BY <1>2, ClosedKeeps DEF CloseServer
<1>3. CASE UNCHANGED interfaceVars
      BY <1>3, InterfaceUnchanged
<1>4. CASE StartManagementInterface
      BY <1>4 DEF StartManagementInterface, InterfaceInv, InterfaceTypeOK, NoEventIsLost, LastFor
<1>5. CASE StartFails \/ UpdaterThreadEnds \/ DropListener
      BY <1>2, <1>3, <1>5 DEF StartFails, UpdaterThreadEnds, DropListener
<1>6. CASE ClientsAndEvents
      BY <1>6, ConnectionKeeps, SubscribeKeeps, ReadKeeps, SendKeeps, NotifyKeeps
         DEF ClientsAndEvents, ClientStep, Delivery
<1>7. CASE Launch \/ LoadSettings \/ Spawn \/ Run \/ ChangeSettings \/ Saves \/ RequestShutdown
      BY <1>3, <1>7 DEF Launch, LoadSettings, Spawn, Run, ChangeSettings, Saves, RequestShutdown,
         KeepsRunning
<1>8. CASE EndLoop \/ InterfaceExited \/ RunCallbacks \/ Return \/ RivalStep
      BY <1>3, <1>8 DEF EndLoop, InterfaceExited, RunCallbacks, Return, RivalStep
<1>9. CASE StopControl \/ ReportPendingStop \/ StoreCleanShutdown \/ TriggerShutdown
      BY <1>3, <1>9 DEF StopControl, ReportPendingStop, StoreCleanShutdown, TriggerShutdown,
         ServiceUnchanged
<1>10. CASE Network \/ MonitorAndMachine \/ Update \/ UNCHANGED vars
      BY <1>3, <1>10 DEF Network, MonitorAndMachine, Update, vars
<1> QED BY <1>1, <1>4, <1>5, <1>6, <1>7, <1>8, <1>9, <1>10 DEF Next

\* Nothing of what is said about the life of the process changes.
LEMMA LifeUnchanged ==
    ASSUME LifeInv, UNCHANGED <<processVars, serviceVars, server, saving, begun>>
    PROVE  LifeInv'
BY DEF LifeInv, OwnTypeOK, RivalInv, StopInv, PhaseInv, processVars, serviceVars

\* The steps of a life come in their order.
LEMMA LifeKept ==
    ASSUME LifeInv, [Next]_vars
    PROVE  LifeInv'
<1> USE DEF LifeInv, OwnTypeOK, RivalInv, StopInv, PhaseInv
<1>1. CASE Launch
      BY <1>1 DEF Launch, is_another_instance_running, processVars, serviceVars, offlineVars,
         machineVars, settingsVars, interfaceVars
<1>2. CASE StartManagementInterface
      BY <1>2 DEF StartManagementInterface, processVars, serviceVars, offlineVars, machineVars,
         settingsVars, interfaceVars
<1>3. CASE LoadSettings
      BY <1>3 DEF LoadSettings, Load, StartsSaving, processVars, serviceVars, offlineVars,
         machineVars, settingsVars, interfaceVars
<1>4. CASE Spawn
      BY <1>4 DEF Spawn, settingsVars, interfaceVars, processVars, serviceVars
<1>5. CASE Run
      BY <1>5 DEF Run, processVars, serviceVars, offlineVars, machineVars, settingsVars,
         interfaceVars
<1>6. CASE StartFails
      BY <1>6 DEF StartFails, CloseServer, processVars, serviceVars, offlineVars, machineVars,
         settingsVars, interfaceVars
<1>7. CASE ChangeSettings
      BY <1>7 DEF ChangeSettings, KeepsRunning, Change, Reset, processVars, serviceVars,
         offlineVars, machineVars, settingsVars, interfaceVars
<1>8. CASE Saves
      BY <1>8 DEF Saves, KeepsRunning, SaveStep, SaveCreates, SaveWrites, SaveFails, Answer,
         processVars, serviceVars, offlineVars, machineVars, settingsVars, interfaceVars
<1>9. CASE RequestShutdown
      BY <1>9 DEF RequestShutdown, KeepsRunning, processVars, serviceVars, offlineVars,
         machineVars, settingsVars, interfaceVars
<1>10. CASE EndLoop
      BY <1>10 DEF EndLoop, processVars, serviceVars, offlineVars, machineVars, settingsVars,
         interfaceVars
<1>11. CASE UpdaterThreadEnds
      BY <1>11 DEF UpdaterThreadEnds, CloseServer, processVars, serviceVars, offlineVars,
         machineVars, settingsVars, interfaceVars
<1>12. CASE InterfaceExited
      BY <1>12 DEF InterfaceExited, processVars, serviceVars, offlineVars, machineVars,
         settingsVars, interfaceVars
<1>13. CASE RunCallbacks
      BY <1>13 DEF RunCallbacks, Answer, processVars, serviceVars, offlineVars, machineVars,
         settingsVars, interfaceVars
<1>14. CASE DropListener
      BY <1>14 DEF DropListener, CloseServer, processVars, serviceVars, offlineVars, machineVars,
         settingsVars, interfaceVars
<1>15. CASE Return
      BY <1>15 DEF Return, processVars, serviceVars, offlineVars, machineVars, settingsVars,
         interfaceVars
<1>16. CASE ProcessExits
      BY <1>16 DEF ProcessExits, Gone, KilledSaving, Up, processVars, serviceVars, offlineVars,
         machineVars, settingsVars, interfaceVars
<1>17. CASE Killed
      BY <1>17 DEF Killed, Gone, KilledSaving, Up, processVars, serviceVars, offlineVars,
         machineVars, settingsVars, interfaceVars
<1>18. CASE StopControl
      BY <1>18 DEF StopControl, ServiceUnchanged, accepted_controls_by_state, processVars,
         serviceVars, offlineVars, machineVars, settingsVars, interfaceVars
<1>19. CASE ReportPendingStop
      BY <1>19 DEF ReportPendingStop, ServiceUnchanged, processVars, serviceVars, offlineVars,
         machineVars, settingsVars, interfaceVars
<1>20. CASE StoreCleanShutdown
      BY <1>20 DEF StoreCleanShutdown, ServiceUnchanged, processVars, serviceVars, offlineVars,
         machineVars, settingsVars, interfaceVars
<1>21. CASE TriggerShutdown
      BY <1>21 DEF TriggerShutdown, ServiceUnchanged, processVars, serviceVars, offlineVars,
         machineVars, settingsVars, interfaceVars
<1>22. CASE RivalStep
  <2>1. /\ UNCHANGED <<phase, ending, exit, serviceVars, server, saving, begun>>
        /\ \/ rival = "off" /\ server # "open" /\ rival' = "checked" /\ overlap' = (phase = "checked")
           \/ rival # "off" /\ rival' \in {"off", "serving"} /\ overlap' = overlap
        BY <1>22 DEF RivalStep, is_another_instance_running, offlineVars, machineVars,
           settingsVars, interfaceVars
  <2>2. overlap' \in BOOLEAN
        BY <2>1
  <2> QED BY <2>1, <2>2 DEF serviceVars
<1>23. CASE Network
      BY <1>23 DEF Network, settingsVars, interfaceVars, processVars, serviceVars
<1>24. CASE MonitorAndMachine
      BY <1>24 DEF MonitorAndMachine, settingsVars, interfaceVars, processVars, serviceVars
<1>25. CASE Update
      BY <1>25 DEF Update, WindowsUpdate, processVars, serviceVars, offlineVars, machineVars,
         settingsVars, interfaceVars
<1>26. CASE ClientsAndEvents
  <2>1. ClientStep => server' = server
        BY DEF ClientStep, Connect, daemon_event_subscribe, daemon_event_unsubscribe, ClientGoes
  <2>2. Delivery => server' = server
        BY DEF Delivery, ClientReads, SendTo
  <2>3. \A t \in Threads : Notify(t) => server' = server
        BY DEF Notify
  <2>4. UNCHANGED <<processVars, serviceVars, server, saving, begun>>
        BY <1>26, <2>1, <2>2, <2>3 DEF ClientsAndEvents, offlineVars, machineVars, settingsVars
  <2> QED BY <2>4, LifeUnchanged
<1>27. CASE UNCHANGED vars
      BY <1>27, LifeUnchanged DEF vars, offlineVars, machineVars, settingsVars, interfaceVars
<1> QED BY <1>1, <1>2, <1>3, <1>4, <1>5, <1>6, <1>7, <1>8, <1>9, <1>10, <1>11, <1>12, <1>13,
           <1>14, <1>15, <1>16, <1>17, <1>18, <1>19, <1>20, <1>21, <1>22, <1>23, <1>24, <1>25, <1>26, <1>27 DEF Next

\* What is so at the beginning.
LEMMA ProcessBegins == Init => ProcessInv
<1> SUFFICES ASSUME Init PROVE ProcessInv
    OBVIOUS
<1>1. OfflineInv
  <2>1. OfflineFresh
        BY Bounds DEF Init, OfflineInit, OfflineFresh
  <2> QED BY <2>1, FreshKnows
<1>2. SettingsInv
  <2>1. file \in Files /\ backup = Absent
        BY FileContents DEF Init, SettingsInit, Files
  <2>2. SettingsTypeOK
        BY <2>1, FileContents DEF Init, SettingsInit, SettingsTypeOK
  <2> QED BY <2>1, <2>2, FileContents DEF Init, SettingsInit, SettingsInv, Kept
<1>3. InterfaceInv
  <2>1. InterfaceTypeOK
        BY Bounds DEF Init, InterfaceInit, InterfaceTypeOK, Zero
  <2> QED BY <2>1 DEF Init, InterfaceInit, InterfaceInv, NoEventIsLost
<1>4. LifeInv
      BY DEF Init, OfflineInit, SettingsInit, InterfaceInit, LifeInv, OwnTypeOK, RivalInv, StopInv,
         PhaseInv
<1> QED BY <1>1, <1>2, <1>3, <1>4 DEF ProcessInv

\* The invariant holds in every state of every life.
LEMMA ProcessInvHolds == Spec => []ProcessInv
<1>1. ProcessInv /\ [Next]_vars => ProcessInv'
      BY OfflineKept, SettingsKept, InterfaceKept, LifeKept DEF ProcessInv
<1> QED BY <1>1, ProcessBegins, PTL DEF Spec

(***************************************************************************)
(* Whenever nothing is under way, the machine goes by whether the device   *)
(* is offline: on Linux, macOS and Windows, however the network, the two    *)
(* reads of a look and the start interleave (talpid-core/src/offline).      *)
(***************************************************************************)
THEOREM NetworkIsKnownHolds == Spec => []NetworkIsKnown
<1>1. ProcessInv => NetworkIsKnown
      BY KnownWhenSettled DEF ProcessInv
<1> QED BY <1>1, ProcessInvHolds, PTL

(***************************************************************************)
(* The variables have their types, two daemons only listen at once if both *)
(* looked first, and a client that stays subscribed gets every event of     *)
(* each thread in order (management_interface.rs, rpc_uniqueness_check.rs). *)
(***************************************************************************)
THEOREM ClientsAreServedHolds == Spec => []ClientsAreServed
<1>1. ProcessInv => ClientsAreServed
      BY DEF ProcessInv, OfflineInv, SettingsInv, InterfaceInv, LifeInv, RivalInv, PhaseInv,
         ClientsAreServed,
         ProcessTypeOK, OneDaemon
<1> QED BY <1>1, ProcessInvHolds, PTL

(***************************************************************************)
(* A start finds the settings that were promised or asked for last, over    *)
(* kills, failing saves, resets, the change of format and Windows updates   *)
(* (settings/mod.rs, mullvad-daemon/src/settings.rs).                       *)
(***************************************************************************)
THEOREM SettingsSurviveHolds == Spec => SettingsSurvive
<1>1. ASSUME ProcessInv, [Next]_vars
      PROVE  phase = "serving" /\ phase' = "loaded" /\ ~cut' => settings' \in {acked, asked}
  <2> SUFFICES ASSUME phase = "serving", phase' = "loaded", ~cut' PROVE settings' \in {acked, asked}
      OBVIOUS
  <2>1. LoadSettings
        BY <1>1 DEF Next, Launch, StartManagementInterface, Spawn, Run, StartFails, ChangeSettings,
           Saves,
           RequestShutdown, EndLoop, UpdaterThreadEnds, InterfaceExited, RunCallbacks,
              DropListener, Return,
           ProcessExits, Killed, Gone, StopControl, ReportPendingStop, StoreCleanShutdown,
              TriggerShutdown,
           RivalStep, Network, MonitorAndMachine, Update, ClientsAndEvents, KeepsRunning,
              ServiceUnchanged,
           processVars, vars
  <2>2. saving = "no"
        BY <1>1 DEF ProcessInv, LifeInv, PhaseInv
  <2> QED BY <1>1, <2>1, <2>2, PlatformStays, LoadKeeps DEF LoadSettings, IsService, ProcessInv
<1> QED BY <1>1, ProcessInvHolds, PTL DEF Spec, SettingsSurvive

(***************************************************************************)
(* A service whose loop ended because the system asked for it reports that  *)
(* it ended well, and one nobody asked to stop never does                   *)
(* (system_service.rs).                                                     *)
(***************************************************************************)
THEOREM StopIsCleanHolds == Spec => StopIsClean
<1>1. ASSUME ProcessInv, [Next]_vars
      PROVE  phase # "stopped" /\ phase' = "stopped" /\ IsService =>
                /\ phase = "finalized" /\ ending = "trigger" => exit' = "ok"
                /\ exit' = "ok" => controls = "taken"
  <2> SUFFICES ASSUME phase # "stopped", phase' = "stopped", IsService
               PROVE  /\ phase = "finalized" /\ ending = "trigger" => exit' = "ok"
                      /\ exit' = "ok" => controls = "taken"
      OBVIOUS
  <2>1. Return
        BY <1>1 DEF Next, Launch, StartManagementInterface, LoadSettings, Spawn, Run, StartFails,
           ChangeSettings,
           Saves, RequestShutdown, EndLoop, UpdaterThreadEnds, InterfaceExited, RunCallbacks,
              DropListener,
           ProcessExits, Killed, Gone, StopControl, ReportPendingStop, StoreCleanShutdown,
              TriggerShutdown,
           RivalStep, Network, MonitorAndMachine, Update, ClientsAndEvents, KeepsRunning,
              ServiceUnchanged,
           processVars, vars
  <2> QED BY <1>1, <2>1 DEF Return, EndsWell, ProcessInv, LifeInv, StopInv
<1> QED BY <1>1, ProcessInvHolds, PTL DEF Spec, StopIsClean
=============================================================================
