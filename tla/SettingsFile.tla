----------------------------- MODULE SettingsFile -----------------------------
(***************************************************************************)
(* The settings file: loading it, migrating it from the format before and     *)
(* from the place a Windows update moves it to, saving and resetting, with    *)
(* writes that fail or are cut short.                                        *)
(*                                                                         *)
(* Settings are the account and the tunnel protocol, as many as it takes to   *)
(* tell what is kept.                                                       *)
(***************************************************************************)
EXTENDS Naturals

CONSTANT Accounts

VARIABLES
    file,               \* settings.json: its format, "absent" or "torn", and the settings in it
    backup,             \* the same for the file in windows.old
    settings,           \* the daemon's copy
    saving,             \* how far a save is: "no", "create", "write", "answer"
    purpose,            \* what it is for: "migration", "request", "reset"
    acked,              \* history: what the last answer to a user promised to be saved, or what
                        \* the daemon started with
    asked,              \* history: what was asked for last
    cut                 \* history: the file was left torn, its copy failed, or it was removed
                        \* while there was an old copy

fileVars     == <<file, backup>>
settingsVars == <<file, backup, settings, saving, purpose, acked, asked, cut>>

NoAccount == "none"
Values  == [account : Accounts \cup {NoAccount}, tunnel_protocol : {"any", "openvpn", "wireguard"}]
Default == [account |-> NoAccount, tunnel_protocol |-> "any"]

Absent  == [format |-> "absent", value |-> Default]
Torn    == [format |-> "torn", value |-> Default]
V2(v)   == [format |-> "v2", value |-> v]
Files   == [format : {"absent", "torn", "v1", "v2"}, value : Values]

\* v1::Migration: a tunnel constrained to OpenVPN keeps its constraints, but any tunnel
\* protocol is allowed then.
migrate(v) == [v EXCEPT !.tunnel_protocol = IF @ = "wireguard" THEN "wireguard" ELSE "any"]

\* Settings::load, but for saving what was migrated.  What neither format reads is taken for
\* nothing: the defaults.
parse_settings(f) ==
    CASE f.format = "v2" -> f.value
      [] f.format = "v1" -> migrate(f.value)
      [] OTHER -> Default

SettingsInit ==
    /\ file \in {Absent} \cup {[format |-> f, value |-> v] : f \in {"v1", "v2"}, v \in Values}
    /\ backup = Absent
    /\ settings = Default /\ saving = "no" /\ purpose = "request"
    /\ acked = parse_settings(file) /\ asked = acked /\ cut = FALSE

\* A Windows update moves the directory of the settings away while the daemon is down.
WindowsUpdate ==
    /\ file.format # "absent" /\ backup' = file /\ file' = Absent
    /\ UNCHANGED <<settings, saving, purpose, acked, asked, cut>>

-----------------------------------------------------------------------------
(* Loading                                                                 *)

\* Mutant: what the migration brought is not loaded.
LoadsOnce(f) == Default

\* settings::load, after migrate_after_windows_update.
LoadsAgain(f) == parse_settings(f)

StartsSaving(f) == /\ saving' = IF f.format = "v1" THEN "create" ELSE "no"
                   /\ purpose' = "migration"

\* settings::load.  The file in windows.old is copied, and then removed if that works.
Load(windows) ==
    /\ \/ /\ file.format # "absent" \/ ~windows \/ backup.format = "absent"
          /\ settings' = parse_settings(file) /\ StartsSaving(file)
          /\ UNCHANGED <<fileVars, cut>>
       \/ /\ windows /\ file.format = "absent" /\ backup.format # "absent"
          /\ \/ /\ file' = backup /\ backup' \in {backup, Absent}
                /\ settings' = LoadsAgain(backup) /\ StartsSaving(backup) /\ UNCHANGED cut
             \/ \* the copy fails, and may leave a part of the file
                /\ file' \in {Absent, Torn} /\ UNCHANGED backup
                /\ settings' = Default /\ StartsSaving(Absent) /\ cut' = TRUE
    /\ acked' = settings' /\ asked' = settings'

-----------------------------------------------------------------------------
(* Saving                                                                  *)

\* on_set_account and the other handlers that change a setting.
Change ==
    /\ saving = "no"
    /\ \E v \in Values \ {settings} :
          /\ v.account = settings.account \/ v.tunnel_protocol = settings.tunnel_protocol
          /\ settings' = v /\ asked' = v
    /\ saving' = "create" /\ purpose' = "request"
    /\ UNCHANGED <<fileVars, acked, cut>>

Reset ==
    /\ saving = "no" /\ saving' = "create" /\ purpose' = "reset"
    /\ settings' = Default /\ asked' = Default
    /\ UNCHANGED <<fileVars, acked, cut>>

\* Settings::save empties the file ...
SaveCreates ==
    /\ saving = "create" /\ saving' = "write" /\ file' = Torn
    /\ UNCHANGED <<backup, settings, purpose, acked, asked, cut>>

\* ... and writes it.
SaveWrites ==
    /\ saving = "write" /\ saving' = IF purpose = "migration" THEN "no" ELSE "answer"
    /\ file' = V2(settings) /\ cut' = FALSE
    /\ UNCHANGED <<backup, settings, purpose, acked, asked>>

\* Only then a request is answered, and a reset when the daemon shuts down.
Answer ==
    /\ saving = "answer" /\ saving' = "no" /\ acked' = settings
    /\ UNCHANGED <<fileVars, settings, purpose, asked, cut>>

\* Neither step is sure to work, and then a request is not answered.  A reset removes the
\* file instead, if it can.
SaveFails ==
    /\ saving \in {"create", "write"}
    /\ \/ /\ purpose = "reset" /\ file' = Absent /\ saving' = "answer"
          /\ cut' = (backup.format # "absent")
       \/ saving' = "no" /\ UNCHANGED file /\ cut' = (cut \/ saving = "write")
    /\ UNCHANGED <<backup, settings, purpose, acked, asked>>

\* The daemon is killed.
KilledSaving ==
    /\ saving' = "no" /\ cut' = (cut \/ saving = "write")
    /\ UNCHANGED <<file, backup, settings, purpose, acked, asked>>

SaveStep == SaveCreates \/ SaveWrites \/ SaveFails \/ (purpose = "request" /\ Answer)

-----------------------------------------------------------------------------
SettingsTypeOK ==
    /\ file \in Files /\ backup \in Files /\ cut \in BOOLEAN
    /\ settings \in Values /\ acked \in Values /\ asked \in Values
    /\ saving \in {"no", "create", "write", "answer"} /\ purpose \in {"migration", "request", "reset"}
=============================================================================
