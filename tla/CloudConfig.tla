---------------------------- MODULE CloudConfig ----------------------------
(***************************************************************************)
(* The tray's config.toml and everybody who rewrites it: the settings pane *)
(* through save_config (commands.rs) and its cloud-sync transition         *)
(* (cloud_sync.rs), the bulk lane's preferences pull (sync.rs), the pull   *)
(* on launch and focus (main.rs), and pairing.  The server keeps the       *)
(* account's preferences and, per device, whether it may sync              *)
(* (preferences_routes.rs).                                                *)
(*                                                                         *)
(* A config is the synced settings (theme, for all of them), the sync      *)
(* toggle, and whether a handle is paired, a field no server copy carries. *)
(* Load and save with no await between them are one step.                  *)
(***************************************************************************)
EXTENDS Integers

CONSTANTS Themes, NoTheme, MaxSaves, MaxEdits, MaxPulls, MaxCfgFaults

Config == [theme : Themes, sync : BOOLEAN, paired : BOOLEAN]
NoPull == [at |-> "idle", reply |-> NoTheme, cfg |-> [theme |-> NoTheme, sync |-> FALSE, paired |-> FALSE]]

VARIABLES file,    \* config.toml
          ui,      \* the config the settings pane shows
          remote,  \* the account's stored preferences, NoTheme
          gate,    \* sync_enabled of this device
          saver,   \* the save_config in flight: its step, its config, the server's answer
          worker,  \* the bulk lane's pull
          lane,    \* the running lane's sync_with_cloud, captured when it was spawned
          focus,   \* the pull on launch or focus
          saves, edits, pulls, cfgFaults,
          seen,    \* saves made when the bulk lane's pull read the file
          overlap, \* history: another writer's turn fell inside a save or a focus pull
          chosen   \* history: the toggle as the user last saved it, or refused by the server since

cfgVars == <<file, ui, remote, gate, saver, worker, lane, focus, saves, edits, pulls, cfgFaults,
             seen, overlap, chosen>>

CfgInit ==
    /\ \E t \in Themes : file = [theme |-> t, sync |-> FALSE, paired |-> FALSE]
    /\ ui = file /\ remote \in Themes \cup {NoTheme} /\ gate = FALSE
    /\ saver = NoPull /\ worker = NoPull /\ lane = FALSE /\ focus = NoPull
    /\ saves = 0 /\ edits = 0 /\ pulls = 0 /\ cfgFaults = 0 /\ seen = 0
    /\ overlap = FALSE /\ chosen = "off"

CfgFault == cfgFaults < MaxCfgFaults /\ cfgFaults' = cfgFaults + 1
Busy == saver # NoPull \/ focus # NoPull
Step(p, at) == [p EXCEPT !.at = at]

\* respawn: the lane's pull is aborted where it waits; the new lane captures
\* the toggle on disk, and needs a paired handle to run at all.
\* Mutant: the old lane is left to finish.
respawn_beside(cfg) == UNCHANGED worker /\ lane' = (cfg.sync /\ cfg.paired)
respawn(cfg) == worker' = NoPull /\ lane' = (cfg.sync /\ cfg.paired)

\* config-changed, the event the pane re-renders on.
Changed(cfg) == file' = cfg /\ ui' = cfg

-----------------------------------------------------------------------------
(* save_config and handle_cloud_sync_transition                            *)

\* Without a device token there is no transition.
Transition(prev, cfg) ==
    CASE ~cfg.paired -> "shown"
      [] ~prev.sync /\ cfg.sync -> "enable"
      [] prev.sync /\ ~cfg.sync -> "disable"
      [] prev.sync /\ cfg.sync -> "put"
      [] OTHER -> "shown"

save_config(theme, sync) ==
    LET cfg == [ui EXCEPT !.theme = theme, !.sync = sync] IN
    /\ saver = NoPull /\ saves < MaxSaves /\ saves' = saves + 1
    /\ cfg # ui
    /\ file' = cfg /\ respawn(cfg)
    /\ saver' = [at |-> Transition(file, cfg), reply |-> NoTheme, cfg |-> cfg]
    /\ overlap' = (overlap \/ focus # NoPull) /\ chosen' = (IF sync THEN "on" ELSE "off")
    /\ UNCHANGED <<ui, remote, gate, focus, edits, pulls, cfgFaults, seen>>

\* set_device_sync; on the way in a failure is only logged.
SetDeviceSync ==
    /\ saver.at \in {"enable", "disable"}
    /\ saver' = Step(saver, IF saver.at = "enable" THEN "get" ELSE "shown")
    /\ \/ gate' = (saver.at = "enable") /\ UNCHANGED cfgFaults
       \/ CfgFault /\ UNCHANGED gate
    /\ UNCHANGED <<file, ui, remote, worker, lane, focus, saves, edits, pulls, seen, overlap, chosen>>

\* The answer to the opt-in's GET: refused, empty, or something to adopt.
GetOnOptIn ==
    /\ saver.at = "get"
    /\ \/ saver' = [saver EXCEPT !.at = CASE ~gate -> "revoked"
                                          [] gate /\ remote = NoTheme -> "put"
                                          [] gate /\ remote = saver.cfg.theme -> "shown"
                                          [] OTHER -> "adopted",
                                 !.reply = remote]
          /\ UNCHANGED cfgFaults
       \/ CfgFault /\ saver' = Step(saver, "shown")
    /\ UNCHANGED <<file, ui, remote, gate, worker, lane, focus, saves, edits, pulls, seen, overlap, chosen>>

\* put_preferences, seeding or writing through.
PutPreferences ==
    /\ saver.at = "put"
    /\ \/ /\ remote' = IF gate THEN saver.cfg.theme ELSE remote
          /\ saver' = Step(saver, IF gate THEN "shown" ELSE "revoked")
          /\ UNCHANGED cfgFaults
       \/ CfgFault /\ saver' = Step(saver, "shown") /\ UNCHANGED remote
    /\ UNCHANGED <<file, ui, gate, worker, lane, focus, saves, edits, pulls, seen, overlap, chosen>>

\* The config of the save, with the server's settings or with sync off,
\* written over whatever is on disk by now.
Repersist ==
    /\ saver.at \in {"adopted", "revoked"}
    /\ Changed(IF saver.at = "adopted" THEN [saver.cfg EXCEPT !.theme = saver.reply]
                                       ELSE [saver.cfg EXCEPT !.sync = FALSE])
    /\ chosen' = IF saver.at = "revoked" THEN "refused" ELSE chosen
    /\ overlap' = (overlap \/ focus # NoPull)
    /\ saver' = Step(saver, "reshown")
    /\ UNCHANGED <<remote, gate, worker, lane, focus, saves, edits, pulls, cfgFaults, seen>>

\* onSaveConfig: once the command has returned, the pane takes what it sent;
\* an event of the second save reaches it before or after that.
SaveReturns ==
    /\ saver.at \in {"shown", "reshown"} /\ saver' = NoPull
    /\ ui' = saver.cfg \/ (saver.at = "reshown" /\ UNCHANGED ui)
    /\ UNCHANGED <<file, remote, gate, worker, lane, focus, saves, edits, pulls, cfgFaults, seen, overlap, chosen>>

-----------------------------------------------------------------------------
(* The pulls.                                                              *)

\* build_piggyback_input: the file as it is, with sync taken to be on.
BulkLoads ==
    /\ lane /\ worker = NoPull /\ worker' = [at |-> "get", reply |-> NoTheme, cfg |-> [file EXCEPT !.sync = TRUE]]
    /\ seen' = saves
    /\ UNCHANGED <<file, ui, remote, gate, saver, lane, focus, saves, edits, pulls, cfgFaults, overlap, chosen>>

FocusLoads ==
    /\ focus = NoPull /\ pulls < MaxPulls /\ pulls' = pulls + 1
    /\ file.sync /\ file.paired /\ focus' = [at |-> "get", reply |-> NoTheme, cfg |-> file]
    /\ overlap' = (overlap \/ saver # NoPull)
    /\ UNCHANGED <<file, ui, remote, gate, saver, worker, lane, saves, edits, cfgFaults, seen, chosen>>

\* get_preferences; a failure reads as unchanged.
Answer(p) == [p EXCEPT !.at = IF gate THEN "got" ELSE "refused", !.reply = remote]
BulkGets ==
    /\ worker.at = "get" /\ worker' = Answer(worker)
    /\ UNCHANGED <<file, ui, remote, gate, saver, lane, focus, saves, edits, pulls, cfgFaults, seen, overlap, chosen>>

FocusGets ==
    /\ focus.at = "get"
    /\ \/ focus' = Answer(focus) /\ UNCHANGED cfgFaults
       \/ CfgFault /\ focus' = NoPull
    /\ UNCHANGED <<file, ui, remote, gate, saver, worker, lane, saves, edits, pulls, seen, overlap, chosen>>

\* apply_remote_prefs onto the config that was read, saved when it changed it.
Differs(p) == p.reply # NoTheme /\ p.reply # p.cfg.theme
Applied(p) == [p.cfg EXCEPT !.theme = p.reply]

BulkPersists ==
    /\ worker.at = "got" /\ worker' = NoPull
    /\ IF Differs(worker) THEN Changed(Applied(worker)) ELSE UNCHANGED <<file, ui>>
    /\ overlap' = (overlap \/ (Differs(worker) /\ Busy))
    /\ UNCHANGED <<remote, gate, saver, lane, focus, saves, edits, pulls, cfgFaults, seen, chosen>>

FocusPersists ==
    /\ focus.at = "got" /\ focus' = NoPull
    /\ IF Differs(focus) THEN Changed(Applied(focus)) ELSE UNCHANGED <<file, ui>>
    /\ UNCHANGED <<remote, gate, saver, worker, lane, saves, edits, pulls, cfgFaults, seen, overlap, chosen>>

\* Refused: the toggle is put off, by the bulk lane on the file as it is, by
\* the focus pull on the file as it was.  The lane is not respawned.
BulkRefused ==
    /\ worker.at = "refused" /\ worker' = NoPull /\ Changed([file EXCEPT !.sync = FALSE])
    /\ chosen' = "refused" /\ overlap' = (overlap \/ Busy)
    /\ UNCHANGED <<remote, gate, saver, lane, focus, saves, edits, pulls, cfgFaults, seen>>

FocusRefused ==
    /\ focus.at = "refused" /\ focus' = NoPull /\ Changed([focus.cfg EXCEPT !.sync = FALSE])
    /\ chosen' = "refused"
    /\ UNCHANGED <<remote, gate, saver, worker, lane, saves, edits, pulls, cfgFaults, seen, overlap>>

-----------------------------------------------------------------------------
\* pair_device: the handle is written into the file as it is.
pair_device ==
    /\ ~file.paired /\ edits < MaxEdits /\ edits' = edits + 1
    /\ Changed([file EXCEPT !.paired = TRUE]) /\ respawn(file')
    /\ overlap' = (overlap \/ Busy)
    /\ UNCHANGED <<remote, gate, saver, focus, saves, pulls, cfgFaults, seen, chosen>>

\* Another device, or the website, changes the preferences or this device's gate.
RemoteEdit ==
    /\ edits < MaxEdits /\ edits' = edits + 1
    /\ \/ \E t \in Themes \ {remote} : remote' = t /\ UNCHANGED gate
       \/ gate' = ~gate /\ UNCHANGED remote
    /\ UNCHANGED <<file, ui, saver, worker, lane, focus, saves, pulls, cfgFaults, seen, overlap, chosen>>

-----------------------------------------------------------------------------
SaverStep == SetDeviceSync \/ GetOnOptIn \/ PutPreferences \/ Repersist \/ SaveReturns
FocusStep == FocusGets \/ FocusPersists \/ FocusRefused
BulkStep == BulkLoads \/ BulkGets \/ BulkPersists \/ BulkRefused

CfgNext ==
    \/ \E t \in Themes, on \in BOOLEAN : save_config(t, on)
    \/ SetDeviceSync \/ GetOnOptIn \/ PutPreferences \/ Repersist \/ SaveReturns
    \/ BulkLoads \/ BulkGets \/ BulkPersists \/ BulkRefused
    \/ FocusLoads \/ FocusGets \/ FocusPersists \/ FocusRefused
    \/ pair_device \/ RemoteEdit

CfgSpec == CfgInit /\ [][CfgNext]_cfgVars

-----------------------------------------------------------------------------
(* Properties.                                                             *)

\* Type invariant.
CfgTypeOK ==
    /\ file \in Config /\ ui \in Config /\ remote \in Themes \cup {NoTheme}
    /\ saver.at \in {"idle", "enable", "disable", "get", "put", "adopted", "revoked", "shown", "reshown"}
    /\ {worker.at, focus.at} \subseteq {"idle", "get", "got", "refused"}

\* What the user saves is not written over by a pull of the bulk lane that
\* read the file before: such a pull never outlives the save.
SaveSurvivesPull == worker # NoPull => seen = saves

\* A user who has turned sync off finds it off, whatever the lane was doing,
\* unless a pull on launch or focus overlapped the save.
OptOutStands ==
    saver = NoPull /\ focus = NoPull /\ ~overlap /\ chosen = "off" => ~file.sync

\* With sync on at both ends, this device has the account's settings.
PrefsMatch == file.sync /\ lane /\ gate /\ remote # NoTheme => file.theme = remote

\* What the writers of the file keep: a save is not undone by a pull that read
\* before it, and sync turned off stays off.
ConfigSound == CfgTypeOK /\ SaveSurvivesPull /\ OptOutStands
=============================================================================
