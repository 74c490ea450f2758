--------------------------- MODULE SettingsMirror ---------------------------
(***************************************************************************)
(* The settings of the app.  Each of them exists several times: what       *)
(* AppState shows, what UserDefaults holds, and, for those the pipeline or *)
(* the bridge got when the app was launched, a copy there.  Which of these *)
(* a wake uses depends on the setting:                                     *)
(*   live    promptType, promptText, feedbackEnabled: UserDefaults at the  *)
(*           moment of use, else the copy;                                 *)
(*   looked  beepSoundName: UserDefaults at the moment of use, else a      *)
(*           literal;                                                      *)
(*   copied  recognitionTimeout, cooldownDuration, appleTVDeviceId: the    *)
(*           copy.                                                         *)
(* The port of the dashboard is one more setting; the server is that of    *)
(* DashboardSocket.  The wake word is read by PipelineControl when needed. *)
(***************************************************************************)
EXTENDS DashboardSocket

CONSTANTS
  LiveKeys,     \* the settings of each kind
  LookedKeys,
  CopiedKeys,
  Values,       \* what a setting may be
  Default,      \* what it is in a new installation
  Absent,       \* no value in UserDefaults
  MaxSaves      \* how many settings are saved, besides the port

ASSUME SettingsAssumption ==
  /\ Default \in Values
  /\ Absent \notin Values
  /\ MaxSaves \in Nat
  /\ LookedKeys \cap (LiveKeys \cup CopiedKeys) = {}
  /\ LiveKeys \cap CopiedKeys = {}

Keys == LiveKeys \cup LookedKeys \cup CopiedKeys

VARIABLES
  bundled,    \* the app has a bundle identifier; it has none under swift run
  shown,      \* shown[k]: the setting as AppState shows it
  saved,      \* saved[k]: the setting in UserDefaults, or Absent
  copy,       \* copy[k]: the setting as the pipeline or the bridge got it
  savedPort,  \* the port in UserDefaults, or None
  saves,      \* how many settings were saved
  changed,    \* history: the settings saved since the launch
  moved,      \* history: a port was applied since the launch
  cleared     \* history: all data was cleared since the launch

settingsVars == <<bundled, shown, saved, copy, savedPort, saves, changed,
                  moved, cleared>>
mirrorVars == <<socketVars, settingsVars>>

SettingsTypeOK ==
  /\ SocketTypeOK
  /\ bundled \in BOOLEAN
  /\ shown \in [Keys -> Values]
  /\ saved \in [Keys -> Values \cup {Absent}]
  /\ copy \in [LiveKeys \cup CopiedKeys -> Values]
  /\ savedPort \in Ports \cup {None}
  /\ saves \in 0..MaxSaves
  /\ changed \subseteq Keys
  /\ {moved, cleared} \subseteq BOOLEAN

\* AppState.init reads a setting, or leaves the default where none is saved.
Read(k) == IF saved[k] = Absent THEN Default ELSE saved[k]

ReadPort == IF savedPort = None THEN DefaultPort ELSE savedPort

\* UserDefaults may hold anything that an earlier run of the app saved.
SettingsInit ==
  /\ bundled \in BOOLEAN
  /\ saved \in [Keys -> Values \cup {Absent}]
  /\ savedPort \in Ports \cup {None}
  /\ shown = [k \in Keys |-> Read(k)]
  /\ copy = [k \in LiveKeys \cup CopiedKeys |-> Read(k)]
  /\ saves = 0
  /\ changed = {}
  /\ moved = FALSE
  /\ cleared = FALSE
  /\ SocketInit
  /\ dashboardPort = ReadPort

-----------------------------------------------------------------------------
(* What a wake uses.                                                       *)

\* Faulty variant: the wake uses the copy of a live setting as well.
UsedFromCopy(k) == IF k \in LookedKeys THEN Read(k) ELSE copy[k]

Used(k) ==
  CASE k \in LiveKeys   -> IF saved[k] = Absent THEN copy[k] ELSE saved[k]
    [] k \in LookedKeys -> Read(k)
    [] k \in CopiedKeys -> copy[k]

-----------------------------------------------------------------------------
(* The main thread, between two calls of the server.                       *)

Save(k, v) ==
  /\ From("free", "free")
  /\ saves < MaxSaves
  /\ saves' = saves + 1
  /\ shown' = [shown EXCEPT ![k] = v]
  /\ saved' = [saved EXCEPT ![k] = v]
  /\ changed' = changed \cup {k}
  /\ UNCHANGED <<fdVars, sourceVars, port, dashboardPort, serverRunning, made,
                 bundled, copy, savedPort, moved, cleared>>

SavePort(p) ==
  /\ ApplyPort(p)
  /\ savedPort' = p
  /\ moved' = TRUE
  /\ UNCHANGED <<bundled, shown, saved, copy, saves, changed, cleared>>

\* UserDefaults are emptied as the domain of the bundle, if there is one.
ClearDefaults ==
  IF bundled
  THEN saved' = [k \in Keys |-> Absent] /\ savedPort' = None
  ELSE UNCHANGED <<saved, savedPort>>

\* Faulty variant: one of the settings is not reset.
ClearSettingsButOne ==
  /\ ClearAllData
  /\ ClearDefaults
  /\ \E k \in Keys :
       shown' = [j \in Keys |-> IF j = k THEN shown[k] ELSE Default]
  /\ cleared' = TRUE
  /\ UNCHANGED <<bundled, copy, saves, changed, moved>>

\* UserDefaults are emptied, and AppState is reset setting by setting, whatever
\* became of them; the pipeline, the bridge and the server are not told.
ClearSettings ==
  /\ ClearAllData
  /\ ClearDefaults
  /\ shown' = [k \in Keys |-> Default]
  /\ cleared' = TRUE
  /\ UNCHANGED <<bundled, copy, saves, changed, moved>>

-----------------------------------------------------------------------------

\* The app ends, at any moment, and is launched again.  Its sockets are closed
\* with it.  AppState reads what is saved, the pipeline and the bridge get
\* their copies, and the server, made with the default port, is started.
Relaunch ==
  /\ made < MaxStarts
  /\ shown' = [k \in Keys |-> Read(k)]
  /\ copy' = [k \in LiveKeys \cup CopiedKeys |-> Read(k)]
  /\ dashboardPort' = ReadPort
  /\ port' = DefaultPort
  /\ listenSocket' = None
  /\ open' = {}
  /\ source' = None
  /\ cancelled' = {}
  /\ closing' = None
  /\ struck' = {}
  /\ serverRunning' = FALSE
  /\ main' = "socket"
  /\ changed' = {}
  /\ moved' = FALSE
  /\ cleared' = FALSE
  /\ UNCHANGED <<bundled, bound, made, saved, savedPort, saves>>

SettingsNext ==
  \/ \E k \in Keys, v \in Values : Save(k, v)
  \/ \E p \in Ports \cup {None} : SavePort(p)
  \/ ClearSettings
  \/ Relaunch
  \/ ServerStep /\ UNCHANGED settingsVars

SettingsSpec == SettingsInit /\ [][SettingsNext]_mirrorVars

-----------------------------------------------------------------------------
\* The settings were reset, but UserDefaults were not.
HalfCleared == cleared /\ ~bundled

\* What is shown is what the next launch will show: every setting is saved as
\* it is shown, and clearing all data forgets none on either side.  Without a
\* bundle a reset setting comes back, until it is saved again.
ShownIsKept ==
  /\ \A k \in Keys : shown[k] = Read(k) \/ (HalfCleared /\ shown[k] = Default)
  /\ \/ dashboardPort = ReadPort
     \/ HalfCleared /\ dashboardPort = DefaultPort

\* A wake uses the settings as they are shown.  The exceptions: a copied
\* setting that was saved since the launch is used after the next one, and
\* after all data was cleared only the sound is the default one at once, and
\* not even that without a bundle.
WakeUsesShown ==
  \A k \in Keys :
    \/ Used(k) = shown[k]
    \/ k \in CopiedKeys /\ k \in changed
    \/ k \notin LookedKeys /\ cleared
    \/ HalfCleared

\* At rest, until all data is cleared or the app is launched again, the server
\* is on the port that was applied last, and the address shown is true: the
\* source is that of a socket that was bound to this port, which is open unless
\* the cancel handler of an earlier source hit it.
AppliedPortServes ==
  AtRest /\ serverRunning /\ moved /\ ~cleared =>
    /\ port = dashboardPort
    /\ bound[source] = dashboardPort
    /\ source \in open \cup struck

\* After all data was cleared a wake uses the defaults, until something is
\* saved again.
ClearedIsInitial ==
  cleared /\ (\A k \in Keys : saved[k] = Absent) =>
    \A k \in Keys : Used(k) = Default

=============================================================================
