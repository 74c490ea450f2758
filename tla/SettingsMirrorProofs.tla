------------------------ MODULE SettingsMirrorProofs ------------------------
(***************************************************************************)
(* What the server serves and what it leaves open, for any ports and any   *)
(* number of restarts, and whenever the cancel handlers of its sources     *)
(* run: only a socket that the handler of another source hit is an         *)
(* exception.  And what is shown, what is saved and what is used, for any  *)
(* settings and any number of launches, which restore the invariant of the *)
(* server.                                                                 *)
(***************************************************************************)
EXTENDS SettingsMirror, TLAPS

-----------------------------------------------------------------------------
(* The server of DashboardSocket.                                          *)

\* The server has socket k, unless the handler of another source hit it.
Held(k) == k \notin struck => listenSocket = k /\ k \in open

\* What there is of a server when the main thread stands at a place.
Places ==
  /\ main \in {"free", "cancel"} =>
       /\ listenSocket \in {None, source}
       /\ source # None => bound[source] = port /\ Held(source)
       /\ serverRunning => source # None
  /\ main \notin {"free", "cancel"} => source = None
  /\ main \in {"socket", "thrown"} => listenSocket = None
  /\ main \in {"bind", "source"} =>
       made # None /\ listenSocket \in {None, made} /\ Held(made)
  /\ main = "source" => bound[made] = port

\* A handler closes the socket of the server as another one's, except while
\* stop() has yet to close it; and no other socket is open that was not hit.
Handlers ==
  /\ main # "close" /\ listenSocket # None =>
       /\ listenSocket \notin cancelled
       /\ listenSocket = closing => listenSocket \in struck
  /\ closing \notin open
  /\ open \ struck \subseteq {listenSocket}

\* Sockets are numbered in the order in which they are made.
Numbered ==
  /\ cancelled \cup struck \cup open \subseteq 1..made
  /\ {source, closing, listenSocket} \subseteq 0..made

\* There is a socket left to make.
Room == main \in {"cancel", "close", "socket"} => made < MaxStarts

SocketInv == SocketTypeOK /\ Places /\ Handlers /\ Numbered /\ Room

\* At the start there is no socket and no source.
LEMMA InitSocketInv == SocketInit => SocketInv
<1> SUFFICES ASSUME SocketInit
             PROVE  SocketInv
  OBVIOUS
<1> USE PortsAssumption DEF SocketInit, None
<1>1. bound \in [Sockets -> Ports \cup {None}]
  OBVIOUS
<1>2. {port, dashboardPort} \subseteq Ports /\ made \in 0..MaxStarts
  OBVIOUS
<1>3. SocketTypeOK
  BY <1>1, <1>2 DEF SocketTypeOK
<1> QED
  BY <1>3 DEF SocketInv, Places, Handlers, Numbered, Room

\* Every step of the server or of AppState keeps the invariant.
LEMMA NextSocketInv ==
  ASSUME SocketInv, [SocketNext]_socketVars
  PROVE  SocketInv'
<1> USE PortsAssumption
    DEF SocketInv, SocketTypeOK, Places, Held, Handlers, Numbered, Room, From,
        None, Sockets, fdVars, sourceVars
<1>1. ASSUME NEW p \in Ports \cup {None}, ApplyPort(p)
      PROVE  SocketInv'
  BY <1>1 DEF ApplyPort
<1>2. CASE ClearAllData
  BY <1>2 DEF ClearAllData
<1>3. CASE CancelSource
  BY <1>3 DEF CancelSource
<1>4. CASE CloseSocket
  BY <1>4 DEF CloseSocket
<1>5. CASE MakeSocket
  <2>1. CASE From("socket", "bind")
    <3> DEFINE n == made + 1
    <3>1. /\ main = "socket" /\ main' = "bind" /\ made' = n
          /\ listenSocket' = n /\ open' = open \cup {n}
          /\ UNCHANGED <<bound, sourceVars, port, dashboardPort, serverRunning>>
      BY <1>5, <2>1 DEF MakeSocket
    <3>2. made \in 0..MaxStarts /\ made < MaxStarts
      BY <3>1
    <3>3. /\ n \in Sockets /\ n \in 0..MaxStarts /\ n # 0
          /\ n \notin 0..made /\ n \notin 1..made /\ n \in 1..n /\ n \in 0..n
          /\ 0..made \subseteq 0..n /\ 1..made \subseteq 1..n
      BY <3>2
    <3> HIDE DEF n
    <3>4. SocketTypeOK'
      BY <3>1, <3>3
    <3>5. Handlers'
      BY <3>1, <3>3
    <3>6. Places' /\ Room'
      BY <3>1, <3>3
    <3>7. Numbered'
      BY <3>1, <3>3
    <3> QED
      BY <3>4, <3>5, <3>6, <3>7
  <2>2. CASE From("socket", "thrown")
    BY <1>5, <2>2 DEF MakeSocket
  <2> QED
    BY <1>5, <2>1, <2>2 DEF MakeSocket
<1>6. CASE BindSocket
  BY <1>6 DEF BindSocket
<1>7. CASE Resume
  BY <1>7 DEF Resume
<1>8. CASE StartThrew
  BY <1>8 DEF StartThrew
<1>9. ASSUME NEW k \in Sockets, HandlerCloses(k)
      PROVE  SocketInv'
  <2>1. SocketTypeOK' /\ Numbered' /\ Room'
    BY <1>9 DEF HandlerCloses
  <2>2. Handlers'
    BY <1>9 DEF HandlerCloses
  <2>3. Places'
    BY <1>9 DEF HandlerCloses
  <2> QED
    BY <2>1, <2>2, <2>3
<1>10. CASE HandlerForgets
  BY <1>10 DEF HandlerForgets
<1>11. CASE UNCHANGED socketVars
  BY <1>11 DEF socketVars
<1> QED
  BY <1>1, <1>2, <1>3, <1>4, <1>5, <1>6, <1>7, <1>8, <1>9, <1>10, <1>11
     DEF SocketNext, ServerStep

\* What the invariant says of a server at rest.
LEMMA SocketAtRest == SocketInv => ServesWhenRunning /\ NothingLeaks
<1> SUFFICES ASSUME SocketInv, AtRest
             PROVE  /\ serverRunning /\ source \notin struck =>
                         /\ listenSocket \in open
                         /\ bound[listenSocket] = port
                         /\ source = listenSocket
                    /\ open \ struck = {source} \ (struck \cup {None})
  BY DEF ServesWhenRunning, NothingLeaks
<1>1. /\ listenSocket \in {None, source}
      /\ source # None => bound[source] = port /\ Held(source)
      /\ serverRunning => source # None
      /\ open \ struck \subseteq {listenSocket}
      /\ None \notin open
  BY PortsAssumption
     DEF SocketInv, Places, Handlers, AtRest, SocketTypeOK, Sockets, None
<1> QED
  BY <1>1 DEF Held

\* The invariant of the server holds throughout.
LEMMA SocketInvariant == SocketSpec => []SocketInv
BY NextSocketInv, InitSocketInv, PTL DEF SocketSpec

\* DashboardServer.start, stop and restart: whenever the cancel handlers run, a
\* server that says it runs listens on its port, unless the handler of an
\* earlier source hit its socket.
THEOREM ServerServes == SocketSpec => []ServesWhenRunning
BY SocketInvariant, SocketAtRest, PTL

\* DashboardServer.start, stop and restart: whenever the cancel handlers run, no
\* socket is open at rest but that of the source, or one that was hit.
THEOREM SocketsAreClosed == SocketSpec => []NothingLeaks
BY SocketInvariant, SocketAtRest, PTL

-----------------------------------------------------------------------------
(* The settings.                                                           *)

\* From the moment the socket is closed the server is on the port that was
\* applied last.
PortFollows ==
  moved /\ ~cleared /\ main \notin {"cancel", "close"} => port = dashboardPort

\* The types that the other parts rest on.
SettingsTyped ==
  /\ bundled \in BOOLEAN
  /\ shown \in [Keys -> Values]
  /\ saved \in [Keys -> Values \cup {Absent}]
  /\ copy \in [LiveKeys \cup CopiedKeys -> Values]
  /\ savedPort \in Ports \cup {None}
  /\ saves \in 0..MaxSaves
  /\ changed \subseteq Keys
  /\ {moved, cleared} \subseteq BOOLEAN

SettingsInv ==
  /\ SettingsTyped
  /\ ShownIsKept
  /\ WakeUsesShown
  /\ PortFollows

\* A setting is read from UserDefaults, or is the default.
LEMMA ReadIsValue ==
  ASSUME saved \in [Keys -> Values \cup {Absent}],
         savedPort \in Ports \cup {None}
  PROVE  (\A k \in Keys : Read(k) \in Values) /\ ReadPort \in Ports
BY SettingsAssumption, PortsAssumption DEF Read, ReadPort

\* What a wake would use after a launch is what is shown.
LEMMA LaunchUsesShown ==
  ASSUME \A k \in Keys : shown[k] = Read(k),
         copy = [k \in LiveKeys \cup CopiedKeys |-> Read(k)]
  PROVE  WakeUsesShown
BY SettingsAssumption DEF WakeUsesShown, Used, Keys, Read

\* At the first launch all is as it was saved.
LEMMA InitSettingsInv == SettingsInit => SettingsInv
<1> SUFFICES ASSUME SettingsInit
             PROVE  SettingsInv
  OBVIOUS
<1>1. SettingsTyped
  <2>1. /\ shown \in [Keys -> Values]
        /\ saved \in [Keys -> Values \cup {Absent}]
        /\ copy \in [LiveKeys \cup CopiedKeys -> Values]
        /\ savedPort \in Ports \cup {None}
    BY ReadIsValue DEF SettingsInit, Keys
  <2>2. saves \in 0..MaxSaves
    BY SettingsAssumption DEF SettingsInit
  <2> QED
    BY <2>1, <2>2 DEF SettingsInit, SettingsTyped
<1>2. ShownIsKept
  BY DEF SettingsInit, ShownIsKept
<1>3. WakeUsesShown
  BY <1>2, LaunchUsesShown DEF SettingsInit, ShownIsKept
<1>4. PortFollows
  BY DEF SettingsInit, PortFollows
<1> QED
  BY <1>1, <1>2, <1>3, <1>4 DEF SettingsInv

\* A step of the server leaves the port of the settings as it is, and gives
\* the server that port when it closes the socket.
LEMMA ServerStepPorts ==
  ASSUME ServerStep
  PROVE  /\ dashboardPort' = dashboardPort
         /\ \/ /\ port' = port
               /\ main \in {"cancel", "close"} => main' \in {main, "close"}
            \/ port' = dashboardPort
BY DEF ServerStep, CancelSource, CloseSocket, MakeSocket, BindSocket, Resume,
       StartThrew, HandlerCloses, HandlerForgets, From

\* Every step keeps the invariant of the settings.
LEMMA NextSettingsInv ==
  ASSUME SettingsInv, [SettingsNext]_mirrorVars
  PROVE  SettingsInv'
<1> USE SettingsAssumption DEF SettingsInv, SettingsTyped
<1>1. ASSUME NEW k \in Keys, NEW v \in Values, Save(k, v)
      PROVE  SettingsInv'
  <2>1. SettingsTyped' /\ ShownIsKept' /\ PortFollows'
    BY <1>1 DEF Save, ShownIsKept, HalfCleared, Read, ReadPort, PortFollows, From
  <2>2. WakeUsesShown'
    BY <1>1 DEF Save, WakeUsesShown, HalfCleared, Used, Read, Keys
  <2> QED
    BY <2>1, <2>2
<1>2. ASSUME NEW p \in Ports \cup {None}, SavePort(p)
      PROVE  SettingsInv'
  <2>1. SettingsTyped' /\ ShownIsKept'
    BY <1>2 DEF SavePort, ApplyPort, ShownIsKept, HalfCleared, Read, ReadPort
  <2>2. WakeUsesShown'
    BY <1>2 DEF SavePort, WakeUsesShown, HalfCleared, Used, Read
  <2>3. PortFollows'
    BY <1>2 DEF SavePort, ApplyPort, PortFollows, From
  <2> QED
    BY <2>1, <2>2, <2>3
<1>3. CASE ClearSettings
  <2>1. SettingsTyped' /\ ShownIsKept' /\ PortFollows'
    BY <1>3 DEF ClearSettings, ClearAllData, ClearDefaults, ShownIsKept,
                HalfCleared, Read, ReadPort, PortFollows
  <2>2. WakeUsesShown'
    BY <1>3 DEF ClearSettings, ClearDefaults, WakeUsesShown, HalfCleared, Used,
                Read, Keys
  <2> QED
    BY <2>1, <2>2
<1>4. CASE Relaunch
  <2>1. SettingsTyped' /\ ShownIsKept'
    BY <1>4, ReadIsValue DEF Relaunch, ShownIsKept, Read, ReadPort, Keys
  <2>2. WakeUsesShown'
    BY <1>4 DEF Relaunch, WakeUsesShown, Used, Read, Keys
  <2>3. PortFollows'
    BY <1>4 DEF Relaunch, PortFollows
  <2> QED
    BY <2>1, <2>2, <2>3
<1>5. CASE ServerStep /\ UNCHANGED settingsVars
  <2>1. SettingsTyped' /\ ShownIsKept' /\ WakeUsesShown'
    BY <1>5, ServerStepPorts
       DEF settingsVars, ShownIsKept, WakeUsesShown, HalfCleared, Used, Read,
           ReadPort
  <2>2. PortFollows'
    BY <1>5, ServerStepPorts DEF settingsVars, PortFollows
  <2> QED
    BY <2>1, <2>2
<1>6. CASE UNCHANGED mirrorVars
  BY <1>6 DEF mirrorVars, settingsVars, socketVars, ShownIsKept, WakeUsesShown,
              HalfCleared, Used, Read, ReadPort, PortFollows
<1> QED
  BY <1>1, <1>2, <1>3, <1>4, <1>5, <1>6 DEF SettingsNext

\* The invariant of the settings holds throughout.
LEMMA SettingsInvariant == SettingsSpec => []SettingsInv
BY NextSettingsInv, InitSettingsInv, PTL DEF SettingsSpec

\* AppState.init, the save functions and clearAllData: what is shown is what
\* the next launch will show, but for what was reset without a bundle.
THEOREM ShownStaysKept == SettingsSpec => []ShownIsKept
<1>1. SettingsInv => ShownIsKept
  BY DEF SettingsInv
<1> QED
  BY <1>1, SettingsInvariant, PTL

\* WakePipeline and AppleTVBridge, which look at UserDefaults or at a copy: a
\* wake uses what is shown, but for a copied setting that was changed, and for
\* what was cleared.
THEOREM SettingsAgree == SettingsSpec => []WakeUsesShown
<1>1. SettingsInv => WakeUsesShown
  BY DEF SettingsInv
<1> QED
  BY <1>1, SettingsInvariant, PTL

-----------------------------------------------------------------------------
\* Settings and launches keep the invariant of the server, too.
LEMMA NextServerInv ==
  ASSUME SocketInv, SettingsInv, [SettingsNext]_mirrorVars
  PROVE  SocketInv'
<1>1. CASE [SocketNext]_socketVars
  BY <1>1, NextSocketInv
<1>2. ASSUME NEW k \in Keys, NEW v \in Values, Save(k, v)
      PROVE  SocketInv'
  <2>1. UNCHANGED socketVars
    BY <1>2 DEF Save, socketVars, From
  <2> QED
    BY <2>1, <1>1
<1>3. CASE Relaunch
  <2> USE <1>3 DEF Relaunch
  <2>1. SocketTypeOK'
    <3>1. dashboardPort' \in Ports /\ port' \in Ports
      BY ReadIsValue, PortsAssumption DEF SettingsInv, SettingsTyped
    <3>2. bound' \in [Sockets -> Ports \cup {None}] /\ made' \in 0..MaxStarts
      BY DEF SocketInv, SocketTypeOK
    <3> QED
      BY <3>1, <3>2 DEF SocketTypeOK
  <2>2. Places' /\ Handlers' /\ Numbered' /\ Room'
    <3>1. 0 \in 0..made
      BY DEF SocketInv, SocketTypeOK
    <3> QED
      BY <3>1 DEF Places, None, Handlers, Numbered, Room
  <2> QED
    BY <2>1, <2>2 DEF SocketInv
<1> QED
  BY <1>1, <1>2, <1>3 DEF SettingsNext, SavePort, ClearSettings, SocketNext,
                          mirrorVars

\* Server and settings together keep both invariants.
LEMMA BothInvariants == SettingsSpec => [](SocketInv /\ SettingsInv)
<1>1. SettingsInit => SocketInv /\ SettingsInv
  BY InitSettingsInv, InitSocketInv DEF SettingsInit
<1>2. SocketInv /\ SettingsInv /\ [SettingsNext]_mirrorVars =>
        (SocketInv /\ SettingsInv)'
  BY NextServerInv, NextSettingsInv
<1> QED
  BY <1>1, <1>2, PTL DEF SettingsSpec

\* AppState.applyPort with DashboardServer.restart: a port that was applied is
\* the one of the server and of its socket, until data is cleared or the app is
\* launched again; and this socket is open, unless a late handler hit it.
THEOREM PortIsServed == SettingsSpec => []AppliedPortServes
<1>1. SocketInv /\ SettingsInv => AppliedPortServes
  BY DEF SocketInv, Places, Held, SettingsInv, PortFollows, AppliedPortServes, AtRest
<1> QED
  BY <1>1, BothInvariants, PTL

\* AppState and DashboardServer: every field keeps a value of its type.
THEOREM SettingsTypeKept == SettingsSpec => []SettingsTypeOK
<1>1. SocketInv /\ SettingsInv => SettingsTypeOK
  BY DEF SocketInv, SettingsInv, SettingsTyped, SettingsTypeOK
<1> QED
  BY <1>1, BothInvariants, PTL

=============================================================================
