--------------------------- MODULE DashboardSocket --------------------------
(***************************************************************************)
(* DashboardServer.start, stop and restart, and AppState around them: the  *)
(* listening socket, its dispatch source, and the port.  The main thread   *)
(* starts and restarts the server, and waits for nobody; the cancel        *)
(* handlers of the sources run on the queue socketQueue, at any time after *)
(* stop().  Nothing protects listenSocket, and a cancel handler closes the *)
(* socket that listenSocket names when it runs.                            *)
(***************************************************************************)
EXTENDS Naturals

CONSTANTS
  Ports,        \* the ports that may be asked for
  DefaultPort,  \* 8765
  Taken,        \* the ports that another process may hold
  MaxStarts     \* how many sockets are made in a run

ASSUME PortsAssumption ==
  /\ {DefaultPort} \cup Taken \subseteq Ports
  /\ 0 \notin Ports
  /\ MaxStarts \in Nat \ {0}

None == 0
Sockets == 1..MaxStarts  \* a socket, named by the number of its start()

VARIABLES
  listenSocket,   \* the socket of the server, or None
  open,           \* the sockets that are open
  bound,          \* bound[k]: the port socket k listens on, or None
  source,         \* the socket the current source was made for, or None
  cancelled,      \* the sources whose cancel handlers have yet to run
  closing,        \* the socket that a cancel handler has just closed, or None
  struck,         \* history: the sockets hit by the handler of another source
  port,           \* DashboardServer.port
  dashboardPort,  \* AppState.dashboardPort
  serverRunning,  \* AppState.serverRunning
  made,           \* how many sockets were made
  main            \* where the main thread stands

fdVars == <<listenSocket, open, bound>>
sourceVars == <<source, cancelled, closing, struck>>
socketVars == <<fdVars, sourceVars, port, dashboardPort, serverRunning, made,
                main>>

SocketTypeOK ==
  /\ listenSocket \in Sockets \cup {None}
  /\ open \subseteq Sockets
  /\ bound \in [Sockets -> Ports \cup {None}]
  /\ source \in Sockets \cup {None}
  /\ cancelled \subseteq Sockets
  /\ closing \in Sockets \cup {None}
  /\ struck \subseteq Sockets
  /\ {port, dashboardPort} \subseteq Ports
  /\ serverRunning \in BOOLEAN
  /\ made \in 0..MaxStarts
  /\ main \in {"cancel", "close", "socket", "bind", "source", "thrown", "free"}

\* The app is launched and calls start(): the server was made with the default
\* port, the settings with the one that was saved, if any.
SocketInit ==
  /\ listenSocket = None
  /\ open = {}
  /\ bound = [k \in Sockets |-> None]
  /\ source = None
  /\ cancelled = {}
  /\ closing = None
  /\ struck = {}
  /\ port = DefaultPort
  /\ dashboardPort \in Ports
  /\ serverRunning = FALSE
  /\ made = 0
  /\ main = "socket"

-----------------------------------------------------------------------------
(* The main thread.                                                        *)

From(place, next) == main = place /\ main' = next

\* Faulty variant: 0 is a port.
ApplyAnyPort(p) ==
  /\ From("free", "cancel")
  /\ made < MaxStarts
  /\ p # dashboardPort
  /\ dashboardPort' = p
  /\ UNCHANGED <<fdVars, sourceVars, port, serverRunning, made>>

\* A port that is the one in the settings is not applied.
ApplyPort(p) ==
  /\ From("free", "cancel")
  /\ made < MaxStarts
  /\ p # None
  /\ p # dashboardPort
  /\ dashboardPort' = p
  /\ UNCHANGED <<fdVars, sourceVars, port, serverRunning, made>>

\* The settings go back to the default port, the server stays where it is.
ClearAllData ==
  /\ From("free", "free")
  /\ dashboardPort' = DefaultPort
  /\ UNCHANGED <<fdVars, sourceVars, port, serverRunning, made>>

\* stop(): the source, then the socket if it is still there.
CancelSource ==
  /\ From("cancel", "close")
  /\ cancelled' = cancelled \cup ({source} \ {None})
  /\ source' = None
  /\ UNCHANGED <<fdVars, closing, struck, port, dashboardPort, serverRunning,
                 made>>

\* Faulty variant: the socket is forgotten, but not closed.
CloseSocketForgets ==
  /\ From("close", "socket")
  /\ listenSocket' = None
  /\ port' = dashboardPort
  /\ UNCHANGED <<open, bound, sourceVars, dashboardPort, serverRunning, made>>

\* Faulty variant: restart() starts the server on the port it had.
CloseSocketKeepsPort ==
  /\ From("close", "socket")
  /\ open' = open \ {listenSocket}
  /\ listenSocket' = None
  /\ UNCHANGED <<bound, sourceVars, port, dashboardPort, serverRunning, made>>

CloseSocket ==
  /\ From("close", "socket")
  /\ open' = open \ {listenSocket}
  /\ listenSocket' = None
  /\ port' = dashboardPort
  /\ UNCHANGED <<bound, sourceVars, dashboardPort, serverRunning, made>>

\* start(), which restart() calls at once after stop(): the system gives it a
\* socket or none.
MakeSocket ==
  /\ \/ /\ From("socket", "bind")
        /\ made' = made + 1
        /\ listenSocket' = made + 1
        /\ open' = open \cup {made + 1}
     \/ /\ From("socket", "thrown")
        /\ listenSocket' = None
        /\ UNCHANGED <<made, open>>
  /\ UNCHANGED <<bound, sourceVars, port, dashboardPort, serverRunning>>

\* Faulty variant: the result of bind() is not looked at.
BindSocketUnchecked ==
  /\ From("bind", "source")
  /\ \/ port \notin {bound[k] : k \in open} /\ bound' = [bound EXCEPT ![made] = port]
     \/ port \in Taken /\ UNCHANGED bound
  /\ UNCHANGED <<listenSocket, open, sourceVars, port, dashboardPort,
                 serverRunning, made>>

\* bind() and listen() fail on a socket that is closed, and on a port that
\* another socket listens on.
BindSocket ==
  /\ \/ /\ listenSocket \in open
        /\ port \notin {bound[k] : k \in open}
        /\ From("bind", "source")
        /\ bound' = [bound EXCEPT ![listenSocket] = port]
        /\ UNCHANGED <<listenSocket, open>>
     \/ /\ listenSocket \notin open \/ port \in {bound[k] : k \in open} \cup Taken
        /\ From("bind", "thrown")
        /\ open' = open \ {listenSocket}
        /\ listenSocket' = None
        /\ UNCHANGED bound
  /\ UNCHANGED <<sourceVars, port, dashboardPort, serverRunning, made>>

\* The source is made and resumed, whatever has become of the socket.
Resume ==
  /\ From("source", "free")
  /\ source' = made
  /\ serverRunning' = TRUE
  /\ UNCHANGED <<fdVars, cancelled, closing, struck, port, dashboardPort, made>>

StartThrew ==
  /\ From("thrown", "free")
  /\ serverRunning' = FALSE
  /\ UNCHANGED <<fdVars, sourceVars, port, dashboardPort, made>>

-----------------------------------------------------------------------------
(* The cancel handlers, on socketQueue.                                    *)

\* The handler of source k closes the socket there is, and then says that there
\* is none; in between the main thread may make the next one.
HandlerCloses(k) ==
  /\ k \in cancelled
  /\ closing = None
  /\ cancelled' = cancelled \ {k}
  /\ open' = open \ {listenSocket}
  /\ closing' = listenSocket
  /\ struck' = struck \cup ({listenSocket} \ {k, None})
  /\ UNCHANGED <<listenSocket, bound, source, port, dashboardPort,
                 serverRunning, made, main>>

HandlerForgets ==
  /\ closing # None
  /\ closing' = None
  /\ listenSocket' = None
  /\ struck' = struck \cup ({listenSocket} \ {closing, None})
  /\ UNCHANGED <<open, bound, source, cancelled, port, dashboardPort,
                 serverRunning, made, main>>

\* A step of start(), of restart() or of a cancel handler.
ServerStep ==
  \/ CancelSource
  \/ CloseSocket
  \/ MakeSocket
  \/ BindSocket
  \/ Resume
  \/ StartThrew
  \/ \E k \in Sockets : HandlerCloses(k)
  \/ HandlerForgets

SocketNext ==
  \/ \E p \in Ports \cup {None} : ApplyPort(p)
  \/ ClearAllData
  \/ ServerStep

SocketSpec == SocketInit /\ [][SocketNext]_socketVars

-----------------------------------------------------------------------------
AtRest == main = "free" /\ cancelled = {} /\ closing = None

\* At rest, a server that the settings show as running has a source on its
\* socket, which listens on its port; only the cancel handler of an earlier
\* source can have taken the socket away.
ServesWhenRunning ==
  AtRest /\ serverRunning /\ source \notin struck =>
    listenSocket \in open /\ bound[listenSocket] = port /\ source = listenSocket

\* At rest no socket is open but that of the source: neither a restart nor a
\* failed start leaves one behind, to hold its port for ever.  Only a socket
\* that the cancel handler of another source hit may be left, or be gone.
NothingLeaks ==
  AtRest => open \ struck = {source} \ (struck \cup {None})

\* After a restart the server listens on its new port (testRestart asks for a
\* page there), whenever the cancel handler of the old source runs.
RestartServes ==
  AtRest /\ serverRunning => listenSocket \in open /\ bound[listenSocket] = port

\* The address the settings show, and the menu opens, is where the server is.
AddressIsTrue ==
  AtRest /\ serverRunning => dashboardPort = port

=============================================================================
