---------------------------- MODULE HttpExchange ----------------------------
(***************************************************************************)
(* DashboardServer.handle: one connection of the dashboard, from accept()  *)
(* to close().  A request is a number of bytes, of which the first header  *)
(* ones are ASCII; the network delivers them in pieces, read() takes what  *)
(* there is, up to the size of the buffer, and each piece is decoded as a  *)
(* text of its own.                                                        *)
(***************************************************************************)
EXTENDS Naturals, FiniteSets

CONSTANTS
  Requests,       \* [header, size: number of bytes; inside: the bytes that
                  \*  are followed by another byte of the same character]
  Buffer,         \* the size of the buffer, 8192
  SplitHeader,    \* the first piece may be less than the header
  SplitCharacter, \* a piece may end within a character
  ClientLeaves    \* the client may close the connection before the answer

ASSUME RequestsAssumption ==
  /\ \A r \in Requests :
       /\ {r.header, r.size} \subseteq Nat \ {0}
       /\ r.header <= r.size
       /\ r.inside \subseteq (r.header + 1)..(r.size - 1)
  /\ Buffer \in Nat \ {0}
  /\ {SplitHeader, SplitCharacter, ClientLeaves} \subseteq BOOLEAN

VARIABLES
  request,   \* what the client sends
  arrived,   \* how many bytes of it have arrived
  taken,     \* how many bytes read() has returned
  body,      \* requestBody: the places of its bytes in the request
  expected,  \* contentLength
  server,    \* "read", "body", "route", "header", "answer", "closed", "killed"
  client     \* "sending", "waiting", "answered", "refused" or "gone"

httpVars == <<request, arrived, taken, body, expected, server, client>>

HttpInit ==
  /\ request \in Requests
  /\ arrived = 0
  /\ taken = 0
  /\ body = {}
  /\ expected = 0
  /\ server = "read"
  /\ client = "sending"

-----------------------------------------------------------------------------
(* The client and the network.                                             *)

BodyBytes(r) == (r.header + 1)..r.size

Deliver(n) ==
  /\ client = "sending"
  /\ n > arrived
  /\ SplitHeader \/ n >= request.header
  /\ SplitCharacter \/ n \notin request.inside
  /\ arrived' = n
  /\ client' = IF n = request.size THEN "waiting" ELSE client
  /\ UNCHANGED <<request, taken, body, expected, server>>

Leave ==
  /\ ClientLeaves
  /\ client \in {"sending", "waiting"}
  /\ client' = "gone"
  /\ UNCHANGED <<request, arrived, taken, body, expected, server>>

-----------------------------------------------------------------------------
(* handle(client:)                                                         *)

LesserOf(m, n) == IF m < n THEN m ELSE n
Piece == (taken + 1)..LesserOf(arrived, taken + Buffer)
PieceEnd == taken + Cardinality(Piece)

\* A piece that starts or ends within a character is no text.
Decodes == {taken, PieceEnd} \cap request.inside = {}

\* Faulty variant: a read() that returns nothing is tried again.
ReadNothingAgain ==
  /\ client = "gone"
  /\ taken = arrived
  /\ server = "read" /\ server' = "closed"
  /\ UNCHANGED <<request, arrived, taken, body, expected, client>>

\* read() returns nothing when the client has gone away.
ReadNothing ==
  /\ client = "gone"
  /\ taken = arrived
  /\ \/ server = "read" /\ server' = "closed"
     \/ server = "body" /\ server' = "route"
  /\ UNCHANGED <<request, arrived, taken, body, expected, client>>

\* The first piece holds the header, as far as there is one, and its length
\* field if it holds all of the header.
ReadHeader ==
  /\ server = "read"
  /\ arrived > taken
  /\ taken' = PieceEnd
  /\ IF Decodes
     THEN /\ body' = {n \in Piece : n > request.header}
          /\ expected' = IF PieceEnd >= request.header
                         THEN request.size - request.header ELSE 0
          /\ server' = "body"
          /\ UNCHANGED client
     ELSE /\ server' = "closed"
          /\ client' = IF client = "gone" THEN client ELSE "refused"
          /\ UNCHANGED <<body, expected>>
  /\ UNCHANGED <<request, arrived>>

ReadBody ==
  /\ server = "body"
  /\ Cardinality(body) < expected
  /\ arrived > taken
  /\ taken' = PieceEnd
  /\ body' = IF Decodes THEN body \cup Piece ELSE body
  /\ UNCHANGED <<request, arrived, expected, server, client>>

\* Faulty variants: the rest of the body is not waited for; one byte more is
\* waited for.
BodyReadAtOnce ==
  /\ server = "body"
  /\ server' = "route"
  /\ UNCHANGED <<request, arrived, taken, body, expected, client>>

BodyReadOneMore ==
  /\ server = "body"
  /\ Cardinality(body) > expected
  /\ server' = "route"
  /\ UNCHANGED <<request, arrived, taken, body, expected, client>>

BodyRead ==
  /\ server = "body"
  /\ Cardinality(body) >= expected
  /\ server' = "route"
  /\ UNCHANGED <<request, arrived, taken, body, expected, client>>

\* The first line names a method and a path, unless it was cut off before them:
\* then there is no answer.
Route ==
  /\ server = "route"
  /\ \E named \in {TRUE, taken >= request.header} :
       /\ server' = IF named THEN "header" ELSE "closed"
       /\ client' = IF named \/ client = "gone" THEN client ELSE "refused"
  /\ UNCHANGED <<request, arrived, taken, body, expected>>

\* The answer is written in many pieces.  The first one to a client that is
\* gone makes its host reset the connection, the next one raises SIGPIPE, for
\* which nobody has set a handler.
Write ==
  /\ \/ server = "header" /\ server' = "answer" /\ UNCHANGED client
     \/ /\ server = "answer"
        /\ server' = IF client = "gone" THEN "killed" ELSE "closed"
        /\ client' = IF client = "gone" THEN client ELSE "answered"
  /\ UNCHANGED <<request, arrived, taken, body, expected>>

Serve ==
  \/ ReadNothing
  \/ ReadHeader
  \/ ReadBody
  \/ BodyRead
  \/ Route
  \/ Write

HttpNext ==
  \/ \E n \in 1..request.size : Deliver(n)
  \/ Leave
  \/ Serve

HttpSpec == HttpInit /\ [][HttpNext]_httpVars

\* A handler runs, and what a client has sent arrives.
HttpFairSpec ==
  HttpSpec /\ WF_httpVars(Serve)
           /\ WF_httpVars(\E n \in 1..request.size : Deliver(n))

-----------------------------------------------------------------------------
\* The body that is handled for a client that waits for its answer is the one
\* that it sent.
WholeBody ==
  server \in {"route", "header", "answer"} /\ client # "gone" =>
    body = BodyBytes(request)

\* A client that has sent its request gets an answer.
Answered == client = "waiting" ~> client \in {"answered", "gone"}

\* A handler does not stay with a client that has gone away.
HandlerEnds == client = "gone" ~> server \in {"closed", "killed"}

\* A client that goes away does not take the app with it.
SurvivesClients == server # "killed"

=============================================================================
