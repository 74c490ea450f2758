----------------------- MODULE DashboardRequestProofs -----------------------
(***************************************************************************)
(* What holds of every request of the dashboard and of every text on its   *)
(* way to the Apple TV: the body that a handler gets, the answer that a    *)
(* sender is given, and the words that are sent, of texts of any length.   *)
(***************************************************************************)
EXTENDS HttpExchange, SendText, FiniteSetTheorems,
        SequenceTheorems, WellFoundedInduction, TLAPS

-----------------------------------------------------------------------------
(* The body of a request.                                                  *)

\* What the server counts on: the first piece holds the header, which fits the
\* buffer, no piece ends within a character, and all of a request with longer
\* characters than one byte fits the buffer.
WholePieces ==
  /\ ~SplitHeader /\ ~SplitCharacter
  /\ \A r \in Requests : r.header <= Buffer /\ (r.inside = {} \/ r.size <= Buffer)

\* How far a connection has got, and what of the request its server then holds.
HttpInv ==
  /\ request \in Requests
  /\ arrived \in 0..request.size
  /\ arrived = 0 \/ arrived >= request.header
  /\ arrived \notin request.inside
  /\ server \in {"read", "body", "route", "header", "answer", "closed", "killed"}
  /\ server = "read" => taken = 0
  /\ server = "body" =>
       /\ taken \in request.header..arrived
       /\ taken \notin request.inside
       /\ body = (request.header + 1)..taken
       /\ expected = request.size - request.header
  /\ WholeBody

\* A read() takes what has arrived, up to the size of the buffer, and what it
\* takes can be decoded.
LEMMA PieceTaken ==
  ASSUME WholePieces, HttpInv, server \in {"read", "body"}, arrived > taken
  PROVE  /\ PieceEnd \in taken..arrived
         /\ PieceEnd >= request.header
         /\ Piece = (taken + 1)..PieceEnd
         /\ Decodes
         /\ PieceEnd \notin request.inside
<1> DEFINE end == LesserOf(arrived, taken + Buffer)
<1>1. /\ request \in Requests /\ request.header \in Nat \ {0}
      /\ request.size \in Nat /\ request.header <= request.size
      /\ request.inside \subseteq (request.header + 1)..(request.size - 1)
      /\ Buffer \in Nat \ {0} /\ request.header <= Buffer
      /\ request.inside = {} \/ request.size <= Buffer
  BY RequestsAssumption DEF HttpInv, WholePieces
<1>2. /\ taken \in Nat /\ arrived \in Nat /\ arrived <= request.size
      /\ taken = 0 \/ taken >= request.header
      /\ taken \notin request.inside
      /\ arrived >= request.header /\ arrived \notin request.inside
  BY <1>1 DEF HttpInv
<1>3. /\ end \in (taken + 1)..arrived /\ end >= request.header
      /\ end \notin request.inside
  BY <1>1, <1>2 DEF LesserOf
<1>4. PieceEnd = end
  <2>1. Cardinality((taken + 1)..end) = end - taken
    <3> HIDE DEF end
    <3> QED
      BY <1>2, <1>3, FS_Interval
  <2> QED
    BY <1>2, <1>3, <2>1 DEF PieceEnd, Piece
<1> QED
  BY <1>2, <1>3, <1>4 DEF Decodes, Piece

\* Every step keeps the part of the request that the server holds whole.
LEMMA NextHttpInv ==
  ASSUME WholePieces, HttpInv, [HttpNext]_httpVars
  PROVE  HttpInv'
<1>0. /\ request \in Requests /\ request.header \in Nat \ {0}
      /\ request.size \in Nat /\ request.header <= request.size
      /\ request.inside \subseteq (request.header + 1)..(request.size - 1)
  BY RequestsAssumption DEF HttpInv
<1>1. ASSUME NEW n \in 1..request.size, Deliver(n)
      PROVE  HttpInv'
  BY <1>0, <1>1 DEF Deliver, HttpInv, WholePieces, WholeBody
<1>2. CASE Leave
  BY <1>2 DEF Leave, HttpInv, WholeBody
<1>3. CASE ReadNothing
  BY <1>3 DEF ReadNothing, HttpInv, WholeBody
<1>4. CASE ReadHeader
  <2>1. PieceEnd \in request.header..arrived
    BY <1>0, <1>4, PieceTaken DEF ReadHeader, HttpInv
  <2>2. /\ Piece = 1..PieceEnd /\ PieceEnd \notin request.inside
        /\ server' = "body" /\ taken' = PieceEnd
        /\ body' = {n \in Piece : n > request.header}
        /\ expected' = request.size - request.header
        /\ UNCHANGED <<request, arrived>>
    BY <1>0, <1>4, <2>1, PieceTaken DEF ReadHeader, HttpInv
  <2>3. body' = (request.header + 1)..PieceEnd
    BY <1>0, <2>1, <2>2
  <2> QED
    BY <2>1, <2>2, <2>3 DEF HttpInv, WholeBody
<1>5. CASE ReadBody
  <2>1. PieceEnd \in taken..arrived /\ taken \in request.header..arrived
    BY <1>5, PieceTaken DEF ReadBody, HttpInv
  <2>2. /\ Piece = (taken + 1)..PieceEnd /\ PieceEnd \notin request.inside
        /\ server = "body" /\ taken' = PieceEnd
        /\ body' = body \cup Piece /\ body = (request.header + 1)..taken
        /\ UNCHANGED <<request, arrived, expected, server, client>>
    BY <1>5, PieceTaken DEF ReadBody, HttpInv
  <2>3. body' = (request.header + 1)..PieceEnd
    BY <1>0, <2>1, <2>2
  <2> QED
    BY <1>0, <2>1, <2>2, <2>3 DEF HttpInv, WholeBody
<1>6. CASE BodyRead
  <2>1. /\ taken \in request.header..request.size
        /\ body = (request.header + 1)..taken
        /\ Cardinality(body) >= request.size - request.header
    BY <1>0, <1>6 DEF BodyRead, HttpInv
  <2>2. Cardinality((request.header + 1)..taken) = taken - request.header
    BY <1>0, <2>1, FS_Interval
  <2>3. body = BodyBytes(request)
    BY <1>0, <2>1, <2>2 DEF BodyBytes
  <2> QED
    BY <1>6, <2>3 DEF BodyRead, HttpInv, WholeBody, BodyBytes
<1>7. CASE Route
  BY <1>7 DEF Route, HttpInv, WholeBody
<1>8. CASE Write
  BY <1>8 DEF Write, HttpInv, WholeBody
<1>9. CASE UNCHANGED httpVars
  BY <1>9 DEF httpVars, HttpInv, WholeBody
<1> QED
  BY <1>1, <1>2, <1>3, <1>4, <1>5, <1>6, <1>7, <1>8, <1>9 DEF HttpNext, Serve

\* DashboardServer.handle: however the network cuts a request up behind its
\* header, the body that is handled is the one that was sent.
THEOREM BodyIsWhole ==
  ASSUME WholePieces
  PROVE  HttpSpec => []WholeBody
<1>1. HttpInit => HttpInv
  BY RequestsAssumption DEF HttpInit, HttpInv, WholeBody
<1>2. HttpInv /\ [HttpNext]_httpVars => HttpInv'
  BY NextHttpInv
<1>3. HttpInv => WholeBody
  BY DEF HttpInv
<1> QED
  BY <1>1, <1>2, <1>3, PTL DEF HttpSpec

-----------------------------------------------------------------------------
(* The answer to a sender.                                                 *)

\* Where send() stands, what the tool has done by then, and what is left of its
\* output.
SendInv ==
  /\ success \in BOOLEAN
  /\ left \in [Pipes -> Nat] /\ piped \in [Pipes -> Nat]
  /\ stage \in {"normalize", "dispatch", "send"} => answer = "none"
  /\ stage \in {"normalize", "dispatch"} => bridge = "idle"
  /\ bridge \in {"idle", "find", "run"} => tool = "none"
  /\ bridge # "done" => ~success
  /\ tool = "running" => bridge = "wait"
  /\ bridge \in {"out", "err"} => tool \in {"exited", "failed"}
  /\ tool \in {"exited", "failed"} => \A p \in Pipes : left[p] = 0
  /\ bridge \in {"err", "done"} => tool = "none" \/ piped["out"] = 0
  /\ bridge = "done" =>
       IF success THEN tool = "exited" /\ piped["err"] = 0
       ELSE tool \in {"none", "failed"}
  /\ AnswerIsTrue

\* No step lets the answer say what the tool has not.
LEMMA NextSendInv ==
  ASSUME SendInv, [SendNext]_sendVars
  PROVE  SendInv'
<1> USE DEF SendInv, AnswerIsTrue, Pipes, remoteVars, routeVars
<1>1. CASE Normalize
  BY <1>1 DEF Normalize
<1>2. CASE Dispatch
  BY <1>2 DEF Dispatch
<1>3. ASSUME stage = "send", UNCHANGED routeVars, BridgeStep
      PROVE  SendInv'
  <2>1. CASE FindPath
    BY <1>3, <2>1 DEF FindPath
  <2>2. CASE RunTool
    BY <1>3, <2>2, PipesAssumption DEF RunTool
  <2>3. CASE WaitUntilExit
    BY <1>3, <2>3 DEF WaitUntilExit
  <2>4. CASE ReadOut
    BY <1>3, <2>4 DEF ReadOut, Take
  <2>5. CASE ReadErr
    BY <1>3, <2>5 DEF ReadErr, Take
  <2> QED
    BY <1>3, <2>1, <2>2, <2>3, <2>4, <2>5 DEF BridgeStep
<1>4. ASSUME stage = "send", UNCHANGED routeVars, ToolStep
      PROVE  SendInv'
  <2>1. ASSUME NEW p \in Pipes, WritePipe(p)
        PROVE  SendInv'
    BY <1>4, <2>1 DEF WritePipe
  <2>2. CASE ExitTool
    BY <1>4, <2>2 DEF ExitTool
  <2> QED
    BY <1>4, <2>1, <2>2 DEF ToolStep
<1>5. CASE Answer
  BY <1>5 DEF Answer
<1>6. CASE UNCHANGED sendVars
  BY <1>6 DEF sendVars
<1> QED
  BY <1>1, <1>2, <1>3, <1>4, <1>5, <1>6 DEF SendNext, Send, Rests

\* AppleTVBridge.send: whoever sends a text is told that it was sent only by a
\* tool that said so and of whose output nothing is left, whatever the tool
\* writes, and that it was not only when it was not.
THEOREM AnswersAreTrue == SendSpec => []AnswerIsTrue
<1>1. SendInit => SendInv
  <2> SUFFICES ASSUME SendInit
               PROVE  SendInv
    OBVIOUS
  <2>1. success \in BOOLEAN /\ ~success
    BY Zenon DEF SendInit, RemoteInit
  <2>2. /\ left = [p \in Pipes |-> 0] /\ piped = [p \in Pipes |-> 0]
        /\ stage = "normalize" /\ answer = "none"
        /\ bridge = "idle" /\ tool = "none"
    BY DEF SendInit, RemoteInit
  <2> QED
    BY <2>1, <2>2 DEF SendInv, AnswerIsTrue
<1>2. SendInv /\ [SendNext]_sendVars => SendInv'
  BY NextSendInv
<1>3. SendInv => AnswerIsTrue
  BY DEF SendInv
<1> QED
  BY <1>1, <1>2, <1>3, PTL DEF SendSpec

-----------------------------------------------------------------------------
(* Places of a text.                                                       *)

\* A set of numbers has a least member, and a greatest one if it has a bound.
LEMMA MinIs ==
  ASSUME NEW S \in SUBSET Nat, S # {}
  PROVE  Min(S) \in S /\ \A y \in S : Min(S) <= y
<1> DEFINE order == StrictSubsetOrdering(Nat)
           below == {0..x : x \in S}
<1>1. below \subseteq FiniteSubsetsOf(Nat) /\ below # {}
  <2>1. ASSUME NEW x \in S
        PROVE  0..x \in FiniteSubsetsOf(Nat)
    <3>1. x \in Int /\ 0..x \in SUBSET Nat
      OBVIOUS
    <3>2. IsFiniteSet(0..x)
      BY <3>1, FS_Interval
    <3> QED
      BY <3>1, <3>2 DEF FiniteSubsetsOf
  <2> QED
    BY <2>1
<1>2. \E u \in below : \A v \in below : <<v, u>> \notin order
  <2> HIDE DEF below, order
  <2>1. IsWellFoundedOn(order, FiniteSubsetsOf(Nat))
    BY FS_StrictSubsetOrderingWellFounded DEF order
  <2> QED
    BY <1>1, <2>1, WFMin
<1>3. PICK x \in S : \A y \in S : <<0..y, 0..x>> \notin order
  BY <1>2
<1>4. ASSUME NEW y \in S, y < x
      PROVE  FALSE
  <2>1. 0..y \subseteq 0..x /\ 0..y # 0..x /\ 0..x \subseteq Nat
    BY <1>4
  <2> QED
    BY <1>3, <2>1 DEF StrictSubsetOrdering
<1>5. \A y \in S : x <= y
  BY <1>4
<1> QED
  BY <1>5 DEF Min

LEMMA MaxIs ==
  ASSUME NEW n \in Nat, NEW S \in SUBSET (0..n), S # {}
  PROVE  Max(S) \in S /\ \A y \in S : y <= Max(S)
<1> DEFINE B == {m \in Nat : \A x \in S : x <= m}
<1>1. B \in SUBSET Nat /\ B # {}
  BY n \in B
<1>2. Min(B) \in B /\ \A m \in B : Min(B) <= m
  <2> HIDE DEF B
  <2> QED
    BY <1>1, MinIs
<1>3. Min(B) \in S
  <2>1. SUFFICES ASSUME Min(B) \notin S
                 PROVE  FALSE
    OBVIOUS
  <2>2. Min(B) \in Nat /\ \A y \in S : y <= Min(B) /\ y # Min(B)
    BY <1>2, <2>1
  <2>3. \A y \in S : y \in Nat /\ y <= Min(B) - 1
    BY <2>2
  <2>4. Min(B) - 1 \in Nat
    <3>1. PICK y \in S : TRUE
      OBVIOUS
    <3>2. y \in Nat /\ y <= Min(B) - 1 /\ Min(B) \in Nat
      BY <2>2, <2>3
    <3> QED
      BY <3>2
  <2>5. Min(B) - 1 \in B
    BY <2>3, <2>4
  <2> QED
    BY <1>2, <2>2, <2>5
<1> QED
  BY <1>2, <1>3 DEF Max

\* The places of a set have the ranks from 1 on, each its own.
LEMMA Ranks ==
  ASSUME NEW n \in Nat, NEW K \in SUBSET (1..n)
  PROVE  /\ IsFiniteSet(K) /\ Cardinality(K) \in Nat
         /\ \A i \in K : Rank(K, i) \in 1..Cardinality(K)
         /\ \A i, j \in K : i < j => Rank(K, i) < Rank(K, j)
<1> DEFINE Below(i) == {j \in K : j <= i}
<1>1. IsFiniteSet(K) /\ Cardinality(K) \in Nat
  <2>1. IsFiniteSet(1..n)
    BY FS_Interval
  <2>2. IsFiniteSet(K)
    BY <2>1, FS_Subset
  <2> QED
    BY <2>2, FS_CardinalityType
<1>2. ASSUME NEW i \in K
      PROVE  /\ IsFiniteSet(Below(i)) /\ Cardinality(Below(i)) \in Nat
             /\ Cardinality(Below(i)) <= Cardinality(K)
  <2>1. Below(i) \in SUBSET K
    OBVIOUS
  <2> HIDE DEF Below
  <2> QED
    BY <1>1, <2>1, FS_Subset, FS_CardinalityType
<1>3. ASSUME NEW i \in K
      PROVE  Cardinality(Below(i)) # 0
  <2>1. Below(i) # {}
    BY i \in Below(i)
  <2> HIDE DEF Below
  <2> QED
    BY <1>2, <2>1, FS_EmptySet
<1>4. ASSUME NEW i \in K, NEW j \in K, i < j
      PROVE  Cardinality(Below(i)) < Cardinality(Below(j))
  <2>1. Below(i) \in SUBSET Below(j) /\ Below(i) # Below(j)
    <3>1. j \in Below(j) /\ j \notin Below(i)
      BY <1>4
    <3>2. \A k \in Below(i) : k \in Below(j)
      BY <1>4
    <3> QED
      BY <3>1, <3>2
  <2> HIDE DEF Below
  <2>2. /\ Cardinality(Below(i)) <= Cardinality(Below(j))
        /\ Cardinality(Below(j)) # Cardinality(Below(i))
    BY <1>2, <2>1, FS_Subset
  <2> QED
    BY <1>2, <2>2
<1> QED
  BY <1>1, <1>2, <1>3, <1>4 DEF Rank

LEMMA Places ==
  ASSUME NEW n \in Nat, NEW K \in SUBSET (1..n)
  PROVE  /\ \A k \in 1..Cardinality(K) :
              Place(K, k) \in K /\ Rank(K, Place(K, k)) = k
         /\ \A i \in K : Place(K, Rank(K, i)) = i
         /\ \A k, l \in 1..Cardinality(K) : k < l => Place(K, k) < Place(K, l)
<1> DEFINE ranks == [i \in K |-> Rank(K, i)]
<1>0. /\ IsFiniteSet(K) /\ Cardinality(K) \in Nat
      /\ \A i \in K : Rank(K, i) \in 1..Cardinality(K)
      /\ \A i, j \in K : i < j => Rank(K, i) < Rank(K, j)
  BY Ranks
<1>1. ranks \in [K -> 1..Cardinality(K)]
  BY <1>0
<1>2. \A i, j \in K : Rank(K, i) = Rank(K, j) => i = j
  <2>1. \A i, j \in K : i = j \/ i < j \/ j < i
    OBVIOUS
  <2> QED
    BY <1>0, <2>1
<1>3. ranks \in Injection(K, 1..Cardinality(K))
  BY <1>1, <1>2 DEF Injection, IsInjective
<1>4. ranks \in Surjection(K, 1..Cardinality(K))
  <2>1. /\ IsFiniteSet(1..Cardinality(K))
        /\ Cardinality(1..Cardinality(K)) = Cardinality(K)
    BY <1>0, FS_Interval
  <2> HIDE DEF ranks
  <2> QED
    BY <1>3, <2>1, FS_Injection
<1>5. \A k \in 1..Cardinality(K) : \E i \in K : Rank(K, i) = k
  BY <1>4 DEF Surjection
<1>6. \A k \in 1..Cardinality(K) :
        Place(K, k) \in K /\ Rank(K, Place(K, k)) = k
  BY <1>5 DEF Place
<1>7. \A i \in K : Place(K, Rank(K, i)) = i
  BY <1>0, <1>2, <1>6
<1>8. ASSUME NEW k \in 1..Cardinality(K), NEW l \in 1..Cardinality(K), k < l
      PROVE  Place(K, k) < Place(K, l)
  <2>1. /\ Place(K, k) \in K /\ Rank(K, Place(K, k)) = k
        /\ Place(K, l) \in K /\ Rank(K, Place(K, l)) = l
    BY <1>6
  <2>2. Place(K, k) # Place(K, l)
    BY <1>8, <2>1
  <2>3. ASSUME Place(K, l) < Place(K, k)
        PROVE  FALSE
    <3>1. Rank(K, Place(K, l)) < Rank(K, Place(K, k))
      BY <1>0, <2>1, <2>3
    <3> QED
      BY <1>0, <1>8, <2>1, <3>1
  <2>4. Place(K, k) \in Nat /\ Place(K, l) \in Nat
    <3>1. \A i \in K : i \in Nat
      OBVIOUS
    <3> QED
      BY <2>1, <3>1
  <2>5. \A i, j \in Nat : i = j \/ j < i \/ i < j
    OBVIOUS
  <2> QED
    BY <2>2, <2>3, <2>4, <2>5, Zenon
<1> QED
  BY <1>6, <1>7, <1>8

\* The first place and the last one, and that nothing is between two of them.
LEMMA PlacesInOrder ==
  ASSUME NEW n \in Nat, NEW K \in SUBSET (1..n)
  PROVE  /\ 1 \in K => 1 \in 1..Cardinality(K) /\ Place(K, 1) = 1
         /\ n \in K => Cardinality(K) \in 1..Cardinality(K)
                         /\ Place(K, Cardinality(K)) = n
         /\ \A k \in 2..Cardinality(K), i \in K :
              i <= Place(K, k - 1) \/ i >= Place(K, k)
<1> DEFINE c == Cardinality(K)
           place == [k \in 1..c |-> Place(K, k)]
           rank == [i \in K |-> Rank(K, i)]
<1>1. /\ c \in Nat
      /\ \A i \in K : rank[i] \in 1..c /\ place[rank[i]] = i
      /\ \A k \in 1..c : place[k] \in K
      /\ \A k, l \in 1..c : k < l => place[k] < place[l]
  BY Ranks, Places
<1>2. \A i \in K : i \in 1..n
  OBVIOUS
<1> HIDE DEF c, place, rank
<1>3. 1 \in K => 1 \in 1..c /\ place[1] = 1
  <2> SUFFICES ASSUME 1 \in K
               PROVE  1 \in 1..c /\ place[1] = 1
    OBVIOUS
  <2>1. rank[1] \in 1..c /\ place[rank[1]] = 1 /\ 1 \in 1..c
    BY <1>1
  <2>2. place[1] \in 1..n
    <3>1. place[1] \in K
      BY <1>1, <2>1
    <3> QED
      BY <1>2, <3>1
  <2>3. rank[1] # 1 => place[1] < 1
    BY <1>1, <2>1
  <2> QED
    BY <2>1, <2>2, <2>3
<1>4. n \in K => c \in 1..c /\ place[c] = n
  <2> SUFFICES ASSUME n \in K
               PROVE  c \in 1..c /\ place[c] = n
    OBVIOUS
  <2>1. rank[n] \in 1..c /\ place[rank[n]] = n /\ c \in 1..c
    BY <1>1
  <2>2. place[c] \in 1..n
    <3>1. place[c] \in K
      BY <1>1, <2>1
    <3> QED
      BY <1>2, <3>1
  <2>3. rank[n] # c => n < place[c]
    BY <1>1, <2>1
  <2> QED
    BY <2>1, <2>2, <2>3
<1>5. ASSUME NEW k \in 2..c, NEW i \in K
      PROVE  i <= place[k - 1] \/ i >= place[k]
  <2>1. /\ k - 1 \in 1..c /\ k \in 1..c
        /\ rank[i] \in 1..c /\ place[rank[i]] = i
    BY <1>1
  <2>2. place[k - 1] \in 1..n /\ place[k] \in 1..n /\ i \in 1..n
    BY <1>1, <1>2, <2>1
  <2>3. rank[i] < k - 1 \/ rank[i] = k - 1 \/ rank[i] = k \/ rank[i] > k
    BY <2>1
  <2> QED
    BY <1>1, <2>1, <2>2, <2>3
<1> QED
  BY <1>1, <1>3, <1>4, <1>5 DEF c, place

-----------------------------------------------------------------------------
(* Texts.                                                                  *)

LEMMA TextIs ==
  ASSUME NEW t \in Text
  PROVE  /\ Len(t) \in Nat /\ DOMAIN t = 1..Len(t)
         /\ \A i \in 1..Len(t) : t[i] \in STRING
         /\ t # <<>> => Len(t) > 0
         /\ Len(t) = 0 => t = <<>>
BY DEF Text

\* u is a piece of t, behind the first a characters.
PartOf(u, t, a) ==
  /\ u \in Text /\ a \in Nat
  /\ a + Len(u) <= Len(t)
  /\ \A i \in 1..Len(u) : u[i] = t[a + i]

LEMMA SubSeqIsPart ==
  ASSUME NEW t \in Text, NEW a \in Nat, NEW b \in a..Len(t)
  PROVE  /\ PartOf(SubSeq(t, a + 1, b), t, a)
         /\ Len(SubSeq(t, a + 1, b)) = b - a
<1>1. /\ Len(t) \in Nat /\ \A i \in (a + 1)..b : t[i] \in STRING
      /\ a + 1 \in Int /\ b \in Int
  BY TextIs
<1>2. /\ SubSeq(t, a + 1, b) \in Seq(STRING)
      /\ Len(SubSeq(t, a + 1, b)) = IF a + 1 <= b THEN b - (a + 1) + 1 ELSE 0
      /\ \A i \in 1..(b - (a + 1) + 1) :
           SubSeq(t, a + 1, b)[i] = t[(a + 1) + i - 1]
  BY <1>1, SubSeqProperties
<1> QED
  BY <1>1, <1>2 DEF PartOf, Text

\* What trimming leaves of a text, and what it takes away.
LEMMA TrimmedIs ==
  ASSUME NEW t \in Text, NEW S
  PROVE  \E a \in Nat :
           /\ PartOf(Trimmed(S)[t], t, a)
           /\ Trimmed(S)[t] # <<>> =>
                Head(Trimmed(S)[t]) \notin S /\ Last(Trimmed(S)[t]) \notin S
           /\ \A i \in 1..Len(t) :
                i <= a \/ i > a + Len(Trimmed(S)[t]) => t[i] \in S
<1> DEFINE kept == {i \in DOMAIN t : t[i] \notin S}
           u == Trimmed(S)[t]
<1>0. Len(t) \in Nat /\ DOMAIN t = 1..Len(t)
  BY TextIs
<1>1. u = IF kept = {} THEN <<>> ELSE SubSeq(t, Min(kept), Max(kept))
  BY DEF Trimmed
<1>2. CASE kept = {}
  <2>1. u = <<>> /\ PartOf(u, t, 0) /\ Len(u) = 0
    BY <1>0, <1>1, <1>2 DEF PartOf, Text
  <2>2. \A i \in 1..Len(t) : t[i] \in S
    BY <1>0, <1>2
  <2>3. 0 \in Nat /\ \A i \in 1..Len(t) : i <= 0 \/ i > 0 + Len(u) => t[i] \in S
    BY <2>2
  <2> QED
    BY <2>1, <2>3
<1>3. CASE kept # {}
  <2>1. PICK p \in kept, b \in kept :
          /\ p = Min(kept) /\ b = Max(kept)
          /\ \A i \in kept : p <= i /\ i <= b
    <3>1. kept \in SUBSET Nat /\ kept \in SUBSET (0..Len(t))
      BY <1>0
    <3> HIDE DEF kept
    <3> QED
      BY <1>0, <1>3, <3>1, MinIs, MaxIs
  <2> DEFINE a == p - 1
  <2>2. /\ a \in Nat /\ b \in a..Len(t) /\ b > a /\ a + 1 = p
        /\ t[a + 1] \notin S /\ t[b] \notin S
        /\ \A i \in 1..Len(t) : i <= a \/ i > b => t[i] \in S
    <3>1. /\ p \in 1..Len(t) /\ b \in 1..Len(t) /\ p <= b
          /\ t[p] \notin S /\ t[b] \notin S
      BY <1>0, <2>1
    <3>2. \A i \in 1..Len(t) : t[i] \notin S => p <= i /\ i <= b
      BY <1>0, <2>1
    <3> QED
      BY <1>0, <3>1, <3>2
  <2>3. u = SubSeq(t, a + 1, b)
    BY <1>1, <1>3, <2>1, <2>2
  <2> HIDE DEF a, u, kept
  <2>4. PartOf(u, t, a) /\ Len(u) = b - a
    BY <2>2, <2>3, SubSeqIsPart
  <2>5. u[1] = t[a + 1] /\ u[Len(u)] = t[b]
    BY <2>2, <2>4 DEF PartOf
  <2>6. Head(u) = u[1]
    BY <2>4 DEF PartOf, Text
  <2>7. a + Len(u) = b
    BY <2>2, <2>4
  <2> QED
    BY <2>2, <2>4, <2>5, <2>6, <2>7 DEF u, Last
<1> QED
  BY <1>2, <1>3

\* What is left without the marks at the end, and what is taken away.
LEMMA WithoutMarksIs ==
  ASSUME NEW t \in Text
  PROVE  /\ PartOf(WithoutMarks[t], t, 0)
         /\ WithoutMarks[t] # <<>> =>
              Last(WithoutMarks[t]) \notin Marks \cup Blank
         /\ \A i \in 1..Len(t) :
              i > Len(WithoutMarks[t]) => t[i] \in Marks \cup Blank
<1> DEFINE kept == {0} \cup {i \in DOMAIN t : t[i] \notin Marks \cup Blank}
<1>0. Len(t) \in Nat /\ DOMAIN t = 1..Len(t)
  BY TextIs
<1>1. PICK m \in kept : m = Max(kept) /\ \A i \in kept : i <= m
  <2>1. kept \in SUBSET (0..Len(t)) /\ kept # {}
    BY <1>0
  <2> HIDE DEF kept
  <2> QED
    BY <1>0, <2>1, MaxIs
<1>2. /\ m \in 0..Len(t)
      /\ m # 0 => t[m] \notin Marks \cup Blank
      /\ \A i \in 1..Len(t) : i > m => t[i] \in Marks \cup Blank
  <2>1. \A i \in 1..Len(t) : t[i] \notin Marks \cup Blank => i <= m
    BY <1>0, <1>1
  <2>2. /\ \A i \in kept : i \in 0..Len(t)
        /\ \A i \in kept : i # 0 => t[i] \notin Marks \cup Blank
    BY <1>0
  <2> HIDE DEF kept
  <2> QED
    BY <1>0, <2>1, <2>2
<1>3. WithoutMarks[t] = SubSeq(t, 0 + 1, m)
  <2>1. WithoutMarks[t] = SubSeq(t, 1, m)
    BY <1>1, Zenon DEF WithoutMarks
  <2> QED
    BY <2>1
<1> HIDE DEF kept
<1>4. PartOf(WithoutMarks[t], t, 0) /\ Len(WithoutMarks[t]) = m
  BY <1>0, <1>2, <1>3, SubSeqIsPart
<1>5. m # 0 => WithoutMarks[t][m] = t[m]
  BY <1>2, <1>4 DEF PartOf
<1>6. WithoutMarks[t] # <<>> => m # 0
  BY <1>4, TextIs DEF PartOf
<1> QED
  BY <1>2, <1>4, <1>5, <1>6 DEF Last

\* The characters at some places are a text.
LEMMA KeptIs ==
  ASSUME NEW t \in Text, NEW K \in SUBSET (1..Len(t))
  PROVE  /\ Kept(t, K) \in Text
         /\ Len(Kept(t, K)) = Cardinality(K) /\ Cardinality(K) \in Nat
         /\ \A k \in 1..Cardinality(K) :
              /\ Place(K, k) \in K /\ Place(K, k) \in 1..Len(t)
              /\ Kept(t, K)[k] = t[Place(K, k)]
<1>1. /\ Len(t) \in Nat /\ \A i \in 1..Len(t) : t[i] \in STRING
      /\ Cardinality(K) \in Nat
  BY TextIs, Ranks
<1>2. \A k \in 1..Cardinality(K) : Place(K, k) \in K /\ Place(K, k) \in 1..Len(t)
  BY <1>1, Places
<1> QED
  BY <1>1, <1>2 DEF Kept, Text

\* What single spacing leaves of a text that does not end with a space.
LEMMA SingleSpacedIs ==
  ASSUME NEW t \in Text, t # <<>>, Last(t) \notin Blank
  PROVE  /\ SingleSpaced[t] \in Text /\ SingleSpaced[t] # <<>>
         /\ Head(SingleSpaced[t]) = Head(t)
         /\ Last(SingleSpaced[t]) = Last(t)
         /\ \A k \in 1..Len(SingleSpaced[t]) :
              \E i \in 1..Len(t) : SingleSpaced[t][k] = t[i]
         /\ \A k \in 2..Len(SingleSpaced[t]) :
              {SingleSpaced[t][k - 1], SingleSpaced[t][k]} # {"space"}
<1> DEFINE K == {i \in DOMAIN t : i = 1 \/ {t[i - 1], t[i]} # {"space"}}
           s == Kept(t, K)
<1>0. /\ Len(t) \in Nat /\ Len(t) > 0 /\ DOMAIN t = 1..Len(t)
      /\ Head(t) = t[1]
  BY TextIs DEF Text
<1>1. SingleSpaced[t] = s
  BY DEF SingleSpaced
<1>2. K \in SUBSET (1..Len(t)) /\ 1 \in K /\ Len(t) \in K
  BY <1>0 DEF Last, Blank
<1>3. \A i \in K : i # 1 => {t[i - 1], t[i]} # {"space"}
  OBVIOUS
<1>4. \A i \in 2..Len(t) : i \notin K => t[i] = "space"
  BY <1>0
<1> HIDE DEF K
<1>5. /\ s \in Text /\ Len(s) = Cardinality(K) /\ Cardinality(K) \in Nat
      /\ \A k \in 1..Cardinality(K) :
           /\ Place(K, k) \in K /\ Place(K, k) \in 1..Len(t)
           /\ s[k] = t[Place(K, k)]
  BY <1>2, KeptIs
<1>6. /\ 1 \in 1..Cardinality(K) /\ s[1] = t[1]
      /\ s[Cardinality(K)] = t[Len(t)]
  BY <1>0, <1>2, <1>5, PlacesInOrder
<1>7. s # <<>> /\ Head(s) = s[1]
  BY <1>5, <1>6 DEF Text
<1>8. ASSUME NEW k \in 2..Cardinality(K), {s[k - 1], s[k]} = {"space"}
      PROVE  FALSE
  <2> DEFINE i == Place(K, k - 1)
             j == Place(K, k)
  <2>1. /\ i \in K /\ j \in K /\ i < j
        /\ i \in 1..Len(t) /\ j \in 1..Len(t)
        /\ t[i] = "space" /\ t[j] = "space"
        /\ \A l \in K : l <= i \/ l >= j
    <3>1. k - 1 \in 1..Cardinality(K) /\ k \in 1..Cardinality(K) /\ k - 1 < k
      BY <1>5
    <3>2. s[k - 1] = "space" /\ s[k] = "space"
      BY <1>8
    <3>3. i < j
      BY <1>0, <1>2, <3>1, Places
    <3>4. \A l \in K : l <= i \/ l >= j
      BY <1>0, <1>2, PlacesInOrder
    <3>5. /\ i \in K /\ i \in 1..Len(t) /\ s[k - 1] = t[i]
          /\ j \in K /\ j \in 1..Len(t) /\ s[k] = t[j]
      BY <1>5, <3>1
    <3> QED
      BY <3>2, <3>3, <3>4, <3>5
  <2> HIDE DEF i, j
  <2>2. t[j - 1] # "space"
    BY <1>3, <2>1
  <2>3. j - 1 \in 2..Len(t) /\ j - 1 > i /\ j - 1 < j
    BY <2>1, <2>2
  <2>4. j - 1 \in K
    BY <1>4, <2>2, <2>3
  <2> QED
    BY <2>1, <2>3, <2>4
<1> HIDE DEF s
<1> QED
  BY <1>0, <1>1, <1>5, <1>6, <1>7, <1>8 DEF Last

\* A text is known by its length and its characters.
LEMMA SameText ==
  ASSUME NEW t \in Text, NEW u \in Text, Len(t) = Len(u),
         \A i \in 1..Len(t) : t[i] = u[i]
  PROVE  t = u
BY SeqEqual DEF Text

\* Trimming leaves a text alone that has nothing to trim.
LEMMA TrimmedStays ==
  ASSUME NEW t \in Text, NEW S,
         t # <<>> => Head(t) \notin S /\ Last(t) \notin S
  PROVE  Trimmed(S)[t] = t
<1> DEFINE u == Trimmed(S)[t]
<1>1. PICK a \in Nat :
        /\ PartOf(u, t, a)
        /\ \A i \in 1..Len(t) : i <= a \/ i > a + Len(u) => t[i] \in S
  BY TrimmedIs
<1> HIDE DEF u
<1>2. u \in Text /\ Len(u) \in Nat /\ Len(t) \in Nat /\ a + Len(u) <= Len(t)
  BY <1>1, TextIs DEF PartOf
<1>3. CASE t = <<>>
  <2>1. Len(u) = 0 /\ Len(t) = 0
    BY <1>2, <1>3
  <2> QED
    BY <1>3, <2>1, <1>2, TextIs DEF u
<1>4. CASE t # <<>>
  <2>1. t[1] \notin S /\ t[Len(t)] \notin S /\ Len(t) > 0
    BY <1>4, TextIs DEF Text, Last
  <2>2. a = 0 /\ Len(u) = Len(t)
    BY <1>1, <1>2, <2>1
  <2>3. \A i \in 1..Len(u) : u[i] = t[i]
    BY <1>1, <1>2, <2>2 DEF PartOf
  <2> QED
    BY <1>2, <2>2, <2>3, SameText DEF u
<1> QED
  BY <1>3, <1>4

\* What SentIsPlain says of a text that is sent.
Plain(t) ==
  /\ t \in Text /\ t # <<>>
  /\ Last(t) \notin White \cup Marks /\ Head(t) \notin White
  /\ \A i \in 2..Len(t) : {t[i - 1], t[i]} # {"space"}
  /\ \A i \in 1..Len(t) : t[i] # "newline"

\* Nothing comes of an empty text.
LEMMA EmptyStays ==
  /\ <<>> \in Text
  /\ \A S : Trimmed(S)[<<>>] = <<>>
  /\ WithoutMarks[<<>>] = <<>>
  /\ SingleSpaced[<<>>] = <<>>
<1>1. <<>> \in Text /\ Len(<<>>) = 0
  BY DEF Text
<1>2. WithoutMarks[<<>>] \in Text /\ Len(WithoutMarks[<<>>]) = 0
  BY <1>1, WithoutMarksIs, TextIs DEF PartOf
<1>3. SingleSpaced[<<>>] = <<>>
  <2> DEFINE K == {i \in DOMAIN <<>> : i = 1 \/ {<<>>[i - 1], <<>>[i]} # {"space"}}
  <2>1. SingleSpaced[<<>>] = Kept(<<>>, K)
    BY <1>1 DEF SingleSpaced
  <2>2. K = {}
    BY <1>1
  <2> HIDE DEF K
  <2>3. /\ Kept(<<>>, K) \in Text
        /\ Len(Kept(<<>>, K)) = 0
    BY <1>1, <2>2, KeptIs, FS_EmptySet
  <2> QED
    BY <2>1, <2>3, TextIs
<1>4. \A S : Trimmed(S)[<<>>] = <<>>
  BY <1>1, TrimmedStays
<1> QED
  BY <1>1, <1>2, <1>3, <1>4, TextIs

\* TextNormalizer.normalize, on a text in one line.
LEMMA NormalizedIsPlain ==
  ASSUME NEW t \in Text, OneLine(t), Normalized(t) # <<>>
  PROVE  /\ Plain(Normalized(t))
         /\ Normalized(t) = SingleSpaced[WithoutMarks[Trimmed(White)[t]]]
         /\ WithoutMarks[Trimmed(White)[t]] # <<>>
         /\ WithoutMarks[Trimmed(White)[t]][1] # "space"
<1> DEFINE u == Trimmed(White)[t]
           w == WithoutMarks[u]
           s == SingleSpaced[w]
<1>1. Normalized(t) = Trimmed(White)[s]
  BY DEF Normalized
<1>2. /\ u \in Text
      /\ u # <<>> => Head(u) \notin White
      /\ \A i \in 1..Len(u) : u[i] # "newline"
  <2>1. u \in Text /\ (u # <<>> => Head(u) \notin White)
    BY TrimmedIs DEF PartOf
  <2>2. "newline" \notin {u[i] : i \in DOMAIN u}
    BY DEF OneLine, Range
  <2> HIDE DEF u
  <2> QED
    BY <2>1, <2>2, TextIs
<1> HIDE DEF u
<1>3. PartOf(w, u, 0) /\ (w # <<>> => Last(w) \notin Marks \cup Blank)
  BY <1>2, WithoutMarksIs
<1>4. u # <<>> /\ w # <<>>
  <2>1. u # <<>>
    BY <1>1, EmptyStays
  <2>2. w # <<>>
    BY <1>1, EmptyStays
  <2> QED
    BY <2>1, <2>2
<1> HIDE DEF w
<1>5. /\ w \in Text /\ Len(w) \in Nat /\ Len(w) > 0
      /\ Len(u) \in Nat /\ Len(w) <= Len(u)
      /\ \A i \in 1..Len(w) : w[i] = u[i]
  BY <1>2, <1>3, <1>4, TextIs DEF PartOf
<1>6. Head(w) = w[1] /\ Head(u) = u[1]
  BY <1>2, <1>4, <1>5 DEF Text
<1>7. /\ \A i \in 1..Len(w) : w[i] # "newline"
      /\ Head(w) \notin White
      /\ Last(w) \notin White \cup Marks
  BY <1>2, <1>3, <1>4, <1>5, <1>6 DEF White, Blank, Last
<1>8. /\ s \in Text /\ s # <<>> /\ Head(s) = Head(w) /\ Last(s) = Last(w)
      /\ \A k \in 1..Len(s) : \E i \in 1..Len(w) : s[k] = w[i]
      /\ \A k \in 2..Len(s) : {s[k - 1], s[k]} # {"space"}
  BY <1>3, <1>4, <1>5, SingleSpacedIs
<1> HIDE DEF s
<1>9. Normalized(t) = s
  BY <1>1, <1>7, <1>8, TrimmedStays
<1>10. Plain(Normalized(t))
  BY <1>7, <1>8, <1>9 DEF Plain
<1>11. w[1] # "space"
  BY <1>6, <1>7 DEF White
<1> QED
  BY <1>4, <1>9, <1>10, <1>11 DEF s, w, u

\* The prefix that is taken off, if there is one, and what is left of the text.
LEMMA DispatchedIs ==
  ASSUME NEW t \in Text
  PROVE  \/ Fitting(t) = {} /\ Dispatched(t) = t
         \/ \E i \in DOMAIN SearchPrefixes :
              /\ i \in Fitting(t) /\ \A j \in Fitting(t) : i <= j
              /\ Len(SearchPrefixes[i]) \in 1..Len(t)
              /\ Dispatched(t) = WithoutPrefix(t, Len(SearchPrefixes[i]))
<1>1. CASE Fitting(t) = {}
  BY <1>1 DEF Dispatched
<1>2. CASE Fitting(t) # {}
  <2> DEFINE i == Min(Fitting(t))
  <2>1. DOMAIN SearchPrefixes \subseteq Nat
    BY DEF SearchPrefixes
  <2>2. i \in Fitting(t) /\ \A j \in Fitting(t) : i <= j
    <3>1. Fitting(t) \in SUBSET Nat
      BY <2>1 DEF Fitting
    <3> QED
      BY <1>2, <3>1, MinIs
  <2>3. i \in DOMAIN SearchPrefixes /\ IsPrefix(SearchPrefixes[i], t)
    BY <2>2 DEF Fitting
  <2>4. Dispatched(t) = WithoutPrefix(t, Len(SearchPrefixes[i]))
    BY <1>2 DEF Dispatched
  <2> HIDE DEF i
  <2>5. Len(SearchPrefixes[i]) \in {1, 2}
    BY <2>3 DEF SearchPrefixes
  <2>6. Len(SearchPrefixes[i]) <= Len(t) /\ Len(t) \in Nat
    BY <2>3, TextIs DEF IsPrefix
  <2>7. Len(SearchPrefixes[i]) \in 1..Len(t)
    <3>1. \A n \in {1, 2}, m \in Nat : n <= m => n \in 1..m
      OBVIOUS
    <3> QED
      BY <2>5, <2>6, <3>1, Zenon
  <2> QED
    BY <2>2, <2>3, <2>4, <2>7, Zenon
<1> QED
  BY <1>1, <1>2

\* CommandDispatcher.dispatch, on a text that was normalized.
LEMMA DispatchedIsPlain ==
  ASSUME NEW t, Plain(t)
  PROVE  Plain(Dispatched(t))
<1>0. t \in Text /\ Len(t) \in Nat /\ Len(t) > 0
  BY TextIs DEF Plain
<1>1. CASE Dispatched(t) = t
  BY <1>1
<1>2. ASSUME NEW n \in 1..Len(t), Dispatched(t) = WithoutPrefix(t, n),
             Dispatched(t) # t
      PROVE  Plain(Dispatched(t))
  <2> DEFINE r == SubSeq(t, n + 1, Len(t))
             u == Trimmed(Blank)[r]
  <2>1. Dispatched(t) = u /\ u # <<>>
    BY <1>2 DEF WithoutPrefix
  <2>2. PartOf(r, t, n) /\ Len(r) = Len(t) - n
    BY <1>0, SubSeqIsPart
  <2> HIDE DEF r
  <2>3. PICK a \in Nat :
          /\ PartOf(u, r, a)
          /\ u # <<>> => Head(u) \notin Blank /\ Last(u) \notin Blank
          /\ \A i \in 1..Len(r) : i <= a \/ i > a + Len(u) => r[i] \in Blank
    BY <2>2, TrimmedIs DEF PartOf
  <2> HIDE DEF u
  <2>4. /\ u \in Text /\ Len(u) \in Nat /\ Len(u) > 0 /\ Head(u) = u[1]
        /\ a + Len(u) <= Len(t) - n
        /\ \A i \in 1..Len(u) : u[i] = t[n + a + i]
    <3>1. u \in Text /\ Len(u) \in Nat /\ Len(u) > 0 /\ Head(u) = u[1]
      BY <2>1, <2>3, TextIs DEF PartOf, Text
    <3>2. a + Len(u) <= Len(r) /\ \A i \in 1..Len(u) : u[i] = r[a + i]
      BY <2>3 DEF PartOf
    <3>3. \A i \in 1..Len(u) : a + i \in 1..Len(r) /\ n + (a + i) = n + a + i
      BY <1>0, <2>2, <3>1, <3>2
    <3>4. \A i \in 1..Len(r) : r[i] = t[n + i]
      BY <2>2 DEF PartOf
    <3> QED
      BY <2>2, <3>1, <3>2, <3>3, <3>4
  <2>5. a + Len(u) = Len(r)
    <3>1. SUFFICES ASSUME a + Len(u) < Len(r)
                   PROVE  FALSE
      BY <1>0, <2>2, <2>4
    <3>2. Len(r) \in 1..Len(r) /\ Len(r) > a + Len(u)
      BY <1>0, <2>2, <2>4, <3>1
    <3>3. r[Len(r)] \in Blank /\ r[Len(r)] = t[n + Len(r)]
      BY <2>2, <2>3, <3>2 DEF PartOf
    <3>4. n + Len(r) = Len(t)
      BY <1>0, <2>2
    <3> QED
      BY <3>3, <3>4 DEF Plain, Last, White, Blank
  <2>6. Last(u) = Last(t)
    <3>1. n + a + Len(u) = Len(t)
      BY <1>0, <2>2, <2>4, <2>5
    <3> QED
      BY <2>4, <3>1 DEF Last
  <2>7. \A i \in 1..Len(u) : n + a + i \in 1..Len(t)
    BY <1>0, <2>4
  <2>8. \A i \in 1..Len(u) : u[i] # "newline"
    BY <2>4, <2>7 DEF Plain
  <2>9. Head(u) \notin White
    BY <2>1, <2>3, <2>4, <2>8 DEF White, Blank
  <2>10. ASSUME NEW i \in 2..Len(u)
         PROVE  {u[i - 1], u[i]} # {"space"}
    <3>1. /\ n + a + i \in 2..Len(t) /\ n + a + (i - 1) = (n + a + i) - 1
          /\ i \in 1..Len(u) /\ i - 1 \in 1..Len(u)
      BY <1>0, <2>4
    <3>2. u[i] = t[n + a + i] /\ u[i - 1] = t[(n + a + i) - 1]
      BY <2>4, <3>1
    <3>3. \A j \in 2..Len(t) : {t[j - 1], t[j]} # {"space"}
      BY DEF Plain
    <3> QED
      BY <3>1, <3>2, <3>3
  <2> QED
    BY <2>1, <2>4, <2>6, <2>8, <2>9, <2>10 DEF Plain
<1> QED
  BY <1>0, <1>1, <1>2, DispatchedIs

-----------------------------------------------------------------------------
(* The text that is sent.                                                  *)

\* What has become of what was said, wherever it stands.
RouteInv ==
  /\ said \in Text
  /\ stage = "normalize" => text = said /\ answer = "none"
  /\ stage = "dispatch" =>
       text = Normalized(said) /\ text # <<>> /\ answer = "none"
  /\ Given =>
       /\ Normalized(said) # <<>>
       /\ text = IF sender = "pipeline" THEN Dispatched(Normalized(said))
                 ELSE Normalized(said)

LEMMA RouteInvariant == SendSpec => []RouteInv
<1>1. SendInit => RouteInv
  BY TextsAssumption DEF SendInit, RouteInv, Given
<1>2. RouteInv /\ [SendNext]_sendVars => RouteInv'
  <2> SUFFICES ASSUME RouteInv, [SendNext]_sendVars
               PROVE  RouteInv'
    OBVIOUS
  <2> USE DEF RouteInv, Given
  <2>1. CASE Normalize
    BY <2>1 DEF Normalize
  <2>2. CASE Dispatch
    BY <2>2 DEF Dispatch
  <2>3. CASE Send
    BY <2>3 DEF Send, routeVars
  <2>4. CASE Answer
    BY <2>4 DEF Answer
  <2>5. CASE UNCHANGED sendVars
    BY <2>5 DEF sendVars, routeVars
  <2> QED
    BY <2>1, <2>2, <2>3, <2>4, <2>5 DEF SendNext, Rests
<1> QED
  BY <1>1, <1>2, PTL DEF SendSpec

\* TextNormalizer and CommandDispatcher: something is left of every text in one
\* line that is sent, of any length and of any characters, and it is plain.
THEOREM TextsArePlain == SendSpec => []SentIsPlain
<1>1. RouteInv => SentIsPlain
  <2> SUFFICES ASSUME RouteInv, Given, OneLine(said)
               PROVE  Plain(text)
    BY DEF SentIsPlain, Plain
  <2>1. Plain(Normalized(said))
    BY NormalizedIsPlain DEF RouteInv
  <2>2. Plain(Dispatched(Normalized(said)))
    BY <2>1, DispatchedIsPlain
  <2> QED
    BY <2>1, <2>2 DEF RouteInv
<1> QED
  BY <1>1, RouteInvariant, PTL

-----------------------------------------------------------------------------
(* The words of a text.                                                    *)

\* Whatever runs through the places of a set from the first one to the last one
\* gives each its rank.
LEMMA Enumerated ==
  ASSUME NEW n \in Nat, NEW K \in SUBSET (1..n), NEW c \in Nat,
         NEW g \in [1..c -> K],
         \A i \in K : \E k \in 1..c : g[k] = i,
         \A k, l \in 1..c : k < l => g[k] < g[l]
  PROVE  Cardinality(K) = c /\ \A k \in 1..c : Place(K, k) = g[k]
<1>0. \A i \in K : i \in Nat
  OBVIOUS
<1>1. ASSUME NEW k \in 1..c
      PROVE  Rank(K, g[k]) = k
  <2> DEFINE B == {j \in K : j <= g[k]}
             h == [l \in 1..k |-> g[l]]
  <2>1. \A l \in 1..k : l \in 1..c /\ g[l] \in K /\ g[l] <= g[k]
    <3>1. \A l \in 1..k : l \in 1..c /\ g[l] \in K /\ (l = k \/ l < k)
      OBVIOUS
    <3>2. \A l \in 1..k : g[l] \in Nat /\ g[k] \in Nat
      BY <1>0, <3>1
    <3>3. \A l \in 1..k : l = k \/ g[l] < g[k]
      BY <3>1
    <3> QED
      BY <3>1, <3>2, <3>3
  <2>2. h \in [1..k -> B]
    BY <2>1
  <2>3. ASSUME NEW i \in B
        PROVE  \E l \in 1..k : h[l] = i
    <3>1. PICK l \in 1..c : g[l] = i
      OBVIOUS
    <3>2. g[k] \in Nat /\ i \in Nat /\ i <= g[k]
      BY <1>0
    <3>3. ~(k < l)
      BY <3>1, <3>2
    <3> QED
      BY <3>1, <3>3
  <2>4. \A l, m \in 1..k : h[l] = h[m] => l = m
    <3>1. \A l, m \in 1..k : l < m => g[l] < g[m] /\ g[l] \in Nat /\ g[m] \in Nat
      BY <1>0, <2>1
    <3>2. \A l, m \in 1..k : l < m \/ m < l \/ l = m
      OBVIOUS
    <3> QED
      BY <3>1, <3>2
  <2> HIDE DEF B, h
  <2>5. h \in Surjection(1..k, B) /\ h \in Injection(1..k, B)
    BY <2>2, <2>3, <2>4 DEF Surjection, Injection, IsInjective
  <2>6. Cardinality(1..k) = k /\ IsFiniteSet(1..k)
    BY FS_Interval
  <2>7. Cardinality(B) = k
    BY <2>5, <2>6, FS_Surjection
  <2> QED
    BY <2>7 DEF B, Rank
<1>2. Cardinality(K) = c
  <2>1. \A l, m \in 1..c : g[l] = g[m] => l = m
    <3>1. \A l, m \in 1..c : l < m => g[l] < g[m] /\ g[l] \in Nat /\ g[m] \in Nat
      BY <1>0
    <3>2. \A l, m \in 1..c : l < m \/ m < l \/ l = m
      OBVIOUS
    <3> QED
      BY <3>1, <3>2
  <2>2. g \in Surjection(1..c, K) /\ g \in Injection(1..c, K)
    BY <2>1 DEF Surjection, Injection, IsInjective
  <2>3. Cardinality(1..c) = c /\ IsFiniteSet(1..c)
    BY FS_Interval
  <2> QED
    BY <2>2, <2>3, FS_Surjection
<1>3. \A k \in 1..c : Place(K, Rank(K, g[k])) = g[k]
  BY Places
<1> QED
  BY <1>1, <1>2, <1>3

\* The places of the words of a text.
WordPlaces(t) == {i \in DOMAIN t : t[i] \notin White \cup Marks}

LEMMA WordsAre ==
  ASSUME NEW t \in Text
  PROVE  /\ WordPlaces(t) \in SUBSET (1..Len(t))
         /\ \A i \in 1..Len(t) :
              i \in WordPlaces(t) <=> t[i] \notin White \cup Marks
         /\ Words(t) \in Text
         /\ Len(Words(t)) = Cardinality(WordPlaces(t))
         /\ Cardinality(WordPlaces(t)) \in Nat
         /\ \A k \in 1..Cardinality(WordPlaces(t)) :
              /\ Place(WordPlaces(t), k) \in WordPlaces(t)
              /\ Words(t)[k] = t[Place(WordPlaces(t), k)]
<1>1. /\ WordPlaces(t) \in SUBSET (1..Len(t))
      /\ \A i \in 1..Len(t) :
           i \in WordPlaces(t) <=> t[i] \notin White \cup Marks
  BY TextIs DEF WordPlaces
<1>2. Words(t) = Kept(t, WordPlaces(t))
  BY DEF Words, WordPlaces
<1> QED
  BY <1>1, <1>2, KeptIs

\* A text has the words of another one if its words are found there, in their
\* order, and no others are.
LEMMA SameWords ==
  ASSUME NEW t \in Text, NEW u \in Text,
         NEW f \in [WordPlaces(t) -> WordPlaces(u)],
         \A j \in WordPlaces(u) : \E i \in WordPlaces(t) : f[i] = j,
         \A i, j \in WordPlaces(t) : i < j => f[i] < f[j],
         \A i \in WordPlaces(t) : u[f[i]] = t[i]
  PROVE  Words(t) = Words(u)
<1> DEFINE K == WordPlaces(t)
           H == WordPlaces(u)
           c == Cardinality(K)
           g == [k \in 1..c |-> f[Place(K, k)]]
<1>1. /\ K \in SUBSET (1..Len(t)) /\ H \in SUBSET (1..Len(u))
      /\ Len(t) \in Nat /\ Len(u) \in Nat /\ c \in Nat
  BY TextIs, WordsAre
<1>2. /\ \A k \in 1..c : Place(K, k) \in K
      /\ \A i \in K : Rank(K, i) \in 1..c /\ Place(K, Rank(K, i)) = i
      /\ \A k, l \in 1..c : k < l => Place(K, k) < Place(K, l)
  BY <1>1, Places, Ranks
<1>3. /\ g \in [1..c -> H]
      /\ \A j \in H : \E k \in 1..c : g[k] = j
      /\ \A k, l \in 1..c : k < l => g[k] < g[l]
  BY <1>2
<1> HIDE DEF c, g
<1>4. Cardinality(H) = c /\ \A k \in 1..c : Place(H, k) = g[k]
  <2> HIDE DEF H, K
  <2>1. PICK n \in Nat : H \in SUBSET (1..n)
    BY <1>1
  <2>2. g \in [1..c -> H] /\ c \in Nat
    BY <1>1, <1>3
  <2>3. \A j \in H : \E k \in 1..c : g[k] = j
    BY <1>3
  <2>4. \A k, l \in 1..c : k < l => g[k] < g[l]
    BY <1>3
  <2> QED
    BY ONLY <2>1, <2>2, <2>3, <2>4, Enumerated, Zenon
<1>5. \A k \in 1..c : u[g[k]] = t[Place(K, k)]
  BY <1>2 DEF g
<1>6. /\ Words(t) \in Text /\ Words(u) \in Text
      /\ Len(Words(t)) = c /\ Len(Words(u)) = c
      /\ \A k \in 1..c : Words(t)[k] = t[Place(K, k)]
      /\ \A k \in 1..c : Words(u)[k] = u[Place(H, k)]
  BY <1>4, WordsAre DEF c
<1> QED
  BY <1>4, <1>5, <1>6, SameText

\* What is taken away at the ends of a text is none of its words.
LEMMA PieceWords ==
  ASSUME NEW t \in Text, NEW u, NEW a, PartOf(u, t, a),
         \A i \in 1..Len(t) :
           i <= a \/ i > a + Len(u) => t[i] \in White \cup Marks
  PROVE  Words(u) = Words(t)
<1> DEFINE H == WordPlaces(u)
           K == WordPlaces(t)
           f == [i \in H |-> a + i]
<1>1. /\ u \in Text /\ a \in Nat /\ Len(t) \in Nat /\ Len(u) \in Nat
      /\ a + Len(u) <= Len(t)
      /\ \A i \in 1..Len(u) : a + i \in 1..Len(t) /\ u[i] = t[a + i]
  BY TextIs DEF PartOf
<1>2. /\ \A i \in H : i \in 1..Len(u)
      /\ \A i \in K : i \in 1..Len(t)
      /\ \A i \in 1..Len(u) : i \in H <=> u[i] \notin White \cup Marks
      /\ \A i \in 1..Len(t) : i \in K <=> t[i] \notin White \cup Marks
  BY <1>1, WordsAre
<1> HIDE DEF H, K
<1>3. \A i \in H : a + i \in K
  BY <1>1, <1>2
<1>4. ASSUME NEW j \in K
      PROVE  \E i \in H : f[i] = j
  <2>1. j \in 1..Len(t) /\ ~(j <= a) /\ ~(j > a + Len(u))
    BY <1>2
  <2>2. j - a \in 1..Len(u) /\ a + (j - a) = j
    BY <1>1, <2>1
  <2>3. j - a \in H
    BY <1>1, <1>2, <2>2
  <2> QED
    BY <2>2, <2>3
<1>5. /\ f \in [H -> K]
      /\ \A i, j \in H : i < j => f[i] < f[j]
      /\ \A i \in H : t[f[i]] = u[i]
  BY <1>1, <1>2, <1>3
<1> HIDE DEF f
<1> QED
  BY <1>1, <1>4, <1>5, SameWords DEF H, K

\* The spaces that single spacing takes away are none of the words.
LEMMA SpacedWords ==
  ASSUME NEW t \in Text
  PROVE  SingleSpaced[t] \in Text /\ Words(SingleSpaced[t]) = Words(t)
<1> DEFINE K == {i \in DOMAIN t : i = 1 \/ {t[i - 1], t[i]} # {"space"}}
           s == SingleSpaced[t]
           f == [i \in WordPlaces(t) |-> Rank(K, i)]
<1>1. /\ Len(t) \in Nat /\ DOMAIN t = 1..Len(t)
      /\ WordPlaces(t) \in SUBSET (1..Len(t))
      /\ \A i \in 1..Len(t) : i \in WordPlaces(t) <=> t[i] \notin White \cup Marks
  BY TextIs, WordsAre
<1>2. K \in SUBSET (1..Len(t)) /\ WordPlaces(t) \subseteq K
  BY <1>1 DEF White
<1>3. s = Kept(t, K)
  BY DEF SingleSpaced
<1> HIDE DEF K, s
<1>4. /\ s \in Text /\ Len(s) = Cardinality(K) /\ Cardinality(K) \in Nat
      /\ \A k \in 1..Cardinality(K) :
           Place(K, k) \in 1..Len(t) /\ s[k] = t[Place(K, k)]
  BY <1>2, <1>3, KeptIs
<1>5. /\ \A i \in K : Rank(K, i) \in 1..Cardinality(K) /\ Place(K, Rank(K, i)) = i
      /\ \A i, j \in K : i < j => Rank(K, i) < Rank(K, j)
      /\ \A k \in 1..Cardinality(K) : Rank(K, Place(K, k)) = k
  BY <1>1, <1>2, Ranks, Places
<1>6. \A k \in 1..Len(s) : k \in WordPlaces(s) <=> s[k] \notin White \cup Marks
  BY <1>4, WordsAre
<1>7. \A i \in WordPlaces(t) : Rank(K, i) \in 1..Len(s) /\ s[Rank(K, i)] = t[i]
  BY <1>2, <1>4, <1>5
<1>8. \A i \in WordPlaces(t) : Rank(K, i) \in WordPlaces(s)
  BY <1>1, <1>6, <1>7
<1>9. ASSUME NEW k \in WordPlaces(s)
      PROVE  \E i \in WordPlaces(t) : f[i] = k
  <2>1. k \in 1..Len(s)
    BY <1>4, WordsAre
  <2>2. Place(K, k) \in 1..Len(t) /\ t[Place(K, k)] \notin White \cup Marks
    BY <1>4, <1>6, <2>1
  <2>3. Place(K, k) \in WordPlaces(t) /\ Rank(K, Place(K, k)) = k
    BY <1>1, <1>4, <1>5, <2>1, <2>2
  <2> QED
    BY <2>3
<1>10. /\ f \in [WordPlaces(t) -> WordPlaces(s)]
       /\ \A i, j \in WordPlaces(t) : i < j => f[i] < f[j]
       /\ \A i \in WordPlaces(t) : s[f[i]] = t[i]
  BY <1>2, <1>5, <1>7, <1>8
<1> HIDE DEF f
<1>11. Words(t) = Words(s)
  BY <1>4, <1>9, <1>10, SameWords
<1> QED
  BY <1>4, <1>11 DEF s

\* Normalizing takes no word away and adds none.
LEMMA NormalizedKeepsWords ==
  ASSUME NEW t \in Text
  PROVE  Normalized(t) \in Text /\ Words(Normalized(t)) = Words(t)
<1>1. ASSUME NEW u \in Text
      PROVE  Trimmed(White)[u] \in Text /\ Words(Trimmed(White)[u]) = Words(u)
  <2>1. PICK a \in Nat :
          /\ PartOf(Trimmed(White)[u], u, a)
          /\ \A i \in 1..Len(u) :
               i <= a \/ i > a + Len(Trimmed(White)[u]) => u[i] \in White
    BY TrimmedIs
  <2> QED
    BY <2>1, PieceWords DEF PartOf
<1>2. ASSUME NEW u \in Text
      PROVE  WithoutMarks[u] \in Text /\ Words(WithoutMarks[u]) = Words(u)
  <2>1. /\ PartOf(WithoutMarks[u], u, 0)
        /\ \A i \in 1..Len(u) :
             i > Len(WithoutMarks[u]) => u[i] \in Marks \cup Blank
    BY WithoutMarksIs
  <2>2. \A i \in 1..Len(u) : i <= 0 \/ i > 0 + Len(WithoutMarks[u])
          => u[i] \in White \cup Marks
    <3>1. Len(WithoutMarks[u]) \in Nat /\ Len(u) \in Nat
      BY <2>1, TextIs DEF PartOf
    <3> QED
      BY <2>1, <3>1 DEF White, Blank
  <2> QED
    BY <2>1, <2>2, PieceWords DEF PartOf
<1> QED
  BY <1>1, <1>2, SpacedWords DEF Normalized

-----------------------------------------------------------------------------
(* The command of a text.                                                  *)

LEMMA ShortSequences ==
  ASSUME NEW S, NEW x \in S, NEW y \in S
  PROVE  /\ <<x>> \in Seq(S) /\ Len(<<x>>) = 1 /\ <<x>>[1] = x
         /\ <<x, y>> \in Seq(S) /\ Len(<<x, y>>) = 2
         /\ <<x, y>>[1] = x /\ <<x, y>>[2] = y
OBVIOUS

PrefixWords == {"sou", "suo", "kan", "zhao", "cha", "bo", "fang"}

\* The search prefixes are of one or two words, and of those that begin with
\* the same word the longer one is first.
LEMMA PrefixesAre ==
  /\ DOMAIN SearchPrefixes = 1..7
  /\ \A i \in 1..7 :
       /\ SearchPrefixes[i] \in Seq(PrefixWords)
       /\ Len(SearchPrefixes[i]) \in {1, 2}
       /\ \A k \in 1..Len(SearchPrefixes[i]) :
            SearchPrefixes[i][k] \notin White \cup Marks
  /\ \A i, j \in 1..7 :
       i < j /\ SearchPrefixes[i][1] = SearchPrefixes[j][1] =>
         Len(SearchPrefixes[i]) >= Len(SearchPrefixes[j])
<1>1. DOMAIN SearchPrefixes = 1..7
  BY DEF SearchPrefixes
<1>2. /\ SearchPrefixes[1] = <<"sou", "suo">>
      /\ SearchPrefixes[2] = <<"sou">>
      /\ SearchPrefixes[3] = <<"kan">>
      /\ SearchPrefixes[4] = <<"zhao">>
      /\ SearchPrefixes[5] = <<"cha">>
      /\ SearchPrefixes[6] = <<"bo", "fang">>
      /\ SearchPrefixes[7] = <<"fang">>
  BY DEF SearchPrefixes
<1>3. ASSUME NEW i \in 1..7
      PROVE  /\ SearchPrefixes[i] \in Seq(PrefixWords)
             /\ Len(SearchPrefixes[i]) \in {1, 2}
             /\ \A k \in 1..Len(SearchPrefixes[i]) :
                  SearchPrefixes[i][k] \notin White \cup Marks
  <2>1. i = 1 \/ i = 2 \/ i = 3 \/ i = 4 \/ i = 5 \/ i = 6 \/ i = 7
    OBVIOUS
  <2>2. ASSUME NEW x \in PrefixWords, x \notin White \cup Marks,
               SearchPrefixes[i] = <<x>>
        PROVE  /\ SearchPrefixes[i] \in Seq(PrefixWords)
               /\ Len(SearchPrefixes[i]) \in {1, 2}
               /\ \A k \in 1..Len(SearchPrefixes[i]) :
                    SearchPrefixes[i][k] \notin White \cup Marks
    <3>1. <<x>> \in Seq(PrefixWords) /\ Len(<<x>>) = 1 /\ <<x>>[1] = x
      BY ShortSequences
    <3>2. \A k \in 1..1 : k = 1
      OBVIOUS
    <3> QED
      BY <2>2, <3>1, <3>2
  <2>3. ASSUME NEW x \in PrefixWords, NEW y \in PrefixWords,
               x \notin White \cup Marks, y \notin White \cup Marks,
               SearchPrefixes[i] = <<x, y>>
        PROVE  /\ SearchPrefixes[i] \in Seq(PrefixWords)
               /\ Len(SearchPrefixes[i]) \in {1, 2}
               /\ \A k \in 1..Len(SearchPrefixes[i]) :
                    SearchPrefixes[i][k] \notin White \cup Marks
    <3>1. /\ <<x, y>> \in Seq(PrefixWords) /\ Len(<<x, y>>) = 2
          /\ <<x, y>>[1] = x /\ <<x, y>>[2] = y
      BY ShortSequences
    <3>2. \A k \in 1..2 : k = 1 \/ k = 2
      OBVIOUS
    <3> QED
      BY <2>3, <3>1, <3>2
  <2>4. \A x \in PrefixWords : x \notin White \cup Marks
    BY DEF PrefixWords, White, Marks
  <2> QED
    BY <1>2, <2>1, <2>2, <2>3, <2>4 DEF PrefixWords
<1>4. ASSUME NEW i \in 1..7, NEW j \in 1..7, i < j,
             SearchPrefixes[i][1] = SearchPrefixes[j][1]
      PROVE  Len(SearchPrefixes[i]) >= Len(SearchPrefixes[j])
  <2>1. i = 1 \/ i = 2 \/ i = 3 \/ i = 4 \/ i = 5 \/ i = 6 \/ i = 7
    OBVIOUS
  <2>2. j = 1 \/ j = 2 \/ j = 3 \/ j = 4 \/ j = 5 \/ j = 6 \/ j = 7
    OBVIOUS
  <2>3. /\ SearchPrefixes[1][1] = "sou" /\ SearchPrefixes[2][1] = "sou"
        /\ SearchPrefixes[3][1] = "kan" /\ SearchPrefixes[4][1] = "zhao"
        /\ SearchPrefixes[5][1] = "cha" /\ SearchPrefixes[6][1] = "bo"
        /\ SearchPrefixes[7][1] = "fang"
    BY <1>2
  <2>4. Len(SearchPrefixes[1]) = 2 /\ Len(SearchPrefixes[2]) = 1
    BY <1>2
  <2>5. i = 1 /\ j = 2
    BY <1>4, <2>1, <2>2, <2>3
  <2>6. Len(SearchPrefixes[i]) = 2 /\ Len(SearchPrefixes[j]) = 1
    BY <2>4, <2>5
  <2>7. 2 >= 1
    OBVIOUS
  <2> QED
    BY <2>6, <2>7
<1> QED
  BY <1>1, <1>3, <1>4

LEMMA PrefixIs ==
  ASSUME NEW p \in Seq(PrefixWords), NEW t \in Text
  PROVE  /\ IsPrefix(p, t) <=>
              Len(p) <= Len(t) /\ \A i \in 1..Len(p) : p[i] = t[i]
         /\ IsPrefix(p, t) => p \in Text
<1> DEFINE S == PrefixWords \cup STRING
           n == Len(p)
           q == SubSeq(p, 1, n)
           r == SubSeq(t, 1, n)
<1>0. n \in Nat /\ Len(t) \in Nat /\ t \in Seq(STRING)
  BY TextIs DEF Text
<1>1. q = p
  <2>1. \A i \in 1..n : p[i] \in PrefixWords
    OBVIOUS
  <2>2. /\ q \in Seq(PrefixWords) /\ Len(q) = IF 1 <= n THEN n - 1 + 1 ELSE 0
        /\ \A i \in 1..(n - 1 + 1) : q[i] = p[1 + i - 1]
    BY <1>0, <2>1, SubSeqProperties
  <2> HIDE DEF q
  <2>3. Len(q) = n /\ \A i \in 1..n : q[i] = p[i]
    BY <1>0, <2>2
  <2> QED
    BY <2>2, <2>3, SeqEqual
<1>2. ASSUME n <= Len(t)
      PROVE  r \in Text /\ Len(r) = n /\ \A i \in 1..n : r[i] = t[i]
  <2>1. n \in 0..Len(t)
    BY <1>0, <1>2
  <2>2. PartOf(SubSeq(t, 0 + 1, n), t, 0) /\ Len(SubSeq(t, 0 + 1, n)) = n - 0
    BY <2>1, SubSeqIsPart
  <2>3. 0 + 1 = 1 /\ n - 0 = n /\ \A i \in 1..n : 0 + i = i
    BY <1>0
  <2> QED
    BY <2>2, <2>3 DEF PartOf
<1>3. IsPrefix(p, t) <=> n <= Len(t) /\ p = r
  BY <1>1 DEF IsPrefix
<1> HIDE DEF n, r
<1>4. ASSUME n <= Len(t), \A i \in 1..n : p[i] = t[i]
      PROVE  p = r
  <2>1. p \in Seq(S) /\ r \in Seq(S)
    BY <1>2, <1>4, SeqMonotonic DEF Text
  <2> HIDE DEF S
  <2> QED
    BY <1>2, <1>4, <2>1, SeqEqual DEF n
<1> QED
  BY <1>2, <1>3, <1>4 DEF n

\* Single spacing leaves the first two characters of a text alone, if the first
\* one is not a space.
LEMMA SpacedStart ==
  ASSUME NEW t \in Text, t # <<>>, t[1] # "space"
  PROVE  /\ Len(SingleSpaced[t]) > 0 /\ SingleSpaced[t][1] = t[1]
         /\ Len(SingleSpaced[t]) >= 2 <=> Len(t) >= 2
         /\ Len(t) >= 2 => SingleSpaced[t][2] = t[2]
<1> DEFINE K == {i \in DOMAIN t : i = 1 \/ {t[i - 1], t[i]} # {"space"}}
           c == Cardinality(K)
           s == SingleSpaced[t]
<1>0. Len(t) \in Nat /\ Len(t) > 0 /\ DOMAIN t = 1..Len(t)
  BY TextIs
<1>1. K \in SUBSET (1..Len(t)) /\ 1 \in K /\ (Len(t) >= 2 => 2 \in K)
  BY <1>0
<1>2. s = Kept(t, K)
  BY DEF SingleSpaced
<1> HIDE DEF K, s
<1>3. /\ Len(s) = c /\ c \in Nat
      /\ \A k \in 1..c :
           Place(K, k) \in 1..Len(t) /\ s[k] = t[Place(K, k)]
  BY <1>1, <1>2, KeptIs
<1>4. 1 \in 1..c /\ Place(K, 1) = 1
  BY <1>0, <1>1, PlacesInOrder
<1>p. /\ \A k, l \in 1..c : k < l => Place(K, k) < Place(K, l)
      /\ \A i \in K : Rank(K, i) \in 1..c
      /\ \A i, j \in K : i < j => Rank(K, i) < Rank(K, j)
      /\ \A k \in 2..c, i \in K : i <= Place(K, k - 1) \/ i >= Place(K, k)
  BY <1>0, <1>1, Places, Ranks, PlacesInOrder
<1> HIDE DEF c
<1>5. ASSUME c >= 2
      PROVE  Len(t) >= 2
  <2>1. 2 \in 1..c /\ 1 \in 1..c /\ 1 < 2
    BY <1>3, <1>5
  <2>3. Place(K, 1) < Place(K, 2)
    BY <1>p, <2>1
  <2>2. Place(K, 2) \in 1..Len(t)
    BY <1>3, <2>1
  <2> QED
    BY <1>0, <1>4, <2>2, <2>3
<1>6. ASSUME Len(t) >= 2
      PROVE  c >= 2 /\ Place(K, 2) = 2
  <2>1. Rank(K, 1) < Rank(K, 2) /\ Rank(K, 1) \in 1..c /\ Rank(K, 2) \in 1..c
    BY <1>1, <1>6, <1>p
  <2>2. c >= 2 /\ 2 \in 1..c /\ 2 \in 2..c
    BY <1>3, <2>1
  <2>3. Place(K, 1) < Place(K, 2) /\ Place(K, 2) \in 1..Len(t)
    BY <1>3, <1>4, <1>p, <2>2
  <2>4. 2 <= Place(K, 2 - 1) \/ 2 >= Place(K, 2)
    BY <1>1, <1>6, <1>p, <2>2
  <2> QED
    BY <1>4, <2>2, <2>3, <2>4
<1> QED
  BY <1>3, <1>4, <1>5, <1>6 DEF s

\* A text begins with a search prefix before it is normalized just when it does
\* so then.
LEMMA SamePrefixes ==
  ASSUME NEW t \in Text, OneLine(t), Normalized(t) # <<>>, NEW i \in 1..7
  PROVE  IsPrefix(SearchPrefixes[i], Trimmed(White)[t]) <=>
           IsPrefix(SearchPrefixes[i], Normalized(t))
<1> DEFINE p == SearchPrefixes[i]
           u == Trimmed(White)[t]
           w == WithoutMarks[u]
           n == Normalized(t)
<1>1. /\ p \in Seq(PrefixWords) /\ (Len(p) = 1 \/ Len(p) = 2)
      /\ \A k \in 1..Len(p) : p[k] \notin White \cup Marks
  BY PrefixesAre
<1>2. u \in Text
  BY TrimmedIs DEF PartOf
<1>3. n \in Text /\ n = SingleSpaced[w] /\ w # <<>> /\ w[1] # "space"
  BY NormalizedIsPlain DEF Plain
<1> HIDE DEF p, u, n
<1>4. /\ PartOf(w, u, 0)
      /\ \A k \in 1..Len(u) : k > Len(w) => u[k] \in Marks \cup Blank
  BY <1>2, WithoutMarksIs
<1> HIDE DEF w
<1>5. /\ w \in Text /\ Len(w) \in Nat /\ Len(u) \in Nat /\ Len(w) <= Len(u)
      /\ Len(n) \in Nat /\ Len(w) > 0
      /\ \A k \in 1..Len(w) : w[k] = u[k]
  BY <1>2, <1>3, <1>4, TextIs DEF PartOf
<1>6. /\ Len(n) > 0 /\ n[1] = u[1]
      /\ Len(n) >= 2 <=> Len(w) >= 2
      /\ Len(w) >= 2 => n[2] = u[2]
  BY <1>3, <1>5, SpacedStart
<1>7. /\ IsPrefix(p, u) <=> Len(p) <= Len(u) /\ \A k \in 1..Len(p) : p[k] = u[k]
      /\ IsPrefix(p, n) <=> Len(p) <= Len(n) /\ \A k \in 1..Len(p) : p[k] = n[k]
  BY <1>1, <1>2, <1>3, PrefixIs
<1>8. ASSUME Len(p) <= Len(u), \A k \in 1..Len(p) : p[k] = u[k]
      PROVE  Len(p) <= Len(w)
  <2>0. \A k \in {1, 2}, m \in Nat : k <= m => k \in 1..m /\ k \in 1..k /\ k \in Nat
    OBVIOUS
  <2>1. Len(p) \in 1..Len(p) /\ Len(p) \in 1..Len(u) /\ Len(p) \in Nat
    BY <1>1, <1>5, <1>8, <2>0, Zenon
  <2>2. u[Len(p)] \notin White \cup Marks
    BY <1>1, <1>8, <2>1
  <2>3. ~(Len(p) > Len(w))
    BY <1>4, <2>1, <2>2 DEF White, Blank
  <2> QED
    BY <1>5, <2>1, <2>3
<1>9. CASE Len(p) = 1
  BY <1>5, <1>6, <1>7, <1>9 DEF p, n, u
<1>10. CASE Len(p) = 2
  <2>1. \A k \in 1..2 : k = 1 \/ k = 2
    OBVIOUS
  <2> QED
    BY <1>5, <1>6, <1>7, <1>8, <1>10, <2>1 DEF p, n, u
<1> QED
  BY <1>1, <1>9, <1>10

\* The command of a text is the search prefix that is taken off.
LEMMA CommandIs ==
  ASSUME NEW t \in Text, OneLine(t), Normalized(t) # <<>>
  PROVE  /\ Fitting(Normalized(t)) = {} => Command(t) = <<>>
         /\ \A i \in Fitting(Normalized(t)) :
              (\A j \in Fitting(Normalized(t)) : i <= j) =>
                Command(t) = SearchPrefixes[i]
<1> DEFINE n == Normalized(t)
           fits == {p \in Range(SearchPrefixes) : IsPrefix(p, Trimmed(White)[t])}
<1>1. \A i \in 1..7 : IsPrefix(SearchPrefixes[i], Trimmed(White)[t])
                        <=> IsPrefix(SearchPrefixes[i], n)
  BY SamePrefixes
<1>2. n \in Text
  BY NormalizedIsPlain DEF Plain
<1> HIDE DEF n
<1>3. \A i : i \in Fitting(n) <=> i \in 1..7 /\ IsPrefix(SearchPrefixes[i], n)
  BY PrefixesAre DEF Fitting
<1>4. \A q : q \in fits <=> \E j \in Fitting(n) : q = SearchPrefixes[j]
  BY <1>1, <1>3, PrefixesAre DEF Range
<1>5. Command(t) = IF fits = {} THEN <<>>
                   ELSE CHOOSE p \in fits : \A q \in fits : Len(p) >= Len(q)
  BY DEF Command
<1> HIDE DEF fits
<1>6. Fitting(n) = {} => Command(t) = <<>>
  BY <1>4, <1>5
<1>7. ASSUME NEW i \in Fitting(n), \A j \in Fitting(n) : i <= j
      PROVE  Command(t) = SearchPrefixes[i]
  <2> DEFINE p == SearchPrefixes[i]
  <2>1. \A j \in Fitting(n) :
          /\ SearchPrefixes[j] \in Seq(PrefixWords)
          /\ Len(SearchPrefixes[j]) = 1 \/ Len(SearchPrefixes[j]) = 2
          /\ \A k \in 1..Len(SearchPrefixes[j]) : SearchPrefixes[j][k] = n[k]
    BY <1>2, <1>3, PrefixesAre, PrefixIs
  <2>2. ASSUME NEW j \in Fitting(n)
        PROVE  Len(p) >= Len(SearchPrefixes[j])
    <3>1. i \in 1..7 /\ j \in 1..7 /\ i <= j
      BY <1>3, <1>7
    <3>2. SearchPrefixes[i][1] = n[1] /\ SearchPrefixes[j][1] = n[1]
      BY <2>1
    <3>3. CASE i = j
      BY <2>1, <3>3
    <3>4. CASE i < j
      BY <3>1, <3>2, <3>4, PrefixesAre
    <3> QED
      BY <3>1, <3>3, <3>4
  <2>3. ASSUME NEW j \in Fitting(n), Len(SearchPrefixes[j]) >= Len(p)
        PROVE  SearchPrefixes[j] = p
    <3>1. Len(SearchPrefixes[j]) = Len(p)
      BY <2>1, <2>2, <2>3
    <3> QED
      BY <2>1, <3>1, SeqEqual
  <2> HIDE DEF p
  <2>4. /\ p \in fits /\ \A q \in fits : Len(p) >= Len(q)
        /\ \A q \in fits : Len(q) >= Len(p) => q = p
    BY <1>4, <2>2, <2>3 DEF p
  <2> QED
    BY <1>5, <2>4 DEF p
<1> QED
  BY <1>6, <1>7 DEF n

\* A text that ends with a word has one, and an empty one has none.
LEMMA SomeWords ==
  /\ <<>> \in Text /\ Words(<<>>) = <<>>
  /\ \A t \in Text :
       Len(t) > 0 /\ t[Len(t)] \notin White \cup Marks => Len(Words(t)) > 0
<1>1. <<>> \in Text /\ Len(<<>>) = 0
  BY DEF Text
<1>2. Words(<<>>) = <<>>
  <2>1. WordPlaces(<<>>) = {}
    BY DEF WordPlaces
  <2>2. Len(Words(<<>>)) = 0 /\ Words(<<>>) \in Text
    BY <1>1, <2>1, WordsAre, FS_EmptySet
  <2> QED
    BY <2>2, TextIs
<1>3. ASSUME NEW t \in Text, Len(t) > 0, t[Len(t)] \notin White \cup Marks
      PROVE  Len(Words(t)) > 0
  <2>1. /\ Len(t) \in Nat /\ Len(t) \in 1..Len(t)
        /\ WordPlaces(t) \in SUBSET (1..Len(t))
    BY <1>3, TextIs, WordsAre
  <2>2. Len(t) \in WordPlaces(t)
    BY <1>3, <2>1, WordsAre
  <2>3. Rank(WordPlaces(t), Len(t)) \in 1..Cardinality(WordPlaces(t))
    BY <2>1, <2>2, Ranks
  <2>4. Cardinality(WordPlaces(t)) \in Nat /\ Len(Words(t)) = Cardinality(WordPlaces(t))
    BY WordsAre
  <2> QED
    BY <2>3, <2>4
<1> QED
  BY <1>1, <1>2, <1>3

\* The words of a text are those of the search prefix it begins with, and then
\* those of what is behind it.
LEMMA BehindPrefix ==
  ASSUME NEW t \in Text, NEW p \in Seq(PrefixWords), IsPrefix(p, t),
         \A j \in 1..Len(p) : p[j] \notin White \cup Marks,
         NEW r, PartOf(r, t, Len(p)), Len(r) = Len(t) - Len(p)
  PROVE  Words(t) = p \o Words(r)
<1> DEFINE k == Len(p)
           K == WordPlaces(t)
           H == WordPlaces(r)
           c == Cardinality(H)
           g == [j \in 1..(k + c) |-> IF j <= k THEN j ELSE k + Place(H, j - k)]
           n == Len(t)
           m == Len(r)
<1>1. /\ k \in Nat /\ n \in Nat /\ m \in Nat /\ k + m = n /\ p \in Text
      /\ r \in Text /\ c \in Nat
      /\ \A j \in 1..k : p[j] = t[j] /\ p[j] \notin White \cup Marks
      /\ \A j \in 1..m : r[j] = t[k + j]
  <2>1. r \in Text /\ k \in Nat /\ p \in Text
    BY PrefixIs DEF PartOf
  <2>2. n \in Nat /\ m \in Nat /\ c \in Nat
    BY <2>1, TextIs, WordsAre
  <2>3. \A j \in 1..k : p[j] = t[j]
    BY PrefixIs
  <2>4. \A j \in 1..m : r[j] = t[k + j]
    BY DEF PartOf
  <2>5. m = n - k
    OBVIOUS
  <2> HIDE DEF m, n, k
  <2>6. k + m = n
    BY <2>1, <2>2, <2>5
  <2> QED
    BY <2>1, <2>2, <2>3, <2>4, <2>6 DEF k
<1>2. /\ K \in SUBSET (1..n) /\ H \in SUBSET (1..m)
      /\ \A j \in 1..n : j \in K <=> t[j] \notin White \cup Marks
      /\ \A j \in 1..m : j \in H <=> r[j] \notin White \cup Marks
      /\ Words(t) \in Text /\ Words(r) \in Text
      /\ Len(Words(t)) = Cardinality(K) /\ Len(Words(r)) = c
      /\ \A l \in 1..Cardinality(K) : Words(t)[l] = t[Place(K, l)]
      /\ \A l \in 1..c : Words(r)[l] = r[Place(H, l)]
  BY <1>1, WordsAre
<1>3. /\ \A l \in 1..c : Place(H, l) \in H /\ Place(H, l) \in 1..m
      /\ \A l, h \in 1..c : l < h => Place(H, l) < Place(H, h)
      /\ \A j \in H : Rank(H, j) \in 1..c /\ Place(H, Rank(H, j)) = j
  BY <1>1, <1>2, Places, Ranks
<1>p. PICK P \in [1..c -> 1..m] : \A l \in 1..c : P[l] = Place(H, l)
  <2>1. [l \in 1..c |-> Place(H, l)] \in [1..c -> 1..m]
    BY <1>3
  <2> QED
    BY <2>1
<1>4. g = [j \in 1..(k + c) |-> IF j <= k THEN j ELSE k + P[j - k]]
  <2>1. \A j \in 1..(k + c) : ~(j <= k) => j - k \in 1..c
    BY <1>1
  <2> QED
    BY <1>p, <2>1
<1> HIDE DEF g, k, c, n, m, K, H
<1>5. \A j \in 1..(k + c) :
        \/ j \in 1..k /\ g[j] = j
        \/ j - k \in 1..c /\ ~(j <= k) /\ g[j] = k + P[j - k]
  BY <1>1, <1>4
<1>6. \A l \in 1..c : P[l] \in H /\ P[l] \in 1..m
  BY <1>3, <1>p
<1>7. g \in [1..(k + c) -> K]
  <2>1. \A j \in 1..k : j \in K
    <3>1. \A j \in 1..k : j \in 1..n
      BY <1>1
    <3> QED
      BY <1>1, <1>2, <3>1
  <2>2. \A j \in H : j \in 1..m /\ k + j \in K
    <3>1. \A j \in 1..m : k + j \in 1..n
      BY <1>1
    <3> QED
      BY <1>1, <1>2, <3>1
  <2>3. \A j \in 1..(k + c) : g[j] \in K
    BY <1>5, <1>6, <2>1, <2>2
  <2> QED
    BY <1>4, <2>3
<1>8. ASSUME NEW i \in K
      PROVE  \E j \in 1..(k + c) : g[j] = i
  <2>1. i \in 1..n
    BY <1>2
  <2>2. CASE i <= k
    <3>1. i \in 1..(k + c)
      BY <1>1, <2>1, <2>2
    <3> QED
      BY <1>4, <2>2, <3>1
  <2>3. CASE ~(i <= k)
    <3>1. i - k \in 1..m /\ k + (i - k) = i
      BY <1>1, <2>1, <2>3
    <3>2. i - k \in H
      BY <1>1, <1>2, <2>1, <3>1
    <3>3. PICK l \in 1..c : P[l] = i - k
      BY <1>3, <1>p, <3>2
    <3>4. k + l \in 1..(k + c) /\ ~(k + l <= k) /\ (k + l) - k = l
      BY <1>1
    <3>5. g[k + l] = k + P[l]
      BY <1>4, <3>4
    <3> QED
      BY <3>1, <3>3, <3>4, <3>5
  <2> QED
    BY <2>2, <2>3
<1>9. ASSUME NEW i \in 1..(k + c), NEW j \in 1..(k + c), i < j
      PROVE  g[i] < g[j]
  <2>1. \A l, h \in 1..c : l < h => P[l] < P[h]
    BY <1>3, <1>p
  <2>2. CASE j <= k
    BY <1>1, <1>4, <1>9, <2>2
  <2>3. CASE i <= k /\ ~(j <= k)
    <3>1. g[i] = i /\ g[j] = k + P[j - k] /\ P[j - k] \in 1..m
      BY <1>1, <1>4, <1>5, <1>6, <2>3
    <3> QED
      BY <1>1, <2>3, <3>1
  <2>4. CASE ~(i <= k)
    <3>1. i - k \in 1..c /\ j - k \in 1..c /\ i - k < j - k /\ ~(j <= k)
      BY <1>1, <1>9, <2>4
    <3>2. g[i] = k + P[i - k] /\ g[j] = k + P[j - k]
      BY <1>4, <2>4, <3>1
    <3>3. P[i - k] < P[j - k] /\ P[i - k] \in 1..m /\ P[j - k] \in 1..m
      BY <1>6, <2>1, <3>1
    <3> QED
      BY <1>1, <3>2, <3>3
  <2> QED
    BY <2>2, <2>3, <2>4
<1>10. Cardinality(K) = k + c /\ \A l \in 1..(k + c) : Place(K, l) = g[l]
  <2>1. k + c \in Nat
    BY <1>1
  <2>2. \A i \in K : \E j \in 1..(k + c) : g[j] = i
    BY <1>8
  <2>3. \A i, j \in 1..(k + c) : i < j => g[i] < g[j]
    BY <1>9
  <2>4. n \in Nat /\ K \in SUBSET (1..n)
    BY <1>1, <1>2
  <2> QED
    BY ONLY <1>7, <2>1, <2>2, <2>3, <2>4, Enumerated, Zenon
<1> DEFINE q == p \o Words(r)
<1>11. /\ q \in Text /\ Len(q) = k + c
       /\ \A j \in 1..(k + c) :
            q[j] = IF j <= k THEN p[j] ELSE Words(r)[j - k]
  <2>1. p \in Seq(STRING) /\ Words(r) \in Seq(STRING)
    BY <1>1, <1>2 DEF Text
  <2> QED
    BY <1>2, <2>1, ConcatProperties DEF Text, k
<1> HIDE DEF q
<1>12. \A j \in 1..(k + c) : Words(t)[j] = q[j]
  <2> SUFFICES ASSUME NEW j \in 1..(k + c)
               PROVE  Words(t)[j] = q[j]
    OBVIOUS
  <2>1. Words(t)[j] = t[g[j]]
    BY <1>2, <1>10
  <2>2. CASE j <= k
    <3>1. j \in 1..k /\ g[j] = j
      BY <1>1, <1>4, <2>2
    <3> QED
      BY <1>1, <1>11, <2>1, <2>2, <3>1
  <2>3. CASE ~(j <= k)
    <3>1. j - k \in 1..c /\ g[j] = k + P[j - k]
      BY <1>1, <1>4, <2>3
    <3>2. Words(r)[j - k] = r[P[j - k]] /\ P[j - k] \in 1..m
      BY <1>2, <1>6, <1>p, <3>1
    <3>3. r[P[j - k]] = t[k + P[j - k]]
      BY <1>1, <3>2
    <3> QED
      BY <1>11, <2>1, <2>3, <3>1, <3>2, <3>3
  <2> QED
    BY <2>2, <2>3
<1> QED
  BY <1>2, <1>10, <1>11, <1>12, SameText DEF q

\* What the dispatcher makes of a text keeps its words but for its command.
LEMMA DispatchedKeepsWords ==
  ASSUME NEW t \in Text, OneLine(t), Normalized(t) # <<>>
  PROVE  LET d == Dispatched(Normalized(t))
         IN  IF Words(t) # Command(t) THEN Words(t) = Command(t) \o Words(d)
             ELSE Words(d) = Words(t)
<1> DEFINE n == Normalized(t)
           d == Dispatched(n)
<1>1. /\ n \in Text /\ n # <<>> /\ n[Len(n)] \notin White \cup Marks
      /\ Words(n) = Words(t) /\ Len(n) \in Nat
  BY NormalizedIsPlain, NormalizedKeepsWords, TextIs DEF Plain, Last
<1>2. /\ Fitting(n) = {} => Command(t) = <<>>
      /\ \A i \in Fitting(n) :
           (\A j \in Fitting(n) : i <= j) => Command(t) = SearchPrefixes[i]
  BY CommandIs
<1> HIDE DEF n, d
<1>3. CASE Fitting(n) = {} /\ d = n
  <2>1. Command(t) = <<>> /\ Words(n) \in Seq(STRING)
    BY <1>1, <1>2, <1>3, WordsAre DEF Text
  <2>2. <<>> \o Words(n) = Words(n)
    BY <2>1, ConcatEmptySeq
  <2> QED
    BY <1>1, <1>3, <2>1, <2>2 DEF d, n
<1>4. ASSUME NEW i \in DOMAIN SearchPrefixes, i \in Fitting(n),
             \A j \in Fitting(n) : i <= j,
             Len(SearchPrefixes[i]) \in 1..Len(n),
             d = WithoutPrefix(n, Len(SearchPrefixes[i]))
      PROVE  IF Words(t) # Command(t) THEN Words(t) = Command(t) \o Words(d)
             ELSE Words(d) = Words(t)
  <2> DEFINE p == SearchPrefixes[i]
             k == Len(p)
             r == SubSeq(n, k + 1, Len(n))
             rest == Trimmed(Blank)[r]
  <2>1. /\ Command(t) = p /\ p \in Seq(PrefixWords) /\ IsPrefix(p, n)
        /\ \A j \in 1..Len(p) : p[j] \notin White \cup Marks
    BY <1>2, <1>4, PrefixesAre DEF Fitting
  <2>2. d = IF rest = <<>> THEN n ELSE rest
    BY <1>4 DEF WithoutPrefix
  <2> HIDE DEF p
  <2>3. k \in 1..Len(n)
    BY <1>4 DEF p
  <2> HIDE DEF k
  <2>4. PartOf(r, n, k) /\ Len(r) = Len(n) - k /\ r \in Text /\ p \in Text
    <3>1. k \in Nat /\ Len(n) \in k..Len(n)
      BY <1>1, <2>3
    <3> QED
      BY <1>1, <2>1, <3>1, SubSeqIsPart, PrefixIs DEF PartOf
  <2> HIDE DEF r
  <2>5. Words(t) = p \o Words(r)
    BY <1>1, <2>1, <2>4, BehindPrefix DEF k
  <2>6. rest \in Text /\ Words(rest) = Words(r)
    <3>1. PICK a \in Nat :
            /\ PartOf(rest, r, a)
            /\ \A j \in 1..Len(r) : j <= a \/ j > a + Len(rest) => r[j] \in Blank
      BY <2>4, TrimmedIs
    <3>2. \A j \in 1..Len(r) :
            j <= a \/ j > a + Len(rest) => r[j] \in White \cup Marks
      BY <3>1 DEF Blank, White
    <3> HIDE DEF rest
    <3> QED
      BY <2>4, <3>1, <3>2, PieceWords DEF PartOf
  <2>7. /\ Words(r) \in Seq(STRING) /\ p \in Seq(STRING)
        /\ Len(r) \in Nat /\ Len(Words(r)) \in Nat /\ Len(p) \in Nat
        /\ Len(p \o Words(r)) = Len(p) + Len(Words(r))
    <3>1. Words(r) \in Seq(STRING) /\ p \in Seq(STRING) /\ Words(r) \in Text
      BY <2>4, WordsAre DEF Text
    <3> QED
      BY <2>4, <3>1, TextIs, ConcatProperties
  <2>8. CASE Len(r) = 0
    <3>1. r = <<>>
      BY <2>4, <2>8, TextIs
    <3>2. rest = <<>>
      BY <3>1, EmptyStays
    <3>3. Words(t) = p
      BY <2>5, <2>7, <3>1, SomeWords, ConcatEmptySeq
    <3> QED
      BY <1>1, <2>1, <2>2, <3>2, <3>3
  <2>9. CASE Len(r) > 0
    <3>1. Len(r) \in 1..Len(r) /\ k + Len(r) = Len(n)
      BY <1>1, <2>3, <2>4, <2>7, <2>9
    <3>2. r[Len(r)] = n[Len(n)]
      BY <2>4, <3>1 DEF PartOf
    <3>3. Len(Words(r)) > 0
      BY <1>1, <2>4, <2>9, <3>2, SomeWords
    <3>4. rest # <<>>
      BY <2>6, <3>3, SomeWords
    <3>5. Len(Words(t)) # Len(p)
      BY <2>5, <2>7, <3>3
    <3> QED
      BY <2>1, <2>2, <2>5, <2>6, <3>4, <3>5
  <2> QED
    BY <2>7, <2>8, <2>9
<1>5. IF Words(t) # Command(t) THEN Words(t) = Command(t) \o Words(d)
      ELSE Words(d) = Words(t)
  <2>1. \/ Fitting(n) = {} /\ d = n
        \/ \E i \in DOMAIN SearchPrefixes :
             /\ i \in Fitting(n) /\ \A j \in Fitting(n) : i <= j
             /\ Len(SearchPrefixes[i]) \in 1..Len(n)
             /\ d = WithoutPrefix(n, Len(SearchPrefixes[i]))
    BY <1>1, DispatchedIs DEF d
  <2>2. CASE Fitting(n) = {} /\ d = n
    BY <1>3, <2>2 DEF d, n
  <2>3. CASE ~(Fitting(n) = {} /\ d = n)
    <3>1. PICK i \in DOMAIN SearchPrefixes :
            /\ i \in Fitting(n) /\ \A j \in Fitting(n) : i <= j
            /\ Len(SearchPrefixes[i]) \in 1..Len(n)
            /\ d = WithoutPrefix(n, Len(SearchPrefixes[i]))
      BY <2>1, <2>3
    <3> QED
      BY <1>4, <3>1, Zenon
  <2> QED
    BY <2>2, <2>3
<1> QED
  BY <1>5 DEF d, n

\* AppState and DashboardServer: of every text in one line that is sent, of any
\* length, each word is sent and in its order, what was said without its command.
THEOREM SaidTextsAreSent == SendSpec => []SaidIsSent
<1>1. RouteInv => SaidIsSent
  <2> SUFFICES ASSUME RouteInv, Given, OneLine(said)
               PROVE  IF sender = "pipeline" /\ Words(said) # Command(said)
                      THEN Words(said) = Command(said) \o Words(text)
                      ELSE Words(text) = Words(said)
    BY DEF SaidIsSent
  <2>1. said \in Text /\ Normalized(said) # <<>>
    BY DEF RouteInv
  <2>2. CASE sender = "pipeline"
    <3>1. text = Dispatched(Normalized(said))
      BY <2>2 DEF RouteInv
    <3> QED
      BY <2>1, <2>2, <3>1, DispatchedKeepsWords
  <2>3. CASE sender # "pipeline"
    <3>1. text = Normalized(said)
      BY <2>3 DEF RouteInv
    <3> QED
      BY <2>1, <2>3, <3>1, NormalizedKeepsWords
  <2> QED
    BY <2>2, <2>3
<1> QED
  BY <1>1, RouteInvariant, PTL

=============================================================================
