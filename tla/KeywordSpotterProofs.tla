------------------------ MODULE KeywordSpotterProofs ------------------------
(***************************************************************************)
(* KeywordSpotterService has no lock.  It keeps its promises when no two   *)
(* starts and no two stops of it overlap: one start and one stop may run   *)
(* at the same time, again and again, in any order.                        *)
(***************************************************************************)
EXTENDS KeywordSpotter, TLAPS

\* What a client has to see to; the app does not.
OneOfEach ==
  /\ \A a, b \in Starts : a = b
  /\ \A a, b \in Stops : a = b

\* At most one call is past its guard, and where it stands says what is there.
Shape ==
  /\ ~crashed
  /\ \A t \in Threads :
       /\ kwsCall[t] \in {"load", "tap", "engine", "abort", "aborting"} =>
            kwsState = "idle" /\ \E a \in Starts : t = Start(a)
       /\ kwsCall[t] \in {"untap", "unload"} =>
            kwsState = "listening" /\ \E b \in Stops : t = Stop(b)
       /\ kwsCall[t] \in {"load", "tap", "aborting", "unload"} => ~kwsTap
       /\ kwsCall[t] \in {"engine", "abort", "untap"} => kwsTap
       /\ kwsCall[t] \in {"tap", "engine", "untap"} => kwsModels
  /\ SpotterWhole

SpotterInv == SpotterTypeOK /\ Shape

\* At the start no call is under way and there is neither tap nor model.
LEMMA InitSpotterInv == SpotterInit /\ crashed = FALSE => SpotterInv
BY DEF SpotterInit, SpotterInv, SpotterTypeOK, Shape, SpotterWhole, Under,
       Idle, Returned

\* A call past its guard is the only one: the starts are idle's, the stops are
\* listening's, and there is one of each.
LEMMA OneCall ==
  ASSUME OneOfEach, SpotterInv,
         NEW t \in Threads, NEW u \in Threads,
         kwsCall[t] \in Under, kwsCall[u] \in Under
  PROVE  t = u
<1>1. CASE kwsState = "idle"
  BY <1>1 DEF OneOfEach, SpotterInv, Shape, Under
<1>2. CASE kwsState = "listening"
  BY <1>2 DEF OneOfEach, SpotterInv, Shape, Under
<1> QED
  BY <1>1, <1>2 DEF SpotterInv, SpotterTypeOK

\* Start(a) and Stop(b) are threads.
LEMMA Callers ==
  /\ \A a \in Starts : Start(a) \in Threads
  /\ \A b \in Stops : Stop(b) \in Threads
BY DEF Threads, Start, Stop

\* Every step of the service keeps the invariant.
LEMMA NextSpotterInv ==
  ASSUME OneOfEach, SpotterInv, [SpotterNext]_spotterVars
  PROVE  SpotterInv'
<1> USE DEF SpotterInv, SpotterTypeOK, Shape, SpotterWhole, Under, Idle,
            Returned, At, Go
<1>1. ASSUME NEW a \in Starts, CallStart(Start(a))
      PROVE  SpotterInv'
  <2> DEFINE me == Start(a)
  <2>1. me \in Threads
    BY Callers
  <2>2. CASE kwsState = "idle" /\ Go(me, "load")
    <3>1. \A t \in Threads : kwsCall[t] \notin Under
      BY <1>1, <2>1, <2>2 DEF OneOfEach, CallStart
    <3> QED
      BY <1>1, <2>1, <2>2, <3>1 DEF CallStart
  <2>3. CASE Go(me, "thrown")
    BY <1>1, <2>1, <2>3 DEF CallStart
  <2> QED
    BY <1>1, <2>2, <2>3 DEF CallStart
<1>2. ASSUME NEW b \in Stops, CallStop(Stop(b))
      PROVE  SpotterInv'
  <2> DEFINE me == Stop(b)
  <2>1. me \in Threads
    BY Callers
  <2>2. CASE kwsState = "listening"
    <3>1. \A t \in Threads : kwsCall[t] \notin Under
      BY <1>2, <2>1, <2>2 DEF OneOfEach, CallStop
    <3> QED
      BY <1>2, <2>1, <2>2, <3>1 DEF CallStop
  <2>3. CASE kwsState # "listening"
    BY <1>2, <2>1, <2>3 DEF CallStop
  <2> QED
    BY <2>2, <2>3
<1>3. ASSUME NEW t \in Threads, SpotterStep(t)
      PROVE  SpotterInv'
  <2>1. \A u \in Threads : kwsCall[t] \in Under /\ kwsCall[u] \in Under => u = t
    BY OneCall
  <2>2. CASE LoadModels(t)
    BY <2>1, <2>2 DEF LoadModels
  <2>3. CASE OpenSpotterTap(t)
    BY <2>1, <2>3 DEF OpenSpotterTap
  <2>4. CASE StartSpotter(t)
    BY <2>1, <2>4 DEF StartSpotter
  <2>5. CASE TearDownAudio(t)
    BY <2>1, <2>5 DEF TearDownAudio
  <2>6. CASE TearDownModels(t)
    BY <2>1, <2>6 DEF TearDownModels
  <2> QED
    BY <1>3, <2>2, <2>3, <2>4, <2>5, <2>6 DEF SpotterStep
<1>4. ASSUME NEW t \in Threads, Return(t)
      PROVE  SpotterInv'
  BY <1>4 DEF Return
<1>5. CASE UNCHANGED spotterVars
  BY <1>5 DEF spotterVars, kwsVars
<1> QED
  BY <1>1, <1>2, <1>3, <1>4, <1>5 DEF SpotterNext

\* KeywordSpotterService.start and stop: when no two starts and no two stops
\* overlap, a spotter that says it listens has its tap and its models, an idle
\* one has no tap left, and no second tap ever ends the process.
THEOREM SpotterStaysWhole ==
  ASSUME OneOfEach
  PROVE  SpotterSpec => [](SpotterWhole /\ NoDoubleTap)
<1>1. SpotterInit /\ crashed = FALSE => SpotterInv
  BY InitSpotterInv
<1>2. SpotterInv /\ [SpotterNext]_spotterVars => SpotterInv'
  BY NextSpotterInv
<1>3. SpotterInv => SpotterWhole /\ NoDoubleTap
  BY DEF SpotterInv, Shape, NoDoubleTap
<1> QED
  BY <1>1, <1>2, <1>3, PTL DEF SpotterSpec

=============================================================================
