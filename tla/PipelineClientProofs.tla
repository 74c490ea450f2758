------------------------ MODULE PipelineClientProofs ------------------------
(***************************************************************************)
(* Whoever uses the pipeline: the speech tests of the dashboard, and the   *)
(* menu, the settings and the dashboard that start and stop it.  The       *)
(* invariant of WakePipelineProofs does not care who else calls the        *)
(* services; and the menu shows in the end what the pipeline does.         *)
(***************************************************************************)
EXTENDS DashboardSpeech, PipelineControl, WakePipelineProofs, SequenceTheorems

-----------------------------------------------------------------------------
(* The speech tests of the dashboard.                                      *)

\* A test writes the fields of the speech service only, and these keep their
\* types; it begins a task when there was none, and ends it once.
LEMMA TestStepIInv ==
  ASSUME IInv, NEW s \in Tests, TestStep(s)
  PROVE  IInv'
<1> USE TestsAssumption
<1>1. s \in Sessions
  OBVIOUS
<1>2. UNCHANGED <<kwsVars, pipeVars>>
  BY DEF TestStep, TestRecognizes, GetPartial, TestAnswer, TestFinal,
         TestFails, AskTestStop, TestStopped
<1>3. SpeechTypeOK' /\ crashed' \in BOOLEAN
  <2> USE <1>1 DEF IInv, TypeOK
  <2>1. CASE TestRecognizes(s)
    BY <2>1, RecognizeTypes DEF TestRecognizes
  <2>2. CASE GetPartial(s)
    BY <2>2, SpeechTypes DEF GetPartial
  <2>3. ASSUME NEW words \in {s, Empty}, FinalResult(s, words),
               CleanupEngine(SilenceArmed(s, words))
        PROVE  SpeechTypeOK' /\ crashed' \in BOOLEAN
    <3>1. SilenceArmed(s, words) \in Sessions \cup {Nil}
      BY DEF SilenceArmed, SpeechTypeOK
    <3> QED
      BY <2>3, <3>1, CleanupTypes DEF FinalResult, TakeResult, SpeechTypeOK
  <2>4. CASE TestFails(s)
    BY <2>4, CleanupTypes DEF TestFails, TaskError, SpeechTypeOK
  <2>5. CASE AskTestStop(s)
    BY <2>5, SpeechTypes DEF AskTestStop
  <2>6. CASE TestStopped(s)
    BY <2>6, SpeechTypes DEF TestStopped
  <2> QED
    BY <2>1, <2>2, <2>3, <2>4, <2>5, <2>6 DEF TestStep, TestAnswer, TestFinal
<1>4. /\ speechCall'[s] \in {"none", "request"} => task'[s] = "none"
      /\ task'[s] # "ended" => task[s] # "ended"
      /\ \A r \in Sessions \ {s} :
           task'[r] = task[r] /\ speechCall'[r] = speechCall[r]
  <2> USE <1>1 DEF IInv, TypeOK, SpeechTypeOK, Strengthening
  <2>1. CASE TestRecognizes(s)
    BY <2>1 DEF TestRecognizes, RecognizeStep, Recognize, MakeRequest,
                OpenSpeechTap, StartSpeech, Calls, taskVars
  <2>2. CASE TestAnswer(s)
    BY <2>2 DEF TestAnswer, TestFinal, FinalResult, TestFails, TaskError,
                CanAnswer
  <2>3. CASE GetPartial(s) \/ AskTestStop(s) \/ TestStopped(s)
    BY <2>3 DEF GetPartial, Partial, AskTestStop, FinishEnter, TestStopped,
                FinishLeave
  <2> QED
    BY <2>1, <2>2, <2>3 DEF TestStep
<1>5. TypeOK'
  BY <1>2, <1>3, TypesFramed DEF IInv, TypeOK, PipelineTypeOK, pipeVars
<1>6. Strengthening'
  BY <1>1, <1>2, <1>4 DEF IInv, Strengthening, pipeVars
<1>7. NeverStranded'
  BY <1>2 DEF IInv, NeverStranded, Committed, pipeVars
<1> QED
  BY <1>5, <1>6, <1>7 DEF IInv

\* WakePipeline.state with DashboardServer.handleSpeechStart and
\* handleSpeechStop: tests of the speech service, at any moment of any wake,
\* stopped or not, leave the pipeline in no passing state that nobody will
\* leave.
THEOREM TestsStrandNothing == DashSpec => []NeverStranded
<1>1. TestInit => IInv
  BY InitIInv DEF TestInit
<1>2. IInv /\ [DashNext]_dashVars => IInv'
  <2> SUFFICES ASSUME IInv, [DashNext]_dashVars
               PROVE  IInv'
    OBVIOUS
  <2>1. CASE [Next]_vars
    BY <2>1, TypesKept, StrengtheningKept, CommitmentKept DEF IInv
  <2>2. ASSUME NEW s \in Tests, TestStep(s)
        PROVE  IInv'
    BY <2>2, TestStepIInv
  <2>3. CASE PipelineStep
    BY <2>1, <2>3 DEF PipelineStep, Next
  <2> QED
    BY <2>1, <2>2, <2>3 DEF DashNext, dashVars
<1>3. IInv => NeverStranded
  BY DEF IInv
<1> QED
  BY <1>1, <1>2, <1>3, PTL DEF DashSpec

-----------------------------------------------------------------------------
(* The menu, the settings and the dashboard.                               *)

\* Whoever asks for it, the pipeline takes one of its own steps, or only the
\* spotter does: the dashboard's second stop.
LEMMA ControlSteps ==
  ASSUME [ControlNext]_allVars
  PROVE  \/ [Next]_vars
         \/ \E b \in Stops : /\ CallStop(Stop(b)) \/ Return(Stop(b))
                             /\ UNCHANGED <<speechVars, pipeVars>>
BY DEF ControlNext, allVars, ClickStart, BlockStarts, BlockStarted, ClickStop,
       Stopped, StopReturns, DashboardStart, DashboardStop, DashboardStopsSpotter,
       SaveWord, Tell, SyncRunning, PipelineRuns, ThreadStep, Rests, Next, Session

\* So the invariant of the pipeline holds whoever controls it.
LEMMA ControlIInv == IInv /\ [ControlNext]_allVars => IInv'
<1> SUFFICES ASSUME IInv, [ControlNext]_allVars
             PROVE  IInv'
  OBVIOUS
<1>1. CASE [Next]_vars
  BY <1>1, TypesKept, StrengtheningKept, CommitmentKept DEF IInv
<1>2. ASSUME NEW b \in Stops, CallStop(Stop(b)) \/ Return(Stop(b)),
             UNCHANGED <<speechVars, pipeVars>>
      PROVE  IInv'
  <2>1. SpotterTypeOK' /\ crashed' \in BOOLEAN
    BY <1>2, ThreadFacts, SpotterTypes DEF IInv, TypeOK
  <2>2. TypeOK'
    BY <1>2, <2>1
       DEF IInv, TypeOK, SpeechTypeOK, speechVars, taskVars, engineVars,
           PipelineTypeOK, pipeVars
  <2>3. Strengthening' /\ NeverStranded'
    BY <1>2
       DEF IInv, Strengthening, NeverStranded, Committed, speechVars, taskVars,
           pipeVars
  <2> QED
    BY <2>2, <2>3 DEF IInv
<1> QED
  BY <1>1, <1>2, ControlSteps

\* The main queue, and what a thread has yet to put there, grow and shrink as
\* sequences do.
LEMMA QueueTypes ==
  ASSUME NEW S, NEW q \in Seq(S)
  PROVE  /\ \A x \in S : Append(q, x) \in Seq(S)
         /\ \A r \in Seq(S) : q \o r \in Seq(S) /\ (q \o r = <<>> => r = <<>>)
         /\ q # <<>> => Head(q) \in S /\ Tail(q) \in Seq(S)
<1>1. \A r \in Seq(S) : q \o r \in Seq(S) /\ Len(q \o r) = Len(q) + Len(r)
  OBVIOUS
<1>2. \A r \in Seq(S) : q \o r = <<>> => r = <<>>
  <2> SUFFICES ASSUME NEW r \in Seq(S), q \o r = <<>>
               PROVE  r = <<>>
    OBVIOUS
  <2>1. Len(q) \in Nat /\ Len(r) \in Nat /\ Len(q) + Len(r) = 0
    BY <1>1
  <2>2. Len(r) = 0
    BY <2>1
  <2> QED
    BY <2>2
<1> QED
  BY <1>1, <1>2

\* What a thread that has changed the state has to tell keeps its type.
LEMMA TellingTypes ==
  ASSUME ControlTypeOK, NEW t \in Threads, NEW m \in Seq(BOOLEAN), WillTell(t, m)
  PROVE  /\ telling' \in [Threads -> Seq(BOOLEAN)]
         /\ \A u \in Threads \ {t} : telling'[u] = telling[u]
         /\ telling'[t] = <<>> => m = <<>>
         /\ \A u \in Threads : telling'[u] = <<>> => telling[u] = <<>>
<1>1. telling \in [Threads -> Seq(BOOLEAN)]
  BY DEF ControlTypeOK
<1>2. telling[t] \o m \in Seq(BOOLEAN)
  BY <1>1, QueueTypes
<1>3. telling' = [telling EXCEPT ![t] = telling[t] \o m]
  BY DEF WillTell
<1>4. telling[t] \o m = <<>> => telling[t] = <<>> /\ m = <<>>
  <2> SUFFICES ASSUME telling[t] \o m = <<>>
               PROVE  telling[t] = <<>> /\ m = <<>>
    OBVIOUS
  <2>1. telling[t] \in Seq(BOOLEAN)
    BY <1>1
  <2>2. m = <<>>
    BY <2>1, QueueTypes
  <2>3. telling[t] \o <<>> = telling[t]
    BY <2>1
  <2> QED
    BY <2>2, <2>3
<1> QED
  BY <1>1, <1>2, <1>3, <1>4

\* Every step keeps the types of what controls the pipeline.
LEMMA ControlTypes ==
  ASSUME IInv, ControlTypeOK, [ControlNext]_allVars
  PROVE  ControlTypeOK'
<1> USE ThreadFacts, WordsAssumption DEF ControlTypeOK
<1>q. /\ <<TRUE>> \in Seq(BOOLEAN) /\ <<FALSE>> \in Seq(BOOLEAN)
      /\ <<FALSE, FALSE>> \in Seq(BOOLEAN) /\ <<>> \in Seq(BOOLEAN)
      /\ <<TRUE>> \o <<TRUE>> \in Seq(BOOLEAN) /\ <<TRUE>> \o <<>> \in Seq(BOOLEAN)
  OBVIOUS
<1>1. ASSUME NEW a \in Starts, ClickStart(a)
      PROVE  ControlTypeOK'
  BY <1>1 DEF ClickStart, Enqueue, menuVars, wordVars
<1>2. ASSUME NEW a \in Starts, BlockStarts(a) \/ BlockStarted(a)
      PROVE  ControlTypeOK'
  <2>1. /\ cachedWord' \in Words
        /\ UNCHANGED <<kwsRunning, mainQueue, misled, wakeWord, saves, after,
                       callWord, afterStop, kwsWord>>
    BY <1>2 DEF BlockStarts, BlockStarted, wordVars
  <2>2. telling' \in [Threads -> Seq(BOOLEAN)]
    <3>1. UNCHANGED telling \/ \E m \in Seq(BOOLEAN) : WillTell(Start(a), m)
      BY <1>q, <1>2 DEF BlockStarts, BlockStarted, LastWord
    <3> QED
      BY <3>1, TellingTypes
  <2>3. \E place \in {"begun", "done"} : block' = [block EXCEPT ![a] = place]
    BY <1>2 DEF BlockStarts, BlockStarted
  <2> QED
    BY <2>1, <2>2, <2>3
<1>3. ASSUME NEW b \in Stops, ClickStop(b) \/ DashboardStop(b)
      PROVE  ControlTypeOK'
  BY <1>3 DEF ClickStop, DashboardStop, controlVars, menuVars, wordVars
<1>4. ASSUME NEW b \in Stops, Stopped(b)
      PROVE  ControlTypeOK'
  <2>1. telling' \in [Threads -> Seq(BOOLEAN)]
    BY <1>q, <1>4, TellingTypes DEF Stopped
  <2> QED
    BY <1>4, <2>1 DEF Stopped, wordVars
<1>5. ASSUME NEW b \in Stops, StopReturns(b)
      PROVE  ControlTypeOK'
  BY <1>5 DEF StopReturns, Enqueue, wordVars
<1>6. ASSUME NEW a \in Starts, NEW w \in Words, DashboardStart(a, w)
      PROVE  ControlTypeOK'
  BY <1>6 DEF DashboardStart, Enqueue, menuVars, wordVars
<1>7. ASSUME NEW b \in Stops, DashboardStopsSpotter(b)
      PROVE  ControlTypeOK'
  BY <1>7 DEF DashboardStopsSpotter, menuVars, wordVars
<1>8. ASSUME NEW w \in Words, SaveWord(w)
      PROVE  ControlTypeOK'
  <2>1. saves' \in 0..MaxSaves /\ wakeWord' \in Words
    BY <1>8 DEF SaveWord
  <2>2. /\ after' \in [Stops -> Starts \cup {Nil}]
        /\ block' \in [Starts -> {"none", "planned", "queued", "begun", "done"}]
    BY <1>8 DEF SaveWord
  <2>3. UNCHANGED <<menuVars, cachedWord, kwsWord, callWord, afterStop>>
    BY <1>8 DEF SaveWord
  <2> QED
    BY <2>1, <2>2, <2>3 DEF menuVars
<1>9. ASSUME NEW t \in Threads, Tell(t)
      PROVE  ControlTypeOK'
  <2>1. /\ Head(telling[t]) \in BOOLEAN /\ Tail(telling[t]) \in Seq(BOOLEAN)
        /\ mainQueue' \in Seq(BOOLEAN)
    BY <1>9, QueueTypes DEF Tell, Silent
  <2> QED
    BY <1>9, <2>1 DEF Tell, wordVars
<1>10. CASE SyncRunning
  BY <1>10, QueueTypes DEF SyncRunning, wordVars
<1>11. CASE PipelineRuns
  <2>1. telling' \in [Threads -> Seq(BOOLEAN)]
    <3>1. UNCHANGED telling
            \/ \E t \in Threads, m \in Seq(BOOLEAN) : WillTell(t, m)
      <4>1. \A x \in BOOLEAN : <<x>> \in Seq(BOOLEAN)
        OBVIOUS
      <4> QED
        BY <1>q, <1>11, <4>1 DEF PipelineRuns
    <3> QED
      BY <3>1, TellingTypes
  <2>2. callWord' \in [Threads -> Words]
    BY <1>11 DEF PipelineRuns
  <2>3. kwsWord' \in Words
    <3>1. CASE \E t \in Threads : LoadModels(t)
      <4> DEFINE Loading(t) == kwsCall[t] = "load" /\ kwsCall'[t] # "load"
      <4>1. PICK t \in Threads : LoadModels(t)
        BY <3>1
      <4>2. Loading(t)
        BY <4>1 DEF LoadModels, At, Go, IInv, TypeOK, SpotterTypeOK
      <4>3. (CHOOSE u \in Threads : Loading(u)) \in Threads
        BY <4>2
      <4> QED
        BY <1>11, <3>1, <4>3 DEF PipelineRuns
    <3>2. CASE ~\E t \in Threads : LoadModels(t)
      BY <1>11, <3>2 DEF PipelineRuns
    <3> QED
      BY <3>1, <3>2
  <2> QED
    BY <1>11, <2>1, <2>2, <2>3 DEF PipelineRuns
<1>12. CASE UNCHANGED allVars
  BY <1>12 DEF allVars, controlVars, menuVars, wordVars
<1> QED
  BY <1>1, <1>2, <1>3, <1>4, <1>5, <1>6, <1>7, <1>8, <1>9, <1>10, <1>11, <1>12
     DEF ControlNext, Rests

\* At the start the menu shows a pipeline that is idle, and nothing is queued.
LEMMA InitControl == ControlInit => IInv /\ ControlTypeOK
<1> SUFFICES ASSUME ControlInit
             PROVE  ControlTypeOK
  BY InitIInv DEF ControlInit
<1>1. saves \in 0..MaxSaves /\ mainQueue \in Seq(BOOLEAN)
  BY WordsAssumption DEF ControlInit
<1> QED
  BY <1>1, WordsAssumption DEF ControlInit, ControlTypeOK

\* Both hold throughout.
LEMMA ControlInvariant == ControlSpec => [](IInv /\ ControlTypeOK)
<1>1. IInv /\ ControlTypeOK /\ [ControlNext]_allVars => (IInv /\ ControlTypeOK)'
  BY ControlIInv, ControlTypes
<1> QED
  BY <1>1, InitControl, PTL DEF ControlSpec

\* AppState with MenuBarView and SettingsView: every field keeps a value of its
\* type, and the word that the models are loaded with is one that was saved.
THEOREM ControlTyped == ControlSpec => []ControlTypeOK
BY ControlInvariant, PTL

\* WakePipeline.state under the menu, the settings and the dashboard, whatever
\* they start and stop from their threads: no passing state is left for good.
THEOREM ControlStrandsNothing == ControlSpec => []NeverStranded
<1>1. IInv => NeverStranded
  BY DEF IInv
<1> QED
  BY <1>1, ControlInvariant, PTL

-----------------------------------------------------------------------------
(* What the menu shows in the end.                                         *)

\* What the menu will show when the main queue has run out of blocks.
LastTold ==
  IF mainQueue = <<>> THEN kwsRunning ELSE mainQueue[Len(mainQueue)]

\* What the menu's own stop writes directly is overruled by a message of that
\* stop; and when nobody has anything to tell, the last word is true unless it
\* was overtaken.
MenuInv ==
  /\ \A b \in Stops \ Remote :
       pc[Stop(b)] = "left" /\ afterStop[b] = "none" =>
         mainQueue # <<>> \/ ~Silent(Stop(b))
  /\ (\A t \in Threads : Silent(t)) /\ ~misled =>
       (LastTold <=> state = "kwsListening")

\* A step of a thread that changes the state has called transition(), and no
\* such step ends a stop.
LEMMA StepsTransit ==
  ASSUME IInv, NEW t \in Threads, ThreadStep(t)
  PROVE  /\ state' # state => Transits(t)
         /\ \A b \in Stops : pc'[Stop(b)] = "left" => pc[Stop(b)] = "left"
<1> USE ThreadFacts DEF To, Is, IInv, TypeOK, PipelineTypeOK, Transits
<1> DEFINE Goal == /\ state' # state => Transits(t)
                   /\ \A b \in Stops : pc'[Stop(b)] = "left" => pc[Stop(b)] = "left"
<1>1. ASSUME NEW s \in Sessions, t = Wake(s), Detect(s)
      PROVE  Goal
  BY <1>1 DEF Detect
<1>2. ASSUME NEW s \in Sessions, t = Wake(s), HandleWake(s) \/ StartRecognition(s)
      PROVE  Goal
  BY <1>2 DEF HandleWake, StartRecognition
<1>3. ASSUME NEW s \in Sessions, t = Wake(s), RecognizeCalls(s) \/ Recognized(s)
      PROVE  Goal
  BY <1>3 DEF RecognizeCalls, Recognized, Complete, pipeVars
<1>4. ASSUME NEW s \in Sessions, t = Timer(s),
             TimerBegins(s) \/ TimerFires(s) \/ Finish(s) \/ Finished(s)
      PROVE  Goal
  BY <1>4 DEF TimerBegins, TimerFires, Finish, Finished
<1>5. ASSUME NEW s \in Sessions, t = Callback(s), GetPartial(s) \/ Answer(s)
      PROVE  Goal
  BY <1>5 DEF GetPartial, Answer, GetFinal, GetError, LastCallback, Complete,
              pipeVars
<1>6. CASE SpotterCalls(t)
  BY <1>6 DEF SpotterCalls, pipeVars
<1>7. CASE Dispatch(t) \/ Send(t) \/ StartCooldown(t)
  BY <1>7 DEF Dispatch, Send, StartCooldown
<1>8. CASE CooldownEnds(t) \/ Restart(t) \/ Restarted(t)
  BY <1>8 DEF CooldownEnds, Restart, Restarted
<1> QED
  BY <1>1, <1>2, <1>3, <1>4, <1>5, <1>6, <1>7, <1>8
     DEF ThreadStep, Handle, WakeStep, TimerStep

\* Of a queue the block appended last has the last word.
LEMMA LastOfQueue ==
  ASSUME mainQueue \in Seq(BOOLEAN)
  PROVE  /\ \A x \in BOOLEAN : mainQueue' = Append(mainQueue, x) =>
              LastTold' = x
         /\ UNCHANGED <<mainQueue, kwsRunning>> => LastTold' = LastTold
         /\ mainQueue # <<>> /\ kwsRunning' = Head(mainQueue)
              /\ mainQueue' = Tail(mainQueue) => LastTold' = LastTold
<1>1. ASSUME NEW x \in BOOLEAN, mainQueue' = Append(mainQueue, x)
      PROVE  LastTold' = x
  BY <1>1 DEF LastTold
<1>2. ASSUME mainQueue # <<>>, kwsRunning' = Head(mainQueue),
             mainQueue' = Tail(mainQueue)
      PROVE  LastTold' = LastTold
  <2>1. CASE Len(mainQueue) = 1
    BY <1>2, <2>1 DEF LastTold
  <2>2. CASE Len(mainQueue) > 1
    <3>1. /\ Tail(mainQueue) # <<>>
          /\ Tail(mainQueue)[Len(Tail(mainQueue))] = mainQueue[Len(mainQueue)]
      <4>1. /\ Tail(mainQueue) \in Seq(BOOLEAN)
            /\ Len(Tail(mainQueue)) = Len(mainQueue) - 1
            /\ \A i \in 1..Len(mainQueue) - 1 :
                 Tail(mainQueue)[i] = mainQueue[i + 1]
        BY <1>2, HeadTailProperties
      <4> QED
        BY <2>2, <4>1
    <3> QED
      BY <1>2, <3>1 DEF LastTold
  <2>3. Len(mainQueue) = 1 \/ Len(mainQueue) > 1
    <3>1. Len(mainQueue) \in Nat \ {0}
      BY <1>2, EmptySeq
    <3>2. \A n \in Nat \ {0} : n = 1 \/ n > 1
      OBVIOUS
    <3> QED
      BY <3>1, <3>2, Zenon
  <2> QED
    BY <2>1, <2>2, <2>3
<1> QED
  BY <1>1, <1>2 DEF LastTold

\* Every step keeps the last word true.
LEMMA NextMenuInv ==
  ASSUME IInv, ControlTypeOK, MenuInv, [ControlNext]_allVars
  PROVE  MenuInv'
<1> USE LastOfQueue, ThreadFacts DEF MenuInv, Silent
<1>0. /\ mainQueue \in Seq(BOOLEAN) /\ kwsRunning \in BOOLEAN
      /\ telling \in [Threads -> Seq(BOOLEAN)]
      /\ afterStop \in [Stops -> {"none", "called", "done"}]
      /\ state \in States /\ pc \in [Threads -> PCs]
  BY DEF ControlTypeOK, IInv, TypeOK, PipelineTypeOK
<1>1. ASSUME UNCHANGED <<state, mainQueue, kwsRunning, telling, misled>>,
             \A b \in Stops : pc'[Stop(b)] = "left" => pc[Stop(b)] = "left",
             \A b \in Stops \ Remote : afterStop'[b] = "none" => afterStop[b] = "none"
      PROVE  MenuInv'
  BY <1>0, <1>1
<1>2. ASSUME NEW a \in Starts,
             ClickStart(a) \/ \E w \in Words : DashboardStart(a, w)
      PROVE  MenuInv'
  BY <1>1, <1>2 DEF ClickStart, DashboardStart, menuVars, vars, pipeVars
<1>3. ASSUME NEW a \in Starts, BlockStarts(a)
      PROVE  MenuInv'
  <2>1. /\ UNCHANGED <<state, mainQueue, kwsRunning, misled, afterStop>>
        /\ \A b \in Stops : pc'[Stop(b)] = "left" => pc[Stop(b)] = "left"
    <3>1. Start(a) \in Threads /\ \A b \in Stops : Stop(b) # Start(a)
      BY DEF Start, Stop
    <3> QED
      BY <1>0, <1>3, <3>1 DEF BlockStarts, UserStart, To
  <2>2. \A u \in Threads : telling'[u] = <<>> => telling[u] = <<>>
    <3>1. UNCHANGED telling \/ \E m \in Seq(BOOLEAN) : WillTell(Start(a), m)
      <4>1. <<TRUE>> \in Seq(BOOLEAN) /\ <<>> \in Seq(BOOLEAN)
        OBVIOUS
      <4> QED
        BY <1>3, <4>1 DEF BlockStarts, LastWord
    <3> QED
      BY <3>1, TellingTypes
  <2> QED
    BY <1>0, <2>1, <2>2
<1>4. ASSUME NEW a \in Starts, BlockStarted(a)
      PROVE  MenuInv'
  <2>1. /\ UNCHANGED <<mainQueue, kwsRunning, misled, afterStop>>
        /\ \A b \in Stops : pc'[Stop(b)] = "left" => pc[Stop(b)] = "left"
        /\ state' # state => kwsCall[Start(a)] = "ok"
    <3>1. Start(a) \in Threads /\ \A b \in Stops : Stop(b) # Start(a)
      BY DEF Start, Stop
    <3> QED
      BY <1>0, <1>4, <3>1 DEF BlockStarted, UserStarted, To
  <2>2. /\ \A u \in Threads : telling'[u] = <<>> => telling[u] = <<>>
        /\ kwsCall[Start(a)] = "ok" => telling'[Start(a)] # <<>>
    <3>1. PICK m \in Seq(BOOLEAN) : /\ WillTell(Start(a), m)
                                    /\ kwsCall[Start(a)] = "ok" => m # <<>>
      <4>1. /\ <<>> \in Seq(BOOLEAN)
            /\ <<TRUE>> \o <<TRUE>> \in Seq(BOOLEAN) /\ <<TRUE>> \o <<TRUE>> # <<>>
            /\ <<TRUE>> \o <<>> \in Seq(BOOLEAN) /\ <<TRUE>> \o <<>> # <<>>
        OBVIOUS
      <4> QED
        BY <1>4, <4>1 DEF BlockStarted, LastWord
    <3> QED
      BY <3>1, TellingTypes
  <2> QED
    BY <1>0, <2>1, <2>2
<1>5. ASSUME NEW b \in Stops, ClickStop(b) \/ DashboardStop(b)
      PROVE  MenuInv'
  <2>1. /\ UNCHANGED controlVars /\ UNCHANGED state
        /\ \A d \in Stops : pc'[Stop(d)] = "left" => pc[Stop(d)] = "left"
    BY <1>0, <1>5 DEF ClickStop, DashboardStop, UserStop, Cancelled
  <2> QED
    BY <1>1, <2>1 DEF controlVars, menuVars
<1>6. ASSUME NEW b \in Stops, DashboardStopsSpotter(b)
      PROVE  MenuInv'
  <2>1. \A d \in Stops \ Remote : afterStop'[d] = afterStop[d]
    BY <1>0, <1>6 DEF DashboardStopsSpotter
  <2> QED
    BY <1>1, <1>6, <2>1 DEF DashboardStopsSpotter, menuVars, pipeVars
<1>7. ASSUME NEW w \in Words, SaveWord(w)
      PROVE  MenuInv'
  <2>1. /\ UNCHANGED <<state, menuVars, afterStop>>
        /\ \A b \in Stops : pc'[Stop(b)] = "left" => pc[Stop(b)] = "left"
    BY <1>0, <1>7 DEF SaveWord, UserStop, Cancelled, vars, pipeVars
  <2> QED
    BY <1>1, <2>1 DEF menuVars
<1>8. ASSUME NEW b \in Stops, Stopped(b)
      PROVE  MenuInv'
  <2>1. /\ UNCHANGED <<mainQueue, kwsRunning, misled, afterStop>>
        /\ \A d \in Stops : pc'[Stop(d)] = "left" => d = b \/ pc[Stop(d)] = "left"
    <3>1. \A d \in Stops : Stop(d) = Stop(b) => d = b
      BY DEF Stop
    <3> QED
      BY <1>0, <1>8, <3>1 DEF Stopped, UserStopped, To
  <2>2. /\ \A u \in Threads : telling'[u] = <<>> => telling[u] = <<>>
        /\ telling'[Stop(b)] # <<>>
    <3>1. <<FALSE, FALSE>> \in Seq(BOOLEAN) /\ <<FALSE, FALSE>> # <<>>
      OBVIOUS
    <3> QED
      BY <1>8, <3>1, TellingTypes DEF Stopped
  <2> QED
    BY <1>0, <2>1, <2>2
<1>9. ASSUME NEW b \in Stops, StopReturns(b)
      PROVE  MenuInv'
  <2>1. /\ UNCHANGED <<state, pc, mainQueue, telling, misled>>
        /\ mainQueue # <<>>
        /\ \A d \in Stops \ Remote : afterStop'[d] = "none" => afterStop[d] = "none"
    BY <1>0, <1>9 DEF StopReturns, vars, pipeVars
  <2>2. LastTold' = LastTold
    BY <2>1 DEF LastTold
  <2> QED
    BY <1>0, <2>1, <2>2
<1>10. ASSUME NEW t \in Threads, Tell(t)
       PROVE  MenuInv'
  <2>1. /\ UNCHANGED <<state, pc, kwsRunning, afterStop>>
        /\ Head(telling[t]) \in BOOLEAN
        /\ mainQueue' = Append(mainQueue, Head(telling[t]))
        /\ misled' = (Head(telling[t]) # (state = "kwsListening"))
    BY <1>0, <1>10, QueueTypes DEF Tell, vars, pipeVars
  <2>2. LastTold' = Head(telling[t]) /\ mainQueue' # <<>>
    <3>1. \A q \in Seq(BOOLEAN), x \in BOOLEAN : Append(q, x) # <<>>
      OBVIOUS
    <3> QED
      BY <1>0, <2>1, <3>1
  <2>3. ~misled' => (LastTold' <=> state' = "kwsListening")
    BY <2>1, <2>2
  <2> QED
    BY <2>2, <2>3
<1>11. CASE SyncRunning
  <2>1. \A b \in Stops \ Remote : pc[Stop(b)] = "none" \/ afterStop[b] = "done"
    BY <1>11 DEF SyncRunning, MainFree
  <2>2. LastTold' = LastTold
    BY <1>0, <1>11 DEF SyncRunning
  <2> QED
    BY <1>0, <1>11, <2>1, <2>2 DEF SyncRunning, vars, pipeVars
<1>12. CASE PipelineRuns
  <2>1. CASE EndOfSilence /\ UNCHANGED telling
    BY <1>1, <1>12, <2>1 DEF PipelineRuns, EndOfSilence, pipeVars
  <2>2. ASSUME NEW t \in Threads, ThreadStep(t),
               WillTell(t, IF Transits(t) THEN <<state' = "kwsListening">> ELSE <<>>)
        PROVE  MenuInv'
    <3>1. PICK m \in Seq(BOOLEAN) : /\ WillTell(t, m)
                                    /\ Transits(t) => m # <<>>
      <4>1. /\ <<>> \in Seq(BOOLEAN)
            /\ \A x \in BOOLEAN : <<x>> \in Seq(BOOLEAN) /\ <<x>> # <<>>
        OBVIOUS
      <4> QED
        BY <2>2, <4>1
    <3>2. /\ \A u \in Threads : telling'[u] = <<>> => telling[u] = <<>>
          /\ telling'[t] = <<>> => ~Transits(t)
      BY <3>1, TellingTypes
    <3> QED
      BY <1>0, <1>12, <2>2, <3>2, StepsTransit DEF PipelineRuns
  <2> QED
    BY <1>12, <2>1, <2>2 DEF PipelineRuns
<1>13. CASE UNCHANGED allVars
  BY <1>1, <1>13 DEF allVars, controlVars, menuVars, vars, pipeVars
<1> QED
  BY <1>2, <1>3, <1>4, <1>5, <1>6, <1>7, <1>8, <1>9, <1>10, <1>11, <1>12, <1>13
     DEF ControlNext, Rests

\* AppState.kwsRunning: when all blocks have run, the menu shows whether the
\* pipeline listens, for any clicks, saved words, requests and wakes and in any
\* interleaving of their threads, unless the message that was queued last was no
\* longer true when it was queued.
THEOREM MenuShowsState == ControlSpec => []MenuIsTrue
<1>1. ControlInit => MenuInv
  BY ThreadFacts DEF ControlInit, Init, MenuInv, Silent, LastTold
<1>2. IInv /\ ControlTypeOK /\ MenuInv /\ [ControlNext]_allVars => MenuInv'
  BY NextMenuInv
<1>3. ControlTypeOK /\ MenuInv => MenuIsTrue
  <2> SUFFICES ASSUME ControlTypeOK, MenuInv, AtRest, ~misled
               PROVE  kwsRunning <=> state = "kwsListening"
    BY DEF MenuIsTrue, ControlTypeOK
  <2>1. (\A t \in Threads : Silent(t)) /\ LastTold = kwsRunning
    BY DEF AtRest, LastTold
  <2> QED
    BY <2>1 DEF MenuInv
<1> QED
  BY <1>1, <1>2, <1>3, ControlInvariant, PTL DEF ControlSpec

=============================================================================
