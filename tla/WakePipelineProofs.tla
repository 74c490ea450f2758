------------------------- MODULE WakePipelineProofs -------------------------
(***************************************************************************)
(* Type correctness of the pipeline and NeverStranded, for any number of   *)
(* wakes, starts and stops and for every set of faults.                    *)
(***************************************************************************)
EXTENDS WakePipeline, TLAPS

\* The activities are threads, and no two of them are the same.
LEMMA ThreadFacts ==
  /\ \A s \in Sessions : Wake(s) \in Threads /\ Timer(s) \in Threads
                           /\ Callback(s) \in Threads
  /\ \A a \in Starts : Start(a) \in Threads
  /\ \A b \in Stops : Stop(b) \in Threads
  /\ \A s, r \in Sessions :
       /\ Wake(s) # Timer(r) /\ Wake(s) # Callback(r) /\ Timer(s) # Callback(r)
       /\ Wake(s) = Wake(r) => s = r
       /\ Timer(s) = Timer(r) => s = r
       /\ Callback(s) = Callback(r) => s = r
  /\ \A a \in Starts, s \in Sessions :
       Start(a) # Wake(s) /\ Start(a) # Timer(s) /\ Start(a) # Callback(s)
  /\ \A b \in Stops, s \in Sessions :
       Stop(b) # Wake(s) /\ Stop(b) # Timer(s) /\ Stop(b) # Callback(s)
BY DEF Threads, Wake, Timer, Callback, Start, Stop

-----------------------------------------------------------------------------
(* Types, component by component.                                          *)

\* The calls of the spotter keep its types.
LEMMA SpotterTypes ==
  ASSUME SpotterTypeOK, crashed \in BOOLEAN, NEW t \in Threads,
         CallStart(t) \/ CallStop(t) \/ SpotterStep(t) \/ Return(t)
  PROVE  SpotterTypeOK' /\ crashed' \in BOOLEAN
<1> USE DEF SpotterTypeOK, Idle, Returned, Under, Go
<1>1. CASE CallStart(t)
  BY <1>1 DEF CallStart
<1>2. CASE CallStop(t)
  BY <1>2 DEF CallStop
<1>3. CASE SpotterStep(t)
  BY <1>3 DEF SpotterStep, LoadModels, OpenSpotterTap, StartSpotter,
              TearDownAudio, TearDownModels
<1>4. CASE Return(t)
  BY <1>4 DEF Return
<1> QED
  BY <1>1, <1>2, <1>3, <1>4

\* cleanupEngine keeps the types of what it writes.
LEMMA CleanupTypes ==
  ASSUME SpeechTypeOK, NEW armed \in Sessions \cup {Nil}, CleanupEngine(armed)
  PROVE  /\ didCleanup' \in BOOLEAN
         /\ silenceTask' \in Sessions \cup {Nil}
         /\ speechTap' \in Sessions \cup {Nil}
         /\ onEngine' \subseteq Sessions
         /\ micOpen' \in BOOLEAN
BY DEF SpeechTypeOK, CleanupEngine, engineVars

\* The steps of recognize keep the types of the speech service.
LEMMA RecognizeTypes ==
  ASSUME SpeechTypeOK, crashed \in BOOLEAN, NEW s \in Sessions,
         RecognizeStep(s)
  PROVE  SpeechTypeOK' /\ crashed' \in BOOLEAN
<1> USE DEF SpeechTypeOK, Calls, engineVars, taskVars
<1>1. CASE Recognize(s)
  BY <1>1 DEF Recognize
<1>2. CASE MakeRequest(s)
  BY <1>2 DEF MakeRequest
<1>3. CASE OpenSpeechTap(s)
  BY <1>3 DEF OpenSpeechTap
<1>4. CASE StartSpeech(s)
  BY <1>4 DEF StartSpeech
<1> QED
  BY <1>1, <1>2, <1>3, <1>4 DEF RecognizeStep

\* A partial result, the silence timer and finish keep them too.
LEMMA SpeechTypes ==
  ASSUME SpeechTypeOK, crashed \in BOOLEAN, NEW s \in Sessions,
         \/ \E words \in {s, Empty} : Partial(s, words)
         \/ SilenceFires
         \/ FinishEnter(s)
         \/ FinishLeave(s)
  PROVE  SpeechTypeOK' /\ crashed' \in BOOLEAN
<1> USE DEF SpeechTypeOK, engineVars
<1>1. ASSUME NEW words \in {s, Empty}, Partial(s, words)
      PROVE  SpeechTypeOK' /\ crashed' \in BOOLEAN
  BY <1>1 DEF Partial, TakeResult, SilenceArmed
<1>2. CASE SilenceFires
  BY <1>2 DEF SilenceFires
<1>3. CASE FinishEnter(s)
  BY <1>3 DEF FinishEnter
<1>4. CASE FinishLeave(s)
  BY <1>4, CleanupTypes DEF FinishLeave
<1> QED
  BY <1>1, <1>2, <1>3, <1>4

-----------------------------------------------------------------------------
(* The invariant, action by action.                                        *)

\* What is left of the types when a step does not touch a component.
LEMMA TypesFramed ==
  /\ SpotterTypeOK /\ UNCHANGED kwsVars => SpotterTypeOK'
  /\ SpeechTypeOK /\ UNCHANGED speechVars => SpeechTypeOK'
BY DEF SpotterTypeOK, kwsVars, SpeechTypeOK, speechVars, taskVars, engineVars

\* Every step keeps the types; Send needs to know that there are words.
LEMMA TypesKept == IInv /\ [Next]_vars => TypeOK'
<1> SUFFICES ASSUME IInv, [Next]_vars
             PROVE  TypeOK'
  OBVIOUS
<1> USE ThreadFacts, TypesFramed DEF IInv, TypeOK, PipelineTypeOK, States, PCs,
        Handling, To, Is
<1>1. ASSUME NEW a \in Starts, UserStart(Start(a)) \/ UserStarted(Start(a))
      PROVE  TypeOK'
  BY <1>1, SpotterTypes DEF UserStart, UserStarted
<1>2. ASSUME NEW b \in Stops, UserStop(Stop(b)) \/ UserStopped(Stop(b))
      PROVE  TypeOK'
  BY <1>2, SpotterTypes DEF UserStop, UserStopped, Cancelled
<1>3. ASSUME NEW s \in Sessions, Detect(s)
      PROVE  TypeOK'
  BY <1>3 DEF Detect
<1>4. ASSUME NEW s \in Sessions, HandleWake(s) \/ StartRecognition(s)
      PROVE  TypeOK'
  BY <1>4, SpotterTypes DEF HandleWake, StartRecognition
<1>5. ASSUME NEW s \in Sessions, RecognizeCalls(s)
      PROVE  TypeOK'
  BY <1>5, RecognizeTypes DEF RecognizeCalls, pipeVars
<1>6. ASSUME NEW s \in Sessions, Recognized(s)
      PROVE  TypeOK'
  BY <1>6 DEF Recognized, Complete
<1>7. ASSUME NEW s \in Sessions, GetPartial(s)
      PROVE  TypeOK'
  BY <1>7, SpeechTypes DEF GetPartial, pipeVars
<1>8. ASSUME NEW s \in Sessions, NEW words \in {s, Empty},
             FinalResult(s, words),
             LastCallback(s, SilenceArmed(s, words), FinalText(words), "result")
      PROVE  TypeOK'
  <2>1. SilenceArmed(s, words) \in Sessions \cup {Nil}
    BY DEF SilenceArmed, SpeechTypeOK
  <2>2. FinalText(words) \in Sessions \cup {Empty}
    BY DEF FinalText, SpeechTypeOK
  <2>3. SpeechTypeOK' /\ crashed' \in BOOLEAN
    BY <1>8, <2>1, CleanupTypes
       DEF FinalResult, LastCallback, TakeResult, SpeechTypeOK, engineVars
  <2> QED
    BY <1>8, <2>2, <2>3 DEF LastCallback, Complete
<1>9. ASSUME NEW s \in Sessions, GetError(s)
      PROVE  TypeOK'
  <2>1. SpeechTypeOK' /\ crashed' \in BOOLEAN
    BY <1>9, CleanupTypes
       DEF GetError, TaskError, LastCallback, SpeechTypeOK, engineVars
  <2> QED
    BY <1>9, <2>1 DEF GetError, LastCallback, Complete
<1>10. ASSUME NEW s \in Sessions, TimerBegins(s) \/ TimerFires(s)
       PROVE  TypeOK'
  BY <1>10 DEF TimerBegins, TimerFires
<1>11. ASSUME NEW s \in Sessions, Finish(s) \/ Finished(s)
       PROVE  TypeOK'
  BY <1>11, SpeechTypes DEF Finish, Finished
<1>12. CASE EndOfSilence
  <2>1. Sessions # {}
    BY <1>12 DEF EndOfSilence, SilenceFires, SpeechTypeOK
  <2> QED
    BY <1>12, <2>1, SpeechTypes DEF EndOfSilence, pipeVars
<1>13. ASSUME NEW t \in Threads, SpotterCalls(t)
       PROVE  TypeOK'
  BY <1>13, SpotterTypes DEF SpotterCalls, pipeVars
<1>14. ASSUME NEW t \in Threads, Dispatch(t) \/ CooldownEnds(t)
       PROVE  TypeOK'
  BY <1>14 DEF Dispatch, CooldownEnds
<1>15. ASSUME NEW t \in Threads, Send(t)
       PROVE  TypeOK'
  BY <1>15 DEF Send, Strengthening
<1>16. ASSUME NEW t \in Threads, StartCooldown(t)
       PROVE  TypeOK'
  <2>1. SpeechTypeOK'
    BY <1>16, CleanupTypes DEF StartCooldown, SpeechTypeOK, engineVars
  <2> QED
    BY <1>16, <2>1 DEF StartCooldown
<1>17. ASSUME NEW t \in Threads, Restart(t) \/ Restarted(t)
       PROVE  TypeOK'
  BY <1>17, SpotterTypes DEF Restart, Restarted
<1>18. CASE UNCHANGED vars
  BY <1>18 DEF vars, pipeVars
<1> QED
  BY <1>1, <1>2, <1>3, <1>4, <1>5, <1>6, <1>7, <1>8, <1>9, <1>10, <1>11, <1>12,
     <1>13, <1>14, <1>15, <1>16, <1>17, <1>18
     DEF Next, Session, WakeStep, Answer, GetFinal, TimerStep, Handle, Quiet

\* Every step keeps the strengthening.
LEMMA StrengtheningKept == IInv /\ [Next]_vars => Strengthening'
<1> SUFFICES ASSUME IInv, [Next]_vars
             PROVE  Strengthening'
  OBVIOUS
<1> USE ThreadFacts DEF IInv, TypeOK, PipelineTypeOK, SpeechTypeOK, To, Is,
        Strengthening
<1>1. ASSUME NEW a \in Starts, UserStart(Start(a)) \/ UserStarted(Start(a))
      PROVE  Strengthening'
  <2>1. \/ pc' = [pc EXCEPT ![Start(a)] = "starting"]
        \/ pc' = [pc EXCEPT ![Start(a)] = "left"]
    BY <1>1 DEF UserStart, UserStarted
  <2>2. UNCHANGED <<speechCall, task, text, fired>>
    BY <1>1 DEF UserStart, UserStarted, speechVars, taskVars
  <2> QED
    BY <2>1, <2>2
<1>2. ASSUME NEW b \in Stops, UserStop(Stop(b)) \/ UserStopped(Stop(b))
      PROVE  Strengthening'
  <2>1. \A u \in Threads :
          \/ pc'[u] = pc[u]
          \/ u = Stop(b) /\ pc'[u] \in {"stopping", "left"}
          \/ pc[u] = "cooling" /\ pc'[u] = "done"
    BY <1>2 DEF UserStop, UserStopped, Cancelled
  <2>2. UNCHANGED <<speechCall, task, text, fired>>
    BY <1>2 DEF UserStop, UserStopped, speechVars, taskVars
  <2>3. \A s \in Sessions : \A u \in Of(s) :
          pc'[u] = pc[u] \/ (pc[u] = "cooling" /\ pc'[u] = "done")
    <3>1. ASSUME NEW s \in Sessions, NEW u \in Of(s)
          PROVE  u \in Threads /\ u # Stop(b)
      BY <3>1 DEF Of
    <3> QED
      BY <3>1, <2>1
  <2> QED
    BY <2>1, <2>2, <2>3 DEF Of
<1>3. ASSUME NEW s \in Sessions, Detect(s)
      PROVE  Strengthening'
  BY <1>3 DEF Detect, speechVars, taskVars
<1>4. ASSUME NEW s \in Sessions, HandleWake(s) \/ StartRecognition(s)
      PROVE  Strengthening'
  BY <1>4 DEF HandleWake, StartRecognition, speechVars, taskVars
<1>5. ASSUME NEW s \in Sessions, RecognizeCalls(s)
      PROVE  Strengthening'
  BY <1>5 DEF RecognizeCalls, pipeVars, RecognizeStep, Recognize, MakeRequest,
              OpenSpeechTap, StartSpeech, Calls, taskVars
<1>6. ASSUME NEW s \in Sessions, Recognized(s)
      PROVE  Strengthening'
  BY <1>6 DEF Recognized, Complete, speechVars, taskVars
<1>7. ASSUME NEW s \in Sessions, GetPartial(s)
      PROVE  Strengthening'
  BY <1>7 DEF GetPartial, Partial, pipeVars
<1>8. ASSUME NEW s \in Sessions, Answer(s)
      PROVE  Strengthening'
  <2>1. /\ task[s] = "live"
        /\ task' = [task EXCEPT ![s] = "ended"]
        /\ CallbackFree
        /\ UNCHANGED <<speechCall, fired>>
    BY <1>8 DEF Answer, GetFinal, FinalResult, GetError, TaskError, CanAnswer,
                LastCallback
  <2>2. \E outcome : \E place \in {"result", "failed"} :
          Complete(s, Callback(s), outcome, place)
    BY <1>8 DEF Answer, GetFinal, GetError, LastCallback
  <2>3. \A u \in Threads :
          \/ pc'[u] = pc[u] /\ text'[u] = text[u]
          \/ u = Timer(s) /\ pc[u] = "armed" /\ pc'[u] = "left"
          \/ u = Callback(s) /\ pc'[u] \in {"left", "result", "failed"}
    BY <2>2 DEF Complete
  <2> QED
    BY <2>1, <2>3
<1>9. ASSUME NEW s \in Sessions, TimerBegins(s) \/ TimerFires(s)
      PROVE  Strengthening'
  BY <1>9 DEF TimerBegins, TimerFires, speechVars, taskVars
<1>10. ASSUME NEW s \in Sessions, Finish(s) \/ Finished(s)
       PROVE  Strengthening'
  BY <1>10 DEF Finish, Finished, FinishEnter, FinishLeave
<1>11. CASE EndOfSilence
  BY <1>11 DEF EndOfSilence, SilenceFires, pipeVars
<1>12. ASSUME NEW t \in Threads, SpotterCalls(t)
       PROVE  Strengthening'
  BY <1>12 DEF SpotterCalls, pipeVars, speechVars, taskVars
<1>13. ASSUME NEW t \in Threads, Dispatch(t) \/ Send(t)
       PROVE  Strengthening'
  BY <1>13 DEF Dispatch, Send, speechVars, taskVars
<1>14. ASSUME NEW t \in Threads, StartCooldown(t) \/ CooldownEnds(t)
       PROVE  Strengthening'
  <2>1. /\ pc[t] \in {"spoken", "failed", "result", "cooling"}
        /\ \E place \in {"cooling", "restart", "done"} : To(t, place)
        /\ UNCHANGED <<speechCall, task, fired>>
        /\ \A u \in Threads : text'[u] = text[u] \/ u = t
    BY <1>14 DEF StartCooldown, CooldownEnds, speechVars, taskVars
  <2> QED
    BY <2>1
<1>15. ASSUME NEW t \in Threads, Restart(t) \/ Restarted(t)
       PROVE  Strengthening'
  <2>1. /\ pc[t] \in {"restart", "restarting"}
        /\ \E place \in {"restarting", "done"} : To(t, place)
        /\ UNCHANGED <<speechCall, task, fired, text>>
    BY <1>15 DEF Restart, Restarted, speechVars, taskVars
  <2> QED
    BY <2>1
<1>16. CASE UNCHANGED vars
  BY <1>16 DEF vars, pipeVars, speechVars, taskVars
<1> QED
  BY <1>1, <1>2, <1>3, <1>4, <1>5, <1>6, <1>7, <1>8, <1>9, <1>10, <1>11,
     <1>12, <1>13, <1>14, <1>15, <1>16
     DEF Next, Session, WakeStep, TimerStep, Handle, Quiet

\* A step into a transit state leaves an activity that is committed, and one
\* that ends a commitment hands it on or leaves the transit states.
LEMMA CommitmentKept == IInv /\ [Next]_vars => NeverStranded'
<1> SUFFICES ASSUME IInv, [Next]_vars
             PROVE  NeverStranded'
  OBVIOUS
<1> USE ThreadFacts DEF IInv, TypeOK, PipelineTypeOK, To, Is, Strengthening,
        NeverStranded, Committed, Transit
<1>1. ASSUME NEW a \in Starts, UserStart(Start(a)) \/ UserStarted(Start(a))
      PROVE  NeverStranded'
  BY <1>1 DEF UserStart, UserStarted, speechVars, taskVars
<1>2. ASSUME NEW b \in Stops, UserStop(Stop(b)) \/ UserStopped(Stop(b))
      PROVE  NeverStranded'
  BY <1>2 DEF UserStop, UserStopped, Cancelled, speechVars, taskVars
<1>3. ASSUME NEW s \in Sessions, Detect(s)
      PROVE  NeverStranded'
  BY <1>3 DEF Detect, speechVars, taskVars
<1>4. ASSUME NEW s \in Sessions, HandleWake(s) \/ StartRecognition(s)
      PROVE  NeverStranded'
  BY <1>4 DEF HandleWake, StartRecognition, speechVars, taskVars
<1>5. ASSUME NEW s \in Sessions, RecognizeCalls(s)
      PROVE  NeverStranded'
  BY <1>5 DEF RecognizeCalls, pipeVars, RecognizeStep, Recognize, MakeRequest,
              OpenSpeechTap, StartSpeech, Calls, taskVars
<1>6. ASSUME NEW s \in Sessions, Recognized(s)
      PROVE  NeverStranded'
  BY <1>6 DEF Recognized, Complete, speechVars, taskVars
<1>7. ASSUME NEW s \in Sessions, GetPartial(s)
      PROVE  NeverStranded'
  BY <1>7 DEF GetPartial, Partial, pipeVars
<1>8. ASSUME NEW s \in Sessions, Answer(s)
      PROVE  NeverStranded'
  BY <1>8 DEF Answer, GetFinal, FinalResult, GetError, TaskError,
              LastCallback, CallbackFree, CanAnswer, Complete
<1>9. ASSUME NEW s \in Sessions, TimerBegins(s) \/ TimerFires(s)
      PROVE  NeverStranded'
  BY <1>9 DEF TimerBegins, TimerFires, speechVars, taskVars
<1>10. ASSUME NEW s \in Sessions, Finish(s) \/ Finished(s)
       PROVE  NeverStranded'
  BY <1>10 DEF Finish, Finished, FinishEnter, FinishLeave
<1>11. CASE EndOfSilence
  BY <1>11 DEF EndOfSilence, SilenceFires, pipeVars
<1>12. ASSUME NEW t \in Threads, SpotterCalls(t)
       PROVE  NeverStranded'
  BY <1>12 DEF SpotterCalls, pipeVars, speechVars, taskVars
<1>13. ASSUME NEW t \in Threads, Dispatch(t) \/ Send(t)
       PROVE  NeverStranded'
  BY <1>13 DEF Dispatch, Send, speechVars, taskVars
<1>14. ASSUME NEW t \in Threads, StartCooldown(t) \/ CooldownEnds(t)
       PROVE  NeverStranded'
  BY <1>14 DEF StartCooldown, CooldownEnds, speechVars, taskVars
<1>15. ASSUME NEW t \in Threads, Restart(t) \/ Restarted(t)
       PROVE  NeverStranded'
  BY <1>15 DEF Restart, Restarted, speechVars, taskVars
<1>16. CASE UNCHANGED vars
  BY <1>16 DEF vars, pipeVars, speechVars, taskVars
<1> QED
  BY <1>1, <1>2, <1>3, <1>4, <1>5, <1>6, <1>7, <1>8, <1>9, <1>10, <1>11,
     <1>12, <1>13, <1>14, <1>15, <1>16
     DEF Next, Session, WakeStep, TimerStep, Handle, Quiet

-----------------------------------------------------------------------------
\* At the start nothing is under way.
LEMMA InitIInv == Init => IInv
<1> SUFFICES ASSUME Init
             PROVE  IInv
  OBVIOUS
<1>1. SpotterTypeOK
  BY DEF Init, SpotterInit, SpotterTypeOK, Idle
<1>2. SpeechTypeOK
  BY DEF Init, SpeechInit, SpeechTypeOK
<1>3. PipelineTypeOK
  BY DEF Init, PipelineTypeOK, States, PCs
<1>4. Strengthening
  BY ThreadFacts DEF Init, SpeechInit, Strengthening
<1>5. NeverStranded
  BY DEF Init, NeverStranded, Transit
<1> QED
  BY <1>1, <1>2, <1>3, <1>4, <1>5 DEF Init, IInv, TypeOK

\* WakePipeline, whatever is started, stopped, late, lost or fails: the inductive
\* invariant that a run checks and the theorems below rest on holds throughout.
THEOREM SpecIInv == Spec => []IInv
<1>1. IInv /\ [Next]_vars => IInv'
  BY TypesKept, StrengtheningKept, CommitmentKept DEF IInv
<1> QED
  BY <1>1, InitIInv, PTL DEF Spec

\* WakePipeline, KeywordSpotterService and SpeechService: every field keeps a
\* value of its type.
THEOREM PipelineTyped == Spec => []TypeOK
<1>1. IInv => TypeOK
  BY DEF IInv
<1> QED
  BY <1>1, SpecIInv, PTL

\* WakePipeline.state: however wakes, timeouts, late callbacks, failures, stops
\* and starts fall, a state the pipeline only passes through is one that some
\* activity still has to leave.
THEOREM NothingStranded == Spec => []NeverStranded
<1>1. IInv => NeverStranded
  BY DEF IInv
<1> QED
  BY <1>1, SpecIInv, PTL

-----------------------------------------------------------------------------
(* One outcome for a wake.                                                 *)

\* Neither a block that runs although it was cancelled, nor a recognition that
\* goes on although its audio engine did not start.
Orderly == Faults \cap {"race", "engine"} = {}

\* The timeout takes the outcome with its flag.  The callback and the failure
\* of recognize take it when the flag is down, and then the timeout is gone;
\* a recognition that failed has no task, so the two exclude each other.
Sole ==
  \A s \in Sessions :
    /\ pc[Timer(s)] \in {"finish", "finishing"} \cup Handling => fired[s]
    /\ pc[Timer(s)] \in
         {"none", "armed", "left", "finish", "finishing"} \cup Handling
    /\ pc[Timer(s)] = "none" =>
         pc[Wake(s)] \in {"none", "queued", "stopKws"} /\ speechCall[s] = "none"
    /\ speechCall[s] \in {"none", "request", "failed"} => task[s] = "none"
    /\ pc[Wake(s)] \in Handling =>
         speechCall[s] = "failed" /\ ~fired[s] /\ pc[Timer(s)] = "left"
    /\ pc[Callback(s)] \in Handling =>
         speechCall[s] = "started" /\ ~fired[s] /\ pc[Timer(s)] = "left"

\* Sole is why a wake has one outcome.
LEMMA SoleOutcome == Sole => OutcomeOnce
BY ThreadFacts DEF Sole, OutcomeOnce, Of, Handling

\* Every step keeps it.
LEMMA SoleKept ==
  ASSUME Orderly, IInv, Sole, [Next]_vars
  PROVE  Sole'
<1> USE ThreadFacts DEF IInv, TypeOK, PipelineTypeOK, SpeechTypeOK, To, Is,
        Strengthening, Sole, Handling
<1>1. ASSUME NEW a \in Starts, UserStart(Start(a)) \/ UserStarted(Start(a))
      PROVE  Sole'
  BY <1>1 DEF UserStart, UserStarted, speechVars, taskVars
<1>2. ASSUME NEW b \in Stops, UserStop(Stop(b)) \/ UserStopped(Stop(b))
      PROVE  Sole'
  BY <1>2 DEF UserStop, UserStopped, Cancelled, speechVars, taskVars
<1>3. ASSUME NEW s \in Sessions, Detect(s)
      PROVE  Sole'
  BY <1>3 DEF Detect, speechVars, taskVars
<1>4. ASSUME NEW s \in Sessions, HandleWake(s) \/ StartRecognition(s)
      PROVE  Sole'
  BY <1>4 DEF HandleWake, StartRecognition, speechVars, taskVars
<1>5. ASSUME NEW s \in Sessions, RecognizeCalls(s)
      PROVE  Sole'
  <2>1. /\ pc[Wake(s)] = "recognize"
        /\ UNCHANGED <<pc, fired>>
    BY <1>5 DEF RecognizeCalls, pipeVars
  <2>2. \/ /\ speechCall[s] = "none"
           /\ \E step \in {"request", "failed"} : Calls(s, step)
           /\ UNCHANGED task
        \/ /\ speechCall[s] = "request"
           /\ \/ Calls(s, "failed") /\ UNCHANGED task
              \/ Calls(s, "tap") /\ task' = [task EXCEPT ![s] = "live"]
        \/ /\ speechCall[s] \in {"tap", "engine"}
           /\ \E step \in {"engine", "started"} : Calls(s, step)
           /\ UNCHANGED task
    BY <1>5 DEF RecognizeCalls, RecognizeStep, Recognize, MakeRequest,
                OpenSpeechTap, StartSpeech, taskVars, Orderly
  <2> QED
    BY <2>1, <2>2 DEF Calls
<1>6. ASSUME NEW s \in Sessions, Recognized(s)
      PROVE  Sole'
  <2>1. pc[Wake(s)] = "recognize" /\ UNCHANGED <<speechCall, task, fired>>
    BY <1>6 DEF Recognized, speechVars, taskVars
  <2>2. CASE To(Wake(s), "left")
    BY <2>1, <2>2
  <2>3. CASE speechCall[s] = "failed" /\ Complete(s, Wake(s), Empty, "failed")
    BY <2>1, <2>3 DEF Complete
  <2> QED
    BY <1>6, <2>2, <2>3 DEF Recognized
<1>7. ASSUME NEW s \in Sessions, GetPartial(s)
      PROVE  Sole'
  BY <1>7 DEF GetPartial, Partial, pipeVars
<1>8. ASSUME NEW s \in Sessions, Answer(s)
      PROVE  Sole'
  <2>1. /\ task[s] = "live" /\ speechCall[s] = "started"
        /\ task' = [task EXCEPT ![s] = "ended"]
        /\ UNCHANGED <<speechCall, fired>>
    BY <1>8 DEF Answer, GetFinal, FinalResult, GetError, TaskError, CanAnswer,
                LastCallback, Orderly
  <2>2. \E outcome : \E place \in {"result", "failed"} :
          Complete(s, Callback(s), outcome, place)
    BY <1>8 DEF Answer, GetFinal, GetError, LastCallback
  <2>3. /\ \A r \in Sessions : pc'[Wake(r)] = pc[Wake(r)]
        /\ \A r \in Sessions \ {s} : /\ pc'[Timer(r)] = pc[Timer(r)]
                                     /\ pc'[Callback(r)] = pc[Callback(r)]
        /\ pc'[Timer(s)] = IF pc[Timer(s)] = "armed" THEN "left"
                           ELSE pc[Timer(s)]
        /\ pc'[Callback(s)] \in
             IF fired[s] THEN {"left"} ELSE {"result", "failed"}
    BY <2>2 DEF Complete
  <2> QED
    BY <2>1, <2>3
<1>9. ASSUME NEW s \in Sessions, TimerBegins(s) \/ TimerFires(s)
      PROVE  Sole'
  BY <1>9 DEF TimerBegins, TimerFires, speechVars, taskVars, Orderly
<1>10. ASSUME NEW s \in Sessions, Finish(s) \/ Finished(s)
       PROVE  Sole'
  BY <1>10 DEF Finish, Finished, FinishEnter, FinishLeave
<1>11. CASE EndOfSilence
  BY <1>11 DEF EndOfSilence, SilenceFires, pipeVars
<1>12. ASSUME NEW t \in Threads, SpotterCalls(t)
       PROVE  Sole'
  BY <1>12 DEF SpotterCalls, pipeVars, speechVars, taskVars
<1>13. ASSUME NEW t \in Threads, Dispatch(t) \/ Send(t)
       PROVE  Sole'
  BY <1>13 DEF Dispatch, Send, speechVars, taskVars
<1>14. ASSUME NEW t \in Threads, StartCooldown(t) \/ CooldownEnds(t)
       PROVE  Sole'
  BY <1>14 DEF StartCooldown, CooldownEnds, speechVars, taskVars
<1>15. ASSUME NEW t \in Threads, Restart(t) \/ Restarted(t)
       PROVE  Sole'
  BY <1>15 DEF Restart, Restarted, speechVars, taskVars
<1>16. CASE UNCHANGED vars
  BY <1>16 DEF vars, pipeVars, speechVars, taskVars
<1> QED
  BY <1>1, <1>2, <1>3, <1>4, <1>5, <1>6, <1>7, <1>8, <1>9, <1>10, <1>11,
     <1>12, <1>13, <1>14, <1>15, <1>16
     DEF Next, Session, WakeStep, TimerStep, Handle, Quiet

\* WakePipeline.startRecognition: when no cancelled block runs and every audio
\* engine starts, of the timeout, the last callback and the failure of
\* recognize() of a wake at most one is handled, so nothing is sent twice.
THEOREM OneOutcome ==
  ASSUME Orderly
  PROVE  Spec => []OutcomeOnce
<1>1. Init => Sole
  BY ThreadFacts DEF Init, SpeechInit, Sole, Handling
<1>2. IInv /\ Sole /\ [Next]_vars => Sole'
  BY SoleKept
<1> QED
  BY <1>1, <1>2, SpecIInv, SoleOutcome, PTL DEF Spec

=============================================================================
