--------------------------- MODULE WakeCycleProofs ---------------------------
(***************************************************************************)
(* The wakes of a pipeline one after another: what is sent is what was     *)
(* said, the microphone has one owner, and the pipeline implements         *)
(* WakeCycle, for any number of wakes and of starts that come apart.       *)
(***************************************************************************)
EXTENDS WakePipelineProofs

\* The environment does nothing out of the ordinary, but that the spotter may
\* fail to start.
Calm == Faults \subseteq {"spotter"}

\* Nobody has to write the state after the outcome of t but t itself.
Open == Handling \ {"done"}

\* The wakes that were heard and have not come to their end.
Busy(s) ==
  \/ pc[Wake(s)] \in {"queued", "stopKws"}
  \/ pc[Timer(s)] \in {"armed", "finish", "finishing"}
  \/ \E t \in Of(s) : pc[t] \in Open

\* A start overlaps neither another one nor a wake that is being handled.
StartsApart ==
  \A a \in Starts : pc[Start(a)] = "starting" =>
    /\ \A b \in Starts : pc[Start(b)] = "starting" => b = a
    /\ \A s \in Sessions : ~Busy(s)

\* Where the three activities of a wake, its recognize() and its task may be.
Places ==
  /\ \A a \in Starts : pc[Start(a)] \in {"none", "starting", "left"}
  /\ \A b \in Stops : pc[Stop(b)] \in {"none", "stopping", "left"}
  /\ \A s \in Sessions :
       /\ pc[Wake(s)] \in {"none", "queued", "stopKws", "recognize", "left"}
                            \cup Handling
       /\ pc[Callback(s)] \in {"none", "left"} \cup Handling
       /\ pc[Timer(s)] = "armed" =>
            /\ pc[Wake(s)] \in {"recognize", "left"}
            /\ pc[Callback(s)] = "none"
       /\ pc[Wake(s)] = "left" => speechCall[s] = "started"
       /\ pc[Timer(s)] \in {"finish", "finishing"} \cup Handling =>
            pc[Wake(s)] = "left"
       /\ pc[Wake(s)] = "recognize" =>
            pc[Timer(s)] = "armed" \/ speechCall[s] = "started"
       /\ speechCall[s] \in {"tap", "engine"} => task[s] = "live"
       /\ task[s] = "live" => pc[Timer(s)] \in {"armed", "finish", "finishing"}
       /\ pc[Timer(s)] = "armed" => task[s] # "ended"
       /\ speechCall[s] = "started" => task[s] # "none"
       /\ s \in signals => task[s] = "ended"
       /\ pc[Timer(s)] = "finishing" => waitOn[s] = s

\* One wake is handled at a time, and none while a start is under way.
OneAtATime ==
  /\ \A s, r \in Sessions : Busy(s) /\ Busy(r) => s = r
  /\ \A s \in Sessions :
       Busy(s) /\ state = "kwsListening" => pc[Wake(s)] = "queued"
  /\ StartsApart
  /\ \A a \in Starts : pc[Start(a)] = "starting" => state = "idle"

\* The wake whose tap and microphone the speech service has.
Using(s) ==
  /\ speechCall[s] \in {"engine", "started"}
  /\ \/ task[s] = "live"
     \/ pc[Callback(s)] \in {"result", "failed", "sending", "spoken"}

\* What a wake that is using the service, or about to, finds there.
Owns(s) ==
  /\ Using(s) =>
       /\ speechTap = s
       /\ speechCall[s] = "started" => micOpen
       /\ request = s
       /\ silenceTask \in {s, Nil}
       /\ ~didCleanup
  /\ speechCall[s] \in {"request", "tap"} /\ pc[Timer(s)] = "armed" =>
       s \in onEngine /\ ~didCleanup
  /\ task[s] = "live" \/ pc[Timer(s)] \in {"finish", "finishing"} =>
       /\ request = s
       /\ latestResult \in {Nil, Empty, s}
       /\ bestPartial \in {Empty, s}
  /\ \A t \in Of(s) : pc[t] \in {"result", "sending"} => text[t] \in {s, Empty}

\* What the speech service has belongs to the wake that is using it.
EngineOwned ==
  /\ \A s \in Sessions : Owns(s)
  /\ (\A s \in Sessions : ~Using(s)) =>
       speechTap = Nil /\ ~micOpen /\ silenceTask = Nil

Serial == Places /\ OneAtATime /\ EngineOwned

\* What is known before a step.
Known == IInv /\ Sole /\ Serial

\* No two starts or stops are the same activity.
LEMMA CallerFacts ==
  /\ \A a, b \in Starts : Start(a) = Start(b) => a = b
  /\ \A a, b \in Stops : Stop(a) = Stop(b) => a = b
  /\ \A a \in Starts, b \in Stops : Start(a) # Stop(b)
BY DEF Start, Stop

\* A calm environment is an orderly one.
LEMMA CalmIsOrderly == Calm => Orderly
BY DEF Calm, Orderly

\* Every step keeps the places.
LEMMA PlacesKept ==
  ASSUME Calm, Known, [Next]_vars
  PROVE  Places'
<1> USE ThreadFacts, CallerFacts
    DEF Known, Serial, IInv, TypeOK, PipelineTypeOK, SpeechTypeOK, To, Is,
        Strengthening, Sole, Places, Handling, Calm
<1>1. ASSUME NEW a \in Starts, UserStart(Start(a)) \/ UserStarted(Start(a))
      PROVE  Places'
  <2>1. \/ pc' = [pc EXCEPT ![Start(a)] = "starting"]
        \/ pc' = [pc EXCEPT ![Start(a)] = "left"]
    BY <1>1 DEF UserStart, UserStarted
  <2> QED
    BY <1>1, <2>1 DEF UserStart, UserStarted, speechVars, taskVars
<1>2. ASSUME NEW b \in Stops, UserStop(Stop(b)) \/ UserStopped(Stop(b))
      PROVE  Places'
  <2>1. \A u \in Threads :
          \/ pc'[u] = pc[u]
          \/ u = Stop(b) /\ pc'[u] \in {"stopping", "left"}
          \/ pc[u] = "cooling" /\ pc'[u] = "done"
    BY <1>2 DEF UserStop, UserStopped, Cancelled
  <2>2. UNCHANGED <<speechCall, task, signals, waitOn>>
    BY <1>2 DEF UserStop, UserStopped, speechVars, taskVars
  <2> QED
    BY <2>1, <2>2
<1>3. ASSUME NEW s \in Sessions, Detect(s)
      PROVE  Places'
  BY <1>3 DEF Detect, speechVars, taskVars
<1>4. ASSUME NEW s \in Sessions, HandleWake(s) \/ StartRecognition(s)
      PROVE  Places'
  BY <1>4 DEF HandleWake, StartRecognition, speechVars, taskVars
<1>5. ASSUME NEW s \in Sessions, RecognizeCalls(s)
      PROVE  Places'
  BY <1>5 DEF RecognizeCalls, pipeVars, RecognizeStep, Recognize, MakeRequest,
              OpenSpeechTap, StartSpeech, Calls, taskVars
<1>6. ASSUME NEW s \in Sessions, Recognized(s)
      PROVE  Places'
  BY <1>6 DEF Recognized, Complete, speechVars, taskVars
<1>7. ASSUME NEW s \in Sessions, GetPartial(s)
      PROVE  Places'
  BY <1>7 DEF GetPartial, Partial, pipeVars
<1>8. ASSUME NEW s \in Sessions, Answer(s)
      PROVE  Places'
  <2>1. /\ task[s] = "live" /\ speechCall[s] = "started"
        /\ task' = [task EXCEPT ![s] = "ended"]
        /\ UNCHANGED <<speechCall, waitOn, fired>>
        /\ signals' \in {signals, signals \cup ({request} \ {Nil})}
    BY <1>8 DEF Answer, GetFinal, FinalResult, GetError, TaskError, CanAnswer,
                LastCallback
  <2>2. request = s
    BY <2>1 DEF EngineOwned, Owns
  <2>3. \E outcome : \E place \in {"result", "failed"} :
          Complete(s, Callback(s), outcome, place)
    BY <1>8 DEF Answer, GetFinal, GetError, LastCallback
  <2>4. /\ \A u \in Threads \ {Timer(s), Callback(s)} : pc'[u] = pc[u]
        /\ pc'[Timer(s)] = IF pc[Timer(s)] = "armed" THEN "left"
                           ELSE pc[Timer(s)]
        /\ pc'[Callback(s)] \in {"left", "result", "failed"}
    BY <2>3 DEF Complete
  <2> QED
    BY <2>1, <2>2, <2>4
<1>9. ASSUME NEW s \in Sessions, TimerBegins(s) \/ TimerFires(s)
      PROVE  Places'
  BY <1>9 DEF TimerBegins, TimerFires, speechVars, taskVars
<1>10. ASSUME NEW s \in Sessions, Finish(s) \/ Finished(s)
       PROVE  Places'
  BY <1>10 DEF Finish, Finished, FinishEnter, FinishLeave, EngineOwned, Owns
<1>11. CASE EndOfSilence
  BY <1>11 DEF EndOfSilence, SilenceFires, pipeVars
<1>12. ASSUME NEW t \in Threads, SpotterCalls(t)
       PROVE  Places'
  BY <1>12 DEF SpotterCalls, pipeVars, speechVars, taskVars
<1>13. ASSUME NEW t \in Threads, Dispatch(t) \/ Send(t)
       PROVE  Places'
  BY <1>13 DEF Dispatch, Send, speechVars, taskVars
<1>14. ASSUME NEW t \in Threads, StartCooldown(t) \/ CooldownEnds(t)
       PROVE  Places'
  BY <1>14 DEF StartCooldown, CooldownEnds, speechVars, taskVars
<1>15. ASSUME NEW t \in Threads, Restart(t) \/ Restarted(t)
       PROVE  Places'
  <2>1. /\ pc[t] \in {"restart", "restarting"}
        /\ \E place \in {"restarting", "done"} : To(t, place)
        /\ UNCHANGED <<speechCall, task, signals, waitOn>>
    BY <1>15 DEF Restart, Restarted, speechVars, taskVars
  <2> QED
    BY <2>1
<1>16. CASE UNCHANGED vars
  BY <1>16 DEF vars, pipeVars, speechVars, taskVars
<1> QED
  BY <1>1, <1>2, <1>3, <1>4, <1>5, <1>6, <1>7, <1>8, <1>9, <1>10, <1>11,
     <1>12, <1>13, <1>14, <1>15, <1>16
     DEF Next, Session, WakeStep, TimerStep, Handle, Quiet

\* Only the activities of a wake handle an outcome.
LEMMA HandlersOf ==
  ASSUME Places, NEW t \in Threads, pc[t] \in Handling
  PROVE  \E s \in Sessions : t \in Of(s)
BY DEF Places, Handling, Threads, Of, Wake, Timer, Callback, Start, Stop

\* Every step keeps wakes and starts apart.
LEMMA OneAtATimeKept ==
  ASSUME Calm, Known, [Next]_vars, Places', StartsApart'
  PROVE  OneAtATime'
<1> USE ThreadFacts, CallerFacts
    DEF Known, Serial, IInv, TypeOK, PipelineTypeOK, SpeechTypeOK, To, Is,
        Strengthening, Sole, Places, Handling, Calm, OneAtATime, StartsApart, Busy,
        Open, Of
<1>1. ASSUME NEW a \in Starts, UserStart(Start(a)) \/ UserStarted(Start(a))
      PROVE  OneAtATime'
  <2>1. CASE UserStart(Start(a))
    <3>1. \/ pc' = [pc EXCEPT ![Start(a)] = "starting"] /\ state = "idle"
          \/ pc' = [pc EXCEPT ![Start(a)] = "left"]
      BY <2>1 DEF UserStart
    <3>2. \A s \in Sessions : Busy(s)' <=> Busy(s)
      BY <3>1
    <3> QED
      BY <2>1, <3>1, <3>2 DEF UserStart
  <2>2. CASE UserStarted(Start(a))
    <3>1. pc' = [pc EXCEPT ![Start(a)] = "left"] /\ pc[Start(a)] = "starting"
      BY <2>2 DEF UserStarted
    <3>2. \A s \in Sessions : Busy(s)' <=> Busy(s)
      BY <3>1
    <3>3. \A c \in Starts : pc'[Start(c)] # "starting"
      BY <3>1
    <3> QED
      BY <3>1, <3>2, <3>3
  <2> QED
    BY <1>1, <2>1, <2>2
<1>2. ASSUME NEW b \in Stops, UserStop(Stop(b)) \/ UserStopped(Stop(b))
      PROVE  OneAtATime'
  BY <1>2 DEF UserStop, UserStopped, Cancelled, speechVars, taskVars
<1>3. ASSUME NEW s \in Sessions, Detect(s)
      PROVE  OneAtATime'
  BY <1>3 DEF Detect, speechVars, taskVars
<1>4. ASSUME NEW s \in Sessions, HandleWake(s) \/ StartRecognition(s)
      PROVE  OneAtATime'
  BY <1>4 DEF HandleWake, StartRecognition, speechVars, taskVars
<1>5. ASSUME NEW s \in Sessions, RecognizeCalls(s)
      PROVE  OneAtATime'
  BY <1>5 DEF RecognizeCalls, pipeVars, RecognizeStep, Recognize, MakeRequest,
              OpenSpeechTap, StartSpeech, Calls, taskVars
<1>6. ASSUME NEW s \in Sessions, Recognized(s)
      PROVE  OneAtATime'
  BY <1>6 DEF Recognized, Complete, speechVars, taskVars
<1>7. ASSUME NEW s \in Sessions, GetPartial(s)
      PROVE  OneAtATime'
  BY <1>7 DEF GetPartial, Partial, pipeVars
<1>8. ASSUME NEW s \in Sessions, Answer(s)
      PROVE  OneAtATime'
  BY <1>8 DEF Answer, GetFinal, FinalResult, GetError, TaskError, CanAnswer,
              LastCallback, Complete
<1>9. ASSUME NEW s \in Sessions, TimerBegins(s) \/ TimerFires(s)
      PROVE  OneAtATime'
  BY <1>9 DEF TimerBegins, TimerFires, speechVars, taskVars
<1>10. ASSUME NEW s \in Sessions, Finish(s) \/ Finished(s)
       PROVE  OneAtATime'
  BY <1>10 DEF Finish, Finished, FinishEnter, FinishLeave
<1>11. CASE EndOfSilence
  BY <1>11 DEF EndOfSilence, SilenceFires, pipeVars
<1>12. ASSUME NEW t \in Threads, SpotterCalls(t)
       PROVE  OneAtATime'
  BY <1>12 DEF SpotterCalls, pipeVars, speechVars, taskVars
<1>13. ASSUME NEW t \in Threads, Dispatch(t) \/ Send(t)
       PROVE  OneAtATime'
  <2>1. PICK r \in Sessions : t \in Of(r)
    BY <1>13, HandlersOf DEF Dispatch, Send
  <2>2. /\ pc[t] \in {"result", "sending"}
        /\ \E place \in {"sending", "spoken"} : To(t, place)
        /\ state' \in {"dispatching", "feedback"}
    BY <1>13 DEF Dispatch, Send
  <2>3. \A s \in Sessions : Busy(s)' <=> Busy(s)
    BY <2>1, <2>2
  <2> QED
    BY <2>1, <2>2, <2>3
<1>14. ASSUME NEW t \in Threads, StartCooldown(t) \/ CooldownEnds(t)
       PROVE  OneAtATime'
  <2>1. PICK r \in Sessions : t \in Of(r)
    BY <1>14, HandlersOf DEF StartCooldown, CooldownEnds
  <2>2. /\ pc[t] \in {"spoken", "failed", "result", "cooling"}
        /\ \E place \in {"cooling", "restart", "done"} : To(t, place)
        /\ state' \in {"cooldown", state}
    BY <1>14 DEF StartCooldown, CooldownEnds
  <2>3. Busy(r) /\ \A s \in Sessions : Busy(s)' => Busy(s)
    BY <2>1, <2>2
  <2> QED
    BY <2>1, <2>2, <2>3
<1>15. ASSUME NEW t \in Threads, Restart(t) \/ Restarted(t)
       PROVE  OneAtATime'
  <2>1. PICK r \in Sessions : t \in Of(r)
    BY <1>15, HandlersOf DEF Restart, Restarted
  <2>2. CASE Restart(t)
    <3>1. /\ pc[t] = "restart" /\ UNCHANGED state
          /\ \E place \in {"restarting", "done"} : To(t, place)
      BY <2>2 DEF Restart
    <3>2. Busy(r) /\ \A s \in Sessions : Busy(s)' => Busy(s)
      BY <2>1, <3>1
    <3> QED
      BY <2>1, <3>1, <3>2
  <2>3. CASE Restarted(t)
    <3>1. pc[t] = "restarting" /\ To(t, "done")
      BY <2>3 DEF Restarted
    <3>2. Busy(r) /\ \A s \in Sessions : Busy(s)' => Busy(s)
      BY <2>1, <3>1
    <3>3. ~Busy(r)'
      BY <2>1, <3>1
    <3> QED
      BY <2>1, <3>1, <3>2, <3>3
  <2> QED
    BY <1>15, <2>2, <2>3
<1>16. CASE UNCHANGED vars
  BY <1>16 DEF vars, pipeVars, speechVars, taskVars
<1> QED
  BY <1>1, <1>2, <1>3, <1>4, <1>5, <1>6, <1>7, <1>8, <1>9, <1>10, <1>11,
     <1>12, <1>13, <1>14, <1>15, <1>16
     DEF Next, Session, WakeStep, TimerStep, Handle, Quiet

\* While one wake is being handled, the others have nothing to do with the
\* speech service.
LEMMA OthersRest ==
  ASSUME Known, NEW s \in Sessions, Busy(s), NEW r \in Sessions, r # s
  PROVE  /\ ~Busy(r) /\ ~Using(r) /\ task[r] # "live"
         /\ pc[Timer(r)] \notin {"armed", "finish", "finishing"}
         /\ \A t \in Of(r) : pc[t] \notin Open
BY ThreadFacts
   DEF Known, Serial, Places, OneAtATime, Busy, Using, Of, Open, Handling

\* Every step leaves the speech service to the wake that is using it.
LEMMA EngineOwnedKept ==
  ASSUME Calm, Known, [Next]_vars, TypeOK', Places'
  PROVE  EngineOwned'
<1> USE ThreadFacts, CallerFacts
    DEF Known, Serial, IInv, TypeOK, PipelineTypeOK, SpeechTypeOK, To, Is,
        Strengthening, Sole, Places, Handling, Calm, OneAtATime, Busy, Open, Of,
        EngineOwned, Owns, Using
<1>1. ASSUME NEW a \in Starts, UserStart(Start(a)) \/ UserStarted(Start(a))
      PROVE  EngineOwned'
  BY <1>1 DEF UserStart, UserStarted, speechVars, taskVars, engineVars
<1>2. ASSUME NEW b \in Stops, UserStop(Stop(b)) \/ UserStopped(Stop(b))
      PROVE  EngineOwned'
  BY <1>2 DEF UserStop, UserStopped, Cancelled, speechVars, taskVars, engineVars
<1>3. ASSUME NEW s \in Sessions, Detect(s)
      PROVE  EngineOwned'
  BY <1>3 DEF Detect, speechVars, taskVars, engineVars
<1>4. ASSUME NEW s \in Sessions, HandleWake(s) \/ StartRecognition(s)
      PROVE  EngineOwned'
  BY <1>4 DEF HandleWake, StartRecognition, speechVars, taskVars, engineVars
<1>5. ASSUME NEW s \in Sessions, RecognizeCalls(s)
      PROVE  EngineOwned'
  <2>1. /\ pc[Wake(s)] = "recognize"
        /\ UNCHANGED <<pc, text>>
        /\ RecognizeStep(s)
    BY <1>5 DEF RecognizeCalls, pipeVars
  <2>2. Busy(s) /\ pc[Callback(s)] = "none"
    BY <2>1 DEF RecognizeStep, Recognize, MakeRequest, OpenSpeechTap,
                StartSpeech
  <2>3. \A q \in Sessions \ {s} :
          /\ ~Using(q) /\ task[q] # "live"
          /\ pc[Timer(q)] \notin {"armed", "finish", "finishing"}
    BY <2>2, OthersRest DEF Known, Serial
  <2>4. CASE Recognize(s)
    BY <2>1, <2>2, <2>3, <2>4 DEF Recognize, Calls, taskVars
  <2>5. CASE MakeRequest(s)
    BY <2>1, <2>2, <2>3, <2>5 DEF MakeRequest, Calls, engineVars
  <2>6. CASE OpenSpeechTap(s)
    BY <2>1, <2>2, <2>3, <2>6 DEF OpenSpeechTap, Calls, taskVars
  <2>7. CASE StartSpeech(s)
    BY <2>1, <2>2, <2>3, <2>7 DEF StartSpeech, Calls, taskVars
  <2> QED
    BY <2>1, <2>4, <2>5, <2>6, <2>7 DEF RecognizeStep
<1>6. ASSUME NEW s \in Sessions, Recognized(s)
      PROVE  EngineOwned'
  BY <1>6 DEF Recognized, Complete, speechVars, taskVars, engineVars
<1>7. ASSUME NEW s \in Sessions, GetPartial(s)
      PROVE  EngineOwned'
  <2>1. PICK words \in {s, Empty} : Partial(s, words)
    BY <1>7 DEF GetPartial
  <2>2. UNCHANGED <<pc, text>>
    BY <1>7 DEF GetPartial, pipeVars
  <2>3. /\ Using(s)
        /\ \A q \in Sessions \ {s} :
             /\ ~Using(q) /\ task[q] # "live"
             /\ pc[Timer(q)] \notin {"armed", "finish", "finishing"}
    BY <2>1, OthersRest DEF Partial, CanAnswer
  <2> QED
    BY <2>1, <2>2, <2>3 DEF Partial, TakeResult, SilenceArmed, engineVars
<1>8. ASSUME NEW s \in Sessions, Answer(s)
      PROVE  EngineOwned'
  <2>1. /\ task[s] = "live" /\ speechCall[s] = "started"
        /\ task' = [task EXCEPT ![s] = "ended"]
        /\ UNCHANGED <<speechCall, request, fired>>
    BY <1>8 DEF Answer, GetFinal, FinalResult, GetError, TaskError, CanAnswer,
                LastCallback
  <2>2. /\ Using(s) /\ Busy(s)
        /\ \A q \in Sessions \ {s} :
             /\ ~Using(q) /\ task[q] # "live"
             /\ pc[Timer(q)] \notin {"armed", "finish", "finishing"}
    BY <2>1, OthersRest
  <2>3. \E outcome \in {s, Empty} : \E place \in {"result", "failed"} :
          Complete(s, Callback(s), outcome, place)
    BY <1>8, <2>1, <2>2
       DEF Answer, GetFinal, GetError, LastCallback, FinalText
  <2>4. /\ \A u \in Threads \ {Timer(s), Callback(s)} :
             pc'[u] = pc[u] /\ text'[u] = text[u]
        /\ pc'[Timer(s)] = IF pc[Timer(s)] = "armed" THEN "left"
                           ELSE pc[Timer(s)]
        /\ text'[Timer(s)] = text[Timer(s)]
        /\ text'[Callback(s)] \in {s, Empty}
        /\ pc'[Callback(s)] \in
             IF fired[s] THEN {"left"} ELSE {"result", "failed"}
    BY <2>3 DEF Complete
  <2>5. /\ latestResult' \in {latestResult, s, Empty}
        /\ bestPartial' \in {bestPartial, s}
    BY <1>8 DEF Answer, GetFinal, FinalResult, TakeResult, GetError, TaskError
  <2>6. \E armed \in {s, silenceTask} :
          IF fired[s]
          THEN CleanupEngine(armed)
          ELSE silenceTask' = armed /\ UNCHANGED engineVars
    BY <1>8 DEF Answer, GetFinal, GetError, LastCallback, SilenceArmed
  <2>7. \A q \in Sessions \ {s} : Owns(q)'
    BY <2>1, <2>2, <2>4
  <2>8. Owns(s)' /\ (Using(s)' <=> ~fired[s])
    BY <2>1, <2>2, <2>4, <2>5, <2>6 DEF engineVars
  <2> QED
    BY <2>1, <2>2, <2>4, <2>6, <2>7, <2>8 DEF CleanupEngine
<1>9. ASSUME NEW s \in Sessions, TimerBegins(s) \/ TimerFires(s)
      PROVE  EngineOwned'
  BY <1>9 DEF TimerBegins, TimerFires, speechVars, taskVars, engineVars
<1>10. ASSUME NEW s \in Sessions, Finish(s) \/ Finished(s)
       PROVE  EngineOwned'
  <2>1. /\ pc[Timer(s)] \in {"finish", "finishing"} /\ Busy(s)
        /\ UNCHANGED <<task, speechCall, request, latestResult, bestPartial>>
    BY <1>10 DEF Finish, Finished, FinishEnter, FinishLeave
  <2>2. \A q \in Sessions \ {s} :
          /\ ~Using(q) /\ task[q] # "live"
          /\ pc[Timer(q)] \notin {"armed", "finish", "finishing"}
    BY <2>1, OthersRest
  <2>3. CASE Finish(s)
    BY <2>1, <2>2, <2>3 DEF Finish, FinishEnter, engineVars
  <2>4. CASE Finished(s)
    <3>1. task[s] # "live" /\ pc[Callback(s)] \notin Handling
      BY <2>4 DEF Finished, FinishLeave
    <3>2. ~Using(s) /\ speechTap = Nil /\ ~micOpen /\ silenceTask = Nil
      BY <2>2, <3>1
    <3>3. speechTap' = Nil /\ ~micOpen' /\ silenceTask' = Nil
      BY <2>4, <3>2 DEF Finished, FinishLeave, CleanupEngine, engineVars
    <3>4. /\ \A u \in Threads \ {Timer(s)} : pc'[u] = pc[u] /\ text'[u] = text[u]
          /\ pc'[Timer(s)] = "result" => text'[Timer(s)] = s
          /\ pc'[Timer(s)] \in {"result", "failed"}
      BY <2>1, <2>4, SentinelsAssumption DEF Finished, FinishResult
    <3> QED
      BY <2>1, <2>2, <3>1, <3>2, <3>3, <3>4
  <2> QED
    BY <1>10, <2>3, <2>4
<1>11. CASE EndOfSilence
  BY <1>11 DEF EndOfSilence, SilenceFires, pipeVars, engineVars
<1>12. ASSUME NEW t \in Threads, SpotterCalls(t)
       PROVE  EngineOwned'
  BY <1>12 DEF SpotterCalls, pipeVars, speechVars, taskVars, engineVars
<1>13. ASSUME NEW t \in Threads, Dispatch(t) \/ Send(t)
       PROVE  EngineOwned'
  BY <1>13 DEF Dispatch, Send, speechVars, taskVars, engineVars
<1>14. ASSUME NEW t \in Threads, StartCooldown(t) \/ CooldownEnds(t)
       PROVE  EngineOwned'
  <2>1. CASE StartCooldown(t)
    <3>1. PICK s \in Sessions : t \in Of(s)
      BY <2>1, HandlersOf DEF StartCooldown
    <3>2. /\ pc[t] \in {"spoken", "failed", "result"} /\ Busy(s)
          /\ To(t, "cooling")
          /\ \A u \in Threads \ {t} : text'[u] = text[u]
          /\ UNCHANGED <<task, speechCall, request, latestResult, bestPartial>>
      BY <2>1, <3>1 DEF StartCooldown
    <3>3. \A q \in Sessions \ {s} :
            /\ ~Using(q) /\ task[q] # "live"
            /\ pc[Timer(q)] \notin {"armed", "finish", "finishing"}
      BY <3>2, OthersRest
    <3>4. task[s] # "live" /\ pc[Timer(s)] \notin {"armed", "finish", "finishing"}
      BY <3>1, <3>2
    <3>5. speechTap' = Nil /\ ~micOpen' /\ silenceTask' = Nil
      <4>1. CASE t = Callback(s)
        BY <2>1, <3>2, <4>1 DEF StartCooldown, CleanupEngine
      <4>2. CASE t # Callback(s)
        <5>1. ~Using(s) /\ \A q \in Sessions : t # Callback(q)
          BY <3>1, <3>2, <3>4, <4>2
        <5> QED
          BY <2>1, <3>3, <5>1 DEF StartCooldown, engineVars
      <4> QED
        BY <4>1, <4>2
    <3>6. \A q \in Sessions : ~Using(q)'
      BY <3>1, <3>2, <3>3, <3>4
    <3> QED
      BY <3>1, <3>2, <3>3, <3>4, <3>5, <3>6
  <2>2. CASE CooldownEnds(t)
    BY <2>2 DEF CooldownEnds, speechVars, taskVars, engineVars
  <2> QED
    BY <1>14, <2>1, <2>2
<1>15. ASSUME NEW t \in Threads, Restart(t) \/ Restarted(t)
       PROVE  EngineOwned'
  BY <1>15 DEF Restart, Restarted, speechVars, taskVars, engineVars
<1>16. CASE UNCHANGED vars
  BY <1>16 DEF vars, pipeVars, speechVars, taskVars, engineVars
<1> QED
  BY <1>1, <1>2, <1>3, <1>4, <1>5, <1>6, <1>7, <1>8, <1>9, <1>10, <1>11,
     <1>12, <1>13, <1>14, <1>15, <1>16
     DEF Next, Session, WakeStep, TimerStep, Handle, Quiet

-----------------------------------------------------------------------------
\* At the start no wake was heard.
LEMMA InitSerial == Init => Serial
BY ThreadFacts, CallerFacts
   DEF Init, SpeechInit, Serial, Places, OneAtATime, StartsApart, Busy, Of,
       Open, Handling, EngineOwned, Owns, Using

\* A step after which starts are still apart keeps the invariant.
LEMMA KnownKept ==
  ASSUME Calm, Known, [Next]_vars, StartsApart'
  PROVE  Known'
<1>1. IInv'
  BY TypesKept, StrengtheningKept, CommitmentKept DEF IInv, Known
<1>2. Sole'
  BY CalmIsOrderly, SoleKept DEF Known
<1>3. Places'
  BY PlacesKept
<1>4. OneAtATime'
  BY <1>3, OneAtATimeKept
<1>5. EngineOwned'
  BY <1>1, <1>3, EngineOwnedKept DEF IInv
<1> QED
  BY <1>1, <1>2, <1>3, <1>4, <1>5 DEF Known, Serial

\* At the start nothing is known to be under way.
LEMMA InitKnown == Init => Known
<1>1. Init => Sole
  BY ThreadFacts DEF Init, SpeechInit, Sole, Handling
<1> QED
  BY <1>1, InitIInv, InitSerial DEF Known

\* With starts that come apart the invariant holds in every state.
LEMMA SpecSerial ==
  ASSUME Calm
  PROVE  Spec /\ []StartsApart => []Known
<1>1. Known /\ [Next]_vars /\ StartsApart' => Known'
  BY KnownKept
<1> QED
  BY <1>1, InitKnown, PTL DEF Spec

\* SpeechService and WakePipeline.handleRecognitionResult: whenever the pipeline
\* is stopped, and however results, errors, timeouts and silence fall, a wake
\* sends what was said after it, as long as starts come apart and the recognizer
\* is not late.
THEOREM WordsAreOwn ==
  ASSUME Calm
  PROVE  Spec /\ []StartsApart => []OwnWords
<1>1. Known => OwnWords
  BY ThreadFacts
     DEF Known, IInv, Strengthening, Serial, EngineOwned, Owns, OwnWords, Of
<1> QED
  BY <1>1, SpecSerial, PTL

\* SpeechService.cleanupEngine and the silence timer: a timer ends the audio of
\* the recognition that armed it.
THEOREM SilenceIsOwn ==
  ASSUME Calm
  PROVE  Spec /\ []StartsApart => []OwnSilence
<1>1. Known => OwnSilence
  BY DEF Known, Serial, EngineOwned, Owns, OwnSilence
<1> QED
  BY <1>1, SpecSerial, PTL

\* SpeechService.engineDidCleanup: no cleanup takes the tap and the microphone
\* of a recognition that goes on.
THEOREM EngineIsKept ==
  ASSUME Calm
  PROVE  Spec /\ []StartsApart => []KeepsEngine
<1>1. Known => KeepsEngine
  BY DEF Known, Serial, EngineOwned, Owns, Using, KeepsEngine
<1> QED
  BY <1>1, SpecSerial, PTL

-----------------------------------------------------------------------------
(* A single start, as in the runs, comes apart.                            *)

SingleStart == \A a, b \in Starts : a = b

\* Before that start has returned, nothing was heard.
FirstStart ==
  \A a \in Starts : pc[Start(a)] \in {"none", "starting"} =>
    state = "idle" /\ \A s \in Sessions : ~Busy(s)

\* Every step keeps that.
LEMMA FirstStartKept ==
  ASSUME Calm, SingleStart, Known, FirstStart, [Next]_vars
  PROVE  FirstStart'
<1> USE ThreadFacts, CallerFacts
    DEF Calm, SingleStart, FirstStart, Known, Serial, IInv, TypeOK, PipelineTypeOK,
        To, Is, Places, Sole, Busy, Of, Open, Handling
<1>1. ASSUME NEW a \in Starts, UserStart(Start(a)) \/ UserStarted(Start(a))
      PROVE  FirstStart'
  BY <1>1 DEF UserStart, UserStarted, speechVars, taskVars
<1>2. ASSUME NEW b \in Stops, UserStop(Stop(b)) \/ UserStopped(Stop(b))
      PROVE  FirstStart'
  BY <1>2 DEF UserStop, UserStopped, Cancelled, speechVars, taskVars
<1>3. ASSUME NEW s \in Sessions, Detect(s)
      PROVE  FirstStart'
  BY <1>3 DEF Detect, speechVars, taskVars
<1>4. ASSUME NEW s \in Sessions, HandleWake(s) \/ StartRecognition(s)
      PROVE  FirstStart'
  BY <1>4 DEF HandleWake, StartRecognition, speechVars, taskVars
<1>5. ASSUME NEW s \in Sessions, RecognizeCalls(s)
      PROVE  FirstStart'
  BY <1>5 DEF RecognizeCalls, pipeVars, RecognizeStep, Recognize, MakeRequest,
              OpenSpeechTap, StartSpeech, Calls, taskVars
<1>6. ASSUME NEW s \in Sessions, Recognized(s)
      PROVE  FirstStart'
  BY <1>6 DEF Recognized, Complete, speechVars, taskVars
<1>7. ASSUME NEW s \in Sessions, GetPartial(s)
      PROVE  FirstStart'
  BY <1>7 DEF GetPartial, Partial, pipeVars
<1>8. ASSUME NEW s \in Sessions, Answer(s)
      PROVE  FirstStart'
  BY <1>8 DEF Answer, GetFinal, FinalResult, GetError, TaskError, CanAnswer,
              LastCallback, Complete
<1>9. ASSUME NEW s \in Sessions, TimerBegins(s) \/ TimerFires(s)
      PROVE  FirstStart'
  BY <1>9 DEF TimerBegins, TimerFires, speechVars, taskVars
<1>10. ASSUME NEW s \in Sessions, Finish(s) \/ Finished(s)
       PROVE  FirstStart'
  BY <1>10 DEF Finish, Finished, FinishEnter, FinishLeave
<1>11. CASE EndOfSilence
  BY <1>11 DEF EndOfSilence, SilenceFires, pipeVars
<1>12. ASSUME NEW t \in Threads, SpotterCalls(t)
       PROVE  FirstStart'
  BY <1>12 DEF SpotterCalls, pipeVars, speechVars, taskVars
<1>13. ASSUME NEW t \in Threads, Dispatch(t) \/ Send(t)
       PROVE  FirstStart'
  <2>1. PICK s \in Sessions : t \in Of(s)
    BY <1>13, HandlersOf DEF Dispatch, Send
  <2>2. Busy(s)
    BY <1>13, <2>1 DEF Dispatch, Send
  <2> QED
    BY <1>13, <2>1, <2>2 DEF Dispatch, Send
<1>14. ASSUME NEW t \in Threads, StartCooldown(t) \/ CooldownEnds(t)
       PROVE  FirstStart'
  <2>1. PICK s \in Sessions : t \in Of(s)
    BY <1>14, HandlersOf DEF StartCooldown, CooldownEnds
  <2>2. Busy(s)
    BY <1>14, <2>1 DEF StartCooldown, CooldownEnds
  <2> QED
    BY <1>14, <2>1, <2>2 DEF StartCooldown, CooldownEnds
<1>15. ASSUME NEW t \in Threads, Restart(t) \/ Restarted(t)
       PROVE  FirstStart'
  <2>1. PICK s \in Sessions : t \in Of(s)
    BY <1>15, HandlersOf DEF Restart, Restarted
  <2>2. Busy(s)
    BY <1>15, <2>1 DEF Restart, Restarted
  <2> QED
    BY <1>15, <2>1, <2>2 DEF Restart, Restarted
<1>16. CASE UNCHANGED vars
  BY <1>16 DEF vars, pipeVars, speechVars, taskVars
<1> QED
  BY <1>1, <1>2, <1>3, <1>4, <1>5, <1>6, <1>7, <1>8, <1>9, <1>10, <1>11,
     <1>12, <1>13, <1>14, <1>15, <1>16
     DEF Next, Session, WakeStep, TimerStep, Handle, Quiet

\* A pipeline that is started once has starts that come apart.
THEOREM SingleStartApart ==
  ASSUME Calm, SingleStart
  PROVE  Spec => []StartsApart
<1>1. Init => FirstStart
  BY ThreadFacts DEF Init, FirstStart, Busy, Of, Open, Handling
<1>2. FirstStart => StartsApart
  BY DEF FirstStart, StartsApart, SingleStart
<1>3. Known /\ FirstStart /\ [Next]_vars => Known' /\ FirstStart'
  <2>1. Known /\ FirstStart /\ [Next]_vars => FirstStart'
    BY FirstStartKept
  <2>2. FirstStart' => StartsApart'
    BY DEF FirstStart, StartsApart, SingleStart
  <2> QED
    BY <2>1, <2>2, KnownKept
<1> QED
  BY InitKnown, <1>1, <1>2, <1>3, PTL DEF Spec

-----------------------------------------------------------------------------
(* A pipeline that nobody stops.                                           *)

NoStops == Stops = {}

\* With no stop: the calls of the spotter come one after another, and its tap
\* is there as far as the one that is under way has got.
Calling(t) == pc[t] \in {"starting", "stopKws", "restarting"}

SpotterServes ==
  /\ ~crashed
  /\ \A t \in Threads : kwsCall[t] # "none" => Calling(t)
  /\ \A t \in Threads : pc[t] \in {"starting", "restarting"} =>
       \/ kwsCall[t] \in {"load", "thrown"} /\ kwsState = "idle" /\ ~kwsTap
       \/ kwsCall[t] = "tap" /\ kwsState = "idle" /\ ~kwsTap /\ kwsModels
       \/ kwsCall[t] = "engine" /\ kwsState = "idle" /\ kwsTap /\ kwsModels
       \/ kwsCall[t] = "abort" /\ kwsState = "idle" /\ kwsTap
       \/ kwsCall[t] = "aborting" /\ kwsState = "idle" /\ ~kwsTap
       \/ kwsCall[t] = "ok" /\ kwsState = "listening" /\ kwsTap /\ kwsModels
  /\ \A t \in Threads : pc[t] = "stopKws" =>
       \/ kwsCall[t] = "untap" /\ kwsState = "listening"
       \/ kwsCall[t] = "unload" /\ kwsState = "listening" /\ ~kwsTap
       \/ kwsCall[t] = "ok" /\ kwsState = "idle" /\ ~kwsTap
  /\ (\A t \in Threads : ~Calling(t)) /\ state # "kwsListening" =>
       kwsState = "idle" /\ ~kwsTap
  /\ state = "kwsListening" =>
       /\ kwsState = "listening" /\ kwsTap /\ kwsModels
       /\ \A t \in Threads : ~Calling(t)

\* With no stop: what the state says of the wakes.
StateIsTrue ==
  \A s \in Sessions :
    /\ pc[Wake(s)] = "queued" => state = "kwsListening"
    /\ Busy(s) /\ pc[Wake(s)] # "queued" => state \in Transit

Served == SpotterServes /\ StateIsTrue

\* Who calls the spotter is a start, or is handling a wake.
LEMMA CallersAre ==
  ASSUME NoStops, Known, NEW t \in Threads, Calling(t)
  PROVE  \/ \E a \in Starts : t = Start(a) /\ pc[t] = "starting"
         \/ \E s \in Sessions : t = Wake(s) /\ Busy(s) /\ pc[t] = "stopKws"
         \/ \E s \in Sessions : t \in Of(s) /\ Busy(s) /\ pc[t] = "restarting"
<1>1. ASSUME NEW a \in Starts, t = Start(a)
      PROVE  pc[t] = "starting"
  BY <1>1 DEF Known, Serial, Places, Calling
<1>2. ASSUME NEW s \in Sessions, t \in Of(s)
      PROVE  Busy(s) /\ (pc[t] = "restarting" \/ (t = Wake(s) /\ pc[t] = "stopKws"))
  BY <1>2, ThreadFacts
     DEF Known, Serial, Places, Sole, Calling, Busy, Of, Open, Handling
<1>3. \/ \E a \in Starts : t = Start(a)
      \/ \E s \in Sessions : t \in Of(s)
  BY DEF NoStops, Threads, Of, Wake, Timer, Callback, Start
<1> QED
  BY <1>1, <1>2, <1>3

\* One activity at a time calls the spotter.
LEMMA OneCaller ==
  ASSUME NoStops, Known, NEW t \in Threads, Calling(t),
         NEW u \in Threads, Calling(u)
  PROVE  t = u
<1>1. ASSUME NEW s \in Sessions, NEW v \in Of(s), NEW w \in Of(s),
             Calling(v), Calling(w)
      PROVE  v = w
  BY <1>1, ThreadFacts
     DEF Known, Serial, Places, Sole, Of, Handling, IInv, Strengthening, Calling
<1> QED
  BY <1>1, CallersAre, ThreadFacts
     DEF Known, Serial, OneAtATime, StartsApart, Of

\* While an outcome is handled its wake is the only one.
LEMMA HandlingIsBusy ==
  ASSUME Known, StateIsTrue, NEW s \in Sessions, NEW t \in Of(s), pc[t] \in Open
  PROVE  /\ Busy(s) /\ pc[Wake(s)] # "queued" /\ state \in Transit
         /\ \A q \in Sessions \ {s} : ~Busy(q)
<1>1. Busy(s) /\ pc[Wake(s)] # "queued"
  BY ThreadFacts
     DEF Known, Serial, Places, Sole, Busy, Of, Open, Handling, IInv,
         Strengthening
<1> QED
  BY <1>1, OthersRest DEF StateIsTrue

\* Every step keeps the state true.
LEMMA StateIsTrueKept ==
  ASSUME Calm, NoStops, Known, Served, [Next]_vars, Known'
  PROVE  StateIsTrue'
<1> USE ThreadFacts, CallerFacts
    DEF Calm, NoStops, Known, Served, StateIsTrue, Serial, IInv, TypeOK,
        PipelineTypeOK, To, Is, Places, OneAtATime, Sole, Busy, Of, Open,
        Handling, Transit
<1>1. ASSUME NEW a \in Starts, UserStart(Start(a)) \/ UserStarted(Start(a))
      PROVE  StateIsTrue'
  BY <1>1 DEF UserStart, UserStarted, speechVars, taskVars
<1>2. ASSUME NEW b \in Stops, UserStop(Stop(b)) \/ UserStopped(Stop(b))
      PROVE  StateIsTrue'
  BY <1>2 DEF UserStop, UserStopped, Cancelled, speechVars, taskVars
<1>3. ASSUME NEW s \in Sessions, Detect(s)
      PROVE  StateIsTrue'
  BY <1>3 DEF Detect, speechVars, taskVars
<1>4. ASSUME NEW s \in Sessions, HandleWake(s) \/ StartRecognition(s)
      PROVE  StateIsTrue'
  BY <1>4 DEF HandleWake, StartRecognition, speechVars, taskVars
<1>5. ASSUME NEW s \in Sessions, RecognizeCalls(s)
      PROVE  StateIsTrue'
  BY <1>5 DEF RecognizeCalls, pipeVars, RecognizeStep, Recognize, MakeRequest,
              OpenSpeechTap, StartSpeech, Calls, taskVars
<1>6. ASSUME NEW s \in Sessions, Recognized(s)
      PROVE  StateIsTrue'
  BY <1>6 DEF Recognized, Complete, speechVars, taskVars
<1>7. ASSUME NEW s \in Sessions, GetPartial(s)
      PROVE  StateIsTrue'
  BY <1>7 DEF GetPartial, Partial, pipeVars
<1>8. ASSUME NEW s \in Sessions, Answer(s)
      PROVE  StateIsTrue'
  BY <1>8 DEF Answer, GetFinal, FinalResult, GetError, TaskError, CanAnswer,
              LastCallback, Complete
<1>9. ASSUME NEW s \in Sessions, TimerBegins(s) \/ TimerFires(s)
      PROVE  StateIsTrue'
  <2>1. /\ pc[Timer(s)] = "armed" /\ pc[Wake(s)] = "left"
        /\ To(Timer(s), "finish") /\ UNCHANGED state
    BY <1>9 DEF TimerBegins, TimerFires
  <2>2. \A q \in Sessions : Busy(q)' <=> Busy(q)
    BY <2>1
  <2> QED
    BY <2>1, <2>2
<1>10. ASSUME NEW s \in Sessions, Finish(s) \/ Finished(s)
       PROVE  StateIsTrue'
  BY <1>10 DEF Finish, Finished, FinishEnter, FinishLeave
<1>11. CASE EndOfSilence
  BY <1>11 DEF EndOfSilence, SilenceFires, pipeVars
<1>12. ASSUME NEW t \in Threads, SpotterCalls(t)
       PROVE  StateIsTrue'
  BY <1>12 DEF SpotterCalls, pipeVars, speechVars, taskVars
<1>13. ASSUME NEW t \in Threads, Dispatch(t) \/ Send(t)
       PROVE  StateIsTrue'
  <2>1. PICK s \in Sessions : t \in Of(s)
    BY <1>13, HandlersOf DEF Dispatch, Send
  <2>2. /\ pc[t] \in {"result", "sending"}
        /\ \E place \in {"sending", "spoken"} : To(t, place)
        /\ state' \in Transit
    BY <1>13 DEF Dispatch, Send
  <2>3. /\ Busy(s) /\ pc[Wake(s)] # "queued" /\ state \in Transit
        /\ \A q \in Sessions \ {s} : ~Busy(q)
    BY <2>1, <2>2, HandlingIsBusy
  <2>4. \A q \in Sessions \ {s} : ~Busy(q)' /\ pc'[Wake(q)] = pc[Wake(q)]
    BY <2>1, <2>2, <2>3
  <2>5. pc'[Wake(s)] # "queued"
    BY <2>2, <2>3
  <2> QED
    BY <2>2, <2>3, <2>4, <2>5
<1>14. ASSUME NEW t \in Threads, StartCooldown(t) \/ CooldownEnds(t)
       PROVE  StateIsTrue'
  <2>1. PICK s \in Sessions : t \in Of(s)
    BY <1>14, HandlersOf DEF StartCooldown, CooldownEnds
  <2>2. /\ pc[t] \in {"spoken", "failed", "result", "cooling"}
        /\ \E place \in {"cooling", "restart", "done"} : To(t, place)
        /\ state' \in Transit \cup {state}
    BY <1>14 DEF StartCooldown, CooldownEnds
  <2>3. /\ Busy(s) /\ pc[Wake(s)] # "queued" /\ state \in Transit
        /\ \A q \in Sessions \ {s} : ~Busy(q)
    BY <2>1, <2>2, HandlingIsBusy
  <2>4. \A q \in Sessions \ {s} : ~Busy(q)' /\ pc'[Wake(q)] = pc[Wake(q)]
    BY <2>1, <2>2, <2>3
  <2>5. pc'[Wake(s)] # "queued"
    BY <2>2, <2>3
  <2> QED
    BY <2>2, <2>3, <2>4, <2>5
<1>15. ASSUME NEW t \in Threads, Restart(t) \/ Restarted(t)
       PROVE  StateIsTrue'
  <2>1. PICK s \in Sessions : t \in Of(s)
    BY <1>15, HandlersOf DEF Restart, Restarted
  <2>2. /\ pc[t] \in {"restart", "restarting"}
        /\ \/ To(t, "done")
           \/ To(t, "restarting") /\ UNCHANGED state
    BY <1>15 DEF Restart, Restarted
  <2>3. /\ Busy(s) /\ pc[Wake(s)] # "queued" /\ state \in Transit
        /\ \A q \in Sessions \ {s} : ~Busy(q)
    BY <2>1, <2>2, HandlingIsBusy
  <2>4. \A q \in Sessions \ {s} : ~Busy(q)' /\ pc'[Wake(q)] = pc[Wake(q)]
    BY <2>1, <2>2, <2>3
  <2>5. pc'[Wake(s)] # "queued"
    BY <2>2, <2>3
  <2>6. pc'[t] = "done" => ~Busy(s)'
    BY <2>1, <2>2 DEF Strengthening
  <2>7. ~Busy(s)' \/ state' \in Transit
    BY <2>2, <2>3, <2>6
  <2> QED
    BY <2>3, <2>4, <2>5, <2>7
<1>16. CASE UNCHANGED vars
  BY <1>16 DEF vars, pipeVars, speechVars, taskVars
<1> QED
  BY <1>1, <1>2, <1>3, <1>4, <1>5, <1>6, <1>7, <1>8, <1>9, <1>10, <1>11,
     <1>12, <1>13, <1>14, <1>15, <1>16
     DEF Next, Session, WakeStep, TimerStep, Handle, Quiet

\* While an outcome is handled, and until the restart, nobody calls the spotter.
LEMMA NoCaller ==
  ASSUME NoStops, Known, NEW s \in Sessions, NEW t \in Of(s), pc[t] \in Open,
         pc[t] # "restarting", NEW u \in Threads
  PROVE  ~Calling(u)
<1> SUFFICES ASSUME Calling(u) PROVE FALSE
  OBVIOUS
<1>1. Busy(s)
  BY DEF Busy
<1>2. CASE \E a \in Starts : u = Start(a) /\ pc[u] = "starting"
  BY <1>1, <1>2 DEF Known, Serial, OneAtATime, StartsApart
<1>3. ASSUME NEW r \in Sessions, u \in Of(r), Busy(r)
      PROVE  FALSE
  <2>1. r = s
    BY <1>1, <1>3 DEF Known, Serial, OneAtATime
  <2> QED
    BY <1>3, <2>1, ThreadFacts
       DEF Known, Serial, Places, Sole, Of, Open, Handling, IInv, Strengthening,
           Calling
<1> QED
  BY <1>2, <1>3, CallersAre DEF Of

\* A step that neither calls the spotter nor changes whether the pipeline says
\* that it listens.
LEMMA SpotterFramed ==
  ASSUME SpotterServes, UNCHANGED <<crashed, kwsVars>>,
         \A t \in Threads : \/ pc'[t] = pc[t]
                            \/ ~Calling(t) /\ ~Calling(t)',
         state' = "kwsListening" <=> state = "kwsListening"
  PROVE  SpotterServes'
BY DEF SpotterServes, Calling, kwsVars

\* Every step keeps the spotter in step with the pipeline.
LEMMA SpotterServesKept ==
  ASSUME Calm, NoStops, Known, Served, [Next]_vars, Known'
  PROVE  SpotterServes'
<1> USE ThreadFacts, CallerFacts DEF Served, To, Is
<1>0. /\ SpotterServes /\ StateIsTrue /\ TypeOK
      /\ pc \in [Threads -> PCs] /\ kwsCall \in [Threads -> Idle \cup Returned \cup Under]
  BY DEF Known, IInv, TypeOK, PipelineTypeOK, SpotterTypeOK
<1>1. ASSUME NEW a \in Starts, UserStart(Start(a))
      PROVE  SpotterServes'
  <2>1. CASE state = "idle" /\ CallStart(Start(a)) /\ To(Start(a), "starting")
    <3>1. \A u \in Threads : ~Calling(u)
      <4> SUFFICES ASSUME NEW u \in Threads, Calling(u) PROVE FALSE
        OBVIOUS
      <4>1. pc'[Start(a)] = "starting" /\ pc[Start(a)] = "none"
        BY <1>0, <1>1, <2>1 DEF UserStart
      <4>2. \A s \in Sessions : ~Busy(s)
        <5>1. \A s \in Sessions : ~Busy(s)'
          BY <4>1 DEF Known, Serial, OneAtATime, StartsApart
        <5> QED
          BY <5>1, <2>1, <1>0 DEF Busy, Of
      <4>3. PICK c \in Starts : u = Start(c) /\ pc[u] = "starting"
        BY <4>2, CallersAre
      <4>4. pc'[Start(c)] = "starting" /\ c # a
        BY <4>1, <4>3, <2>1, <1>0
      <4> QED
        BY <4>1, <4>4 DEF Known, Serial, OneAtATime, StartsApart
    <3>2. \A u \in Threads : Calling(u)' => u = Start(a)
      BY <3>1, <2>1, <1>0 DEF Calling
    <3>3. kwsState = "idle" /\ ~kwsTap /\ ~crashed /\ state' = "idle"
      BY <3>1, <2>1, <1>0, <1>1 DEF SpotterServes, UserStart
    <3>4. /\ kwsCall'[Start(a)] \in {"load", "thrown"}
          /\ \A u \in Threads \ {Start(a)} : kwsCall'[u] = "none"
          /\ UNCHANGED <<kwsState, kwsTap, crashed>>
      BY <3>1, <2>1, <1>0 DEF CallStart, Go, SpotterServes
    <3>5. pc'[Start(a)] = "starting"
      BY <2>1, <1>0
    <3> QED
      BY <3>2, <3>3, <3>4, <3>5 DEF SpotterServes, Calling
  <2>2. CASE To(Start(a), "left") /\ UNCHANGED <<kwsVars, crashed, state>>
    BY <1>0, <1>1, <2>2, SpotterFramed DEF UserStart, Calling
  <2> QED
    BY <1>1, <2>1, <2>2 DEF UserStart
<1>2. ASSUME NEW a \in Starts, UserStarted(Start(a))
      PROVE  SpotterServes'
  <2>1. /\ pc[Start(a)] = "starting" /\ pc' = [pc EXCEPT ![Start(a)] = "left"]
        /\ kwsCall[Start(a)] \in Returned
        /\ kwsCall' = [kwsCall EXCEPT ![Start(a)] = "none"]
        /\ UNCHANGED <<kwsState, kwsModels, kwsTap, crashed>>
        /\ state' = IF kwsCall[Start(a)] = "ok" THEN "kwsListening" ELSE state
    BY <1>2 DEF UserStarted, Return, At, Go
  <2>2. state = "idle"
    BY <2>1 DEF Known, Serial, OneAtATime
  <2>3. \A u \in Threads : Calling(u) => u = Start(a)
    BY <2>1, OneCaller DEF Calling
  <2>4. \A u \in Threads : ~Calling(u)'
    BY <2>1, <2>3, <1>0 DEF Calling
  <2>5. \A u \in Threads : kwsCall'[u] = "none"
    BY <2>1, <2>3, <1>0 DEF SpotterServes
  <2> QED
    BY <1>0, <2>1, <2>2, <2>4, <2>5 DEF SpotterServes, Returned, Calling
<1>3. ASSUME NEW b \in Stops, UserStop(Stop(b)) \/ UserStopped(Stop(b))
      PROVE  SpotterServes'
  BY <1>3 DEF NoStops
<1>4. ASSUME NEW s \in Sessions, Detect(s)
      PROVE  SpotterServes'
  BY <1>0, <1>4, SpotterFramed DEF Detect, Calling
<1>5. ASSUME NEW s \in Sessions, HandleWake(s)
      PROVE  SpotterServes'
  <2>1. /\ pc[Wake(s)] = "queued" /\ pc' = [pc EXCEPT ![Wake(s)] = "stopKws"]
        /\ state' = "cooldown"
        /\ CallStop(Wake(s))
    BY <1>5 DEF HandleWake
  <2>2. state = "kwsListening"
    BY <2>1, <1>0 DEF StateIsTrue
  <2>3. /\ kwsState = "listening" /\ kwsTap /\ kwsModels /\ ~crashed
        /\ \A u \in Threads : ~Calling(u) /\ kwsCall[u] = "none"
    BY <2>2, <1>0 DEF SpotterServes
  <2>4. /\ kwsCall' = [kwsCall EXCEPT ![Wake(s)] = "untap"]
        /\ UNCHANGED <<kwsState, kwsModels, kwsTap, crashed>>
    BY <2>1, <2>3 DEF CallStop, Go
  <2>5. \A u \in Threads : Calling(u)' => u = Wake(s)
    BY <2>1, <2>3, <1>0 DEF Calling
  <2> QED
    BY <1>0, <2>1, <2>3, <2>4, <2>5 DEF SpotterServes, Calling
<1>6. ASSUME NEW s \in Sessions, StartRecognition(s)
      PROVE  SpotterServes'
  <2>1. /\ pc[Wake(s)] = "stopKws"
        /\ pc' = [pc EXCEPT ![Wake(s)] = "recognize", ![Timer(s)] = "armed"]
        /\ kwsCall[Wake(s)] \in Returned
        /\ kwsCall' = [kwsCall EXCEPT ![Wake(s)] = "none"]
        /\ UNCHANGED <<kwsState, kwsModels, kwsTap, crashed>>
        /\ state' = "recognizing"
    BY <1>6 DEF StartRecognition, Return, At, Go
  <2>2. \A u \in Threads : Calling(u) => u = Wake(s)
    BY <2>1, OneCaller DEF Calling
  <2>3. \A u \in Threads : ~Calling(u)'
    BY <2>1, <2>2, <1>0 DEF Calling
  <2>4. \A u \in Threads : kwsCall'[u] = "none"
    BY <2>1, <2>2, <1>0 DEF SpotterServes
  <2> QED
    BY <1>0, <2>1, <2>3, <2>4 DEF SpotterServes, Returned, Calling
<1>7. ASSUME NEW s \in Sessions, RecognizeCalls(s)
      PROVE  SpotterServes'
  <2>1. CASE OpenSpeechTap(s)
    <3>1. speechCall[s] = "tap" /\ pc[Wake(s)] = "recognize"
      BY <1>7, <2>1 DEF RecognizeCalls, OpenSpeechTap
    <3>2. Busy(s) /\ ~Using(s)
      BY <3>1 DEF Known, Serial, Places, Busy, Using
    <3>3. speechTap = Nil
      BY <3>2, OthersRest DEF Known, Serial, EngineOwned
    <3>4. crashed = FALSE /\ crashed' = FALSE
      BY <1>0, <1>7, <2>1, <3>3 DEF OpenSpeechTap, RecognizeCalls, TypeOK
    <3> QED
      BY <1>0, <1>7, <3>4, SpotterFramed DEF RecognizeCalls, pipeVars
  <2>2. CASE UNCHANGED crashed
    BY <1>0, <1>7, <2>2, SpotterFramed DEF RecognizeCalls, pipeVars
  <2> QED
    BY <1>7, <2>1, <2>2
       DEF RecognizeCalls, RecognizeStep, Recognize, MakeRequest, StartSpeech
<1>8. ASSUME NEW s \in Sessions,
             \/ Recognized(s) \/ GetPartial(s) \/ Answer(s)
             \/ TimerBegins(s) \/ TimerFires(s) \/ Finish(s) \/ Finished(s)
      PROVE  SpotterServes'
  <2>1. UNCHANGED <<kwsVars, state>>
    BY <1>8 DEF Recognized, GetPartial, pipeVars, Answer, GetFinal, GetError,
                LastCallback, TimerBegins, TimerFires, Finish, Finished
  <2>2. UNCHANGED crashed
    BY <1>8 DEF Recognized, GetPartial, Partial, Answer, GetFinal, FinalResult,
                GetError, TaskError, TimerBegins, TimerFires, Finish, FinishEnter,
                Finished, FinishLeave
  <2>3. \A t \in Threads : pc'[t] = pc[t] \/ (~Calling(t) /\ ~Calling(t)')
    <3>1. CASE Recognized(s)
      BY <1>0, <3>1 DEF Recognized, Complete, Calling
    <3>2. CASE GetPartial(s)
      BY <3>2 DEF GetPartial, pipeVars
    <3>3. CASE Answer(s)
      <4>1. task[s] = "live" /\ pc[Callback(s)] = "none"
        BY <3>3 DEF Answer, GetFinal, FinalResult, GetError, TaskError, CanAnswer,
                    Known, IInv, Strengthening
      <4> QED
        BY <1>0, <3>3, <4>1
           DEF Answer, GetFinal, GetError, LastCallback, Complete, Calling
    <3>4. CASE TimerBegins(s) \/ TimerFires(s)
      BY <1>0, <3>4 DEF TimerBegins, TimerFires, Calling
    <3>5. CASE Finish(s) \/ Finished(s)
      BY <1>0, <3>5 DEF Finish, Finished, Calling
    <3> QED
      BY <1>8, <3>1, <3>2, <3>3, <3>4, <3>5
  <2> QED
    BY <1>0, <2>1, <2>2, <2>3, SpotterFramed
<1>9. CASE EndOfSilence
  BY <1>0, <1>9, SpotterFramed DEF EndOfSilence, SilenceFires, pipeVars
<1>10. ASSUME NEW t \in Threads, SpotterCalls(t)
       PROVE  SpotterServes'
  <2>1. kwsCall[t] \in Under /\ UNCHANGED <<pc, state>> /\ SpotterStep(t)
    BY <1>10 DEF SpotterCalls, pipeVars, SpotterStep, LoadModels, OpenSpotterTap,
                 StartSpotter, TearDownAudio, TearDownModels, At, Under
  <2>2. Calling(t)
    BY <1>0, <2>1 DEF SpotterServes, Under
  <2>3. \A u \in Threads \ {t} : ~Calling(u) /\ kwsCall[u] = "none"
    BY <1>0, <2>2, OneCaller DEF SpotterServes
  <2>4. \A u \in Threads \ {t} : ~Calling(u)' /\ kwsCall'[u] = "none"
    BY <1>0, <2>1, <2>3
       DEF Calling, SpotterStep, LoadModels, OpenSpotterTap, StartSpotter,
           TearDownAudio, TearDownModels, Go
  <2>5. Calling(t)' /\ state # "kwsListening"
    BY <1>0, <2>1, <2>2 DEF Calling, SpotterServes
  <2>6. CASE pc[t] \in {"starting", "restarting"}
    BY <1>0, <2>1, <2>4, <2>5, <2>6
       DEF Calling, SpotterStep, LoadModels, OpenSpotterTap, StartSpotter,
           TearDownAudio, TearDownModels, At, Go, SpotterServes
  <2>7. CASE pc[t] = "stopKws"
    BY <1>0, <2>1, <2>4, <2>5, <2>7
       DEF Calling, SpotterStep, LoadModels, OpenSpotterTap, StartSpotter,
           TearDownAudio, TearDownModels, At, Go, SpotterServes
  <2> QED
    BY <2>2, <2>6, <2>7 DEF Calling
<1>11. ASSUME NEW t \in Threads,
              Dispatch(t) \/ Send(t) \/ StartCooldown(t) \/ CooldownEnds(t)
       PROVE  SpotterServes'
  <2>1. pc[t] \in {"result", "sending", "spoken", "failed", "cooling"}
    BY <1>11 DEF Dispatch, Send, StartCooldown, CooldownEnds
  <2>2. PICK s \in Sessions : t \in Of(s)
    BY <2>1, HandlersOf DEF Known, Serial, Handling
  <2>3. state \in Transit
    BY <1>0, <2>1, <2>2, HandlingIsBusy DEF Open, Handling
  <2>4. \E place \in {"sending", "spoken", "cooling", "restart", "done"} :
          To(t, place)
    BY <1>11 DEF Dispatch, Send, StartCooldown, CooldownEnds
  <2>5. state' \in Transit /\ UNCHANGED <<crashed, kwsVars>>
    BY <1>11, <2>3 DEF Dispatch, Send, StartCooldown, CooldownEnds, Transit
  <2> QED
    BY <1>0, <2>1, <2>3, <2>4, <2>5, SpotterFramed DEF Transit, Calling
<1>12. ASSUME NEW t \in Threads, Restart(t)
       PROVE  SpotterServes'
  <2>1. PICK s \in Sessions : t \in Of(s) /\ pc[t] = "restart"
    BY <1>12, HandlersOf DEF Restart, Known, Serial, Handling
  <2>2. \A u \in Threads : ~Calling(u)
    BY <2>1, NoCaller DEF Open, Handling
  <2>3. state \in Transit
    BY <1>0, <2>1, HandlingIsBusy DEF Open, Handling
  <2>4. /\ pc' = [pc EXCEPT ![t] = "restarting"]
        /\ CallStart(t) /\ UNCHANGED state
    BY <1>12, <2>3 DEF Restart, Transit
  <2>5. kwsState = "idle" /\ ~kwsTap /\ ~crashed
    BY <1>0, <2>2, <2>3 DEF SpotterServes, Transit
  <2>6. /\ kwsCall'[t] \in {"load", "thrown"}
        /\ \A u \in Threads \ {t} : kwsCall'[u] = "none"
        /\ UNCHANGED <<kwsState, kwsTap, crashed>>
    BY <1>0, <2>2, <2>4, <2>5 DEF CallStart, Go, SpotterServes
  <2>7. \A u \in Threads : Calling(u)' => u = t
    BY <1>0, <2>2, <2>4 DEF Calling
  <2>8. pc'[t] = "restarting"
    BY <1>0, <2>4
  <2> QED
    BY <2>3, <2>4, <2>5, <2>6, <2>7, <2>8 DEF SpotterServes, Calling, Transit
<1>13. ASSUME NEW t \in Threads, Restarted(t)
       PROVE  SpotterServes'
  <2>1. /\ pc[t] = "restarting" /\ pc' = [pc EXCEPT ![t] = "done"]
        /\ kwsCall[t] \in Returned
        /\ kwsCall' = [kwsCall EXCEPT ![t] = "none"]
        /\ UNCHANGED <<kwsState, kwsModels, kwsTap, crashed>>
        /\ state' = IF kwsCall[t] = "ok" THEN "kwsListening" ELSE "error"
    BY <1>13 DEF Restarted, Return, At, Go
  <2>2. \A u \in Threads : Calling(u) => u = t
    BY <2>1, OneCaller DEF Calling
  <2>3. \A u \in Threads : ~Calling(u)'
    BY <2>1, <2>2, <1>0 DEF Calling
  <2>4. \A u \in Threads : kwsCall'[u] = "none"
    BY <2>1, <2>2, <1>0 DEF SpotterServes
  <2> QED
    BY <1>0, <2>1, <2>3, <2>4 DEF SpotterServes, Returned, Calling
<1>14. CASE UNCHANGED vars
  BY <1>0, <1>14, SpotterFramed DEF vars, pipeVars
<1> QED
  BY <1>1, <1>2, <1>3, <1>4, <1>5, <1>6, <1>7, <1>8, <1>9, <1>10, <1>11,
     <1>12, <1>13, <1>14
     DEF Next, Session, WakeStep, TimerStep, Handle, Quiet

\* With starts that come apart and no stop the spotter serves in every state.
LEMMA SpecServed ==
  ASSUME Calm, NoStops
  PROVE  Spec /\ []StartsApart => [](Known /\ Served)
<1>1. Init => Served
  <2>1. Init => SpotterServes
    BY DEF Init, SpotterInit, SpotterServes, Calling
  <2>2. Init => StateIsTrue
    BY ThreadFacts DEF Init, StateIsTrue, Busy, Of, Open, Handling
  <2> QED
    BY <2>1, <2>2 DEF Served
<1>2. Known /\ Served /\ [Next]_vars /\ StartsApart' => Known' /\ Served'
  <2> SUFFICES ASSUME Known, Served, [Next]_vars, StartsApart'
               PROVE  Known' /\ Served'
    OBVIOUS
  <2>1. Known'
    BY KnownKept
  <2> QED
    BY <2>1, SpotterServesKept, StateIsTrueKept DEF Served
<1> QED
  BY InitKnown, <1>1, <1>2, PTL DEF Spec

\* KeywordSpotterService and SpeechService: over any number of wakes, failed
\* starts of the spotter and restarts, the two never record at the same time.
THEOREM MicIsHandedOver ==
  ASSUME Calm, NoStops
  PROVE  Spec /\ []StartsApart => []MicHandoff
<1>1. Known /\ Served => MicHandoff
  <2> SUFFICES ASSUME Known, Served, kwsTap, micOpen
               PROVE  FALSE
    BY DEF MicHandoff
  <2> USE ThreadFacts DEF Known, Serial, Served
  <2>1. PICK s \in Sessions : Using(s)
    BY DEF EngineOwned
  <2>2. /\ Busy(s) /\ pc[Wake(s)] \notin {"queued", "stopKws"}
        /\ \A t \in Of(s) : pc[t] # "restarting"
    BY <2>1 DEF Using, Busy, Of, Open, Handling, Places, Sole, IInv, Strengthening
  <2>3. state \in Transit
    BY <2>2 DEF StateIsTrue
  <2>4. PICK t \in Threads : Calling(t)
    BY <2>3 DEF SpotterServes, Transit
  <2>5. CASE \E a \in Starts : t = Start(a) /\ pc[t] = "starting"
    BY <2>2, <2>5 DEF OneAtATime, StartsApart
  <2>6. ASSUME NEW r \in Sessions, Busy(r),
               \/ t = Wake(r) /\ pc[t] = "stopKws"
               \/ t \in Of(r) /\ pc[t] = "restarting"
        PROVE  FALSE
    BY <2>2, <2>6 DEF OneAtATime
  <2>7. \/ \E a \in Starts : t = Start(a) /\ pc[t] = "starting"
        \/ \E r \in Sessions : t = Wake(r) /\ Busy(r) /\ pc[t] = "stopKws"
        \/ \E r \in Sessions : t \in Of(r) /\ Busy(r) /\ pc[t] = "restarting"
    BY <2>4, CallersAre
  <2> QED
    BY <2>5, <2>6, <2>7
<1> QED
  BY <1>1, SpecServed, PTL

\* WakePipeline.state: a pipeline that says it listens has a spotter that does.
THEOREM ListeningIsKept ==
  ASSUME Calm, NoStops
  PROVE  Spec /\ []StartsApart => []ListeningIsTrue
<1>1. Served => ListeningIsTrue
  BY DEF Served, SpotterServes, ListeningIsTrue, CanDetect
<1> QED
  BY <1>1, SpecServed, PTL

\* installTap of both services: no input node ever gets a second tap.
THEOREM TapsAreSingle ==
  ASSUME Calm, NoStops
  PROVE  Spec /\ []StartsApart => []NoDoubleTap
<1>1. Served => NoDoubleTap
  BY DEF Served, SpotterServes, NoDoubleTap
<1> QED
  BY <1>1, SpecServed, PTL

\* KeywordSpotterService.start and stop, as the pipeline calls them: between
\* two calls the spotter is whole, after a start that failed as well.
THEOREM SpotterIsWhole ==
  ASSUME Calm, NoStops
  PROVE  Spec /\ []StartsApart => []SpotterWhole
<1>1. Known /\ Served => SpotterWhole
  <2> SUFFICES ASSUME Known, Served, \A t \in Threads : kwsCall[t] \notin Under
               PROVE  /\ kwsTap <=> kwsState = "listening"
                      /\ kwsState = "listening" => kwsModels
    BY DEF SpotterWhole, Known, IInv, TypeOK, SpotterTypeOK
  <2> USE DEF Served, SpotterServes
  <2>1. CASE state = "kwsListening"
    BY <2>1
  <2>2. CASE state # "kwsListening" /\ \A t \in Threads : ~Calling(t)
    BY <2>2
  <2>3. ASSUME NEW t \in Threads, Calling(t)
        PROVE  /\ kwsTap <=> kwsState = "listening"
               /\ kwsState = "listening" => kwsModels
    BY <2>3 DEF Calling, Under
  <2> QED
    BY <2>1, <2>2, <2>3
<1> QED
  BY <1>1, SpecServed, PTL

-----------------------------------------------------------------------------
(* The pipeline implements WakeCycle, as long as nobody stops it.          *)

\* What the abstract pipeline sees: its phase and the wake without outcome.
Phase ==
  CASE state = "idle" -> "off"
    [] state = "kwsListening" -> "listening"
    [] state = "error" -> "error"
    [] OTHER -> "busy"

Current ==
  IF \E s \in Sessions : Undecided(s)
  THEN CHOOSE s \in Sessions : Undecided(s)
  ELSE Nil

\* There is one such wake at most, and the pipeline is busy with it.
Mapped ==
  /\ \A s \in Sessions : Undecided(s) =>
       /\ Current = s /\ Busy(s) /\ pc[Wake(s)] # "queued" /\ state \in Transit
       /\ \A r \in Sessions \ {s} : ~Busy(r) /\ ~Undecided(r)
  /\ (\A s \in Sessions : ~Undecided(s)) => Current = Nil

LEMMA KnownMapped == Known /\ Served => Mapped
<1> SUFFICES ASSUME Known, Served PROVE Mapped
  OBVIOUS
<1>1. ASSUME NEW s \in Sessions, Undecided(s)
      PROVE  Busy(s) /\ pc[Wake(s)] # "queued"
  BY <1>1, ThreadFacts
     DEF Undecided, Busy, Open, Handling, Of, Known, Sole, IInv, Strengthening,
         Serial, Places
<1>2. ASSUME NEW s \in Sessions, Undecided(s)
      PROVE  \A r \in Sessions \ {s} : ~Busy(r) /\ ~Undecided(r)
  BY <1>1, <1>2 DEF Known, Serial, OneAtATime
<1>3. ASSUME NEW s \in Sessions, Undecided(s)
      PROVE  Current = s
  <2>1. Current = CHOOSE r \in Sessions : Undecided(r)
    BY <1>3 DEF Current
  <2>2. Current \in Sessions /\ Undecided(Current)
    BY <2>1, <1>3, Zenon
  <2> QED
    BY <2>2, <1>2, <1>3
<1> QED
  BY <1>1, <1>2, <1>3 DEF Mapped, Served, StateIsTrue, Current

\* Who handles an outcome decides it: the wake has no other activity left.
LEMMA Decides ==
  ASSUME Known, NEW s \in Sessions, NEW t \in Of(s), pc[t] \in Handling,
         NEW place \in Handling, To(t, place)
  PROVE  /\ Undecided(s) <=> pc[t] \in {"result", "failed", "sending"}
         /\ Undecided(s)' <=> place \in {"result", "failed", "sending"}
         /\ \A r \in Sessions \ {s} : Undecided(r)' <=> Undecided(r)
<1>1. /\ t \in Threads /\ pc \in [Threads -> PCs]
      /\ pc[Wake(s)] # "stopKws"
      /\ pc[Timer(s)] \notin {"armed", "due", "finish", "finishing"}
      /\ \A u \in Of(s) \ {t} : pc[u] \notin Handling
  BY ThreadFacts
     DEF Known, Sole, IInv, TypeOK, PipelineTypeOK, Strengthening, Serial, Places,
         Of, Handling
<1> QED
  BY <1>1, ThreadFacts DEF Undecided, Of, Handling, To

\* A step that decides nothing and stays in its phase is no step of WakeCycle.
LEMMA Stutters ==
  ASSUME Mapped, Mapped', \A s \in Sessions : Undecided(s)' <=> Undecided(s),
         Phase' = Phase, UNCHANGED commands
  PROVE  UNCHANGED <<Phase, Current, commands>>
BY DEF Mapped

\* The steps of WakeCycle in terms of the pipeline.
LEMMA CycleStep ==
  ASSUME \/ UNCHANGED <<Phase, Current, commands>>
         \/ /\ Phase = "off" /\ Phase' = "listening"
            /\ UNCHANGED <<Current, commands>>
         \/ /\ Phase = "listening" /\ Phase' = "busy"
            /\ Current' \in Sessions /\ UNCHANGED commands
         \/ /\ Phase = "busy" /\ Phase' = "busy"
            /\ Current # Nil /\ Current' = Nil
            /\ commands' \in {Append(commands, Current), commands}
         \/ /\ Phase = "busy" /\ Phase' \in {"listening", "error"}
            /\ Current = Nil /\ Current' = Nil /\ UNCHANGED commands
  PROVE  [Cycle!CycleNext]_(Cycle!cycleVars)
BY DEF Phase, Current, Cycle!CycleNext, Cycle!cycleVars, Cycle!TurnOn,
       Cycle!Hear, Cycle!Tell, Cycle!GiveUp, Cycle!Resume

\* Every step of the pipeline is one of WakeCycle, or none.
LEMMA StepMapped ==
  ASSUME Calm, NoStops, Known, Served, Mapped, Mapped', [Next]_vars
  PROVE  [Cycle!CycleNext]_(Cycle!cycleVars)
<1> USE ThreadFacts, CallerFacts DEF To, Is
<1>0. /\ pc \in [Threads -> PCs] /\ SpotterServes /\ StateIsTrue /\ Places /\ Sole
      /\ \A s \in Sessions : Nil # s
  BY SentinelsAssumption DEF Known, Served, Serial, IInv, TypeOK, PipelineTypeOK
<1> DEFINE Abstract == [Cycle!CycleNext]_(Cycle!cycleVars)
           Same == \A s \in Sessions : Undecided(s)' <=> Undecided(s)
<1>a. ASSUME Same, Phase' = Phase, UNCHANGED commands
      PROVE  Abstract
  BY <1>a, Stutters, CycleStep
<1> HIDE DEF Abstract
<1>1. ASSUME NEW a \in Starts, UserStart(Start(a)) \/ UserStarted(Start(a))
      PROVE  Abstract
  <2>1. pc[Start(a)] \in {"none", "starting"}
        /\ \E place \in {"starting", "left"} : To(Start(a), place)
        /\ UNCHANGED commands
    BY <1>1 DEF UserStart, UserStarted
  <2>2. Same
    BY <1>0, <2>1 DEF Undecided, Of
  <2>3. CASE UNCHANGED state
    BY <1>a, <2>1, <2>2, <2>3 DEF Phase
  <2>4. CASE state' # state
    <3>1. state = "idle" /\ state' = "kwsListening"
      BY <1>1, <2>4 DEF UserStart, UserStarted, Known, Serial, OneAtATime
    <3>2. \A s \in Sessions : ~Undecided(s)
      BY <3>1 DEF Mapped, Transit
    <3>3. Current' = Current
      BY <2>2, <3>2 DEF Mapped
    <3> QED
      BY <2>1, <3>1, <3>3, CycleStep DEF Phase, Abstract
  <2> QED
    BY <2>3, <2>4
<1>2. ASSUME NEW b \in Stops, UserStop(Stop(b)) \/ UserStopped(Stop(b))
      PROVE  Abstract
  BY <1>2 DEF NoStops
<1>3. ASSUME NEW s \in Sessions, Detect(s)
      PROVE  Abstract
  <2>1. Same
    BY <1>0, <1>3 DEF Detect, Undecided, Of
  <2> QED
    BY <1>3, <1>a, <2>1 DEF Detect, Phase
<1>4. ASSUME NEW s \in Sessions, HandleWake(s)
      PROVE  Abstract
  <2>1. state = "kwsListening" /\ state' = "cooldown" /\ UNCHANGED commands
    BY <1>0, <1>4 DEF HandleWake, StateIsTrue
  <2>2. Undecided(s)'
    BY <1>0, <1>4 DEF HandleWake, Undecided
  <2>3. Current' = s
    BY <2>2 DEF Mapped
  <2> QED
    BY <2>1, <2>3, CycleStep DEF Phase, Abstract
<1>5. ASSUME NEW s \in Sessions, StartRecognition(s)
      PROVE  Abstract
  <2>1. Undecided(s) /\ state' = "recognizing" /\ UNCHANGED commands
    BY <1>5 DEF StartRecognition, Undecided
  <2>2. Same
    BY <1>0, <1>5, <2>1 DEF StartRecognition, Undecided, Of
  <2>3. state \in Transit
    BY <2>1 DEF Mapped
  <2> QED
    BY <1>a, <2>1, <2>2, <2>3 DEF Phase, Transit
<1>6. ASSUME NEW s \in Sessions, RecognizeCalls(s) \/ GetPartial(s)
      PROVE  Abstract
  BY <1>6, <1>a DEF RecognizeCalls, GetPartial, pipeVars, Undecided, Phase
<1>7. ASSUME NEW s \in Sessions, Recognized(s)
      PROVE  Abstract
  <2>1. CASE To(Wake(s), "left")
    <3>1. Same
      BY <1>0, <1>7, <2>1 DEF Recognized, Undecided, Of
    <3> QED
      BY <1>7, <1>a, <3>1 DEF Recognized, Phase
  <2>2. CASE speechCall[s] = "failed" /\ Complete(s, Wake(s), Empty, "failed")
    <3>1. pc[Wake(s)] = "recognize" /\ pc[Timer(s)] = "armed" /\ ~fired[s]
      BY <1>0, <1>7, <2>2 DEF Recognized, Places, Known, IInv, Strengthening
    <3>2. Undecided(s) /\ Undecided(s)'
      BY <1>0, <2>2, <3>1 DEF Complete, Undecided, Of
    <3>3. \A r \in Sessions \ {s} : Undecided(r)' <=> Undecided(r)
      BY <1>0, <2>2 DEF Complete, Undecided, Of
    <3>4. Same
      BY <3>2, <3>3
    <3> QED
      BY <1>7, <1>a, <3>4 DEF Recognized, Phase
  <2> QED
    BY <1>7, <2>1, <2>2 DEF Recognized
<1>8. ASSUME NEW s \in Sessions, Answer(s)
      PROVE  Abstract
  <2>1. /\ task[s] = "live" /\ UNCHANGED <<state, commands>>
        /\ \E outcome : \E place \in {"result", "failed"} :
             Complete(s, Callback(s), outcome, place)
    BY <1>8 DEF Answer, GetFinal, FinalResult, GetError, TaskError, CanAnswer,
                LastCallback
  <2>2. /\ pc[Timer(s)] \in {"armed", "finish", "finishing"}
        /\ pc[Timer(s)] = "armed" => ~fired[s]
    BY <1>0, <2>1 DEF Places, Known, IInv, Strengthening
  <2>3. Undecided(s) /\ Undecided(s)'
    BY <1>0, <2>1, <2>2 DEF Complete, Undecided, Of
  <2>4. \A r \in Sessions \ {s} : Undecided(r)' <=> Undecided(r)
    BY <1>0, <2>1 DEF Complete, Undecided, Of
  <2>5. Same
    BY <2>3, <2>4
  <2> QED
    BY <1>a, <2>1, <2>5 DEF Phase
<1>9. ASSUME NEW s \in Sessions,
             TimerBegins(s) \/ TimerFires(s) \/ Finish(s) \/ Finished(s)
      PROVE  Abstract
  <2>1. /\ pc[Timer(s)] \in {"armed", "due", "finish", "finishing"}
        /\ UNCHANGED <<state, commands>>
        /\ \E place \in {"due", "finish", "finishing", "result", "failed"} :
             To(Timer(s), place)
    BY <1>9 DEF TimerBegins, TimerFires, Finish, Finished
  <2>2. Undecided(s) /\ Undecided(s)'
    BY <1>0, <2>1 DEF Undecided, Of
  <2>3. \A r \in Sessions \ {s} : Undecided(r)' <=> Undecided(r)
    BY <1>0, <2>1 DEF Undecided, Of
  <2>4. Same
    BY <2>2, <2>3
  <2> QED
    BY <1>a, <2>1, <2>4 DEF Phase
<1>10. ASSUME EndOfSilence PROVE Abstract
  BY <1>10, <1>a DEF EndOfSilence, pipeVars, Undecided, Phase
<1>11. ASSUME NEW t \in Threads, SpotterCalls(t)
       PROVE  Abstract
  BY <1>11, <1>a DEF SpotterCalls, pipeVars, Undecided, Phase
<1>12. ASSUME NEW t \in Threads,
              \/ Dispatch(t) \/ Send(t) \/ StartCooldown(t) \/ CooldownEnds(t)
              \/ Restart(t) \/ Restarted(t)
       PROVE  Abstract
  <2>1. pc[t] \in Handling \ {"done"}
    BY <1>12 DEF Dispatch, Send, StartCooldown, CooldownEnds, Restart, Restarted,
                 Handling
  <2>2. PICK s \in Sessions : t \in Of(s)
    BY <1>0, <2>1, HandlersOf
  <2>3. state \in Transit /\ \A r \in Sessions \ {s} : ~Busy(r)
    BY <1>0, <2>1, <2>2, HandlingIsBusy DEF Open
  <2>4. \A r \in Sessions \ {s} : ~Undecided(r)
    BY <2>3 DEF Mapped
  <2>5. ASSUME NEW place \in Handling, To(t, place)
        PROVE  /\ Undecided(s) <=> pc[t] \in {"result", "failed", "sending"}
               /\ Undecided(s)' <=> place \in {"result", "failed", "sending"}
               /\ \A r \in Sessions \ {s} : Undecided(r)' <=> Undecided(r)
    BY <2>1, <2>2, <2>5, Decides
  <2>6. CASE Dispatch(t)
    <3>1. pc[t] = "result" /\ To(t, "sending") /\ state' = "dispatching"
          /\ UNCHANGED commands
      BY <2>6 DEF Dispatch
    <3>2. Same
      BY <2>5, <3>1 DEF Handling
    <3> QED
      BY <1>a, <2>3, <3>1, <3>2 DEF Phase, Transit
  <2>7. CASE Send(t)
    <3>1. pc[t] = "sending" /\ To(t, "spoken") /\ state' = "feedback"
          /\ commands' \in {Append(commands, text[t]), commands}
      BY <2>7 DEF Send
    <3>2. Undecided(s) /\ ~Undecided(s)'
          /\ \A r \in Sessions \ {s} : Undecided(r)' <=> Undecided(r)
      BY <2>5, <3>1 DEF Handling
    <3>3. text[t] = s
      BY <2>2, <3>1 DEF Known, IInv, Strengthening, Serial, EngineOwned, Owns, Of
    <3>4. Current = s /\ Current' = Nil
      BY <2>4, <3>2 DEF Mapped
    <3> QED
      BY <1>0, <2>3, <3>1, <3>3, <3>4, CycleStep DEF Phase, Transit, Abstract
  <2>8. CASE StartCooldown(t)
    <3>1. /\ pc[t] \in {"spoken", "failed", "result"} /\ To(t, "cooling")
          /\ state' = "cooldown" /\ UNCHANGED commands
      BY <2>8 DEF StartCooldown
    <3>2. /\ Undecided(s) <=> pc[t] # "spoken"
          /\ ~Undecided(s)'
          /\ \A r \in Sessions \ {s} : Undecided(r)' <=> Undecided(r)
      BY <2>5, <3>1 DEF Handling
    <3>3. CASE pc[t] = "spoken"
      BY <1>a, <2>3, <3>1, <3>2, <3>3 DEF Phase, Transit
    <3>4. CASE pc[t] # "spoken"
      <4>1. Current = s /\ Current' = Nil
        BY <2>4, <3>2, <3>4 DEF Mapped
      <4> QED
        BY <1>0, <2>3, <3>1, <4>1, CycleStep DEF Phase, Transit, Abstract
    <3> QED
      BY <3>3, <3>4
  <2>9. CASE CooldownEnds(t) \/ Restart(t)
    <3>1. /\ pc[t] \in {"cooling", "restart"} /\ UNCHANGED <<state, commands>>
          /\ \E place \in {"done", "restart", "restarting"} : To(t, place)
      BY <2>9 DEF CooldownEnds, Restart
    <3>2. Same
      BY <2>5, <3>1 DEF Handling
    <3> QED
      BY <1>a, <3>1, <3>2 DEF Phase
  <2>10. CASE Restarted(t)
    <3>1. /\ pc[t] = "restarting" /\ To(t, "done") /\ UNCHANGED commands
          /\ state' \in {"kwsListening", "error"}
      BY <2>10 DEF Restarted
    <3>2. /\ ~Undecided(s) /\ ~Undecided(s)'
          /\ \A r \in Sessions \ {s} : Undecided(r)' <=> Undecided(r)
      BY <2>5, <3>1 DEF Handling
    <3>3. Current = Nil /\ Current' = Nil
      BY <2>4, <3>2 DEF Mapped
    <3> QED
      BY <2>3, <3>1, <3>3, CycleStep DEF Phase, Transit, Abstract
  <2> QED
    BY <1>12, <2>6, <2>7, <2>8, <2>9, <2>10
<1>13. ASSUME UNCHANGED vars PROVE Abstract
  BY <1>13, <1>a DEF vars, pipeVars, Undecided, Phase
<1> QED
  BY <1>1, <1>2, <1>3, <1>4, <1>5, <1>6, <1>7, <1>8, <1>9, <1>10, <1>11,
     <1>12, <1>13
     DEF Next, Session, WakeStep, TimerStep, Handle, Quiet, Abstract

\* WakePipeline, from the wake word to the text on the Apple TV and back: it
\* hears a wake only when it says it listens, answers it with at most one text,
\* the one said after it, and then listens again or says that it cannot.
THEOREM PipelineRefinesWakeCycle ==
  ASSUME Calm, NoStops
  PROVE  Spec /\ []StartsApart => RefinesWakeCycle
<1>1. Init => Cycle!CycleInit
  BY ThreadFacts DEF Init, Cycle!CycleInit, Undecided, Of
<1>2. Known /\ Served /\ Mapped /\ Mapped' /\ [Next]_vars
        => [Cycle!CycleNext]_(Cycle!cycleVars)
  BY StepMapped
<1> QED
  BY <1>1, <1>2, KnownMapped, SpecServed, PTL
     DEF Spec, RefinesWakeCycle, Cycle!WakeCycleSpec

=============================================================================
