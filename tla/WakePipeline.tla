---------------------------- MODULE WakePipeline ----------------------------
(***************************************************************************)
(* WakePipeline: from a wake word over a recognition to a text sent to the *)
(* Apple TV, and back to listening.  Its state variable is written by the  *)
(* handlers of wakes, results, errors and timeouts, by the block that ends *)
(* a cooldown, and by start() and stop(); none of them takes a lock.       *)
(***************************************************************************)
EXTENDS KeywordSpotter, SpeechService, Sequences

VARIABLES
  state,         \* PipelineState; prompting is never entered
  cooldownTask,  \* the activity whose cooldown stop() would cancel, or Nil
  pc,            \* pc[t]: where activity t stands
  text,          \* text[t]: the outcome t handles
  fired,         \* fired[s]: flag.fired of the recognition of s
  commands       \* what the Apple TV was told, oldest first

pipeVars == <<state, cooldownTask, pc, text, fired, commands>>
vars == <<crashed, kwsVars, speechVars, pipeVars>>

States == {"idle", "kwsListening", "cooldown", "recognizing", "dispatching",
           "feedback", "error"}

\* An outcome is handled at these places, in this order; "done" is its end.
Handling == {"result", "failed", "sending", "spoken", "cooling", "restart",
             "restarting", "done"}
PCs == Handling \cup
  {"none", "left",                                          \* any activity
   "queued", "stopKws", "recognize",                        \* Wake(s)
   "armed", "due", "finish", "finishing",                   \* Timer(s)
   "starting", "stopping"}                                  \* Start(a), Stop(b)

PipelineTypeOK ==
  /\ state \in States
  /\ cooldownTask \in Threads \cup {Nil}
  /\ pc \in [Threads -> PCs]
  /\ text \in [Threads -> Sessions \cup {Empty}]
  /\ fired \in [Sessions -> BOOLEAN]
  /\ commands \in Seq(Sessions)

\* Every variable has a value of its type.
TypeOK ==
  /\ crashed \in BOOLEAN
  /\ SpotterTypeOK
  /\ SpeechTypeOK
  /\ PipelineTypeOK

Init ==
  /\ crashed = FALSE
  /\ SpotterInit
  /\ SpeechInit
  /\ state = "idle"
  /\ cooldownTask = Nil
  /\ pc = [t \in Threads |-> "none"]
  /\ text = [t \in Threads |-> Empty]
  /\ fired = [s \in Sessions |-> FALSE]
  /\ commands = <<>>

-----------------------------------------------------------------------------
Is(t, place) == ~crashed /\ pc[t] = place
To(t, place) == pc' = [pc EXCEPT ![t] = place]

\* start() returns at once unless the pipeline is idle, else it starts the
\* spotter; when that throws, the state stays as it is.
UserStart(t) ==
  /\ Is(t, "none")
  /\ IF state = "idle"
     THEN To(t, "starting") /\ CallStart(t)
     ELSE To(t, "left") /\ UNCHANGED <<kwsVars, crashed>>
  /\ UNCHANGED <<speechVars, state, cooldownTask, text, fired, commands>>

UserStarted(t) ==
  /\ Is(t, "starting")
  /\ state' = IF kwsCall[t] = "ok" THEN "kwsListening" ELSE state
  /\ To(t, "left")
  /\ Return(t)
  /\ UNCHANGED <<speechVars, cooldownTask, text, fired, commands>>

\* stop(): cancel the cooldown, stop the spotter, be idle.  A cooldown that
\* has ended is not cancelled, nor is the restart that follows it.
Cancelled(places) ==
  IF cooldownTask # Nil /\ places[cooldownTask] = "cooling"
  THEN [places EXCEPT ![cooldownTask] = "done"]
  ELSE places

UserStop(t) ==
  /\ Is(t, "none")
  /\ pc' = Cancelled([pc EXCEPT ![t] = "stopping"])
  /\ CallStop(t)
  /\ UNCHANGED <<speechVars, state, cooldownTask, text, fired, commands>>

UserStopped(t) ==
  /\ Is(t, "stopping")
  /\ state' = "idle"
  /\ To(t, "left")
  /\ Return(t)
  /\ UNCHANGED <<speechVars, cooldownTask, text, fired, commands>>

-----------------------------------------------------------------------------
\* The tap finds the wake word and queues the handler of the pipeline.  The
\* tap goes on until the spotter is stopped, so there may be a burst of them.
Detect(s) ==
  /\ CanDetect
  /\ Is(Wake(s), "none")
  /\ \/ "burst" \in Faults
     \/ state = "kwsListening" /\ \A r \in Sessions : pc[Wake(r)] # "queued"
  /\ To(Wake(s), "queued")
  /\ UNCHANGED <<crashed, kwsVars, speechVars, state, cooldownTask, text, fired,
                 commands>>

\* Faulty variant: the state still says kwsListening while the spotter stops.
HandleWakeSilently(s) ==
  /\ Is(Wake(s), "queued")
  /\ To(Wake(s), "stopKws")
  /\ CallStop(Wake(s))
  /\ UNCHANGED <<speechVars, state, cooldownTask, text, fired, commands>>

\* handleWakeDetection(), whatever the state: stop the spotter, then
\* startRecognition() arms the timeout and calls recognize().
HandleWake(s) ==
  /\ Is(Wake(s), "queued")
  /\ state' = "cooldown"
  /\ To(Wake(s), "stopKws")
  /\ CallStop(Wake(s))
  /\ UNCHANGED <<speechVars, cooldownTask, text, fired, commands>>

StartRecognition(s) ==
  /\ Is(Wake(s), "stopKws")
  /\ Return(Wake(s))
  /\ state' = "recognizing"
  /\ pc' = [pc EXCEPT ![Wake(s)] = "recognize", ![Timer(s)] = "armed"]
  /\ UNCHANGED <<speechVars, cooldownTask, text, fired, commands>>

RecognizeCalls(s) ==
  /\ Is(Wake(s), "recognize")
  /\ RecognizeStep(s)
  /\ UNCHANGED <<kwsVars, pipeVars>>

\* Faulty variants: the flag is not looked at; the timeout is not cancelled.
CompleteUnguarded(s, t, outcome, place) ==
  /\ pc' = [pc EXCEPT ![Timer(s)] = IF @ = "armed" THEN "left" ELSE @,
                      ![t] = place]
  /\ text' = [text EXCEPT ![t] = outcome]

CompleteKeepsTimer(s, t, outcome, place) ==
  /\ pc' = [pc EXCEPT ![t] = IF fired[s] THEN "left" ELSE place]
  /\ text' = [text EXCEPT ![t] = outcome]

\* The completion of the recognition of s, run by t: cancel the timeout, and
\* leave the outcome to the timeout if that has fired already.
Complete(s, t, outcome, place) ==
  /\ pc' = [pc EXCEPT ![Timer(s)] = IF @ = "armed" THEN "left" ELSE @,
                      ![t] = IF fired[s] THEN "left" ELSE place]
  /\ text' = [text EXCEPT ![t] = outcome]

\* recognize() has returned; when it failed it has called the completion.
Recognized(s) ==
  /\ Is(Wake(s), "recognize")
  /\ \/ /\ speechCall[s] = "started"
        /\ To(Wake(s), "left")
        /\ UNCHANGED text
     \/ /\ speechCall[s] = "failed"
        /\ Complete(s, Wake(s), Empty, "failed")
  /\ UNCHANGED <<crashed, kwsVars, speechVars, state, cooldownTask, fired,
                 commands>>

-----------------------------------------------------------------------------
\* A partial result of the recognition of s.
CallbackFree ==
  ~crashed /\ \A s \in Sessions :
    pc[Callback(s)] \notin {"result", "failed", "sending", "spoken"}

GetPartial(s) ==
  /\ CallbackFree
  /\ \E words \in {s, Empty} : Partial(s, words)
  /\ UNCHANGED <<kwsVars, pipeVars>>

EndOfSilence == ~crashed /\ SilenceFires /\ UNCHANGED <<kwsVars, pipeVars>>

\* The last callback: it calls the completion, and the cleanup at once if
\* there is nothing to handle, else when the outcome has been handled.
LastCallback(s, armed, outcome, place) ==
  /\ CallbackFree
  /\ Complete(s, Callback(s), outcome, place)
  /\ IF fired[s]
     THEN CleanupEngine(armed)
     ELSE silenceTask' = armed /\ UNCHANGED engineVars
  /\ UNCHANGED <<kwsVars, state, cooldownTask, fired, commands>>

GetFinal(s) ==
  \E words \in {s, Empty} :
    /\ FinalResult(s, words)
    /\ LastCallback(s, SilenceArmed(s, words), FinalText(words), "result")

GetError(s) ==
  /\ TaskError(s)
  /\ LastCallback(s, silenceTask, Empty, "failed")

-----------------------------------------------------------------------------
\* The block of the timeout begins, or begins and takes the flag.
TimerBegins(s) ==
  /\ "race" \in Faults
  /\ Is(Timer(s), "armed")
  /\ To(Timer(s), "due")
  /\ UNCHANGED <<crashed, kwsVars, speechVars, state, cooldownTask, text, fired,
                 commands>>

TimerFires(s) ==
  /\ Is(Timer(s), "armed") \/ Is(Timer(s), "due")
  /\ "race" \in Faults \/ Is(Wake(s), "left")
  /\ fired' = [fired EXCEPT ![s] = TRUE]
  /\ To(Timer(s), "finish")
  /\ UNCHANGED <<crashed, kwsVars, speechVars, state, cooldownTask, text,
                 commands>>

Finish(s) ==
  /\ Is(Timer(s), "finish")
  /\ FinishEnter(s)
  /\ To(Timer(s), "finishing")
  /\ UNCHANGED <<kwsVars, state, cooldownTask, text, fired, commands>>

Finished(s) ==
  /\ Is(Timer(s), "finishing")
  /\ FinishLeave(s)
  /\ IF FinishResult \in Sessions
     THEN /\ To(Timer(s), "result")
          /\ text' = [text EXCEPT ![Timer(s)] = FinishResult]
     ELSE To(Timer(s), "failed") /\ UNCHANGED text
  /\ UNCHANGED <<kwsVars, state, cooldownTask, fired, commands>>

-----------------------------------------------------------------------------
\* Faulty variant: an empty text is dispatched.
DispatchAnything(t) ==
  /\ Is(t, "result")
  /\ state' = "dispatching"
  /\ To(t, "sending")
  /\ UNCHANGED <<crashed, kwsVars, speechVars, cooldownTask, text, fired,
                 commands>>

\* handleRecognitionResult(): dispatch, send, feedback, cooldown.
Dispatch(t) ==
  /\ Is(t, "result")
  /\ text[t] # Empty
  /\ state' = "dispatching"
  /\ To(t, "sending")
  /\ UNCHANGED <<crashed, kwsVars, speechVars, cooldownTask, text, fired,
                 commands>>

\* atvremote may fail; the pipeline says so and goes on.
Send(t) ==
  /\ Is(t, "sending")
  /\ commands' \in {Append(commands, text[t]), commands}
  /\ state' = "feedback"
  /\ To(t, "spoken")
  /\ UNCHANGED <<crashed, kwsVars, speechVars, cooldownTask, text, fired>>

\* Faulty variant: the callback leaves the engine as it is.
StartCooldownKeepsEngine(t) ==
  /\ Is(t, "spoken") \/ Is(t, "failed") \/ Is(t, "result")
  /\ state' = "cooldown"
  /\ cooldownTask' = t
  /\ To(t, "cooling")
  /\ text' = [text EXCEPT ![t] = Empty]
  /\ UNCHANGED <<crashed, kwsVars, speechVars, fired, commands>>

\* The cooldown after a text was sent, after an error, and after a result
\* of which normalization left nothing.  The callback goes on to the cleanup.
StartCooldown(t) ==
  /\ Is(t, "spoken") \/ Is(t, "failed") \/ Is(t, "result")
  /\ state' = "cooldown"
  /\ cooldownTask' = t
  /\ To(t, "cooling")
  /\ text' = [text EXCEPT ![t] = Empty]
  /\ IF \E s \in Sessions : t = Callback(s)
     THEN CleanupEngine(silenceTask)
     ELSE UNCHANGED <<engineVars, silenceTask>>
  /\ UNCHANGED <<crashed, kwsVars, request, signals, latestResult, bestPartial,
                 task, audioEnded, speechCall, waitOn, fired, commands>>

\* Faulty variant: restartKWS() gives up when the state is not that of a wake.
CooldownEndsElsewhere(t) ==
  /\ Is(t, "cooling")
  /\ To(t, IF state \in {"idle", "cooldown"} THEN "done" ELSE "restart")
  /\ UNCHANGED <<crashed, kwsVars, speechVars, state, cooldownTask, text, fired,
                 commands>>

\* restartKWS(), which looks at the state when the cooldown ends, and the
\* block it leaves behind, which looks again 0.3 seconds later.
CooldownEnds(t) ==
  /\ Is(t, "cooling")
  /\ To(t, IF state = "idle" THEN "done" ELSE "restart")
  /\ UNCHANGED <<crashed, kwsVars, speechVars, state, cooldownTask, text, fired,
                 commands>>

Restart(t) ==
  /\ Is(t, "restart")
  /\ IF state = "idle"
     THEN To(t, "done") /\ UNCHANGED <<kwsVars, crashed>>
     ELSE To(t, "restarting") /\ CallStart(t)
  /\ UNCHANGED <<speechVars, state, cooldownTask, text, fired, commands>>

Restarted(t) ==
  /\ Is(t, "restarting")
  /\ state' = IF kwsCall[t] = "ok" THEN "kwsListening" ELSE "error"
  /\ To(t, "done")
  /\ Return(t)
  /\ UNCHANGED <<speechVars, cooldownTask, text, fired, commands>>

-----------------------------------------------------------------------------
(* The steps of an activity, and the next-state relation.                  *)

SpotterCalls(t) == SpotterStep(t) /\ UNCHANGED <<speechVars, pipeVars>>

Handle(t) ==
  \/ SpotterCalls(t)
  \/ Dispatch(t)
  \/ Send(t)
  \/ StartCooldown(t)
  \/ CooldownEnds(t)
  \/ Restart(t)
  \/ Restarted(t)

WakeStep(s) ==
  \/ HandleWake(s)
  \/ StartRecognition(s)
  \/ RecognizeCalls(s)
  \/ Recognized(s)

TimerStep(s) ==
  \/ TimerFires(s)
  \/ Finish(s)
  \/ Finished(s)

Answer(s) == GetFinal(s) \/ GetError(s)

Session(s) ==
  \/ Detect(s)
  \/ WakeStep(s)
  \/ GetPartial(s)
  \/ Answer(s)
  \/ TimerBegins(s)
  \/ TimerStep(s)

\* Nothing is under way, or the process has ended.
Quiet ==
  /\ crashed \/ \A t \in Threads : pc[t] \in {"none", "left", "done"}
  /\ UNCHANGED vars

Next ==
  \/ \E a \in Starts : UserStart(Start(a)) \/ UserStarted(Start(a))
  \/ \E b \in Stops : UserStop(Stop(b)) \/ UserStopped(Stop(b))
  \/ \E s \in Sessions : Session(s)
  \/ EndOfSilence
  \/ \E t \in Threads : Handle(t)
  \/ Quiet

Spec == Init /\ [][Next]_vars

\* libdispatch runs every block it was given, the audio engine and atvremote
\* return, and the recognizer answers a request whose audio has ended.
Fairness ==
  /\ \A t \in Threads : WF_vars(Handle(t))
  /\ \A a \in Starts : WF_vars(UserStarted(Start(a)))
  /\ \A b \in Stops : WF_vars(UserStopped(Stop(b)))
  /\ \A s \in Sessions :
       /\ WF_vars(WakeStep(s))
       /\ WF_vars(TimerStep(s))
       /\ WF_vars(s \in audioEnded /\ Answer(s))

FairSpec == Spec /\ Fairness

-----------------------------------------------------------------------------
(* What should hold.                                                       *)

Transit == {"cooldown", "recognizing", "dispatching", "feedback"}

\* The places at which an activity has yet to write the state, or to hand
\* that duty to another one.  recognize is not among them: the timeout is.
Committed(t) ==
  pc[t] \in {"stopKws", "armed", "due", "finish", "finishing", "result",
             "failed", "sending", "spoken", "cooling", "restart",
             "restarting", "stopping"}

\* The pipeline is never left in a state it only passes through: whatever was
\* cancelled, overlapped or came late, some activity will write the state.
NeverStranded == state \in Transit => \E t \in Threads : Committed(t)

Of(s) == {Wake(s), Timer(s), Callback(s)}

\* A wake has one outcome: of its timeout, its last callback and the failure
\* of recognize(), at most one is handled, so nothing is sent or said twice.
OutcomeOnce ==
  \A s \in Sessions : \A t, u \in Of(s) :
    pc[t] \in Handling /\ pc[u] \in Handling => t = u

\* What is sent for a wake is what was said after that wake.
OwnWords ==
  \A s \in Sessions : \A t \in Of(s) : pc[t] = "sending" => text[t] = s

\* A silence timer ends the audio of the recognition that armed it.
OwnSilence == silenceTask # Nil => silenceTask = request

\* As long as a recognition has neither answered nor been told that its audio
\* ended, the running engine has its tap: no other one's cleanup took it.
KeepsEngine ==
  \A s \in Sessions :
    task[s] = "live" /\ speechCall[s] = "started" /\ s \notin audioEnded
      => speechTap = s /\ micOpen

\* The spotter and the recognizer never record at the same time.
MicHandoff == ~(kwsTap /\ micOpen)

\* The fields of the inductive invariant that NeverStranded needs: a timeout
\* that has fired is past its flag, none is armed before its wake gets there,
\* a task answers once, and who sends has something to send.
Strengthening ==
  /\ \A s \in Sessions :
       /\ fired[s] => pc[Timer(s)] \notin {"none", "armed", "due"}
       /\ pc[Wake(s)] \in {"none", "queued", "stopKws"} => pc[Timer(s)] = "none"
       /\ speechCall[s] \in {"none", "request"} => task[s] = "none"
       /\ task[s] # "ended" => pc[Callback(s)] = "none"
  /\ \A t \in Threads : pc[t] = "sending" => text[t] # Empty

\* The inductive invariant.
IInv == TypeOK /\ NeverStranded /\ Strengthening

\* A pipeline that says it listens has a spotter that does, unless a wake word
\* has just been heard.
ListeningIsTrue ==
  state = "kwsListening" => kwsState = "listening" /\ CanDetect

\* Every wake comes to an end: the pipeline listens again or says it does not.
Settles == state \in Transit ~> (state \notin Transit \/ crashed)

\* After a wake the pipeline listens again.
ListensAgain == state \in Transit ~> state = "kwsListening"

\* Only a start ends the idle state: a pipeline that was stopped stays so (the
\* log says "pipeline stopped", the dashboard answers "state":"idle").
OnlyStartLeavesIdle ==
  [][state = "idle" /\ state' # "idle" =>
       \E a \in Starts : pc[Start(a)] = "starting"]_vars

\* The wake whose outcome is open, seen as the abstract pipeline sees it.
Undecided(s) ==
  \/ pc[Wake(s)] = "stopKws"
  \/ pc[Timer(s)] \in {"armed", "due", "finish", "finishing"}
  \/ \E t \in Of(s) : pc[t] \in {"result", "failed", "sending"}

Cycle == INSTANCE WakeCycle WITH
  phase   <- CASE state = "idle" -> "off"
               [] state = "kwsListening" -> "listening"
               [] state = "error" -> "error"
               [] OTHER -> "busy",
  current <- IF \E s \in Sessions : Undecided(s)
             THEN CHOOSE s \in Sessions : Undecided(s)
             ELSE Nil,
  told    <- commands

\* The pipeline does what WakeCycle says, as long as nobody stops it and the
\* environment does nothing out of the ordinary.
RefinesWakeCycle == Cycle!WakeCycleSpec

=============================================================================
