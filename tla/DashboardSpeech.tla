--------------------------- MODULE DashboardSpeech --------------------------
(***************************************************************************)
(* The speech test of the dashboard: /api/speech/start has the speech      *)
(* service of the pipeline recognize something, /api/speech/stop calls its *)
(* finish().  Neither asks whether a wake is using the service, nor which  *)
(* recognition is current, and the pipeline does not ask about tests.      *)
(***************************************************************************)
EXTENDS WakePipeline

CONSTANTS Tests  \* the sessions that are tests, and not wakes

ASSUME TestsAssumption == Tests \subseteq Sessions

VARIABLE testStop  \* testStop[s]: where a stop request stands

dashVars == <<vars, testStop>>

TestInit ==
  /\ Init
  /\ testStop = [s \in Tests |-> "none"]

-----------------------------------------------------------------------------
\* A start request is answered at once; its task asks for the permissions and,
\* when they are given, calls recognize().
TestRecognizes(s) ==
  /\ ~crashed
  /\ RecognizeStep(s)
  /\ UNCHANGED <<kwsVars, pipeVars, testStop>>

\* The completion of a test prints the result, and no more.
TestFinal(s) ==
  /\ CallbackFree
  /\ \E words \in {s, Empty} :
       /\ FinalResult(s, words)
       /\ CleanupEngine(SilenceArmed(s, words))
  /\ UNCHANGED <<kwsVars, pipeVars, testStop>>

TestFails(s) ==
  /\ CallbackFree
  /\ TaskError(s)
  /\ CleanupEngine(silenceTask)
  /\ UNCHANGED <<kwsVars, pipeVars, testStop>>

\* A stop request calls finish(), whether or not a test is under way, and
\* answers with its result.
AskTestStop(s) ==
  /\ ~crashed
  /\ testStop[s] = "none"
  /\ FinishEnter(s)
  /\ testStop' = [testStop EXCEPT ![s] = "finishing"]
  /\ UNCHANGED <<kwsVars, pipeVars>>

TestStopped(s) ==
  /\ ~crashed
  /\ testStop[s] = "finishing"
  /\ FinishLeave(s)
  /\ testStop' = [testStop EXCEPT ![s] = "left"]
  /\ UNCHANGED <<kwsVars, pipeVars>>

TestAnswer(s) == TestFinal(s) \/ TestFails(s)

TestStep(s) ==
  \/ TestRecognizes(s)
  \/ GetPartial(s) /\ UNCHANGED testStop
  \/ TestAnswer(s)
  \/ AskTestStop(s)
  \/ TestStopped(s)

PipelineStep ==
  /\ \/ \E a \in Starts : UserStart(Start(a)) \/ UserStarted(Start(a))
     \/ \E b \in Stops : UserStop(Stop(b)) \/ UserStopped(Stop(b))
     \/ \E s \in Sessions \ Tests : Session(s)
     \/ EndOfSilence
     \/ \E t \in Threads : Handle(t)
     \/ Quiet
  /\ UNCHANGED testStop

DashNext == PipelineStep \/ \E s \in Tests : TestStep(s)

\* As for the pipeline; what a request has begun goes on, too.
DashFairness ==
  /\ Fairness
  /\ \A s \in Tests :
       /\ WF_dashVars(speechCall[s] # "none" /\ TestRecognizes(s))
       /\ WF_dashVars(s \in audioEnded /\ TestAnswer(s))
       /\ WF_dashVars(TestStopped(s))

DashSpec == TestInit /\ [][DashNext]_dashVars /\ DashFairness

-----------------------------------------------------------------------------
\* A stop request is answered, whatever became of the recognition it found.
TestStopReturns ==
  \A s \in Tests :
    testStop[s] = "finishing" ~> (testStop[s] = "left" \/ crashed)

=============================================================================
