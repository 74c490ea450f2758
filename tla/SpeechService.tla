---------------------------- MODULE SpeechService ---------------------------
(***************************************************************************)
(* SpeechService: one object, one audio engine and one set of fields, used *)
(* by every recognition in turn.  recognize() is called by the handler of  *)
(* a wake, finish() by the timeout of that wake, the callbacks of the      *)
(* recognition task come on a queue of the recognizer, one at a time.      *)
(* Nothing ties a callback, a timer or a finish() to the recognition it    *)
(* belongs to: all of them use the fields as they are when they run.       *)
(***************************************************************************)
EXTENDS Activities

VARIABLES
  didCleanup,   \* engineDidCleanup
  speechTap,    \* the session whose tap is on the engine's input node
  onEngine,     \* the sessions whose input node is that of the current engine
  micOpen,      \* the current engine runs
  request,      \* recognitionRequest with its semaphore, named by its session
  signals,      \* the sessions whose semaphore has been signalled
  latestResult, \* Nil, the empty text, or the session in which it was spoken
  bestPartial,  \* bestPartialText
  silenceTask,  \* the session whose partial result armed the silence timer
  task,         \* task[s]: the recognition task of s at the recognizer
  audioEnded,   \* the sessions whose request was told that the audio ended
  speechCall,   \* speechCall[s]: where recognize(), called by Wake(s), stands
  waitOn        \* waitOn[s]: the semaphore finish(), called by Timer(s), awaits

taskVars == <<request, signals, latestResult, bestPartial, silenceTask, task,
              audioEnded>>
engineVars == <<didCleanup, speechTap, onEngine, micOpen>>
speechVars == <<taskVars, engineVars, speechCall, waitOn>>

SpeechTypeOK ==
  /\ didCleanup \in BOOLEAN
  /\ speechTap \in Sessions \cup {Nil}
  /\ onEngine \subseteq Sessions
  /\ micOpen \in BOOLEAN
  /\ request \in Sessions \cup {Nil}
  /\ signals \subseteq Sessions
  /\ latestResult \in Sessions \cup {Empty, Nil}
  /\ bestPartial \in Sessions \cup {Empty}
  /\ silenceTask \in Sessions \cup {Nil}
  /\ task \in [Sessions -> {"none", "live", "ended"}]
  /\ audioEnded \subseteq Sessions
  /\ speechCall \in [Sessions ->
                       {"none", "request", "tap", "engine", "started", "failed"}]
  /\ waitOn \in [Sessions -> Sessions \cup {Nil}]

SpeechInit ==
  /\ didCleanup = FALSE
  /\ speechTap = Nil
  /\ onEngine = {}
  /\ micOpen = FALSE
  /\ request = Nil
  /\ signals = {}
  /\ latestResult = Nil
  /\ bestPartial = Empty
  /\ silenceTask = Nil
  /\ task = [s \in Sessions |-> "none"]
  /\ audioEnded = {}
  /\ speechCall = [s \in Sessions |-> "none"]
  /\ waitOn = [s \in Sessions |-> Nil]

-----------------------------------------------------------------------------
\* Faulty variant: the silence timer is not cancelled.
CleanupEngineKeepsTimer(armed) ==
  /\ silenceTask' = armed
  /\ IF didCleanup
     THEN UNCHANGED engineVars
     ELSE /\ didCleanup' = TRUE
          /\ speechTap' = Nil
          /\ onEngine' = {}
          /\ micOpen' = FALSE

(* cleanupEngine(): only the first call after a recognize() has an effect. *)
(* The new engine has no tap, and an input node taken before is not its.   *)
(* armed is the silence timer at the time of the call.                     *)
CleanupEngine(armed) ==
  IF didCleanup
  THEN silenceTask' = armed /\ UNCHANGED engineVars
  ELSE /\ didCleanup' = TRUE
       /\ silenceTask' = Nil
       /\ speechTap' = Nil
       /\ onEngine' = {}
       /\ micOpen' = FALSE

-----------------------------------------------------------------------------
(* recognize(), called by Wake(s).  It returns false, after it has called  *)
(* the completion with an error, when a permission, the input device or    *)
(* the recognizer is missing, or when the engine does not start.           *)

Calls(s, step) == speechCall' = [speechCall EXCEPT ![s] = step]

\* Faulty variants: engineDidCleanup is not reset; the input node is taken from
\* an engine that has been replaced.
RecognizeNoReset(s) ==
  /\ speechCall[s] = "none"
  /\ \/ Calls(s, "failed") /\ UNCHANGED onEngine
     \/ Calls(s, "request") /\ onEngine' = onEngine \cup {s}
  /\ UNCHANGED <<taskVars, didCleanup, speechTap, micOpen, waitOn, crashed>>

RecognizeOldNode(s) ==
  /\ speechCall[s] = "none"
  /\ didCleanup' = FALSE
  /\ Calls(s, "failed") \/ Calls(s, "request")
  /\ UNCHANGED <<taskVars, onEngine, speechTap, micOpen, waitOn, crashed>>

Recognize(s) ==
  /\ speechCall[s] = "none"
  /\ didCleanup' = FALSE
  /\ \/ Calls(s, "failed") /\ UNCHANGED onEngine
     \/ Calls(s, "request") /\ onEngine' = onEngine \cup {s}
  /\ UNCHANGED <<taskVars, speechTap, micOpen, waitOn, crashed>>

\* Faulty variant: the best partial text is not reset.
MakeRequestKeepsText(s) ==
  /\ speechCall[s] = "request"
  /\ request' = s
  /\ latestResult' = Nil
  /\ \/ Calls(s, "failed") /\ UNCHANGED task
     \/ Calls(s, "tap") /\ task' = [task EXCEPT ![s] = "live"]
  /\ UNCHANGED <<engineVars, signals, bestPartial, silenceTask, audioEnded,
                 waitOn, crashed>>

MakeRequest(s) ==
  /\ speechCall[s] = "request"
  /\ request' = s
  /\ latestResult' = Nil
  /\ \/ Calls(s, "failed") /\ UNCHANGED <<bestPartial, task>>
     \/ /\ Calls(s, "tap")
        /\ bestPartial' = Empty
        /\ task' = [task EXCEPT ![s] = "live"]
  /\ UNCHANGED <<engineVars, signals, silenceTask, audioEnded, waitOn, crashed>>

\* A second tap on the same input node ends the process; one on the node of
\* an engine that was replaced meanwhile will never be called.
OpenSpeechTap(s) ==
  /\ speechCall[s] = "tap"
  /\ crashed' = (s \in onEngine /\ speechTap # Nil)
  /\ speechTap' = IF s \in onEngine THEN s ELSE speechTap
  /\ Calls(s, "engine")
  /\ UNCHANGED <<taskVars, didCleanup, onEngine, micOpen, waitOn>>

\* When the engine does not start, tap and task stay as they are.
StartSpeech(s) ==
  /\ speechCall[s] = "engine"
  /\ \/ Calls(s, "started") /\ micOpen' = TRUE
     \/ "engine" \in Faults /\ Calls(s, "failed") /\ UNCHANGED micOpen
  /\ UNCHANGED <<taskVars, didCleanup, speechTap, onEngine, waitOn, crashed>>

RecognizeStep(s) ==
  \/ Recognize(s)
  \/ MakeRequest(s)
  \/ OpenSpeechTap(s)
  \/ StartSpeech(s)

-----------------------------------------------------------------------------
(* The callbacks of the task of s.  A text is the session it was spoken in *)
(* or empty.  A result with words is kept as the best partial text and     *)
(* arms the silence timer anew, in place of the one armed before.          *)

CanAnswer(s) ==
  /\ task[s] = "live"
  /\ speechCall[s] \in {"started", "failed"} \/ "race" \in Faults

SilenceArmed(s, words) == IF words = Empty THEN silenceTask ELSE s

\* Faulty variant: the best partial text is the result before this one.
TakeResultBefore(words) ==
  /\ latestResult' = words
  /\ bestPartial' = latestResult

TakeResult(words) ==
  /\ latestResult' = words
  /\ bestPartial' = IF words = Empty THEN bestPartial ELSE words

Partial(s, words) ==
  /\ CanAnswer(s)
  /\ TakeResult(words)
  /\ silenceTask' = SilenceArmed(s, words)
  /\ UNCHANGED <<engineVars, request, signals, task, audioEnded, speechCall,
                 waitOn, crashed>>

\* The silence timer tells the request that is current that the audio ended.
SilenceFires ==
  /\ silenceTask # Nil
  /\ silenceTask' = Nil
  /\ audioEnded' = audioEnded \cup ({request} \ {Nil})
  /\ UNCHANGED <<engineVars, request, signals, latestResult, bestPartial, task,
                 speechCall, waitOn, crashed>>

\* The part of a final result that comes before the completion is called; the
\* caller of this action sees to the silence timer.  The completion takes
\* FinalText: an empty final result does not hide the words of a partial one.
FinalResult(s, words) ==
  /\ CanAnswer(s)
  /\ TakeResult(words)
  /\ signals' = signals \cup ({request} \ {Nil})
  /\ task' = [task EXCEPT ![s] = "ended"]
  /\ UNCHANGED <<request, audioEnded, speechCall, waitOn, crashed>>

FinalText(words) == IF words = Empty THEN bestPartial ELSE words

\* An error ends the task and signals nobody.
TaskError(s) ==
  /\ CanAnswer(s)
  /\ task' = [task EXCEPT ![s] = "ended"]
  /\ UNCHANGED <<request, signals, latestResult, bestPartial, audioEnded,
                 speechCall, waitOn, crashed>>

-----------------------------------------------------------------------------
(* finish(), called by Timer(s): end the audio, wait for the final result, *)
(* at most five seconds, then clean up and take the latest result.         *)

FinishEnter(s) ==
  /\ audioEnded' = audioEnded \cup ({request} \ {Nil})
  /\ waitOn' = [waitOn EXCEPT ![s] = request]
  /\ UNCHANGED <<engineVars, request, signals, latestResult, bestPartial,
                 silenceTask, task, speechCall, crashed>>

\* Faulty variant: finish() waits without a limit.
FinishLeaveSignalled(s) ==
  /\ waitOn[s] \in signals
  /\ CleanupEngine(silenceTask)
  /\ signals' = signals \ {waitOn[s]}
  /\ waitOn' = [waitOn EXCEPT ![s] = Nil]
  /\ UNCHANGED <<request, latestResult, bestPartial, task, audioEnded,
                 speechCall, crashed>>

\* The five seconds pass only after the task has answered, unless it is late.
FinishLeave(s) ==
  /\ \/ waitOn[s] \in signals
     \/ waitOn[s] \notin {r \in Sessions : task[r] = "live"}
     \/ "late" \in Faults
  /\ CleanupEngine(silenceTask)
  /\ signals' = signals \ {waitOn[s]}
  /\ waitOn' = [waitOn EXCEPT ![s] = Nil]
  /\ UNCHANGED <<request, latestResult, bestPartial, task, audioEnded,
                 speechCall, crashed>>

FinishResult ==
  IF latestResult = Empty THEN bestPartial ELSE latestResult

=============================================================================
