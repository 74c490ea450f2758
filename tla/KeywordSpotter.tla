--------------------------- MODULE KeywordSpotter ---------------------------
(***************************************************************************)
(* KeywordSpotterService: an audio engine with a tap, a voice activity     *)
(* detector and the sherpa-onnx spotter behind one start() and one stop(). *)
(* The class has no lock, and its callers run on the main thread, on the   *)
(* dashboard's queues and on the global queue, so a call is a sequence of  *)
(* steps between which other calls run.                                    *)
(***************************************************************************)
EXTENDS Activities

VARIABLES
  kwsState,   \* state: "idle" or "listening"
  kwsModels,  \* spotter and vad are loaded
  kwsTap,     \* the input node of the engine has the tap
  kwsCall     \* kwsCall[t]: where the call made by t stands

kwsVars == <<kwsState, kwsModels, kwsTap, kwsCall>>

Idle == {"none"}
Returned == {"ok", "thrown"}
Under == {"load", "tap", "engine", "untap", "unload", "abort", "aborting"}

SpotterTypeOK ==
  /\ kwsState \in {"idle", "listening"}
  /\ kwsModels \in BOOLEAN
  /\ kwsTap \in BOOLEAN
  /\ kwsCall \in [Threads -> Idle \cup Returned \cup Under]

SpotterInit ==
  /\ kwsState = "idle"
  /\ kwsModels = FALSE
  /\ kwsTap = FALSE
  /\ kwsCall = [t \in Threads |-> "none"]

-----------------------------------------------------------------------------
At(t, steps) == ~crashed /\ kwsCall[t] \in steps
Go(t, step)  == kwsCall' = [kwsCall EXCEPT ![t] = step]

\* start(): a start of a spotter that listens throws alreadyRunning, a start
\* that does not find its model files throws modelNotFound.
CallStart(t) ==
  /\ At(t, {"none"})
  /\ \/ kwsState = "idle" /\ Go(t, "load")
     \/ kwsState # "idle" /\ Go(t, "thrown")
     \/ "spotter" \in Faults /\ Go(t, "thrown")
  /\ UNCHANGED <<kwsState, kwsModels, kwsTap, crashed>>

\* The models take seconds to load; without an input device start() throws
\* and leaves them loaded.
LoadModels(t) ==
  /\ At(t, {"load"})
  /\ kwsModels' = TRUE
  /\ \/ Go(t, "tap")
     \/ "spotter" \in Faults /\ Go(t, "thrown")
  /\ UNCHANGED <<kwsState, kwsTap, crashed>>

\* installTap raises an exception on a bus that has a tap.
OpenSpotterTap(t) ==
  /\ At(t, {"tap"})
  /\ crashed' = kwsTap
  /\ kwsTap' = TRUE
  /\ Go(t, "engine")
  /\ UNCHANGED <<kwsState, kwsModels>>

\* engine.start() fails and start() tears down what it built, or it works.
StartSpotter(t) ==
  /\ At(t, {"engine"})
  /\ \/ kwsState' = "listening" /\ Go(t, "ok")
     \/ "spotter" \in Faults /\ Go(t, "abort") /\ UNCHANGED kwsState
  /\ UNCHANGED <<kwsModels, kwsTap, crashed>>

\* stop(): does nothing unless the spotter listens.
CallStop(t) ==
  /\ At(t, {"none"})
  /\ Go(t, IF kwsState = "listening" THEN "untap" ELSE "ok")
  /\ UNCHANGED <<kwsState, kwsModels, kwsTap, crashed>>

\* Faulty variant: the tap stays on the bus.
TearDownAudioKeepsTap(t) ==
  /\ At(t, {"untap", "abort"})
  /\ Go(t, IF kwsCall[t] = "untap" THEN "unload" ELSE "aborting")
  /\ UNCHANGED <<kwsState, kwsModels, kwsTap, crashed>>

\* teardown(), first the tap and the engine, then the models and the state.
TearDownAudio(t) ==
  /\ At(t, {"untap", "abort"})
  /\ kwsTap' = FALSE
  /\ Go(t, IF kwsCall[t] = "untap" THEN "unload" ELSE "aborting")
  /\ UNCHANGED <<kwsState, kwsModels, crashed>>

TearDownModels(t) ==
  /\ At(t, {"unload", "aborting"})
  /\ kwsModels' = FALSE
  /\ kwsState' = "idle"
  /\ Go(t, IF kwsCall[t] = "unload" THEN "ok" ELSE "thrown")
  /\ UNCHANGED <<kwsTap, crashed>>

SpotterStep(t) ==
  \/ LoadModels(t)
  \/ OpenSpotterTap(t)
  \/ StartSpotter(t)
  \/ TearDownAudio(t)
  \/ TearDownModels(t)

\* The tap feeds the detector and the spotter, and reports what they find,
\* whatever the state says.
CanDetect == kwsTap /\ kwsModels

\* The caller goes on.
Return(t) ==
  /\ At(t, Returned)
  /\ Go(t, "none")
  /\ UNCHANGED <<kwsState, kwsModels, kwsTap, crashed>>

-----------------------------------------------------------------------------
(* The service on its own, started and stopped again and again.            *)

spotterVars == <<kwsVars, crashed>>

SpotterNext ==
  \/ \E a \in Starts : CallStart(Start(a))
  \/ \E b \in Stops : CallStop(Stop(b))
  \/ \E t \in Threads : SpotterStep(t)
  \/ \E t \in Threads : Return(t)

SpotterSpec == SpotterInit /\ crashed = FALSE /\ [][SpotterNext]_spotterVars

\* When no call is under way, a spotter that says it listens has its tap and
\* its models, and one that says it is idle has no tap left behind.
SpotterWhole ==
  (\A t \in Threads : kwsCall[t] \notin Under) =>
    /\ kwsTap = (kwsState = "listening")
    /\ kwsState = "listening" => kwsModels

\* No call puts a second tap on the input bus, which would end the process.
NoDoubleTap == ~crashed

=============================================================================
