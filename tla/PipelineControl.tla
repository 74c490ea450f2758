--------------------------- MODULE PipelineControl --------------------------
(***************************************************************************)
(* AppState, the menu and the settings, in control of the wake pipeline.   *)
(* kwsRunning is what the menu shows: it is written on the main thread, by *)
(* a stop at once and by blocks that the pipeline's state changes and the  *)
(* starts put on the main queue.  A thread that changed the state has yet  *)
(* to put its block there, and others may come in between.  Starts run on  *)
(* the global queue, stops on the main thread; the dashboard starts and    *)
(* stops the pipeline from threads of its own.  A word stands for a wake   *)
(* word with its threshold.                                                *)
(***************************************************************************)
EXTENDS WakePipeline, Naturals

CONSTANTS
  Words,     \* the wake words that may be saved
  FirstWord, \* the one in the settings at launch
  MaxSaves,  \* how many words are saved
  Remote     \* the starts and stops that the dashboard makes

ASSUME WordsAssumption ==
  /\ FirstWord \in Words
  /\ MaxSaves \in Nat
  /\ Remote \subseteq Starts \cup Stops

VARIABLES
  kwsRunning,  \* what the menu shows
  wakeWord,    \* what the settings show
  saves,       \* how many words were saved
  mainQueue,   \* the values blocks of the main queue will give kwsRunning
  telling,     \* telling[t]: those thread t has yet to put on the main queue
  misled,      \* history: the one queued last was not true of the state then
  block,       \* block[a]: the block of the global queue that makes start a
  after,       \* after[b]: the start that is to follow stop b, or Nil
  callWord,    \* callWord[t]: the word t passes to the spotter
  afterStop,   \* afterStop[b]: how far the caller of stop b is behind it
  cachedWord,  \* cachedKeywordsBuf of the pipeline
  kwsWord      \* the word the models were loaded with

menuVars == <<kwsRunning, mainQueue, telling, misled>>
wordVars == <<wakeWord, saves, cachedWord, kwsWord>>
controlVars == <<menuVars, wordVars, block, after, callWord, afterStop>>
allVars == <<vars, controlVars>>

ControlTypeOK ==
  /\ kwsRunning \in BOOLEAN
  /\ wakeWord \in Words
  /\ saves \in 0..MaxSaves
  /\ mainQueue \in Seq(BOOLEAN)
  /\ telling \in [Threads -> Seq(BOOLEAN)]
  /\ misled \in BOOLEAN
  /\ block \in [Starts -> {"none", "planned", "queued", "begun", "done"}]
  /\ after \in [Stops -> Starts \cup {Nil}]
  /\ callWord \in [Threads -> Words]
  /\ afterStop \in [Stops -> {"none", "called", "done"}]
  /\ cachedWord \in Words
  /\ kwsWord \in Words

ControlInit ==
  /\ Init
  /\ kwsRunning = FALSE
  /\ wakeWord = FirstWord
  /\ saves = 0
  /\ mainQueue = <<>>
  /\ telling = [t \in Threads |-> <<>>]
  /\ misled = FALSE
  /\ block = [a \in Starts |-> "none"]
  /\ after = [b \in Stops |-> Nil]
  /\ callWord = [t \in Threads |-> FirstWord]
  /\ afterStop = [b \in Stops |-> "none"]
  /\ cachedWord = FirstWord
  /\ kwsWord = FirstWord

-----------------------------------------------------------------------------
(* The main queue.                                                         *)

\* The thread t, having changed the state, has messages to put on the queue.
WillTell(t, messages) == telling' = [telling EXCEPT ![t] = @ \o messages]

Silent(t) == telling[t] = <<>>

\* DispatchQueue.main.async, or a task of the main actor.
Tell(t) ==
  /\ ~crashed
  /\ ~Silent(t)
  /\ mainQueue' = Append(mainQueue, Head(telling[t]))
  /\ telling' = [telling EXCEPT ![t] = Tail(@)]
  /\ misled' = (Head(telling[t]) # (state = "kwsListening"))
  /\ UNCHANGED <<vars, wordVars, kwsRunning, block, after, callWord, afterStop>>

\* The main thread does one thing at a time, and a stop keeps it busy until it
\* has returned.
MainFree ==
  /\ ~crashed
  /\ \A b \in Stops \ Remote : pc[Stop(b)] = "none" \/ afterStop[b] = "done"

\* A block of the main queue.
SyncRunning ==
  /\ MainFree
  /\ mainQueue # <<>>
  /\ kwsRunning' = Head(mainQueue)
  /\ mainQueue' = Tail(mainQueue)
  /\ UNCHANGED <<vars, wordVars, telling, misled, block, after, callWord,
                 afterStop>>

-----------------------------------------------------------------------------
(* The menu and the settings, on the main thread.                          *)

Enqueue(a, word) ==
  /\ block' = [block EXCEPT ![a] = "queued"]
  /\ callWord' = [callWord EXCEPT ![Start(a)] = word]

\* The menu says start when kwsRunning is false, and stop when it is true.
ClickStart(a) ==
  /\ MainFree
  /\ ~kwsRunning
  /\ a \notin Remote
  /\ block[a] = "none"
  /\ Enqueue(a, wakeWord)
  /\ UNCHANGED <<vars, menuVars, wordVars, after, afterStop>>

ClickStop(b) ==
  /\ MainFree
  /\ kwsRunning
  /\ b \notin Remote
  /\ UserStop(Stop(b))
  /\ UNCHANGED controlVars

\* Faulty variant: an empty word is saved, too.
SaveAnyWord(w) ==
  /\ MainFree
  /\ saves < MaxSaves
  /\ saves' = saves + 1
  /\ wakeWord' \in {w, Empty}
  /\ ~kwsRunning
  /\ UNCHANGED <<vars, menuVars, cachedWord, kwsWord, block, after, callWord,
                 afterStop>>

\* Saving a word (each keystroke in its field does, unless nothing is left of
\* it) stops a pipeline that the menu shows as running, to start it again later.
SaveWord(w) ==
  /\ MainFree
  /\ saves < MaxSaves
  /\ saves' = saves + 1
  /\ wakeWord' = w
  /\ IF kwsRunning
     THEN \E b \in Stops \ Remote, a \in Starts \ Remote :
            /\ block[a] = "none"
            /\ UserStop(Stop(b))
            /\ after' = [after EXCEPT ![b] = a]
            /\ block' = [block EXCEPT ![a] = "planned"]
     ELSE UNCHANGED <<vars, after, block>>
  /\ UNCHANGED <<menuVars, cachedWord, kwsWord, callWord, afterStop>>

\* Faulty variant: the pipeline does not report that it stopped.
StoppedUnreported(b) ==
  /\ UserStopped(Stop(b))
  /\ UNCHANGED controlVars

\* The pipeline is idle, for the menu or the dashboard.  Its change of state and
\* its log message will both put a block on the main queue.
Stopped(b) ==
  /\ UserStopped(Stop(b))
  /\ WillTell(Stop(b), <<FALSE, FALSE>>)
  /\ UNCHANGED <<wordVars, kwsRunning, mainQueue, misled, block, after, callWord,
                 afterStop>>

\* pipeline.stop() returns to stopKWS(); the start that is to follow takes the
\* word saved now.
StopReturns(b) ==
  /\ ~crashed
  /\ b \notin Remote
  /\ pc[Stop(b)] = "left" /\ Silent(Stop(b))
  /\ afterStop[b] = "none"
  /\ afterStop' = [afterStop EXCEPT ![b] = "done"]
  /\ kwsRunning' = FALSE
  /\ IF after[b] \in Starts
     THEN Enqueue(after[b], wakeWord)
     ELSE UNCHANGED <<block, callWord>>
  /\ UNCHANGED <<vars, wordVars, mainQueue, telling, misled, after>>

-----------------------------------------------------------------------------
(* The global queue.                                                       *)

\* When start() has returned, the menu is told so; the dashboard answers.
LastWord(a) == IF a \in Remote THEN <<>> ELSE <<TRUE>>

\* The block calls start(), which returns without an error when the pipeline
\* is not idle.
BlockStarts(a) ==
  /\ block[a] = "queued"
  /\ UserStart(Start(a))
  /\ IF state = "idle"
     THEN /\ cachedWord' = callWord[Start(a)]
          /\ block' = [block EXCEPT ![a] = "begun"]
          /\ UNCHANGED telling
     ELSE /\ block' = [block EXCEPT ![a] = "done"]
          /\ WillTell(Start(a), LastWord(a))
          /\ UNCHANGED cachedWord
  /\ UNCHANGED <<kwsRunning, mainQueue, misled, wakeWord, saves, kwsWord, after,
                 callWord, afterStop>>

\* start() tells its change of state, and returns or throws.
BlockStarted(a) ==
  /\ UserStarted(Start(a))
  /\ block' = [block EXCEPT ![a] = "done"]
  /\ WillTell(Start(a),
              IF kwsCall[Start(a)] = "ok" THEN <<TRUE>> \o LastWord(a) ELSE <<>>)
  /\ UNCHANGED <<wordVars, kwsRunning, mainQueue, misled, after, callWord,
                 afterStop>>

-----------------------------------------------------------------------------
(* The dashboard, on its threads.                                          *)

\* A request to start, for the word that came with it, or the task that asked
\* for the microphone first.
DashboardStart(a, w) ==
  /\ ~crashed
  /\ a \in Remote
  /\ block[a] = "none"
  /\ Enqueue(a, w)
  /\ UNCHANGED <<vars, menuVars, wordVars, after, afterStop>>

\* A request to stop stops the pipeline, and then the spotter once more.
DashboardStop(b) ==
  /\ b \in Remote
  /\ UserStop(Stop(b))
  /\ UNCHANGED controlVars

DashboardStopsSpotter(b) ==
  /\ ~crashed
  /\ b \in Remote
  /\ pc[Stop(b)] = "left" /\ Silent(Stop(b))
  /\ \/ /\ afterStop[b] = "none"
        /\ afterStop' = [afterStop EXCEPT ![b] = "called"]
        /\ CallStop(Stop(b))
     \/ /\ afterStop[b] = "called"
        /\ afterStop' = [afterStop EXCEPT ![b] = "done"]
        /\ Return(Stop(b))
  /\ UNCHANGED <<speechVars, pipeVars, menuVars, wordVars, block, after,
                 callWord>>

-----------------------------------------------------------------------------
(* The pipeline.                                                           *)

\* A step of thread t.  The recognizer calls one callback after the other.
ThreadStep(t) ==
  \/ Handle(t)
  \/ \E s \in Sessions :
       \/ t = Wake(s) /\ (Detect(s) \/ WakeStep(s))
       \/ t = Timer(s) /\ (TimerBegins(s) \/ TimerStep(s))
       \/ /\ t = Callback(s)
          /\ \A r \in Sessions : Silent(Callback(r))
          /\ GetPartial(s) \/ Answer(s)

\* Faulty variant: the restart does not go through transition().
TransitsButRestart(t) ==
  pc'[t] # pc[t] /\ pc'[t] \in {"stopKws", "recognize", "sending", "spoken",
                               "cooling"}

\* The step has called transition(), which writes the state even when it has
\* that value already: every step that leads to one of these places, and the
\* one that ends the restart.
Transits(t) ==
  /\ pc'[t] # pc[t]
  /\ \/ pc'[t] \in {"stopKws", "recognize", "sending", "spoken", "cooling"}
     \/ pc[t] = "restarting"

\* A step of a wake or a call of the spotter, by a thread that has told all it
\* had to; onStateChange will be told of every transition.
PipelineRuns ==
  /\ \/ EndOfSilence /\ UNCHANGED telling
     \/ \E t \in Threads :
          /\ Silent(t)
          /\ ThreadStep(t)
          /\ WillTell(t, IF Transits(t) THEN <<state' = "kwsListening">>
                         ELSE <<>>)
  /\ callWord' = [t \in Threads |->
       IF pc[t] = "restart" /\ pc'[t] = "restarting" THEN cachedWord
       ELSE callWord[t]]
  /\ kwsWord' = IF \E t \in Threads : LoadModels(t)
                THEN callWord[CHOOSE t \in Threads :
                                kwsCall[t] = "load" /\ kwsCall'[t] # "load"]
                ELSE kwsWord
  /\ UNCHANGED <<kwsRunning, mainQueue, misled, wakeWord, saves, cachedWord,
                 block, after, afterStop>>

\* Nothing is under way that will go on by itself.
AtRest ==
  /\ mainQueue = <<>>
  /\ \A t \in Threads : pc[t] \in {"none", "left", "done"} /\ Silent(t)
  /\ \A a \in Starts : block[a] \in {"none", "done"}
  /\ \A b \in Stops : pc[Stop(b)] = "left" => afterStop[b] = "done"

Rests == (crashed \/ AtRest) /\ UNCHANGED allVars

ControlNext ==
  \/ \E a \in Starts : ClickStart(a) \/ BlockStarts(a) \/ BlockStarted(a)
  \/ \E b \in Stops : ClickStop(b) \/ Stopped(b) \/ StopReturns(b)
  \/ \E a \in Starts, w \in Words : DashboardStart(a, w)
  \/ \E b \in Stops : DashboardStop(b) \/ DashboardStopsSpotter(b)
  \/ \E w \in Words : SaveWord(w)
  \/ \E t \in Threads : Tell(t)
  \/ SyncRunning
  \/ PipelineRuns
  \/ Rests

ControlSpec == ControlInit /\ [][ControlNext]_allVars

-----------------------------------------------------------------------------
\* When everything has come to rest, the menu shows whether the pipeline
\* listens, unless the message that was queued last was overtaken: every
\* transition is told, and what a stop writes directly, or a message still in
\* the queue, never undoes what was told later.
MenuIsTrue == AtRest /\ ~misled => kwsRunning = (state = "kwsListening")

\* When everything has come to rest, the menu does not show a pipeline as
\* running that was stopped ("If pipeline stopped for any reason, sync state"),
\* whoever came between a change of state and its message.
StopIsShown == AtRest /\ state = "idle" => ~kwsRunning

\* When everything has come to rest, a pipeline that listens does so for the
\* word that was saved last.
SavedWordListens == AtRest /\ state = "kwsListening" => kwsWord = wakeWord

=============================================================================
