# VoxTV in TLA+

VoxTV is a macOS menu bar app. It listens for a spoken wake word, records what
is said after it, has it recognized, and sends the text to an Apple TV through
the `atvremote` tool; a small HTTP dashboard shows and controls the same thing.
This directory holds TLA+ models of its core logic, TLC instances of them, and
proofs of the most important properties.

Paths without a directory are under `src/Sources/Voxtv/`.

## 1. Inventory

| Component | State it keeps | Operations | What makes it correct |
|---|---|---|---|
| `WakePipeline` | `state`, `cooldownTask`, cached keywords; per recognition a timeout block and its `flag.fired` | `start`, `stop`, `handleWakeDetection`, `startRecognition`, the timeout block, the completion, `handleRecognitionResult/Error`, `startCooldown`, `restartKWS` | one outcome per wake; the words sent are those of that wake; it never gets stuck in a passing state; a stop stays a stop |
| `KeywordSpotterService` | `state`, engine and tap, `spotter`, `vad` | `start`, `stop`, `teardown`, the tap block, `processVADResults` | state, tap and models agree between calls; one tap per bus |
| `SpeechService` | engine, tap, `engineDidCleanup`, request, semaphore, task, `latestResult`, `bestPartialText`, `silenceTask` | `recognize`, the task's callbacks, silence timer, `finish`, `cancelRecognition`, `cleanupEngine` | a callback, a timer and a cleanup act on the recognition they belong to; `finish` always returns |
| `AppState` | the settings and their copies in `UserDefaults`, `kwsRunning`, the dashboard port, the settings window, the login item | `applyPort`, the `save...` functions, `startKWS`, `stopKWS`, `restartKWSIfRunning`, `openSettings`, `clearAllData` | what the menu shows is what runs; what was saved is applied |
| `VoxtvApp` (`App.swift`) | none of its own; wires all the others | `init`, the callbacks `onStateChange`, `onLog`, `onDetection` | order of the wiring; `kwsRunning` follows the pipeline |
| `DashboardServer` | `port`, `listenSocket`, `source`, the last detections | `start`, `stop`, `restart`, accept, `handle`, `route` and one handler per URL | it listens when it says so; every complete request is answered |
| `AppleTVBridge` | the device id | `findAtvremotePath`, `send` | `send` returns, and says whether the text was sent |
| `CommandDispatcher`, `TextNormalizer`, `PinyinTokenizer` | none | pure functions | a text that begins with a prefix is dispatched without it; normalising twice is normalising once |
| `LogStore` | the last entries, the day's file and its handle | `append`, `all`, `toJSON` | the entries are the latest; what is appended reaches the day's file |
| `PromptPlayer`, `FeedbackSpeaker` | a speech synthesizer | `playBeep`, `speak...` | no control of their own |
| `MenuBarView`, `SettingsView` | what is shown | buttons and fields | they call the operations above |
| `Resources/dashboard.html` | the globals `recognition`, `isRecognizing`, `hasResult`, `noSpeechTimeout`; the text field; the panel of the spotter | the clicks, the four handlers of the browser's recognizer, `updateStatus`, `updateLogs`, `updateKWS` | the button, and the timer, belong to the session that is active; a text is not lost |
| `SherpaOnnx`, `Libraries/`, `Resources/` | the native recognizer | vendored | external |
| `SparkleUpdater`, `scripts/`, `.github/` | none | update check, build | no logic of this app |

How they interact. The app has no thread of its own. A menu click runs on the
main thread and starts the pipeline on the global queue; a dashboard request
runs on a background queue and calls the pipeline, the spotter and the speech
service directly; a detection is queued by the audio tap on the global queue;
the recognition timeout, the end of the cooldown, the delayed restart and the
silence timer are blocks of the global queue; the recognizer's callbacks come
on a queue of its own. `WakePipeline`, `KeywordSpotterService` and
`SpeechService` are `@unchecked Sendable` classes without a lock, so all of
these interleave on plain fields.

Hard behaviours. The timeout of a recognition races its last callback; a stop
arrives in the middle of a wake; a callback arrives after `finish` gave up; a
start overlaps a start; an engine or a spotter fails to start half way; the
cleanup of one recognition runs when the next has begun; a speech test of the
dashboard uses the service while a wake does; a cancelled dispatch source runs
its cancel handler after a new socket is open; a setting exists in three places
that are written at different times; in the page, handlers and a timer of one
session find the globals of the next. `PROJECT.json` lists these hazards with
the line where each bites.

## 2. Plan

The order is that of importance: the wake pipeline first, then what controls
it, then the dashboard, then what is done with a text.

| # | Modules | Question | State |
|---|---|---|---|
| 1 | `KeywordSpotter`, `SpeechService`, `WakePipeline`, `WakeCycle` | one outcome per wake, from its own words; nothing stranded; the microphone | done, proofs done |
| 2 | `PipelineControl` | does the menu say what runs, does the saved word listen | done, proofs done |
| 3 | `DashboardSocket`, `HttpExchange` | does the server serve where it says; is a request handled whole | done, proofs done |
| 4 | `LogStore` | is a day's log in its file | done, proofs done |
| 5 | `TextRouting`, `AtvRemote`, `SendText` | what becomes of a text: normalized, dispatched, handed to a process with two pipes | done, proofs done |
| 6 | `DashboardSpeech` | the speech test of the dashboard, which shares the pipeline's service | done, proof done |
| 7 | `SettingsMirror` | the settings, their copies in `UserDefaults` and in the services, `clearAllData`, with the server of `DashboardSocket` | done, proofs done |
| 8 | `DashboardPage` | the page: one button, one timer and four globals for all sessions of the browser's recognizer | done, proofs done |

Abstract specifications: `WakeCycle` (done) for the pipeline; a log that is a
function from days to sequences for `LogStore`; a server that is on a port or
off for `DashboardSocket`.

Every invariant, action property and refinement that a run finds to hold is
also a theorem, but for `OutcomeOnce` beside a speech test. What would come next:
that one; `OwnWords` with an engine that fails; what of `MicHandoff` is left when the pipeline is
stopped; the abstract log and the abstract server, with the refinements.

## 3. Modules

How they are put together: `Activities` names the threads; `KeywordSpotter`
and `SpeechService` each extend it and can be read alone; `WakePipeline`
extends both and calls their steps; `PipelineControl` extends `WakePipeline`
and conjoins its actions with those of the settings and the menu.
`SendText` extends `TextRouting` and `AtvRemote` and is what `WakePipeline!Send` does
in one step, and what a request of the dashboard to send a text does.
`DashboardSpeech` extends `WakePipeline` with the requests of the dashboard that
use the same speech service, and `SettingsMirror` extends `DashboardSocket`.
`HttpExchange`, `DashboardPage` and `LogStore` stand alone: they share no state
with the pipeline. `MC...` modules only name model values and sets, and
`...Proofs` modules hold the theorems, one for each part that is proved about:
`KeywordSpotterProofs`, `WakePipelineProofs` and, on top of it, `WakeCycleProofs`
and `PipelineClientProofs` (who uses the pipeline: `PipelineControl` and
`DashboardSpeech`); `SettingsMirrorProofs` (with the server of `DashboardSocket`);
`DashboardPageProofs`; `DashboardRequestProofs` (`HttpExchange` and `SendText`);
`LogStoreProofs`. Operators under a comment "Faulty variant"
are plausible bugs in the operator that follows them: with the bug in its place
TLC finds a property violated, which shows that the property can fail.

**Activities.** The app's blocks and callbacks as threads: `Wake(s)` is the
handler of detection `s`, `Timer(s)` its recognition timeout, `Callback(s)` the
last callback of its recognizer, `Start(a)` and `Stop(b)` calls from outside.
The pause between two wakes runs on the thread of the handler that began it.
`Faults` is a constant set that says which rare behaviours of the environment
are allowed:

| Fault | What it allows |
|---|---|
| `race` | a block of a queue is overtaken: the timeout fires when `recognize` has not returned yet, the recognizer answers meanwhile or the block runs on after the completion cancelled it |
| `late` | `finish` gives up after five seconds while the recognizer has still not answered |
| `burst` | the tap reports a second detection before the first handler has stopped the spotter |
| `engine` | the speech engine does not start |
| `spotter` | the spotter's models, or its engine, fail |

Without a fault the corresponding guard orders events that are seconds apart;
for `burst` it is a guard the code does not have: `Detect` then asks for the state
`kwsListening`, where `processVADResults` (`KeywordSpotterService.swift:230-254`)
asks only for a spotter and a word. Between the two lies the time from the
detection's block to `spotter.stop()`.

**KeywordSpotter** (`KeywordSpotterService.swift`). `kwsState`, `kwsTap`,
`kwsModels` are the service's fields; `kwsCall[t]` is where thread `t` stands
inside `start` or `stop`. A step ends wherever another thread could see a
difference: at the guard, after the models, at `installTap`, after
`engine.start()`, and in `teardown` between the audio and the models. A second
`installTap` on a bus is an Objective-C exception, hence `crashed`.

**SpeechService** (`SpeechService.swift`). The fields of the service are
variables, and what belongs to a recognition (`task`, `speechCall`) is a
function on sessions, for callbacks of an old recognition still run when a new
one has begun. The words that were recognized are named by the session in which
they were said, so that `OwnWords` can tell them apart; the audio is not
modelled. That `finish` ignores the result of its wait is why one set of
signals is enough.

**WakePipeline** (`WakePipeline.swift`). `state` is the code's; `pc[t]` says
where a thread stands, with one value for each point at which the code can be
overtaken, but for one: in `transition()` the state is written and
`onStateChange` is called in one step here, since nothing in this module reads
what that tells; `PipelineControl` takes the two apart. Actions bear the names of the functions they belong to; every write
of `state` is one of theirs. `Quiet` is the explicit stutter of a pipeline that
has nothing to do, so that TLC checks for deadlock everywhere else.
`atvremote` succeeds or fails in one step (`Send`).

**WakeCycle** is what the pipeline promises while nobody stops it: it listens,
a wake is dealt with in exactly one way (something is sent or the wake comes to nothing),
it listens again or is in error. `WakePipeline!Cycle` is the refinement mapping.

**PipelineControl** (`AppState.swift`, `App.swift`, the menu and the settings).
`kwsRunning` is what the menu shows. It is written by blocks of the main queue
(`mainQueue` holds the values they will write) and by `stopKWS` at once. What a
thread does to the menu it does in two steps: the step that changes the state
only notes in `telling[t]` what the thread will put on the main queue, and a
`Tell(t)` of its own, which anything may overtake, puts it there. A transition
tells whether the pipeline listens, a stop tells false once more through its
log message, and a start of the menu tells true when `start()` has returned; it
does so by a task of the main actor, whose executor is the main queue, so that
all of these are blocks of one queue. A thread goes on only when it has told what
it had to (`Silent`). `misled` is history: the message that was queued last was
not true of the state at that moment, be it overtaken or, for a start that found
the pipeline busy or in error, untrue from the beginning. `MenuIsTrue` excepts
this case and no other; `StopIsShown` does not, and does not hold.

A start goes through the global queue (`block[a]`) with the word it was given,
a stop keeps the main thread busy (`MainFree`). `SaveWord` is one keystroke in
the field of the wake word. A word stands for word and threshold together: the
two are saved by functions of the same form. `Remote` names the starts and stops that
the dashboard makes, on threads of its own and without asking what the menu
shows; its stop stops the pipeline and then the spotter once more. Its start
of a bare spotter, for an app without a pipeline, is left out.

**DashboardSocket** (`DashboardServer.start/stop/restart`,
`AppState.applyPort`). `main` is where the main thread stands in `stop` and
`start`, which follow each other at once; `cancelled` holds the sources whose
cancel handlers have yet to run on `socketQueue`, at any time, and `closing` says
that one is between its two statements. A handler closes and forgets the socket
that `listenSocket` names at that moment. `struck` is history: the sockets that
the handler of another source hit, before or after they were bound. The
properties except these sockets and no others, and `RestartServes`, which does
not, does not hold. Sockets are numbered, not file descriptors: the model does
not say what happens when the number of a closed descriptor is used again, nor
what the system does with a source on a descriptor that was closed.

**SettingsMirror** (`AppState.init`, the `save...` functions, `applyPort`,
`clearAllData`, the wiring in `VoxtvApp.init`). Each setting exists as `AppState`
shows it (`shown`), in `UserDefaults` (`saved`) and, for most, as a copy that the
pipeline or the bridge got at launch (`copy`). `Used` says which of these a wake
takes: `LiveKeys` (prompt type and text, feedback) are looked up when they are
needed, with the copy as a fallback; the sound of the beep (`LookedKeys`) is
looked up with a literal as a fallback; the two durations and the device id
(`CopiedKeys`) are the copy. `Relaunch` may come at any moment, ends all sockets,
and starts a server that was made with the default port, whatever port was
saved. `bundled` says whether the app has a bundle identifier: one that is started
by `swift run` has none, and then clearing all data empties `UserDefaults` of
nothing. `changed`, `moved` and `cleared` are history: the properties name with
them the cases in which the code uses something else than it shows.

**DashboardSpeech** (`handleSpeechStart`, `handleSpeechStop`). `Tests` are the
sessions that a start request begins; they go through the steps of
`SpeechService` like those of a wake, but their completion only prints. A stop
request calls `finish()` whatever is going on (`AskTestStop`, `TestStopped`). The
start request is answered before its task has asked for the permissions, so
that `TestRecognizes` may begin at any moment. What the stop request answers
with is not modelled.

**DashboardPage** (the script of `Resources/dashboard.html`). The browser is
external: `phase[r]` is how far it is with session `r`, and it calls the handlers
in the order of the Web Speech API. The four globals are the page's, and so is
the timer; `timers` holds the sessions whose timer is set, of which
`clearTimeout` only knows the last. `Impatient` says whether the user clicks on
start before the last session ended, which the page does not prevent. A user may
type at any moment; the answer to a text empties the field, whatever it holds by
then, and no property says otherwise. Words and layout are left out, and
so are the log list and the spotter's panel, which shows what it asked for.

**HttpExchange** (`DashboardServer.handle`). A request is a set of byte
positions; `inside` holds those that are followed by another byte of the same
character. A piece that does not decode adds nothing to the body, which is what
the code's `?? ""` does, and ends the exchange if it is the first. A header
that was cut counts as one without `Content-Length`; a cut within the digits
of the length is not modelled. The buffer has 8 bytes here for 8192.

**LogStore** (`LogStore.swift`). An actor, so `append` with its file and its
cleanup is one step. Days are numbers, `cleared` holds those on which all data was cleared; a file is removed as the code compares
dates, so that on the last day it may or may not go, by the hour at which it was
created. The entry's time and the day of the file are taken together: a
midnight between the two is not modelled. `AppendUnwritten` is an append whose
entry is not encoded or whose file is not opened, which `append` does not say.
`clearAllData` is the one step from outside the actor. `launched` and `lost` are
history: how much was appended before the launch, and what was never written.

**TextRouting** (`TextNormalizer.swift`, `CommandDispatcher.swift`). Operators on
sequences of characters, of which only spaces, line breaks, marks of punctuation
and the characters of the search prefixes are told apart. The loop that takes
marks and blanks off the end is modelled by what is left when it ends; it ends
at a line break, which is why `OneLine` is asked for in two properties. The loop
that makes two spaces one is modelled likewise: the characters at the places that
are the first or do not follow a space with a space, in their order (`Kept`).
`Rank` and `Place` count the places of a set; with them nothing here is recursive.

**AtvRemote** (`AppleTVBridge.send`). The process writes to two pipes of a
limited capacity and exits when it has written all; `send` reads them after it has
exited. `FindPath` stands for the whole search, which finds the tool or does
not. The tool is external: it writes what it likes up to `MaxOutput` and exits when all
is written. One that fills a pipe waits for a reader, and `send`, which has no
timeout (`AppleTVBridge.swift:81`), for the tool: in such a state (`Clogged`) the
sender never has an answer, and the behaviour ends. So would one with a tool that
hangs. No property says that `send` returns.

**SendText**. A text said (`pipeline`) or typed (`dashboard`), from the
recognizer or the request to the answer. Each sender has a process of its own
and they share nothing, so there is one here.

## 4. Runs

All runs end within minutes on two workers.

| Run | Instance | What it shows |
|---|---|---|
| `cycle` | three wakes, one start; the spotter may fail | six invariants: `TypeOK`, `OwnSilence`, `MicHandoff`, `ListeningIsTrue`, `NoDoubleTap`, `SpotterWhole`; and that the pipeline implements `WakeCycle` |
| `stops` | two wakes, one start, a stop at any moment; the spotter may fail | what holds with and without a stop: `OutcomeOnce`, `OwnWords`, `KeepsEngine`; and `Settles`, that every wake comes to an end |
| `races` | one wake, a stop, late, race and engine faults | the inductive invariant `IInv`, of which `NeverStranded` is a part |
| `clicks` | a start and a stop by the menu, one of each by the dashboard, a word saved, no wake | at rest the menu is right, unless the message queued last was untrue |
| `menu` | a wake, one start, one stop | the same while the pipeline changes state by itself |
| `speech` | a wake, a speech test, one start; `finish` may give up | `NeverStranded`, `OutcomeOnce`; and `TestStopReturns`, that a stop request is answered |
| `settings` | a setting of each kind with two values, two saves, with and without a bundle; two ports, one of which may be taken, three sockets; cancel handlers that run whenever they do; launches and clears at any moment | `ShownIsKept`, `WakeUsesShown`, `AppliedPortServes`, `ServesWhenRunning`, `NothingLeaks` |
| `page` | three sessions, a patient user | `ButtonIsTrue`, `OwnTimeout`; and `TalkEnds`, that a session ends |
| `pieces` | ASCII requests up to three buffers; short ones with characters of three bytes; the client may leave | the body is whole, the answer comes, the handler ends |
| `days` | five days, five entries, relaunches, failed writes, data cleared | the latest entries are in memory, as many as there should be, and each day's in its file |
| `short` | all 1555 texts of up to four characters out of six, either sender; a tool that writes up to twice what a pipe holds | what is sent is plain and whole, an answer is true |
| `undone_stop` | two wakes, a stop | a disagreement, see section 7 |

Why the bounds are enough. Two wakes are the least for which something of one
wake can meet something of the next; a third one meets what the second did not
clean up, which is what `engineDidCleanup` is for. The service has one field of
each kind, so that no more than the last recognition can be met. Wakes are
interchangeable in `cycle`, which has no temporal property but the steps of
`WakeCycle`, and so TLC uses their symmetry there and nowhere else. One stop is enough for "a
stop at any moment". Two ports are the old one and the new one, which may be
taken; three sockets let a restart follow a restart that failed, with the handlers
of two sources still to run. Two saves change a setting and change it back, or change two; what a setting
holds at the first launch is any value or none, as an earlier run may have left
it. A test next to a wake is the least for which two recognitions share the
service; three sessions of the page are one that ends, one that is stopped and
one that comes after both. Five days are
more than twice the age limit used (two days for the code's seven); five
entries overflow a memory of two. A request of 20 bytes needs three reads of 8.
Four characters hold a prefix of two, a space and a word, or a word and marks
and spaces in every order.
Two starts and two stops, half of them from the dashboard, have a million states
as it is; words are saved, and the dashboard comes in, in the run without a wake
only.

What the passing runs leave out is in the constants they give, above all in
`Faults`. With more, the same invariants fail, and these are facts about the
code: with `race` or `engine`, `OutcomeOnce` (a timeout that has begun and the
last callback both go on); with `late`, `OwnWords`, `OwnSilence`, `KeepsEngine` and
`MicHandoff`, since an old callback finds the fields of the next recognition;
with a speech test beside a wake, `OwnWords`, `KeepsEngine`, `MicHandoff` and
`NoDoubleTap`; with stops, `MicHandoff`, `ListeningIsTrue`, `NoDoubleTap` and `SpotterWhole`,
since a stop during a restart finds the spotter idle; with `burst`, `OwnWords`,
`NoDoubleTap` and `SpotterWhole`.
`RefinesWakeCycle` is meant for a pipeline nobody stops: that a stop is obeyed
is a property of its own (`OnlyStartLeavesIdle`).

## 5. Fairness

`FairSpec` of `WakePipeline` asks for weak fairness of each step that a block
or a thread has begun or that was handed to libdispatch, which runs every block
it was given; of `atvremote` returning (`Handle`); and of the recognizer
answering a request whose audio has ended (`endAudio` was called), by a final
result or an error. Nothing is asked of a detection, a partial result, the
silence timer, a start or a stop: these may never come, and then the timeout
must be enough. `HttpFairSpec` asks that a handler goes on, as every connection
has a thread of its own, and that what a client has sent arrives; nothing says
that a client leaves. `DashSpec` adds to the fairness of the pipeline that a
recognition a test has begun goes on, that the recognizer answers it when its
audio has ended, and that `finish` returns from a wait that is limited; nothing
says that a test or a stop request comes. `PageSpec` asks that a timer that was
set fires, that the browser begins a session or reports an error, and that it
ends one that was stopped, has failed or has heard something. `SendSpec` asks for nothing.

## 6. Proofs

`tlapm` checks all of them for every value of the constants.

**KeywordSpotterProofs.** `SpotterStaysWhole`: the spotter, used by one start and
one stop at a time (`OneOfEach`), is whole between calls and never installs a
second tap. The invariant `Shape` says that at most one call is past its guard,
and for each place of it what exists of tap and models.

**WakePipelineProofs.** `PipelineTyped`, `NothingStranded` and `SpecIInv`: `TypeOK`,
`NeverStranded` and their conjunction `IInv` for any wakes, starts, stops and
**every** set of faults. `NeverStranded` says that a pipeline in a passing state
has a committed thread, one that has yet to write the state. It is not inductive
by itself: a timeout that is cancelled was committed, so the one who cancels
must be; a wake must not find its timeout used up; a task must not answer twice;
and a sender must have a text, or it would return without writing the state.
`Strengthening` says these four things. The proof has one lemma for each
conjunct, with one step for each action. `OneOutcome`: `OutcomeOnce`, when `Faults`
holds neither `race` nor `engine` (`Orderly`). `Sole` says which of a wake's three
threads may be where: the timeout past its flag, the callback past it, or the
failure of `recognize`, excluding each other through `fired` and `task`. Stops,
bursts and late answers are allowed, and so is any number of starts.

**WakeCycleProofs.** Nine theorems about wakes that follow each other, for any
number of them, in three groups by what they ask for.
- `WordsAreOwn`, `SilenceIsOwn`, `EngineIsKept` (`OwnWords`, `OwnSilence`,
  `KeepsEngine`) hold when only the spotter may fail (`Calm`) and a start overlaps
  neither another start nor a wake (`StartsApart`), with stops at any moment. The
  invariant `Known` adds to `IInv` and `Sole` the three parts of `Serial`: where the
  three threads of a wake may be together (`Places`), that one wake at a time is
  `Busy` (`OneAtATime`), and that the fields of the speech service are those of the
  wake that is using it (`EngineOwned`).
- `SingleStartApart`: the pipeline that is started once, which is what `cycle` and
  `stops` check, satisfies `StartsApart`. It is the one hypothesis that is about a
  behaviour; the code does not grant it, as section 7 says.
- `MicIsHandedOver`, `ListeningIsKept`, `TapsAreSingle`, `SpotterIsWhole` and
  `PipelineRefinesWakeCycle` ask in addition that nobody stops the pipeline
  (`NoStops`). `Served` says where the one call of the spotter is and what exists
  of its tap at that place, and what the state says of the wakes. For the
  refinement `Mapped` says that the wake without an outcome, as `WakeCycle` sees
  it, is at most one; then each action is shown to be a step of `WakeCycle` or a
  stutter under the mapping `Cycle`.

**PipelineClientProofs.** `TestsStrandNothing`: `NeverStranded` with any speech
tests of the dashboard. `IInv` is an invariant of `DashSpec` as well: a test writes
only the speech service, and the one clause about tasks and callbacks
(`Strengthening`) survives because a recognition has its task once.
`ControlStrandsNothing` and `ControlTyped`: the same under the menu, the settings
and the dashboard, for every step of `PipelineControl` is one of the pipeline or,
for the dashboard's second stop, one of the spotter alone (`ControlSteps`).
`MenuShowsState`: `MenuIsTrue`, for any clicks, words, requests, wakes and faults and
without a hypothesis. The invariant `MenuInv` is about `LastTold`, what the menu
will show when the main queue has run out of blocks, for a block that was queued
later wins: it is the truth when all threads are silent, unless `misled`; and what a
stop writes at once is overruled by a message of that stop. `StepsTransit` shows that every step that changes the
state leaves its thread with something to tell, and `LastOfQueue` what the next
message does to `LastTold`.

**SettingsMirrorProofs.** `ServerServes` and `SocketsAreClosed` (`ServesWhenRunning`,
`NothingLeaks`) for the server alone, whenever the cancel handlers run. `Places` says
what there is of a server at each place of the main thread, up to what was hit;
`Held` that `listenSocket` names an open socket unless that was hit; `Handlers` that
a handler which closes the socket of the server closes another source's, but for
the moment in which `stop` has yet to close it, and that nothing else is open;
`Numbered` that sockets are made in their order, so that the newest is not one of
those before it. A socket that was hit is in `struck`, and only the types say
anything of it.
`ShownStaysKept` and `SettingsAgree` (`ShownIsKept`, `WakeUsesShown`) are inductive
with the types. `PortIsServed` (`AppliedPortServes`): `PortFollows` says from which
step of a restart on the server has the port that was applied. `SettingsTypeKept`
carries the types over settings and launches; a launch restores the invariant of
the server (`NextServerInv`). None of them has a hypothesis.

**DashboardPageProofs.** `ButtonStaysTrue`, `TimersStopTheirOwn` and `PageTyped`, for a
user who waits (`Patient`). `OneTalk` says that one session at a time is under way,
owns `recognition` from the click on, and has the only timer.

**DashboardRequestProofs.** `BodyIsWhole` (`WholeBody`) for requests of any size and
any buffer, when the pieces are what the server counts on (`WholePieces`): the
first one holds the header, none ends within a character, and a request with
longer characters fits the buffer. `HttpInv` says that what was taken is a prefix
that ends where a character does. `AnswersAreTrue` (`AnswerIsTrue`) for any tool and
any capacity. `TextsArePlain` and `SaidTextsAreSent` (`SentIsPlain`, `SaidIsSent`) for
texts of **any length** and any characters; `RouteInv` only says which of the
operators of `TextRouting` were applied, and the rest is lemmas about those.
No induction over texts is needed, as every operator picks characters by their
places: `Ranks`, `Places` and `PlacesInOrder` say that the places of a set are
counted in order and without gaps, and `Enumerated` that whatever runs through
them in order is `Place`. On these rest what trimming, taking marks off and single
spacing leave (`TrimmedIs`, `WithoutMarksIs`, `SingleSpacedIs`), that two texts have
the same words if an increasing map takes the words of the one to those of the
other (`SameWords`), that the search prefix found in the normalized text is the
longest one the text began with before (`SamePrefixes`, `CommandIs`), and that what
is behind it has the other words (`BehindPrefix`).

**LogStoreProofs.** `MemoryIsLatest`, `DaysAreOnFile` and `LogTyped` (`LatestInMemory`,
`DayIsOnFile`, `LogTypeOK`), for any limits and any number of appends, days and
launches. `LatestInMemory` gives the exact number of entries, `Kept` of those since
the launch, and which they are; the lemma `LastOfProperties` is about the tail of a
sequence, and `RememberKeepsLatest` about one append. `DayIsOnFile` says of a day's
file that it holds entries of that day only, in order (`InOrder`), and each that
was appended on it and could be written (`AppendedOn`); it is stated so, and not as
a filtered sequence, since a recursive filter cannot be reasoned about here.
`OpenFileIsThere` is needed for the types: an entry is never appended to a file
that does not exist. `HandleServes` says that the open file is of no later day, and
that today's can be written unless data was cleared; `FailureKeepsFiles` that an
append which fails takes nothing from the files.

Assumptions on constants are the named `ASSUME`s of the modules; they hold of
every instance. The hypotheses `OneOfEach`, `Orderly`, `Calm`, `StartsApart`,
`NoStops`, `Patient` and `WholePieces` are not granted by the code; the runs are instances of them, and sections 4 and 7 say
what happens without each.

Model-checked only is liveness (`Settles`, `TestStopReturns`, `TalkEnds`, `Answered`,
`HandlerEnds`), which is beyond the prover. `OnlyStartLeavesIdle`
does not hold.

## 7. Where code and documents disagree

One run has a property that TLC finds violated by what the code does.

| Run | Property | What happens |
|---|---|---|
| `undone_stop` | `OnlyStartLeavesIdle` | a stop while a wake is handled is overwritten; the pipeline listens again |

Others are seen when a run's constants are changed:

| Change | Property | What happens |
|---|---|---|
| `cycle` with `Faults = {"engine"}` | `NoDoubleTap` | a speech engine that did not start leaves its tap; the next wake installs a second one, which ends the app |
| `cycle` with two starts | `NoDoubleTap` | two overlapping starts pass both guards and install two taps |
| `cycle` with fairness (`FairSpec`) and no symmetry | `ListensAgain` | one failed restart of the spotter is final |
| `clicks` | `StopIsShown` | a start and a stop of the dashboard cross: the start writes kwsListening (`WakePipeline.swift:243`), the stop writes idle and tells the menu, then the start tells it (`App.swift:107`), and a stopped pipeline is shown as running ("If pipeline stopped for any reason, sync state", `App.swift:113`) |
| `menu` with two starts, no stop, `Faults = {"spotter"}` and no `~misled` in `MenuIsTrue` | `MenuIsTrue` | a start in the state error does nothing and is shown as running |
| `cycle` with `Faults = {"burst"}` | `NoDoubleTap` | the wake word said twice in one breath gives two detections; `handleWakeDetection` does not look at the state, and the second recognition installs a second tap, which ends the app |
| `menu` without wakes, with two starts, `MaxSaves = 2` | `SavedWordListens` | `saveWakeWord` is called for each keystroke (`SettingsView.swift:128`); the pipeline restarts for the first one, and `restartKWSIfRunning` finds `kwsRunning` false for the next ones |
| `speech` | `OwnWords`, `KeepsEngine`, `MicHandoff`, `NoDoubleTap` | a test and a wake share the fields of one service |
| `settings` | `RestartServes` | a cancel handler that runs after the next `start()` closes the new socket; `testRestart` expects that the new port answers after a restart (`src/Tests/VoxtvTests/DashboardServerTests.swift:97-108`) |
| `settings` | `AddressIsTrue` | a port that was saved is shown at the next launch, but the default one is used; clearing data has the same effect. The settings call it the current address (`SettingsView.swift:206`) |
| `settings` | `ClearedIsInitial` | after data was cleared the pipeline and the bridge still use their copies; the settings say that the app will be in its initial state (`SettingsView.swift:262`) |
| `page` with `Impatient = TRUE` | `ButtonIsTrue`, `OwnTimeout`, `TalkEnds` | a second click before `onstart`, for example while the browser asks for permission, begins a second session: the stop button then reaches the wrong one or none, and a session is never timed out |
| `page` | `CardIsTrue` | the card loses its mark within two seconds, since `/api/status` always reports idle |
| `pieces` with a body beyond the buffer and characters of three bytes | `Answered` | a piece that ends within a character counts as empty, and the handler waits for bytes that nobody sends |
| `pieces` with `SplitHeader` | `WholeBody` | a header that comes in two pieces is handled with the wrong body |
| `pieces` | `SurvivesClients` | the second write to a client that has left raises SIGPIPE |
| `short` without `OneLine` | `SentIsPlain` | marks that are parted by a line break are not all taken off |
| `days` without `\ cleared` in `DayIsOnFile` | `DayIsOnFile` | after data was cleared, that day's log goes to a file without a name |

## 8. Not modelled

The signal processing and the recognizers (external); `PinyinTokenizer`, a
conversion by a system transform whose result only the native spotter reads;
sound output, layout, the settings window, the login item and the updater, which
have no state that another part reads; build scripts. `Libraries/` holds the C
headers of two vendored native libraries, and no code of the app. In
`WakePipeline` the branch for a missing `SpeechService` is left out, since the app
always passes one, and so is `SpeechService.cancelRecognition`, which nobody
calls. The dashboard's list of detections stays empty while there is a pipeline
(`WakePipeline.swift:60`), and the read-only responses have no state.
