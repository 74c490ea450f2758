----------------------------- MODULE Activities -----------------------------
(***************************************************************************)
(* The threads of the VoxTV process.  The app has no thread of its own: it *)
(* runs in blocks that libdispatch, the audio engine and the speech        *)
(* recognizer call, and several of them can be under way at once.  An      *)
(* activity is one such block, with the calls it makes:                    *)
(*   Wake(s)      the handler of one detected wake word,                   *)
(*   Timer(s)     the recognition timeout that handler arms,               *)
(*   Callback(s)  the last callback of the recognition task it creates,    *)
(*   Start(a)     a start of the pipeline, asked for by the menu, the      *)
(*                settings, the dashboard or the launch of the app,        *)
(*   Stop(b)      a stop of it.                                            *)
(* A session is one wake: its handler, its timeout and its task.           *)
(***************************************************************************)

CONSTANTS
  Sessions,  \* the wakes that may happen
  Starts,    \* the starts that may be asked for
  Stops,     \* the stops that may be asked for
  Faults,    \* the hazards of the environment that may occur
  Nil,       \* no session, no activity, no result
  Empty      \* the empty text

(***************************************************************************)
(* What the environment may do beyond the ordinary:                        *)
(*   "burst"   a second detection before the first has stopped the spotter, *)
(*             or one while a start has not returned                       *)
(*   "late"    the recognizer answers after finish() stopped waiting       *)
(*   "race"    a block that has begun when it is cancelled, or a callback  *)
(*             that comes while recognize() is still at work               *)
(*   "engine"  the audio engine of the speech service fails to start       *)
(*   "spotter" the keyword spotter fails to start                          *)
(***************************************************************************)
ASSUME FaultsAssumption ==
  Faults \subseteq {"burst", "late", "race", "engine", "spotter"}

Wake(s)     == <<"wake", s>>
Timer(s)    == <<"timer", s>>
Callback(s) == <<"callback", s>>
Start(a)    == <<"start", a>>
Stop(b)     == <<"stop", b>>

Threads ==
  ({"wake", "timer", "callback"} \X Sessions)
    \cup ({"start"} \X Starts) \cup ({"stop"} \X Stops)

ASSUME SentinelsAssumption ==
  /\ Nil \notin Sessions \cup Threads
  /\ Empty \notin Sessions \cup {Nil}

\* An Objective-C exception (a second tap on one bus) has ended the process.
VARIABLE crashed

=============================================================================
