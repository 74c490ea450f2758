---------------------------- MODULE DashboardPage ---------------------------
(***************************************************************************)
(* The script of dashboard.html: the button that has the browser recognize *)
(* speech, the field whose text is sent, and the card with the state.      *)
(* Each click on start makes a session of the browser's recognizer; its    *)
(* four handlers share the globals recognition, isRecognizing, hasResult   *)
(* and noSpeechTimeout with those of every other session, and so does the  *)
(* timer that ends a silent one.  The browser is external: it calls the    *)
(* handlers of a session in the order start, results, error, end.          *)
(***************************************************************************)
EXTENDS Naturals

CONSTANTS
  Talks,     \* the sessions the user may begin
  NoTalk,    \* null
  Texts,     \* what the user may type
  NoText,    \* an empty field
  Impatient  \* the user does not wait: he clicks again before the last session
             \* began or ended

ASSUME TalksAssumption ==
  /\ NoTalk \notin Talks
  /\ NoText \notin Texts
  /\ Impatient \in BOOLEAN

VARIABLES
  phase,          \* phase[r]: how far the browser is with session r
  heard,          \* heard[r]: "nothing", "interim" or "final"
  recognition,    \* the globals of the page
  isRecognizing,
  hasResult,
  noSpeechTimeout, \* the session that set the timer last, or NoTalk
  timers,         \* the sessions whose timer was set and not cleared
  sent,           \* sent[r]: how often the words of r were sent
  card,           \* the card is marked as listening
  field,          \* manualText.value
  asked           \* the text of the request under way, or NoText

speechGlobals == <<recognition, isRecognizing, hasResult, noSpeechTimeout,
                   timers>>
textVars == <<field, asked>>
pageVars == <<phase, heard, speechGlobals, sent, card, textVars>>

PageTypeOK ==
  /\ phase \in [Talks -> {"new", "starting", "on", "stopping", "failed",
                          "ended"}]
  /\ heard \in [Talks -> {"nothing", "interim", "final"}]
  /\ {recognition, noSpeechTimeout} \subseteq Talks \cup {NoTalk}
  /\ isRecognizing \in BOOLEAN /\ hasResult \in BOOLEAN
  /\ timers \subseteq Talks
  /\ sent \in [Talks -> 0..1]
  /\ card \in BOOLEAN
  /\ {field, asked} \subseteq Texts \cup {NoText}

PageInit ==
  /\ phase = [r \in Talks |-> "new"]
  /\ heard = [r \in Talks |-> "nothing"]
  /\ recognition = NoTalk
  /\ isRecognizing = FALSE
  /\ hasResult = FALSE
  /\ noSpeechTimeout = NoTalk
  /\ timers = {}
  /\ sent = [r \in Talks |-> 0]
  /\ card = FALSE
  /\ field = NoText
  /\ asked = NoText

\* The browser has begun session r and not yet given it up.
Active(r) == phase[r] \in {"on", "stopping"}

Become(r, p) == phase' = [phase EXCEPT ![r] = p]

-----------------------------------------------------------------------------
(* The functions of the page.                                              *)

\* Faulty variant: the timer goes on.
LetTimerRun == UNCHANGED timers

\* clearTimeout(noSpeechTimeout): the timer that was set last, if it is set.
ClearTimer == timers' = timers \ {noSpeechTimeout}

ResetSpeechButton ==
  /\ ClearTimer
  /\ isRecognizing' = FALSE
  /\ hasResult' = FALSE
  /\ recognition' = NoTalk
  /\ card' = FALSE

\* recognition.stop(), for whatever session the page takes for the current
\* one; one that has not begun just ends, and one that is over takes no notice.
StopCurrent ==
  phase' = [r \in Talks |->
    IF r # recognition THEN phase[r]
    ELSE CASE phase[r] = "on" -> "stopping"
           [] phase[r] = "starting" -> "failed"
           [] OTHER -> phase[r]]

-----------------------------------------------------------------------------
(* The user.                                                               *)

\* start() may throw, and then there will be no event.
ClickStart(r) ==
  /\ ~isRecognizing
  /\ phase[r] = "new"
  /\ Impatient \/ \A q \in Talks : phase[q] \in {"new", "ended"}
  /\ \/ /\ Become(r, "starting")
        /\ recognition' = r
        /\ UNCHANGED <<isRecognizing, hasResult, timers, card>>
     \/ Become(r, "ended") /\ ResetSpeechButton
  /\ UNCHANGED <<heard, noSpeechTimeout, sent, textVars>>

ClickStop ==
  /\ isRecognizing
  /\ StopCurrent
  /\ UNCHANGED <<heard, speechGlobals, sent, card, textVars>>

-----------------------------------------------------------------------------
(* The handlers, called by the browser.                                    *)

\* Faulty variant: no timer is set.
OnStartUntimed(r) ==
  /\ phase[r] = "starting"
  /\ Become(r, "on")
  /\ isRecognizing' = TRUE
  /\ hasResult' = FALSE
  /\ card' = TRUE
  /\ UNCHANGED <<timers, noSpeechTimeout, heard, recognition, sent, textVars>>

OnStart(r) ==
  /\ phase[r] = "starting"
  /\ Become(r, "on")
  /\ isRecognizing' = TRUE
  /\ hasResult' = FALSE
  /\ timers' = timers \cup {r}
  /\ noSpeechTimeout' = r
  /\ card' = TRUE
  /\ UNCHANGED <<heard, recognition, sent, textVars>>

\* Faulty variant: words that are not final are sent, too.
OnInterimSends(r) ==
  /\ Active(r)
  /\ heard[r] = "nothing"
  /\ heard' = [heard EXCEPT ![r] = "interim"]
  /\ ClearTimer
  /\ sent' = [sent EXCEPT ![r] = @ + 1]
  /\ UNCHANGED <<phase, recognition, isRecognizing, hasResult,
                 noSpeechTimeout, card, textVars>>

\* Words that are not final yet: the timer is cleared for good.
OnInterim(r) ==
  /\ Active(r)
  /\ heard[r] = "nothing"
  /\ heard' = [heard EXCEPT ![r] = "interim"]
  /\ ClearTimer
  /\ UNCHANGED <<phase, recognition, isRecognizing, hasResult,
                 noSpeechTimeout, sent, card, textVars>>

\* The final words, of which there are none after a silence, are sent.
OnFinal(r) ==
  /\ Active(r)
  /\ heard[r] # "final"
  /\ heard' = [heard EXCEPT ![r] = "final"]
  /\ ClearTimer
  /\ hasResult' = TRUE
  /\ sent' = [sent EXCEPT ![r] = @ + 1]
  /\ UNCHANGED <<phase, recognition, isRecognizing, noSpeechTimeout, card,
                 textVars>>

\* Faulty variant: the button is left as it is.
OnErrorShowsOnly(r) ==
  /\ phase[r] = "starting" \/ Active(r)
  /\ Become(r, "failed")
  /\ ClearTimer
  /\ UNCHANGED <<recognition, isRecognizing, hasResult, heard,
                 noSpeechTimeout, sent, card, textVars>>

\* No permission, no network, no speech, or aborted.
OnError(r) ==
  /\ phase[r] = "starting" \/ Active(r)
  /\ Become(r, "failed")
  /\ ResetSpeechButton
  /\ UNCHANGED <<heard, noSpeechTimeout, sent, textVars>>

OnEnd(r) ==
  /\ Active(r) \/ phase[r] = "failed"
  /\ Become(r, "ended")
  /\ ResetSpeechButton
  /\ UNCHANGED <<heard, noSpeechTimeout, sent, textVars>>

\* Eight seconds after a session began: the current session is stopped, if
\* there is one and no result.
Timeout(r) ==
  /\ r \in timers
  /\ timers' = timers \ {r}
  /\ IF hasResult THEN UNCHANGED phase ELSE StopCurrent
  /\ UNCHANGED <<heard, recognition, isRecognizing, hasResult,
                 noSpeechTimeout, sent, card, textVars>>

-----------------------------------------------------------------------------
(* The field, and the card.                                                *)

Type(x) ==
  /\ field' = x
  /\ UNCHANGED <<phase, heard, speechGlobals, sent, card, asked>>

\* The button is disabled while a request is under way, the field is not.
ClickSend ==
  /\ asked = NoText
  /\ field # NoText
  /\ asked' = field
  /\ UNCHANGED <<phase, heard, speechGlobals, sent, card, field>>

\* The server sent the text, and the field is emptied whatever it holds by now;
\* or it did not send it, or there is no answer.
SendAnswered ==
  /\ asked # NoText
  /\ asked' = NoText
  /\ field' \in {NoText, field}
  /\ UNCHANGED <<phase, heard, speechGlobals, sent, card>>

\* The answer to /api/status, every two seconds: its state is always "idle".
UpdateStatus ==
  /\ card' = FALSE
  /\ UNCHANGED <<phase, heard, speechGlobals, sent, textVars>>

-----------------------------------------------------------------------------

PageNext ==
  \/ \E r \in Talks :
       ClickStart(r) \/ OnStart(r) \/ OnInterim(r) \/ OnFinal(r) \/ OnError(r)
         \/ OnEnd(r) \/ Timeout(r)
  \/ ClickStop
  \/ \E x \in Texts : Type(x)
  \/ ClickSend
  \/ SendAnswered
  \/ UpdateStatus

\* A timer that was set fires.  The browser begins a session or reports an
\* error, and it ends one that was stopped, has failed or has heard something;
\* nothing says that it ends a silent one by itself.
PageFairness ==
  \A r \in Talks :
    /\ WF_pageVars(Timeout(r))
    /\ WF_pageVars(phase[r] = "starting" /\ (OnStart(r) \/ OnError(r)))
    /\ WF_pageVars((phase[r] # "on" \/ heard[r] # "nothing") /\ OnEnd(r))

PageSpec == PageInit /\ [][PageNext]_pageVars /\ PageFairness

-----------------------------------------------------------------------------
\* The button says stop exactly while a session is active, and a click then
\* reaches that session: no handler of an earlier one has written over the
\* globals.
ButtonIsTrue ==
  /\ isRecognizing <=> \E r \in Talks : Active(r)
  /\ isRecognizing => recognition \in Talks /\ Active(recognition)

\* A timer only ever stops the session that set it: none is left over when
\* its session is over.
OwnTimeout == \A r \in timers : Active(r) /\ recognition = r

\* A session that began comes to an end, also when nothing is heard and
\* nobody clicks.
TalkEnds == \A r \in Talks : phase[r] = "on" ~> phase[r] = "ended"

\* The card is marked while a session is active.
CardIsTrue == card = isRecognizing

=============================================================================
