------------------------------ MODULE SendText ------------------------------
(***************************************************************************)
(* A text on its way to the Apple TV: what was recognized after a wake, or *)
(* what was typed into the dashboard.  Both are normalized; what was said  *)
(* loses its command; then atvremote is run.                               *)
(***************************************************************************)
EXTENDS TextRouting, AtvRemote

CONSTANTS
  Texts  \* what may be said or typed

ASSUME TextsAssumption == Texts \subseteq Text

VARIABLES
  said,    \* the text
  sender,  \* "pipeline" or "dashboard"
  stage,   \* "normalize", "dispatch", "send", "done"
  text,    \* what has become of the text
  answer   \* "none", "empty", "ok" or "failed"

routeVars == <<said, sender, stage, text, answer>>
sendVars == <<routeVars, remoteVars>>

SendInit ==
  /\ RemoteInit
  /\ said \in Texts
  /\ sender \in {"pipeline", "dashboard"}
  /\ stage = "normalize"
  /\ text = said
  /\ answer = "none"

-----------------------------------------------------------------------------
\* Both senders give up a text of which nothing is left.
Normalize ==
  /\ stage = "normalize"
  /\ text' = Normalized(text)
  /\ IF text' = <<>>
     THEN stage' = "done" /\ answer' = "empty"
     ELSE stage' = "dispatch" /\ UNCHANGED answer
  /\ UNCHANGED <<said, sender, remoteVars>>

Dispatch ==
  /\ stage = "dispatch"
  /\ text' = IF sender = "pipeline" THEN Dispatched(text) ELSE text
  /\ stage' = "send"
  /\ bridge' = "find"
  /\ UNCHANGED <<said, sender, answer, success, tool, left, piped, read>>

Send ==
  /\ stage = "send"
  /\ BridgeStep \/ ToolStep
  /\ UNCHANGED routeVars

Answer ==
  /\ stage = "send"
  /\ bridge = "done"
  /\ stage' = "done"
  /\ answer' = IF success THEN "ok" ELSE "failed"
  /\ UNCHANGED <<said, sender, text, remoteVars>>

\* The sender has its answer, or will never have one.
Done == stage = "done" \/ Clogged

Rests == Done /\ UNCHANGED sendVars

SendNext == Normalize \/ Dispatch \/ Send \/ Answer \/ Rests

SendSpec == SendInit /\ [][SendNext]_sendVars

-----------------------------------------------------------------------------
Given == stage = "send" \/ answer \in {"ok", "failed"}  \* the tool got text

\* A line break between two marks at the end stops the normalizer.
OneLine(t) == "newline" \notin Range(Trimmed(White)[t])

\* What is sent is plain: something is left of it, no mark and no white
\* character is at its ends, and no space follows another.
SentIsPlain ==
  Given /\ OneLine(said) =>
    /\ text # <<>>
    /\ Last(text) \notin White \cup Marks /\ Head(text) \notin White
    /\ \A i \in 2..Len(text) : {text[i - 1], text[i]} # {"space"}

\* The search prefix that a text begins with, the longest one.
Command(t) ==
  LET fits == {p \in Range(SearchPrefixes) : IsPrefix(p, Trimmed(White)[t])}
  IN  IF fits = {} THEN <<>>
      ELSE CHOOSE p \in fits : \A q \in fits : Len(p) >= Len(q)

Words(t) == Kept(t, {i \in DOMAIN t : t[i] \notin White \cup Marks})

\* Every word of a text is sent, in its order: what was typed as it is, what
\* was said without its command, unless the command is all that was said.
SaidIsSent ==
  Given /\ OneLine(said) =>
    IF sender = "pipeline" /\ Words(said) # Command(said)
    THEN Words(said) = Command(said) \o Words(text)
    ELSE Words(text) = Words(said)

\* A sender is told that its text was sent only when the tool has said so and
\* all of its output was read, and that it was not only when it was not.
AnswerIsTrue ==
  /\ answer = "ok" =>
       tool = "exited" /\ \A p \in Pipes : left[p] = 0 /\ piped[p] = 0
  /\ answer = "failed" => tool \in {"none", "failed"}

=============================================================================
