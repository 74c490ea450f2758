------------------------ MODULE DashboardPageProofs -------------------------
(***************************************************************************)
(* The page keeps its promises to a user who waits, and begins a session   *)
(* when the last one has ended.                                            *)
(***************************************************************************)
EXTENDS DashboardPage, TLAPS

\* What the user has to see to; the page does not.
Patient == ~Impatient

\* One session at a time, and the globals are its own from the moment it was
\* begun; it has the only timer, and sends its words once.
OneTalk ==
  /\ \A q, r \in Talks :
       phase[q] \notin {"new", "ended"} /\ phase[r] \notin {"new", "ended"} =>
         q = r
  /\ \A r \in Talks :
       /\ phase[r] \in {"starting", "on", "stopping"} => recognition = r
       /\ heard[r] # "final" => sent[r] = 0
  /\ timers \subseteq {noSpeechTimeout}

PageInv == PageTypeOK /\ OneTalk /\ ButtonIsTrue /\ OwnTimeout

\* At the start there is no session, no timer and no text.
LEMMA InitPageInv == PageInit => PageInv
<1> SUFFICES ASSUME PageInit
             PROVE  PageInv
  OBVIOUS
<1> USE TalksAssumption DEF PageInit
<1>1. /\ phase \in [Talks -> {"new", "starting", "on", "stopping", "failed",
                            "ended"}]
      /\ heard \in [Talks -> {"nothing", "interim", "final"}]
      /\ sent \in [Talks -> 0..1]
  OBVIOUS
<1>2. PageTypeOK
  BY <1>1 DEF PageTypeOK
<1>3. OneTalk /\ ButtonIsTrue /\ OwnTimeout
  BY DEF OneTalk, ButtonIsTrue, OwnTimeout, Active
<1> QED
  BY <1>2, <1>3 DEF PageInv

\* Every step keeps the invariant.
LEMMA NextPageInv ==
  ASSUME Patient, PageInv, [PageNext]_pageVars
  PROVE  PageInv'
<1> USE TalksAssumption
    DEF PageInv, PageTypeOK, OneTalk, ButtonIsTrue, OwnTimeout,
        Active, Become, Patient, speechGlobals, textVars
<1>1. ASSUME NEW r \in Talks, ClickStart(r)
      PROVE  PageInv'
  <2> USE <1>1 DEF ClickStart
  <2>1. CASE Become(r, "starting")
    BY <2>1 DEF ResetSpeechButton, ClearTimer
  <2>2. CASE Become(r, "ended") /\ ResetSpeechButton
    <3>1. \A q \in Talks : phase'[q] \in {"new", "ended"}
      BY <2>2
    <3>2. phase' \in [Talks -> {"new", "starting", "on", "stopping", "failed",
                               "ended"}]
      BY <2>2
    <3> QED
      BY <2>2, <3>1, <3>2 DEF ResetSpeechButton, ClearTimer
  <2> QED
    BY <2>1, <2>2
<1>2. ASSUME NEW r \in Talks, OnStart(r)
      PROVE  PageInv'
  BY <1>2 DEF OnStart
<1>3. ASSUME NEW r \in Talks, OnInterim(r)
      PROVE  PageInv'
  BY <1>3 DEF OnInterim, ClearTimer
<1>4. ASSUME NEW r \in Talks, OnFinal(r)
      PROVE  PageInv'
  BY <1>4 DEF OnFinal, ClearTimer
<1>5. ASSUME NEW r \in Talks, OnError(r)
      PROVE  PageInv'
  BY <1>5 DEF OnError, ResetSpeechButton, ClearTimer
<1>6. ASSUME NEW r \in Talks, OnEnd(r)
      PROVE  PageInv'
  <2>1. \A q \in Talks : phase'[q] \in {"new", "ended"}
    BY <1>6 DEF OnEnd
  <2>2. phase' \in [Talks -> {"new", "starting", "on", "stopping", "failed",
                             "ended"}]
    BY <1>6 DEF OnEnd
  <2> QED
    BY <1>6, <2>1, <2>2 DEF OnEnd, ResetSpeechButton, ClearTimer
<1>7. ASSUME NEW r \in Talks, Timeout(r)
      PROVE  PageInv'
  BY <1>7 DEF Timeout, StopCurrent
<1>8. CASE ClickStop
  BY <1>8 DEF ClickStop, StopCurrent
<1>9. ASSUME NEW x \in Texts, Type(x)
      PROVE  PageInv'
  BY <1>9 DEF Type
<1>10. CASE ClickSend
  BY <1>10 DEF ClickSend
<1>11. CASE SendAnswered
  BY <1>11 DEF SendAnswered
<1>12. CASE UpdateStatus
  BY <1>12 DEF UpdateStatus
<1>13. CASE UNCHANGED pageVars
  BY <1>13 DEF pageVars
<1> QED
  BY <1>1, <1>2, <1>3, <1>4, <1>5, <1>6, <1>7, <1>8, <1>9, <1>10, <1>11,
     <1>12, <1>13 DEF PageNext

\* The invariant holds throughout.
LEMMA PageInvariant ==
  ASSUME Patient
  PROVE  PageSpec => []PageInv
<1>1. PageInv /\ [PageNext]_pageVars => PageInv'
  BY NextPageInv
<1> QED
  BY <1>1, InitPageInv, PTL DEF PageSpec

\* dashboard.html, the speech button: for a user who waits for the end of a
\* session before the next one, the button says stop exactly while there is
\* one, and reaches it.
THEOREM ButtonStaysTrue ==
  ASSUME Patient
  PROVE  PageSpec => []ButtonIsTrue
<1>1. PageInv => ButtonIsTrue
  BY DEF PageInv
<1> QED
  BY <1>1, PageInvariant, PTL

\* dashboard.html, noSpeechTimeout: for that user a timer only ever stops the
\* session that set it.
THEOREM TimersStopTheirOwn ==
  ASSUME Patient
  PROVE  PageSpec => []OwnTimeout
<1>1. PageInv => OwnTimeout
  BY DEF PageInv
<1> QED
  BY <1>1, PageInvariant, PTL

\* dashboard.html: its globals and its sessions have values of their types, and
\* no session sends its words twice.
THEOREM PageTyped ==
  ASSUME Patient
  PROVE  PageSpec => []PageTypeOK
<1>1. PageInv => PageTypeOK
  BY DEF PageInv
<1> QED
  BY <1>1, PageInvariant, PTL

=============================================================================
