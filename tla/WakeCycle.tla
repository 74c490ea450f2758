------------------------------ MODULE WakeCycle -----------------------------
(***************************************************************************)
(* What the wake pipeline promises, without its threads and timers: a wake *)
(* is heard only when the pipeline listens, it is answered by at most one  *)
(* text sent to the Apple TV, the one that was said after it, and then the *)
(* pipeline listens again or says that it cannot.                          *)
(***************************************************************************)
EXTENDS Sequences

CONSTANTS Sessions, Nil

VARIABLES
  phase,    \* "off", "listening", "busy" or "error"
  current,  \* the wake that has no outcome yet, or Nil
  told      \* what was sent, oldest first

cycleVars == <<phase, current, told>>

CycleInit ==
  /\ phase = "off"
  /\ current = Nil
  /\ told = <<>>

TurnOn ==
  /\ phase = "off"
  /\ phase' = "listening"
  /\ UNCHANGED <<current, told>>

Hear(s) ==
  /\ phase = "listening"
  /\ phase' = "busy"
  /\ current' = s
  /\ UNCHANGED told

Tell ==
  /\ phase = "busy"
  /\ current # Nil
  /\ told' = Append(told, current)
  /\ current' = Nil
  /\ UNCHANGED phase

GiveUp ==
  /\ phase = "busy"
  /\ current # Nil
  /\ current' = Nil
  /\ UNCHANGED <<phase, told>>

Resume ==
  /\ phase = "busy"
  /\ current = Nil
  /\ phase' \in {"listening", "error"}
  /\ UNCHANGED <<current, told>>

CycleNext ==
  \/ TurnOn
  \/ \E s \in Sessions : Hear(s)
  \/ Tell
  \/ GiveUp
  \/ Resume

WakeCycleSpec == CycleInit /\ [][CycleNext]_cycleVars

=============================================================================
