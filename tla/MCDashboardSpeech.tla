-------------------------- MODULE MCDashboardSpeech -------------------------
(* An instance of DashboardSpeech for TLC.                                 *)
EXTENDS DashboardSpeech

\* The names of sessions, starts and stops.
CONSTANTS s1, t1, a1, b1

=============================================================================
