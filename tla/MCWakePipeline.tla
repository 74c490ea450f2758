--------------------------- MODULE MCWakePipeline ---------------------------
(* Instances of WakePipeline for TLC: what the runs name in their cfg.     *)
EXTENDS WakePipeline, TLC

\* The names of sessions, starts and stops.
CONSTANTS s1, s2, s3, a1, a2, b1

\* Sessions are interchangeable.
Symmetry == Permutations(Sessions)

=============================================================================
