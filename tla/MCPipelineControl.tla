-------------------------- MODULE MCPipelineControl -------------------------
(* Instances of PipelineControl for TLC.                                   *)
EXTENDS PipelineControl

\* The names of sessions, starts, stops and words.
CONSTANTS s1, a1, a2, a3, b1, b2, w1, w2

=============================================================================
