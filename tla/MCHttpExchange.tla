--------------------------- MODULE MCHttpExchange ---------------------------
(* Instances of HttpExchange for TLC.                                      *)
EXTENDS HttpExchange

\* ASCII requests of several buffers, one without a body, and short ones in
\* whose bodies there are characters of three bytes.
Plain == {[header |-> 3, size |-> n, inside |-> {}] : n \in {3, 12, 20}}
Short == {[header |-> 3, size |-> 8, inside |-> {4, 5}],
          [header |-> 3, size |-> 7, inside |-> {5, 6}]}
PlainAndShort == Plain \cup Short

\* A body of three such characters, more than the buffer holds.
Long == {[header |-> 3, size |-> 12, inside |-> {4, 5, 7, 8, 10, 11}]}

=============================================================================
