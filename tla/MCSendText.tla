----------------------------- MODULE MCSendText -----------------------------
(* Instances of SendText for TLC.                                          *)
EXTENDS SendText

\* Texts of up to four characters, of which two are search prefixes together
\* and one of them is so alone.
ShortTexts ==
  BoundedSeq({"space", "newline", "mark", "sou", "suo", "word"}, 4)

=============================================================================
