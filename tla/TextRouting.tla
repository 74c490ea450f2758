----------------------------- MODULE TextRouting ----------------------------
(***************************************************************************)
(* TextNormalizer and CommandDispatcher: what is done with a text before   *)
(* it is sent.  A text is a sequence of characters; "space", "newline" and *)
(* "mark" (of punctuation) are those that the code tells from the others.  *)
(***************************************************************************)
EXTENDS Naturals, SequencesExt

Blank == {"space"}             \* .whitespaces
White == {"space", "newline"}  \* .whitespacesAndNewlines
Marks == {"mark"}              \* trailingPunctuation

\* searchPrefixes, in their order.
SearchPrefixes ==
  << <<"sou", "suo">>, <<"sou">>, <<"kan">>, <<"zhao">>, <<"cha">>,
     <<"bo", "fang">>, <<"fang">> >>

Text == Seq(STRING)

-----------------------------------------------------------------------------
\* trimmingCharacters(in: S)
Trimmed(S) == [t \in Text |->
  LET kept == {i \in DOMAIN t : t[i] \notin S}
  IN  IF kept = {} THEN <<>> ELSE SubSeq(t, Min(kept), Max(kept))]

\* The marks at the end of a trimmed text go, and the blanks before them.  A
\* line break ends the loop.
WithoutMarks == [t \in Text |->
  SubSeq(t, 1, Max({0} \cup {i \in DOMAIN t : t[i] \notin Marks \cup Blank}))]

\* The characters of t at the places K, in their order.
Rank(K, i) == Cardinality({j \in K : j <= i})
Place(K, k) == CHOOSE i \in K : Rank(K, i) = k
Kept(t, K) == [k \in 1..Cardinality(K) |-> t[Place(K, k)]]

\* No space follows another.
SingleSpaced == [t \in Text |->
  Kept(t, {i \in DOMAIN t : i = 1 \/ {t[i - 1], t[i]} # {"space"}})]

\* Faulty variant: the spaces are not looked at.
NormalizedSpaced(t) == Trimmed(White)[WithoutMarks[Trimmed(White)[t]]]

Normalized(t) ==
  Trimmed(White)[SingleSpaced[WithoutMarks[Trimmed(White)[t]]]]

\* The text without its first n characters, which are a search prefix, unless
\* nothing is left then.
WithoutPrefix(t, n) ==
  LET rest == Trimmed(Blank)[SubSeq(t, n + 1, Len(t))]
  IN  IF rest = <<>> THEN t ELSE rest

Fitting(t) == {i \in DOMAIN SearchPrefixes : IsPrefix(SearchPrefixes[i], t)}

\* Faulty variant: the last prefix that fits is taken.
DispatchedLast(t) ==
  IF Fitting(t) = {} THEN t
  ELSE WithoutPrefix(t, Len(SearchPrefixes[Max(Fitting(t))]))

\* The first prefix that fits is taken.  The text is one that was normalized,
\* which trimming it again does not change.
Dispatched(t) ==
  IF Fitting(t) = {} THEN t
  ELSE WithoutPrefix(t, Len(SearchPrefixes[Min(Fitting(t))]))

=============================================================================
