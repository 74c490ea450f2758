SPECIFICATION PageSpec
CONSTANTS
  Talks = {r1, r2, r3}
  NoTalk = NoTalk
  Texts = {x1, x2}
  NoText = NoText
  Impatient = FALSE
INVARIANTS
  PageTypeOK
  ButtonIsTrue
  OwnTimeout
PROPERTIES
  TalkEnds
