SPECIFICATION SendSpec
CONSTANTS
  Texts <- ShortTexts
  Capacity = 1
  MaxOutput = 2
INVARIANTS
  SentIsPlain
  SaidIsSent
  AnswerIsTrue
