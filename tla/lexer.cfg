CONSTANTS
  MaxTokens = 3
  MaxChars = 4
  Alphabet = {"x", "1", ".", "'", "#", "(", "*", ")", "{"}
SPECIFICATION FairSpec
INVARIANTS ReadsBack NothingDropped
PROPERTY EveryTextEnds
CHECK_DEADLOCK FALSE
