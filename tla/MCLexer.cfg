CONSTANTS
  tolower <- MCtolower
  Reserved <- MCReserved
  Texts <- MCTexts
  Speculative <- MCSpeculative
  Stray <- MCStray
  MaxExcursions = 2
SPECIFICATION Spec
INVARIANTS LinesAreRight StaysInText LexemesTileTheText
PROPERTY LookaheadIsTransparent
CHECK_DEADLOCK FALSE
