CONSTANTS
  Numerals <- MCNumerals
  Saves <- MCSaves
  Files <- MCFiles
  Damages = {"none", "typed", "torn", "beside", "section", "element", "missing", "garbled"}
SPECIFICATION Spec
INVARIANT ReadsBack
INVARIANT ReopenedSame
 
CHECK_DEADLOCK FALSE
