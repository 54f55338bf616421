CONSTANTS
  Numerals <- MCNumerals
  Saves <- MCSaves
  Files <- MCFiles
  Damages = {"none", "section", "element"}
SPECIFICATION Spec
INVARIANT UnknownRefused
CHECK_DEADLOCK FALSE
