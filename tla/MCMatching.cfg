CONSTANTS
  Letters = {"a", "b"}
  MaxPattern = 4
  MaxText = 4
  Patterns <- ShortPatterns
  Texts <- ShortTexts
  Numbers <- MCNumbers
  Spelled <- MCSpelled
  Rules <- MCRules
  Body <- MCBody
  Hosts <- MCHosts
  Programs <- MCPrograms
  Ports = {1, 2}
  PortList <- MCPortList
  Span <- MCSpan
  Profiles <- MCProfiles
  Hints <- MCHints
SPECIFICATION Spec
INVARIANT AnswerRight
INVARIANT GlobCoverSound
INVARIANT WinnerHasLane
INVARIANT DimLanesExplained
INVARIANT QuietMeansNamed
PROPERTY Terminates
CHECK_DEADLOCK FALSE
