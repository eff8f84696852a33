SPECIFICATION Spec
CHECK_DEADLOCK FALSE
CONSTANTS
  Policy <- MCPolicy
  BackendConfig <- MCBackend
  OtherRequests <- MCRequests
  Presses <- MCPresses
  Capacity = 1
  MaxJobs = 2
  MaxRestarts = 1
  MaxLosses = 1
  MaxInFlight = 1
INVARIANTS
  CardAnswersWhatItShows
  CardOnlyWhileOpen
  BannerOnlyWhileOpen
PROPERTIES
  CardIsReleased
  ActionModeEnds
