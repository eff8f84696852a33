\* Two connections and the console, two slow requests, a channel of two frames.
SPECIFICATION FairSpec
CONSTANTS
  c1 = c1 c2 = c2 abrain = abrain whisper = whisper piper = piper command = command
  None = None
  Client <- TwoClients
  Console = Console
  Chain <- Chains
  Setups <- ThreeSetups
  Asks <- AsksSplit
  Leavers <- OneClient
  Capacity = 2
  MaxRequests = 2
INVARIANTS
  AnswersAreWhole
  SpeechFollowsItsAnswer
  SpeechIsPaired
PROPERTIES
  EveryRequestAnswered
  SpeechEnds
  EveryFrameReached
CHECK_DEADLOCK FALSE
