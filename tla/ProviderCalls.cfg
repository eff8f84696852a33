SPECIFICATION FairSpec
CONSTANTS
  c1 = c1
  c2 = c2
  Call <- MCCall
  Axes = {"text", "stt", "tts"}
  Starts <- MCStarts
  Echoes <- MCEchoes
  Resolvers = 2
  Asks = 2
INVARIANTS
  
  CloudOnlyWhenAsked
  StatusIsOwn
  ProbeAgreesWithRun
  StatusAgreesWithRun
PROPERTIES
  EveryCallEnds
CHECK_DEADLOCK FALSE
