\* Three recorders and a ring, asked for beyond the hard maximum, that wraps more than once.
SPECIFICATION AuditSpec
CONSTANTS
  w1 = w1 w2 = w2 w3 = w3
  Recorder <- ThreeRecorders
  Requested = 9
  DefaultMax = 2
  HardMax = 3
  MaxEvents = 7
SYMMETRY Symmetry
INVARIANTS
  AnswersTheLatest
  ChainInOrder
CHECK_DEADLOCK FALSE
