\* Fair waiters, timers and continuations; users, clients and the focus helper are not fair.
SPECIFICATION FairSpec
CONSTANTS
  t1 = t1 t2 = t2 c1 = c1 c2 = c2
  Task <- OneTask
  Client <- TwoClients
  Kinds <- AllCommands
  MaxApprovals = 2
  NoOne = NoOne
  Policies <- EveryPolicy
INVARIANTS
  ReportsAgree
PROPERTIES
  EveryGateIsReported
