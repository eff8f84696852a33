\* Two commands of every kind, two connections answering, confirmation on or off.
SPECIFICATION Spec
CONSTANTS
  t1 = t1 t2 = t2 c1 = c1 c2 = c2
  Task <- TwoTasks
  Client <- TwoClients
  Kinds <- OneOfEachPath
  MaxApprovals = 2
  NoOne = NoOne
  Policies <- ConfirmedOrDirect
SYMMETRY Symmetry
INVARIANTS
  ExecutionNeedsConsent
  OneAnswerAcknowledged
  AuditNamesTheVerdict
  RegistryTracksWaiters
  AuditedBeforeBroadcast
PROPERTIES
  ImplementsGate
  NoAnswerAfterVerdict
