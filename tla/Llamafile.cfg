\* Two callers, a provider replaced once by one of any configuration, two processes;
\* fair timers, calls and mutex; callers, settings and the processes are free.
SPECIFICATION FairSpec
CONSTANTS
  c1 = c1 c2 = c2
  None = None
  Caller <- TwoCallers
  Configs <- AnyConfig
  MaxGen = 2
  MaxSpawns = 2
INVARIANTS
  LifecycleMatchesChild
  EveryProcessIsWatched
PROPERTIES
  NeverStoppedInUse
  EveryRunReturns
  UnusedProcessStops
CHECK_DEADLOCK FALSE
