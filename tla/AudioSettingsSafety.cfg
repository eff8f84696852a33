\* One connection writing both speech axes, failing saves, restarts anywhere.
SPECIFICATION Spec
CONSTANTS
  c1 = c1 whisper = whisper cmdOnly = cmdOnly long = long
  None = None Keep = Keep
  Client <- OneClient
  Cmd <- OneCmd
  Chain <- Chains
  DefaultChain = cmdOnly
  Env <- OneCmdEnv
INVARIANTS
  ResolverMatchesLive
  RestartRestores
