\* Two connections writing different parts.
SPECIFICATION Spec
CONSTANTS
  c1 = c1 c2 = c2 v = v abrain = abrain local = local
  None = None Keep = Keep
  Client <- TwoClients
  Owns <- OwnsSplit
  Value <- Values
  Chain <- Chains
  DefaultChain = abrain
  Env <- BareEnv
INVARIANT ResolverMatchesLive
