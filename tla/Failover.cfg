SPECIFICATION FairSpec
CONSTANTS
  r1 = r1
  r2 = r2
  d1 = d1
  d2 = d2
  d3 = d3
  k1 = k1
  k2 = k2
  p1 = p1
  p2 = p2
  g1 = g1
  g2 = g2
  g3 = g3
  Requests = {r1, r2}
  Streams = {r2}
  Deployments = {d1, d2, d3}
  Keys = {k1, k2}
  Providers = {p1, p2}
  Groups = {g1, g2, g3}
  Entry = {g1}
  ProviderOf <- MCProviderOf
  AccountOf <- MCAccountOf
  GroupOf <- MCGroupOf
  Fallbacks <- MCFallbacks
  BigFallbacks <- MCBig
  NumRetries = 1
  CycleN = 1
  AllowedFails = 2
  CooldownTime = 1
  KeyWindows = {1}
  Rpm <- MCRpm
  Ceiling <- MCCeiling
  None = None
INVARIANTS CountsExact CapsHeld EveryFallbackTried
PROPERTIES RetryMovesOnOrRests EveryRequestEnds
CHECK_DEADLOCK FALSE
