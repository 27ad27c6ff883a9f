SPECIFICATION MCSpec
CONSTANTS
  a = a
  b = b
  r1 = r1
  r2 = r2
  NoKey = NoKey
  Labels = {a, b}
  Requests = {r1, r2}
  InitialPool <- PoolAB
  Weights = {1}
  ProbationPercent = 1
  WeightScale = 2
  RoundRobin = FALSE
  AnyError = TRUE
  MaxFails = 3
  DefaultMaxFails = 4
  OAuthAccount = FALSE
  HealerOn = FALSE
  AdminEdits = {"enable", "reset", "add", "delete"}
  ErrBound = 4
  CoolDefault = 1
  CoolCap = 2
  CoolStandard = 1
  Retire = 2
  RetireAuth = 2
  RetireStandard = 1
  RetryAfters = {1, 2}
INVARIANTS
  RotationBelowThreshold
  NotStarved

  
