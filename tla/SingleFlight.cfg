SPECIFICATION FairSpec
CONSTANTS
  c1 = c1
  c2 = c2
  c3 = c3
  c4 = c4
  k1 = k1
  k2 = k2
  Callers = {c1, c2, c3, c4}
  Keys = {k1, k2}
  KeyOf <- TwoKeys
  MaxFlights = 1
  MaxWaiters = 1
  NoFlight = NoFlight
INVARIANT FlightsLed
PROPERTIES NoNeedlessCall EveryoneAnswered
CHECK_DEADLOCK FALSE
