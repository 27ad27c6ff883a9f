SPECIFICATION Spec
CONSTANTS
  k1 = k1
  k2 = k2
  global = global
  q1 = q1
  q2 = q2
  q3 = q3
  unlimited = unlimited
  Ids = {q1, q2, q3}
  Keys = {k1, k2}
  Global = global
  NoLimit = unlimited
  KeyOf <- TwoKeys
  Estimate <- Estimates
  Actuals = {2}
  Rpm <- KeyRpm
  Tpm <- KeyTpm
  Span = 1
  MaxWindows = 3
  SweepInterval = 1
  MaxRecords = 2
PROPERTY KeepsLedger
