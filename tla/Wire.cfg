CONSTANTS
  Scenarios <- MCScenarios
  CallIds <- MCCallIds
  CallIndexes <- MCCallIndexes
  DecoyNames <- MCDecoyNames
  MaxDeferredAnthropic = 2
  MaxDeferredResponses = 1
  MaxTape = 4
SPECIFICATION Spec
INVARIANTS
  
  ContentArrives
  StopAndUsageAgree
  ContinuationIsWhatWasTold
