SPECIFICATION FairSpec
CONSTANTS
  Siblings = 1
  MaxTries = 2
  MaxResumes = 1
  ResumeModes = {"off", "enabled"}
  GraceDrains = {TRUE, FALSE}
  MaxChunks = 2
  QueueCap = 2
INVARIANTS EveryAttemptSettled BillIsRight
PROPERTIES HoldsContract EverythingEnds
