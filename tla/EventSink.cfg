SPECIFICATION Spec
CONSTANTS
  Keys = {"k1", "k2"}
  Models = {"m1", "m2"}
  Prices = {"p1"}
  Covers <- MCCovers
  Hour = 2
  Horizon = 3
  Sweepers = {1}
  QueueSize = 3
  BatchSize = 2
  RingSize = 2
  WatcherQueue = 2
  Retention = 2
  MaxRows = 2
  PageSize = 1
  Views = {{"k1"}, {"k1", "k2"}}
  Windows = {0, 3}
  Sizes = {1, 2}
  Scenarios <- MCScenarios
INVARIANTS EveryEventAccounted SweepsKeepTheBooks  ViewsAgree WatcherGetsEachOnce
CHECK_DEADLOCK FALSE
