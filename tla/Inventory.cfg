SPECIFICATION FairSpec
CONSTANTS
  Connections = {1, 2, 3}
  Settings = {s}
  MaxWorkers = 1
  Checks = 2
  MaxChanges = 1
  NotYet = NotYet
  Deleted = Deleted
  Nothing = Nothing
  NoData = NoData
INVARIANTS NoReplacedData
PROPERTIES KeepsRefreshing
