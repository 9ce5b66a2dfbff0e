SPECIFICATION LiveFairSpec
CONSTANTS
  Ids = {1, 2}
  MaxCommits = 4
  MaxEvents = 2
  Env = {"poll", "silent", "remove", "drop", "fail", "navigate"}
INVARIANTS NoGhost
PROPERTIES FreshReflects Converges
CHECK_DEADLOCK FALSE
