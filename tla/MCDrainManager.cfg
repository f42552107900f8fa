CONSTANTS
  o1 = o1
  o2 = o2
  o3 = o3
  d1 = d1
  d2 = d2
  Objects <- MCObjects
  Dynamic = {d1, d2}
  Feeds <- MCFeeds
SPECIFICATION FairSpec
INVARIANTS DrainedIsQuiescent CountIsOwed ScriptNeverPanics
PROPERTIES DrainFinishes
