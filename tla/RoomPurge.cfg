CONSTANTS
  r1 = r1
  r2 = r2
  b1 = b1
  b2 = b2
  o1 = o1
  o2 = o2
  Requests = {r1, r2}
  Passes = {b1, b2}
  None = None
  Assets = {a1, a2}
  CallKeys = {k1, k2}
  Ops = {o1, o2}
  MaxPasses = 2
  Budgets <- OneOrBoth
SPECIFICATION FairSpec
CHECK_DEADLOCK FALSE
INVARIANTS TypeOK NothingOrphaned CompletedMeansErased
PROPERTIES TombstoneStays HistoryPurgeIsSelective PurgeCompletes HistoryPurgeEnds
