SPECIFICATION Spec
CONSTANTS
  Unit = 6000
  Discounts <- MCDiscounts
  Cutoff = 2
  ShortCutoff = 1
  ExampleLimit = 1
  RateCeiling = 50
  WorstLoss = 1500
  ShortLoss = 120
  Proposals = {p1, p2}
  Codes = {c1, c2}
  Worlds <- MCWorlds
  Threads = {t1, t2}
  Cached = {t1}
  NoActive = NoActive
  Legacy = Legacy
  Migrated = Migrated
  Absent = Absent
  Free = Free
SYMMETRY Symmetry
INVARIANT TypeOK
INVARIANT HistoryIsLineage
INVARIANT OneDecision
INVARIANT CacheIsFresh
PROPERTY ActiveMovesByApproval
