SPECIFICATION FairSpec
CONSTANTS
  Proposals = {p1}
  Actions = {a1, a2}
  Handlers = {h1, h2}
  Receipts = {r1}
  MaxTokens = 1
  SyncMayFail = TRUE
  Absent = Absent
  Baseline = Baseline
  NoRevision = NoRevision
  Free = Free
PROPERTY EveryRequestEnds
CHECK_DEADLOCK FALSE
