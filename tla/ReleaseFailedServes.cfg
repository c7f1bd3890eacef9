SPECIFICATION Spec
CONSTANTS
  Proposals = {p1}
  Actions = {a1, a2}
  Handlers = {h1}
  Receipts = {r1}
  MaxTokens = 1
  SyncMayFail = FALSE
  Absent = Absent
  Baseline = Baseline
  NoRevision = NoRevision
  Free = Free
SYMMETRY Symmetry
INVARIANT FailedReleaseNotServing
CHECK_DEADLOCK FALSE
