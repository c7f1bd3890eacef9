SPECIFICATION Spec
CONSTANTS
  Proposals = {p1, p2}
  Indexes = {i1, i2}
  Callers = {c1, c2}
  Searchers = {s1}
  SyncMayFail = TRUE
  Baseline = Baseline
  NoRevision = NoRevision
  Absent = Absent
  Free = Free
SYMMETRY Symmetry
INVARIANT TypeOK
INVARIANT ServingResolves
INVARIANT SearchNeverMixed
PROPERTY MovesFromWhatWasSeen
