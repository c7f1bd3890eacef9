SPECIFICATION Spec
CONSTANTS
    Handlers = {h1, h2}
    Proposals = {p1, p2}
    Tokens = {t1, t2, t3}
    Revisions = {r1, r2}
    SessionLimit = 2
    SessionTTL = 1
    MaxClock = 1
    CacheLimit = 1
    None = None
    Baseline = Baseline
SYMMETRY Symmetry
INVARIANT TypeOK
INVARIANT CachedProposalsAreOpen
INVARIANT OneAnalysisAtATime
PROPERTY SessionsAreHonoured
