SPECIFICATION Spec
CONSTANTS
  rewritten = rewritten
  source = source
  other = other
  b1 = b1
  b2 = b2
  Synthetic = {rewritten}
  Identity = {source, other}
  BatchOf <- MCBatchOf
  Actors = {owner, stranger}
  MaxAnnotations = 5
  None = None
INVARIANT TypeOK
INVARIANT HistoryIsChain
INVARIANT SealsStayValid
PROPERTY ImplementsLabelSheet
SYMMETRY Symmetry
CHECK_DEADLOCK FALSE
