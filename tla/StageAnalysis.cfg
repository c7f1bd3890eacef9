SPECIFICATION StageSpec
CONSTANT
  Null = Null
  Unit = 6000
  Discounts <- MCDiscounts
  ChannelTopK = 3
  FusionTopK = 3
  CoarseTopK = 2
  RrfK = 60
  RrfScale = 238266
  Cutoff = 2
  ShortCutoff = 1
  WorstFloor = 120
  RateCeiling = 50
  Inputs <- MCInputs
  ExampleLimit = 2
  LastRevision = 2
  MaxLosses = 1
INVARIANT StageTypeOK
INVARIANT EvidenceAgrees
INVARIANT AnswersAgree
INVARIANT ExamplesShowBothSides
CHECK_DEADLOCK FALSE
