SPECIFICATION FairSpec
CONSTANTS
  Stills <- MCStills
  Mattes <- MCMattes
  FrameWidth = 2
  FrameHeight = 1
  FrameCounts = {2}
  Masks <- MCMasks
  NormalizeConfigs <- MCNormalize
  ColumnCounts = {1, 2, 3}
  MaxOps = 4
  MaxStillOps = 2
  MaxPolls = 1
INVARIANTS SheetMatchesMetadata SubjectStaysPut VideoOrSheet
PROPERTIES SpecksErased CallReturns
CHECK_DEADLOCK FALSE
