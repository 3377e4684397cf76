SPECIFICATION FairSpec
CONSTANTS
  Segments <- SegmentNames
  NFC <- Composed
  MaxEntries = 3
  MaxUncompressedSize = 5
  MaxUint = 7
  Zips <- SmallZips
  Place <- Places
  SiblingOf <- Siblings
  Compressible <- Scripts
  Limit = 1
  MaxListErrors = 1
  MaxDeletes = 1
INVARIANTS KeysStayInside LimitsHold WrapperIsTransparent PagesAreComplete
  VariantsStayHidden
PROPERTIES BrowsingEnds
CHECK_DEADLOCK FALSE
