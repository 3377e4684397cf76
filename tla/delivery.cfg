SPECIFICATION FairSpec
CONSTANTS
  Versions = {1, 2}
  Scenes <- AliasAndPinned
  MaxUploads = 2
  MaxTime = 1
  MaxErrors = 1
INVARIANT NoRefusedCoding
PROPERTIES NotModifiedIsTrue NegotiationIsRight AliasCopiesConverge
