SPECIFICATION FairSpec
CONSTANTS
  g1 = g1 g2 = g2 d1 = d1
  Versions <- TwoPatches
  Requested <- MinorAndPinned
  Readers = {g1, g2}
  Deletes = {d1}
  MaxPublished = 2
  MaxErrors = 1
INVARIANTS StaleOnlyIfExcused
PROPERTIES CacheConverges
