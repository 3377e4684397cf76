SPECIFICATION Spec
CONSTANTS
  g1 = g1 g2 = g2 d1 = d1
  Versions <- Neighbours
  Requested <- AliasForms
  Readers = {g1}
  Deletes = {}
  MaxPublished = 3
  MaxErrors = 0
INVARIANTS InvalidationCovers
PROPERTIES AliasIsHighestStable
