SPECIFICATION Spec
CONSTANTS
  d1 = d1 u1 = u1 u2 = u2 v1 = v1 v1rc = v1rc js = js css = css
  Uploads = {u1, u2}
  Deletes = {d1}
  Folders = {v1, v1rc}
  TextPrefix <- RcPrefix
  Files = {js, css}
  Compressible = {js}
  Encodings = {}
  Identity = "identity"
  Archives <- TwoEntries
  CompressionEnabled = TRUE
  EgLimit = 2
  CompressionSlots = 1
  NoUpload = NoUpload
  MaxIoErrors = 1
  MaxProbeErrors = 0
  MaxDisconnects = 1
  MaxCrashes = 1
SYMMETRY UploadSymmetry
INVARIANTS FailedUploadLeavesNothing PublishedStays
PROPERTIES OtherVersionsUntouched CreatedIsExact DeletedIsEmpty
CHECK_DEADLOCK FALSE
