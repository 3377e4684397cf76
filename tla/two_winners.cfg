SPECIFICATION Spec
CONSTANTS
  d1 = d1 u1 = u1 u2 = u2 v1 = v1 v1rc = v1rc js = js css = css
  Uploads = {u1, u2}
  Deletes = {}
  Folders = {v1}
  TextPrefix <- NoPrefix
  Files = {js, css}
  Compressible = {js}
  Encodings = {}
  Identity = "identity"
  Archives <- TwoEntries
  CompressionEnabled = TRUE
  EgLimit = 2
  CompressionSlots = 1
  NoUpload = NoUpload
  MaxIoErrors = 0
  MaxProbeErrors = 0
  MaxDisconnects = 0
  MaxCrashes = 0
CHECK_DEADLOCK FALSE
INVARIANT LandsEntirely
