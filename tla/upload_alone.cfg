SPECIFICATION FairSpec
CONSTANTS
  d1 = d1 u1 = u1 u2 = u2 v1 = v1 v1rc = v1rc js = js css = css
  Uploads = {u1}
  Deletes = {}
  Folders = {v1}
  TextPrefix <- NoPrefix
  Files = {js, css}
  Compressible = {js, css}
  Encodings = {"br", "gz"}
  Identity = "identity"
  Archives <- MixedArchives
  CompressionEnabled = TRUE
  EgLimit = 2
  CompressionSlots = 1
  NoUpload = NoUpload
  MaxIoErrors = 1
  MaxProbeErrors = 1
  MaxDisconnects = 1
  MaxCrashes = 1
INVARIANTS TypeOK DisconnectIsRolledBack
PROPERTIES RequestsAnswered
CHECK_DEADLOCK FALSE
