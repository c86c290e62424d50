\* A connected frame, offline at times, a hub that restarts, an asset that never decodes, and
\* PUTs that are refused for a photo of the synced folder.
SPECIFICATION FairSpec
CONSTANTS
  a1 = a1 a2 = a2 k1 = k1 k2 = k2 u1 = u1 p1 = p1 f1 = f1
  None = None
  Slug <- MCSlug
  Immich = {a1, a2}
  Key = {k1, k2}
  Folder = {f1}
  Explicit <- OwnNames
  UploadKey = {}
  ImportKey = {}
  Puttable = {a1, a2}
  Listing <- AnyListing
  Bad = {a2}
  Served = FALSE
  BatchLimit = 2
  MayCrash = TRUE
PROPERTIES DesiredDelivered
