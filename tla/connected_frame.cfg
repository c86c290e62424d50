\* A connected frame: an asset curated and bound, an upload, a picture of its own, erasures.
SPECIFICATION Spec
CONSTANTS
  a1 = a1 a2 = a2 k1 = k1 k2 = k2 u1 = u1 p1 = p1 f1 = f1
  None = None
  Slug <- MCSlug
  Immich = {a1}
  Key = {k1, u1, p1}
  Folder = {f1}
  Explicit <- OwnNames
  UploadKey = {u1}
  ImportKey = {p1}
  Puttable = {a1}
  Listing <- AnyListing
  Bad = {}
  Served = FALSE
  BatchLimit = 2
  MayCrash = TRUE
INVARIANTS ImportedNotResent
PROPERTIES LandsWhatItMarks DeltaOnly
