\* A served frame: curated and bound assets overlap, names are shared, PUTs are refused.
SPECIFICATION Spec
CONSTANTS
  a1 = a1 a2 = a2 k1 = k1 k2 = k2 u1 = u1 p1 = p1 f1 = f1
  None = None
  Slug <- MCSlug
  Immich = {a1, a2}
  Key = {k1, k2, u1}
  Folder = {f1}
  Explicit <- SharedNames
  UploadKey = {u1}
  ImportKey = {}
  Puttable = {a1, a2, u1}
  Listing <- AnyListing
  Bad = {}
  Served = TRUE
  BatchLimit = 1
  MayCrash = TRUE
INVARIANTS TypeOK ServedFromCache
PROPERTIES EveryChangeQueued
