\* Two photos, an album besides the library's, three requests, one restart.
SPECIFICATION FairSpec
CONSTANTS
  one = one two = two
  Photo = {one, two}
  Edits = 3
  Crashes = 1
  None = None
INVARIANTS Survives StaysRemoved NothingDangles
PROPERTIES EveryPhotoShown
CHECK_DEADLOCK FALSE
