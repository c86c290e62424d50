\* Two albums, one of which the photo server has lost in the meantime, two folders.
SPECIFICATION FairSpec
CONSTANTS
  a1 = a1 a2 = a2 f1 = f1 f2 = f2 p1 = p1 p2 = p2
  Album = {a1, a2}
  Folder = {f1, f2}
  Photo = {p1}
  Gone = {a2}
  Keep = 1
  Jobs = 2
  Edits = 2
  None = None
INVARIANTS RunningKnown
PROPERTIES CuratedStays Converges
