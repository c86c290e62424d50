\* Two jobs, one failure, one change of the frame; a folder that holds one of two photos.
SPECIFICATION FairSpec
CONSTANTS
  n1 = n1  n2 = n2  b = b o = o
  Name = {n1, n2, b}
  Owned = {b}
  Unreadable = {}
  Folder = {"f"}
  Arranged <- MCArranged
  Photos = "photos"
  All = "all"
  Original = {o}
  NameOf <- MCNameOf
  Alike <- MCAlike
  Jobs = 2
  Faults = 1
  Edits = 1
  None = None
INVARIANTS OneAlbumPerName MirrorsFolders CleanIsComplete
PROPERTY EveryJobEnds
CHECK_DEADLOCK FALSE
