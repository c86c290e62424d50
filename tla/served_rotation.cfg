\* Three photos; a short, a long and an unreadable wake interval; two user actions.
SPECIFICATION FairSpec
CONSTANTS
  Photo = {1, 2, 3}
  None = None
  Wakes = {0, 8}
  Garbled = Garbled
  Default = 4
  MinGap = 1
  MaxGap = 3
  Edits = 2
INVARIANTS OncePerWake AckedIsShown
PROPERTIES EveryPhotoShown
