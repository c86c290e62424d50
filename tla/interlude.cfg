\* A frame that sleeps and frames that answer; a hub that crashes; two images.
SPECIFICATION FairSpec
CONSTANTS
  r1 = r1 i1 = i1 i2 = i2
  None = None
  Time = {60, 300}
  Default = 60
  Parked = 630
  ParkIsNever = FALSE
  Image = {i1, i2}
  Fewer = {i1}
  Every = {1}
  Enables = {TRUE, FALSE}
  Release = {r1}
  Flap = 2
  Hasty = FALSE
  Frames <- MCFrames
  MayCrash = TRUE
INVARIANTS RestoreKnown ConductsParked SlotHoldsImage NoTrace
PROPERTIES HandedBack
