\* Three callers, one of them quick; hang-ups, releases and a pool that is closed.
SPECIFICATION FairSpec
CONSTANTS
  c1 = c1 c2 = c2 c3 = c3
  Caller = {c1, c2, c3}
  Quick = {c3}
  Releases = TRUE
  MayClose = TRUE
INVARIANTS UnavailableNeverRan
PROPERTIES OneAtATime EveryQueuedAnswered
\* Every caller asks once; after that a closed keeper has nothing left to do.
CHECK_DEADLOCK FALSE
