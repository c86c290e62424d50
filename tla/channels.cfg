\* A photo that reads may cut short, one that is uploaded; four operations, three sessions.
SPECIFICATION Spec
CONSTANTS
  p = p q = q
  Photo = {p, q}
  Held = {q}
  Embedded = {q}
  Sessions = 3
  Ops = 4
  Vanishes = FALSE
  None = None
INVARIANTS AnswersOwn PhotoClean ListIntact UploadStored 
CHECK_DEADLOCK FALSE
