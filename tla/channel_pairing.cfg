\* A connection may be lost between the opening of its file channel and its first request.
SPECIFICATION Spec
CONSTANTS
  p = p q = q
  Photo = {p, q}
  Held = {q}
  Embedded = {q}
  Sessions = 2
  Ops = 3
  Vanishes = TRUE
  None = None
INVARIANT Paired
CHECK_DEADLOCK FALSE
