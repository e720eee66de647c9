SPECIFICATION Spec
CONSTANTS
  r1 = r1
  r2 = r2
  s1 = s1
  s2 = s2
  s3 = s3
  c1 = c1
  c2 = c2
  Reqs = {r1, r2}
  Seats = {s1, s2}
  DriverSeats = {}
  Convs = {c1, c2}
  Configs <- RotateOrLeastUsed
  None = None
  MaxSticks = 1
  MaxAnswers = 2
  MaxEdits = 0
  MaxThrows = 0
SYMMETRY Symmetry
INVARIANTS
  SticksSound
  StickIsLastAnswerer
PROPERTIES
  RestingTriedLast
  RotateMovesOn
CHECK_DEADLOCK FALSE
