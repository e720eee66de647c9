SPECIFICATION Spec
CHECK_DEADLOCK FALSE
CONSTANTS
  r1 = r1
  r2 = r2
  s1 = s1
  s2 = s2
  s3 = s3
  c1 = c1
  c2 = c2
  Reqs = {r1, r2}
  Seats = {s1, s2}
  DriverSeats = {s1}
  Convs = {c1}
  Configs <- RotateOnly
  None = None
  MaxSticks = 1
  MaxAnswers = 0
  MaxEdits = 0
  MaxThrows = 0
INVARIANTS
  NoMemberLeftUntried
