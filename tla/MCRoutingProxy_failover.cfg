SPECIFICATION FairSpec
CONSTANTS
  r1 = r1
  r2 = r2
  s1 = s1
  s2 = s2
  s3 = s3
  c1 = c1
  c2 = c2
  Reqs = {r1, r2}
  Seats = {s1, s2, s3}
  DriverSeats = {s3}
  Convs = {c1}
  Configs <- OrderedThree
  None = None
  MaxSticks = 1
  MaxAnswers = 0
  MaxEdits = 1
  MaxThrows = 1
INVARIANTS
  TriesEveryMember
PROPERTIES
  EveryRequestEnds
CHECK_DEADLOCK FALSE
