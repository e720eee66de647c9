SPECIFICATION Spec
CONSTANTS
  UserVersions = {1, 2}
  OurVersions = {11, 12}
  Absent = Absent
  MaxEdits = 0
  MaxThrows = 0
  MaxCrashes = 0
INVARIANTS
  RestoreUndoesTakeover
