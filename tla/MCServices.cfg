SPECIFICATION ServicesSpec
CONSTANTS
  UserVersions = {1, 2}
  OurVersions = {11}
  Absent = Absent
  MaxEdits = 2
  MaxThrows = 1
  MaxCrashes = 1
  Accounts = {a1}
  NoAccount = NoAccount
  Refreshes = {r1, r2}
  MaxGrants = 2
  MaxGen = 3
  Ports = {1, 2, 3, 4}
  NoPort = NoPort
  Rebinds = {b1, b2}
  MaxFailures = 2
  Names = {n1}
  Versions = {1, 2}
  Conns = {1, 2}
  Requests = {q1, q2}
  MaxChanges = 2
  MaxUnclosed = 1
  Servers = {s1, s2}
  NoName = NoName
  ToolAgents = {t1}
  Sums = {1, 2}
  KeyValues = {7}
  Dialogs = {d1}
  MaxMoves = 4
  MaxStarts = 3
  StopCalls = {x1}
  MaxTroubles = 1
  MaxBlocks = 3
  MaxMishaps = 2
  MaxSkillEdits = 1
  UsageEvents = {e1, e2, e3}
  CompactThreshold = 1
  MaxSlips = 2
INVARIANTS
  ServicesTypeOK
  RouteResolution
  OriginalSurvives
  SessionsSound
  AgentsReachProxy
  OneServer
  UpstreamsSound
  LibrarySound
  WorkbenchUp
  StreamsSound
  SkillsSound
  UsageKept
PROPERTIES
  RestoreGivesBack
  FilesAsAgreed
  WaitsEnd
CHECK_DEADLOCK FALSE
