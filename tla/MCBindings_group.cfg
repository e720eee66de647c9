SPECIFICATION Spec
CONSTANTS
  claude = claude
  codex = codex
  p1 = p1
  p2 = p2
  g1 = g1
  m1 = m1
  AgentOrder <- OneAgent
  Accepted <- MCAccepted
  Providers = {p1}
  Groups = {g1}
  Shapes <- FaultShapes
  MemberLists <- OneMember
  Profiles <- NoProfiles
  RouteModel = RouteModel
  Ports = {1}
  Tokens = {1, 2, 3, 4, 5}
  NoToken = NoToken
  NoSpec = NoSpec
  None = None
  Foreign = Foreign
  MaxFaults = 1
  MaxEdits = 0
INVARIANTS
  GoneGroupsDropped
