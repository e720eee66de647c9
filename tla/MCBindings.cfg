SPECIFICATION Spec
CONSTANTS
  claude = claude
  codex = codex
  p1 = p1
  p2 = p2
  g1 = g1
  m1 = m1
  AgentOrder <- OneAgent
  Accepted <- MCAccepted
  Providers = {p1, p2}
  Groups = {g1}
  Shapes <- MCShapes
  MemberLists <- MCMemberLists
  Profiles <- NoProfiles
  RouteModel = RouteModel
  Ports = {1, 2}
  Tokens = {1, 2, 3, 4, 5}
  NoToken = NoToken
  NoSpec = NoSpec
  None = None
  Foreign = Foreign
  MaxFaults = 0
  MaxEdits = 0
INVARIANTS
  TypeOK
  RestartKeepsAddresses
  RoutesFollowBindings
  ProxyModeHidesKeys
  NoFalseDrift
