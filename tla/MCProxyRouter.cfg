SPECIFICATION Spec
CONSTANTS
  a1 = a1
  a2 = a2
  t1 = t1
  t2 = t2
  k1 = k1
  k2 = k2
  k3 = k3
  k4 = k4
  Agents <- MCAgents
  Targets <- MCTargets
  Tokens <- MCTokens
  NoToken = NoToken
  NoSpec = NoSpec
INVARIANTS
  MapsInverse
  SavedCollisionFree
PROPERTIES
  DeadStayDead
  ImplementsRouteTable
