SPECIFICATION GatewaySpec
CONSTANTS
  Names = {n1}
  Versions = {1}
  Conns = {1, 2}
  Requests = {q1}
  MaxChanges = 3
  MaxUnclosed = 1
INVARIANTS
  OffStopsChildren
CHECK_DEADLOCK FALSE
