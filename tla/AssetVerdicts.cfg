SPECIFICATION Spec
CONSTANTS
  Missing = Missing
  Absent = Absent
  Snapshots <- MCSnapshots
  Policies <- MCPolicies
INVARIANTS
  EveryResourceIsJudged
  RelationshipsConnect
  UndeliveredFailsClosed
  OrderIsIrrelevant
CHECK_DEADLOCK FALSE
