SPECIFICATION Spec
CONSTANTS
  Missing = Missing
  Absent = Absent
  Snapshots <- MCSnapshots
  Policies <- MCPolicies
INVARIANT MissingSettingFails
CHECK_DEADLOCK FALSE
