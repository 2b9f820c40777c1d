SPECIFICATION Spec
CONSTANTS
  s1 = s1
  s2 = s2
  r1 = r1
  r2 = r2
  i1 = i1
  i2 = i2
  p1 = p1
  p2 = p2
  Scans = {s1}
  Resources = {r1, r2}
  Snapshots <- MCSnapshots
  AuthErrors = {TRUE, FALSE}
  Frameworks = {"drantiq", "cis"}
  Primary = "drantiq"
  AssetLimit = 2
  None = None
  MaxFaults = 1
  MaxCrashes = 0
  IngestWorkers = {i1}
  PolicyWorkers = {p1, p2}
PROPERTIES
  TerminalIsFinal
CHECK_DEADLOCK FALSE
