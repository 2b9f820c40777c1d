SPECIFICATION FairSpec
CONSTANTS
  s1 = s1
  s2 = s2
  r1 = r1
  r2 = r2
  i1 = i1
  i2 = i2
  p1 = p1
  p2 = p2
  Scans = {s1, s2}
  Resources = {r1}
  Snapshots <- MCSomeResource
  AuthErrors = {FALSE}
  Frameworks = {"drantiq"}
  Primary = "drantiq"
  AssetLimit = 2
  None = None
  MaxFaults = 1
  MaxCrashes = 1
  IngestWorkers = {i1}
  PolicyWorkers = {p1}
INVARIANTS
  FinalStatusMatchesCollection
PROPERTIES
  ReopenedOnlyAfterRaise
  LifecycleRefined
  RaisedCallsAreReported
  PollingEnds
CHECK_DEADLOCK FALSE
