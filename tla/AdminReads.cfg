SPECIFICATION Spec
CONSTANTS
  s1 = s1
  s2 = s2
  s3 = s3
  t1 = t1
  t2 = t2
  any = any
  Scans = {s1, s2, s3}
  Tenants = {t1, t2}
  Home <- MCHome
  Limit = 1
  Filters <- MCFilters
  AnyStatus = any
  MaxMoves = 2
  Starts = {"absent", "queued", "collecting", "failed"}
INVARIANTS
  OverviewMissesOnlyHandOffs
  RecentScansAreListed
CHECK_DEADLOCK FALSE
