SPECIFICATION Spec
CONSTANTS
  Rows <- MCRows
  Inventory <- MCInventory
  MaxRows = 4
  PageLimit = 3
  ResourceLimit = 2
  TopN = 2
  MaxItems = 2
INVARIANTS
  SevereFirst
  TopRisksAreTheWorst
  WorstAreNotCut
  CountsMissOnlyTheLesser
  RiskLevelIsTheWorst
CHECK_DEADLOCK FALSE
