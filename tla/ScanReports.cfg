SPECIFICATION Spec
CONSTANTS
  Matches <- MCMatches
  Inventory <- MCInventory
  PolicySeverity <- MCPolicySeverity
  CustomerVisible <- MCCustomerVisible
  Controls <- MCControls
  FrameworkOf <- MCFrameworkOf
  PoliciesOf <- MCPoliciesOf
  ManualOnes = {"f_manual"}
  NoFramework = NoFramework
  FindingsLimit = 3
  MaxFaults = 1
INVARIANTS
  ControlsFollowFindings
  ScoreMatchesControls
  MatrixIsWhole
  CompletedReportsAreWhole
  CoverageAddsUp
