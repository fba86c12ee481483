CONSTANTS
  v1 = v1
  v2 = v2
  income = income
  None = None
  Unset = None
  Assets = {income}
  BranchManifests <- Branch
  Names = {v1, v2}
  MaxCount = 1
  Thresholds <- ZeroAndHalf
  MinimumSample = 2
  Points = {1, 2, 3}
  MaxWeight = 10
  Bins = 10
  FeatureBaselines <- Baselines
  FeatureWindows <- Currents
SPECIFICATION Spec
INVARIANT ReleaseRecoveryIsQuiet
SYMMETRY VersionSymmetry
CHECK_DEADLOCK FALSE
