CONSTANTS
  Agents = {"codex"}
  Files <- MCFiles
  Owner <- MCOwner
  Json <- MCJson
  Rendering <- MCRendering
  Slices = {"staff"}
  MaxVersion = 1
  MaxTime = 1
  Keys = {k1, k2}
  MaxBudget = 2
  Replay = FALSE
  None = None
  Junk = Junk
SPECIFICATION Spec
INVARIANTS OwnWritesAreNotDrift
PROPERTIES TrustStays PinFollowsHandover
SYMMETRY KeySymmetry
CHECK_DEADLOCK FALSE
