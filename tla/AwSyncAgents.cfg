CONSTANTS
  Agents = {"codex", "agy"}
  Files <- MCFiles
  Owner <- MCOwner
  Json <- MCJson
  Rendering <- MCRendering
  Slices = {"staff", "admins"}
  MaxVersion = 1
  MaxTime = 1
  Keys = {k1}
  MaxBudget = 2
  Replay = FALSE
  None = None
  Junk = Junk
SPECIFICATION FairSpec
INVARIANTS TypeOK StatusIsTrue
PROPERTIES PruneSparesOthers Converges
CHECK_DEADLOCK FALSE
