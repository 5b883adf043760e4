CONSTANTS
  Agents = {"codex", "agy"}
  Files <- MCFiles
  Owner <- MCOwner
  Json <- MCJson
  Rendering <- MCRendering
  Slices = {"staff"}
  MaxVersion = 1
  MaxTime = 1
  Keys = {k1}
  MaxBudget = 1
  Replay = FALSE
  None = None
  Junk = Junk
SPECIFICATION Spec
PROPERTY ReenrollLeavesFile
CHECK_DEADLOCK FALSE
