CONSTANTS
  Agents = {"codex"}
  Files <- MCFiles
  Owner <- MCOwner
  Json <- MCJson
  Rendering <- MCRendering
  Slices = {"staff"}
  MaxVersion = 2
  MaxTime = 2
  Keys = {k1}
  MaxBudget = 2
  Replay = TRUE
  None = None
  Junk = Junk
SPECIFICATION Spec
PROPERTY NeverGoesBack
CHECK_DEADLOCK FALSE
