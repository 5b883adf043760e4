CONSTANTS
  Agents = {"claude"}
  Files <- MCFiles
  Owner <- MCOwner
  Json <- MCFiles
  Rendering <- MCRendering
  Fallback = "claude_bundle"
  Slices = {"staff"}
  MaxVersion = 1
  MaxTime = 1
  Keys = {k1}
  MaxBudget = 2
  Replay = FALSE
  None = None
  Junk = Junk
SPECIFICATION LaunchSpec
INVARIANTS EmitsWhatItVerified PinnedLaunchFailsClosed LaunchAgreesWithStatus
CHECK_DEADLOCK FALSE
