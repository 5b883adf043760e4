SPECIFICATION WebSpec
CONSTANTS
  FieldOrder <- MCFieldOrder
  Required = {"name"}
  MaxEdits = 3
  MaxAsks = 2
  Files = {"index", "quickstart"}
  Bodies <- MCBodies
INVARIANTS ThanksAreEarned ErrorsAreShown ProductionIsConfigured AnchorsAreOwn NavReachesAll
PROPERTIES NothingRetyped KeepsPromise
CHECK_DEADLOCK FALSE
