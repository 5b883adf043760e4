CONSTANTS
  Routes = {"overview", "machines"}
  Slots = {1, 2, 3}
  MaxSessions = 2
  MaxEvents = 3
SPECIFICATION LiveSpec
INVARIANTS SignedOutStays
PROPERTIES RefusedLeavesConsole Quiesces
CHECK_DEADLOCK FALSE
