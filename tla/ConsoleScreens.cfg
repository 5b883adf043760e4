SPECIFICATION ScreensSpec
CONSTANTS
  MaxVersion = 2
  MaxPolicySteps = 6
  Machines = {m1, m2}
  MaxMachineSteps = 7
  PageSize = 2
  MaxEvent = 5
  MaxAuditSteps = 4
  MaxTokens = 3
  Users = {"u1", "u2"}
  GroupNames = {"a", "b"}
  MaxListed = 2
  MaxChanges = 1
  MaxGroupSteps = 3
INVARIANTS
  KeepsWork AppliedNamesAccepted ListShowsApplied
  RevokedIsGone ListDropsRevoked RecentShowsRevoked
  AuditIsComplete CopiedIsInClipboard
  CountsAreMembers OlderGroupsGiveWay ToggleNamesTheme
CHECK_DEADLOCK FALSE
