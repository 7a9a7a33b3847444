SPECIFICATION Spec
CONSTANTS
  OsTypes = {"emt"}
  Singles <- MCSingles
  Repeated <- MCRepeated
  Lists <- MCLists
  NoSchedule = NoSchedule
  Horizon = 5
  Grace = 1
  Day = 3
  MaxChanges = 2
  MaxRestarts = 1
INVARIANTS AcceptedRuns CronsAreAsked
PROPERTIES SingleInWindow RunsOnce
CHECK_DEADLOCK FALSE
