SPECIFICATION Spec
CONSTANTS
  s1 = s1
  s2 = s2
  Plans = {1, 2}
  Sessions = {s1, s2}
  Ops = {"archive", "list"}
  Boards <- MCBoards
  MaxCalls = 2
  MaxCrashes = 0
  MaxEdits = 0
PROPERTIES ArchivedUntilUnarchived
CHECK_DEADLOCK FALSE
