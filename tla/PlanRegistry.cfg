SPECIFICATION Spec
CONSTANTS
  s1 = s1
  s2 = s2
  Plans = {1, 2}
  Sessions = {s1, s2}
  Ops = {"promote", "archive", "unarchive", "saveActive", "saveDraft", "saveNew"}
  Boards <- MCBoards
  MaxCalls = 2
  MaxCrashes = 1
  MaxEdits = 1
INVARIANTS TypeOK FilesAgree
PROPERTIES GuardedLifecycle CallsEnd
CHECK_DEADLOCK FALSE
