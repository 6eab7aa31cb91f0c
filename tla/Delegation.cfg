SPECIFICATION Spec
CONSTANTS
  t1 = t1
  t2 = t2
  t3 = t3
  root = root
  coder = coder
  none = none
  h1 = h1
  c1 = c1
  promoter = promoter
  Tasks = {t1, t2, t3}
  Roots = {root}
  Keys = {coder}
  Assignments = {none}
  Children = {0, 1, 2, 3}
  Executions <- Exec
  MaxRunning = 1
  PassLimit = 2
  MaxSessions = 3
  Handlers = {h1}
  Callers = {c1}
  Promoter = promoter
  MaxCount = 2
  MaxCalls = 3
  Tools = {"background", "cancel"}
  Modes = {"direct"}
  TinyTasks = {t1}
  Failures = {"child"}
INVARIANTS TypeOK RunningCap NoIdleCapacity
CHECK_DEADLOCK FALSE
