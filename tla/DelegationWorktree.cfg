SPECIFICATION Spec
CONSTANTS
  t1 = t1
  root = root
  coder = coder
  none = none
  h1 = h1
  c1 = c1
  promoter = promoter
  Tasks = {t1}
  Roots = {root}
  Keys = {coder}
  Assignments = {none}
  Children = {0, 1, 2}
  Executions <- Exec
  MaxRunning = 1
  PassLimit = 1
  MaxSessions = 2
  Handlers = {h1}
  Callers = {c1}
  Promoter = promoter
  MaxCount = 1
  MaxCalls = 2
  Tools = {"background", "foreground", "continue", "output", "cancel", "cancelAll"}
  Modes = {"worktree"}
  TinyTasks = {}
  Failures = {"child", "root", "rejected"}
INVARIANTS MergedIsTrue
PROPERTIES OutcomesFixed ForegroundEnds
CHECK_DEADLOCK FALSE
