SPECIFICATION FairSpec
CONSTANTS
  t1 = t1
  root = root
  coder = coder
  none = none
  h1 = h1
  h2 = h2
  c1 = c1
  promoter = promoter
  Tasks = {t1}
  Roots = {root}
  Keys = {coder}
  Assignments = {none}
  Children = {0, 1}
  Executions <- Exec
  MaxRunning = 1
  PassLimit = 1
  MaxSessions = 1
  Handlers = {h1, h2}
  Callers = {c1}
  Promoter = promoter
  MaxCount = 2
  MaxCalls = 1
  Tools = {"background", "foreground", "stop"}
  Modes = {"direct","worktree"}
  TinyTasks = {}
  Failures = {"child"}
PROPERTIES ToldWhenOver RootHears
CHECK_DEADLOCK FALSE
