SPECIFICATION Spec
CONSTANTS
  t1 = t1
  root = root
  coder = coder
  none = none
  h1 = h1
  c1 = c1
  promoter = promoter
  Tasks = {t1}
  Roots = {root}
  Keys = {coder}
  Assignments = {none}
  Children = {0, 1}
  Executions <- Exec
  MaxRunning = 1
  PassLimit = 1
  MaxSessions = 1
  Handlers = {h1}
  Callers = {c1}
  Promoter = promoter
  MaxCount = 2
  MaxCalls = 2
  Tools = {"background", "cancel"}
  Modes = {"direct"}
  TinyTasks = {}
  Failures = {}
PROPERTIES WaiverStands
CHECK_DEADLOCK FALSE
