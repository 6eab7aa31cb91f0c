SPECIFICATION Spec
CONSTANTS
  t1 = t1
  t2 = t2
  t3 = t3
  root = root
  child = child
  key = key
  exec1 = exec1
  exec2 = exec2
  asg = asg
  Tasks = {t1, t2, t3}
  Roots = {root}
  Children = {child}
  Keys = {key}
  Executions = {exec1, exec2}
  Assignments = {asg}
  Calls <- MCCalls
  Clients = {c1, c2}
  Readers = {r1}
  InitialDisks <- AllDisks
INVARIANT RecordsDurable
