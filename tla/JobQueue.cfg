SPECIFICATION Spec
CONSTANTS
  MaxJobs = 3
  Ticks = {1}
  Waits = {TRUE}
  Priorities = {1, 2}
  Concurrency = 1
  MaxQueueSize = 1
  MaxRetries = 1
INVARIANTS TypeOK WorkConserving PromisesHonest
PROPERTIES ServiceOrder QuietAfterShutdown PromisesSettle
CHECK_DEADLOCK FALSE
