SPECIFICATION Spec
CONSTANTS
  Callers = {a1, a2}
  Files = {f1}
  MaxCalls = 3
  MaxExits = 1
INVARIANTS TypeOK OneCountedServer OpenBeforeAsked OwnAnswer
PROPERTIES CallsEnd UnusedServersStop
CHECK_DEADLOCK FALSE
