SPECIFICATION Spec
CONSTANTS
  w1 = w1
  w2 = w2
  Workers <- MCWorkers
  Jobs = 3
  Capacity = 1
  Chunks <- MCChunks
INVARIANTS OutputIsComplete DepfileOutlivesCommand NothingLeaks
PROPERTY Terminates
CHECK_DEADLOCK FALSE
