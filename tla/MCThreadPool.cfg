SPECIFICATION Spec
CONSTANTS
  Task = {k1, k2, k3}
  Worker = {w1, w2}
  NoTask = NoTask
PROPERTIES
  TasksFinish
  DestructorReturns
  ImplementsTaskPool
CHECK_DEADLOCK FALSE
