\* Three tasks and room for one: trimming meets queued, running and ended ones, and all end.
SPECIFICATION Spec
CONSTANTS
  TaskId = {t1, t2, t3}
  MaxTasks = 1
INVARIANTS
  TableIsSound
  StopInTimeCancels
PROPERTIES
  ExcessIsActive
  EveryTaskEnds
  LifecycleSpec
CHECK_DEADLOCK FALSE
