SPECIFICATION RTSpec
CONSTANT MaxTasks = 3
INVARIANTS
  ReadyMeansDone
  RunsAcceptedOnce
PROPERTIES
  RefusedOnlyWhileClearing
  DestructorReturns
  SleepingWorkerRuns
