SPECIFICATION RTSpec
CONSTANT MaxTasks = 1
PROPERTIES
  AcceptedIsExecuted
