SPECIFICATION FairSpec
CONSTANTS
  Task = {a, b}
  MaxTasks = 4
INVARIANTS
  NoneLost
PROPERTIES
  ImplementsTaskQueue
