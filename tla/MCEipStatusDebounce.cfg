SPECIFICATION Spec
CONSTANTS
  Threads <- FewThreads
  Published <- FewPublished
  PersistTun = TRUE
  Delay = 2
  MaxTasks = 2
PROPERTIES
  Debounced
