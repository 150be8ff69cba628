\* Deletions and lua_close end if no command waits for a user event; a queue that may run
\* its commands out of order, and enqueue_svm_free, which may fail in the middle.
SPECIFICATION LiveSpec
CONSTANTS
  Context = ctx
  Queues = {q1}
  InOrder = {}
  UserEvents = {}
  Commands = {c1, c2}
  Svms = {svm}
  Hostmems = {mem}
  Nothing = Nothing
  SvmFree = TRUE
  Careful = TRUE
CHECK_DEADLOCK FALSE
PROPERTIES
  DeletionEnds
  CloseEnds
