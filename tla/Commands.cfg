\* A queue, a user event, an svm; the script does not free memory that commands use.
SPECIFICATION Spec
CONSTANTS
  Context = ctx
  Queues = {q1}
  InOrder = {q1}
  UserEvents = {user}
  Commands = {c1, c2}
  Svms = {svm}
  Hostmems = {}
  Nothing = Nothing
  SvmFree = FALSE
  Careful = TRUE
SYMMETRY Symmetry
CHECK_DEADLOCK FALSE
INVARIANTS
  TypeOK
  QueueDrained
  MemoryOutlivesCommands
  FreedOnce
PROPERTIES
  LifetimesKept
