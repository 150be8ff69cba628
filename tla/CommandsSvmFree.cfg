\* The script calls enqueue_svm_free.
SPECIFICATION Spec
CONSTANTS
  Context = ctx
  Queues = {q1}
  InOrder = {q1}
  UserEvents = {}
  Commands = {c1}
  Svms = {svm}
  Hostmems = {}
  Nothing = Nothing
  SvmFree = TRUE
  Careful = TRUE
CHECK_DEADLOCK FALSE
INVARIANT
  FreedOnce
