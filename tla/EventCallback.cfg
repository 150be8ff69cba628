\* Two threads of the driver call the callbacks of a command's event and of a user event.
SPECIFICATION Spec
CONSTANTS
  Events = {cmd, user}
  UserEvents = {user}
  CallbackTypes <- MCComplete
  Addresses = {a1, a2}
  Null = Null
  Threads = {d1, d2}
  MaxPending = 2
  InOrderStores = TRUE
  DeletesPending = FALSE
SYMMETRY ThreadSymmetry
CHECK_DEADLOCK FALSE
INVARIANTS
  TypeOK
  CheckTruthful
  NoLostNotification
PROPERTY
  LooksAtomic
