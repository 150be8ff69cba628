\* The stores of the callback become visible in any order.
SPECIFICATION Spec
CONSTANTS
  Events = {cmd, user}
  UserEvents = {user}
  CallbackTypes <- MCComplete
  Addresses = {a1, a2}
  Null = Null
  Threads = {d1}
  MaxPending = 1
  InOrderStores = FALSE
  DeletesPending = FALSE
CHECK_DEADLOCK FALSE
INVARIANT
  CheckTruthful
