\* The polling script sees every status it asked for.
SPECIFICATION LiveSpec
CONSTANTS
  Events = {cmd}
  UserEvents = {}
  CallbackTypes <- MCRunningComplete
  Addresses = {a1}
  Null = Null
  Threads = {d1, d2}
  MaxPending = 1
  InOrderStores = TRUE
  DeletesPending = FALSE
CHECK_DEADLOCK FALSE
PROPERTIES
  NotificationArrives
