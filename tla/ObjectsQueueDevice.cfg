\* A device is deleted while a queue made for it is in use.
SPECIFICATION Spec
CONSTANTS
  Handles = {1, 2, 3, 4, 5}
  Platforms <- MCPlatforms
  RootDevices <- MCRootDevices
  PlatformOf <- MCPlatformOf
  Uds = {u1, u2, u3, u4}
  NoUd = NoUd
  Created = {"device", "context", "queue"}
  Released = {}
  MaxRefs = 1
  MaxBatch = 1
  CountImplicit = FALSE
  AllocMayFail = FALSE
SYMMETRY UdSymmetry
CHECK_DEADLOCK FALSE
INVARIANT
  QueueDeviceResolves
