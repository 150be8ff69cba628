\* Sub devices of any depth, and the other types of children; the allocations may fail half way.
SPECIFICATION Spec
CONSTANTS
  Handles = {1, 2, 3, 4, 5}
  Platforms <- MCPlatforms
  RootDevices <- MCRootDevices
  PlatformOf <- MCPlatformOf
  Uds = {u1, u2, u3, u4}
  NoUd = NoUd
  Created = {"device", "subdevice", "context", "queue", "pipe", "sampler", "svm", "hostmem"}
  Released = {"subdevice", "pipe"}
  MaxRefs = 2
  MaxBatch = 2
  CountImplicit = FALSE
  AllocMayFail = TRUE
SYMMETRY UdSymmetry
CHECK_DEADLOCK FALSE
INVARIANTS
  Inv
