\* Mem objects and their destructor callbacks; the driver counts the references of sub buffers and images too.
SPECIFICATION Spec
CONSTANTS
  Handles = {1, 2, 3, 4, 5, 6}
  Platforms <- MCPlatforms
  RootDevices <- MCRootDevices
  PlatformOf <- MCPlatformOf
  Uds = {u1, u2, u3, u4, u5}
  NoUd = NoUd
  Created = {"context", "buffer", "subbuffer", "image"}
  Released = {"buffer", "image"}
  MaxRefs = 2
  MaxBatch = 1
  CountImplicit = TRUE
  AllocMayFail = FALSE
SYMMETRY UdSymmetry
CHECK_DEADLOCK FALSE
INVARIANTS
  Inv
  NothingLeaked
  BaseAlive
  BindingAlive
