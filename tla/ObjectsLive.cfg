\* Deletions and lua_close end, and delete the subtree and nothing else.
SPECIFICATION LiveSpec
CONSTANTS
  Handles = {1, 2, 3, 4, 5}
  Platforms <- MCPlatforms
  RootDevices <- MCRootDevices
  PlatformOf <- MCPlatformOf
  Uds = {u1, u2, u3, u4}
  NoUd = NoUd
  Created = {"device", "subdevice", "context", "program", "kernel", "buffer", "subbuffer"}
  Released = {"program"}
  MaxRefs = 1
  MaxBatch = 1
  CountImplicit = FALSE
  AllocMayFail = FALSE
CHECK_DEADLOCK FALSE
PROPERTIES
  DestructorsReturn
  CloseCompletes
