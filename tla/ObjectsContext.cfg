\* Contexts, queues, events, programs and kernels; the driver counts the
\* application's references only.
SPECIFICATION Spec
CONSTANTS
  Handles = {1, 2, 3, 4, 5, 6}
  Platforms <- MCPlatforms
  RootDevices <- MCRootDevices
  PlatformOf <- MCPlatformOf
  Uds = {u1, u2, u3, u4, u5}
  NoUd = NoUd
  Created = {"context", "queue", "event", "program", "kernel"}
  Released = {"context", "program"}
  MaxRefs = 2
  MaxBatch = 2
  CountImplicit = FALSE
  AllocMayFail = FALSE
SYMMETRY UdSymmetry
CHECK_DEADLOCK FALSE
INVARIANTS
  TypeOK
  ParentValid
  TreeMatchesValid
  OwnerResolves
  NothingLeaked
  ReleasedInvalid
PROPERTY
  DeletesSubtree
