---------------------------- MODULE EnqueueCalls ----------------------------
(***************************************************************************)
(* The bodies of the functions of enqueue.c, see CallSteps.                *)
(***************************************************************************)
EXTENDS CallSteps

\* What is checked before any memory is allocated, all of it by raising.
Arguments == Check       \* handles, booleans, numbers, pointers, flags
Triplet == Check         \* checksize3
Boundaries == Check      \* checkbufferboundaries

\* The list of the events to wait for is collected, the command is enqueued,
\* the list freed, the error code looked at, and the new event bound.
\* A slip: on an error the list is freed again.
EnqueueFreeingAgain(checks, f) ==
  checks \o <<Optional("we", {}), Call(f, {"we"}), Free({"we"}), Test({"we"}), Bind({})>>
Enqueue(checks, f) ==
  checks \o <<Optional("we", {}), Call(f, {"we"}), Free({"we"}), Check, Bind({})>>

EnqueueReadBuffer == Enqueue(<<Arguments>>, "EnqueueReadBuffer")
EnqueueWriteBuffer == Enqueue(<<Arguments>>, "EnqueueWriteBuffer")
EnqueueCopyBuffer ==
  Enqueue(<<Arguments, Boundaries, Boundaries>>, "EnqueueCopyBuffer")
EnqueueFillBuffer == Enqueue(<<Arguments, Boundaries>>, "EnqueueFillBuffer")

EnqueueReadBufferRect ==
  Enqueue(<<Arguments, Triplet, Triplet, Triplet, Arguments>>, "EnqueueReadBufferRect")
EnqueueWriteBufferRect ==
  Enqueue(<<Arguments, Triplet, Triplet, Triplet, Arguments>>, "EnqueueWriteBufferRect")
EnqueueCopyBufferRect ==
  Enqueue(<<Arguments, Triplet, Triplet, Triplet, Arguments>>, "EnqueueCopyBufferRect")

EnqueueReadImage ==
  Enqueue(<<Arguments, Triplet, Triplet, Arguments>>, "EnqueueReadImage")
EnqueueWriteImage ==
  Enqueue(<<Arguments, Triplet, Triplet, Arguments>>, "EnqueueWriteImage")
EnqueueFillImage == Enqueue(<<Arguments, Triplet, Triplet>>, "EnqueueFillImage")
EnqueueCopyImage ==
  Enqueue(<<Arguments, Triplet, Triplet, Triplet>>, "EnqueueCopyImage")
EnqueueCopyImageToBuffer ==
  Enqueue(<<Arguments, Triplet, Triplet, Arguments>>, "EnqueueCopyImageToBuffer")
EnqueueCopyBufferToImage ==
  Enqueue(<<Arguments, Arguments, Triplet, Triplet>>, "EnqueueCopyBufferToImage")

EnqueueMapBuffer == Enqueue(<<Arguments, Boundaries>>, "EnqueueMapBuffer")
EnqueueMapImage == Enqueue(<<Arguments, Triplet, Triplet>>, "EnqueueMapImage")
EnqueueUnmapMemObject == Enqueue(<<Arguments>>, "EnqueueUnmapMemObject")

EnqueueTask == Enqueue(<<Arguments>>, "EnqueueNDRangeKernel")
EnqueueMarkerWithWaitList == Enqueue(<<Arguments>>, "EnqueueMarkerWithWaitList")
EnqueueBarrierWithWaitList == Enqueue(<<Arguments>>, "EnqueueBarrierWithWaitList")

\* (A slip: the entry point is not looked at.)
EnqueueSVMMapUnchecked == Enqueue(<<Arguments>>, "EnqueueSVMMap")
EnqueueSVMMap == Enqueue(<<Arguments, Require("EnqueueSVMMap")>>, "EnqueueSVMMap")
EnqueueSVMUnmap ==
  Enqueue(<<Arguments, Require("EnqueueSVMUnmap")>>, "EnqueueSVMUnmap")
EnqueueSVMMemcpy ==
  Enqueue(<<Arguments, Require("EnqueueSVMMemcpy")>>, "EnqueueSVMMemcpy")
EnqueueSVMMemFill ==
  Enqueue(<<Arguments, Require("EnqueueSVMMemFill")>>, "EnqueueSVMMemFill")

(***************************************************************************)
(* The bindings of the svms are destroyed one after the other before the   *)
(* command that frees them is enqueued.  "svm" is the svm_t of an element, *)
(* "svm_ud" says that userdata() found its binding, which it does not for  *)
(* an svm that is twice in the list; SVMFree is checked by freesvm.        *)
(***************************************************************************)
EnqueueSVMFree == <<
  Arguments, Require("EnqueueSVMFree"),
  Required("svms", {}),
  Required("ptrs", {"svms"}),
  {Go, [Gets("svm") EXCEPT !.sets = {"svm_ud"}]},
  {[Go EXCEPT !.needs = {"svm_ud"}, !.uses = {"svms", "ptrs"}]},
  Require("SVMFree"),
  Call("SVMFree", {"svms"}),
  Optional("we", {"svms", "ptrs"}),
  Call("EnqueueSVMFree", {"ptrs", "we"}),
  Free({"svms", "ptrs"}), Free({"we"}), Check, Bind({})>>

\* The macros CLEANUP of the functions below free all the blocks they name,
\* those not allocated yet being NULL.
MigrateMemObjects(f) == <<
  Required("mem_objects", {}),
  Optional("we", {"mem_objects", "we"}),
  Call(f, {"mem_objects", "we"}),
  Free({"mem_objects", "we"}), Check, Bind({})>>

EnqueueMigrateMemObjects ==
  <<Arguments>> \o MigrateMemObjects("EnqueueMigrateMemObjects")
EnqueueAcquireGLObjects ==
  <<Arguments, Require("EnqueueAcquireGLObjects")>>
    \o MigrateMemObjects("EnqueueAcquireGLObjects")
EnqueueReleaseGLObjects ==
  <<Arguments, Require("EnqueueReleaseGLObjects")>>
    \o MigrateMemObjects("EnqueueReleaseGLObjects")

EnqueueSVMMigrateMem ==
  LET cleanup == {"svms", "offsets", "sizes", "ptrs"} IN <<
  Arguments, Require("EnqueueSVMMigrateMem"),
  Required("svms", {}),
  Required("offsets", cleanup), Test(cleanup),
  Optional("sizes", cleanup), Test(cleanup),
  Required("ptrs", cleanup), Use({"svms", "offsets"}),
  Optional("we", cleanup),
  Call("EnqueueSVMMigrateMem", {"ptrs", "sizes", "we"}),
  Free(cleanup), Free({"we"}), Check, Bind({})>>

\* Here CLEANUP frees the wait list as well, and is followed by Free(L, we).
EnqueueNDRangeKernel ==
  LET cleanup == {"global_work_offset", "global_work_size", "local_work_size", "we"} IN <<
  Arguments,
  Optional("global_work_offset", cleanup), Test(cleanup),
  Optional("global_work_size", cleanup), Test(cleanup),
  Optional("local_work_size", cleanup), Test(cleanup),
  Optional("we", cleanup),
  Call("EnqueueNDRangeKernel", cleanup),
  Free(cleanup), Free({"we"}), Check, Bind({})>>

EnqueueScripts == [
  EnqueueReadBuffer |-> EnqueueReadBuffer,
  EnqueueWriteBuffer |-> EnqueueWriteBuffer,
  EnqueueCopyBuffer |-> EnqueueCopyBuffer,
  EnqueueFillBuffer |-> EnqueueFillBuffer,
  EnqueueReadBufferRect |-> EnqueueReadBufferRect,
  EnqueueWriteBufferRect |-> EnqueueWriteBufferRect,
  EnqueueCopyBufferRect |-> EnqueueCopyBufferRect,
  EnqueueReadImage |-> EnqueueReadImage,
  EnqueueWriteImage |-> EnqueueWriteImage,
  EnqueueFillImage |-> EnqueueFillImage,
  EnqueueCopyImage |-> EnqueueCopyImage,
  EnqueueCopyImageToBuffer |-> EnqueueCopyImageToBuffer,
  EnqueueCopyBufferToImage |-> EnqueueCopyBufferToImage,
  EnqueueMapBuffer |-> EnqueueMapBuffer,
  EnqueueMapImage |-> EnqueueMapImage,
  EnqueueUnmapMemObject |-> EnqueueUnmapMemObject,
  EnqueueTask |-> EnqueueTask,
  EnqueueMarkerWithWaitList |-> EnqueueMarkerWithWaitList,
  EnqueueBarrierWithWaitList |-> EnqueueBarrierWithWaitList,
  EnqueueSVMMap |-> EnqueueSVMMap,
  EnqueueSVMUnmap |-> EnqueueSVMUnmap,
  EnqueueSVMMemcpy |-> EnqueueSVMMemcpy,
  EnqueueSVMMemFill |-> EnqueueSVMMemFill,
  EnqueueSVMFree |-> EnqueueSVMFree,
  EnqueueMigrateMemObjects |-> EnqueueMigrateMemObjects,
  EnqueueAcquireGLObjects |-> EnqueueAcquireGLObjects,
  EnqueueReleaseGLObjects |-> EnqueueReleaseGLObjects,
  EnqueueSVMMigrateMem |-> EnqueueSVMMigrateMem,
  EnqueueNDRangeKernel |-> EnqueueNDRangeKernel]
=============================================================================
