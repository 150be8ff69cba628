------------------------------ MODULE Queries -------------------------------
(***************************************************************************)
(* The get_xxx_info functions: a string names a query, a switch over the   *)
(* constant it stands for chooses the function that asks OpenCL and pushes *)
(* the value.  A switch is a record: under the name of the function, the   *)
(* queries it is chosen for, each named by its string.  The bodies of the  *)
(* functions chosen are in ProgramCalls and ObjectCalls.                   *)
(***************************************************************************)
EXTENDS Literals

GetPlatformInfo == [
  GetString |-> {"profile", "version", "name", "vendor", "extensions"},
  GetUlong |-> {"host timer resolution"}]

GetDeviceInfo == [
  GetFlags |-> {"type", "single fp config", "double fp config", "half fp config",
    "execution capabilities", "queue on host properties", "queue on device properties",
    "partition affinity domain", "svm capabilities"},
  GetUint |-> {"vendor id", "max compute units", "max work item dimensions",
    "preferred vector width char", "preferred vector width short", "preferred vector width int",
    "preferred vector width long", "preferred vector width float",
    "preferred vector width double", "preferred vector width half",
    "native vector width char", "native vector width short", "native vector width int",
    "native vector width long", "native vector width float", "native vector width double",
    "native vector width half", "max clock frequency", "address bits",
    "max read image args", "max write image args", "max read write image args",
    "max samplers", "image pitch alignment", "image base address alignment",
    "max pipe args", "pipe max active reservations", "pipe max packet size",
    "mem base addr align", "global mem cacheline size", "max constant args",
    "queue on device preferred size", "queue on device max size", "max on device queues",
    "max on device events", "partition max sub devices", "reference count",
    "preferred platform atomic alignment", "preferred global atomic alignment",
    "preferred local atomic alignment", "min data type align size", "max num sub groups"},
  GetUlong |-> {"max mem alloc size", "global mem cache size", "global mem size",
    "max constant buffer size", "local mem size"},
  GetSize |-> {"max work group size", "image2d max width", "image2d max height",
    "image3d max width", "image3d max height", "image3d max depth", "image max buffer size",
    "image max array size", "max parameter size", "max global variable size",
    "global variable preferred total size", "profiling timer resolution",
    "printf buffer size"},
  GetBoolean |-> {"image support", "error correction support", "endian little", "available",
    "compiler available", "linker available", "preferred interop user sync",
    "sub group independent forward progress"},
  GetString |-> {"built in kernels", "name", "vendor", "driver version", "profile", "version",
    "opencl c version", "extensions", "il version"},
  GetMemCacheType |-> {"global mem cache type"}, GetLocalMemType |-> {"local mem type"},
  GetPlatform |-> {"platform"}, GetDevice |-> {"parent device"},
  GetMaxWorkItemSizes |-> {"max work item sizes"},
  GetPartitionProperties |-> {"partition properties"},
  GetPartitionType |-> {"partition type"}]

GetContextInfo == [
  GetUint |-> {"reference count", "num devices"},
  GetDevices |-> {"devices"}, GetProperties |-> {"properties"}]
GetCommandQueueInfo == [
  GetContext |-> {"context"}, GetDevice |-> {"device"}, GetFlags |-> {"properties"},
  GetUint |-> {"reference count", "size"}, GetCommandQueue |-> {"device default"}]

GetMemObjectInfo == [
  GetMemType |-> {"type"}, GetFlags |-> {"flags"}, GetSize |-> {"size", "offset"},
  GetHostPtr |-> {"host ptr"}, GetUint |-> {"map count", "reference count"},
  GetContext |-> {"context"}, GetAssociatedMemObject |-> {"associated memobject"},
  GetBoolean |-> {"uses svm pointer"}]
GetImageInfo == [
  GetImageFormat |-> {"format"}, GetUint |-> {"num mip levels", "num samples"},
  GetSize |-> {"element size", "row pitch", "slice pitch", "width", "height", "depth",
    "array size"}]
GetPipeInfo == [GetUint |-> {"packet size", "max packets"}]
GetSamplerInfo == [
  GetUint |-> {"reference count"}, GetContext |-> {"context"},
  GetBoolean |-> {"normalized coords"}, GetAddressingMode |-> {"addressing mode"},
  GetFilterMode |-> {"filter mode", "mip filter mode"}, GetFloat |-> {"lod min", "lod max"}]

GetProgramInfo == [
  GetUint |-> {"reference count", "num devices"}, GetContext |-> {"context"},
  GetDevices |-> {"devices"}, GetString |-> {"source", "kernel names", "il"},
  GetBinarySizes |-> {"binary sizes"}, GetBinaries |-> {"binaries"},
  GetSize |-> {"num kernels"},
  GetBoolean |-> {"scope global ctors present", "scope global dtors present"}]
GetProgramBuildInfo == [
  GetProgramBuildStatus |-> {"status"}, GetProgramBinaryType |-> {"binary type"},
  GetProgramBuildString |-> {"options", "log"},
  GetProgramBuildSize |-> {"global variable total size"}]

GetKernelInfo == [
  GetString |-> {"function name", "attributes"}, GetUint |-> {"num args", "reference count"},
  GetContext |-> {"context"}, GetProgram |-> {"program"},
  GetSize |-> {"max num sub groups", "compile num sub groups"}]
SetKernelExecInfo == [
  SetSvmPtrs |-> {"svm ptrs"}, SetKernelExecInfoBoolean |-> {"svm fine grain system"}]
GetKernelArgInfo == [
  GetKernelArgAddressQualifier |-> {"address qualifier"},
  GetKernelArgAccessQualifier |-> {"access qualifier"},
  GetKernelArgString |-> {"type name", "name"}, GetKernelArgFlags |-> {"type qualifier"}]
GetKernelWorkGroupInfo == [
  GetKernelWorkGroupSize3 |-> {"global work size", "compile work group size"},
  GetKernelWorkGroupSize |-> {"work group size", "preferred work group size multiple"},
  GetKernelWorkGroupUlong |-> {"local mem size", "private mem size"}]
GetKernelSubGroupInfo == [
  GetSizeList_Size |-> {"max sub group size for ndrange", "sub group count for ndrange"},
  GetSize_SizeList |-> {"local size for sub group count"},
  GetNil_Size |-> {"max num sub groups", "compile num sub groups"}]

\* A slip: a query without its case.
GetEventInfoForgetful == [
  GetCommandQueue |-> {"command queue"}, GetCommandType |-> {"command type"},
  GetUint |-> {"reference count"}, GetExecutionStatus |-> {"command execution status"}]
GetEventInfo == [
  GetCommandQueue |-> {"command queue"}, GetContext |-> {"context"},
  GetCommandType |-> {"command type"}, GetUint |-> {"reference count"},
  GetExecutionStatus |-> {"command execution status"}]
GetEventProfilingInfo == [
  GetProfiling |-> {"command queued", "command submit", "command start", "command end",
    "command complete"}]

GetGLTextureInfo == [
  GetTextureInfoTarget |-> {"texture target"}, GetTextureInfoInt |-> {"mipmap level"},
  GetTextureInfoSize |-> {"num samples"}]
GetGLContextInfo == [
  GetGLContextDevice |-> {"current device"}, GetGLContextDevices |-> {"devices"}]

-----------------------------------------------------------------------------
\* The switch for each type of query.
Switches == [
  platforminfo |-> GetPlatformInfo, deviceinfo |-> GetDeviceInfo,
  contextinfo |-> GetContextInfo, commandqueueinfo |-> GetCommandQueueInfo,
  meminfo |-> GetMemObjectInfo, imageinfo |-> GetImageInfo, pipeinfo |-> GetPipeInfo,
  samplerinfo |-> GetSamplerInfo, programinfo |-> GetProgramInfo,
  programbuildinfo |-> GetProgramBuildInfo, kernelinfo |-> GetKernelInfo,
  kernelexecinfo |-> SetKernelExecInfo, kernelarginfo |-> GetKernelArgInfo,
  kernelworkgroupinfo |-> GetKernelWorkGroupInfo,
  kernelsubgroupinfo |-> GetKernelSubGroupInfo, eventinfo |-> GetEventInfo,
  profilinginfo |-> GetEventProfilingInfo, gltextureinfo |-> GetGLTextureInfo,
  glcontextinfo |-> GetGLContextInfo]

\* The function chosen for a constant, or the default of the switch.
Chosen(type, code) ==
  LET query == Literals[type][code]
      functions == {f \in DOMAIN Switches[type] : query \in Switches[type][f]}
  IN IF functions = {} THEN Unexpected ELSE CHOOSE f \in functions : TRUE

(***************************************************************************)
(* The type of command that OpenCL makes of each function that returns an  *)
(* event.                                                                  *)
(***************************************************************************)
CommandType == [
  EnqueueReadBuffer |-> "read buffer", EnqueueWriteBuffer |-> "write buffer",
  EnqueueCopyBuffer |-> "copy buffer", EnqueueFillBuffer |-> "fill buffer",
  EnqueueReadBufferRect |-> "read buffer rect", EnqueueWriteBufferRect |-> "write buffer rect",
  EnqueueCopyBufferRect |-> "copy buffer rect", EnqueueReadImage |-> "read image",
  EnqueueWriteImage |-> "write image", EnqueueFillImage |-> "fill image",
  EnqueueCopyImage |-> "copy image", EnqueueCopyImageToBuffer |-> "copy image to buffer",
  EnqueueCopyBufferToImage |-> "copy buffer to image", EnqueueMapBuffer |-> "map buffer",
  EnqueueMapImage |-> "map image", EnqueueUnmapMemObject |-> "unmap mem object",
  EnqueueTask |-> "task", EnqueueNDRangeKernel |-> "ndrange kernel",
  EnqueueMarkerWithWaitList |-> "marker", EnqueueBarrierWithWaitList |-> "barrier",
  EnqueueSVMMap |-> "svm map", EnqueueSVMUnmap |-> "svm unmap",
  EnqueueSVMMemcpy |-> "svm memcpy", EnqueueSVMMemFill |-> "svm memfill",
  EnqueueSVMFree |-> "svm free", EnqueueSVMMigrateMem |-> "svm migrate mem",
  EnqueueMigrateMemObjects |-> "migrate mem objects",
  EnqueueAcquireGLObjects |-> "acquire gl objects",
  EnqueueReleaseGLObjects |-> "release gl objects",
  CreateUserEvent |-> "user", CreateEventFromGLsync |-> "gl fence sync object"]

\* Its constant, as far as enums.c knows it, which get_event_info pushes.
CommandTypeCode(f) == enums_check("commandtype", CommandType[f])
=============================================================================
