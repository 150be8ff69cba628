---------------------------- MODULE ObjectCalls -----------------------------
(***************************************************************************)
(* The bodies of the functions of platform.c, device.c, context.c, queue.c,*)
(* sampler.c, pipe.c, buffer.c, image.c, gl_object.c, svm.c, event.c,      *)
(* hostmem.c and mem.c that create objects or ask about them, and of the   *)
(* functions that read lists from the Lua stack for all the others; see    *)
(* CallSteps.  Destructors are in the module Objects.                      *)
(***************************************************************************)
EXTENDS CallSteps

\* What getproc.c looks up and does not require: functions of OpenCL 2.0 and
\* later, and of extensions.
OptionalFunctions == {
  "CreateCommandQueueWithProperties", "CreatePipe", "GetPipeInfo", "SVMAlloc",
  "SVMFree", "CreateSamplerWithProperties", "SetKernelArgSVMPointer",
  "SetKernelExecInfo", "EnqueueSVMFree", "EnqueueSVMMemcpy",
  "EnqueueSVMMemFill", "EnqueueSVMMap", "EnqueueSVMUnmap",
  "SetDefaultDeviceCommandQueue", "GetDeviceAndHostTimer", "GetHostTimer",
  "CreateProgramWithIL", "CloneKernel", "GetKernelSubGroupInfo",
  "EnqueueSVMMigrateMem", "SetProgramReleaseCallback",
  "SetProgramSpecializationConstant"}
ExtensionFunctions == {
  "IcdGetPlatformIDsKHR", "TerminateContextKHR", "CreateEventFromGLsyncKHR",
  "CreateFromGLBuffer", "CreateFromGLTexture", "CreateFromGLTexture2D",
  "CreateFromGLTexture3D", "CreateFromGLRenderbuffer", "GetGLObjectInfo",
  "GetGLTextureInfo", "EnqueueAcquireGLObjects", "EnqueueReleaseGLObjects",
  "GetGLContextInfoKHR"}

LOCAL Arguments == Check

\* An array whose length is asked for first is filled, and gone through.
LOCAL Array(b, f, each) ==
  <<Required(b, {}), Query(f, {b}, {b}), each, Free({b})>>

-----------------------------------------------------------------------------
\* A list from the Lua stack.  An absent list and a list of the wrong type
\* return before anything is allocated; a wrong element frees the list.
LOCAL FixedSizeList == <<
  Exit({}), {Gets("list"), Return({})}, Exit({"list"}), Keep({"list"})>>
checkxxxlist == FixedSizeList
checkmemobjectlist == FixedSizeList
checksizelist == FixedSizeList
checklightuserdatalist == FixedSizeList

\* Each element is copied by Strdup, whose Malloc raises an error.
checkstringlist == <<
  Exit({}), {Gets("list"), Return({})},
  {Gets("strings"), Return({"list"}), Raise({})},
  {Go, Return({"list", "strings"}), Raise({})},
  Keep({"list", "strings"})>>

\* The lengths are returned through a pointer as soon as they are allocated.
checklstringlist == <<
  Exit({}), {Gets("list"), Return({})}, {Gets("lengths"), Return({"list"})},
  Keep({"lengths"}),
  {Gets("strings"), Return({"list"})}, Exit({"list", "strings"}),
  Keep({"list", "strings"})>>

\* luaL_optstring raises an error for an element that is not a string.
enums_checklist == <<
  Exit({}), {Gets("list"), Return({})},
  {Go, Return({"list"}), Raise({})}, Keep({"list"})>>

\* The numbers are packed into a block and pushed as a string.
Pack == <<Arguments, Required("dst", {}), Test({"dst"}), Use({"dst"}), Free({"dst"})>>

-----------------------------------------------------------------------------
(***************************************************************************)
(* newuserdata makes the object valid and enters it in the tree; an error  *)
(* in mooncl_getproc_extensions leaves it there with no destructor for     *)
(* Delete to call, which is the fact "destructor".                         *)
(***************************************************************************)
newplatform == <<
  Required("ud", {}), Keep({"ud"}),
  {[Gets("clext") EXCEPT !.sets = {"destructor"}],
   [Raise({}) EXCEPT !.needs = {"destructor"}]},
  Keep({"clext"})>>

GetPlatforms ==
  <<Call("GetPlatformIDs", {}), Check>>
    \o Array("platforms", "GetPlatformIDs", Bind({"platforms"}))

createcontextdevices ==
  <<Call("GetContextInfo", {}), Check, Exit({})>>
    \o Array("value", "GetContextInfo", Bind({"value"}))
GetDevices ==
  <<Arguments, Call("GetDeviceIDs", {}), Check>>
    \o Array("devices", "GetDeviceIDs", Bind({"devices"}))
CreateSubDevices == <<
  Arguments, Required("properties", {}),
  Query("CreateSubDevices", {"properties"}, {"properties"}),
  Required("out_devices", {"properties"}),
  Query("CreateSubDevices", {"properties", "out_devices"}, {"properties", "out_devices"}),
  Free({"properties"}), Bind({"out_devices"}), Free({"out_devices"})>>
SetDefaultDeviceCommandQueue == <<
  Arguments, Require("SetDefaultDeviceCommandQueue"),
  Call("SetDefaultDeviceCommandQueue", {}), Check>>
GetMaxWorkItemSizes ==
  <<Call("GetDeviceInfo", {}), Check, Exit({})>>
    \o Array("value", "GetDeviceInfo", Use({"value"}))
GetPartitionProperties ==
  <<Call("GetDeviceInfo", {}), Check>>
    \o Array("value", "GetDeviceInfo", Use({"value"}))
GetPartitionType ==
  <<Call("GetDeviceInfo", {}), Check, Exit({})>>
    \o Array("value", "GetDeviceInfo", Bind({"value"}))
GetDeviceAndHostTimer == <<
  Arguments, Require("GetDeviceAndHostTimer"), Call("GetDeviceAndHostTimer", {}), Check>>
GetHostTimer == <<
  Arguments, Require("GetHostTimer"), Call("GetHostTimer", {}), Check>>
CheckEndianness == <<Arguments, Call("GetDeviceInfo", {}), Check>>

\* The last error is in createcontextdevices or in newcontext.  Only the
\* userdata remembers what was allocated, and only the udinfo.
CreateContext ==
  LET cleanup == {"properties", "devices", "udinfo"} IN <<
  Arguments, Optional("devices", {}),
  Optional("properties", cleanup) \cup {Raise({})},
  Required("udinfo", cleanup),
  Query("CreateContext", {"properties", "devices"}, cleanup),
  Bind({}), Keep({"udinfo"})>>
GetContextProperties ==
  <<Call("GetContextInfo", {}), Check, Exit({})>>
    \o Array("value", "GetContextInfo", Bind({"value"}))
GetSupportedImageFormats ==
  <<Arguments, Call("GetSupportedImageFormats", {}), Check, Exit({})>>
    \o Array("image_formats", "GetSupportedImageFormats", Bind({"image_formats"}))
TerminateContext == <<
  Arguments, Require("TerminateContextKHR"), Call("TerminateContextKHR", {}), Check>>

\* The function of OpenCL 2.0 if there is one, with the properties, else that
\* of 1.2 with the locals that are set when there are properties.
LOCAL WithProperties(local, new, old) == <<
  Arguments,
  {[Gets("properties") EXCEPT !.sets = {local}], Go, Raise({})},
  {IfPresent(new, {"properties"}), [Go EXCEPT !.needs = {old, local}]}>>

CreateCommandQueue ==
  WithProperties("propflags", "CreateCommandQueueWithProperties", "CreateCommandQueue")
    \o <<Test({"properties"}), Bind({})>>
CreateSamplerWithProperties ==
  WithProperties("v1_2_filter_mode", "CreateSamplerWithProperties", "CreateSampler")
    \o <<Free({"properties"}), Check, Bind({})>>

\* There are no properties of pipes yet: a table of them is refused.
CreatePipe == <<
  Arguments, Require("CreatePipe"), Arguments,
  Call("CreatePipe", {"properties"}), Free({"properties"}), Check, Bind({})>>
GetPipeInfo == <<Arguments, Require("GetPipeInfo"), Call("GetPipeInfo", {}), Check>>

\* The extent of a buffer, which the userdata takes over.
LOCAL MakeBuffer(f) == <<
  Required("udinfo", {}), Query(f, {}, {"udinfo"})>>
LOCAL BindBuffer == <<Bind({}), Keep({"udinfo"})>>
CreateBuffer == <<Arguments>> \o MakeBuffer("CreateBuffer") \o BindBuffer
CreateBufferRegion ==
  <<Arguments, Arguments>> \o MakeBuffer("CreateSubBuffer") \o BindBuffer
CreateFromGLBuffer ==
  <<Arguments, Require("CreateFromGLBuffer")>> \o MakeBuffer("CreateFromGLBuffer")
    \o <<Query("GetMemObjectInfo", {}, {"udinfo"})>> \o BindBuffer

CreateImage == <<Arguments, Call("CreateImage", {}), Check, Bind({})>>
CreateFromGLTexture == <<
  Arguments,
  {IfPresent("CreateFromGLTexture", {}), IfPresent("CreateFromGLTexture3D", {}),
   IfPresent("CreateFromGLTexture2D", {}), Raise({})},
  Check, Bind({})>>
CreateFromGLRenderbuffer == <<
  Arguments, Require("CreateFromGLRenderbuffer"),
  Call("CreateFromGLRenderbuffer", {}), Check, Bind({})>>

LOCAL GLObjectInfo(f) == <<Arguments, Require(f), Call(f, {}), Check>>
GetGLObjectType == GLObjectInfo("GetGLObjectInfo")
GetGLObjectName == GLObjectInfo("GetGLObjectInfo")
GetGLTextureInfo == GLObjectInfo("GetGLTextureInfo")

LOCAL GLContextInfo ==
  <<Arguments, Require("GetGLContextInfoKHR"), Optional("properties", {})>>
GetGLContextDevice == GLContextInfo \o <<
  Call("GetGLContextInfoKHR", {"properties"}), Free({"properties"}), Check, Bind({})>>

\* The second call is given the address of the pointer and its size for the
\* array it points to: a success overwrites the pointer.
GetGLContextDevices == GLContextInfo \o <<
  Query("GetGLContextInfoKHR", {"properties"}, {"properties"}),
  Exit({"properties"}),
  Required("value", {"properties"}),
  {[Raise({"properties", "value"}) EXCEPT !.needs = {"GetGLContextInfoKHR"},
                                          !.uses = {"properties"}],
   [Go EXCEPT !.needs = {"GetGLContextInfoKHR"},
              !.uses = {"properties"}, !.loses = {"value"}]},
  Free({"properties"}), Bind({"value"}), Free({"value"})>>

CreateEventFromGLsync == <<
  Arguments, Require("CreateEventFromGLsyncKHR"),
  Call("CreateEventFromGLsyncKHR", {}), Check, Bind({})>>

CreateSvm == <<
  Arguments, Require("SVMAlloc"), Required("svm", {}),
  Query("SVMAlloc", {}, {"svm"}), Bind({"svm"}), Keep({"svm"})>>

CreateUserEvent == <<Arguments, Call("CreateUserEvent", {}), Check, Bind({})>>
WaitForEvents == <<
  Required("event_list", {}), Call("WaitForEvents", {"event_list"}),
  Free({"event_list"}), Check>>

\* The bytes of a hostmem and its descriptor, which the userdata takes over.
CreateAllocated == <<Required("hostmem", {"ptr"}), Bind({}), Keep({"ptr", "hostmem"})>>
CreateHostmemPack == <<Arguments, Required("ptr", {}), Test({"ptr"})>> \o CreateAllocated
CreateHostmemMalloc == <<Arguments, Required("ptr", {}), Use({"ptr"})>> \o CreateAllocated
CreateHostmem == <<
  Arguments, Required("hostmem", {}), Bind({}), Keep({"hostmem"})>>

GetAssociatedMemObject ==
  <<Call("GetMemObjectInfo", {}), Check, Exit({}), Bind({})>>
GetHostPtr == <<Call("GetMemObjectInfo", {}), Check>>

ObjectScripts == [
  checkxxxlist |-> checkxxxlist, checkmemobjectlist |-> checkmemobjectlist,
  checksizelist |-> checksizelist, checklightuserdatalist |-> checklightuserdatalist,
  checkstringlist |-> checkstringlist, checklstringlist |-> checklstringlist,
  enums_checklist |-> enums_checklist, Pack |-> Pack, newplatform |-> newplatform,
  GetPlatforms |-> GetPlatforms, createcontextdevices |-> createcontextdevices,
  GetDevices |-> GetDevices, CreateSubDevices |-> CreateSubDevices,
  SetDefaultDeviceCommandQueue |-> SetDefaultDeviceCommandQueue,
  GetMaxWorkItemSizes |-> GetMaxWorkItemSizes,
  GetPartitionProperties |-> GetPartitionProperties,
  GetPartitionType |-> GetPartitionType, GetHostTimer |-> GetHostTimer,
  GetDeviceAndHostTimer |-> GetDeviceAndHostTimer,
  CheckEndianness |-> CheckEndianness, CreateContext |-> CreateContext,
  GetContextProperties |-> GetContextProperties,
  GetSupportedImageFormats |-> GetSupportedImageFormats,
  TerminateContext |-> TerminateContext, CreateCommandQueue |-> CreateCommandQueue,
  CreateSamplerWithProperties |-> CreateSamplerWithProperties,
  CreatePipe |-> CreatePipe, GetPipeInfo |-> GetPipeInfo,
  CreateBuffer |-> CreateBuffer, CreateBufferRegion |-> CreateBufferRegion,
  CreateFromGLBuffer |-> CreateFromGLBuffer, CreateImage |-> CreateImage,
  CreateFromGLTexture |-> CreateFromGLTexture,
  CreateFromGLRenderbuffer |-> CreateFromGLRenderbuffer,
  GetGLObjectType |-> GetGLObjectType, GetGLObjectName |-> GetGLObjectName,
  GetGLTextureInfo |-> GetGLTextureInfo, GetGLContextDevice |-> GetGLContextDevice,
  GetGLContextDevices |-> GetGLContextDevices,
  CreateEventFromGLsync |-> CreateEventFromGLsync, CreateSvm |-> CreateSvm,
  CreateUserEvent |-> CreateUserEvent, WaitForEvents |-> WaitForEvents,
  CreateHostmemPack |-> CreateHostmemPack, CreateHostmemMalloc |-> CreateHostmemMalloc,
  CreateHostmem |-> CreateHostmem,
  GetAssociatedMemObject |-> GetAssociatedMemObject, GetHostPtr |-> GetHostPtr]
=============================================================================
