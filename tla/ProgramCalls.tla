---------------------------- MODULE ProgramCalls ----------------------------
(***************************************************************************)
(* The bodies of the functions of program.c and kernel.c, and the          *)
(* templates of objects.h from which the 'get info' functions of every     *)
(* object are made, see CallSteps.                                         *)
(***************************************************************************)
EXTENDS CallSteps

LOCAL Arguments == Check

\* A call that makes an object, and the binding of that object.
Create(checks, f) == checks \o <<Call(f, {}), Check, Bind({})>>

\* A value of fixed size is asked of OpenCL and pushed.
GetValue(f) == <<Call(f, {}), Check>>

\* A value of any size: its size is asked for first, nothing is returned when
\* that is 0, then the value is read into a block of that size.
\* A slip: the block is forgotten when that fails.
GetSizedLeaking(f, push) ==
  <<Call(f, {}), Check, Exit({}),
    Required("value", {}), Query(f, {"value"}, {}), push, Free({"value"})>>
GetSized(f, push) ==
  <<Call(f, {}), Check, Exit({}),
    Required("value", {}), Query(f, {"value"}, {"value"}), push, Free({"value"})>>

GET_INFO_STRING == GetSized("GetInfo", Use({"value"}))
GET_INFO_DEVICES == GetSized("GetInfo", Bind({"value"}))
GET_INFO_INTEGER == GetValue("GetInfo")
GET_INFO_NUMBER == GetValue("GetInfo")
GET_INFO_BOOLEAN == GetValue("GetInfo")
GET_INFO_ENUM == GetValue("GetInfo")
GET_INFO_STRUCT == GetValue("GetInfo")
GET_INFO_OBJECT == GetValue("GetInfo") \o <<Exit({}), Bind({})>>

-----------------------------------------------------------------------------
CreateProgramWithSource == Create(<<Arguments>>, "CreateProgramWithSource")
CreateProgramWithIL ==
  Create(<<Arguments, Require("CreateProgramWithIL")>>, "CreateProgramWithIL")

(***************************************************************************)
(* An error inside checklstringlist frees the list and the strings but not *)
(* the lengths.  CLEANUP frees `count' strings, the number of the devices, *)
(* when the list holds `bin_count' of them: some are left if that is more, *)
(* and what follows the list is freed if it is less.                       *)
(***************************************************************************)
CreateProgramWithBinary ==
  LET cleanup == {"devices", "binary_status", "binaries", "lengths", "strings"} IN <<
  Arguments,
  Required("devices", {}),
  Required("binary_status", cleanup),
  {[Go EXCEPT !.gets = {"binaries", "lengths", "strings"}],
   Raise(cleanup),
   [Raise(cleanup \ {"lengths"}) EXCEPT !.gets = {"lengths"}]},
  {Go, Raise(cleanup), Raise(cleanup \ {"strings"}),
   [Raise(cleanup) EXCEPT !.loses = {"strings"}]},
  Call("CreateProgramWithBinary", {"devices", "lengths", "binaries", "strings", "binary_status"}),
  {Go, [Return(cleanup) EXCEPT !.uses = {"binary_status"}]},
  Free(cleanup), Check, Bind({})>>

\* The list of devices is there when a later argument is refused.
CreateProgramWithBuiltInKernels == <<
  Arguments, Required("devices", {}), Arguments,
  Call("CreateProgramWithBuiltInKernels", {"devices"}),
  Free({"devices"}), Check, Bind({})>>

BuildProgram == <<
  Arguments, Optional("devices", {}), Arguments,
  Call("BuildProgram", {"devices"}), Free({"devices"})>>

\* The list of names copies each name with Strdup, which raises an error of
\* its own when there is no memory.
CompileProgram ==
  LET lists == {"devices", "headers", "header_names"} IN <<
  Arguments, Optional("devices", {}), Arguments,
  Optional("headers", {"devices"}),
  Optional("header_names", {"headers", "devices"})
    \cup {[Raise({}) EXCEPT !.gets = {"header_names"}]},
  Test(lists),
  Call("CompileProgram", lists), Free(lists)>>

LinkProgram == <<
  Arguments, Optional("devices", {}), Arguments,
  Optional("programs", {"devices"}),
  Call("LinkProgram", {"devices", "programs"}),
  Free({"devices", "programs"}), Exit({}), Bind({})>>

UnloadPlatformCompiler == <<Arguments, Call("UnloadPlatformCompiler", {}), Check>>

GetBinarySizes == <<
  Call("GetProgramInfo", {}), Check, Exit({}),
  Required("sizes", {}),
  Query("GetProgramInfo", {"sizes"}, {"sizes"}),
  Use({"sizes"}), Free({"sizes"})>>

(***************************************************************************)
(* "binary_pointers": each entry of binaries points into bin.  The loop    *)
(* that sets them assigns to bin[i] where it means binaries[i], so that    *)
(* this holds only when there is one device.                               *)
(***************************************************************************)
GetBinaries ==
  LET all == {"sizes", "binaries", "bin"} IN <<
  Call("GetProgramInfo", {}), Check, Exit({}),
  Required("sizes", {}),
  Required("binaries", {"sizes"}),
  Query("GetProgramInfo", {"sizes"}, {"sizes", "binaries"}),
  Required("bin", {"sizes", "binaries"}),
  {Go, [Go EXCEPT !.sets = {"binary_pointers"}]},
  Query("GetProgramInfo", all, all),
  {[Go EXCEPT !.uses = all, !.needs = {"binary_pointers"}]},
  Free(all)>>

GetProgramBuildEnum == GetValue("GetProgramBuildInfo")
GetProgramBuildSize == GetValue("GetProgramBuildInfo")
GetProgramBuildString == GetSized("GetProgramBuildInfo", Use({"value"}))

\* Not implemented: the entry point is checked and the call refused.
SetProgramSpecializationConstant ==
  <<Arguments, Require("SetProgramSpecializationConstant"), {Raise({})}>>

-----------------------------------------------------------------------------
CreateKernel == Create(<<Arguments>>, "CreateKernel")
CloneKernel == Create(<<Arguments, Require("CloneKernel")>>, "CloneKernel")

\* The array of the kernels is there while they are bound one by one.
CreateKernelsInProgram == <<
  Arguments, Call("CreateKernelsInProgram", {}), Check, Exit({}),
  Required("kernels", {}),
  Query("CreateKernelsInProgram", {"kernels"}, {"kernels"}),
  Bind({"kernels"}), Free({"kernels"})>>

\* Only a vector is copied to a block of its own.
SetKernelArg == <<
  Arguments, Optional("data", {}), Test({"data"}),
  Call("SetKernelArg", {"data"}), Free({"data"}), Check>>

SetKernelArgSVMPointer == <<
  Arguments, Require("SetKernelArgSVMPointer"), Arguments,
  Call("SetKernelArgSVMPointer", {}), Check>>

LOCAL ExecInfo == <<Arguments, Require("SetKernelExecInfo")>>
SetSvmPtrs == ExecInfo \o <<
  Required("val", {}), Call("SetKernelExecInfo", {"val"}), Free({"val"}), Check>>
SetKernelExecInfoBoolean == ExecInfo \o <<
  Arguments, Call("SetKernelExecInfo", {}), Check>>

GetKernelArgEnum == GetValue("GetKernelArgInfo")
GetKernelArgFlags == GetValue("GetKernelArgInfo")
GetKernelArgString == GetSized("GetKernelArgInfo", Use({"value"}))
GetKernelWorkGroupUlong == GetValue("GetKernelWorkGroupInfo")
GetKernelWorkGroupSize == GetValue("GetKernelWorkGroupInfo")
GetKernelWorkGroupSize3 == GetValue("GetKernelWorkGroupInfo")

LOCAL SubGroupInfo == <<Arguments, Require("GetKernelSubGroupInfo")>>
GetSizeList_Size == SubGroupInfo \o <<
  Required("input_value", {}),
  Call("GetKernelSubGroupInfo", {"input_value"}), Free({"input_value"}), Check>>
GetSize_SizeList == SubGroupInfo \o <<
  Arguments, Call("GetKernelSubGroupInfo", {}), Check,
  Required("value", {}),
  Query("GetKernelSubGroupInfo", {"value"}, {"value"}),
  Use({"value"}), Free({"value"})>>
GetNil_Size == SubGroupInfo \o GetValue("GetKernelSubGroupInfo")

ProgramScripts == [
  GET_INFO_STRING |-> GET_INFO_STRING, GET_INFO_DEVICES |-> GET_INFO_DEVICES,
  GET_INFO_INTEGER |-> GET_INFO_INTEGER, GET_INFO_NUMBER |-> GET_INFO_NUMBER,
  GET_INFO_BOOLEAN |-> GET_INFO_BOOLEAN, GET_INFO_ENUM |-> GET_INFO_ENUM,
  GET_INFO_STRUCT |-> GET_INFO_STRUCT, GET_INFO_OBJECT |-> GET_INFO_OBJECT,
  CreateProgramWithSource |-> CreateProgramWithSource,
  CreateProgramWithIL |-> CreateProgramWithIL,
  CreateProgramWithBinary |-> CreateProgramWithBinary,
  CreateProgramWithBuiltInKernels |-> CreateProgramWithBuiltInKernels,
  BuildProgram |-> BuildProgram, CompileProgram |-> CompileProgram,
  LinkProgram |-> LinkProgram, UnloadPlatformCompiler |-> UnloadPlatformCompiler,
  GetBinarySizes |-> GetBinarySizes, GetBinaries |-> GetBinaries,
  GetProgramBuildEnum |-> GetProgramBuildEnum,
  GetProgramBuildSize |-> GetProgramBuildSize,
  GetProgramBuildString |-> GetProgramBuildString,
  SetProgramSpecializationConstant |-> SetProgramSpecializationConstant,
  CreateKernel |-> CreateKernel, CloneKernel |-> CloneKernel,
  CreateKernelsInProgram |-> CreateKernelsInProgram,
  SetKernelArg |-> SetKernelArg, SetKernelArgSVMPointer |-> SetKernelArgSVMPointer,
  SetSvmPtrs |-> SetSvmPtrs, SetKernelExecInfoBoolean |-> SetKernelExecInfoBoolean,
  GetKernelArgEnum |-> GetKernelArgEnum, GetKernelArgFlags |-> GetKernelArgFlags,
  GetKernelArgString |-> GetKernelArgString,
  GetKernelWorkGroupUlong |-> GetKernelWorkGroupUlong,
  GetKernelWorkGroupSize |-> GetKernelWorkGroupSize,
  GetKernelWorkGroupSize3 |-> GetKernelWorkGroupSize3,
  GetSizeList_Size |-> GetSizeList_Size, GetSize_SizeList |-> GetSize_SizeList,
  GetNil_Size |-> GetNil_Size]
=============================================================================
