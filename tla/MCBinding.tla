----------------------------- MODULE MCBinding ------------------------------
(***************************************************************************)
(* One run for the parts of the library that do not act on one another: a  *)
(* behaviour is one of a single part, and the others stay as they are.     *)
(***************************************************************************)
EXTENDS Hostmem, Buffers, Conversions, Datahandling, Loading

EnqueueC == INSTANCE EnqueueCalls
ProgramC == INSTANCE ProgramCalls
ObjectC == INSTANCE ObjectCalls

\* The bodies of all the functions, the blocks and the facts they name.
Script ==
  EnqueueC!EnqueueScripts @@ ProgramC!ProgramScripts @@ ObjectC!ObjectScripts

Locals == {"svm_ud", "binary_pointers", "destructor", "propflags", "v1_2_filter_mode"}
Optionals == ObjectC!OptionalFunctions \cup ObjectC!ExtensionFunctions \cup Locals

Outcomes(f) == UNION {Script[f][i] : i \in DOMAIN Script[f]}
Blocks == UNION {o.gets : o \in UNION {Outcomes(f) : f \in DOMAIN Script}}

(***************************************************************************)
(* The faults of the code, see the README.                                 *)
(***************************************************************************)
\* Not freed even when all goes well.
NeverFreed == {
  <<"CreateContext", "devices">>, <<"CreateContext", "properties">>,
  <<"CreateCommandQueue", "properties">>, <<"EnqueueSVMFree", "svm">>}

\* An argument is refused, by raising, after the block was allocated.
LeaksOnBadArguments == {
  <<"BuildProgram", "devices">>, <<"LinkProgram", "devices">>,
  <<"CompileProgram", "devices">>, <<"CreateProgramWithBuiltInKernels", "devices">>,
  <<"CreateProgramWithBinary", "lengths">>, <<"CreateProgramWithBinary", "strings">>,
  <<"enums_checklist", "list">>}

\* No memory for a userdata, for a copy or for something else, or no binding.
LeaksOnNoMemory == {
  <<"checkstringlist", "list">>, <<"checkstringlist", "strings">>,
  <<"CompileProgram", "headers">>, <<"CompileProgram", "header_names">>,
  <<"CreateKernelsInProgram", "kernels">>, <<"CreateSubDevices", "out_devices">>,
  <<"GetPlatforms", "platforms">>, <<"GetDevices", "devices">>,
  <<"createcontextdevices", "value">>, <<"GET_INFO_DEVICES", "value">>,
  <<"GetContextProperties", "value">>, <<"GetPartitionType", "value">>,
  <<"GetSupportedImageFormats", "image_formats">>,
  <<"CreateContext", "udinfo">>, <<"CreateBuffer", "udinfo">>,
  <<"CreateBufferRegion", "udinfo">>, <<"CreateFromGLBuffer", "udinfo">>,
  <<"CreateSvm", "svm">>, <<"CreateHostmem", "hostmem">>,
  <<"CreateHostmemMalloc", "hostmem">>, <<"CreateHostmemMalloc", "ptr">>,
  <<"CreateHostmemPack", "hostmem">>, <<"CreateHostmemPack", "ptr">>,
  <<"EnqueueSVMFree", "svms">>, <<"EnqueueSVMFree", "ptrs">>}
Leaks == LeaksOnBadArguments \cup LeaksOnNoMemory

\* Freed twice, freed past the end of a list, used as a pointer it is not.
Misuses == {
  <<"EnqueueNDRangeKernel", "we">>, <<"CreateProgramWithBinary", "strings">>,
  <<"GetGLContextDevices", "value">>}

\* A binding looked up twice, pointers and locals that were not assigned.
Assumptions == {
  <<"EnqueueSVMFree", "svm_ud">>, <<"GetBinaries", "binary_pointers">>,
  <<"newplatform", "destructor">>, <<"CreateCommandQueue", "propflags">>,
  <<"CreateSamplerWithProperties", "v1_2_filter_mode">>}

-----------------------------------------------------------------------------
MCFieldIntegers == {-1, 0, 1, 2}
MCPackedIntegers == {-2, 0, 1, 3}
\* The first strings of two domains of enums.c that share one.
MCRecords == <<
  <<"gltexturetarget", 0, "1d">>, <<"gltexturetarget", 1, "buffer">>,
  <<"globjecttype", 0, "buffer">>>>

VARIABLES part, fn, pc, mem, known, assumed, result
INSTANCE Calls
calls == <<fn, pc, mem, known, assumed, result>>

IdleCall ==
  /\ fn = "EnqueueTask" /\ pc = 1 /\ mem = [b \in Blocks |-> "null"]
  /\ known = {} /\ assumed = {} /\ result = "running"
IdleConversion ==
  /\ what = [family |-> "none", type |-> ""] /\ phase = "given"
  /\ given = <<>> /\ held = <<>> /\ taken = <<>>
IdlePack ==
  /\ packStep = "pack" /\ packed = Refuse /\ unpacked = <<>>
  /\ primtype = "char" /\ arguments = <<>>

MCInit ==
  /\ HostmemInit /\ BufferInit /\ LoadingInit
  /\ \/ part \in {"hostmem", "buffers", "loading"} /\ IdleCall /\ IdleConversion /\ IdlePack
     \/ part = "calls" /\ CallInit /\ IdleConversion /\ IdlePack
     \/ part = "conversions" /\ IdleCall /\ ConversionInit /\ IdlePack
     \/ part = "packing" /\ IdleCall /\ IdleConversion /\ PackInit

MCNext ==
  /\ UNCHANGED part
  /\ \/ /\ part = "calls" /\ CallStep
        /\ UNCHANGED <<hostmemVars, bufferVars, conversionVars, packVars, loadingVars>>
     \/ /\ part = "hostmem" /\ HostmemNext
        /\ UNCHANGED <<calls, bufferVars, conversionVars, packVars, loadingVars>>
     \/ /\ part = "buffers" /\ BufferNext
        /\ UNCHANGED <<calls, hostmemVars, conversionVars, packVars, loadingVars>>
     \/ /\ part = "conversions" /\ ConversionNext
        /\ UNCHANGED <<calls, hostmemVars, bufferVars, packVars, loadingVars>>
     \/ /\ part = "packing" /\ PackNext
        /\ UNCHANGED <<calls, hostmemVars, bufferVars, conversionVars, loadingVars>>
     \/ /\ part = "loading" /\ LoadingNext
        /\ UNCHANGED <<calls, hostmemVars, bufferVars, conversionVars, packVars>>

\* The variables of every part have their types.
TypeOK == CallTypeOK /\ HostmemTypeOK /\ BufferTypeOK /\ LoadingTypeOK

MCSpec == MCInit /\ [][MCNext]_<<part, calls, hostmemVars, bufferVars,
                                 conversionVars, packVars, loadingVars>>
=============================================================================
