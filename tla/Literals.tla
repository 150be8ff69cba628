------------------------------ MODULE Literals ------------------------------
(***************************************************************************)
(* The enums of OpenCL as sets of strings: what mooncl_open_enums puts in  *)
(* the two trees of enums.c, type by type, in this order.  A constant of a *)
(* type is represented by its position in the list of the type.            *)
(***************************************************************************)
EXTENDS Naturals, Sequences, TLC

PrimLiterals == [
  primtype |-> <<"char", "uchar", "short", "ushort", "int", "uint", "long", "ulong", "half",
    "float", "double">>]

DeviceLiterals == [
  platforminfo |-> <<"profile", "version", "vendor", "name", "extensions",
    "host timer resolution", "icd suffix">>,
  deviceinfo |-> <<"type", "vendor id", "max compute units", "max work item dimensions",
    "max work group size", "max work item sizes", "preferred vector width char",
    "preferred vector width short", "preferred vector width int", "preferred vector width long",
    "preferred vector width float", "preferred vector width double", "max clock frequency",
    "address bits", "max read image args", "max write image args", "max mem alloc size",
    "image2d max width", "image2d max height", "image3d max width", "image3d max height",
    "image3d max depth", "image support", "max parameter size", "max samplers",
    "mem base addr align", "min data type align size", "single fp config",
    "global mem cache type", "global mem cacheline size", "global mem cache size",
    "global mem size", "max constant buffer size", "max constant args", "local mem type",
    "local mem size", "error correction support", "profiling timer resolution", "endian little",
    "available", "compiler available", "execution capabilities", "queue on host properties",
    "name", "vendor", "driver version", "profile", "version", "extensions", "platform",
    "double fp config", "half fp config", "preferred vector width half",
    "native vector width char", "native vector width short", "native vector width int",
    "native vector width long", "native vector width float", "native vector width double",
    "native vector width half", "opencl c version", "linker available", "built in kernels",
    "image max buffer size", "image max array size", "parent device", "partition max sub devices",
    "partition properties", "partition affinity domain", "partition type", "reference count",
    "preferred interop user sync", "printf buffer size", "image pitch alignment",
    "image base address alignment", "max read write image args", "max global variable size",
    "queue on device properties", "queue on device preferred size", "queue on device max size",
    "max on device queues", "max on device events", "svm capabilities",
    "global variable preferred total size", "max pipe args", "pipe max active reservations",
    "pipe max packet size", "preferred platform atomic alignment",
    "preferred global atomic alignment", "preferred local atomic alignment", "il version",
    "max num sub groups", "sub group independent forward progress", "terminate capability",
    "spir versions", "max named barrier count">>,
  devicememcachetype |-> <<"none", "read only cache", "read write cache">>,
  devicelocalmemtype |-> <<"local", "global">>]

ContextLiterals == [
  contextinfo |-> <<"reference count", "devices", "properties", "num devices">>,
  commandqueueinfo |-> <<"context", "device", "reference count", "properties", "size",
    "device default">>]

MemLiterals == [
  channelorder |-> <<"r", "a", "rg", "ra", "rgb", "rgba", "bgra", "argb", "intensity",
    "luminance", "rx", "rgx", "rgbx", "depth", "depth stencil", "srgb", "srgbx", "srgba", "sbgra",
    "abgr">>,
  channeltype |-> <<"snorm int8", "snorm int16", "unorm int8", "unorm int16", "unorm short 565",
    "unorm short 555", "unorm int 101010", "signed int8", "signed int16", "signed int32",
    "unsigned int8", "unsigned int16", "unsigned int32", "half float", "float", "unorm int24",
    "unorm int 101010 2">>,
  memobjecttype |-> <<"buffer", "image2d", "image3d", "image2d array", "image1d", "image1d array",
    "image1d buffer", "pipe">>,
  meminfo |-> <<"type", "flags", "size", "host ptr", "map count", "reference count", "context",
    "associated memobject", "offset", "uses svm pointer">>,
  imageinfo |-> <<"format", "element size", "row pitch", "slice pitch", "width", "height",
    "depth", "array size", "num mip levels", "num samples">>,
  pipeinfo |-> <<"packet size", "max packets">>,
  addressingmode |-> <<"none", "clamp to edge", "clamp", "repeat", "mirrored repeat">>,
  filtermode |-> <<"nearest", "linear">>,
  samplerinfo |-> <<"reference count", "context", "normalized coords", "addressing mode",
    "filter mode", "mip filter mode", "lod min", "lod max">>]

ProgramLiterals == [
  programinfo |-> <<"reference count", "context", "num devices", "devices", "source",
    "binary sizes", "binaries", "num kernels", "kernel names", "il", "scope global ctors present",
    "scope global dtors present">>,
  programbuildinfo |-> <<"status", "options", "log", "binary type", "global variable total size">>,
  programbinarytype |-> <<"none", "compiled object", "library", "executable", "intermediate">>,
  kernelinfo |-> <<"function name", "num args", "reference count", "context", "program",
    "attributes", "max num sub groups", "compile num sub groups">>,
  kernelarginfo |-> <<"address qualifier", "access qualifier", "type name", "type qualifier",
    "name">>,
  argaddressqualifier |-> <<"global", "local", "constant", "private">>,
  argaccessqualifier |-> <<"read only", "write only", "read write", "none">>,
  kernelworkgroupinfo |-> <<"work group size", "compile work group size", "local mem size",
    "preferred work group size multiple", "private mem size", "global work size">>,
  kernelsubgroupinfo |-> <<"max sub group size for ndrange", "sub group count for ndrange",
    "local size for sub group count", "max num sub groups", "compile num sub groups">>,
  kernelexecinfo |-> <<"svm ptrs", "svm fine grain system">>]

EventLiterals == [
  eventinfo |-> <<"command queue", "command type", "reference count", "command execution status",
    "context">>,
  commandtype |-> <<"ndrange kernel", "task", "native kernel", "read buffer", "write buffer",
    "copy buffer", "read image", "write image", "copy image", "copy image to buffer",
    "copy buffer to image", "map buffer", "map image", "unmap mem object", "marker",
    "acquire gl objects", "release gl objects", "read buffer rect", "write buffer rect",
    "copy buffer rect", "user", "barrier", "migrate mem objects", "fill buffer", "fill image",
    "svm free", "svm memcpy", "svm memfill", "svm map", "svm unmap", "gl fence sync object">>,
  executionstatus |-> <<"complete", "running", "submitted", "queued">>,
  buffercreatetype |-> <<"region">>,
  profilinginfo |-> <<"command queued", "command submit", "command start", "command end",
    "command complete">>,
  buildstatus |-> <<"success", "none", "error", "in progress">>]

GLLiterals == [
  gltextureinfo |-> <<"texture target", "mipmap level", "num samples">>,
  glcontextinfo |-> <<"current device", "devices">>,
  queuepriority |-> <<"high", "med", "low">>,
  queuethrottle |-> <<"high", "med", "low">>,
  gltexturetarget |-> <<"1d", "2d", "3d", "1d array", "2d array", "buffer", "cube map",
    "cube map positive x", "cube map negative x", "cube map positive y", "cube map negative y",
    "cube map positive z", "cube map negative z", "rectangle", "2d multisample",
    "2d multisample array">>,
  globjecttype |-> <<"buffer", "texture 2d", "texture 3d", "renderbuffer", "texture 2d array",
    "texture 1d", "texture 1d array", "texture buffer">>]
Literals ==
  PrimLiterals @@ DeviceLiterals @@ ContextLiterals @@ MemLiterals @@ ProgramLiterals
    @@ EventLiterals @@ GLLiterals

\* The strings of a type, as a set: the list that Lua gets is in the order of
\* the codes of OpenCL, which are not modelled.
enums_values(type) == {Literals[type][i] : i \in DOMAIN Literals[type]}

\* cl.enum('type'): nothing for an unknown type.
Enum(type) == IF type \in DOMAIN Literals THEN enums_values(type) ELSE {}

-----------------------------------------------------------------------------
\* The constant that a string stands for; another string is refused.
NoConstant == 0
enums_check(type, s) ==
  LET codes == {i \in DOMAIN Literals[type] : Literals[type][i] = s}
  IN IF codes = {} THEN NoConstant ELSE CHOOSE i \in codes : TRUE

\* The string for a constant; an error if the type has no such constant.
Unexpected == "unexpected error"
enums_push(type, code) ==
  IF code \in DOMAIN Literals[type] THEN Literals[type][code] ELSE Unexpected
=============================================================================
