------------------------------- MODULE Flags --------------------------------
(***************************************************************************)
(* The bitfields of OpenCL as lists of strings, one pair of functions for  *)
(* each type of bitfield.  A bitfield is the set of its bits, each named   *)
(* by its string; "all" has every bit, of which one has no name, and       *)
(* "none" has no bit.                                                      *)
(***************************************************************************)
EXTENDS Naturals, Sequences, FiniteSets, Selection

\* The strings that are pushed, in this order, and accepted.
DeviceType == <<"default", "cpu", "gpu", "accelerator", "custom">>
DeviceFpConfig == <<"denorm", "inf nan", "round to nearest", "round to zero",
  "round to inf", "fma", "float", "correctly rounded divide sqrt">>
DeviceExecCapabilities == <<"kernel", "native kernel">>
CommandQueueProperties == <<"out of order exec mode enable", "profiling enable",
  "on device", "on device default">>
DeviceSvmCapabilities == <<"coarse grain buffer", "fine grain buffer",
  "fine grain system", "atomics">>
DeviceAffinityDomain == <<"numa", "l4 cache", "l3 cache", "l2 cache", "l1 cache",
  "next partitionable">>
MemFlags == <<"read write", "write only", "read only", "use host ptr",
  "alloc host ptr", "copy host ptr", "host write only", "host read only",
  "host no access", "fine grain buffer", "atomics", "kernel read and write">>
MemMigrationFlags == <<"host", "content undefined">>
MapFlags == <<"read", "write", "write invalidate region">>
KernelArgTypeQualifier == <<"const", "restrict", "volatile", "pipe">>

Named == [
  devicetype |-> DeviceType, devicefpconfig |-> DeviceFpConfig,
  deviceexeccapabilities |-> DeviceExecCapabilities,
  commandqueueproperties |-> CommandQueueProperties,
  devicesvmcapabilities |-> DeviceSvmCapabilities,
  deviceaffinitydomain |-> DeviceAffinityDomain,
  memflags |-> MemFlags, memmigrationflags |-> MemMigrationFlags,
  mapflags |-> MapFlags, kernelargtypequalifier |-> KernelArgTypeQualifier]

\* Those that are accepted only.
Special == [type \in DOMAIN Named |->
  IF type = "devicetype" THEN {"all"}
  ELSE IF type = "kernelargtypequalifier" THEN {"none"} ELSE {}]

Names(type) == {Named[type][i] : i \in DOMAIN Named[type]}
Bits(type, name) ==
  CASE name = "all" -> Names(type) \cup {"unnamed"}
    [] name = "none" -> {}
    [] OTHER -> {name}

\* The arguments count up to the first that is no string; an unknown string
\* is an error.
NoString == "(not a string)"
Strings(args) ==
  {args[i] : i \in {i \in DOMAIN args : \A j \in 1 .. i : args[j] # NoString}}
CheckFlags(type, args) == UNION {Bits(type, name) : name \in Strings(args)}

PushFlags(type, bits) ==
  LET set == {i \in DOMAIN Named[type] : Named[type][i] \in bits}
  IN [n \in 1..Cardinality(set) |-> Named[type][InOrder(set)[n]]]
=============================================================================
