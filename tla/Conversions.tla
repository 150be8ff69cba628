---------------------------- MODULE Conversions -----------------------------
(***************************************************************************)
(* A value goes from Lua to C, as an argument, and from C to Lua, as a     *)
(* result: property lists, partitions of a device, flags and enums.        *)
(* OpenCL hands out what it was given, so that a script reads back what it *)
(* wrote if the two directions agree.  An enum that names a query goes to  *)
(* the switch of a get_xxx_info function, which chooses what to ask; the   *)
(* type of a command comes from the function that enqueued it.             *)
(***************************************************************************)
EXTENDS Structs, Flags, Queries, SequencesExt

CONSTANTS
  FieldIntegers,   \* the integers given in property lists
  PlatformHandles, \* the platforms that a call, or a table, may name
  MaxFields,       \* bound: the number of fields of a property list
  MaxCounts,       \* bound: the length of a list of counts
  MaxFlags         \* bound: the number of flags given

ASSUME ConversionAssumption ==
  /\ FieldIntegers \subseteq Int /\ PlatformHandles \subseteq Int \ {0}
  /\ UintSize \in Nat \ {0}
  /\ MaxFields \in Nat /\ MaxCounts \in Nat /\ MaxFlags \in Nat

VARIABLES
  what,    \* the family of the conversion, the type of the value, and the call's platform
  phase,   \* "given", then "held", then "taken"
  given,   \* the value in Lua
  held,    \* what C made of it
  taken    \* the value that came back

conversionVars == <<what, phase, given, held, taken>>

-----------------------------------------------------------------------------
\* The values given: any combination of fields, a value for each.  A boolean
\* is 0 or 1, an enum is one of the codes of its type, none of which is -1.
Booleans == {"interop_user_sync", "context_terminate", "normalized_coords"}
Enums == {"queue_priority", "queue_throttle", "addressing_mode", "filter_mode"}
FieldValues(name) ==
  CASE name \in Booleans -> {0, 1}
    [] name \in Enums -> FieldIntegers \ {Minus1}
    [] name = "platform" -> PlatformHandles
    [] OTHER -> FieldIntegers
FieldNames(kind) == {FieldsOf[kind][k].name : k \in DOMAIN FieldsOf[kind]}
PropertyTables(kind) ==
  LET fieldSets == {s \in SUBSET FieldNames(kind) : Cardinality(s) <= MaxFields}
      Tables(fields) == {t \in [fields -> FieldIntegers \cup {0, 1} \cup PlatformHandles] :
                           \A f \in fields : t[f] \in FieldValues(f)}
  IN UNION {Tables(fields) : fields \in fieldSets}

PartitionTables ==
  LET Tables(ways) == {t \in [ways -> SeqOf(FieldIntegers, MaxCounts)] :
                         \A w \in ways : w # "by_counts" => Len(t[w]) = 1}
  IN UNION {Tables(ways) : ways \in SUBSET {Ways[w] : w \in DOMAIN Ways}}

FlagArguments(type) == SeqOf(Names(type) \cup Special[type] \cup {NoString}, MaxFlags)

\* The strings of a type of enum, and one that it does not have.
EnumArguments(type) == Enum(type) \cup {"no such enum"}

ConversionInit ==
  /\ phase = "given" /\ held = <<>> /\ taken = <<>>
  /\ \/ \E kind \in DOMAIN FieldsOf, platform \in PlatformHandles :
          /\ what = [family |-> "properties", type |-> kind, platform |-> platform]
          /\ given \in PropertyTables(kind)
     \/ what = [family |-> "partition", type |-> ""] /\ given \in PartitionTables
     \/ \E type \in DOMAIN Named :
          what = [family |-> "flags", type |-> type] /\ given \in FlagArguments(type)
     \/ \E type \in DOMAIN Literals :
          what = [family |-> "enum", type |-> type] /\ given \in EnumArguments(type)
     \/ \E type \in DOMAIN Switches :
          what = [family |-> "query", type |-> type] /\ given \in EnumArguments(type)
     \/ what = [family |-> "command", type |-> "commandtype"] /\ given \in DOMAIN CommandType

CheckValue ==
  /\ phase = "given"
  /\ phase' = "held"
  /\ held' = CASE what.family = "properties" ->
                    CheckProperties(what.type, given, what.platform)
               [] what.family = "partition" -> CheckPartition(given)
               [] what.family = "flags" -> CheckFlags(what.type, given)
               [] what.family \in {"enum", "query"} -> enums_check(what.type, given)
               [] what.family = "command" -> CommandTypeCode(given)
  /\ UNCHANGED <<what, given, taken>>

\* A string that is refused has no value, and the call ends with an error.
RefusedEnum == what.family \in {"enum", "query"} /\ held = NoConstant

PushValue ==
  /\ phase = "held" /\ ~RefusedEnum
  /\ phase' = "taken"
  /\ taken' = CASE what.family = "properties" -> PushProperties(what.type, held)
                [] what.family = "partition" -> PushPartition(held)
                [] what.family = "flags" -> PushFlags(what.type, held)
                [] what.family \in {"enum", "command"} -> enums_push(what.type, held)
                [] what.family = "query" -> Chosen(what.type, held)
  /\ UNCHANGED <<what, given, held>>

ConversionNext == CheckValue \/ PushValue
ConversionSpec == ConversionInit /\ [][ConversionNext]_conversionVars

-----------------------------------------------------------------------------
(* The arrays that structs.c fills: nothing is written past the end of the *)
(* block, also when fewer fields are written than room was made for, and   *)
(* the array ends with a zero where its reader looks for one.              *)
CellsInside ==
  phase # "given" /\ what.family \in {"properties", "partition"} =>
    /\ Len(held.cells) <= held.room
    /\ held # Absent => held.cells[Len(held.cells)] = 0

(* A field of a property list comes back as it was given, exactly unless   *)
(* it is a pointer of -1 or a size that is not a cl_uint; and no field     *)
(* comes back that was not given.  A context's list, with or without       *)
(* fields, comes back with the platform that the call named, whatever the  *)
(* table says: "the platform field in contextproperties is ignored" says   *)
(* context.adoc.  A partition comes back exactly unless a count is zero    *)
(* or there are several ways to partition.                                 *)
PropertiesRoundTrip ==
  phase = "taken" =>
    /\ what.family = "properties" =>
         /\ \A name \in DOMAIN given :
              (name \in DOMAIN taken /\ taken[name] = given[name])
                <=> name \notin Lossy(given, what.platform)
         /\ DOMAIN taken \subseteq
              DOMAIN given \cup (IF what.type = "context" THEN {"platform"} ELSE {})
         /\ what.type = "context" =>
              "platform" \in DOMAIN taken /\ taken["platform"] = what.platform
    /\ what.family = "partition" /\ held # Absent =>
         (taken = given <=> ~LossyPartition(given))

(* Flags come back as the same set of strings, each once and in the order  *)
(* of the code: "all" becomes every named flag, "none" no flag; and pushed *)
(* flags are accepted as the same bitfield, but for a bit without a name.  *)
FlagsRoundTrip ==
  phase = "taken" /\ what.family = "flags" =>
    LET type == what.type
        strings == Strings(given)
    IN /\ \A i, j \in DOMAIN taken, k, l \in DOMAIN Named[type] :
            i < j /\ taken[i] = Named[type][k] /\ taken[j] = Named[type][l] => k < l
       /\ ToSet(taken) = IF "all" \in strings THEN Names(type) ELSE strings \ {"none"}
       /\ CheckFlags(type, taken) = held \ {"unnamed"}

(* What a script gives to OpenCL and what it reads back agree, but for the *)
(* values that are listed as lossy, for every family of conversions.       *)
ValuesRoundTrip == PropertiesRoundTrip /\ FlagsRoundTrip

\* The faults of the tables: queries without a case, and a function whose
\* command has a type without a string.
Unanswered == {
  <<"platforminfo", "icd suffix">>, <<"deviceinfo", "terminate capability">>,
  <<"deviceinfo", "spir versions">>, <<"deviceinfo", "max named barrier count">>}
Unnamed == {"EnqueueSVMMigrateMem"}

(* The table of enums, the switches over its constants and the commands of *)
(* OpenCL are kept by hand in different files, and agree but for these     *)
(* faults: a string comes back as it was given; the strings that a         *)
(* get_xxx_info function accepts and those it has a case for are the same; *)
(* and the type of the command of an event can be read for each function   *)
(* that returns an event.                                                  *)
LiteralsAnswered ==
  /\ phase = "held" /\ what.family \in {"enum", "query"} =>
       (RefusedEnum <=> given \notin Enum(what.type))
  /\ phase = "taken" =>
       /\ what.family = "enum" => taken = given
       /\ what.family = "query" =>
            /\ taken = Unexpected <=> <<what.type, given>> \in Unanswered
            /\ UNION Range(Switches[what.type]) \subseteq Enum(what.type)
       /\ what.family = "command" => (taken = Unexpected <=> given \in Unnamed)
=============================================================================
