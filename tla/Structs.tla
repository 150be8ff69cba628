------------------------------ MODULE Structs -------------------------------
(***************************************************************************)
(* Property lists: tables of Lua turned into arrays of C, zero terminated, *)
(* and back into tables.  A table is a function from the names of its      *)
(* fields to integers; a handle, a flag or an enum is an integer as well.  *)
(* The errors that fields of a wrong type raise are in Calls.              *)
(* The list of a context is completed with the platform that the call      *)
(* names: both callers pass one, so that the table's is never read.        *)
(***************************************************************************)
EXTENDS Integers, Sequences, FiniteSets, Selection

CONSTANT UintSize   \* one more than the largest cl_uint

Minus1 == -1

\* What the code takes for an absent field when it fills the array, although
\* it has made room for the field.
Always == {}
Handle(name) == [name |-> name, unwritten |-> {Minus1}]
Plain(name) == [name |-> name, unwritten |-> Always]

ContextFields == <<
  [name |-> "platform", unwritten |-> {0}],
  Handle("interop_user_sync"), Handle("gl_context"), Handle("cgl_sharegroup"),
  Handle("glx_display"), Handle("egl_display"), Handle("wgl_hdc"),
  Handle("context_terminate")>>
QueueFields == <<
  Plain("properties"), Plain("size"), Handle("queue_priority"), Handle("queue_throttle")>>
SamplerFields == <<
  Plain("normalized_coords"), Plain("addressing_mode"), Plain("filter_mode")>>

FieldsOf == [context |-> ContextFields, queue |-> QueueFields, sampler |-> SamplerFields]

\* The size of a queue is read into a cl_uint.
Cell(name, value) == IF name = "size" THEN value % UintSize ELSE value

\* An array: the room allocated for it, and the cells written from the first on.
Absent == [room |-> 0, cells |-> <<>>]

\* The fields that the table has, and those of them that are put into the array.  A field
\* is represented by its position, which is its key as well.
Present(kind, t) ==
  {k \in DOMAIN FieldsOf[kind] : FieldsOf[kind][k].name \in DOMAIN t}
Written(kind, t) ==
  {k \in Present(kind, t) : t[FieldsOf[kind][k].name] \notin FieldsOf[kind][k].unwritten}

\* A slip: no room for the terminator.
FillWithoutTerminator(kind, t) ==
  LET written == InOrder(Written(kind, t))
      n == Cardinality(Written(kind, t))
  IN IF Present(kind, t) = {} THEN Absent
     ELSE [room |-> 2 * Cardinality(Present(kind, t)),
           cells |-> [i \in 1 .. 2 * n + 1 |->
             IF i = 2 * n + 1 THEN 0
             ELSE LET k == written[(i + 1) \div 2]
                      name == FieldsOf[kind][k].name
                  IN IF i % 2 = 1 THEN k ELSE Cell(name, t[name])]]

FillProperties(kind, t) ==
  LET written == InOrder(Written(kind, t))
      n == Cardinality(Written(kind, t))
  IN IF Present(kind, t) = {} THEN Absent
     ELSE [room |-> 2 * Cardinality(Present(kind, t)) + 1,
           cells |-> [i \in 1 .. 2 * n + 1 |->
             IF i = 2 * n + 1 THEN 0
             ELSE LET k == written[(i + 1) \div 2]
                      name == FieldsOf[kind][k].name
                  IN IF i % 2 = 1 THEN k ELSE Cell(name, t[name])]]

\* A slip: the platform of the table, where it has one, instead of the call's.
TablePlatformFirst(kind, t, platform) ==
  IF kind # "context" THEN t
  ELSE [name \in DOMAIN t \cup {"platform"} |->
          IF name \in DOMAIN t THEN t[name] ELSE platform]

WithPlatform(kind, t, platform) ==
  IF kind # "context" THEN t
  ELSE [name \in DOMAIN t \cup {"platform"} |->
          IF name = "platform" THEN platform ELSE t[name]]

CheckProperties(kind, t, platform) == FillProperties(kind, WithPlatform(kind, t, platform))

\* Reading goes from key to key up to a zero in the place of a key.
EndOf(cells) ==
  CHOOSE i \in DOMAIN cells : /\ i % 2 = 1 /\ cells[i] = 0
                              /\ \A j \in 1 .. i - 1 : j % 2 = 1 => cells[j] # 0
NoTable == [f \in {} |-> 0]
PushProperties(kind, array) ==
  IF array = Absent THEN NoTable
  ELSE LET keys == {i \in 1 .. EndOf(array.cells) - 1 : i % 2 = 1}
           NameAt(i) == FieldsOf[kind][array.cells[i]].name
       IN [name \in {NameAt(i) : i \in keys} |->
             array.cells[1 + CHOOSE i \in keys : NameAt(i) = name]]

\* The fields of a table that do not come back as they were: a pointer of -1, a size
\* that is not a cl_uint, and another platform than the call's.
Pointers == {"gl_context", "cgl_sharegroup", "glx_display", "egl_display", "wgl_hdc"}
Lossy(t, platform) ==
  {name \in DOMAIN t :
     \/ name \in Pointers /\ t[name] = Minus1
     \/ name = "size" /\ t[name] \notin 0 .. UintSize - 1
     \/ name = "platform" /\ t[name] # platform}

-----------------------------------------------------------------------------
(***************************************************************************)
(* How to partition a device: one of three ways, the first that the table  *)
(* has.  Its values are sequences here, of one integer but for the counts. *)
(***************************************************************************)
Ways == <<"equally", "by_affinity_domain", "by_counts">>

CheckPartition(t) ==
  LET given == {w \in 1 .. 3 : Ways[w] \in DOMAIN t} IN
  IF given = {} THEN Absent
  ELSE LET w == CHOOSE w \in given : \A v \in given : w <= v IN
       IF w = 3 THEN IF t["by_counts"] = <<>> THEN Absent
                     ELSE [room |-> Len(t["by_counts"]) + 3,
                           cells |-> <<w>> \o t["by_counts"] \o <<0, 0>>]
       ELSE [room |-> 3, cells |-> <<w>> \o t[Ways[w]] \o <<0>>]

PushPartition(array) ==
  IF array = Absent THEN NoTable
  ELSE LET way == Ways[array.cells[1]]
           stop == CHOOSE i \in 2 .. Len(array.cells) :
                     array.cells[i] = 0 /\ \A j \in 2 .. i - 1 : array.cells[j] # 0
       IN [w \in {way} |-> IF w = "by_counts" THEN SubSeq(array.cells, 2, stop - 1)
                           ELSE <<array.cells[2]>>]

\* A count of zero ends the list for who reads it; other ways are ignored.
LossyPartition(t) ==
  \/ Cardinality(DOMAIN t) > 1
  \/ "by_counts" \in DOMAIN t /\ \E i \in DOMAIN t["by_counts"] : t["by_counts"][i] = 0
=============================================================================
