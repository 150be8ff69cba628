---------------------------- MODULE Datahandling ----------------------------
(***************************************************************************)
(* Flattening of nested tables, and packing of integers into strings of    *)
(* bytes.  A byte has Base values.  A value of Lua is an integer, or a     *)
(* table, which is a sequence of values.  (Numbers that are no integers    *)
(* are not in the model.)                                                  *)
(***************************************************************************)
EXTENDS Integers, Sequences, SequencesExt

CONSTANTS
  Base,            \* the number of values of a byte
  PackedIntegers   \* the integers that are packed

Number(n) == [table |-> FALSE, number |-> n, items |-> <<>>]
Table(items) == [table |-> TRUE, number |-> 0, items |-> items]

(***************************************************************************)
(* Flatten1_ writes the numbers below v into the table `out', from index   *)
(* cur_index on, and returns how many there were.                          *)
(***************************************************************************)
RECURSIVE Flatten1(_, _, _, _)
Flatten1(out, cur_index, items, n) ==
  IF items = <<>> THEN [out |-> out, n |-> n]
  ELSE LET v == Head(items) IN
       IF v.table
       THEN LET inner == Flatten1(out, cur_index, v.items, 0)
            IN Flatten1(inner.out, cur_index + inner.n, Tail(items), n + inner.n)
       ELSE Flatten1((cur_index + 1 :> v.number) @@ out, cur_index + 1, Tail(items), n + 1)

\* If the first argument is a table, the others are not looked at.
toflattable(args) ==
  LET empty == [i \in {} |-> 0]
      items == IF args # <<>> /\ Head(args).table THEN Head(args).items ELSE args
  IN Flatten1(empty, 0, items, 0)

\* What it should be: the numbers from left to right.
RECURSIVE Numbers(_)
Numbers(items) ==
  IF items = <<>> THEN <<>>
  ELSE LET v == Head(items)
       IN (IF v.table THEN Numbers(v.items) ELSE <<v.number>>) \o Numbers(Tail(items))

-----------------------------------------------------------------------------
\* A type has a size in bytes and may be signed.
Values(type) == Base ^ type.size
Bounds(type) ==
  IF type.signed THEN (-Values(type)) \div 2 .. (Values(type) \div 2) - 1
  ELSE 0 .. Values(type) - 1

Refuse == [failed |-> TRUE, bytes |-> <<>>]

\* Each value modulo the size of the type, the least significant byte first.
\* There must be something to pack: Malloc refuses a size of zero.
Pack(type, args) ==
  LET flat == toflattable(args)
      Byte(v, b) == ((v % Values(type)) \div (Base ^ b)) % Base
  IN IF flat.n = 0 THEN Refuse
     ELSE [failed |-> FALSE,
           bytes |-> [i \in 1 .. flat.n * type.size |->
             Byte(flat.out[((i - 1) \div type.size) + 1], (i - 1) % type.size)]]

\* Unpacked with type: the length must be a multiple of its size.  (A slip:
\* as if packed by a host of the other byte order.)
UnpackSwapped(type, bytes) ==
  IF Len(bytes) < type.size \/ Len(bytes) % type.size # 0 THEN <<>>
  ELSE [k \in 1 .. Len(bytes) \div type.size |->
    LET ByteAt(b) == bytes[(k - 1) * type.size + b + 1] * Base ^ (type.size - 1 - b)
        raw == IF type.size = 1 THEN ByteAt(0) ELSE ByteAt(0) + ByteAt(1)
    IN IF type.signed /\ raw >= Values(type) \div 2 THEN raw - Values(type) ELSE raw]
Unpack(type, bytes) ==
  IF Len(bytes) < type.size \/ Len(bytes) % type.size # 0 THEN <<>>
  ELSE [k \in 1 .. Len(bytes) \div type.size |->
    LET ByteAt(b) == bytes[(k - 1) * type.size + b + 1] * Base ^ b
        raw == IF type.size = 1 THEN ByteAt(0) ELSE ByteAt(0) + ByteAt(1)
    IN IF type.signed /\ raw >= Values(type) \div 2 THEN raw - Values(type) ELSE raw]

\* What does not come back: other arguments than the table, values out of range.
LossyPack(type, args) ==
  \/ args # <<>> /\ Head(args).table /\ Len(args) > 1 /\ Numbers(Tail(args)) # <<>>
  \/ \E i \in DOMAIN Numbers(args) : Numbers(args)[i] \notin Bounds(type)

-----------------------------------------------------------------------------
(***************************************************************************)
(* A script packs its arguments, and unpacks the string it has got.        *)
(***************************************************************************)
VARIABLES
  primtype,   \* the name of a type
  arguments,  \* the arguments of pack
  packed,     \* its result
  unpacked,   \* the result of unpack
  packStep    \* "pack", then "unpack", then "done"

packVars == <<primtype, arguments, packed, unpacked, packStep>>

\* The integer types, with a size of one or two bytes.
PackTypes == [
  char  |-> [size |-> 1, signed |-> TRUE], uchar  |-> [size |-> 1, signed |-> FALSE],
  short |-> [size |-> 2, signed |-> TRUE], ushort |-> [size |-> 2, signed |-> FALSE]]

PackArguments ==
  LET numbers == {Number(n) : n \in PackedIntegers}
      shallow == numbers \cup {Table(s) : s \in SeqOf(numbers, 2)}
      nested == {Table(<<Table(s), n>>) : s \in SeqOf(numbers, 2), n \in shallow}
  IN SeqOf(shallow, 2) \cup {<<t>> : t \in nested}

PackInit ==
  /\ packStep = "pack" /\ packed = Refuse /\ unpacked = <<>>
  /\ primtype \in DOMAIN PackTypes /\ arguments \in PackArguments

PackCall ==
  /\ packStep = "pack" /\ packStep' = "unpack"
  /\ packed' = Pack(PackTypes[primtype], arguments)
  /\ UNCHANGED <<primtype, arguments, unpacked>>

UnpackCall ==
  /\ packStep = "unpack" /\ packStep' = "done"
  /\ unpacked' = Unpack(PackTypes[primtype], packed.bytes)
  /\ UNCHANGED <<primtype, arguments, packed>>

PackNext == PackCall \/ UnpackCall

(* unpack(primtype, pack(primtype, ...)) is the list of the numbers in the *)
(* order they are found, however nested, exactly unless a number does not  *)
(* fit or there are numbers after a table.  Nothing at all is refused.     *)
PackRoundTrip ==
  packStep = "done" =>
    /\ unpacked = Numbers(arguments) <=> ~LossyPack(PackTypes[primtype], arguments)
    /\ packed.failed <=> toflattable(arguments).n = 0
=============================================================================
