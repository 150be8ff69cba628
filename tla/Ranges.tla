------------------------------- MODULE Ranges -------------------------------
(***************************************************************************)
(* The arithmetic of offsets and sizes.  A script gives Lua integers,      *)
(* which are signed; the C code keeps them in size_t, which is unsigned    *)
(* and as wide, and computes modulo 2^64 = 2 * Half.                       *)
(***************************************************************************)
EXTENDS Integers

CONSTANT Half   \* 2^63

ASSUME RangesAssumption == Half \in Nat \ {0}

LuaInteger == -Half .. Half - 1
SizeT == 0 .. 2 * Half - 1

\* size_t x = luaL_checkinteger(...).  (A slip: a signed x.)
AsSizeSigned(i) == i
AsSize(i) == IF i < 0 THEN i + 2 * Half ELSE i

\* x - y for two size_t.
Minus(x, y) == IF y <= x THEN x - y ELSE x - y + 2 * Half

\* The comparison of the ends instead, which wraps around; and the one that
\* forgets that a range of size 0 has an offset too.
OutOfRangeByEnd(offset, size, extent) ==
  (offset + size) % (2 * Half) > extent
OutOfRangeBySize(offset, size, extent) ==
  size > Minus(extent, offset)

\* The test that hostmem.c and buffer.c make before any access.
OutOfRange(offset, size, extent) ==
  offset >= extent \/ size > Minus(extent, offset)

\* What the test is for: the range is in the extent, in unbounded arithmetic.
InRange(offset, size, extent) ==
  offset >= 0 /\ size >= 0 /\ offset < extent /\ offset + size <= extent
=============================================================================
