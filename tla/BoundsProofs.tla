---------------------------- MODULE BoundsProofs ----------------------------
(***************************************************************************)
(* What the test OutOfRange decides, for integers of any width; the memory *)
(* and the commands that it keeps inside of the buffers; a careful script  *)
(* never makes MoonCL touch memory outside of the areas there are; and the *)
(* memory of a hostmem is freed once by any script.                        *)
(***************************************************************************)
EXTENDS Hostmem, Buffers, TLAPS

\* The conversion gives a size_t: of an integer that is not negative itself, of
\* a negative one something in the upper half.
LEMMA AsSizeType ==
  ASSUME NEW i \in LuaInteger
  PROVE  /\ AsSize(i) \in SizeT /\ AsSize(i) \in Nat
         /\ i >= 0 => AsSize(i) = i
         /\ i < 0 => AsSize(i) >= Half
  BY RangesAssumption DEF LuaInteger, AsSize, SizeT

\* A range that passes the test ends inside the extent, and nothing wraps.
LEMMA PassedFits ==
  ASSUME NEW o \in SizeT, NEW s \in SizeT, NEW e \in SizeT,
         ~OutOfRange(o, s, e)
  PROVE  /\ o < e /\ o + s <= e
         /\ Minus(e, o) = e - o
  BY RangesAssumption DEF OutOfRange, Minus, SizeT

(* For memory of less than half the address space, which is all there is,  *)
(* the test in hostmem.c and buffer.c refuses exactly the ranges that are  *)
(* not in the extent, for every pair of Lua integers.                      *)
THEOREM RangeTestExact ==
  ASSUME NEW o \in LuaInteger, NEW s \in LuaInteger, NEW e \in 0 .. Half - 1
  PROVE  OutOfRange(AsSize(o), AsSize(s), e) <=> ~InRange(o, s, e)
<1>1. AsSize(o) \in Nat /\ AsSize(s) \in Nat
  BY AsSizeType
<1>2. CASE o >= 0 /\ s >= 0
  BY <1>2, AsSizeType, RangesAssumption DEF OutOfRange, Minus, InRange, LuaInteger
<1>3. CASE o < 0
  <2>1. AsSize(o) >= e
    BY <1>3, <1>1, AsSizeType, RangesAssumption
  <2> QED BY <2>1, <1>3 DEF OutOfRange, InRange, LuaInteger
<1>4. CASE o >= 0 /\ s < 0
  <2>1. AsSize(s) > e
    BY <1>4, <1>1, AsSizeType, RangesAssumption
  <2>2. o < e => Minus(e, AsSize(o)) <= e
    BY <1>4, AsSizeType, RangesAssumption DEF Minus, LuaInteger
  <2> QED
    BY <2>1, <2>2, <1>1, <1>4, AsSizeType, RangesAssumption
       DEF OutOfRange, InRange, LuaInteger, Minus
<1> QED BY <1>2, <1>3, <1>4 DEF LuaInteger

-----------------------------------------------------------------------------
BufferInv == BufferTypeOK /\ SubBuffersInside /\ CommandsInside

\* A range in the boundaries of a buffer is a range in its parent.
LEMMA AccessedInside ==
  ASSUME BufferInv, NEW b \in Buffers, There(b),
         NEW offset \in LuaInteger, NEW size \in LuaInteger,
         InBoundaries(b, offset, size)
  PROVE  LET r == Accessed(b, offset, size) IN
         /\ r \in ByteRange
         /\ There(r.buffer)
         /\ r.from >= 0 /\ r.size >= 0
         /\ r.from + r.size <= extents[r.buffer].size
<1> DEFINE p == extents[b].parent
<1>1. /\ extents[b] \in Extent
      /\ extents[b].origin \in Nat /\ extents[b].size \in SizeT /\ p \in Buffers
  BY DEF BufferInv, BufferTypeOK, There, Extent, SizeT
<1>2. /\ There(p)
      /\ extents[b].origin + extents[b].size <= extents[p].size
  BY DEF BufferInv, SubBuffersInside, InParent
<1>3. extents[p].size \in Nat
  BY <1>1, <1>2 DEF BufferInv, BufferTypeOK, There, Extent, SizeT
<1>4. /\ AsSize(offset) \in SizeT /\ AsSize(size) \in SizeT
      /\ AsSize(offset) \in Nat /\ AsSize(size) \in Nat
  BY AsSizeType
<1>5. AsSize(offset) + AsSize(size) <= extents[b].size
  BY <1>1, <1>4, PassedFits DEF InBoundaries
<1>6. extents[b].size \in Nat
  BY <1>1, RangesAssumption DEF SizeT
<1>7. Accessed(b, offset, size) =
        [buffer |-> p, from |-> extents[b].origin + AsSize(offset), size |-> AsSize(size)]
  BY DEF Accessed
<1> QED BY <1>1, <1>2, <1>3, <1>4, <1>5, <1>6, <1>7 DEF ByteRange

\* A buffer that keeps its extent and its parent stays in it.
LEMMA StaysInParent ==
  ASSUME NEW c \in Buffers, InParent(c),
         extents'[c] = extents[c],
         extents'[extents[c].parent] = extents[extents[c].parent]
  PROVE  InParent(c)'
  BY DEF InParent, There, Sub

LEMMA BufferInvInit == BufferInit => BufferInv
  BY DEF BufferInit, BufferInv, BufferTypeOK, SubBuffersInside, CommandsInside, There

LEMMA NoRanges ==
  ASSUME BufferTypeOK', SubBuffersInside', ranges' = {}
  PROVE  BufferInv'
  BY DEF BufferInv, CommandsInside

LEMMA BufferInvNext ==
  ASSUME BufferInv, BufferNext
  PROVE  BufferInv'
<1> USE DEF BufferInv
<1>1. CASE Enqueued
  BY <1>1 DEF Enqueued, BufferTypeOK, SubBuffersInside, CommandsInside, InParent, There, Sub
<1>2. ASSUME NEW b \in Buffers, ranges = {}, CreateBuffer(b) PROVE BufferInv'
  <2>1. PICK n \in LuaInteger :
          /\ extents' = [extents EXCEPT ![b] = [parent |-> b, origin |-> 0, size |-> AsSize(n)]]
          /\ ~There(b) /\ UNCHANGED ranges
    BY <1>2 DEF CreateBuffer
  <2>2. AsSize(n) \in SizeT /\ 0 \in SizeT /\ AsSize(n) \in Nat
    BY AsSizeType, RangesAssumption DEF SizeT
  <2>3. [parent |-> b, origin |-> 0, size |-> AsSize(n)] \in Extent
    BY <2>2 DEF Extent
  <2>4. BufferTypeOK'
    BY <2>1, <2>3, <1>2 DEF BufferTypeOK
  <2>5. SubBuffersInside'
    <3> SUFFICES ASSUME NEW c \in Buffers, There(c)'
                 PROVE  InParent(c)'
      BY DEF SubBuffersInside
    <3>1. CASE c = b
      BY <3>1, <2>1, <2>2, <2>3, <2>4 DEF BufferTypeOK, InParent, There, Sub
    <3>2. CASE c # b
      <4>1. There(c) /\ extents'[c] = extents[c]
        BY <3>2, <2>1 DEF There, BufferTypeOK
      <4>2. extents[c].parent \in Buffers /\ extents[c].parent # b
        BY <4>1, <2>1 DEF There, BufferTypeOK, Extent, SubBuffersInside, InParent
      <4>3. extents'[extents[c].parent] = extents[extents[c].parent]
        BY <4>2, <2>1 DEF BufferTypeOK
      <4> QED BY <4>1, <4>3, StaysInParent DEF SubBuffersInside
    <3> QED BY <3>1, <3>2
  <2> QED BY <2>4, <2>5, <2>1, <1>2, NoRanges
<1>3. ASSUME NEW b \in Buffers, NEW p \in Buffers, ranges = {}, CreateBufferRegion(b, p)
      PROVE  BufferInv'
  <2>1. PICK origin \in LuaInteger, size \in LuaInteger :
          /\ ~There(b) /\ There(p) /\ ~Sub(p) /\ UNCHANGED ranges
          /\ ~OutOfRange(AsSize(origin), AsSize(size), extents[p].size)
          /\ extents' = [extents EXCEPT ![b] =
               [parent |-> p, origin |-> AsSize(origin), size |-> AsSize(size)]]
    BY <1>3 DEF CreateBufferRegion
  <2>2. AsSize(origin) \in SizeT /\ AsSize(size) \in SizeT
    BY AsSizeType
  <2>3. [parent |-> p, origin |-> AsSize(origin), size |-> AsSize(size)] \in Extent
    BY <2>2 DEF Extent
  <2>4. BufferTypeOK'
    BY <2>1, <2>3, <1>3 DEF BufferTypeOK
  <2>5. extents[p].size \in SizeT /\ p # b
    BY <2>1 DEF There, BufferTypeOK, Extent
  <2>6. AsSize(origin) + AsSize(size) <= extents[p].size
    BY <2>1, <2>2, <2>5, PassedFits
  <2>7. extents'[p] = extents[p]
    BY <2>1, <2>5 DEF BufferTypeOK
  <2>8. SubBuffersInside'
    <3> SUFFICES ASSUME NEW c \in Buffers, There(c)'
                 PROVE  InParent(c)'
      BY DEF SubBuffersInside
    <3>1. CASE c = b
      <4>1. extents'[c] = [parent |-> p, origin |-> AsSize(origin), size |-> AsSize(size)]
        BY <3>1, <2>1 DEF BufferTypeOK
      <4> QED BY <4>1, <2>1, <2>6, <2>7 DEF InParent, There, Sub
    <3>2. CASE c # b
      <4>1. There(c) /\ extents'[c] = extents[c]
        BY <3>2, <2>1 DEF There, BufferTypeOK
      <4>2. extents[c].parent \in Buffers /\ extents[c].parent # b
        BY <4>1, <2>1 DEF There, BufferTypeOK, Extent, SubBuffersInside, InParent
      <4>3. extents'[extents[c].parent] = extents[extents[c].parent]
        BY <4>2, <2>1 DEF BufferTypeOK
      <4> QED BY <4>1, <4>3, StaysInParent DEF SubBuffersInside
    <3> QED BY <3>1, <3>2
  <2> QED BY <2>4, <2>8, <2>1, <1>3, NoRanges
<1>4. ASSUME NEW b \in Buffers, ranges = {}, freebuffer(b) PROVE BufferInv'
  <2>1. /\ extents' = [c \in Buffers |->
             IF There(c) /\ (c = b \/ extents[c].parent = b) THEN NoBuffer ELSE extents[c]]
        /\ ranges' = {}
    BY <1>4 DEF freebuffer
  <2>2. BufferTypeOK'
    BY <2>1 DEF BufferTypeOK
  <2>3. SubBuffersInside'
    <3> SUFFICES ASSUME NEW c \in Buffers, There(c)'
                 PROVE  InParent(c)'
      BY DEF SubBuffersInside
    <3>1. There(c) /\ extents'[c] = extents[c] /\ c # b /\ extents[c].parent # b
      BY <2>1 DEF There
    <3> DEFINE q == extents[c].parent
    <3>2. q \in Buffers /\ There(q) /\ ~Sub(q)
      BY <3>1 DEF There, BufferTypeOK, Extent, SubBuffersInside, InParent
    <3>3. extents'[q] = extents[q]
      BY <3>1, <3>2, <2>1 DEF Sub
    <3> QED BY <3>1, <3>3, StaysInParent DEF SubBuffersInside
  <2> QED BY <2>1, <2>2, <2>3, NoRanges
<1>5. ASSUME NEW b \in Buffers, EnqueueFill(b) PROVE BufferInv'
  <2>1. PICK offset \in LuaInteger, size \in LuaInteger :
          /\ There(b) /\ InBoundaries(b, offset, size)
          /\ ranges' = {Accessed(b, offset, size)} /\ UNCHANGED extents
    BY <1>5 DEF EnqueueFill
  <2> QED
    BY <2>1, AccessedInside DEF BufferTypeOK, SubBuffersInside, CommandsInside, InParent, There, Sub
<1>6. ASSUME NEW src \in Buffers, NEW dst \in Buffers, EnqueueCopy(src, dst) PROVE BufferInv'
  <2>1. PICK from \in LuaInteger, to \in LuaInteger, size \in LuaInteger :
          /\ There(src) /\ There(dst)
          /\ InBoundaries(src, from, size) /\ InBoundaries(dst, to, size)
          /\ ranges' = {Accessed(src, from, size), Accessed(dst, to, size)}
          /\ UNCHANGED extents
    BY <1>6 DEF EnqueueCopy
  <2> QED
    BY <2>1, AccessedInside DEF BufferTypeOK, SubBuffersInside, CommandsInside, InParent, There, Sub
<1> QED BY <1>1, <1>2, <1>3, <1>4, <1>5, <1>6 DEF BufferNext, BufferOperations

LEMMA BufferInvStutter == BufferInv /\ UNCHANGED bufferVars => BufferInv'
  BY DEF bufferVars, BufferInv, BufferTypeOK, SubBuffersInside, CommandsInside, InParent, There, Sub

LEMMA BufferInductive == BufferSpec => []BufferInv
  BY BufferInvInit, BufferInvNext, BufferInvStutter, PTL DEF BufferSpec

(* Sub buffers lie in their buffers, and every command whose range MoonCL  *)
(* checks stays inside the memory of the buffer, for every width of the    *)
(* integers and any number of buffers.                                     *)
THEOREM BufferRanges == BufferSpec => []BuffersInside
  BY BufferInductive, PTL DEF BufferInv, BuffersInside

-----------------------------------------------------------------------------
\* What holds of the areas and the windows, and what of the last operation.
MemoryInv ==
  /\ areas \in [Areas -> Area]
  /\ windows \in [Hostmems -> Window \cup {NoWindow}]
  /\ WindowsInside /\ OneOwner
LastInv ==
  /\ last \in [op : Operations, failed : BOOLEAN, legal : BOOLEAN,
               reads : SUBSET Span, writes : SUBSET Span]
  /\ AccessesInside /\ RefusedIfIllegal
HostmemInv == MemoryInv /\ LastInv

LEMMA WindowType ==
  ASSUME MemoryInv, NEW h \in Hostmems, Exists(h)
  PROVE  /\ windows[h] \in Window
         /\ windows[h].area \in Areas /\ windows[h].base \in Nat
         /\ windows[h].size \in SizeT /\ windows[h].size \in Nat
         /\ windows[h].allocated \in BOOLEAN
         /\ areas[windows[h].area] \in Area
  BY RangesAssumption DEF MemoryInv, Exists, Window, SizeT

\* A careful script's windows are smaller than half the address space.
LEMMA CarefulWindow ==
  ASSUME MemoryInv, Careful, NEW h \in Hostmems, Exists(h)
  PROVE  windows[h].size \in 0 .. Half - 1
<1>1. areas[windows[h].area].size \in 0 .. Half - 1
  BY WindowType DEF Area
<1> QED BY <1>1, WindowType, RangesAssumption DEF MemoryInv, WindowsInside, WindowInside

LEMMA RefusedExact ==
  ASSUME MemoryInv, Careful, NEW h \in Hostmems, Exists(h),
         NEW o \in LuaInteger, NEW s \in LuaInteger
  PROVE  Refused(h, o, s) <=> ~Legal(h, o, s)
  BY CarefulWindow, RangeTestExact DEF Refused, Legal

\* The bytes of a range of a window, and when they are in its area.
LEMMA BytesInside ==
  ASSUME MemoryInv, NEW h \in Hostmems, Exists(h), NEW o \in Nat, NEW s \in Nat
  PROVE  /\ Bytes(h, o, s) \in SUBSET Span
         /\ Careful /\ (s = 0 \/ o + s <= windows[h].size) =>
              \A b \in Bytes(h, o, s) : InArea(b)
<1>1. CASE s = 0
  BY <1>1 DEF Bytes
<1>2. CASE s # 0
  <2>1. Bytes(h, o, s) =
          {[area |-> windows[h].area, from |-> windows[h].base + o, size |-> s]}
    BY <1>2 DEF Bytes
  <2>2. areas[windows[h].area].size \in Nat
    BY WindowType, RangesAssumption DEF Area
  <2>3. Careful => WindowInside(h)
    BY DEF MemoryInv, WindowsInside
  <2> QED
    BY <1>2, <2>1, <2>2, <2>3, WindowType DEF Span, InArea, WindowInside
<1> QED BY <1>1, <1>2

\* A range that is not refused.
LEMMA PassedInside ==
  ASSUME MemoryInv, NEW h \in Hostmems, Exists(h),
         NEW o \in LuaInteger, NEW s \in LuaInteger
  PROVE  /\ Bytes(h, AsSize(o), AsSize(s)) \in SUBSET Span
         /\ Careful /\ (s = 0 \/ ~Refused(h, o, s)) =>
              \A b \in Bytes(h, AsSize(o), AsSize(s)) : InArea(b)
<1>1. /\ AsSize(o) \in Nat /\ AsSize(s) \in Nat
      /\ AsSize(o) \in SizeT /\ AsSize(s) \in SizeT
      /\ s = 0 => AsSize(s) = 0
  BY AsSizeType
<1>2. ~Refused(h, o, s) => AsSize(o) + AsSize(s) <= windows[h].size
  BY <1>1, WindowType, PassedFits DEF Refused
<1> QED BY <1>1, <1>2, BytesInside

\* The bytes from an offset in the window on.
LEMMA RestInside ==
  ASSUME MemoryInv, NEW h \in Hostmems, Exists(h), NEW o \in LuaInteger
  PROVE  LET rest == Minus(windows[h].size, AsSize(o)) IN
         /\ rest \in Nat
         /\ AsSize(o) <= windows[h].size =>
              /\ rest = windows[h].size - AsSize(o)
              /\ AsSize(o) + rest = windows[h].size
         /\ AsSize(o) >= windows[h].size <=>
              OutOfRange(AsSize(o), rest, windows[h].size)
         /\ Bytes(h, AsSize(o), rest) \in SUBSET Span
         /\ Careful /\ AsSize(o) < windows[h].size =>
              \A b \in Bytes(h, AsSize(o), rest) : InArea(b)
<1> DEFINE rest == Minus(windows[h].size, AsSize(o))
<1>1. AsSize(o) \in SizeT /\ AsSize(o) \in Nat
  BY AsSizeType
<1>2. windows[h].size \in SizeT /\ windows[h].size \in Nat
  BY WindowType
<1>3. /\ rest \in Nat
      /\ AsSize(o) <= windows[h].size => rest = windows[h].size - AsSize(o)
  BY <1>1, <1>2, RangesAssumption DEF Minus, SizeT
<1>4. AsSize(o) >= windows[h].size <=> OutOfRange(AsSize(o), rest, windows[h].size)
  BY <1>1, <1>2, <1>3 DEF OutOfRange
<1>5. Bytes(h, AsSize(o), rest) \in SUBSET Span
  BY <1>1, <1>3, BytesInside
<1>6. ASSUME Careful, AsSize(o) < windows[h].size
      PROVE  \A b \in Bytes(h, AsSize(o), rest) : InArea(b)
  BY <1>1, <1>2, <1>3, <1>6, BytesInside
<1> QED BY <1>1, <1>2, <1>3, <1>4, <1>5, <1>6

-----------------------------------------------------------------------------
\* The memory stays as it is, and the last operation is as it should be.
LEMMA SameMemory ==
  ASSUME MemoryInv, UNCHANGED <<areas, windows>>
  PROVE  MemoryInv' /\ \A s : InArea(s)' <=> InArea(s)
  BY DEF MemoryInv, WindowsInside, WindowInside, OneOwner, Owns, Exists, InArea

LEMMA QuietInv == last' = Quiet => LastInv'
<1> SUFFICES ASSUME last' = Quiet PROVE LastInv'
  OBVIOUS
<1>1. last' = [op |-> "none", failed |-> FALSE, legal |-> TRUE, reads |-> {}, writes |-> {}]
  BY DEF Quiet
<1>4. last'.failed = FALSE /\ last'.legal = TRUE
  BY <1>1
<1>2. last'.failed <=> ~last'.legal
  BY <1>4, Zenon
<1>3. RefusedIfIllegal'
  BY <1>2 DEF RefusedIfIllegal
<1>5. last' \in [op : Operations, failed : BOOLEAN, legal : BOOLEAN,
                 reads : SUBSET Span, writes : SUBSET Span]
  BY <1>1 DEF Operations
<1>6. AccessesInside'
  BY <1>1 DEF AccessesInside, InArea
<1> QED BY <1>3, <1>5, <1>6 DEF LastInv

\* What an access has to fulfil.
LEMMA AccessInv ==
  ASSUME MemoryInv,
         NEW op \in Operations, NEW refused \in BOOLEAN, NEW legal \in BOOLEAN,
         NEW reads \in SUBSET Span, NEW writes \in SUBSET Span,
         Careful => (refused <=> ~legal),
         Careful /\ ~refused => \A s \in reads \cup writes : InArea(s),
         Access(op, refused, legal, reads, writes)
  PROVE  HostmemInv'
<1>1. UNCHANGED <<areas, windows>>
  BY DEF Access
<1>2. CASE refused
  <2>1. last' = [op |-> op, failed |-> TRUE, legal |-> legal, reads |-> {}, writes |-> {}]
    BY <1>2 DEF Access
  <2>2. last'.failed = TRUE /\ last'.legal = legal
    BY <2>1
  <2>3. Careful => (last'.failed <=> ~last'.legal)
    BY <1>2, <2>2, Zenon
  <2>4. RefusedIfIllegal'
    BY <2>3 DEF RefusedIfIllegal
  <2> QED BY <1>1, <2>1, <2>4, SameMemory DEF HostmemInv, LastInv, AccessesInside
<1>3. CASE ~refused
  <2>1. last' = [op |-> op, failed |-> FALSE, legal |-> legal,
                 reads |-> reads, writes |-> writes]
    BY <1>3 DEF Access
  <2>2. last'.failed = FALSE /\ last'.legal = legal
    BY <2>1
  <2>4. Careful => (last'.failed <=> ~last'.legal)
    BY <1>3, <2>2, Zenon
  <2>5. RefusedIfIllegal'
    BY <2>4 DEF RefusedIfIllegal
  <2>3. AccessesInside'
    BY <1>1, <1>3, <2>1, SameMemory DEF AccessesInside
  <2> QED BY <1>1, <2>1, <2>3, <2>5, SameMemory DEF HostmemInv, LastInv
<1> QED BY <1>2, <1>3

-----------------------------------------------------------------------------
LEMMA HostmemInvInit == HostmemInit => HostmemInv
<1> SUFFICES ASSUME HostmemInit PROVE HostmemInv
  OBVIOUS
<1>1. MemoryInv
  BY RangesAssumption, HostmemAssumption
     DEF HostmemInit, MemoryInv, Area, Kinds, WindowsInside, OneOwner, Owns, Exists
<1>2. last = [op |-> "none", failed |-> FALSE, legal |-> TRUE, reads |-> {}, writes |-> {}]
  BY DEF HostmemInit, Quiet
<1>3. last.failed = FALSE /\ last.legal = TRUE
  BY <1>2
<1>4. last.failed <=> ~last.legal
  BY <1>3, Zenon
<1>5. RefusedIfIllegal
  BY <1>4 DEF RefusedIfIllegal
<1>6. last \in [op : Operations, failed : BOOLEAN, legal : BOOLEAN,
                reads : SUBSET Span, writes : SUBSET Span]
  BY <1>2 DEF Operations
<1>7. AccessesInside
  BY <1>2 DEF AccessesInside, InArea
<1> QED BY <1>1, <1>5, <1>6, <1>7 DEF HostmemInv, LastInv

\* A window is not NoWindow.
LEMMA WindowExists ==
  ASSUME NEW w \in Window
  PROVE  w # NoWindow
  BY HostmemAssumption DEF Window

\* A new window, over memory that was or is now there.
LEMMA NewWindow ==
  ASSUME MemoryInv, NEW h \in Hostmems, ~Exists(h),
         NEW w \in Window,
         areas' \in [Areas -> Area],
         windows' = [windows EXCEPT ![h] = w],
         \A a \in Areas : areas[a].kind # "unused" => areas'[a] = areas[a],
         Careful => areas'[w.area].kind \in Live /\ w.base + w.size <= areas'[w.area].size,
         w.allocated => areas'[w.area].kind = "ours" /\ areas[w.area].kind = "unused",
         \A g \in Hostmems : w.allocated => ~Owns(g, w.area)
  PROVE  MemoryInv'
<1>1. windows' \in [Hostmems -> Window \cup {NoWindow}]
  BY DEF MemoryInv
<1>2. \A g \in Hostmems : g # h => windows'[g] = windows[g]
  BY DEF MemoryInv
<1>3. windows'[h] = w /\ w.area \in Areas
  BY DEF MemoryInv, Window
<1>4. WindowsInside'
  <2> SUFFICES ASSUME Careful, NEW g \in Hostmems, Exists(g)' PROVE WindowInside(g)'
    BY DEF WindowsInside
  <2>1. CASE g = h
    BY <2>1, <1>3 DEF WindowInside
  <2>2. CASE g # h
    <3>1. Exists(g) /\ windows'[g] = windows[g]
      BY <2>2, <1>2 DEF Exists
    <3>2. WindowInside(g)
      BY <3>1 DEF MemoryInv, WindowsInside
    <3>3. areas'[windows[g].area] = areas[windows[g].area]
      BY <3>1, <3>2, WindowType DEF WindowInside, Live
    <3> QED BY <3>1, <3>2, <3>3 DEF WindowInside
  <2> QED BY <2>1, <2>2
<1>5. OneOwner'
  <2> SUFFICES ASSUME NEW g \in Hostmems, NEW a \in Areas, Owns(g, a)'
               PROVE  /\ areas'[a].kind = "ours"
                      /\ \A i \in Hostmems : Owns(i, a)' => i = g
    BY DEF OneOwner
  <2>1. \A i \in Hostmems : i # h => (Owns(i, a)' <=> Owns(i, a))
    BY <1>2 DEF Owns, Exists
  <2>2. Owns(h, a)' => w.allocated /\ w.area = a
    BY <1>3 DEF Owns
  <2>3. CASE g = h
    BY <2>1, <2>2, <2>3
  <2>4. CASE g # h
    <3>1. Owns(g, a)
      BY <2>1, <2>4
    <3>2. areas[a].kind = "ours" /\ \A i \in Hostmems : Owns(i, a) => i = g
      BY <3>1 DEF MemoryInv, OneOwner
    <3>3. ~Owns(h, a)'
      BY <2>2, <3>1
    <3> QED BY <2>1, <3>2, <3>3
  <2> QED BY <2>3, <2>4
<1> QED BY <1>1, <1>4, <1>5 DEF MemoryInv

\* The areas change, but not the ones that are there.
LEMMA NewArea ==
  ASSUME MemoryInv, areas' \in [Areas -> Area], UNCHANGED windows,
         \A a \in Areas : areas[a].kind # "unused" => areas'[a] = areas[a]
  PROVE  MemoryInv'
<1>1. WindowsInside'
  <2> SUFFICES ASSUME Careful, NEW g \in Hostmems, Exists(g)' PROVE WindowInside(g)'
    BY DEF WindowsInside
  <2>1. Exists(g) /\ WindowInside(g)
    BY DEF MemoryInv, WindowsInside, Exists
  <2> QED BY <2>1, WindowType DEF WindowInside, Live
<1>2. OneOwner'
  BY DEF MemoryInv, OneOwner, Owns, Exists
<1> QED BY <1>1, <1>2 DEF MemoryInv

-----------------------------------------------------------------------------
LEMMA MethodsWithoutChange ==
  ASSUME HostmemInv, NEW h \in Hostmems,
         \/ WriteData(h) \/ WritePack(h) \/ Clear(h) \/ Read(h) \/ Ptr(h) \/ Size(h)
         \/ \E a \in Areas : CopyPtr(h, a)
         \/ \E g \in Hostmems : CopyHostmem(h, g)
  PROVE  HostmemInv'
<1> USE DEF HostmemInv
<1>1. CASE WriteData(h)
  <2>1. PICK o \in LuaInteger, s \in 0 .. Half - 1 :
          /\ Exists(h)
          /\ Access("write", s # 0 /\ Refused(h, o, s), s = 0 \/ Legal(h, o, s),
                    {}, Bytes(h, AsSize(o), s))
    BY <1>1 DEF WriteData
  <2>2. s \in LuaInteger /\ AsSize(s) = s
    BY AsSizeType, RangesAssumption DEF LuaInteger
  <2>3. Careful => (Refused(h, o, s) <=> ~Legal(h, o, s))
    BY <2>1, <2>2, RefusedExact
  <2>4. /\ Bytes(h, AsSize(o), s) \in SUBSET Span
        /\ Careful /\ (s = 0 \/ ~Refused(h, o, s)) =>
             \A b \in Bytes(h, AsSize(o), s) : InArea(b)
    BY <2>1, <2>2, PassedInside
  <2> QED BY <2>1, <2>3, <2>4, AccessInv DEF Operations
<1>2. CASE Clear(h)
  <2>1. PICK o \in LuaInteger, s \in LuaInteger :
          /\ Exists(h)
          /\ Access("clear", Refused(h, o, s), Legal(h, o, s),
                    {}, Bytes(h, AsSize(o), AsSize(s)))
    BY <1>2 DEF Clear
  <2>2. Refused(h, o, s) \in BOOLEAN /\ Legal(h, o, s) \in BOOLEAN
    BY DEF Refused, Legal, OutOfRange, InRange
  <2> QED BY <2>1, <2>2, RefusedExact, PassedInside, AccessInv DEF Operations
<1>3. CASE Ptr(h)
  <2>1. PICK o \in LuaInteger, s \in LuaInteger :
          /\ Exists(h)
          /\ Access("ptr", Refused(h, o, s), Legal(h, o, s),
                    Bytes(h, AsSize(o), AsSize(s)), {})
    BY <1>3 DEF Ptr
  <2>2. Refused(h, o, s) \in BOOLEAN /\ Legal(h, o, s) \in BOOLEAN
    BY DEF Refused, Legal, OutOfRange, InRange
  <2> QED BY <2>1, <2>2, RefusedExact, PassedInside, AccessInv DEF Operations
<1>4. CASE Read(h)
  <2>1. PICK o \in LuaInteger : Exists(h) /\
          LET rest == Minus(windows[h].size, AsSize(o)) IN
          \/ Access("read", OutOfRange(AsSize(o), rest, windows[h].size),
                    o >= 0 /\ o < windows[h].size, Bytes(h, AsSize(o), rest), {})
          \/ \E s \in LuaInteger :
               Access("read", Refused(h, o, s), Legal(h, o, s),
                      Bytes(h, AsSize(o), AsSize(s)), {})
    BY <1>4 DEF Read
  <2> DEFINE rest == Minus(windows[h].size, AsSize(o))
             past == OutOfRange(AsSize(o), rest, windows[h].size)
  <2>2. CASE Access("read", past, o >= 0 /\ o < windows[h].size,
                    Bytes(h, AsSize(o), rest), {})
    <3>1. past \in BOOLEAN
      BY DEF OutOfRange
    <3>2. /\ AsSize(o) >= windows[h].size <=> past
          /\ Bytes(h, AsSize(o), rest) \in SUBSET Span
          /\ Careful /\ AsSize(o) < windows[h].size =>
               \A b \in Bytes(h, AsSize(o), rest) : InArea(b)
      BY <2>1, RestInside
    <3>3. AsSize(o) \in Nat /\ windows[h].size \in Nat
      BY <2>1, AsSizeType, WindowType
    <3>4. Careful => (past <=> ~(o >= 0 /\ o < windows[h].size))
      <4> SUFFICES ASSUME Careful
                   PROVE  AsSize(o) >= windows[h].size <=> ~(o >= 0 /\ o < windows[h].size)
        BY <3>2
      <4>1. windows[h].size \in 0 .. Half - 1
        BY <2>1, CarefulWindow
      <4> QED BY <4>1, AsSizeType, RangesAssumption DEF LuaInteger
    <3>5. Careful /\ ~past => \A b \in Bytes(h, AsSize(o), rest) : InArea(b)
      BY <3>2, <3>3
    <3> DEFINE fits == o >= 0 /\ o < windows[h].size
               bytes == Bytes(h, AsSize(o), rest)
    <3>6. fits \in BOOLEAN
      OBVIOUS
    <3>7. Access("read", past, fits, bytes, {})
      BY <2>2
    <3>8. Careful /\ ~past => \A b \in bytes \cup {} : InArea(b)
      BY <3>5
    <3>9. bytes \in SUBSET Span /\ {} \in SUBSET Span /\ "read" \in Operations
      BY <3>2 DEF Operations
    <3>10. Careful => (past <=> ~fits)
      BY <3>4
    <3> HIDE DEF rest, past, fits, bytes
    <3> QED BY <3>1, <3>6, <3>7, <3>8, <3>9, <3>10, AccessInv
  <2>3. ASSUME NEW s \in LuaInteger,
               Access("read", Refused(h, o, s), Legal(h, o, s),
                      Bytes(h, AsSize(o), AsSize(s)), {})
        PROVE  HostmemInv'
    <3>1. Refused(h, o, s) \in BOOLEAN /\ Legal(h, o, s) \in BOOLEAN
      BY DEF Refused, Legal, OutOfRange, InRange
    <3> QED BY <2>1, <2>3, <3>1, RefusedExact, PassedInside, AccessInv DEF Operations
  <2> QED BY <2>1, <2>2, <2>3
<1>5. CASE Size(h)
  <2>1. PICK o \in LuaInteger : Exists(h) /\
          Access("size", FALSE, TRUE,
                 IF AsSize(o) >= windows[h].size THEN {}
                 ELSE Bytes(h, AsSize(o), Minus(windows[h].size, AsSize(o))), {})
    BY <1>5 DEF Size
  <2> DEFINE reads == IF AsSize(o) >= windows[h].size THEN {}
                      ELSE Bytes(h, AsSize(o), Minus(windows[h].size, AsSize(o)))
  <2>2. reads \in SUBSET Span /\ (Careful => \A b \in reads : InArea(b))
    BY <2>1, RestInside, AsSizeType, WindowType
  <2>3. Access("size", FALSE, TRUE, reads, {})
    BY <2>1
  <2> HIDE DEF reads
  <2>4. /\ FALSE \in BOOLEAN /\ TRUE \in BOOLEAN /\ (FALSE <=> ~TRUE)
        /\ {} \in SUBSET Span /\ "size" \in Operations
    BY DEF Operations
  <2>5. Careful => \A b \in reads \cup {} : InArea(b)
    BY <2>2
  <2> QED BY <2>2, <2>3, <2>4, <2>5, AccessInv
<1>6. ASSUME NEW a \in Areas, CopyPtr(h, a) PROVE HostmemInv'
  <2>1. PICK o \in LuaInteger, s \in LuaInteger, from \in 0 .. areas[a].size :
          /\ Exists(h)
          /\ Careful => areas[a].kind \in Live /\ s >= 0 /\ from + s <= areas[a].size
          /\ Access("copy", s # 0 /\ Refused(h, o, s), s = 0 \/ Legal(h, o, s),
                    {[area |-> a, from |-> from, size |-> AsSize(s)]},
                    Bytes(h, AsSize(o), AsSize(s)))
    BY <1>6 DEF CopyPtr
  <2> DEFINE reads == {[area |-> a, from |-> from, size |-> AsSize(s)]}
  <2>2. AsSize(s) \in Nat /\ (s >= 0 => AsSize(s) = s)
    BY AsSizeType
  <2>3. areas[a].size \in Nat /\ from \in Nat
    BY RangesAssumption DEF MemoryInv, Area
  <2>4. reads \in SUBSET Span /\ (Careful => \A b \in reads : InArea(b))
    BY <2>1, <2>2, <2>3 DEF Span, InArea
  <2>5. Careful => (Refused(h, o, s) <=> ~Legal(h, o, s))
    BY <2>1, RefusedExact
  <2>6. /\ Bytes(h, AsSize(o), AsSize(s)) \in SUBSET Span
        /\ Careful /\ (s = 0 \/ ~Refused(h, o, s)) =>
             \A b \in Bytes(h, AsSize(o), AsSize(s)) : InArea(b)
    BY <2>1, PassedInside
  <2> HIDE DEF reads
  <2> QED BY <2>1, <2>4, <2>5, <2>6, AccessInv DEF Operations, reads
<1>7. ASSUME NEW g \in Hostmems, CopyHostmem(h, g) PROVE HostmemInv'
  <2>1. PICK o \in LuaInteger, s \in LuaInteger, from \in LuaInteger :
          /\ Exists(h) /\ Exists(g)
          /\ Access("copy", h = g \/ (s # 0 /\ (Refused(h, o, s) \/ Refused(g, from, s))),
                    h # g /\ (s = 0 \/ (Legal(h, o, s) /\ Legal(g, from, s))),
                    Bytes(g, AsSize(from), AsSize(s)), Bytes(h, AsSize(o), AsSize(s)))
    BY <1>7 DEF CopyHostmem
  <2>2. Careful => /\ Refused(h, o, s) <=> ~Legal(h, o, s)
                   /\ Refused(g, from, s) <=> ~Legal(g, from, s)
    BY <2>1, RefusedExact
  <2>3. /\ Bytes(h, AsSize(o), AsSize(s)) \in SUBSET Span
        /\ Careful /\ (s = 0 \/ ~Refused(h, o, s)) =>
             \A b \in Bytes(h, AsSize(o), AsSize(s)) : InArea(b)
    BY <2>1, PassedInside
  <2>4. /\ Bytes(g, AsSize(from), AsSize(s)) \in SUBSET Span
        /\ Careful /\ (s = 0 \/ ~Refused(g, from, s)) =>
             \A b \in Bytes(g, AsSize(from), AsSize(s)) : InArea(b)
    BY <2>1, PassedInside
  <2> QED BY <2>1, <2>2, <2>3, <2>4, AccessInv DEF Operations
<1>8. CASE WritePack(h)
  <2>0. PICK o \in LuaInteger, k \in PrimSizes, n \in 0 .. MaxValues :
          LET small == AsSize(o) >= windows[h].size
                       \/ Minus(windows[h].size, AsSize(o)) < n * k IN
          /\ Exists(h)
          /\ \E bad \in 0 .. n :
               /\ last' = [op |-> "writepack", failed |-> small \/ bad # 0,
                           legal |-> bad = 0 /\ InRange(o, n * k, windows[h].size),
                           reads |-> {},
                           writes |-> IF small THEN {}
                                      ELSE Bytes(h, AsSize(o), k * (IF bad = 0 THEN n ELSE bad))]
               /\ UNCHANGED <<areas, windows>>
    BY <1>8 DEF WritePack
  <2>1. PICK bad \in 0 .. n :
          LET small == AsSize(o) >= windows[h].size
                       \/ Minus(windows[h].size, AsSize(o)) < n * k IN
          /\ Exists(h)
          /\ last' = [op |-> "writepack", failed |-> small \/ bad # 0,
                      legal |-> bad = 0 /\ InRange(o, n * k, windows[h].size),
                      reads |-> {},
                      writes |-> IF small THEN {}
                                 ELSE Bytes(h, AsSize(o), k * (IF bad = 0 THEN n ELSE bad))]
          /\ UNCHANGED <<areas, windows>>
    BY <2>0
  <2> DEFINE room == Minus(windows[h].size, AsSize(o))
             small == AsSize(o) >= windows[h].size \/ room < n * k
             m == IF bad = 0 THEN n ELSE bad
             fits == InRange(o, n * k, windows[h].size)
             writes == IF small THEN {} ELSE Bytes(h, AsSize(o), k * m)
  <2>2. k \in Nat /\ n \in Nat /\ m \in Nat /\ m <= n
    BY HostmemAssumption
  <2>3. n * k \in Nat /\ k * m \in Nat /\ k * m <= n * k
    <3>1. n * k = k * n /\ k * n \in Nat /\ k * m \in Nat
      BY <2>2
    <3>2. k * n = k * m + k * (n - m) /\ k * (n - m) \in Nat
      BY <2>2
    <3> QED BY <3>1, <3>2
  <2>4. /\ AsSize(o) \in Nat /\ windows[h].size \in Nat
        /\ AsSize(o) <= windows[h].size => room = windows[h].size - AsSize(o)
    BY <2>1, AsSizeType, WindowType, RestInside
  <2>5. writes \in SUBSET Span /\ (Careful => \A b \in writes : InArea(b))
    <3>1. CASE small
      BY <3>1
    <3>2. CASE ~small
      <4>1. AsSize(o) + k * m <= windows[h].size
        BY <3>2, <2>3, <2>4
      <4> QED BY <4>1, <3>2, <2>1, <2>3, <2>4, BytesInside
    <3> QED BY <3>1, <3>2
  <2>6. Careful => (small <=> ~fits)
    <3> SUFFICES ASSUME Careful PROVE small <=> ~fits
      OBVIOUS
    <3>1. windows[h].size \in 0 .. Half - 1
      BY <2>1, CarefulWindow
    <3>2. CASE o < 0
      BY <3>1, <3>2, <2>3, <2>4, AsSizeType, RangesAssumption DEF InRange, LuaInteger
    <3>3. CASE o >= 0
      BY <3>1, <3>3, <2>3, <2>4, AsSizeType, RangesAssumption DEF InRange, LuaInteger
    <3> QED BY <3>2, <3>3 DEF LuaInteger
  <2>7. /\ last' = [op |-> "writepack", failed |-> small \/ bad # 0,
                    legal |-> bad = 0 /\ fits, reads |-> {}, writes |-> writes]
        /\ UNCHANGED <<areas, windows>>
    BY <2>1
  <2>8. small \in BOOLEAN /\ fits \in BOOLEAN
    BY DEF InRange
  <2> HIDE DEF small, fits, writes, m, room
  <2>9. /\ last'.failed = (small \/ bad # 0) /\ last'.legal = (bad = 0 /\ fits)
        /\ last'.reads = {} /\ last'.writes = writes
        /\ last' \in [op : Operations, failed : BOOLEAN, legal : BOOLEAN,
                      reads : SUBSET Span, writes : SUBSET Span]
    BY <2>5, <2>7, <2>8 DEF Operations
  <2>10. Careful => (last'.failed <=> ~last'.legal)
    BY <2>6, <2>9, Zenon
  <2>11. AccessesInside'
    BY <2>5, <2>7, <2>9, SameMemory DEF AccessesInside
  <2>12. RefusedIfIllegal'
    BY <2>10 DEF RefusedIfIllegal
  <2> QED BY <2>7, <2>9, <2>11, <2>12, SameMemory DEF LastInv
<1> QED BY <1>1, <1>2, <1>3, <1>4, <1>5, <1>6, <1>7, <1>8

\* The operation `create': only what it wrote matters.
LEMMA CreateInv ==
  ASSUME NEW failed \in BOOLEAN, NEW writes \in SUBSET Span,
         last' = [op |-> "create", failed |-> failed, legal |-> TRUE,
                  reads |-> {}, writes |-> writes],
         Careful => \A s \in writes : InArea(s)'
  PROVE  LastInv'
<1>1. /\ last'.op = "create" /\ last'.reads = {} /\ last'.writes = writes
      /\ last' \in [op : Operations, failed : BOOLEAN, legal : BOOLEAN,
                    reads : SUBSET Span, writes : SUBSET Span]
  BY DEF Operations
<1>2. AccessesInside'
  <2> SUFFICES ASSUME Careful, NEW s \in last'.reads \cup last'.writes PROVE InArea(s)'
    BY DEF AccessesInside
  <2>1. s \in writes
    BY <1>1
  <2> QED BY <2>1
<1>3. RefusedIfIllegal'
  BY <1>1 DEF RefusedIfIllegal
<1> QED BY <1>1, <1>2, <1>3 DEF LastInv

\* The same when nothing was written.
LEMMA CreateQuietInv ==
  ASSUME NEW failed \in BOOLEAN,
         last' = [op |-> "create", failed |-> failed, legal |-> TRUE,
                  reads |-> {}, writes |-> {}]
  PROVE  LastInv'
<1>1. /\ last'.op = "create" /\ last'.reads = {} /\ last'.writes = {}
      /\ last' \in [op : Operations, failed : BOOLEAN, legal : BOOLEAN,
                    reads : SUBSET Span, writes : SUBSET Span]
  BY DEF Operations
<1>2. AccessesInside' /\ RefusedIfIllegal'
  BY <1>1 DEF AccessesInside, RefusedIfIllegal
<1> QED BY <1>1, <1>2 DEF LastInv

LEMMA MemoryChanges ==
  ASSUME HostmemInv, NEW a \in Areas, Memory(a)
  PROVE  HostmemInv'
<1> USE DEF HostmemInv
<1>1. CASE Appear(a)
  <2>1. PICK k \in {"string", "theirs"}, n \in 0 .. Half - 1 :
          /\ areas' = [areas EXCEPT ![a] = [kind |-> k, size |-> n]]
          /\ areas[a].kind = "unused" /\ last' = Quiet /\ UNCHANGED windows
    BY <1>1 DEF Appear
  <2>2. [kind |-> k, size |-> n] \in Area
    BY DEF Area, Kinds
  <2>3. /\ areas' \in [Areas -> Area]
        /\ \A b \in Areas : areas[b].kind # "unused" => areas'[b] = areas[b]
    BY <2>1, <2>2 DEF MemoryInv
  <2> QED BY <2>1, <2>3, NewArea, QuietInv
<1>2. CASE Vanish(a)
  <2>1. /\ areas[a].kind \in {"string", "theirs"}
        /\ Careful => Over(a) = {}
        /\ areas' = [areas EXCEPT ![a].kind = "gone"]
        /\ last' = Quiet /\ UNCHANGED windows
    BY <1>2 DEF Vanish
  <2>2. areas' \in [Areas -> Area]
    <3>1. areas[a] \in Area /\ [areas[a] EXCEPT !.kind = "gone"] \in Area
      BY DEF MemoryInv, Area, Kinds
    <3> QED BY <2>1, <3>1 DEF MemoryInv
  <2>3. \A b \in Areas : b # a => areas'[b] = areas[b]
    BY <2>1 DEF MemoryInv
  <2>4. WindowsInside'
    <3> SUFFICES ASSUME Careful, NEW g \in Hostmems, Exists(g)' PROVE WindowInside(g)'
      BY DEF WindowsInside
    <3>1. Exists(g) /\ WindowInside(g)
      BY <2>1 DEF MemoryInv, WindowsInside, Exists
    <3>2. windows[g].area # a
      BY <2>1, <3>1 DEF Over
    <3> QED BY <2>1, <2>3, <3>1, <3>2, WindowType DEF WindowInside
  <2>5. OneOwner'
    <3> SUFFICES ASSUME NEW g \in Hostmems, NEW b \in Areas, Owns(g, b)'
                 PROVE  /\ areas'[b].kind = "ours"
                        /\ \A i \in Hostmems : Owns(i, b)' => i = g
      BY DEF OneOwner
    <3>1. \A i \in Hostmems : Owns(i, b)' <=> Owns(i, b)
      BY <2>1 DEF Owns, Exists
    <3>2. areas[b].kind = "ours" /\ \A i \in Hostmems : Owns(i, b) => i = g
      BY <3>1 DEF MemoryInv, OneOwner
    <3> QED BY <2>1, <2>3, <3>1, <3>2
  <2> QED BY <2>1, <2>2, <2>4, <2>5, QuietInv DEF MemoryInv
<1> QED BY <1>1, <1>2 DEF Memory

LEMMA CreateStep ==
  ASSUME HostmemInv, NEW h \in Hostmems, NEW a \in Areas, Create(h, a)
  PROVE  HostmemInv'
<1> USE DEF HostmemInv
<1>1. PICK n \in LuaInteger :
        LET size == AsSize(n) IN
        /\ windows[h] = NoWindow
        /\ areas[a].kind = "unused"
        /\ \/ /\ last' = [Quiet EXCEPT !.op = "create", !.failed = TRUE]
              /\ UNCHANGED <<areas, windows>>
           \/ /\ size # 0 /\ size < Half
              /\ areas' = [areas EXCEPT ![a] = [kind |-> "ours", size |-> size]]
              /\ \/ windows' = [windows EXCEPT ![h] =
                      [area |-> a, base |-> 0, size |-> size, allocated |-> TRUE]]
                 \/ UNCHANGED windows
              /\ last' = [Quiet EXCEPT !.op = "create",
                            !.writes = {[area |-> a, from |-> 0, size |-> size]}]
  BY DEF Create
<1> DEFINE size == AsSize(n)
<1>2. CASE last' = [Quiet EXCEPT !.op = "create", !.failed = TRUE] /\ UNCHANGED <<areas, windows>>
  <2>1. last' = [op |-> "create", failed |-> TRUE, legal |-> TRUE, reads |-> {}, writes |-> {}]
    BY <1>2 DEF Quiet
  <2>2. LastInv'
    BY <2>1, CreateQuietInv
  <2> QED BY <1>2, <2>2, SameMemory
<1>3. CASE /\ size # 0 /\ size < Half
           /\ areas' = [areas EXCEPT ![a] = [kind |-> "ours", size |-> size]]
           /\ \/ windows' = [windows EXCEPT ![h] =
                   [area |-> a, base |-> 0, size |-> size, allocated |-> TRUE]]
              \/ UNCHANGED windows
           /\ last' = [Quiet EXCEPT !.op = "create",
                         !.writes = {[area |-> a, from |-> 0, size |-> size]}]
  <2>1. size \in 0 .. Half - 1 /\ size \in SizeT /\ size \in Nat
    BY <1>3, AsSizeType, RangesAssumption DEF SizeT
  <2> DEFINE bytes == {[area |-> a, from |-> 0, size |-> size]}
             w == [area |-> a, base |-> 0, size |-> size, allocated |-> TRUE]
  <2>2. bytes \in SUBSET Span
    BY <2>1 DEF Span
  <2>3. areas'[a] = [kind |-> "ours", size |-> size]
    BY <1>3 DEF MemoryInv
  <2>4. \A s \in bytes : InArea(s)'
    BY <2>1, <2>3 DEF InArea, Live
  <2>5. LastInv'
    <3>1. last' = [op |-> "create", failed |-> FALSE, legal |-> TRUE,
                   reads |-> {}, writes |-> bytes]
      BY <1>3 DEF Quiet
    <3> HIDE DEF bytes
    <3> QED BY <2>2, <2>4, <3>1, CreateInv
  <2>6. /\ areas' \in [Areas -> Area]
        /\ \A b \in Areas : areas[b].kind # "unused" => areas'[b] = areas[b]
    <3>1. [kind |-> "ours", size |-> size] \in Area
      BY <2>1 DEF Area, Kinds
    <3> QED BY <1>1, <1>3, <3>1 DEF MemoryInv
  <2>7. CASE windows' = [windows EXCEPT ![h] = w]
    <3>1. w \in Window
      BY <2>1 DEF Window
    <3>2. \A g \in Hostmems : ~Owns(g, a)
      BY <1>1 DEF MemoryInv, OneOwner
    <3>3. areas'[w.area].kind \in Live /\ w.base + w.size <= areas'[w.area].size
      BY <2>1, <2>3 DEF Live
    <3>4. w.area = a /\ ~Exists(h)
      BY <1>1 DEF Exists
    <3>5. w.allocated => areas'[w.area].kind = "ours" /\ areas[w.area].kind = "unused"
      BY <1>1, <2>3, <3>4
    <3>6. \A g \in Hostmems : w.allocated => ~Owns(g, w.area)
      BY <3>2, <3>4
    <3> HIDE DEF w
    <3>7. MemoryInv'
      BY <2>6, <2>7, <3>1, <3>3, <3>4, <3>5, <3>6, NewWindow
    <3> QED BY <2>5, <3>7
  <2>8. CASE UNCHANGED windows
    BY <2>5, <2>6, <2>8, NewArea
  <2> QED BY <1>3, <2>7, <2>8
<1> QED BY <1>1, <1>2, <1>3

LEMMA CreateHostmemStep ==
  ASSUME HostmemInv, NEW h \in Hostmems, NEW a \in Areas, CreateHostmem(h, a)
  PROVE  HostmemInv'
<1> USE DEF HostmemInv
<1>1. PICK n \in LuaInteger : \E base \in 0 .. areas[a].size :
        /\ windows[h] = NoWindow /\ areas[a].kind \in Live
        /\ areas[a].kind = "string" => n = areas[a].size /\ base = 0
        /\ Careful => n >= 0 /\ base + n <= areas[a].size
        /\ windows' = [windows EXCEPT ![h] =
             [area |-> a, base |-> base, size |-> AsSize(n), allocated |-> FALSE]]
        /\ last' = [Quiet EXCEPT !.op = "create"]
        /\ UNCHANGED areas
  BY DEF CreateHostmem
<1>2. PICK base \in 0 .. areas[a].size :
        /\ windows[h] = NoWindow /\ areas[a].kind \in Live
        /\ Careful => n >= 0 /\ base + n <= areas[a].size
        /\ windows' = [windows EXCEPT ![h] =
             [area |-> a, base |-> base, size |-> AsSize(n), allocated |-> FALSE]]
        /\ last' = [Quiet EXCEPT !.op = "create"]
        /\ UNCHANGED areas
  BY <1>1
<1> DEFINE w == [area |-> a, base |-> base, size |-> AsSize(n), allocated |-> FALSE]
<1>3. AsSize(n) \in SizeT /\ (n >= 0 => AsSize(n) = n)
  BY AsSizeType
<1>4. w \in Window /\ w.area = a /\ ~w.allocated /\ ~Exists(h)
  <2>1. areas[a].size \in 0 .. Half - 1
    BY DEF MemoryInv, Area
  <2>2. base \in Nat
    BY <2>1, RangesAssumption
  <2> QED BY <1>2, <1>3, <2>2 DEF Window, Exists
<1>5. Careful => areas'[w.area].kind \in Live /\ w.base + w.size <= areas'[w.area].size
  BY <1>2, <1>3
<1>6. last' = [op |-> "create", failed |-> FALSE, legal |-> TRUE, reads |-> {}, writes |-> {}]
  BY <1>2 DEF Quiet
<1>7. /\ areas' \in [Areas -> Area]
      /\ \A b \in Areas : areas[b].kind # "unused" => areas'[b] = areas[b]
  BY <1>2 DEF MemoryInv
<1>8. windows' = [windows EXCEPT ![h] = w]
  BY <1>2
<1> HIDE DEF w
<1>9. MemoryInv'
  BY <1>4, <1>5, <1>7, <1>8, NewWindow
<1>10. LastInv'
  BY <1>6, CreateQuietInv
<1> QED BY <1>9, <1>10

\* Only the memory of an allocated hostmem goes, and by a careful script when
\* no other window is over it.
LEMMA FreeStep ==
  ASSUME HostmemInv, NEW h \in Hostmems, freehostmem(h)
  PROVE  HostmemInv'
<1> USE DEF HostmemInv
<1> DEFINE w == windows[h]
<1>1. /\ Exists(h)
      /\ Careful /\ w.allocated => Over(w.area) = {h}
      /\ windows' = [windows EXCEPT ![h] = NoWindow]
      /\ areas' = IF w.allocated THEN [areas EXCEPT ![w.area].kind = "gone"] ELSE areas
      /\ last' = Quiet
  BY DEF freehostmem
<1>2. areas' \in [Areas -> Area]
  <2>1. areas[w.area] \in Area /\ [areas[w.area] EXCEPT !.kind = "gone"] \in Area
    BY <1>1, WindowType DEF Area, Kinds
  <2> QED BY <1>1, <2>1 DEF MemoryInv
<1>3. /\ \A b \in Areas : b # w.area => areas'[b] = areas[b]
      /\ ~w.allocated => areas' = areas
  BY <1>1 DEF MemoryInv
<1>4. /\ windows' \in [Hostmems -> Window \cup {NoWindow}]
      /\ windows'[h] = NoWindow
      /\ \A g \in Hostmems : g # h => windows'[g] = windows[g]
  BY <1>1 DEF MemoryInv
<1>5. WindowsInside'
  <2> SUFFICES ASSUME Careful, NEW g \in Hostmems, Exists(g)' PROVE WindowInside(g)'
    BY DEF WindowsInside
  <2>1. g # h /\ windows'[g] = windows[g] /\ Exists(g) /\ WindowInside(g)
    BY <1>4 DEF MemoryInv, WindowsInside, Exists
  <2>2. w.allocated => windows[g].area # w.area
    BY <1>1, <2>1 DEF Over
  <2>3. areas'[windows[g].area] = areas[windows[g].area]
    BY <1>3, <2>1, <2>2, WindowType
  <2> QED BY <2>1, <2>3 DEF WindowInside
<1>6. OneOwner'
  <2> SUFFICES ASSUME NEW g \in Hostmems, NEW b \in Areas, Owns(g, b)'
               PROVE  /\ areas'[b].kind = "ours"
                      /\ \A i \in Hostmems : Owns(i, b)' => i = g
    BY DEF OneOwner
  <2>1. \A i \in Hostmems : Owns(i, b)' => i # h /\ Owns(i, b)
    BY <1>4 DEF Owns, Exists
  <2>2. areas[b].kind = "ours" /\ \A i \in Hostmems : Owns(i, b) => i = g
    BY <2>1 DEF MemoryInv, OneOwner
  <2>3. w.allocated => b # w.area
    BY <1>1, <2>1, <2>2 DEF Owns
  <2> QED BY <1>3, <2>1, <2>2, <2>3
<1> QED BY <1>1, <1>2, <1>4, <1>5, <1>6, QuietInv DEF MemoryInv

LEMMA HostmemInvNext == HostmemInv /\ HostmemNext => HostmemInv'
<1> SUFFICES ASSUME HostmemInv, HostmemNext PROVE HostmemInv'
  OBVIOUS
<1>1. CASE Returns
  BY <1>1, SameMemory, QuietInv DEF Returns, HostmemInv
<1>2. ASSUME NEW a \in Areas, Memory(a) PROVE HostmemInv'
  BY <1>2, MemoryChanges
<1>3. ASSUME NEW h \in Hostmems, Methods(h) PROVE HostmemInv'
  <2>1. CASE freehostmem(h)
    BY <2>1, FreeStep
  <2>2. ASSUME NEW a \in Areas, Create(h, a) PROVE HostmemInv'
    BY <2>2, CreateStep
  <2>3. ASSUME NEW a \in Areas, CreateHostmem(h, a) PROVE HostmemInv'
    BY <2>3, CreateHostmemStep
  <2> QED BY <1>3, <2>1, <2>2, <2>3, MethodsWithoutChange DEF Methods
<1> QED BY <1>1, <1>2, <1>3 DEF HostmemNext

LEMMA HostmemInvStutter == HostmemInv /\ UNCHANGED hostmemVars => HostmemInv'
<1> SUFFICES ASSUME HostmemInv, UNCHANGED hostmemVars PROVE HostmemInv'
  OBVIOUS
<1>1. UNCHANGED <<areas, windows>> /\ last' = last
  BY DEF hostmemVars
<1> QED
  BY <1>1, SameMemory DEF HostmemInv, LastInv, AccessesInside, RefusedIfIllegal

LEMMA HostmemInductive == HostmemSpec => []HostmemInv
<1> QED BY HostmemInvInit, HostmemInvNext, HostmemInvStutter, PTL DEF HostmemSpec

(* For any number of areas and of hostmems, and integers of any width: the *)
(* values of the variables are what they should be.                        *)
THEOREM HostmemTypes == HostmemSpec => []HostmemTypeOK
<1>1. HostmemInv => HostmemTypeOK
  BY DEF HostmemInv, MemoryInv, LastInv, HostmemTypeOK
<1> QED BY <1>1, HostmemInductive, PTL

(* A careful script makes no method touch memory that is not there, and    *)
(* its windows stay inside of theirs.                                      *)
THEOREM HostmemBounds == HostmemSpec => []MemoryInside
<1>1. HostmemInv => MemoryInside
  BY DEF HostmemInv, MemoryInv, LastInv, MemoryInside
<1> QED BY <1>1, HostmemInductive, PTL

(* A careful script is refused a range that is not in the window, and      *)
(* nothing else, for any integers given as offset and size.                *)
THEOREM IllegalIsRefused == HostmemSpec => []RefusedIfIllegal
<1>1. HostmemInv => RefusedIfIllegal
  BY DEF HostmemInv, LastInv
<1> QED BY <1>1, HostmemInductive, PTL

(* Careful or not: memory that a hostmem will free is there, and it is the *)
(* only one that will.                                                     *)
THEOREM HostmemOneOwner == HostmemSpec => []OneOwner
<1>1. HostmemInv => OneOwner
  BY DEF HostmemInv, MemoryInv
<1> QED BY <1>1, HostmemInductive, PTL
=============================================================================
