------------------------------ MODULE Buffers -------------------------------
(***************************************************************************)
(* The extents of buffers and sub buffers that MoonCL keeps beside their   *)
(* handles (udinfo_t of buffer.c), and the commands whose ranges it checks *)
(* against them: copies, fills and mappings.  For a read or a write of a   *)
(* buffer it checks nothing and leaves that to the driver.                 *)
(***************************************************************************)
EXTENDS Ranges

CONSTANTS
  Buffers,
  NoBuffer    \* in place of the extent of a buffer that does not exist

VARIABLES
  extents,    \* udinfo_t of each buffer, with its parent (itself if it has none)
  ranges      \* the ranges of the command being enqueued, in bytes of the parent

bufferVars == <<extents, ranges>>

Extent == [parent : Buffers, origin : SizeT, size : SizeT]
ByteRange == [buffer : Buffers, from : Int, size : Int]

BufferTypeOK ==
  /\ extents \in [Buffers -> Extent \cup {NoBuffer}]
  /\ ranges \subseteq ByteRange

BufferInit ==
  /\ extents = [b \in Buffers |-> NoBuffer]
  /\ ranges = {}

There(b) == extents[b] # NoBuffer
Sub(b) == extents[b].parent # b

\* create_buffer, create_from_gl_buffer: the driver refuses a size of zero and
\* one that it cannot allocate.
CreateBuffer(b) == \E n \in LuaInteger :
  LET size == AsSize(n) IN
  /\ ~There(b)
  /\ size # 0 /\ size < Half
  /\ extents' = [extents EXCEPT ![b] = [parent |-> b, origin |-> 0, size |-> size]]
  /\ UNCHANGED ranges

\* create_sub_buffer, of a buffer that is not a sub buffer; the driver refuses
\* a region of size zero.
CreateBufferRegion(b, p) == \E origin, size \in LuaInteger :
  /\ ~There(b)
  /\ There(p) /\ ~Sub(p)
  /\ ~OutOfRange(AsSize(origin), AsSize(size), extents[p].size)
  /\ AsSize(size) # 0
  /\ extents' = [extents EXCEPT ![b] =
       [parent |-> p, origin |-> AsSize(origin), size |-> AsSize(size)]]
  /\ UNCHANGED ranges

\* With its sub buffers.
freebuffer(b) ==
  /\ There(b)
  /\ extents' = [c \in Buffers |->
       IF There(c) /\ (c = b \/ extents[c].parent = b) THEN NoBuffer ELSE extents[c]]
  /\ UNCHANGED ranges

\* testbufferboundaries
InBoundaries(b, offset, size) == ~OutOfRange(AsSize(offset), AsSize(size), extents[b].size)

\* What the command accesses if the offset is in the buffer b.
Accessed(b, offset, size) ==
  [buffer |-> extents[b].parent, from |-> extents[b].origin + AsSize(offset),
   size |-> AsSize(size)]

\* enqueue_fill_buffer, enqueue_map_buffer
EnqueueFill(b) == \E offset, size \in LuaInteger :
  /\ There(b)
  /\ InBoundaries(b, offset, size)
  /\ ranges' = {Accessed(b, offset, size)}
  /\ UNCHANGED extents

\* The slip: only the source is checked.
EnqueueCopySource(src, dst) == \E from, to, size \in LuaInteger :
  /\ There(src) /\ There(dst)
  /\ InBoundaries(src, from, size)
  /\ ranges' = {Accessed(src, from, size), Accessed(dst, to, size)}
  /\ UNCHANGED extents

\* enqueue_copy_buffer
EnqueueCopy(src, dst) == \E from, to, size \in LuaInteger :
  /\ There(src) /\ There(dst)
  /\ InBoundaries(src, from, size)
  /\ InBoundaries(dst, to, size)
  /\ ranges' = {Accessed(src, from, size), Accessed(dst, to, size)}
  /\ UNCHANGED extents

Enqueued ==
  /\ ranges # {}
  /\ ranges' = {}
  /\ UNCHANGED extents

BufferOperations(b) ==
  \/ CreateBuffer(b) \/ freebuffer(b) \/ EnqueueFill(b)
  \/ \E p \in Buffers : CreateBufferRegion(b, p) \/ EnqueueCopy(b, p)

BufferNext ==
  \/ Enqueued
  \/ \E b \in Buffers : ranges = {} /\ BufferOperations(b)

BufferSpec == BufferInit /\ [][BufferNext]_bufferVars

-----------------------------------------------------------------------------
(* A sub buffer lies in the buffer it was made from, which is there and is *)
(* not a sub buffer itself.                                                *)
InParent(b) ==
  /\ There(extents[b].parent) /\ ~Sub(extents[b].parent)
  /\ extents[b].origin + extents[b].size <= extents[extents[b].parent].size
SubBuffersInside == \A b \in Buffers : There(b) => InParent(b)

(* A command whose range was checked stays inside the memory of the        *)
(* buffer, also through a sub buffer, whatever integers it was given.      *)
CommandsInside ==
  \A r \in ranges :
    /\ There(r.buffer)
    /\ r.from >= 0 /\ r.size >= 0
    /\ r.from + r.size <= extents[r.buffer].size

(* Both: sub buffers, and the commands on them.                            *)
BuffersInside == SubBuffersInside /\ CommandsInside
=============================================================================
