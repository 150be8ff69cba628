------------------------------ MODULE Hostmem -------------------------------
(***************************************************************************)
(* The host memory a script works with through hostmem objects: windows    *)
(* over areas of memory that cl.malloc allocated, that belong to a Lua     *)
(* string, or that the script has a pointer to (mapped memory, shared      *)
(* virtual memory).  Each method is one action; what it reads and writes   *)
(* is kept in `last', to be compared with the areas there are.             *)
(*                                                                         *)
(* A pointer is an area and an offset in it.  Areas are not used again     *)
(* once they are gone.                                                     *)
(***************************************************************************)
EXTENDS Ranges

CONSTANTS
  Areas,       \* areas of memory
  Hostmems,    \* the hostmem objects
  NoWindow,    \* the window of a hostmem that does not exist
  MaxValues,   \* bound: the values given to one write
  PrimSizes,   \* the sizes of the primitive types in use
  Careful      \* does the script take the care that the manual asks for?

ASSUME HostmemAssumption ==
  /\ NoWindow \notin [area : Areas, base : Nat, size : SizeT, allocated : BOOLEAN]
  /\ MaxValues \in Nat
  /\ PrimSizes \subseteq Nat \ {0}
  /\ Careful \in BOOLEAN

VARIABLES
  areas,     \* for each area, what it is and how many bytes it has
  windows,   \* for each hostmem, its window, or NoWindow
  last       \* the last operation

hostmemVars == <<areas, windows, last>>

Kinds == {"unused", "ours", "string", "theirs", "gone"}
Live == {"ours", "string", "theirs"}
Area == [kind : Kinds, size : 0 .. Half - 1]
Window == [area : Areas, base : Nat, size : SizeT, allocated : BOOLEAN]
Operations == {"none", "create", "write", "writepack", "copy", "clear", "read", "ptr", "size"}
Span == [area : Areas, from : Int, size : Int]

HostmemTypeOK ==
  /\ areas \in [Areas -> Area]
  /\ windows \in [Hostmems -> Window \cup {NoWindow}]
  /\ last \in [op : Operations, failed : BOOLEAN, legal : BOOLEAN,
               reads : SUBSET Span, writes : SUBSET Span]

Quiet == [op |-> "none", failed |-> FALSE, legal |-> TRUE, reads |-> {}, writes |-> {}]

HostmemInit ==
  /\ areas = [a \in Areas |-> [kind |-> "unused", size |-> 0]]
  /\ windows = [h \in Hostmems |-> NoWindow]
  /\ last = Quiet

Exists(h) == windows[h] # NoWindow
Over(a) == {h \in Hostmems : Exists(h) /\ windows[h].area = a}

\* size bytes at offset in the window of h; no bytes are no access.
Bytes(h, offset, size) ==
  IF size = 0 THEN {}
  ELSE {[area |-> windows[h].area, from |-> windows[h].base + offset, size |-> size]}

-----------------------------------------------------------------------------
\* The script gets hold of a string, or of memory of another origin.
Appear(a) ==
  /\ areas[a].kind = "unused"
  /\ \E k \in {"string", "theirs"}, n \in 0 .. Half - 1 :
       areas' = [areas EXCEPT ![a] = [kind |-> k, size |-> n]]
  /\ last' = Quiet
  /\ UNCHANGED windows

\* The string is collected, the memory unmapped or freed.
Vanish(a) ==
  /\ areas[a].kind \in {"string", "theirs"}
  /\ Careful => Over(a) = {}
  /\ areas' = [areas EXCEPT ![a].kind = "gone"]
  /\ last' = Quiet
  /\ UNCHANGED windows

(***************************************************************************)
(* cl.malloc and cl.aligned_alloc, of a size, of the length of a string or *)
(* of some packed values.  They may fail for other reasons than the size:  *)
(* no memory, a bad alignment, a value that is not a number.  When the     *)
(* userdata cannot be made the memory stays allocated, see Calls.          *)
(***************************************************************************)
Create(h, a) == \E n \in LuaInteger :
  LET size == AsSize(n) IN
  /\ windows[h] = NoWindow
  /\ areas[a].kind = "unused"
  /\ \/ /\ last' = [Quiet EXCEPT !.op = "create", !.failed = TRUE]
        /\ UNCHANGED <<areas, windows>>
     \/ /\ size # 0 /\ size < Half    \* no allocator gives more than that
        /\ areas' = [areas EXCEPT ![a] = [kind |-> "ours", size |-> size]]
        /\ \/ windows' = [windows EXCEPT ![h] =
                [area |-> a, base |-> 0, size |-> size, allocated |-> TRUE]]
           \/ UNCHANGED windows
        /\ last' = [Quiet EXCEPT !.op = "create",
                      !.writes = {[area |-> a, from |-> 0, size |-> size]}]

\* cl.hostmem(size, ptr), and cl.hostmem(data) with the size of the string.
\* (A slip: the memory is marked as allocated, and will be freed.)
CreateHostmemAllocated(h, a) == \E n \in LuaInteger, base \in 0 .. areas[a].size :
  /\ windows[h] = NoWindow
  /\ areas[a].kind \in Live
  /\ areas[a].kind = "string" => n = areas[a].size /\ base = 0
  /\ Careful => n >= 0 /\ base + n <= areas[a].size
  /\ n # 0
  /\ windows' = [windows EXCEPT ![h] =
       [area |-> a, base |-> base, size |-> AsSize(n), allocated |-> TRUE]]
  /\ last' = [Quiet EXCEPT !.op = "create"]
  /\ UNCHANGED areas

CreateHostmem(h, a) == \E n \in LuaInteger, base \in 0 .. areas[a].size :
  /\ windows[h] = NoWindow
  /\ areas[a].kind \in Live
  /\ areas[a].kind = "string" => n = areas[a].size /\ base = 0
  /\ Careful => n >= 0 /\ base + n <= areas[a].size
  /\ n # 0
  /\ windows' = [windows EXCEPT ![h] =
       [area |-> a, base |-> base, size |-> AsSize(n), allocated |-> FALSE]]
  /\ last' = [Quiet EXCEPT !.op = "create"]
  /\ UNCHANGED areas

\* hostmem:free(), and __gc when the Lua state closes.
freehostmem(h) ==
  LET w == windows[h] IN
  /\ Exists(h)
  /\ Careful /\ w.allocated => Over(w.area) = {h}
  /\ windows' = [windows EXCEPT ![h] = NoWindow]
  /\ areas' = IF w.allocated THEN [areas EXCEPT ![w.area].kind = "gone"] ELSE areas
  /\ last' = Quiet

-----------------------------------------------------------------------------
\* An access through a window: what is read and written if it is not refused.
Access(op, refused, legal, reads, writes) ==
  /\ last' = IF refused
             THEN [op |-> op, failed |-> TRUE, legal |-> legal, reads |-> {}, writes |-> {}]
             ELSE [op |-> op, failed |-> FALSE, legal |-> legal,
                   reads |-> reads, writes |-> writes]
  /\ UNCHANGED <<areas, windows>>

Refused(h, o, s) == OutOfRange(AsSize(o), AsSize(s), windows[h].size)
Legal(h, o, s) == InRange(o, s, windows[h].size)

\* write(offset, nil, data)
WriteData(h) == \E o \in LuaInteger, s \in 0 .. Half - 1 :
  /\ Exists(h)
  /\ Access("write", s # 0 /\ Refused(h, o, s), s = 0 \/ Legal(h, o, s),
            {}, Bytes(h, AsSize(o), s))

(***************************************************************************)
(* write(offset, primtype, ...): n values of k bytes.  The values are      *)
(* converted in place one after the other: if the one at `bad' is not a    *)
(* number (0: all are) it and those before it are written already.         *)
(***************************************************************************)
WritePack(h) == \E o \in LuaInteger, k \in PrimSizes, n \in 0 .. MaxValues :
  LET room == Minus(windows[h].size, AsSize(o))
      small == AsSize(o) >= windows[h].size \/ room < n * k IN
  /\ Exists(h)
  /\ \E bad \in 0 .. n :
       /\ last' = [op |-> "writepack", failed |-> small \/ bad # 0,
                   legal |-> bad = 0 /\ InRange(o, n * k, windows[h].size),
                   reads |-> {},
                   writes |-> IF small THEN {}
                              ELSE Bytes(h, AsSize(o), k * (IF bad = 0 THEN n ELSE bad))]
       /\ UNCHANGED <<areas, windows>>

\* copy(offset, size, ptr): nothing is known of the memory behind ptr.
CopyPtr(h, a) == \E o, s \in LuaInteger, from \in 0 .. areas[a].size :
  /\ Exists(h)
  /\ Careful => areas[a].kind \in Live /\ s >= 0 /\ from + s <= areas[a].size
  /\ Access("copy", s # 0 /\ Refused(h, o, s), s = 0 \/ Legal(h, o, s),
            {[area |-> a, from |-> from, size |-> AsSize(s)]}, Bytes(h, AsSize(o), AsSize(s)))

\* copy(offset, size, hostmem, offset)
CopyHostmem(h, g) == \E o, s, from \in LuaInteger :
  /\ Exists(h) /\ Exists(g)
  /\ Access("copy", h = g \/ (s # 0 /\ (Refused(h, o, s) \/ Refused(g, from, s))),
            h # g /\ (s = 0 \/ (Legal(h, o, s) /\ Legal(g, from, s))),
            Bytes(g, AsSize(from), AsSize(s)), Bytes(h, AsSize(o), AsSize(s)))

\* clear(offset, size, c); this one and those below look at the range first.
Clear(h) == \E o, s \in LuaInteger :
  /\ Exists(h)
  /\ Access("clear", Refused(h, o, s), Legal(h, o, s), {}, Bytes(h, AsSize(o), AsSize(s)))

\* read(offset, size), the size being the rest of the window by default.
\* (With a type, the rest must be a multiple of the size of the type as well.)
Read(h) == \E o \in LuaInteger :
  LET rest == Minus(windows[h].size, AsSize(o)) IN
  /\ Exists(h)
  /\ \/ Access("read", OutOfRange(AsSize(o), rest, windows[h].size),
               o >= 0 /\ o < windows[h].size, Bytes(h, AsSize(o), rest), {})
     \/ \E s \in LuaInteger :
          Access("read", Refused(h, o, s), Legal(h, o, s), Bytes(h, AsSize(o), AsSize(s)), {})

\* ptr(offset, size): who asks for size bytes after the pointer may use them.
Ptr(h) == \E o, s \in LuaInteger :
  /\ Exists(h)
  /\ Access("ptr", Refused(h, o, s), Legal(h, o, s), Bytes(h, AsSize(o), AsSize(s)), {})

\* size(offset) says how many bytes there are from offset on, and size(ptr)
\* how many from a pointer into the window; both count as an access to them.
Size(h) == \E o \in LuaInteger :
  LET rest == Minus(windows[h].size, AsSize(o)) IN
  /\ Exists(h)
  /\ Access("size", FALSE, TRUE,
            IF AsSize(o) >= windows[h].size THEN {} ELSE Bytes(h, AsSize(o), rest), {})

\* One call at a time: it returns, or has raised its error.
Idle == last = Quiet
Returns ==
  /\ ~Idle
  /\ last' = Quiet
  /\ UNCHANGED <<areas, windows>>

Memory(a) == Appear(a) \/ Vanish(a)
Methods(h) ==
  \/ freehostmem(h) \/ WriteData(h) \/ WritePack(h) \/ Clear(h)
  \/ Read(h) \/ Ptr(h) \/ Size(h)
  \/ \E a \in Areas : Create(h, a) \/ CreateHostmem(h, a) \/ CopyPtr(h, a)
  \/ \E g \in Hostmems : CopyHostmem(h, g)

HostmemNext ==
  \/ Returns
  \/ \E a \in Areas : Idle /\ Memory(a)
  \/ \E h \in Hostmems : Idle /\ Methods(h)

HostmemSpec == HostmemInit /\ [][HostmemNext]_hostmemVars

-----------------------------------------------------------------------------
(* If the script takes care, no method touches a byte outside of the areas *)
(* that are there, whatever integers it is called with: neither a negative *)
(* offset nor a size that wraps around escapes the checks.                 *)
InArea(s) ==
  /\ areas[s.area].kind \in Live
  /\ s.from >= 0 /\ s.size >= 0
  /\ s.from + s.size <= areas[s.area].size
AccessesInside == Careful => \A s \in last.reads \cup last.writes : InArea(s)

(* A window is over memory that is there, and in it.                       *)
WindowInside(h) ==
  /\ areas[windows[h].area].kind \in Live
  /\ windows[h].base + windows[h].size <= areas[windows[h].area].size
WindowsInside == Careful => \A h \in Hostmems : Exists(h) => WindowInside(h)

(* Memory is freed once: an area that a hostmem will free is there, was    *)
(* allocated by cl.malloc, and no other hostmem will free it.              *)
Owns(h, a) == Exists(h) /\ windows[h].allocated /\ windows[h].area = a
OneOwner ==
  \A h \in Hostmems, a \in Areas : Owns(h, a) =>
    /\ areas[a].kind = "ours"
    /\ \A g \in Hostmems : Owns(g, a) => g = h

(* What a hostmem gives access to: by itself, or through its methods.      *)
MemoryInside == WindowsInside /\ AccessesInside

(* A call is refused exactly if the range it was given is not in the       *)
(* window: "raises an error if the requested location is beyond the        *)
(* boundaries", doc/hostmem.adoc.  No legal call is refused either.        *)
RefusedIfIllegal ==
  Careful /\ last.op # "create" => (last.failed <=> ~last.legal)
=============================================================================
