------------------------------ MODULE Loading -------------------------------
(***************************************************************************)
(* The life of the library in a process: what luaopen_mooncl sets up step  *)
(* by step in the static variables of main.c, utils.c, getproc.c and       *)
(* enums.c, and what AtExit takes down.  Any step may fail; the states of  *)
(* Lua in the process share the variables and take turns.                  *)
(*                                                                         *)
(* External: a Lua state keeps the shared object mapped once it has tried  *)
(* to load the module; it is unmapped when no state has it any more, which *)
(* runs the handlers given to atexit, and its variables are new the next   *)
(* time.  (So do glibc and Windows.)                                       *)
(***************************************************************************)
EXTENDS Naturals, Sequences, FiniteSets

CONSTANTS
  States,    \* the states of Lua
  NoState,   \* the value of a pointer to none
  Records    \* the <<domain, code, string>> that mooncl_open_enums registers, in order

ASSUME LoadingAssumption ==
  /\ NoState \notin States
  /\ Len(Records) \in Nat /\ DOMAIN Records = 1 .. Len(Records)

VARIABLES
  lua,      \* for each state: "new", "loading", "failed", "loaded", "closed"
  mapped,   \* the states that keep the library mapped
  alloc,    \* utils.c: the state whose allocator is in use
  handle,   \* getproc.c: is the OpenCL library open?
  byCode,   \* enums.c: the records in the tree searched by code
  byStr,    \* enums.c: the records in the tree searched by string
  lost,     \* the blocks of records that are in no tree
  step,     \* where luaopen_mooncl is
  atExit    \* how many times AtExit is registered

loadingVars == <<lua, mapped, alloc, handle, byCode, byStr, lost, step, atExit>>

LoadingTypeOK ==
  /\ lua \in [States -> {"new", "loading", "failed", "loaded", "closed"}]
  /\ mapped \subseteq States
  /\ alloc \in States \cup {NoState}
  /\ handle \in BOOLEAN
  /\ byCode \cup byStr \subseteq {Records[i] : i \in DOMAIN Records}
  /\ step \in 0 .. Len(Records) + 1
  /\ lost \in Nat /\ atExit \in Nat

Fresh ==
  /\ alloc = NoState /\ handle = FALSE
  /\ byCode = {} /\ byStr = {} /\ lost = 0 /\ atExit = 0

LoadingInit ==
  /\ lua = [s \in States |-> "new"]
  /\ mapped = {} /\ step = 0
  /\ Fresh

Busy == \E s \in States : lua[s] = "loading"

\* Keys of the two trees.
SameCode(r, q) == r[1] = q[1] /\ r[2] = q[2]
SameString(r, q) == r[1] = q[1] /\ r[3] = q[3]

-----------------------------------------------------------------------------
\* require('mooncl'), by a new state or again after a failure: the allocator
\* is taken, or the variables are in use already.  A slip: it is taken again.
OpenAgain(s) ==
  /\ ~Busy
  /\ lua[s] \in {"new", "failed"}
  /\ mapped' = mapped \cup {s}
  /\ lua' = [lua EXCEPT ![s] = "loading"] /\ alloc' = s
  /\ atExit' = atExit + 1 /\ step' = 0
  /\ UNCHANGED <<handle, byCode, byStr, lost>>

Open(s) ==
  /\ ~Busy
  /\ lua[s] \in {"new", "failed"}
  /\ mapped' = mapped \cup {s}
  /\ \/ /\ alloc = NoState
        /\ lua' = [lua EXCEPT ![s] = "loading"] /\ alloc' = s
        /\ atExit' = atExit + 1 /\ step' = 0
     \/ /\ alloc # NoState
        /\ lua' = [lua EXCEPT ![s] = "failed"]
        /\ UNCHANGED <<alloc, atExit, step>>
  /\ UNCHANGED <<handle, byCode, byStr, lost>>

\* The OpenCL library is opened and its functions are found, or not.
OpenGetproc(s) ==
  /\ lua[s] = "loading" /\ step = 0
  /\ \/ handle' = TRUE /\ step' = 1 /\ UNCHANGED lua
     \/ /\ handle' \in BOOLEAN
        /\ lua' = [lua EXCEPT ![s] = "failed"]
        /\ UNCHANGED step
  /\ UNCHANGED <<mapped, alloc, byCode, byStr, lost, atExit>>

\* enums_new: the next record is allocated, its string copied; it is inserted
\* into both trees unless either knows it.  (A slip: into one of the trees.)
EnumsNewByCodeOnly(s) ==
  /\ lua[s] = "loading" /\ step \in 1 .. Len(Records)
  /\ byCode' = byCode \cup {Records[step]}
  /\ step' = step + 1
  /\ UNCHANGED <<byStr, lost, lua, mapped, alloc, handle, atExit>>

EnumsNew(s) ==
  /\ lua[s] = "loading" /\ step \in 1 .. Len(Records)
  /\ LET r == Records[step] IN
     \/ /\ \A q \in byCode : ~SameCode(r, q)
        /\ \A q \in byStr : ~SameString(r, q)
        /\ byCode' = byCode \cup {r} /\ byStr' = byStr \cup {r}
        /\ step' = step + 1
        /\ UNCHANGED <<lua, lost>>
     \/ \* there already, or no memory for the record or for its string
        /\ lua' = [lua EXCEPT ![s] = "failed"]
        /\ lost' \in {lost, lost + 1}
        /\ UNCHANGED <<byCode, byStr, step>>
  /\ UNCHANGED <<mapped, alloc, handle, atExit>>

\* The other mooncl_open_xxx add functions only; then the modules in Lua are run.
OpenUtils(s) ==
  /\ lua[s] = "loading" /\ step = Len(Records) + 1
  /\ \E result \in {"loaded", "failed"} : lua' = [lua EXCEPT ![s] = result]
  /\ step' = 0
  /\ UNCHANGED <<mapped, alloc, handle, byCode, byStr, lost, atExit>>

\* Each record in the tree of codes is taken out of both trees, and freed.
enums_free_all == byCode' = {} /\ byStr' = byStr \ byCode

\* mooncl_atexit_getproc comes last; the first call clears mooncl_L, and the
\* others do nothing.
AtExit ==
  IF atExit = 0 THEN UNCHANGED <<byCode, byStr, handle>>
  ELSE enums_free_all /\ handle' = FALSE

\* lua_close; with the last state that keeps it mapped, the library goes and
\* its variables with it: what is left in them then is left for good.
CloseState(s) ==
  /\ ~Busy
  /\ lua[s] \in {"new", "failed", "loaded"}
  /\ lua' = [lua EXCEPT ![s] = "closed"]
  /\ mapped' = mapped \ {s}
  /\ IF mapped = {s}
     THEN AtExit /\ atExit' = 0 /\ alloc' = NoState
     ELSE UNCHANGED <<byCode, byStr, handle, atExit, alloc>>
  /\ UNCHANGED <<lost, step>>

LoadingNext ==
  \E s \in States :
    \/ Open(s) \/ OpenGetproc(s) \/ EnumsNew(s) \/ OpenUtils(s) \/ CloseState(s)
LoadingSpec == LoadingInit /\ [][LoadingNext]_loadingVars

-----------------------------------------------------------------------------
(* The module is there for one state at a time, the one whose allocator is *)
(* in use, and it is complete: the functions of OpenCL and every record.   *)
LoadedIsComplete ==
  \A s \in States : lua[s] = "loaded" =>
    /\ alloc = s /\ handle
    /\ \A i \in DOMAIN Records : Records[i] \in byCode \cap byStr

(* The two trees always hold the same records, and no two with the same    *)
(* code or the same string in a domain: what enums_check makes of a string *)
(* is what enums_push makes the same string of, also after a failed load.  *)
EnumsRoundTrip ==
  /\ byCode = byStr
  /\ \A r, q \in byCode : SameCode(r, q) \/ SameString(r, q) => r = q

(* When the library is unmapped nothing is left but the record whose       *)
(* string could not be copied.                                             *)
UnmappedIsClean ==
  mapped = {} => byCode = {} /\ byStr = {} /\ ~handle

(* The memory of the records is freed while the allocator that gave it is  *)
(* there: the state it belongs to is open, unless another state has tried  *)
(* to load the module as well and keeps the library mapped.                *)
AllocatorAlive ==
  alloc # NoState => lua[alloc] # "closed" \/ \E s \in mapped : lua[s] = "failed"

(* The three together: the static variables are set up entirely, for one   *)
(* state, and taken down entirely, in time.                                *)
StaticsSound == LoadedIsComplete /\ UnmappedIsClean /\ AllocatorAlive
=============================================================================
