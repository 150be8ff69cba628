----------------------------- MODULE CallSteps -----------------------------
(***************************************************************************)
(* The vocabulary in which the bodies of MoonCL's C functions are told.    *)
(* A body is a sequence of steps; a step is the set of its possible        *)
(* outcomes; an outcome says where control goes and what happens to        *)
(*                                                                         *)
(*   - the blocks of memory the function works with, named by the local    *)
(*     variable that holds them ("we", "devices"): which are used, freed,  *)
(*     obtained, handed to somebody else, or lost because the variable is  *)
(*     overwritten;                                                        *)
(*   - the facts the function relies on: that an optional entry point of   *)
(*     the driver is not NULL, that a local has been assigned.  A fact is  *)
(*     named by the entry point or by the local.                           *)
(*                                                                         *)
(* An error in Lua is a longjmp out of the C function: "raised" ends the   *)
(* body where it stands, and only what was freed before is freed.  The     *)
(* memory that Lua itself allocates (tables, strings) is not in the model, *)
(* nor are the errors Lua raises when it finds none.                       *)
(***************************************************************************)
EXTENDS Naturals, Sequences

\* The arguments pass, or the step does nothing.
Go == [to |-> "next", needs |-> {}, uses |-> {}, frees |-> {},
       gets |-> {}, keeps |-> {}, loses |-> {}, sets |-> {}]

\* luaL_error or luaL_argerror, and return, both after freeing the blocks undo.
Raise(undo) == [Go EXCEPT !.to = "raised", !.frees = undo]
Return(undo) == [Go EXCEPT !.to = "returned", !.frees = undo]

Gets(b) == [Go EXCEPT !.gets = {b}]

\* Arguments checked, or an error code: raises at once, whatever is allocated.
Check == {Go, Raise({})}

\* A test whose failure frees the blocks undo and then raises, or returns.
Test(undo) == {Go, Raise(undo)}
Exit(undo) == {Go, Return(undo)}

\* A block that must be had: Malloc, MallocNoErr, or a list that must be there.
Required(b, undo) == {Gets(b), Raise(undo)}

\* A block for an argument that may be absent: its variable is then NULL.
Optional(b, undo) == Required(b, undo) \cup {Go}

\* CheckPfn and CheckExtPfn: the entry point f is not NULL from here on.
Require(f) == {[Go EXCEPT !.sets = {f}], Raise({})}

\* The function f of OpenCL is called with the blocks given; it succeeds, or
\* leaves an error code that a later step looks at.
Call(f, blocks) == {[Go EXCEPT !.needs = {f}, !.uses = blocks]}

\* The same, and on an error the blocks undo are freed and the error raised.
Query(f, blocks, undo) ==
  Call(f, blocks) \cup
  {[Raise(undo) EXCEPT !.needs = {f}, !.uses = blocks]}

\* f is called if its pointer is not NULL.
IfPresent(f, blocks) == [Go EXCEPT !.sets = {f}, !.needs = {f}, !.uses = blocks]

Free(blocks) == {[Go EXCEPT !.frees = blocks]}
Use(blocks) == {[Go EXCEPT !.uses = blocks]}
Keep(blocks) == {[Go EXCEPT !.keeps = blocks]}

\* newxxx, or pushing the binding of a handle: the allocation of the userdata
\* fails, or the handle has no binding, and an error is raised from inside.
Bind(blocks) == {[Go EXCEPT !.uses = blocks], [Raise({}) EXCEPT !.uses = blocks]}
=============================================================================
