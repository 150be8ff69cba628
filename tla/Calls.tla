------------------------------- MODULE Calls --------------------------------
(***************************************************************************)
(* One call of one of MoonCL's C functions, from its first argument check  *)
(* to its return or to the error it raises, along every path through its   *)
(* body.  The bodies are given as data, see CallSteps; here is what it     *)
(* means to execute them.                                                  *)
(*                                                                         *)
(* A body has no state outside the call except the blocks it hands over,   *)
(* so that one call at a time, of every function and along every path, is  *)
(* all there is to explore: no bound cuts anything off.                    *)
(***************************************************************************)
EXTENDS CallSteps, FiniteSets

CONSTANTS
  Script,       \* for each function, its body
  Blocks,       \* the blocks the bodies name
  Optionals,    \* the facts: entry points that may be NULL, locals that may be unset
  Leaks,        \* <<function, block>> the code is known to leave allocated when it raises
  NeverFreed,   \* <<function, block>> the code is known to leave allocated on success as well
  Misuses,      \* <<function, block>> the code is known to free twice or to use after that
  Assumptions   \* <<function, fact>> the code is known to rely on without establishing it

VARIABLES
  fn,       \* the function called
  pc,       \* the next step of its body
  mem,      \* what has become of each block
  known,    \* the facts established so far
  assumed,  \* the facts relied upon without being established
  result    \* "running", "returned" or "raised"

callVars == <<fn, pc, mem, known, assumed, result>>

\* "null"  not allocated: its variable is NULL, and freeing it does nothing
\* "live"  allocated, and this function's to free
\* "freed" freed
\* "kept"  handed to the caller, or to the userdata that will free it
\* "lost"  its variable no longer holds it
\* "wild"  freed when it was not live, or used after it was freed
BlockState == {"null", "live", "freed", "kept", "lost", "wild"}

CallTypeOK ==
  /\ fn \in DOMAIN Script
  /\ pc \in 1 .. Len(Script[fn]) + 1
  /\ mem \in [Blocks -> BlockState]
  /\ known \subseteq Optionals
  /\ assumed \subseteq Optionals
  /\ result \in {"running", "returned", "raised"}

CallInit ==
  /\ fn \in DOMAIN Script
  /\ pc = 1
  /\ mem = [b \in Blocks |-> "null"]
  /\ known = {}
  /\ assumed = {}
  /\ result = "running"

\* What outcome o makes of the block b: it is used first, then freed.
Gone == {"freed", "wild", "lost"}
After(b, o) ==
  CASE b \in o.uses \cup o.frees /\ (mem[b] \in Gone \/ b \in o.loses) -> "wild"
    [] b \in o.frees /\ mem[b] = "live" -> "freed"
    [] b \in o.loses -> "lost"
    [] b \in o.keeps -> "kept"
    [] b \in o.gets  -> "live"
    [] OTHER -> mem[b]

\* The next step of the body.
CallStep ==
  /\ result = "running"
  /\ UNCHANGED fn
  /\ pc' = pc + 1
  /\ \E o \in Script[fn][pc] :
       /\ mem' = [b \in Blocks |-> After(b, o)]
       /\ known' = known \cup o.sets
       /\ assumed' = assumed \cup ((o.needs \cap Optionals) \ known')
       /\ result' = IF o.to # "next" THEN o.to
                    ELSE IF pc = Len(Script[fn]) THEN "returned" ELSE "running"

-----------------------------------------------------------------------------
(* The bodies never free a block twice, free a pointer that is not theirs, *)
(* or use a block after it is freed, on any way out; the exceptions are    *)
(* faults of the code, listed one by one.                                  *)
BlocksFreedOnce == \A b \in Blocks : mem[b] = "wild" => <<fn, b>> \in Misuses

(* Whether a call returns or raises an error, every block it allocated is  *)
(* freed or handed over: checkxxxlist says that its array "must be         *)
(* released by the caller".  The exceptions are leaks of the code, most of *)
(* them by an error raised while a block is there.                         *)
Forgotten(b) == mem[b] \in {"live", "lost"}
BlocksReleased ==
  /\ result = "returned" =>
       \A b \in Blocks : Forgotten(b) => <<fn, b>> \in NeverFreed
  /\ result = "raised" =>
       \A b \in Blocks : Forgotten(b) => <<fn, b>> \in NeverFreed \cup Leaks

(* An entry point that getproc.c loads as optional "may be NULL so they    *)
(* must be checked before using them", and a local that only some paths    *)
(* assign is not read on the others.                                       *)
FactsEstablished == \A x \in assumed : <<fn, x>> \in Assumptions
=============================================================================
