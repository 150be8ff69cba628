---------------------------- MODULE CommandsProofs ----------------------------
(***************************************************************************)
(* Proofs about Commands, for every value of its constants.  Inv is the    *)
(* inductive invariant of the whole module.  What the script does decides  *)
(* the rest: OnceInv is kept by scripts that do not call enqueue_svm_free, *)
(* and CarefulInv by those of them that wait for the commands that use a   *)
(* memory before they free it or end.                                      *)
(***************************************************************************)
EXTENDS Commands, TLAPS

Distinct(s) == \A i, j \in DOMAIN s : s[i] = s[j] => i = j

\* A command's event, its queue and the memory it uses have been created, and no other
\* command has its event.
CommandsInv ==
  \A i \in DOMAIN command :
    /\ command[i].event \in created /\ command[i].queue \in created
    /\ command[i].uses \subseteq created
    /\ \A j \in DOMAIN command : command[j].event = command[i].event => j = i

\* The Lua thread waits in one function at a time: in a queue's destructor only during a
\* deletion, and the event that a blocking call will bind has no binding yet.
LuaInv ==
  /\ lua.at = "script" => lua = Script
  /\ lua.at = "wait" => /\ lua.queue = Nothing /\ phase = "open"
                        /\ lua.object \in (created \cap Commands) \cup {Nothing}
                        /\ lua.object \notin Valid
  /\ lua.at = "delete" => lua.object \in created

\* Every memory that was created has its binding or was freed.
KeptOrFreed == \A m \in created \cap Memory : m \in Valid \/ freed[m] > 0

\* QueueDrained, command by command.
DrainedInv ==
  \A i \in DOMAIN command : Ended(command[i].event) \/ command[i].queue \in Valid \cup {lua.queue}

ClosedInv == phase = "closed" => bound = <<>>

Inv == /\ TypeOK /\ Distinct(bound) /\ CommandsInv /\ LuaInv
       /\ DrainedInv /\ KeptOrFreed /\ ClosedInv

\* No command frees memory, and memory that has its binding, or is not yet created, was
\* not freed.
OnceInv ==
  /\ FreedOnce
  /\ \A i \in DOMAIN command : command[i].frees = {}
  /\ \A m \in Memory : m \in Valid \/ m \notin created => freed[m] = 0

\* The commands that have not ended use memory that was not freed; no command uses the
\* memory that the script is deleting, or any memory once lua_close has been called.
CarefulInv ==
  /\ \A i \in DOMAIN command :
       ~Ended(command[i].event) => \A m \in command[i].uses : freed[m] = 0
  /\ lua.at = "delete" /\ lua.object \in Memory => ~InUse(lua.object)
  /\ phase # "open" => \A m \in Memory : ~InUse(m)

-----------------------------------------------------------------------------
(***************************************************************************)
(* The bindings: adding one and taking one away.                           *)
(***************************************************************************)
\* Append adds the new element, and keeps a sequence free of duplicates if it is new.
LEMMA AppendBinding ==
  ASSUME NEW S, NEW s \in Seq(S), NEW o \in S
  PROVE  /\ Append(s, o) \in Seq(S)
         /\ Elements(Append(s, o)) = Elements(s) \cup {o}
         /\ Distinct(s) /\ o \notin Elements(s) => Distinct(Append(s, o))
<1> DEFINE t == Append(s, o)
<1>1. t \in Seq(S) /\ Len(t) = Len(s) + 1 /\ t[Len(s) + 1] = o
      /\ (\A i \in DOMAIN s : t[i] = s[i]) /\ DOMAIN t = DOMAIN s \cup {Len(s) + 1}
      /\ Len(s) + 1 \notin DOMAIN s
  OBVIOUS
<1>2. Elements(t) = Elements(s) \cup {o}
  BY <1>1 DEF Elements
<1>3. Distinct(s) /\ o \notin Elements(s) => Distinct(t)
  BY <1>1 DEF Elements, Distinct
<1>4. QED
  BY <1>1, <1>2, <1>3

\* Without takes the binding of o away and leaves the others.
LEMMA WithoutBinding ==
  ASSUME bound \in Seq(Objects), Distinct(bound), NEW o \in Valid
  PROVE  /\ Without(o) \in Seq(Objects)
         /\ Elements(Without(o)) = Valid \ {o}
         /\ Distinct(Without(o))
<1> DEFINE i == CHOOSE j \in DOMAIN bound : bound[j] = o
           n == Len(bound)
           w == [j \in 1..n - 1 |-> bound[IF j < i THEN j ELSE j + 1]]
<1>1. i \in 1..n /\ bound[i] = o /\ n \in Nat /\ DOMAIN bound = 1..n
  <2>1. \E j \in DOMAIN bound : bound[j] = o
    BY DEF Valid, Elements
  <2>2. QED
    BY <2>1
<1>2. \A j \in 1..n : bound[j] = o => j = i
  BY <1>1 DEF Distinct
<1> HIDE DEF i
<1>3. w \in Seq(Objects) /\ DOMAIN w = 1..n - 1
      /\ \A j \in 1..n - 1 : w[j] = bound[IF j < i THEN j ELSE j + 1]
  <2>1. \A j \in 1..n - 1 : (IF j < i THEN j ELSE j + 1) \in 1..n
    BY <1>1
  <2>2. w \in [1..n - 1 -> Objects] /\ n - 1 \in Nat
    BY <1>1, <2>1
  <2>3. QED
    BY <1>1, <2>2
<1>6. Without(o) = w
  BY DEF Without, i
<1> HIDE DEF w
<1>4. Elements(w) = Valid \ {o}
  <2>1. ASSUME NEW x \in Elements(w) PROVE x \in Valid \ {o}
    BY <1>1, <1>2, <1>3 DEF Elements, Valid
  <2>2. ASSUME NEW x \in Valid \ {o} PROVE x \in Elements(w)
    <3>1. PICK j \in 1..n : bound[j] = x
      BY <1>1 DEF Valid, Elements
    <3>2. j # i
      BY <1>1, <3>1
    <3>3. CASE j < i
      BY <1>1, <1>3, <3>1, <3>3 DEF Elements
    <3>4. CASE j > i
      <4>1. j - 1 \in 1..n - 1 /\ w[j - 1] = x
        BY <1>1, <1>3, <3>1, <3>4
      <4>2. QED
        BY <1>3, <4>1 DEF Elements
    <3>5. QED
      BY <1>1, <3>2, <3>3, <3>4
  <2>3. QED
    BY <2>1, <2>2
<1>5. Distinct(w)
  <2>1. SUFFICES ASSUME NEW j \in 1..n - 1, NEW k \in 1..n - 1, w[j] = w[k]
                 PROVE  j = k
    BY <1>3 DEF Distinct
  <2>2. (IF j < i THEN j ELSE j + 1) = (IF k < i THEN k ELSE k + 1)
    <3>1. (IF j < i THEN j ELSE j + 1) \in 1..n /\ (IF k < i THEN k ELSE k + 1) \in 1..n
      BY <1>1
    <3>2. QED
      BY <1>1, <1>3, <2>1, <3>1 DEF Distinct
  <2>3. QED
    BY <1>1, <2>2
<1>7. QED
  BY <1>3, <1>4, <1>5, <1>6

LEMMA BindFacts ==
  ASSUME bound \in Seq(Objects), Distinct(bound), NEW o \in Objects \ Valid, Bind(o)
  PROVE  bound' \in Seq(Objects) /\ Valid' = Valid \cup {o} /\ Distinct(bound)'
  BY AppendBinding DEF Bind, Valid

LEMMA UnbindFacts ==
  ASSUME bound \in Seq(Objects), Distinct(bound), NEW o \in Valid, bound' = Without(o)
  PROVE  bound' \in Seq(Objects) /\ Valid' = Valid \ {o} /\ Distinct(bound)'
  BY WithoutBinding DEF Valid

-----------------------------------------------------------------------------
(***************************************************************************)
(* The commands.                                                           *)
(***************************************************************************)
LEMMA CommandFields ==
  ASSUME TypeOK, NEW i \in DOMAIN command
  PROVE  /\ command[i].event \in Commands /\ command[i].queue \in Queues
         /\ command[i].uses \in SUBSET Memory /\ command[i].frees \in SUBSET Svms
  <1>1. command[i] \in Command
    BY DEF TypeOK
  <1>2. QED
    BY <1>1 DEF Command

\* A queue is drained iff each of its commands has ended.
LEMMA UnfinishedNone ==
  ASSUME TypeOK, NEW q
  PROVE  Unfinished(q) = {} <=>
           \A i \in DOMAIN command : command[i].queue = q => Ended(command[i].event)
  BY CommandFields DEF Unfinished

\* A command is added at the end; the others, and their events, are left alone.
Added(c, q, uses, frees) ==
  /\ command' \in Seq(Command) /\ created' \subseteq Objects
  /\ status' \in [Events -> {"none", "queued", "running", "complete", "failed"}]
  /\ DOMAIN command' = DOMAIN command \cup {Len(command) + 1}
  /\ \A i \in DOMAIN command : /\ command'[i] = command[i]
                              /\ status'[command[i].event] = status[command[i].event]
  /\ LET new == command'[Len(command) + 1]
     IN  new.event = c /\ new.queue = q /\ new.uses = uses /\ new.frees = frees

\* Submit adds a command and leaves the others, and their events, alone.
LEMMA SubmitFacts ==
  ASSUME TypeOK, CommandsInv, NEW c \in Commands, NEW q \in Queues \cap created,
         NEW waits \in SUBSET Events, NEW uses \in SUBSET Memory, NEW frees \in SUBSET Svms,
         uses \subseteq created, Submit(c, q, waits, uses, frees)
  PROVE  CommandsInv' /\ Added(c, q, uses, frees)
<1> DEFINE new == [event |-> c, queue |-> q, waits |-> waits, uses |-> uses, frees |-> frees]
<1>1. new \in Command /\ new.event = c /\ new.queue = q /\ new.uses = uses /\ new.frees = frees
  BY DEF Command
<1> HIDE DEF new
<1>2. command' \in Seq(Command) /\ DOMAIN command' = DOMAIN command \cup {Len(command) + 1}
      /\ (\A i \in DOMAIN command : command'[i] = command[i]) /\ command'[Len(command) + 1] = new
  BY <1>1 DEF Submit, TypeOK, new
<1>3. created' = created \cup {c} /\ c \notin created
      /\ status' = [status EXCEPT ![c] = "queued"]
  BY DEF Submit
<1>4. created' \subseteq Objects
      /\ status' \in [Events -> {"none", "queued", "running", "complete", "failed"}]
  BY <1>3 DEF TypeOK, Objects, Events
<1>5. \A i \in DOMAIN command : status'[command[i].event] = status[command[i].event]
  BY <1>3, CommandFields DEF CommandsInv, TypeOK, Events
<1>6. CommandsInv'
  BY <1>1, <1>2, <1>3 DEF CommandsInv
<1>7. QED
  BY <1>1, <1>2, <1>4, <1>5, <1>6 DEF Added

-----------------------------------------------------------------------------
(***************************************************************************)
(* Inv is inductive.                                                       *)
(***************************************************************************)
LEMMA InitInv == Init => Inv
<1> SUFFICES ASSUME Init PROVE Inv
  OBVIOUS
<1>1. Valid = {Context} /\ Distinct(bound) /\ DOMAIN command = {}
  BY DEF Init, Valid, Elements, Distinct
<1>2. TypeOK
  BY <1>1 DEF Init, TypeOK, Objects, Events, Memory, LuaStates, Script
<1>3. CommandsInv /\ DrainedInv /\ ClosedInv
  BY <1>1 DEF Init, CommandsInv, DrainedInv, ClosedInv
<1>4. LuaInv
  BY <1>1 DEF Init, LuaInv, Script
<1>5. KeptOrFreed
  BY <1>1 DEF Init, KeptOrFreed
<1>6. QED
  BY <1>1, <1>2, <1>3, <1>4, <1>5 DEF Inv

LEMMA ScriptFacts ==
  /\ Script \in LuaStates /\ Script.at = "script" /\ Script.waits = {}
  /\ Script.object = Nothing /\ Script.queue = Nothing
  BY DEF Script, LuaStates

LEMMA CreateKeeps ==
  ASSUME Inv, NEW o \in Objects, Create(o)
  PROVE  /\ Inv' /\ Valid' = Valid \cup {o}
         /\ \A e \in Commands : Ended(e) => Ended(e)'
<1> USE DEF Inv
<1>1. o \notin created /\ o \notin Valid /\ created' = created \cup {o} /\ phase = "open"
      /\ lua = Script /\ UNCHANGED <<command, freed, lua, phase>>
  BY DEF Create, Running, TypeOK
<1>2. bound' \in Seq(Objects) /\ Valid' = Valid \cup {o} /\ Distinct(bound)'
  BY <1>1, BindFacts DEF Create, TypeOK
<1>3. status' \in [Events -> {"none", "queued", "running", "complete", "failed"}]
      /\ \A c \in Commands : status'[c] = status[c]
  BY CommandsAssumption DEF Create, TypeOK, Events
<1>4. TypeOK'
  BY <1>1, <1>2, <1>3 DEF TypeOK
<1>5. CommandsInv'
  BY <1>1 DEF CommandsInv
<1>6. LuaInv'
  BY <1>1, ScriptFacts DEF LuaInv
<1>7. DrainedInv'
  BY <1>1, <1>2, <1>3, CommandFields DEF DrainedInv, Ended
<1>8. KeptOrFreed' /\ ClosedInv'
  BY <1>1, <1>2 DEF KeptOrFreed, ClosedInv
<1>9. QED
  BY <1>2, <1>3, <1>4, <1>5, <1>6, <1>7, <1>8 DEF Ended

LEMMA EnqueueKeeps ==
  ASSUME Inv, NEW c \in Commands, NEW q \in Queues, NEW waits \in SUBSET Events,
         NEW uses \in AtMostOne(Memory), NEW blocking \in BOOLEAN, NEW ge \in BOOLEAN,
         Enqueue(c, q, waits, uses, blocking, ge)
  PROVE  Inv' /\ Added(c, q, uses, {}) /\ Valid' \subseteq Valid \cup {c}
<1> USE DEF Inv
<1>1. /\ Submit(c, q, waits, uses, {}) /\ q \in Valid /\ uses \subseteq Valid
      /\ uses \in SUBSET Memory /\ c \notin created /\ c \notin Valid /\ created' = created \cup {c}
      /\ lua = Script /\ phase = "open" /\ UNCHANGED <<freed, phase>> /\ Valid \subseteq created
  BY DEF Enqueue, Running, TypeOK, AtMostOne, Submit
<1>2. CommandsInv' /\ Added(c, q, uses, {})
  <2>1. q \in Queues \cap created /\ {} \in SUBSET Svms /\ uses \subseteq created
    BY <1>1
  <2>2. QED
    BY <1>1, <2>1, SubmitFacts
<1>3. bound' \in Seq(Objects) /\ Valid' \in {Valid, Valid \cup {c}} /\ Distinct(bound)'
  <2>1. CASE Bind(c)
    BY <1>1, <2>1, BindFacts DEF TypeOK, Objects, Events
  <2>2. CASE UNCHANGED bound
    BY <2>2 DEF TypeOK, Added, Valid
  <2>3. QED
    BY <2>1, <2>2 DEF Enqueue
<1>4. CASE blocking
  <2>1. lua' = [Script EXCEPT !.at = "wait", !.waits = {c}, !.object = IF ge THEN c ELSE Nothing]
        /\ Valid' = Valid
    BY <1>4 DEF Enqueue, Valid
  <2>2. lua' \in LuaStates /\ lua'.at = "wait" /\ lua'.queue = Nothing
        /\ lua'.object \in {c, Nothing}
    BY <2>1 DEF Script, LuaStates, Objects, Events
  <2>3. TypeOK'
    BY <1>1, <1>2, <1>3, <2>2 DEF TypeOK, Added
  <2>4. LuaInv'
    BY <1>1, <2>1, <2>2, CommandsAssumption DEF LuaInv, TypeOK
  <2>5. DrainedInv'
    BY <1>1, <1>2, <2>1, <2>2, ScriptFacts, CommandFields, CommandsAssumption DEF Added, DrainedInv, Ended, Objects
  <2>6. QED
    BY <1>1, <1>2, <1>3, <2>3, <2>4, <2>5, CommandsAssumption DEF KeptOrFreed, ClosedInv, Events
<1>5. CASE ~blocking
  <2>1. UNCHANGED lua
    BY <1>5 DEF Enqueue
  <2>2. TypeOK'
    BY <1>1, <1>2, <1>3, <2>1 DEF TypeOK, Added
  <2>3. LuaInv'
    BY <1>1, <2>1, ScriptFacts DEF LuaInv
  <2>4. DrainedInv'
    BY <1>1, <1>2, <1>3, <2>1 DEF Added, DrainedInv, Ended
  <2>5. QED
    BY <1>1, <1>2, <1>3, <2>2, <2>3, <2>4, CommandsAssumption DEF KeptOrFreed, ClosedInv, Events
<1>6. QED
  BY <1>4, <1>5

LEMMA EnqueueSvmFreeKeeps ==
  ASSUME Inv, NEW c \in Commands, NEW q \in Queues, NEW waits \in SUBSET Events,
         NEW svm \in Svms, NEW ge \in BOOLEAN,
         EnqueueSvmFree(c, q, waits, svm, ge)
  PROVE  Inv'
<1> USE DEF Inv
<1>1. /\ q \in Valid /\ svm \in Valid /\ Valid \subseteq created /\ q # svm
      /\ lua = Script /\ phase = "open" /\ UNCHANGED <<lua, phase>>
      /\ freed' = [freed EXCEPT ![svm] = @ + 1]
  BY CommandsAssumption DEF EnqueueSvmFree, Running, TypeOK, Memory
<1>2. freed' \in [Memory -> Nat] /\ (\A m \in Memory : freed'[m] >= freed[m]) /\ freed'[svm] > 0
  BY <1>1 DEF TypeOK, Memory
<1>3. /\ Without(svm) \in Seq(Objects) /\ Elements(Without(svm)) = Valid \ {svm}
      /\ Distinct(Without(svm))
  BY <1>1, WithoutBinding DEF TypeOK
<1>4. CASE /\ Submit(c, q, waits, {}, {svm})
           /\ bound' = Without(svm) \o IF ge THEN <<c>> ELSE <<>>
  <2>1. CommandsInv' /\ Added(c, q, {}, {svm})
    <3>1. /\ q \in Queues \cap created /\ {svm} \in SUBSET Svms
          /\ {} \in SUBSET Memory /\ {} \subseteq created
      BY <1>1
    <3>2. QED
      BY <1>4, <3>1, SubmitFacts
  <2>2. c \in Objects /\ c \notin created /\ created' = created \cup {c} /\ c \notin Memory
    BY <1>4, CommandsAssumption DEF Submit, Objects, Events
  <2>3. /\ bound' \in Seq(Objects) /\ Distinct(bound)'
        /\ Valid' \in {Valid \ {svm}, (Valid \ {svm}) \cup {c}}
    <3>1. CASE ge
      <4>1. bound' = Append(Without(svm), c)
        BY <1>3, <1>4, <3>1
      <4>2. QED
        BY <1>1, <1>3, <2>2, <4>1, AppendBinding DEF Valid
    <3>2. CASE ~ge
      <4>1. bound' = Without(svm)
        BY <1>3, <1>4, <3>2
      <4>2. QED
        BY <1>3, <4>1 DEF Valid
    <3>3. QED
      BY <3>1, <3>2
  <2>4. TypeOK'
    BY <1>1, <1>2, <2>1, <2>2, <2>3 DEF TypeOK, Added
  <2>5. LuaInv'
    BY <1>1, ScriptFacts DEF LuaInv
  <2>6. DrainedInv'
    BY <1>1, <2>1, <2>3, CommandFields, CommandsAssumption DEF Added, DrainedInv, Ended, Memory
  <2>7. KeptOrFreed' /\ ClosedInv'
    BY <1>1, <1>2, <2>2, <2>3 DEF KeptOrFreed, ClosedInv, TypeOK
  <2>8. QED
    BY <2>1, <2>3, <2>4, <2>5, <2>6, <2>7
<1>5. CASE /\ bound' = Without(svm)
           /\ UNCHANGED <<created, command, status>>
  <2>1. Valid' = Valid \ {svm} /\ bound' \in Seq(Objects) /\ Distinct(bound)'
    BY <1>3, <1>5 DEF Valid
  <2>2. TypeOK'
    BY <1>1, <1>2, <1>5, <2>1 DEF TypeOK
  <2>3. LuaInv' /\ CommandsInv'
    BY <1>1, <1>5, ScriptFacts DEF LuaInv, CommandsInv
  <2>4. DrainedInv'
    BY <1>1, <1>5, <2>1, CommandFields, CommandsAssumption DEF DrainedInv, Ended, Memory
  <2>5. KeptOrFreed' /\ ClosedInv'
    BY <1>1, <1>2, <1>5, <2>1 DEF KeptOrFreed, ClosedInv, TypeOK
  <2>6. QED
    BY <2>1, <2>2, <2>3, <2>4, <2>5
<1>6. QED
  BY <1>4, <1>5 DEF EnqueueSvmFree

\* The calls that block, and the start of a deletion, change nothing but lua.
LEMMA LuaKeeps ==
  ASSUME Inv, UNCHANGED <<bound, created, command, status, freed, phase>>,
         lua' \in LuaStates, LuaInv', lua.queue = Nothing
  PROVE  Inv'
<1> USE DEF Inv
<1>1. Valid' = Valid
  BY DEF Valid
<1>2. TypeOK' /\ Distinct(bound)' /\ CommandsInv'
  BY <1>1 DEF TypeOK, CommandsInv
<1>3. DrainedInv'
  BY <1>1, CommandFields, CommandsAssumption DEF DrainedInv, Ended, Objects
<1>4. KeptOrFreed' /\ ClosedInv'
  BY <1>1 DEF KeptOrFreed, ClosedInv
<1>5. QED
  BY <1>2, <1>3, <1>4

LEMMA BlockKeeps ==
  ASSUME Inv, NEW events \in SUBSET Events, Block(events)
  PROVE  Inv'
<1>1. lua = Script /\ phase = "open" /\ lua' = [Script EXCEPT !.at = "wait", !.waits = events]
      /\ UNCHANGED <<bound, created, command, status, freed, phase>>
  BY DEF Block, Running
<1>2. /\ lua' \in LuaStates /\ lua'.at = "wait" /\ lua'.queue = Nothing
      /\ lua'.object = Nothing
  BY <1>1 DEF Script, LuaStates
<1>3. Nothing \notin Valid'
  BY <1>1, CommandsAssumption DEF Inv, TypeOK, Valid
<1>4. LuaInv'
  BY <1>1, <1>2, <1>3 DEF LuaInv
<1>5. QED
  BY <1>1, <1>2, <1>4, ScriptFacts, LuaKeeps

LEMMA StartDeleteKeeps ==
  ASSUME Inv, lua = Script, NEW o \in Valid, StartDelete(o)
  PROVE  Inv'
<1>1. lua' = [Script EXCEPT !.at = "delete", !.object = o]
      /\ UNCHANGED <<bound, created, command, status, freed, phase>>
  BY DEF StartDelete
<1>2. o \in created /\ o \in Objects
  BY DEF Inv, TypeOK
<1>3. lua' \in LuaStates /\ lua'.at = "delete" /\ lua'.object = o
  BY <1>1, <1>2 DEF Script, LuaStates
<1>4. LuaInv'
  BY <1>1, <1>2, <1>3 DEF LuaInv
<1>5. QED
  BY <1>1, <1>3, <1>4, ScriptFacts, LuaKeeps

\* The driver: what a command that starts, or ends, does.  An event that has ended stays so.
LEMMA DriverKeeps ==
  ASSUME Inv, NEW i \in DOMAIN command, Start(i) \/ End(i)
  PROVE  /\ Inv'
         /\ \A e \in Events : Ended(e) => Ended(e)'
         /\ \A m \in Memory : freed'[m] >= freed[m]
<1> USE DEF Inv
<1> DEFINE e == command[i].event
<1>1. e \in Commands /\ e \in Events /\ command[i].waits \subseteq Events
  <2>1. command[i] \in Command
    BY DEF TypeOK
  <2>2. QED
    BY <2>1 DEF Command, Events
<1>2. PICK s \in {"running", "complete", "failed"} : SetStatus(i, s)
  BY DEF Start, End
<1>3. /\ status' = [status EXCEPT ![e] = s]
      /\ UNCHANGED <<bound, created, command, lua, phase>>
  BY <1>2 DEF SetStatus
<1>4. Valid' = Valid
  BY <1>3 DEF Valid
<1>5. ~Ended(e)
  BY DEF Start, Ready, End, Ended
<1>6. \A f \in Events : Ended(f) => Ended(f)'
  BY <1>1, <1>3, <1>5 DEF Ended, TypeOK
<1>7. freed' \in [Memory -> Nat] /\ \A m \in Memory : freed'[m] >= freed[m]
  <2>1. CASE UNCHANGED freed
    BY <2>1 DEF TypeOK
  <2>2. CASE freed' = [m \in Memory |-> IF m \in command[i].frees THEN freed[m] + 1 ELSE freed[m]]
    BY <2>2 DEF TypeOK
  <2>3. QED
    BY <2>1, <2>2 DEF Start, End
<1>8. TypeOK'
  BY <1>1, <1>3, <1>4, <1>7 DEF TypeOK
<1>9. Distinct(bound)' /\ CommandsInv' /\ LuaInv'
  BY <1>3, <1>4 DEF CommandsInv, LuaInv
<1>10. DrainedInv'
  BY <1>3, <1>4, <1>6, CommandFields DEF DrainedInv, Events, Ended
<1>11. KeptOrFreed' /\ ClosedInv'
  BY <1>3, <1>4, <1>7 DEF KeptOrFreed, ClosedInv, TypeOK
<1>12. QED
  BY <1>6, <1>7, <1>8, <1>9, <1>10, <1>11

LEMMA WaitEndsKeeps ==
  ASSUME Inv, WaitEnds
  PROVE  Inv' /\ Valid' \subseteq Valid \cup Commands
<1> USE DEF Inv
<1>1. lua.at = "wait" /\ lua' = Script /\ UNCHANGED <<created, command, status, freed, phase>>
  BY DEF WaitEnds
<1>2. /\ lua.object \in (created \cap Commands) \cup {Nothing} /\ lua.object \notin Valid
      /\ lua.queue = Nothing
  BY <1>1 DEF LuaInv
<1>3. /\ bound' \in Seq(Objects) /\ Distinct(bound)' /\ Valid \subseteq Valid'
      /\ Valid' \subseteq created /\ Valid' \subseteq Valid \cup Commands
      /\ (phase = "closed" => bound' = bound)
  <2>1. CASE lua.object # Nothing /\ status[lua.object] = "complete" /\ Bind(lua.object)
    <3>1. lua.object \in Objects \ Valid
      BY <1>2, <2>1 DEF Objects, Events
    <3>2. phase # "closed"
      BY <1>1 DEF LuaInv
    <3>3. bound' \in Seq(Objects) /\ Valid' = Valid \cup {lua.object} /\ Distinct(bound)'
      BY <2>1, <3>1, BindFacts DEF TypeOK
    <3>4. QED
      BY <1>2, <2>1, <3>2, <3>3 DEF TypeOK
  <2>2. CASE UNCHANGED bound
    BY <2>2 DEF TypeOK, Valid
  <2>3. QED
    BY <2>1, <2>2 DEF WaitEnds
<1>4. TypeOK'
  BY <1>1, <1>3, ScriptFacts DEF TypeOK
<1>5. CommandsInv' /\ LuaInv'
  BY <1>1, ScriptFacts DEF CommandsInv, LuaInv
<1>6. DrainedInv'
  BY <1>1, <1>2, <1>3, ScriptFacts DEF DrainedInv, Ended
<1>7. KeptOrFreed' /\ ClosedInv'
  BY <1>1, <1>3 DEF KeptOrFreed, ClosedInv
<1>8. QED
  BY <1>3, <1>4, <1>5, <1>6, <1>7

LEMMA DestroyKeeps ==
  ASSUME Inv, NEW o \in Objects, Destroy(o)
  PROVE  Inv' /\ Valid' = Valid \ {o} /\ lua'.at = "delete" /\ lua'.object = lua.object
<1> USE DEF Inv
<1>1. /\ lua.at = "delete" /\ lua.queue = Nothing /\ o \in Valid /\ Valid \subseteq created
      /\ bound' = Without(o) /\ UNCHANGED <<created, command, status, phase>>
  BY DEF Destroy, TypeOK
<1>2. bound' \in Seq(Objects) /\ Valid' = Valid \ {o} /\ Distinct(bound)'
  BY <1>1, UnbindFacts DEF TypeOK
<1>3. freed' \in [Memory -> Nat] /\ (\A m \in Memory : freed'[m] >= freed[m])
      /\ (o \in Memory => freed'[o] > 0)
  BY DEF Destroy, TypeOK
<1>4. /\ lua' \in LuaStates /\ lua'.at = "delete" /\ lua'.object = lua.object
      /\ lua'.queue = IF o \in Queues THEN o ELSE Nothing
  BY <1>1 DEF Destroy, TypeOK, LuaStates
<1>5. TypeOK'
  BY <1>1, <1>2, <1>3, <1>4 DEF TypeOK
<1>6. CommandsInv' /\ LuaInv'
  BY <1>1, <1>4 DEF CommandsInv, LuaInv
<1>7. DrainedInv'
  BY <1>1, <1>2, <1>4, CommandFields, CommandsAssumption DEF DrainedInv, Ended, Objects
<1>8. KeptOrFreed'
  BY <1>1, <1>2, <1>3 DEF KeptOrFreed, TypeOK
<1>9. ClosedInv'
  BY <1>1 DEF ClosedInv, Valid, Elements
<1>10. QED
  BY <1>2, <1>4, <1>5, <1>6, <1>7, <1>8, <1>9

LEMMA QueueFinishedKeeps ==
  ASSUME Inv, QueueFinished
  PROVE  Inv'
<1> USE DEF Inv
<1>1. /\ lua.queue # Nothing /\ Unfinished(lua.queue) = {} /\ lua' = [lua EXCEPT !.queue = Nothing]
      /\ UNCHANGED <<bound, created, command, status, freed, phase>>
  BY DEF QueueFinished
<1>2. lua.at = "delete"
  BY <1>1, ScriptFacts DEF LuaInv, TypeOK, LuaStates
<1>3. lua' \in LuaStates /\ lua'.at = "delete" /\ lua'.object = lua.object /\ lua'.queue = Nothing
  BY <1>1, <1>2 DEF TypeOK, LuaStates
<1>4. Valid' = Valid
  BY <1>1 DEF Valid
<1>5. TypeOK' /\ Distinct(bound)'
  BY <1>1, <1>3, <1>4 DEF TypeOK
<1>6. CommandsInv' /\ LuaInv'
  BY <1>1, <1>2, <1>3 DEF CommandsInv, LuaInv
<1>7. DrainedInv'
  BY <1>1, <1>3, <1>4, UnfinishedNone DEF DrainedInv, Ended
<1>8. KeptOrFreed' /\ ClosedInv'
  BY <1>1, <1>4 DEF KeptOrFreed, ClosedInv
<1>9. QED
  BY <1>5, <1>6, <1>7, <1>8

LEMMA DeleteEndsKeeps ==
  ASSUME Inv, DeleteEnds
  PROVE  Inv'
<1>1. lua' = Script /\ lua.queue = Nothing /\ UNCHANGED <<bound, created, command, status, freed, phase>>
  BY DEF DeleteEnds
<1>2. lua' \in LuaStates /\ LuaInv'
  BY <1>1, ScriptFacts DEF LuaInv
<1>3. QED
  BY <1>1, <1>2, LuaKeeps

LEMMA ClosingKeeps ==
  ASSUME Inv, Close \/ Closed
  PROVE  Inv'
<1> USE DEF Inv
<1>1. /\ lua = Script /\ phase' \in {"closing", "closed"} /\ (phase' = "closed" => bound = <<>>)
      /\ UNCHANGED <<bound, created, command, status, freed, lua>>
  BY DEF Close, Closed, Running
<1>2. Valid' = Valid
  BY <1>1 DEF Valid
<1>3. TypeOK' /\ Distinct(bound)' /\ CommandsInv'
  BY <1>1, <1>2 DEF TypeOK, CommandsInv
<1>4. LuaInv'
  BY <1>1, ScriptFacts DEF LuaInv
<1>5. DrainedInv' /\ KeptOrFreed' /\ ClosedInv'
  BY <1>1, <1>2 DEF DrainedInv, Ended, KeptOrFreed, ClosedInv
<1>6. QED
  BY <1>3, <1>4, <1>5

LEMMA FinalizeKeeps ==
  ASSUME Inv, Finalize
  PROVE  Inv'
<1>1. lua = Script /\ bound # <<>> /\ StartDelete(bound[Len(bound)])
  BY DEF Finalize
<1>2. bound[Len(bound)] \in Valid
  BY <1>1 DEF Inv, TypeOK, Valid, Elements
<1>3. QED
  BY <1>1, <1>2, StartDeleteKeeps

\* A wait list, or a list of memory, is empty or has one element.
LEMMA AtMostOneFacts ==
  ASSUME NEW S
  PROVE  AtMostOne(S) \subseteq SUBSET S
  BY DEF AtMostOne

LEMMA UserEventKeeps ==
  ASSUME Inv, NEW e \in UserEvents, NEW s \in {"complete", "failed"}, SetUserEventStatus(e, s)
  PROVE  Inv' /\ Valid' = Valid /\ \A c \in Commands : Ended(c) => Ended(c)'
<1> USE DEF Inv
<1>1. status' = [status EXCEPT ![e] = s] /\ UNCHANGED <<bound, created, command, freed, lua, phase>>
  BY DEF SetUserEventStatus
<1>2. status' \in [Events -> {"none", "queued", "running", "complete", "failed"}]
      /\ \A c \in Commands : status'[c] = status[c]
  BY <1>1, CommandsAssumption DEF TypeOK, Events
<1>3. Valid' = Valid
  BY <1>1 DEF Valid
<1>4. TypeOK' /\ Distinct(bound)' /\ CommandsInv' /\ LuaInv'
  BY <1>1, <1>2, <1>3 DEF TypeOK, CommandsInv, LuaInv
<1>5. DrainedInv' /\ KeptOrFreed' /\ ClosedInv'
  BY <1>1, <1>2, <1>3, CommandFields DEF DrainedInv, Ended, KeptOrFreed, ClosedInv
<1>6. QED
  BY <1>2, <1>3, <1>4, <1>5 DEF Ended

LEMMA CallsKeep ==
  ASSUME Inv, Calls
  PROVE  Inv'
<1>1. ASSUME NEW o \in Objects, Create(o) PROVE Inv'
  BY <1>1, CreateKeeps
<1>2. ASSUME NEW o \in Objects, Delete(o) PROVE Inv'
  BY <1>2, StartDeleteKeeps DEF Delete, Running
<1>3. ASSUME NEW e \in UserEvents, NEW s \in {"complete", "failed"}, SetUserEventStatus(e, s)
      PROVE  Inv'
  BY <1>3, UserEventKeeps
<1>4. ASSUME NEW c \in Commands, NEW q \in Queues, NEW waits \in AtMostOne(Events), NEW ge \in BOOLEAN
      PROVE  /\ \A uses \in AtMostOne(Memory), blocking \in BOOLEAN :
                  Enqueue(c, q, waits, uses, blocking, ge) => Inv'
             /\ \A m \in Svms : EnqueueSvmFree(c, q, waits, m, ge) => Inv'
  BY <1>4, AtMostOneFacts, EnqueueKeeps, EnqueueSvmFreeKeeps
<1>5. ASSUME NEW e \in Events, WaitForEvents({e}) PROVE Inv'
  BY <1>5, BlockKeeps DEF WaitForEvents
<1>6. ASSUME NEW q \in Queues, Finish(q) PROVE Inv'
  BY <1>6, BlockKeeps DEF Finish, Unfinished, Events
<1>7. CASE Close
  BY <1>7, ClosingKeeps
<1>8. QED
  BY <1>1, <1>2, <1>3, <1>4, <1>5, <1>6, <1>7 DEF Calls

LEMMA NextKeeps == Inv /\ [Next]_vars => Inv'
<1> SUFFICES ASSUME Inv, [Next]_vars PROVE Inv'
  OBVIOUS
<1>1. CASE Calls
  BY <1>1, CallsKeep
<1>2. CASE WaitEnds
  BY <1>2, WaitEndsKeeps
<1>3. CASE Destructor
  BY <1>3, DestroyKeeps, QueueFinishedKeeps, DeleteEndsKeeps DEF Destructor
<1>4. CASE Finalize
  BY <1>4, FinalizeKeeps
<1>5. CASE Closed
  BY <1>5, ClosingKeeps
<1>6. CASE Driver
  BY <1>6, DriverKeeps DEF Driver
<1>7. CASE UNCHANGED vars
  BY <1>7 DEF vars, Inv, TypeOK, Valid, CommandsInv, LuaInv, DrainedInv, Ended, KeptOrFreed, ClosedInv
<1>8. QED
  BY <1>1, <1>2, <1>3, <1>4, <1>5, <1>6, <1>7 DEF Next

LEMMA Invariance == Spec => []Inv
<1>1. Inv /\ [Next]_vars => Inv'
  BY NextKeeps
<1>2. QED
  BY InitInv, <1>1, PTL DEF Spec

-----------------------------------------------------------------------------
(***************************************************************************)
(* Scripts that do not call enqueue_svm_free: memory is freed once.        *)
(***************************************************************************)
LEMMA InitOnce == Init => OnceInv
  BY DEF Init, OnceInv, FreedOnce

\* Steps that free nothing and add no command; the only new bindings are of objects that
\* are not memory or were not created before.
LEMMA OnceFrame ==
  ASSUME OnceInv, UNCHANGED <<command, freed>>, created \subseteq created',
         Valid' \cap Memory \subseteq Valid \cup (created' \ created)
  PROVE  OnceInv'
  BY DEF OnceInv, FreedOnce

LEMMA OnceKeeps == ~SvmFree /\ Inv /\ OnceInv /\ [Next]_vars => OnceInv'
<1> SUFFICES ASSUME ~SvmFree, Inv, OnceInv, [Next]_vars PROVE OnceInv'
  OBVIOUS
<1>1. ASSUME NEW o \in Objects, Create(o) PROVE OnceInv'
  BY <1>1, CreateKeeps, OnceFrame DEF Create
<1>2. ASSUME UNCHANGED <<bound, created, command, freed>> PROVE OnceInv'
  BY <1>2, OnceFrame DEF Valid
<1>3. ASSUME NEW c \in Commands, NEW q \in Queues, NEW waits \in AtMostOne(Events), NEW ge \in BOOLEAN,
             NEW uses \in AtMostOne(Memory), NEW blocking \in BOOLEAN,
             Enqueue(c, q, waits, uses, blocking, ge)
      PROVE  OnceInv'
  <2>1. Added(c, q, uses, {}) /\ Valid' \subseteq Valid \cup {c}
    BY <1>3, AtMostOneFacts, EnqueueKeeps
  <2>2. c \notin Memory /\ created' = created \cup {c} /\ UNCHANGED freed
    BY <1>3, CommandsAssumption DEF Enqueue, Submit, Events
  <2>3. QED
    BY <2>1, <2>2 DEF OnceInv, FreedOnce, Added
<1>4. ASSUME NEW o \in Objects, Destroy(o) PROVE OnceInv'
  <2>1. o \in Valid /\ Valid' = Valid \ {o} /\ UNCHANGED <<created, command>> /\ Valid \subseteq created
    BY <1>4, DestroyKeeps DEF Destroy, Inv, TypeOK
  <2>2. freed' = IF o \in Memory THEN [freed EXCEPT ![o] = @ + 1] ELSE freed
    BY <1>4 DEF Destroy
  <2>3. freed \in [Memory -> Nat] /\ (o \in Memory => freed[o] = 0)
    BY <2>1 DEF Inv, TypeOK, OnceInv
  <2>4. QED
    BY <2>1, <2>2, <2>3 DEF OnceInv, FreedOnce
<1>5. CASE WaitEnds
  <2>1. Commands \cap Memory = {}
    BY CommandsAssumption DEF Events
  <2>2. Valid' \subseteq Valid \cup Commands /\ UNCHANGED <<created, command, freed>>
    BY <1>5, WaitEndsKeeps DEF WaitEnds
  <2>3. QED
    BY <2>1, <2>2, OnceFrame
<1>6. CASE Driver
  <2>1. PICK i \in DOMAIN command : Start(i) \/ End(i)
    BY <1>6 DEF Driver
  <2>2. UNCHANGED <<bound, created, command>>
    BY <2>1 DEF Start, End, SetStatus
  <2>3. UNCHANGED freed
    <3>1. CASE End(i)
      <4>1. freed' = [m \in Memory |-> freed[m]]
        BY <3>1 DEF End, OnceInv
      <4>2. QED
        BY <4>1 DEF Inv, TypeOK
    <3>2. QED
      BY <2>1, <3>1 DEF Start
  <2>4. QED
    BY <1>2, <2>2, <2>3
<1>7. CASE Calls
  <2>1. ASSUME NEW o \in Objects, Delete(o) PROVE OnceInv'
    BY <1>2, <2>1 DEF Delete, StartDelete
  <2>2. ASSUME NEW e \in UserEvents, NEW s, SetUserEventStatus(e, s) PROVE OnceInv'
    BY <1>2, <2>2 DEF SetUserEventStatus
  <2>3. ASSUME NEW events, Block(events) PROVE OnceInv'
    BY <1>2, <2>3 DEF Block
  <2>4. CASE Close
    BY <1>2, <2>4 DEF Close
  <2>5. ASSUME NEW c, NEW q, NEW waits, NEW svm, NEW ge, EnqueueSvmFree(c, q, waits, svm, ge)
        PROVE  FALSE
    BY <2>5 DEF EnqueueSvmFree
  <2>6. QED
    BY <1>1, <1>3, <1>7, <2>1, <2>2, <2>3, <2>4, <2>5 DEF Calls, WaitForEvents, Finish
<1>8. CASE Destructor
  BY <1>2, <1>4, <1>8 DEF Destructor, QueueFinished, DeleteEnds
<1>9. CASE Finalize \/ Closed \/ UNCHANGED vars
  BY <1>2, <1>9 DEF Finalize, StartDelete, Closed, vars
<1>10. QED
  BY <1>5, <1>6, <1>7, <1>8, <1>9 DEF Next

-----------------------------------------------------------------------------
(***************************************************************************)
(* Scripts that also wait for the commands that use a memory before they   *)
(* free it, or end: no command runs on freed memory.                       *)
(***************************************************************************)
LEMMA InitCareful == Init => CarefulInv
  BY ScriptFacts DEF Init, CarefulInv

\* Steps that free nothing, add no command, let none of them resume, and start no deletion
\* and no lua_close.
LEMMA CarefulFrame ==
  ASSUME TypeOK, CarefulInv, UNCHANGED <<command, freed>>,
         \A c \in Commands : Ended(c) => Ended(c)',
         lua'.at = "delete" => lua.at = "delete" /\ lua'.object = lua.object,
         phase' # "open" => phase # "open"
  PROVE  CarefulInv'
<1>1. ASSUME NEW m \in Memory, ~InUse(m) PROVE ~InUse(m)'
  BY <1>1, CommandFields DEF InUse
<1>2. \A i \in DOMAIN command' : ~Ended(command[i].event)' => \A m \in command'[i].uses : freed'[m] = 0
  BY CommandFields DEF CarefulInv
<1>3. lua'.at = "delete" /\ lua'.object \in Memory => ~InUse(lua.object)'
  BY <1>1 DEF CarefulInv
<1>4. QED
  BY <1>1, <1>2, <1>3 DEF CarefulInv

\* The same for steps that leave the status of the commands alone.
LEMMA CarefulStutter ==
  ASSUME TypeOK, CarefulInv, UNCHANGED <<command, freed, status>>,
         lua'.at = "delete" => lua.at = "delete" /\ lua'.object = lua.object,
         phase' # "open" => phase # "open"
  PROVE  CarefulInv'
  BY CarefulFrame DEF Ended

\* Nothing uses the memory that a destructor is about to free.
LEMMA DestroyedUnused ==
  ASSUME Inv, CarefulInv, NEW o \in Memory, Destroy(o)
  PROVE  ~InUse(o)
<1>1. /\ lua.at = "delete" /\ lua.queue = Nothing /\ o \in Valid /\ o \in NextToDelete(lua.object)
  BY DEF Destroy
<1>2. CASE o = lua.object
  BY <1>1, <1>2 DEF CarefulInv
<1>3. CASE o # lua.object
  <2>1. lua.object = Context /\ o # Context /\ o \notin Queues \cup Events
    BY <1>1, <1>3, CommandsAssumption DEF NextToDelete
  <2>2. Valid \cap Queues = {}
    BY <1>1, <2>1 DEF NextToDelete
  <2>3. \A i \in DOMAIN command : Ended(command[i].event)
    BY <1>1, <2>2, CommandFields, CommandsAssumption DEF Inv, DrainedInv, Objects
  <2>4. QED
    BY <2>3 DEF InUse
<1>4. QED
  BY <1>2, <1>3

LEMMA CarefulKeeps ==
  ~SvmFree /\ Careful /\ Inv /\ OnceInv /\ CarefulInv /\ [Next]_vars => CarefulInv'
<1> SUFFICES ASSUME ~SvmFree, Careful, Inv, OnceInv, CarefulInv, [Next]_vars
             PROVE  CarefulInv'
  OBVIOUS
<1>0. TypeOK
  BY DEF Inv
<1>1. ASSUME NEW o \in Objects, Create(o) PROVE CarefulInv'
  BY <1>0, <1>1, CreateKeeps, CarefulFrame DEF Create
<1>2. ASSUME NEW e \in UserEvents, NEW s \in {"complete", "failed"}, SetUserEventStatus(e, s)
      PROVE  CarefulInv'
  BY <1>0, <1>2, UserEventKeeps, CarefulFrame DEF SetUserEventStatus
<1>3. ASSUME NEW c \in Commands, NEW q \in Queues, NEW waits \in AtMostOne(Events), NEW ge \in BOOLEAN,
             NEW uses \in AtMostOne(Memory), NEW blocking \in BOOLEAN,
             Enqueue(c, q, waits, uses, blocking, ge)
      PROVE  CarefulInv'
  <2>1. Added(c, q, uses, {}) /\ uses \subseteq Memory
    BY <1>3, AtMostOneFacts, EnqueueKeeps
  <2>2. phase = "open" /\ uses \subseteq Valid /\ UNCHANGED <<freed, phase>> /\ lua'.at # "delete"
    <3>1. CASE blocking
      BY <1>3, <3>1 DEF Enqueue, Running, Script
    <3>2. CASE ~blocking
      BY <1>3, <3>2, ScriptFacts DEF Enqueue, Running
    <3>3. QED
      BY <3>1, <3>2
  <2>3. \A m \in uses : freed[m] = 0
    BY <2>1, <2>2 DEF OnceInv
  <2>4. \A i \in DOMAIN command' : ~Ended(command[i].event)' => \A m \in command'[i].uses : freed'[m] = 0
    BY <2>1, <2>2, <2>3 DEF CarefulInv, Added, Ended
  <2>5. QED
    BY <2>2, <2>4 DEF CarefulInv
<1>4. ASSUME NEW o \in Valid, StartDelete(o), lua = Script, o \in Memory => ~InUse(o)
      PROVE  CarefulInv'
  <2>1. lua' = [Script EXCEPT !.at = "delete", !.object = o]
        /\ UNCHANGED <<bound, created, command, status, freed, phase>>
    BY <1>4 DEF StartDelete
  <2>2. lua'.at = "delete" /\ lua'.object = o
    BY <2>1 DEF Script
  <2>3. QED
    BY <1>4, <2>1, <2>2 DEF CarefulInv, InUse, Ended
<1>5. ASSUME NEW o \in Objects, Destroy(o) PROVE CarefulInv'
  <2>1. lua'.at = "delete" /\ lua'.object = lua.object
    BY <1>5, DestroyKeeps
  <2>2. /\ UNCHANGED <<command, status, phase>> /\ lua.at = "delete"
        /\ freed' = IF o \in Memory THEN [freed EXCEPT ![o] = @ + 1] ELSE freed
    BY <1>5 DEF Destroy
  <2>3. CASE o \notin Memory
    BY <1>0, <2>1, <2>2, <2>3, CarefulStutter
  <2>4. CASE o \in Memory
    <3>1. ~InUse(o)
      BY <1>5, <2>4, DestroyedUnused
    <3>2. \A i \in DOMAIN command : ~Ended(command[i].event) => \A m \in command[i].uses : m # o /\ m \in Memory
      BY <1>0, <3>1, CommandFields DEF InUse
    <3>3. \A i \in DOMAIN command : ~Ended(command[i].event) => \A m \in command[i].uses : freed'[m] = 0
      BY <1>0, <2>2, <2>4, <3>2 DEF CarefulInv, TypeOK
    <3>4. QED
      BY <2>1, <2>2, <3>3 DEF CarefulInv, InUse, Ended
  <2>5. QED
    BY <2>3, <2>4
<1>6. CASE WaitEnds \/ QueueFinished \/ DeleteEnds \/ Closed \/ UNCHANGED vars
  <2>1. CASE QueueFinished
    <3>1. lua' = [lua EXCEPT !.queue = Nothing] /\ UNCHANGED <<command, freed, status, phase>>
      BY <2>1 DEF QueueFinished
    <3>2. lua'.at = lua.at /\ lua'.object = lua.object
      BY <1>0, <3>1 DEF TypeOK, LuaStates
    <3>3. QED
      BY <1>0, <3>1, <3>2, CarefulStutter
  <2>2. CASE WaitEnds \/ DeleteEnds
    BY <1>0, <2>2, ScriptFacts, CarefulStutter DEF WaitEnds, DeleteEnds
  <2>3. CASE Closed \/ UNCHANGED vars
    BY <1>0, <2>3, CarefulStutter DEF Closed, vars
  <2>4. QED
    BY <1>6, <2>1, <2>2, <2>3
<1>7. CASE Driver
  <2>1. PICK i \in DOMAIN command : Start(i) \/ End(i)
    BY <1>7 DEF Driver
  <2>2. Inv' /\ (\A e \in Events : Ended(e) => Ended(e)') /\ UNCHANGED <<command, lua, phase>>
    BY <2>1, DriverKeeps DEF Start, End, SetStatus
  <2>3. UNCHANGED freed
    <3>1. CASE End(i)
      <4>1. freed' = [m \in Memory |-> freed[m]]
        BY <3>1 DEF End, OnceInv
      <4>2. QED
        BY <1>0, <4>1 DEF TypeOK
    <3>2. QED
      BY <2>1, <3>1 DEF Start
  <2>4. QED
    BY <1>0, <2>2, <2>3, CarefulFrame DEF Events
<1>8. CASE Close
  <2>1. lua = Script /\ (\A m \in Memory : ~InUse(m))
        /\ UNCHANGED <<bound, created, command, status, freed, lua>>
    BY <1>8 DEF Close, Running, Quiet
  <2>2. QED
    BY <2>1, ScriptFacts DEF CarefulInv, InUse, Ended
<1>9. CASE Finalize
  <2>1. lua = Script /\ phase = "closing" /\ bound # <<>> /\ StartDelete(bound[Len(bound)])
    BY <1>9 DEF Finalize
  <2>2. bound[Len(bound)] \in Valid
    BY <1>0, <2>1 DEF TypeOK, Valid, Elements
  <2>3. QED
    BY <1>4, <2>1, <2>2 DEF CarefulInv
<1>10. CASE Calls
  <2>1. ASSUME NEW o \in Objects, Delete(o) PROVE CarefulInv'
    BY <1>4, <2>1 DEF Delete, Running, Quiet
  <2>2. ASSUME NEW events, Block(events) PROVE CarefulInv'
    <3>1. lua' = [Script EXCEPT !.at = "wait", !.waits = events]
          /\ UNCHANGED <<bound, created, command, status, freed, phase>>
      BY <2>2 DEF Block
    <3>2. lua'.at = "wait"
      BY <3>1 DEF Script
    <3>3. QED
      BY <1>0, <3>1, <3>2, CarefulStutter
  <2>3. ASSUME NEW c, NEW q, NEW waits, NEW svm, NEW ge, EnqueueSvmFree(c, q, waits, svm, ge)
        PROVE  FALSE
    BY <2>3 DEF EnqueueSvmFree
  <2>4. QED
    BY <1>1, <1>2, <1>3, <1>8, <1>10, <2>1, <2>2, <2>3 DEF Calls, WaitForEvents, Finish
<1>11. QED
  BY <1>5, <1>6, <1>7, <1>9, <1>10 DEF Next, Destructor

-----------------------------------------------------------------------------
(***************************************************************************)
(* Commands implements Lifetimes.                                          *)
(***************************************************************************)
\* The context was created before the script runs, and the events that were created are
\* those that have a status.
StatusInv ==
  /\ Context \in created
  /\ \A e \in Events : e \in created <=> status[e] # "none"

LEMMA InitStatus == Init => StatusInv
<1> SUFFICES ASSUME Init PROVE StatusInv
  OBVIOUS
<1>1. Context \notin Events
  BY CommandsAssumption
<1>2. QED
  BY <1>1 DEF Init, StatusInv

LEMMA StatusKeeps == Inv /\ StatusInv /\ [Next]_vars => StatusInv'
<1> SUFFICES ASSUME Inv, StatusInv, [Next]_vars PROVE StatusInv'
  OBVIOUS
<1>0. TypeOK /\ status \in [Events -> {"none", "queued", "running", "complete", "failed"}]
  BY DEF Inv, TypeOK
<1>1. ASSUME UNCHANGED <<created, status>> PROVE StatusInv'
  BY <1>1 DEF StatusInv
<1>2. ASSUME NEW e \in Events, e \in created', NEW s, s # "none",
             created' = created \cup {e}, status' = [status EXCEPT ![e] = s]
      PROVE  StatusInv'
  BY <1>0, <1>2 DEF StatusInv
<1>3. ASSUME NEW o \in Objects, Create(o) PROVE StatusInv'
  <2>1. CASE o \in UserEvents
    BY <1>2, <1>3, <2>1 DEF Create, Events
  <2>2. CASE o \notin UserEvents
    <3>1. o \notin Events /\ created' = created \cup {o} /\ status' = status
      BY <1>3, <2>2 DEF Create, Events
    <3>2. QED
      BY <3>1 DEF StatusInv
  <2>3. QED
    BY <2>1, <2>2
<1>4. ASSUME NEW e \in Events, e \in created, NEW s, s # "none",
             status' = [status EXCEPT ![e] = s], created' = created
      PROVE  StatusInv'
  BY <1>2, <1>4
<1>5. ASSUME NEW e \in UserEvents, NEW s \in {"complete", "failed"}, SetUserEventStatus(e, s)
      PROVE  StatusInv'
  <2>1. e \in Events /\ e \in created
    BY <1>0, <1>5 DEF SetUserEventStatus, TypeOK, Events
  <2>2. s # "none"
    OBVIOUS
  <2>3. QED
    BY <1>4, <1>5, <2>1, <2>2 DEF SetUserEventStatus
<1>6. ASSUME NEW c \in Commands, NEW q, NEW waits, NEW uses, NEW frees, Submit(c, q, waits, uses, frees)
      PROVE  StatusInv'
  BY <1>2, <1>6 DEF Submit, Events
<1>7. CASE Driver
  <2>1. PICK i \in DOMAIN command : Start(i) \/ End(i)
    BY <1>7 DEF Driver
  <2>2. PICK s \in {"running", "complete", "failed"} : SetStatus(i, s)
    BY <2>1 DEF Start, End
  <2>3. command[i].event \in Events /\ command[i].event \in created /\ s # "none"
    BY <1>0, CommandFields DEF Inv, CommandsInv, Events
  <2>4. QED
    BY <1>4, <2>2, <2>3 DEF SetStatus
<1>8. CASE Calls
  <2>1. ASSUME NEW c \in Commands, NEW q, NEW waits, NEW uses, NEW blocking, NEW ge,
               Enqueue(c, q, waits, uses, blocking, ge)
        PROVE  StatusInv'
    BY <1>6, <2>1 DEF Enqueue
  <2>2. ASSUME NEW c \in Commands, NEW q, NEW waits, NEW m, NEW ge, EnqueueSvmFree(c, q, waits, m, ge)
        PROVE  StatusInv'
    BY <1>1, <1>6, <2>2 DEF EnqueueSvmFree
  <2>3. ASSUME NEW o, Delete(o) PROVE StatusInv'
    BY <1>1, <2>3 DEF Delete, StartDelete
  <2>4. ASSUME NEW events, Block(events) PROVE StatusInv'
    BY <1>1, <2>4 DEF Block
  <2>5. CASE Close
    BY <1>1, <2>5 DEF Close
  <2>6. QED
    BY <1>3, <1>5, <1>8, <2>1, <2>2, <2>3, <2>4, <2>5 DEF Calls, WaitForEvents, Finish
<1>9. CASE WaitEnds \/ Destructor \/ Finalize \/ Closed \/ UNCHANGED vars
  BY <1>1, <1>9 DEF WaitEnds, Destructor, Destroy, QueueFinished, DeleteEnds, Finalize,
                    StartDelete, Closed, vars
<1>10. QED
  BY <1>7, <1>8, <1>9 DEF Next

LifeStep == [Life!Next]_Life!vars

\* A step of which Lifetimes sees nothing.
LEMMA LifeStutter ==
  ASSUME UNCHANGED <<created, command, status, freed>>, Open' = Open,
         (phase' = "closed") <=> (phase = "closed")
  PROVE  LifeStep
<1>1. Jobs' = Jobs
  BY DEF Jobs
<1>2. ((phase = "closed") = (phase = "closed"))' /\ (phase = "closed")' = (phase = "closed")
  OBVIOUS
<1>3. QED
  BY <1>1, <1>2 DEF LifeStep, Life!vars

\* Steps that leave the bindings, and the queue being finished, alone leave Open alone.
LEMMA OpenSame ==
  ASSUME UNCHANGED <<bound, created>>, lua'.queue = lua.queue
  PROVE  Open' = Open
  BY DEF Open, Valid

\* What holds of each command holds of each job.
LEMMA JobsAre ==
  /\ \A i \in DOMAIN command : \E j \in Jobs :
       /\ j.event = command[i].event /\ j.queue = command[i].queue
       /\ j.waits = command[i].waits /\ j.uses = command[i].uses
  /\ \A j \in Jobs : \E i \in DOMAIN command :
       /\ j.event = command[i].event /\ j.queue = command[i].queue
       /\ j.waits = command[i].waits /\ j.uses = command[i].uses
<1> DEFINE Job(r) == [event |-> r.event, queue |-> r.queue, waits |-> r.waits, uses |-> r.uses]
<1>1. Jobs = {Job(command[i]) : i \in DOMAIN command}
  BY DEF Jobs
<1>2. \A r : /\ Job(r).event = r.event /\ Job(r).queue = r.queue
            /\ Job(r).waits = r.waits /\ Job(r).uses = r.uses
  OBVIOUS
<1> HIDE DEF Job
<1>3. \A i \in DOMAIN command : Job(command[i]) \in Jobs
  BY <1>1
<1>4. \A j \in Jobs : \E i \in DOMAIN command : j = Job(command[i])
  BY <1>1
<1>5. QED
  BY <1>2, <1>3, <1>4

\* A command that the driver accepts is a new job.
LEMMA JobsAdded ==
  ASSUME TypeOK, NEW c \in Commands, NEW q \in Queues, NEW waits \in SUBSET Events,
         NEW uses \in SUBSET Memory, Submit(c, q, waits, uses, {})
  PROVE  Jobs' = Jobs \cup {[event |-> c, queue |-> q, waits |-> waits, uses |-> uses]}
<1> DEFINE new == [event |-> c, queue |-> q, waits |-> waits, uses |-> uses, frees |-> {}]
           Job(r) == [event |-> r.event, queue |-> r.queue, waits |-> r.waits, uses |-> r.uses]
<1>1. /\ command' = Append(command, new) /\ command \in Seq(Command) /\ new \in Command
  BY DEF Submit, TypeOK, Command
<1>2. Job(new) = [event |-> c, queue |-> q, waits |-> waits, uses |-> uses]
  OBVIOUS
<1> HIDE DEF new
<1>3. /\ DOMAIN command' = DOMAIN command \cup {Len(command) + 1}
      /\ \A i \in DOMAIN command : command'[i] = command[i]
      /\ command'[Len(command) + 1] = new
  BY <1>1
<1>4. Jobs = {Job(command[i]) : i \in DOMAIN command}
      /\ Jobs' = {Job(command'[i]) : i \in DOMAIN command'}
  BY DEF Jobs
<1> HIDE DEF Job
<1>5. {Job(command'[i]) : i \in DOMAIN command'} = {Job(command[i]) : i \in DOMAIN command} \cup {Job(new)}
  BY <1>3
<1>6. QED
  BY <1>2, <1>4, <1>5

LEMMA LifeInit == Init => Life!Init
<1> SUFFICES ASSUME Init PROVE Life!Init
  OBVIOUS
<1>1. created \cap (Queues \cup Memory) = {}
  BY CommandsAssumption DEF Init
<1>2. Open = {}
  BY CommandsAssumption DEF Init, Open
<1>3. Jobs = {}
  BY DEF Init, Jobs
<1>4. (phase = "closed") = FALSE
  BY DEF Init
<1>5. QED
  BY <1>1, <1>2, <1>3, <1>4 DEF Init, Life!Init, Life!Events, Events

\* The objects that the script creates.
LEMMA LifeCreate ==
  ASSUME Inv, StatusInv, NEW o \in Objects, Create(o)
  PROVE  LifeStep
<1> USE DEF Inv
<1>1. /\ o \notin created \cup Commands /\ created' = created \cup {o}
      /\ Valid' = Valid \cup {o} /\ UNCHANGED <<command, freed, lua, phase>>
      /\ phase = "open" /\ lua.queue = Nothing
  BY CreateKeeps, ScriptFacts DEF Create, Running
<1>2. /\ Jobs' = Jobs /\ (phase = "closed") = FALSE /\ (phase = "closed")' = (phase = "closed")
  BY <1>1 DEF Jobs
<1> DEFINE made == created \cap (Queues \cup Memory)
<1>3. CASE o \in Queues
  <2>1. made' = made \cup {o} /\ o \notin made
    BY <1>1, <1>3
  <2>2. Open' = Open \cup {o}
    BY <1>1, <1>3 DEF Open
  <2>3. status' = status
    BY <1>3, CommandsAssumption DEF Create, Events
  <2>4. Life!CreateQueue(o)
    BY <1>1, <1>2, <2>1, <2>2, <2>3 DEF Life!CreateQueue
  <2>5. QED
    BY <1>3, <2>4 DEF LifeStep, Life!Next
<1>4. CASE o \notin Queues
  <2>1. Open' = Open
    BY <1>1, <1>4, CommandsAssumption DEF Open
  <2>2. CASE o \in Memory
    <3>1. made' = made \cup {o} /\ o \notin made
      BY <1>1, <2>2
    <3>2. status' = status
      BY <2>2, CommandsAssumption DEF Create, Events
    <3>3. Life!Allocate(o)
      BY <1>1, <1>2, <2>1, <3>1, <3>2 DEF Life!Allocate
    <3>4. QED
      BY <2>2, <3>3 DEF LifeStep, Life!Next
  <2>3. CASE o \notin Memory
    <3>1. made' = made
      BY <1>1, <1>4, <2>3
    <3>2. o \in UserEvents
      BY <1>1, <1>4, <2>3 DEF Objects, Events, StatusInv
    <3>3. status' = [status EXCEPT ![o] = "queued"] /\ status[o] = "none"
      BY <1>1, <3>2 DEF Create, StatusInv, Events
    <3>4. Life!CreateUserEvent(o)
      BY <1>1, <1>2, <2>1, <3>1, <3>3 DEF Life!CreateUserEvent
    <3>5. QED
      BY <3>2, <3>4 DEF LifeStep, Life!Next
  <2>4. QED
    BY <2>2, <2>3
<1>5. QED
  BY <1>3, <1>4

LEMMA LifeUserEvent ==
  ASSUME NEW e \in UserEvents, NEW s \in {"complete", "failed"}, SetUserEventStatus(e, s)
  PROVE  LifeStep
<1>1. /\ UNCHANGED <<bound, created, command, freed, lua, phase>> /\ phase = "open"
      /\ status[e] = "queued" /\ status' = [status EXCEPT ![e] = s]
  BY DEF SetUserEventStatus, Running
<1>2. Open' = Open /\ Jobs' = Jobs /\ (phase = "closed") = FALSE
      /\ (phase = "closed")' = (phase = "closed")
  BY <1>1, OpenSame DEF Jobs
<1>3. Life!SetUserEventStatus(e)
  BY <1>1, <1>2 DEF Life!SetUserEventStatus
<1>4. QED
  BY <1>3 DEF LifeStep, Life!Next

\* enqueue_xxx finds its queue open and its memory there.
LEMMA LifeEnqueue ==
  ASSUME Inv, OnceInv, StatusInv, NEW c \in Commands, NEW q \in Queues,
         NEW waits \in SUBSET Events, NEW uses \in AtMostOne(Memory),
         NEW blocking \in BOOLEAN, NEW ge \in BOOLEAN,
         Enqueue(c, q, waits, uses, blocking, ge)
  PROVE  LifeStep
<1> USE DEF Inv
<1>1. uses \in SUBSET Memory
  BY AtMostOneFacts
<1>2. /\ q \in Valid /\ waits \subseteq Valid /\ uses \subseteq Valid /\ Valid \subseteq created
      /\ Submit(c, q, waits, uses, {}) /\ UNCHANGED <<freed, phase>>
      /\ phase = "open" /\ lua.queue = Nothing
  BY ScriptFacts DEF Enqueue, Running, TypeOK
<1>3. Valid' = Valid \/ Valid' = Valid \cup {c}
  <2>1. CASE UNCHANGED bound
    BY <2>1 DEF Valid
  <2>2. CASE Bind(c)
    <3>1. c \in Objects \ Valid
      BY <1>2 DEF Submit, Objects, Events
    <3>2. QED
      BY <2>2, <3>1, BindFacts DEF TypeOK
  <2>3. QED
    BY <2>1, <2>2 DEF Enqueue
<1>4. lua'.queue = Nothing
  <2>1. [Script EXCEPT !.at = "wait", !.waits = {c}, !.object = IF ge THEN c ELSE Nothing].queue = Nothing
    BY DEF Script
  <2>2. QED
    BY <1>2, <2>1 DEF Enqueue
<1>5. created' = created \cup {c} /\ c \notin created /\ c \notin Queues \cup Memory
  BY <1>2, CommandsAssumption DEF Submit, Events
<1>6. Open' = Open /\ q \in Open
  BY <1>2, <1>3, <1>4, <1>5, CommandsAssumption DEF Open, Objects
<1>7. (created \cap (Queues \cup Memory))' = created \cap (Queues \cup Memory)
  BY <1>5
<1>8. Jobs' = Jobs \cup {[event |-> c, queue |-> q, waits |-> waits, uses |-> uses]}
  BY <1>1, <1>2, JobsAdded
<1>9. status[c] = "none" /\ (\A e \in waits : status[e] # "none")
      /\ status' = [status EXCEPT ![c] = "queued"]
  BY <1>2, <1>5 DEF StatusInv, Submit, Events
<1>10. \A m \in uses : freed[m] = 0
  BY <1>1, <1>2 DEF OnceInv
<1>11. uses \subseteq created \cap (Queues \cup Memory)
  BY <1>1, <1>2
<1>12. (phase = "closed") = FALSE /\ (phase = "closed")' = (phase = "closed")
  BY <1>2
<1>13. Life!Enqueue(c, q, waits, uses)
  BY <1>2, <1>6, <1>7, <1>8, <1>9, <1>10, <1>11, <1>12 DEF Life!Enqueue
<1>14. waits \in SUBSET Life!Events
  BY DEF Life!Events, Events
<1>15. QED
  BY <1>1, <1>13, <1>14 DEF LifeStep, Life!Next

\* The driver's steps are steps of the job.
LEMMA LifeDriver ==
  ASSUME Inv, OnceInv, Driver
  PROVE  LifeStep
<1> USE DEF Inv
<1>1. PICK i \in DOMAIN command : Start(i) \/ End(i)
  BY DEF Driver
<1>2. PICK j \in Jobs : j.event = command[i].event /\ j.waits = command[i].waits
  BY JobsAre
<1>3. UNCHANGED <<bound, created, command, lua, phase>>
  BY <1>1 DEF Start, End, SetStatus
<1>4. UNCHANGED freed
  <2>1. CASE End(i)
    <3>1. freed' = [m \in Memory |-> freed[m]]
      BY <2>1 DEF End, OnceInv
    <3>2. QED
      BY <3>1 DEF TypeOK
  <2>2. QED
    BY <1>1, <2>1 DEF Start
<1>5. Open' = Open /\ Jobs' = Jobs /\ (phase = "closed")' = (phase = "closed")
  BY <1>3, OpenSame DEF Jobs
<1>6. \A e : Ended(e) <=> Life!Ended(e)
  BY DEF Ended, Life!Ended
<1>7. CASE Start(i)
  <2>1. /\ status[j.event] = "queued" /\ \A e \in j.waits : Life!Ended(e)
        /\ status' = [status EXCEPT ![j.event] =
                        IF \E e \in j.waits : status[e] = "failed" THEN "failed" ELSE "running"]
    BY <1>2, <1>6, <1>7 DEF Start, Ready, SetStatus
  <2>2. Life!Start(j)
    BY <1>3, <1>4, <1>5, <2>1 DEF Life!Start
  <2>3. QED
    BY <2>2 DEF LifeStep, Life!Next
<1>8. CASE End(i)
  <2>1. /\ status[j.event] = "running"
        /\ \E s \in {"complete", "failed"} : status' = [status EXCEPT ![j.event] = s]
    BY <1>2, <1>8 DEF End, SetStatus
  <2>2. Life!End(j)
    BY <1>3, <1>4, <1>5, <2>1 DEF Life!End
  <2>3. QED
    BY <2>2 DEF LifeStep, Life!Next
<1>9. QED
  BY <1>1, <1>7, <1>8

\* A destructor frees a memory that no command uses; that of a queue leaves it open until
\* cl.Finish returns.
LEMMA LifeDestroy ==
  ASSUME Inv, OnceInv, CarefulInv, NEW o \in Objects, Destroy(o)
  PROVE  LifeStep
<1> USE DEF Inv
<1>1. /\ o \in Valid /\ Valid' = Valid \ {o} /\ Valid \subseteq created /\ lua.queue = Nothing
      /\ UNCHANGED <<created, command, status, phase>>
      /\ freed' = IF o \in Memory THEN [freed EXCEPT ![o] = @ + 1] ELSE freed
      /\ lua' = IF o \in Queues THEN [lua EXCEPT !.queue = o] ELSE lua
  BY DestroyKeeps DEF Destroy, TypeOK
<1>2. Open' = Open
  <2>1. CASE o \in Queues
    <3>1. lua'.queue = o
      BY <1>1, <2>1 DEF TypeOK, LuaStates
    <3>2. QED
      BY <1>1, <2>1, <3>1, CommandsAssumption DEF Open, Objects
  <2>2. CASE o \notin Queues
    BY <1>1, <2>2 DEF Open
  <2>3. QED
    BY <2>1, <2>2
<1>3. CASE o \notin Memory
  BY <1>1, <1>2, <1>3, LifeStutter
<1>4. CASE o \in Memory
  <2>1. ~InUse(o)
    BY <1>4, DestroyedUnused
  <2>2. \A j \in Jobs : o \in j.uses => Life!Ended(j.event)
    BY <2>1, JobsAre DEF InUse, Ended, Life!Ended
  <2>3. freed[o] = 0 /\ freed' = [freed EXCEPT ![o] = 1]
    <3>1. o \in created /\ freed[o] = 0
      BY <1>1, <1>4 DEF OnceInv
    <3>2. freed' = [freed EXCEPT ![o] = freed[o] + 1] /\ freed[o] + 1 = 1
      BY <1>1, <1>4, <3>1
    <3>3. QED
      BY <3>1, <3>2
  <2>4. Jobs' = Jobs /\ (phase = "closed")' = (phase = "closed")
    BY <1>1 DEF Jobs
  <2>5. o \in created \cap (Queues \cup Memory)
    BY <1>1, <1>4
  <2>6. Life!Free(o)
    BY <1>1, <1>2, <2>2, <2>3, <2>4, <2>5 DEF Life!Free
  <2>7. QED
    BY <1>4, <2>6 DEF LifeStep, Life!Next
<1>5. QED
  BY <1>3, <1>4

\* When cl.Finish returns to freequeue, the commands of the queue have ended.
LEMMA LifeQueueFinished ==
  ASSUME Inv, QueueFinished
  PROVE  LifeStep
<1> USE DEF Inv
<1>1. PICK q : q = lua.queue
  OBVIOUS
<1>2. /\ q # Nothing /\ q \in Queues /\ Unfinished(q) = {} /\ lua'.queue = Nothing
      /\ UNCHANGED <<bound, created, command, status, freed, phase>>
  BY <1>1 DEF QueueFinished, TypeOK, LuaStates
<1>3. Valid' = Valid
  BY <1>2 DEF Valid
<1>4. CASE q \in Open /\ q \notin Valid
  <2>1. Open' = Open \ {q}
    BY <1>1, <1>2, <1>3, <1>4, CommandsAssumption DEF Open, Objects
  <2>2. \A j \in Jobs : j.queue = q => Life!Ended(j.event)
    <3>1. SUFFICES ASSUME NEW j \in Jobs, j.queue = q PROVE Life!Ended(j.event)
      OBVIOUS
    <3>2. PICK i \in DOMAIN command : j.event = command[i].event /\ j.queue = command[i].queue
      BY JobsAre
    <3>3. Ended(command[i].event)
      BY <1>2, <3>1, <3>2, UnfinishedNone
    <3>4. QED
      BY <3>2, <3>3 DEF Ended, Life!Ended
  <2>3. Jobs' = Jobs /\ (phase = "closed")' = (phase = "closed")
    BY <1>2 DEF Jobs
  <2>4. Life!CloseQueue(q)
    BY <1>2, <1>4, <2>1, <2>2, <2>3 DEF Life!CloseQueue
  <2>5. QED
    BY <1>2, <2>4 DEF LifeStep, Life!Next
<1>5. CASE ~(q \in Open /\ q \notin Valid)
  <2>1. Open' = Open
    BY <1>1, <1>2, <1>3, <1>5, CommandsAssumption DEF Open, Objects
  <2>2. QED
    BY <1>2, <2>1, LifeStutter
<1>6. QED
  BY <1>4, <1>5

\* lua_close has left neither a queue nor memory.
LEMMA LifeClosed ==
  ASSUME Inv, OnceInv, Closed
  PROVE  LifeStep
<1> USE DEF Inv
<1>1. /\ phase = "closing" /\ phase' = "closed" /\ lua.queue = Nothing /\ bound = <<>>
      /\ UNCHANGED <<bound, created, command, status, freed, lua>>
  BY ScriptFacts DEF Closed
<1>2. Valid = {}
  BY <1>1 DEF Valid, Elements
<1>3. Open = {} /\ Open' = Open
  BY <1>1, <1>2, OpenSame, CommandsAssumption DEF Open, Objects
<1>4. \A m \in created \cap Memory : freed[m] = 1
  BY <1>2 DEF KeptOrFreed, OnceInv, FreedOnce, TypeOK
<1>5. (phase = "closed") = FALSE /\ (phase = "closed")' = TRUE /\ Jobs' = Jobs
  BY <1>1 DEF Jobs
<1>6. Life!Finish
  BY <1>1, <1>3, <1>4, <1>5 DEF Life!Finish
<1>7. QED
  BY <1>6 DEF LifeStep, Life!Next

\* Each step is a step of Lifetimes, or one that Lifetimes does not see.
LEMMA LifeSteps ==
  ~SvmFree /\ Inv /\ OnceInv /\ CarefulInv /\ StatusInv /\ [Next]_vars => LifeStep
<1> SUFFICES ASSUME ~SvmFree, Inv, OnceInv, CarefulInv, StatusInv, [Next]_vars PROVE LifeStep
  OBVIOUS
<1> USE DEF Inv
<1>1. ASSUME UNCHANGED <<bound, created, command, status, freed>>, lua'.queue = lua.queue,
             (phase' = "closed") <=> (phase = "closed")
      PROVE  LifeStep
  BY <1>1, OpenSame, LifeStutter
<1>2. ASSUME NEW o, StartDelete(o), lua = Script PROVE LifeStep
  <2>1. lua'.queue = lua.queue
    BY <1>2 DEF StartDelete, Script
  <2>2. QED
    BY <1>1, <1>2, <2>1 DEF StartDelete
<1>3. CASE Calls
  <2>1. ASSUME NEW o, Delete(o) PROVE LifeStep
    BY <1>2, <2>1 DEF Delete, Running
  <2>2. ASSUME NEW events, Block(events) PROVE LifeStep
    <3>1. lua'.queue = lua.queue
      BY <2>2 DEF Block, Running, Script
    <3>2. QED
      BY <1>1, <2>2, <3>1 DEF Block
  <2>3. CASE Close
    BY <1>1, <2>3 DEF Close, Running
  <2>4. ASSUME NEW c, NEW q, NEW waits, NEW m, NEW ge, EnqueueSvmFree(c, q, waits, m, ge)
        PROVE  FALSE
    BY <2>4 DEF EnqueueSvmFree
  <2>5. ASSUME NEW c \in Commands, NEW q \in Queues, NEW waits \in AtMostOne(Events),
               NEW uses \in AtMostOne(Memory), NEW blocking \in BOOLEAN, NEW ge \in BOOLEAN,
               Enqueue(c, q, waits, uses, blocking, ge)
        PROVE  LifeStep
    BY <2>5, AtMostOneFacts, LifeEnqueue
  <2>6. QED
    BY <1>3, <2>1, <2>2, <2>3, <2>4, <2>5, LifeCreate, LifeUserEvent
       DEF Calls, WaitForEvents, Finish
<1>4. CASE WaitEnds
  <2>1. /\ UNCHANGED <<created, command, status, freed, phase>>
        /\ lua.queue = Nothing /\ lua'.queue = Nothing
    BY <1>4, ScriptFacts DEF WaitEnds, LuaInv
  <2>2. Valid' \subseteq Valid \cup Commands /\ Valid \subseteq Valid'
    <3>1. CASE UNCHANGED bound
      BY <3>1 DEF Valid
    <3>2. CASE Bind(lua.object) /\ lua.object # Nothing
      <4>1. lua.object \in Commands /\ lua.object \in Objects \ Valid
        BY <1>4, <3>2 DEF WaitEnds, LuaInv, Objects, Events
      <4>2. QED
        BY <3>2, <4>1, BindFacts DEF TypeOK
    <3>3. QED
      BY <1>4, <3>1, <3>2 DEF WaitEnds
  <2>3. Open' = Open
    BY <2>1, <2>2, CommandsAssumption DEF Open, Events
  <2>4. QED
    BY <2>1, <2>3, LifeStutter
<1>5. CASE Destructor
  <2>1. CASE DeleteEnds
    <3>1. lua.queue = Nothing /\ lua'.queue = Nothing
      BY <2>1, ScriptFacts DEF DeleteEnds
    <3>2. QED
      BY <1>1, <2>1, <3>1 DEF DeleteEnds
  <2>2. QED
    BY <1>5, <2>1, LifeDestroy, LifeQueueFinished DEF Destructor
<1>6. CASE Finalize
  BY <1>2, <1>6 DEF Finalize
<1>7. CASE UNCHANGED vars
  BY <1>1, <1>7 DEF vars
<1>8. QED
  BY <1>3, <1>4, <1>5, <1>6, <1>7, LifeClosed, LifeDriver DEF Next

-----------------------------------------------------------------------------
(***************************************************************************)
(* The theorems.                                                           *)
(***************************************************************************)
\* The state of the model is well typed, in particular only created objects have
\* bindings: the event of a blocking call, bound when the call returns, included.
THEOREM TypeCorrect == Spec => []TypeOK
<1>1. Inv => TypeOK
  BY DEF Inv
<1>2. QED
  BY <1>1, Invariance, PTL

\* A queue that freequeue has released has no unfinished commands, whoever deleted it and
\* whatever the script does.
THEOREM QueuesAreDrained == Spec => []QueueDrained
<1>1. Inv => QueueDrained
  <2>1. SUFFICES ASSUME Inv, NEW q \in created \cap Queues, q \notin Valid, lua.queue # q
                 PROVE  Unfinished(q) = {}
    BY DEF QueueDrained
  <2>2. QED
    BY <2>1, UnfinishedNone DEF Inv, DrainedInv
<1>2. QED
  BY <1>1, Invariance, PTL

\* Once lua_close has returned no memory is allocated, whatever the script has done:
\* enqueue_svm_free that fails after it has destroyed the bindings included.
THEOREM CloseFreesAll == Spec => []ClosedFreesAll
<1>1. Inv => ClosedFreesAll
  BY DEF Inv, ClosedFreesAll, ClosedInv, KeptOrFreed, Valid, Elements
<1>2. QED
  BY <1>1, Invariance, PTL

\* Memory is freed once at most, by any mix of deletions, if the script does not call
\* enqueue_svm_free, with which the property is false.
THEOREM MemoryFreedOnce ==
  ASSUME ~SvmFree
  PROVE  Spec => []FreedOnce
<1>1. Inv /\ [Next]_vars => Inv'
  BY NextKeeps
<1>2. Inv /\ OnceInv /\ [Next]_vars => OnceInv'
  BY OnceKeeps
<1>3. OnceInv => FreedOnce
  BY DEF OnceInv
<1>4. QED
  BY <1>1, <1>2, <1>3, InitInv, InitOnce, PTL DEF Spec

\* No command runs on memory that was freed, if moreover the script waits for the commands
\* that use a memory before it frees it, or ends.  It need not wait when it deletes the
\* context of the memory: the context waits for its queues.
THEOREM MemoryOutlives ==
  ASSUME ~SvmFree, Careful
  PROVE  Spec => []MemoryOutlivesCommands
<1>1. Inv /\ [Next]_vars => Inv'
  BY NextKeeps
<1>2. Inv /\ OnceInv /\ [Next]_vars => OnceInv'
  BY OnceKeeps
<1>3. Inv /\ OnceInv /\ CarefulInv /\ [Next]_vars => CarefulInv'
  BY CarefulKeeps
<1>4. CarefulInv => MemoryOutlivesCommands
  BY DEF CarefulInv, MemoryOutlivesCommands, Ended
<1>5. QED
  BY <1>1, <1>2, <1>3, <1>4, InitInv, InitOnce, InitCareful, PTL DEF Spec

\* To the script its calls, the destructors, lua_close and the driver that runs the
\* commands in between look like Lifetimes: if it does not call enqueue_svm_free, and waits
\* for the commands that use a memory before it frees the memory or ends.
THEOREM ImplementsLifetimes ==
  ASSUME ~SvmFree, Careful
  PROVE  Spec => LifetimesKept
<1>1. Inv /\ [Next]_vars => Inv'
  BY NextKeeps
<1>2. Inv /\ OnceInv /\ [Next]_vars => OnceInv'
  BY OnceKeeps
<1>3. Inv /\ OnceInv /\ CarefulInv /\ [Next]_vars => CarefulInv'
  BY CarefulKeeps
<1>4. Inv /\ StatusInv /\ [Next]_vars => StatusInv'
  BY StatusKeeps
<1>5. Inv /\ OnceInv /\ CarefulInv /\ StatusInv /\ [Next]_vars => [Life!Next]_Life!vars
  BY LifeSteps DEF LifeStep
<1>6. QED
  BY <1>1, <1>2, <1>3, <1>4, <1>5, LifeInit, InitInv, InitOnce, InitCareful, InitStatus, PTL
     DEF Spec, LifetimesKept, Life!Spec
=============================================================================
