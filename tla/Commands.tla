-------------------------------- MODULE Commands --------------------------------
(***************************************************************************)
(* The life of commands: enqueue_xxx hands them to the driver, which runs  *)
(* them behind the script's back, while the script waits for them, deletes *)
(* the objects they use, or ends.  One context; its queues, events (user   *)
(* events and events of commands) and svm's; and host memory, which has no *)
(* parent.                                                                 *)
(*                                                                         *)
(* The Lua thread blocks in finish, in wait_for_events, in a blocking      *)
(* enqueue_xxx and in the destructor of a queue.  The driver starts a      *)
(* command when its wait list allows it, whether the queue was flushed or  *)
(* not.                                                                    *)
(*                                                                         *)
(* A definition called after another one and a slip is a mutant of it.     *)
(***************************************************************************)
EXTENDS Integers, Sequences

CONSTANTS
  Context,     (* the context                                                  *)
  Queues,      (* command queues the script may create                         *)
  InOrder,     (* those without the out of order execution property            *)
  UserEvents,  (* user events the script may create                            *)
  Commands,    (* commands it may enqueue, and their events                    *)
  Svms,        (* svm's it may allocate                                        *)
  Hostmems,    (* hostmem's it may allocate                                    *)
  Nothing,     (* no object                                                    *)
  SvmFree,     (* does the script call enqueue_svm_free?                       *)
  Careful      (* does it wait for the commands that use a memory before it    *)
               (* frees the memory or ends?                                    *)

Memory  == Svms \cup Hostmems
Events  == UserEvents \cup Commands
Objects == {Context} \cup Queues \cup Events \cup Memory

ASSUME CommandsAssumption ==
  /\ InOrder \subseteq Queues
  /\ SvmFree \in BOOLEAN /\ Careful \in BOOLEAN
  /\ Nothing \notin Objects
  /\ Context \notin Queues \cup Events \cup Memory
  /\ Queues \cap (Events \cup Memory) = {} /\ Events \cap Memory = {}
  /\ UserEvents \cap Commands = {} /\ Svms \cap Hostmems = {}

VARIABLES
  bound,    (* objects with a valid binding, in the order of their creation     *)
  created,  (* objects the script has created so far                            *)
  command,  (* driver: the commands                                             *)
  status,   (* driver: the status of each event                                 *)
  freed,    (* how many times each memory was freed                             *)
  lua,      (* what the Lua thread is doing                                     *)
  phase     (* the Lua state: open, closing (lua_close), closed                 *)

vars == <<bound, created, command, status, freed, lua, phase>>

\* The commands enqueued so far, in order, with the events they wait for, the memory
\* they read or write, and the memory they free.
Command == [event : Commands, queue : Queues, waits : SUBSET Events,
            uses : SUBSET Memory, frees : SUBSET Svms]

\* The Lua thread runs the script; or is blocked until the events waits have ended, and
\* then binds the event object; or runs the destructor of object, in which it may be
\* blocked in cl.Finish(queue).
Script == [at |-> "script", waits |-> {}, object |-> Nothing, queue |-> Nothing]
LuaStates == [at : {"script", "wait", "delete"}, waits : SUBSET Events,
              object : Objects \cup {Nothing}, queue : Queues \cup {Nothing}]

Elements(s) == {s[i] : i \in DOMAIN s}
Valid == Elements(bound)

TypeOK ==
  /\ bound \in Seq(Objects)
  /\ created \subseteq Objects /\ Valid \subseteq created
  /\ command \in Seq(Command)
  /\ status \in [Events -> {"none", "queued", "running", "complete", "failed"}]
  /\ freed \in [Memory -> Nat]
  /\ lua \in LuaStates
  /\ phase \in {"open", "closing", "closed"}

Init ==
  /\ bound = <<Context>> /\ created = {Context}
  /\ command = <<>>
  /\ status = [e \in Events |-> "none"]
  /\ freed = [m \in Memory |-> 0]
  /\ lua = Script
  /\ phase = "open"

Ended(e) == status[e] \in {"complete", "failed"}

\* Commands of queue q that have not ended, and those that use memory m.
Unfinished(q) == {command[i].event : i \in {j \in DOMAIN command : command[j].queue = q}}
                   \cap {c \in Commands : ~Ended(c)}
InUse(m) == \E i \in DOMAIN command : m \in command[i].uses /\ ~Ended(command[i].event)

-----------------------------------------------------------------------------
(***************************************************************************)
(* The script.                                                             *)
(***************************************************************************)
\* The script makes a call.
Running == phase = "open" /\ lua = Script

\* newuserdata, by create_command_queue, create_user_event, svm_alloc, malloc, ...
Bind(o) == bound' = Append(bound, o)

Create(o) ==
  /\ Running
  /\ o \notin created \cup Commands
  /\ o \notin Hostmems => Context \in Valid
  /\ Bind(o)
  /\ created' = created \cup {o}
  /\ status' = IF o \in UserEvents THEN [status EXCEPT ![o] = "queued"] ELSE status
  /\ UNCHANGED <<command, freed, lua, phase>>

SetUserEventStatus(e, s) ==
  /\ Running /\ e \in Valid /\ status[e] = "queued"
  /\ status' = [status EXCEPT ![e] = s]
  /\ UNCHANGED <<bound, created, command, freed, lua, phase>>

\* The driver accepts command c for queue q.
Submit(c, q, waits, uses, frees) ==
  /\ c \notin created
  /\ created' = created \cup {c}
  /\ command' = Append(command, [event |-> c, queue |-> q, waits |-> waits,
                                 uses |-> uses, frees |-> frees])
  /\ status' = [status EXCEPT ![c] = "queued"]

\* enqueue_read_buffer, enqueue_svm_memcpy, ...: a command that reads or writes memory
\* through pointers.  With ge its event gets a binding, which a blocking call creates
\* when the command has ended.
Enqueue(c, q, waits, uses, blocking, ge) ==
  /\ Running /\ q \in Valid /\ waits \subseteq Valid /\ uses \subseteq Valid
  /\ Submit(c, q, waits, uses, {})
  /\ IF blocking
     THEN /\ lua' = [Script EXCEPT !.at = "wait", !.waits = {c},
                                   !.object = IF ge THEN c ELSE Nothing]
          /\ UNCHANGED bound
     ELSE /\ IF ge THEN Bind(c) ELSE UNCHANGED bound
          /\ UNCHANGED lua
  /\ UNCHANGED <<freed, phase>>

\* freeuserdata: the binding of o is gone.
Without(o) ==
  LET i == CHOOSE j \in DOMAIN bound : bound[j] = o
  IN  [j \in 1..Len(bound) - 1 |-> bound[IF j < i THEN j ELSE j + 1]]

EnqueueSvmFreeLater(c, q, waits, svm, ge) ==
  /\ Running /\ SvmFree /\ q \in Valid /\ waits \subseteq Valid /\ svm \in Valid
  /\ \/ /\ Submit(c, q, waits, {}, {svm})
        /\ bound' = Without(svm) \o IF ge THEN <<c>> ELSE <<>>
     \/ /\ bound' = Without(svm)
        /\ UNCHANGED <<created, command, status>>
  /\ UNCHANGED <<freed, lua, phase>>

\* enqueue_svm_free of one svm: its destructor, which frees it at once (whatever the mark
\* SvmDontFree says), then the check of the wait list, then the command.
EnqueueSvmFree(c, q, waits, svm, ge) ==
  /\ Running /\ SvmFree /\ q \in Valid /\ waits \subseteq Valid /\ svm \in Valid
  /\ freed' = [freed EXCEPT ![svm] = @ + 1]
  /\ \/ /\ Submit(c, q, waits, {}, {svm})
        /\ bound' = Without(svm) \o IF ge THEN <<c>> ELSE <<>>
     \/ /\ bound' = Without(svm)
        /\ UNCHANGED <<created, command, status>>
  /\ UNCHANGED <<lua, phase>>

\* wait_for_events and finish
Block(events) ==
  /\ Running
  /\ lua' = [Script EXCEPT !.at = "wait", !.waits = events]
  /\ UNCHANGED <<bound, created, command, status, freed, phase>>
WaitForEvents(events) == events \subseteq Valid /\ Block(events)
Finish(q) == q \in Valid /\ Block(Unfinished(q))

WaitEndsBinding ==
  /\ lua.at = "wait" /\ \A e \in lua.waits : Ended(e)
  /\ Bind(lua.object)
  /\ lua' = Script
  /\ UNCHANGED <<created, command, status, freed, phase>>

\* The call that the Lua thread is blocked in returns; it raises an error, and creates
\* no binding, if the command of a blocking call failed.
WaitEnds ==
  /\ lua.at = "wait" /\ \A e \in lua.waits : Ended(e)
  /\ IF lua.object # Nothing /\ status[lua.object] = "complete"
     THEN Bind(lua.object) ELSE UNCHANGED bound
  /\ lua' = Script
  /\ UNCHANGED <<created, command, status, freed, phase>>

-----------------------------------------------------------------------------
(***************************************************************************)
(* Deletion, explicit or by lua_close.                                     *)
(***************************************************************************)
Quiet(m) == Careful => ~InUse(m)

StartDelete(o) ==
  /\ lua' = [Script EXCEPT !.at = "delete", !.object = o]
  /\ UNCHANGED <<bound, created, command, status, freed, phase>>

Delete(o) == Running /\ o \in Valid /\ (o \in Memory => Quiet(o)) /\ StartDelete(o)

NextToDeleteSvmsFirst(o) ==
  IF o # Context THEN {o}
  ELSE {x \in Valid \ Hostmems :
          /\ x \notin Svms => Valid \cap Svms = {}
          /\ x \notin Svms \cup Queues => Valid \cap Queues = {}
          /\ x = Context => Valid \cap Events = {}}

\* The destructor of o comes next to one of these: those of the children of a context
\* first, its queues before its events before its svm's.
NextToDelete(o) ==
  IF o # Context THEN {o}
  ELSE {x \in Valid \ Hostmems :
          /\ x \notin Queues => Valid \cap Queues = {}
          /\ x \notin Queues \cup Events => Valid \cap Events = {}
          /\ x = Context => Valid \cap Svms = {}}

DestroyNotFinishing(o) ==
  /\ lua.at = "delete" /\ lua.queue = Nothing
  /\ o \in Valid \cap NextToDelete(lua.object)
  /\ bound' = Without(o)
  /\ freed' = IF o \in Memory THEN [freed EXCEPT ![o] = @ + 1] ELSE freed
  /\ UNCHANGED <<lua, created, command, status, phase>>
DestroyLeavingEventsValid(o) ==
  /\ lua.at = "delete" /\ lua.queue = Nothing
  /\ o \in Valid \cap NextToDelete(lua.object)
  /\ bound' = IF o \in Events THEN bound ELSE Without(o)
  /\ freed' = IF o \in Memory THEN [freed EXCEPT ![o] = @ + 1] ELSE freed
  /\ lua' = IF o \in Queues THEN [lua EXCEPT !.queue = o] ELSE lua
  /\ UNCHANGED <<created, command, status, phase>>
DestroyLeavingMemoryValid(o) ==
  /\ lua.at = "delete" /\ lua.queue = Nothing
  /\ o \in Valid \cap NextToDelete(lua.object)
  /\ bound' = IF o \in Memory THEN bound ELSE Without(o)
  /\ freed' = IF o \in Memory THEN [freed EXCEPT ![o] = @ + 1] ELSE freed
  /\ lua' = IF o \in Memory THEN Script
            ELSE IF o \in Queues THEN [lua EXCEPT !.queue = o] ELSE lua
  /\ UNCHANGED <<created, command, status, phase>>

\* freequeue, freeevent, freesvm, freehostmem, freecontext free the binding and release
\* the object; freequeue calls cl.Finish in between.
Destroy(o) ==
  /\ lua.at = "delete" /\ lua.queue = Nothing
  /\ o \in Valid \cap NextToDelete(lua.object)
  /\ bound' = Without(o)
  /\ freed' = IF o \in Memory THEN [freed EXCEPT ![o] = @ + 1] ELSE freed
  /\ lua' = IF o \in Queues THEN [lua EXCEPT !.queue = o] ELSE lua
  /\ UNCHANGED <<created, command, status, phase>>

QueueFlushed ==
  /\ lua.queue # Nothing
  /\ lua' = [lua EXCEPT !.queue = Nothing]
  /\ UNCHANGED <<bound, created, command, status, freed, phase>>

\* cl.Finish returns to freequeue.
QueueFinished ==
  /\ lua.queue # Nothing /\ Unfinished(lua.queue) = {}
  /\ lua' = [lua EXCEPT !.queue = Nothing]
  /\ UNCHANGED <<bound, created, command, status, freed, phase>>

DeleteEnds ==
  /\ lua.at = "delete" /\ lua.queue = Nothing /\ lua.object \notin Valid
  /\ lua' = Script
  /\ UNCHANGED <<bound, created, command, status, freed, phase>>

\* The script ends or fails; lua_close calls the finalizers, in the reverse order of
\* the creation of the userdata.
Close ==
  /\ Running /\ \A m \in Memory : Quiet(m)
  /\ phase' = "closing"
  /\ UNCHANGED <<bound, created, command, status, freed, lua>>

Finalize ==
  /\ phase = "closing" /\ lua = Script /\ bound # <<>>
  /\ StartDelete(bound[Len(bound)])

Closed ==
  /\ phase = "closing" /\ lua = Script /\ bound = <<>>
  /\ phase' = "closed"
  /\ UNCHANGED <<bound, created, command, status, freed, lua>>

-----------------------------------------------------------------------------
(***************************************************************************)
(* The driver runs the commands.  One that waits for an event that failed  *)
(* fails too.                                                              *)
(***************************************************************************)
Ready(i) ==
  /\ status[command[i].event] = "queued"
  /\ \A e \in command[i].waits : Ended(e)
  /\ command[i].queue \in InOrder =>
       \A j \in 1..i - 1 : command[j].queue = command[i].queue => Ended(command[j].event)

SetStatus(i, s) ==
  /\ status' = [status EXCEPT ![command[i].event] = s]
  /\ UNCHANGED <<bound, created, command, lua, phase>>

Start(i) ==
  /\ Ready(i)
  /\ SetStatus(i, IF \E e \in command[i].waits : status[e] = "failed" THEN "failed" ELSE "running")
  /\ UNCHANGED freed

End(i) ==
  /\ status[command[i].event] = "running"
  /\ \E s \in {"complete", "failed"} : SetStatus(i, s)
  /\ freed' = [m \in Memory |-> IF m \in command[i].frees THEN freed[m] + 1 ELSE freed[m]]

-----------------------------------------------------------------------------
\* The script passes at most one event or memory in a list, which is enough for any
\* order between two commands.
AtMostOne(S) == {{}} \cup {{x} : x \in S}

Calls ==
  \/ \E o \in Objects : Create(o) \/ Delete(o)
  \/ \E e \in UserEvents, s \in {"complete", "failed"} : SetUserEventStatus(e, s)
  \/ \E c \in Commands, q \in Queues, waits \in AtMostOne(Events), ge \in BOOLEAN :
       \/ \E uses \in AtMostOne(Memory), blocking \in BOOLEAN : Enqueue(c, q, waits, uses, blocking, ge)
       \/ \E m \in Svms : EnqueueSvmFree(c, q, waits, m, ge)
  \/ \E e \in Events : WaitForEvents({e})
  \/ \E q \in Queues : Finish(q)
  \/ Close

Destructor == (\E o \in Objects : Destroy(o)) \/ QueueFinished \/ DeleteEnds

Driver == \E i \in DOMAIN command : Start(i) \/ End(i)

Next == Calls \/ WaitEnds \/ Destructor \/ Finalize \/ Closed \/ Driver

Spec == Init /\ [][Next]_vars

\* The C functions return when they can, lua_close goes on, and the driver runs the
\* commands that are ready.
LiveSpec ==
  /\ Spec
  /\ WF_vars(WaitEnds) /\ WF_vars(Destructor) /\ WF_vars(Finalize \/ Closed)
  /\ WF_vars(Driver)

-----------------------------------------------------------------------------
(***************************************************************************)
(* Properties.                                                             *)
(***************************************************************************)
\* freequeue waits for the commands of a queue before it releases it, so no command
\* outlives its queue, whoever deletes it and whatever the commands wait for.
QueueDrained ==
  \A q \in created \cap Queues : q \notin Valid /\ lua.queue # q => Unfinished(q) = {}

\* No command runs on memory that was freed: a context destroys its queues, and so
\* waits for their commands, before its svm's.
MemoryOutlivesCommands ==
  \A i \in DOMAIN command :
    status[command[i].event] = "running" => \A m \in command[i].uses : freed[m] = 0

\* An svm and the memory of a hostmem are freed once at most, by whatever mix of
\* delete, context deletion, lua_close and commands.
FreedOnce == \A m \in Memory : freed[m] <= 1

\* lua_close has left no memory allocated, enqueue_svm_free that finds a wrong wait list,
\* after the bindings of the svm's are gone, included.
ClosedFreesAll ==
  phase = "closed" => \A m \in created \cap Memory : freed[m] > 0

\* A queue takes commands until its destructor returns from cl.Finish.
Open == {q \in created \cap Queues : q \in Valid \/ lua.queue = q}
Jobs == {[event |-> command[i].event, queue |-> command[i].queue,
          waits |-> command[i].waits, uses |-> command[i].uses] : i \in DOMAIN command}
Life == INSTANCE Lifetimes WITH made <- created \cap (Queues \cup Memory), open <- Open,
                                jobs <- Jobs, over <- (phase = "closed")

\* Whatever the script deletes or leaves to lua_close, and whenever the driver runs the
\* commands: they are accepted by queues that are open, for memory that is there; a queue
\* is not released, nor memory freed, before its commands have ended; memory is freed
\* once; and when lua_close returns no queue and no memory is left.
LifetimesKept == Life!Spec

\* Every deletion ends; it may wait for commands, but they do not wait for the script.
DeletionEnds == lua.at = "delete" ~> lua.at # "delete"

\* The script ends: lua_close is not blocked forever, and all memory is freed.
CloseEnds == phase = "closing" ~> phase = "closed" /\ ClosedFreesAll
=============================================================================
