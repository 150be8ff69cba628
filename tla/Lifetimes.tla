------------------------------- MODULE Lifetimes -------------------------------
(***************************************************************************)
(* What the life of commands promises to the script, without bindings,     *)
(* destructors or a thread that blocks: a queue goes when its commands     *)
(* have ended, memory goes once, when no command uses it, and the end      *)
(* leaves neither a queue nor memory.                                      *)
(***************************************************************************)
EXTENDS Integers

CONSTANTS
  Queues,      (* command queues              *)
  UserEvents,  (* user events                 *)
  Commands,    (* commands, and their events  *)
  Memory       (* svm's and host memory       *)

VARIABLES
  made,    (* the queues and the memory created so far                              *)
  open,    (* the queues that take commands, or have some to run                    *)
  jobs,    (* the commands so far: their event, queue, wait list and memory         *)
  status,  (* the status of each event                                              *)
  freed,   (* how many times each memory was freed                                  *)
  over     (* has the script ended?                                                 *)

vars == <<made, open, jobs, status, freed, over>>

Events == UserEvents \cup Commands

Init ==
  /\ made = {} /\ open = {} /\ jobs = {}
  /\ status = [e \in Events |-> "none"]
  /\ freed = [m \in Memory |-> 0]
  /\ over = FALSE

Ended(e) == status[e] \in {"complete", "failed"}

CreateQueue(q) ==
  /\ ~over /\ q \notin made
  /\ made' = made \cup {q} /\ open' = open \cup {q}
  /\ UNCHANGED <<jobs, status, freed, over>>

Allocate(m) ==
  /\ ~over /\ m \notin made
  /\ made' = made \cup {m}
  /\ UNCHANGED <<open, jobs, status, freed, over>>

CreateUserEvent(e) ==
  /\ ~over /\ status[e] = "none"
  /\ status' = [status EXCEPT ![e] = "queued"]
  /\ UNCHANGED <<made, open, jobs, freed, over>>

SetUserEventStatus(e) ==
  /\ ~over /\ status[e] = "queued"
  /\ \E s \in {"complete", "failed"} : status' = [status EXCEPT ![e] = s]
  /\ UNCHANGED <<made, open, jobs, freed, over>>

\* A command is accepted by an open queue, for memory that is there, and waits for events
\* that are known.
Enqueue(c, q, waits, uses) ==
  /\ ~over /\ status[c] = "none" /\ q \in open
  /\ \A e \in waits : status[e] # "none"
  /\ uses \subseteq made /\ \A m \in uses : freed[m] = 0
  /\ jobs' = jobs \cup {[event |-> c, queue |-> q, waits |-> waits, uses |-> uses]}
  /\ status' = [status EXCEPT ![c] = "queued"]
  /\ UNCHANGED <<made, open, freed, over>>

Start(j) ==
  /\ status[j.event] = "queued" /\ \A e \in j.waits : Ended(e)
  /\ status' = [status EXCEPT ![j.event] =
                  IF \E e \in j.waits : status[e] = "failed" THEN "failed" ELSE "running"]
  /\ UNCHANGED <<made, open, jobs, freed, over>>

End(j) ==
  /\ status[j.event] = "running"
  /\ \E s \in {"complete", "failed"} : status' = [status EXCEPT ![j.event] = s]
  /\ UNCHANGED <<made, open, jobs, freed, over>>

CloseQueue(q) ==
  /\ q \in open /\ \A j \in jobs : j.queue = q => Ended(j.event)
  /\ open' = open \ {q}
  /\ UNCHANGED <<made, jobs, status, freed, over>>

Free(m) ==
  /\ m \in made /\ freed[m] = 0 /\ \A j \in jobs : m \in j.uses => Ended(j.event)
  /\ freed' = [freed EXCEPT ![m] = 1]
  /\ UNCHANGED <<made, open, jobs, status, over>>

Finish ==
  /\ ~over /\ open = {} /\ \A m \in made \cap Memory : freed[m] = 1
  /\ over' = TRUE
  /\ UNCHANGED <<made, open, jobs, status, freed>>

Next ==
  \/ \E q \in Queues : CreateQueue(q) \/ CloseQueue(q)
  \/ \E m \in Memory : Allocate(m) \/ Free(m)
  \/ \E e \in UserEvents : CreateUserEvent(e) \/ SetUserEventStatus(e)
  \/ \E c \in Commands, q \in Queues, waits \in SUBSET Events, uses \in SUBSET Memory :
       Enqueue(c, q, waits, uses)
  \/ \E j \in jobs : Start(j) \/ End(j)
  \/ Finish

Spec == Init /\ [][Next]_vars
=============================================================================
