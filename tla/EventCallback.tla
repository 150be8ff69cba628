------------------------------ MODULE EventCallback ------------------------------
(***************************************************************************)
(* Event callbacks (event.c): set_event_callback registers a C callback,   *)
(* which the driver calls from a thread of its own; the callback stores    *)
(* the status it receives in the event's udinfo_t, and the script polls it *)
(* there with check_event_callback.                                        *)
(*                                                                         *)
(* The Lua thread and the driver's share the userdata and the udinfo_t     *)
(* with no lock, so each access to them is a step.  The C compiler and the *)
(* processor may swap the two stores of the callback, which are not atomic *)
(* (InOrderStores says that they do not).                                  *)
(*                                                                         *)
(* A definition called after another one and a slip (RegisterThenReset,    *)
(* before Register) is a mutant of it.  Nothing uses it.                   *)
(***************************************************************************)
EXTENDS Integers, FiniteSets

CONSTANTS
  Events,         (* events: each has one handle and, once created, one userdata *)
  UserEvents,     (* those the script creates and completes itself               *)
  CallbackTypes,  (* types the script registers callbacks for                    *)
  Addresses,      (* addresses malloc gives to udinfo_t's                        *)
  Null,           (* the NULL pointer                                            *)
  Threads,        (* driver threads that call callbacks                          *)
  MaxPending,     (* bound: callbacks registered for an event and a type         *)
  InOrderStores,  (* does the callback's first store come first?                 *)
  DeletesPending  (* may the script delete an event with callbacks to be called? *)

\* Execution statuses: past one another in this order, a negative one is an error.
Queued    == 3
Submitted == 2
Running   == 1
Complete  == 0
Failed    == -1
Statuses  == {Queued, Submitted, Running, Complete, Failed}

ASSUME CallbackAssumption ==
  /\ UserEvents \subseteq Events
  /\ CallbackTypes \subseteq {Submitted, Running, Complete}
  /\ Null \notin Addresses
  /\ MaxPending \in Nat
  /\ InOrderStores \in BOOLEAN /\ DeletesPending \in BOOLEAN

VARIABLES
  exec,      (* driver: the execution status of each event                    *)
  pending,   (* driver: number of callbacks to be called, by event and type   *)
  thread,    (* driver: the callback each of its threads executes             *)
  binding,   (* the userdata of each event                                    *)
  info,      (* ud->info, which freeuserdata leaves as it is                  *)
  allocated, (* addresses that hold a udinfo_t                                *)
  called,    (* udinfo->called_xxx: the types whose flag is set               *)
  status,    (* udinfo->status_xxx                                            *)
  lua,       (* the function the Lua thread is in the middle of               *)
  asked,     (* callbacks whose last set_event_callback succeeded             *)
  result     (* what check_event_callback returned last                       *)

driverVars == <<exec, pending, thread>>
udVars     == <<binding, info, allocated>>
infoVars   == <<called, status>>
vars == <<driverVars, udVars, infoVars, lua, asked, result>>

Idle == [at |-> "idle"]
LuaCalls == {Idle} \cup
  [at : {"register", "status"}, event : Events, type : CallbackTypes]
\* udinfo is the pointer the callback has read, todo the stores it has still to make.
ThreadCalls == {Idle} \cup
  [at : {"call"}, event : Events, type : CallbackTypes, status : Statuses,
   udinfo : Addresses \cup {Null}, todo : SUBSET {"status", "called"}]

TypeOK ==
  /\ exec \in [Events -> Statuses]
  /\ pending \in [Events -> [CallbackTypes -> Nat]]
  /\ thread \in [Threads -> ThreadCalls]
  /\ binding \in [Events -> {"none", "valid", "deleted", "collected"}]
  /\ info \in [Events -> Addresses \cup {Null}]
  /\ allocated \subseteq Addresses
  /\ called \in [Addresses -> SUBSET CallbackTypes]
  /\ status \in [Addresses -> [CallbackTypes -> Statuses]]
  /\ lua \in LuaCalls
  /\ asked \subseteq Events \X CallbackTypes
  /\ result \in {Idle} \cup
       [at : {"returned"}, event : Events, type : CallbackTypes, value : {"true", "false", "error"}]

Init ==
  /\ exec = [e \in Events |-> IF e \in UserEvents THEN Submitted ELSE Queued]
  /\ pending = [e \in Events |-> [t \in CallbackTypes |-> 0]]
  /\ thread = [d \in Threads |-> Idle]
  /\ binding = [e \in Events |-> "none"]
  /\ info = [e \in Events |-> Null]
  /\ allocated = {}
  /\ called = [a \in Addresses |-> {}]
  /\ status = [a \in Addresses |-> [t \in CallbackTypes |-> 0]]
  /\ lua = Idle
  /\ asked = {}
  /\ result = Idle

-----------------------------------------------------------------------------
(***************************************************************************)
(* The Lua thread.                                                         *)
(***************************************************************************)
\* checkevent
Script(e) == lua = Idle /\ binding[e] = "valid"

\* newevent: the binding of a user event or of the event of a command
CreateEvent(e) ==
  /\ lua = Idle /\ binding[e] = "none"
  /\ binding' = [binding EXCEPT ![e] = "valid"]
  /\ UNCHANGED <<driverVars, info, allocated, infoVars, lua, asked, result>>

\* set_user_event_status; the driver accepts one status only.
SetUserEventStatus(e, s) ==
  /\ Script(e) /\ e \in UserEvents
  /\ exec[e] = Submitted
  /\ exec' = [exec EXCEPT ![e] = s]
  /\ UNCHANGED <<pending, thread, udVars, infoVars, lua, asked, result>>

SetEventCallbackResettingStatus(e, t) ==
  /\ Script(e)
  /\ IF info[e] = Null
     THEN \E a \in Addresses \ allocated :
            /\ info' = [info EXCEPT ![e] = a]
            /\ allocated' = allocated \cup {a}
            /\ called' = [called EXCEPT ![a] = {}]
            /\ status' = [status EXCEPT ![a] = [u \in CallbackTypes |-> 0]]
     ELSE /\ status' = [status EXCEPT ![info[e]][t] = 0]
          /\ UNCHANGED <<info, allocated, called>>
  /\ lua' = [at |-> "register", event |-> e, type |-> t]
  /\ asked' = asked \ {<<e, t>>}
  /\ UNCHANGED <<driverVars, binding, result>>

\* set_event_callback: a zeroed udinfo_t if the event has none, then the flag.
SetEventCallback(e, t) ==
  /\ Script(e)
  /\ IF info[e] = Null
     THEN \E a \in Addresses \ allocated :
            /\ info' = [info EXCEPT ![e] = a]
            /\ allocated' = allocated \cup {a}
            /\ called' = [called EXCEPT ![a] = {}]
            /\ status' = [status EXCEPT ![a] = [u \in CallbackTypes |-> 0]]
     ELSE /\ called' = [called EXCEPT ![info[e]] = @ \ {t}]
          /\ UNCHANGED <<info, allocated, status>>
  /\ lua' = [at |-> "register", event |-> e, type |-> t]
  /\ asked' = asked \ {<<e, t>>}
  /\ UNCHANGED <<driverVars, binding, result>>

RegisterThenReset ==
  LET e == lua.event  t == lua.type
  IN  /\ \/ /\ lua.at = "register" /\ pending[e][t] < MaxPending
            /\ pending' = [pending EXCEPT ![e][t] = @ + 1]
            /\ lua' = [lua EXCEPT !.at = "reset"]
            /\ UNCHANGED <<called, asked>>
         \/ /\ lua.at = "reset"
            /\ called' = [called EXCEPT ![info[e]] = @ \ {t}]
            /\ lua' = Idle
            /\ asked' = asked \cup {<<e, t>>}
            /\ UNCHANGED pending
      /\ UNCHANGED <<exec, thread, udVars, status, result>>

\* cl.SetEventCallback, with which set_event_callback ends, succeeds or not.
Register ==
  LET e == lua.event  t == lua.type
  IN  /\ lua.at = "register"
      /\ lua' = Idle
      /\ \/ /\ pending[e][t] < MaxPending
            /\ pending' = [pending EXCEPT ![e][t] = @ + 1]
            /\ asked' = asked \cup {<<e, t>>}
         \/ UNCHANGED <<pending, asked>>
      /\ UNCHANGED <<exec, thread, udVars, infoVars, result>>

Return(e, t, v) ==
  /\ result' = [at |-> "returned", event |-> e, type |-> t, value |-> v]
  /\ lua' = Idle

\* check_event_callback reads the flag of the type.
CheckEventCallback(e, t) ==
  /\ Script(e)
  /\ IF info[e] # Null /\ t \in called[info[e]]
     THEN /\ lua' = [at |-> "status", event |-> e, type |-> t]
          /\ UNCHANGED result
     ELSE Return(e, t, "false")
  /\ UNCHANGED <<driverVars, udVars, infoVars, asked>>

ReadStatusName ==
  /\ lua.at = "status"
  /\ LET s == status[info[lua.event]][lua.type]
     IN  Return(lua.event, lua.type,
                IF s < 0 THEN "error" ELSE IF s = Complete THEN "complete" ELSE "running")
  /\ UNCHANGED <<driverVars, udVars, infoVars, asked>>

\* If the flag is set, it reads the status: an error code, or anything else is true.
ReadStatus ==
  /\ lua.at = "status"
  /\ LET s == status[info[lua.event]][lua.type]
     IN  Return(lua.event, lua.type, IF s < 0 THEN "error" ELSE "true")
  /\ UNCHANGED <<driverVars, udVars, infoVars, asked>>

\* Callbacks of e that the driver has still to call, or is calling.
Outstanding(e) ==
  \/ \E t \in CallbackTypes : pending[e][t] > 0
  \/ \E d \in Threads : thread[d] # Idle /\ thread[d].event = e

\* freeevent, explicit or by the destructor of the context: frees the udinfo_t.
Delete(e) ==
  /\ Script(e) /\ (DeletesPending \/ ~Outstanding(e))
  /\ binding' = [binding EXCEPT ![e] = "deleted"]
  /\ allocated' = allocated \ {info[e]}
  /\ UNCHANGED <<driverVars, info, infoVars, lua, asked, result>>

\* Lua frees the userdata.
Collect(e) ==
  /\ lua = Idle /\ binding[e] = "deleted"
  /\ binding' = [binding EXCEPT ![e] = "collected"]
  /\ UNCHANGED <<driverVars, info, allocated, infoVars, lua, asked, result>>

-----------------------------------------------------------------------------
(***************************************************************************)
(* The driver: commands proceed or fail, and a callback is called once its *)
(* event has reached the type it was registered for, or failed.            *)
(***************************************************************************)
Progress(e) ==
  /\ e \notin UserEvents /\ exec[e] > Complete
  /\ \E s \in {exec[e] - 1, Failed} : exec' = [exec EXCEPT ![e] = s]
  /\ UNCHANGED <<pending, thread, udVars, infoVars, lua, asked, result>>

Call(d, e, t) ==
  /\ thread[d] = Idle
  /\ pending[e][t] > 0 /\ exec[e] <= t
  /\ pending' = [pending EXCEPT ![e][t] = @ - 1]
  /\ thread' = [thread EXCEPT ![d] =
       [at |-> "call", event |-> e, type |-> t,
        status |-> IF exec[e] < 0 THEN exec[e] ELSE t,
        udinfo |-> Null, todo |-> {"status", "called"}]]
  /\ UNCHANGED <<exec, udVars, infoVars, lua, asked, result>>

\* What a callback may read as ud->info; anything if Lua has freed the userdata.
InfoRead(e) == IF binding[e] = "collected" THEN Addresses \cup {Null} ELSE {info[e]}

EnterUnlessFailed(d) ==
  LET c == thread[d]
  IN  /\ c # Idle /\ c.udinfo = Null
      /\ \E a \in InfoRead(c.event) :
           thread' = [thread EXCEPT ![d] = IF a = Null \/ c.status < 0 THEN Idle
                                           ELSE [c EXCEPT !.udinfo = a]]
      /\ UNCHANGED <<exec, pending, udVars, infoVars, lua, asked, result>>

\* Callback_xxx reads the userdata: it returns if there is no udinfo_t.
Enter(d) ==
  LET c == thread[d]
  IN  /\ c # Idle /\ c.udinfo = Null
      /\ \E a \in InfoRead(c.event) :
           thread' = [thread EXCEPT ![d] = IF a = Null THEN Idle ELSE [c EXCEPT !.udinfo = a]]
      /\ UNCHANGED <<exec, pending, udVars, infoVars, lua, asked, result>>

StoresFlagFirst(d) == IF "called" \in thread[d].todo THEN {"called"} ELSE thread[d].todo

\* The store or stores one of which comes next: the status, then the flag.
NextStore(d) ==
  IF InOrderStores /\ "status" \in thread[d].todo THEN {"status"} ELSE thread[d].todo

\* Callback_xxx makes one of its two stores.
Store(d) ==
  LET c == thread[d]
  IN  /\ c # Idle /\ c.udinfo # Null
      /\ \E f \in NextStore(d) :
           /\ IF f = "status"
              THEN /\ status' = [status EXCEPT ![c.udinfo][c.type] = c.status]
                   /\ UNCHANGED called
              ELSE /\ called' = [called EXCEPT ![c.udinfo] = @ \cup {c.type}]
                   /\ UNCHANGED status
           /\ thread' = [thread EXCEPT ![d] =
                IF c.todo = {f} THEN Idle ELSE [c EXCEPT !.todo = @ \ {f}]]
      /\ UNCHANGED <<exec, pending, udVars, lua, asked, result>>

-----------------------------------------------------------------------------
Lua ==
  \/ \E e \in Events :
       \/ CreateEvent(e) \/ Delete(e) \/ Collect(e)
       \/ \E s \in {Complete, Failed} : SetUserEventStatus(e, s)
       \/ \E t \in CallbackTypes : SetEventCallback(e, t) \/ CheckEventCallback(e, t)
  \/ Register \/ ReadStatus

Callback(d) ==
  \/ \E e \in Events, t \in CallbackTypes : Call(d, e, t)
  \/ Enter(d) \/ Store(d)

Next == Lua \/ (\E e \in Events : Progress(e)) \/ (\E d \in Threads : Callback(d))

Spec == Init /\ [][Next]_vars

\* A function of the module returns; the driver calls each callback in the end, busy as
\* its threads may be with others, and a callback that was called returns.
LiveSpec ==
  /\ Spec
  /\ WF_vars(Register \/ ReadStatus)
  /\ \A e \in Events, t \in CallbackTypes : SF_vars(\E d \in Threads : Call(d, e, t))
  /\ \A d \in Threads : WF_vars(Enter(d) \/ Store(d))

-----------------------------------------------------------------------------
(***************************************************************************)
(* Properties.                                                             *)
(***************************************************************************)
\* check_event_callback never says that a command was successful that failed, or did
\* not reach the status yet, nor that one failed that did not, however the callback's
\* stores interleave with its reads and with the reset of the flag.
CheckTruthful ==
  /\ result # Idle /\ result.value = "true" =>
       exec[result.event] <= result.type /\ (result.type = Complete => exec[result.event] = Complete)
  /\ result # Idle /\ result.value = "error" => exec[result.event] < 0

\* The callback for type t of e is registered, or is being executed.
Awaited(e, t) ==
  \/ pending[e][t] > 0
  \/ \E d \in Threads : thread[d] # Idle /\ thread[d].event = e /\ thread[d].type = t

\* set_event_callback resets the flag before it registers the callback, so once all
\* the callbacks of a type have been called its flag is set: no call is forgotten,
\* also when the event has long been complete at the registration.
NoLostNotification ==
  \A e \in Events, t \in CallbackTypes :
    /\ binding[e] = "valid" /\ <<e, t>> \in asked /\ ~Awaited(e, t)
    /\ lua = Idle
    => info[e] # Null /\ t \in called[info[e]]

\* The valid events that have a udinfo_t.
HasInfo(e) == binding[e] = "valid" /\ info[e] # Null

\* A callback for type t of e has still to set the flag.
Expected(e, t) ==
  \/ pending[e][t] > 0
  \/ \E d \in Threads : /\ thread[d] # Idle /\ "called" \in thread[d].todo
                        /\ thread[d].event = e /\ thread[d].type = t

\* What check_event_callback finds: the status stored, if the flag is set.
Notice(e, t) == IF HasInfo(e) /\ t \in called[info[e]] THEN {status[info[e]][t]} ELSE {}

Due   == {p \in Events \X CallbackTypes : Expected(p[1], p[2])}
Shown == [e \in Events |-> [t \in CallbackTypes |-> Notice(e, t)]]
Board == INSTANCE Notices WITH due <- Due, shown <- Shown, answer <- result

\* The flag and the status are stored, reset and read one after the other by two threads,
\* and the pointer to them is read on the way, but what the script can see is what it
\* would see if each notice were posted, taken down and read in a single step: a status is
\* seen only if a callback that was registered posted it, and no notice changes or goes
\* but by a later callback, set_event_callback or the deletion of the event.
LooksAtomic == Board!Spec

\* The script that polls sees, in the end, that the status is reached.
NotificationArrives ==
  \A e \in Events, t \in CallbackTypes :
    binding[e] = "valid" /\ <<e, t>> \in asked /\ exec[e] <= t
      ~> \/ binding[e] # "valid" \/ <<e, t>> \notin asked
         \/ t \in called[info[e]]
=============================================================================
