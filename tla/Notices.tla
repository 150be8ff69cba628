-------------------------------- MODULE Notices --------------------------------
(***************************************************************************)
(* What the callbacks of events promise, without a thread, a pointer or a  *)
(* flag: a board shows, for each event and type, the status of the last    *)
(* callback or nothing, and check_event_callback reads it.  A callback     *)
(* posts its notice, check_event_callback answers, and set_event_callback  *)
(* takes a notice down, each in a single step.                             *)
(***************************************************************************)
EXTENDS Integers

CONSTANTS
  Events,         (* events                                    *)
  CallbackTypes,  (* types callbacks are registered for        *)
  Statuses,       (* execution statuses, errors are negative   *)
  Complete        (* the last one of a command that succeeds   *)

VARIABLES
  exec,    (* the execution status of each event                         *)
  due,     (* the pairs of an event and a type that await a notice       *)
  shown,   (* the notice for each event and type: a set of one status, or none *)
  answer   (* what check_event_callback answered last                    *)

vars == <<exec, due, shown, answer>>

NoNotices == [t \in CallbackTypes |-> {}]

Init ==
  /\ exec \in [Events -> Statuses]
  /\ due = {}
  /\ shown = [e \in Events |-> NoNotices]
  /\ answer = [at |-> "idle"]

\* Status s is true of an event in status x that was to reach t: it has, and failed if s
\* says so, or succeeded if s says that it is complete.
True(x, t, s) ==
  /\ x <= t
  /\ s < 0 => x < 0
  /\ s >= 0 /\ t = Complete => x = Complete

Proceed(e) ==
  /\ \E s \in Statuses : s < exec[e] /\ exec' = [exec EXCEPT ![e] = s]
  /\ UNCHANGED <<due, shown, answer>>

TakeDown(e, t) ==
  /\ shown' = [shown EXCEPT ![e][t] = {}]
  /\ UNCHANGED <<exec, due, answer>>

Expect(e, t) ==
  /\ due' = due \cup {<<e, t>>}
  /\ UNCHANGED <<exec, shown, answer>>

\* Others may be due for the same event and type.
Notify(e, t) ==
  /\ <<e, t>> \in due
  /\ due' \in {due, due \ {<<e, t>>}}
  /\ \E s \in Statuses : True(exec[e], t, s) /\ shown' = [shown EXCEPT ![e][t] = {s}]
  /\ UNCHANGED <<exec, answer>>

Answer(e, t) ==
  /\ answer' = [at |-> "returned", event |-> e, type |-> t,
                value |-> IF shown[e][t] = {} THEN "false"
                          ELSE IF \E s \in shown[e][t] : s < 0 THEN "error" ELSE "true"]
  /\ UNCHANGED <<exec, due, shown>>

\* The event is deleted.
Forget(e) ==
  /\ \A t \in CallbackTypes : <<e, t>> \notin due
  /\ shown' = [shown EXCEPT ![e] = NoNotices]
  /\ UNCHANGED <<exec, due, answer>>

Next ==
  \E e \in Events :
    \/ Proceed(e) \/ Forget(e)
    \/ \E t \in CallbackTypes : TakeDown(e, t) \/ Expect(e, t) \/ Notify(e, t) \/ Answer(e, t)

Spec == Init /\ [][Next]_vars
=============================================================================
