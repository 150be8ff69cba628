---------------------------- MODULE EventCallbackProofs ----------------------------
(***************************************************************************)
(* Event callbacks, for any events, types and number of driver threads, in *)
(* three invariants, each proved on top of those before it:                *)
(*                                                                         *)
(*   TypeOK    the types of the variables;                                 *)
(*   KeptInv   whose udinfo_t a callback stores into, and that it sets the *)
(*             flag: no callback is forgotten.  This depends neither on    *)
(*             the order of the stores nor on what the script deletes;     *)
(*   TruthInv  what a callback stores: if the stores are seen in order and *)
(*             the script deletes no event that has callbacks outstanding, *)
(*             check_event_callback tells the truth.                       *)
(***************************************************************************)
EXTENDS EventCallback, TLAPS

\* Valid events have udinfo_t's of their own.
InfoInv ==
  /\ \A e \in Events : binding[e] = "none" => info[e] = Null
  /\ \A e \in Events : HasInfo(e) => info[e] \in allocated
  /\ \A e, f \in Events : HasInfo(e) /\ HasInfo(f) /\ info[e] = info[f] => e = f

\* The Lua thread is in a function of such an event, and its flag stays set once seen.
LuaInv ==
  lua.at # "idle" =>
    /\ HasInfo(lua.event)
    /\ lua.at = "status" => lua.type \in called[info[lua.event]]

\* Callbacks are registered, and called, for events with a udinfo_t, and store into it as
\* long as the event is valid; one that has not read the pointer has not set the flag.
PendingInv ==
  /\ \A e \in Events, t \in CallbackTypes :
       pending[e][t] > 0 \/ <<e, t>> \in asked => info[e] # Null
  /\ \A d \in Threads : thread[d] # Idle =>
       LET c == thread[d]
       IN  /\ info[c.event] # Null
           /\ binding[c.event] = "valid" => c.udinfo \in {Null, info[c.event]}
           /\ c.udinfo = Null => "called" \in c.todo

\* If no callback has still to set it, the flag is set.
AskedInv ==
  \A e \in Events, t \in CallbackTypes :
    binding[e] = "valid" /\ <<e, t>> \in asked /\ ~Expected(e, t) => t \in called[info[e]]

KeptInv == InfoInv /\ LuaInv /\ PendingInv /\ AskedInv

\* Status s, stored for type t, is true of an event in status x: the event has reached
\* t, and failed if s says so.
Good(x, t, s) ==
  /\ x <= t
  /\ s < 0 => x < 0
  /\ s >= 0 /\ t = Complete => x = Complete

\* Only valid events have callbacks outstanding.
LiveInv ==
  /\ \A e \in Events, t \in CallbackTypes : pending[e][t] > 0 => binding[e] = "valid"
  /\ \A d \in Threads : thread[d] # Idle => binding[thread[d].event] = "valid"

\* A callback has a good status, which it stores before it sets the flag.
StoresInv ==
  \A d \in Threads : thread[d] # Idle =>
    LET c == thread[d]
    IN  /\ Good(exec[c.event], c.type, c.status)
        /\ "called" \in c.todo
        /\ c.udinfo = Null => "status" \in c.todo
        /\ "status" \notin c.todo => Good(exec[c.event], c.type, status[info[c.event]][c.type])

\* A flag that is set has a status that is good.
FlagInv ==
  \A e \in Events, t \in CallbackTypes :
    HasInfo(e) /\ t \in called[info[e]] => Good(exec[e], t, status[info[e]][t])

TruthInv == LiveInv /\ StoresInv /\ FlagInv /\ CheckTruthful

-----------------------------------------------------------------------------
(***************************************************************************)
(* The types.                                                              *)
(***************************************************************************)
\* The parts of the callback that a thread executes.
LEMMA CallParts ==
  ASSUME TypeOK, NEW d \in Threads, thread[d] # Idle
  PROVE  /\ thread[d].at = "call"
         /\ thread[d].event \in Events /\ thread[d].type \in CallbackTypes
         /\ thread[d].status \in Statuses /\ thread[d].udinfo \in Addresses \cup {Null}
         /\ thread[d].todo \in SUBSET {"status", "called"}
BY DEF TypeOK, ThreadCalls

\* The parts of the function that the Lua thread is in.
LEMMA LuaParts ==
  ASSUME TypeOK, lua.at # "idle"
  PROVE  lua.event \in Events /\ lua.type \in CallbackTypes
BY DEF TypeOK, LuaCalls, Idle

\* The status to which an event proceeds.
LEMMA ExecType ==
  ASSUME TypeOK, NEW e \in Events, Progress(e)
  PROVE  \E y \in Statuses : /\ exec[e] > 0 /\ y < exec[e]
                             /\ exec' = [exec EXCEPT ![e] = y]
<1>1. exec[e] \in {3, 2, 1}
  BY DEF Progress, TypeOK, Statuses, Queued, Submitted, Running, Complete, Failed
<1>2. PICK y \in {exec[e] - 1, Failed} : exec' = [exec EXCEPT ![e] = y] BY DEF Progress
<1>3. y \in Statuses /\ y < exec[e]
  BY <1>1, <1>2 DEF Statuses, Queued, Submitted, Running, Complete, Failed
<1>4. exec[e] > 0 BY <1>1
<1> QED BY <1>2, <1>3, <1>4, Zenon

\* Each function of the script gives the variables values of their types.
LEMMA LuaType ==
  ASSUME TypeOK, Lua
  PROVE  TypeOK'
<1> USE DEF driverVars, udVars, infoVars
<1>1. ASSUME NEW e \in Events, CreateEvent(e) \/ Delete(e) \/ Collect(e)
      PROVE  TypeOK'
  BY <1>1 DEF CreateEvent, Delete, Collect, TypeOK
<1>2. ASSUME NEW e \in Events, NEW s \in {Complete, Failed}, SetUserEventStatus(e, s)
      PROVE  TypeOK'
  BY <1>2 DEF SetUserEventStatus, TypeOK, Statuses
<1>3. ASSUME NEW e \in Events, NEW t \in CallbackTypes, SetEventCallback(e, t)
      PROVE  TypeOK'
  <2>1. lua' \in LuaCalls BY <1>3 DEF SetEventCallback, LuaCalls
  <2>2. [u \in CallbackTypes |-> 0] \in [CallbackTypes -> Statuses] BY DEF Statuses, Complete
  <2>3. CASE info[e] = Null
    <3>1. PICK a \in Addresses \ allocated :
            /\ info' = [info EXCEPT ![e] = a]
            /\ allocated' = allocated \cup {a}
            /\ called' = [called EXCEPT ![a] = {}]
            /\ status' = [status EXCEPT ![a] = [u \in CallbackTypes |-> 0]]
      BY <1>3, <2>3 DEF SetEventCallback
    <3> QED BY <1>3, <2>1, <2>2, <3>1 DEF SetEventCallback, TypeOK
  <2>4. CASE info[e] # Null
    BY <1>3, <2>1, <2>4 DEF SetEventCallback, TypeOK
  <2> QED BY <2>3, <2>4
<1>4. ASSUME NEW e \in Events, NEW t \in CallbackTypes, CheckEventCallback(e, t)
      PROVE  TypeOK'
  BY <1>4 DEF CheckEventCallback, Return, TypeOK, LuaCalls
<1>5. CASE Register
  <2> DEFINE e == lua.event  t == lua.type
  <2>1. e \in Events /\ t \in CallbackTypes BY <1>5, LuaParts DEF Register
  <2>2. pending[e] \in [CallbackTypes -> Nat] /\ pending[e][t] \in Nat BY <2>1 DEF TypeOK
  <2>3. [pending[e] EXCEPT ![t] = @ + 1] \in [CallbackTypes -> Nat]
    <3>1. pending[e][t] + 1 \in Nat BY <2>2
    <3> QED BY <2>2, <3>1
  <2>4. CASE UNCHANGED <<pending, asked>> BY <1>5, <2>4 DEF Register, TypeOK, LuaCalls
  <2>5. CASE pending' = [pending EXCEPT ![e][t] = @ + 1] /\ asked' = asked \cup {<<e, t>>}
    BY <1>5, <2>1, <2>3, <2>5 DEF Register, TypeOK, LuaCalls
  <2> QED BY <1>5, <2>4, <2>5 DEF Register
<1>6. CASE ReadStatus
  <2>1. lua.event \in Events /\ lua.type \in CallbackTypes BY <1>6, LuaParts DEF ReadStatus
  <2> QED BY <1>6, <2>1 DEF ReadStatus, Return, TypeOK, LuaCalls
<1> QED BY <1>1, <1>2, <1>3, <1>4, <1>5, <1>6 DEF Lua

\* So does each step of a callback.
LEMMA CallbackType ==
  ASSUME TypeOK, NEW d \in Threads, Callback(d)
  PROVE  TypeOK'
<1> USE DEF driverVars, udVars, infoVars
<1>1. ASSUME NEW e \in Events, NEW t \in CallbackTypes, Call(d, e, t)
      PROVE  TypeOK'
  <2>1. pending' \in [Events -> [CallbackTypes -> Nat]]
    <3>1. pending[e] \in [CallbackTypes -> Nat] BY DEF TypeOK
    <3>2. pending[e][t] - 1 \in Nat BY <1>1, <3>1 DEF Call
    <3>3. [pending[e] EXCEPT ![t] = @ - 1] \in [CallbackTypes -> Nat] BY <3>1, <3>2
    <3> QED BY <1>1, <3>3 DEF Call, TypeOK
  <2>2. [at |-> "call", event |-> e, type |-> t, status |-> IF exec[e] < 0 THEN exec[e] ELSE t,
         udinfo |-> Null, todo |-> {"status", "called"}] \in ThreadCalls
    BY CallbackAssumption DEF TypeOK, ThreadCalls, Statuses
  <2> QED BY <1>1, <2>1, <2>2 DEF Call, TypeOK
<1>2. CASE Enter(d)
  <2>1. thread[d] \in ThreadCalls /\ thread[d] # Idle /\ thread[d].event \in Events
    BY <1>2, CallParts DEF Enter, TypeOK
  <2>2. InfoRead(thread[d].event) \subseteq Addresses \cup {Null} BY <2>1 DEF InfoRead, TypeOK
  <2>3. \A a \in Addresses \cup {Null} : [thread[d] EXCEPT !.udinfo = a] \in ThreadCalls
    BY <2>1 DEF ThreadCalls, Idle
  <2>4. Idle \in ThreadCalls BY DEF ThreadCalls
  <2> QED BY <1>2, <2>2, <2>3, <2>4 DEF Enter, TypeOK
<1>3. CASE Store(d)
  <2>1. /\ thread[d] \in ThreadCalls /\ thread[d] # Idle /\ thread[d].udinfo \in Addresses
        /\ thread[d].type \in CallbackTypes /\ thread[d].status \in Statuses
    BY <1>3, CallParts DEF Store, TypeOK
  <2>2. \A f : [thread[d] EXCEPT !.todo = @ \ {f}] \in ThreadCalls
    BY <2>1 DEF ThreadCalls, Idle
  <2>3. Idle \in ThreadCalls BY DEF ThreadCalls
  <2>4. thread' \in [Threads -> ThreadCalls]
    <3>1. \E x \in ThreadCalls : thread' = [thread EXCEPT ![d] = x]
      BY <1>3, <2>2, <2>3 DEF Store
    <3> QED BY <3>1 DEF TypeOK
  <2>5. called' \in [Addresses -> SUBSET CallbackTypes] BY <1>3, <2>1 DEF Store, TypeOK
  <2>6. status' \in [Addresses -> [CallbackTypes -> Statuses]]
    <3>1. status[thread[d].udinfo] \in [CallbackTypes -> Statuses] BY <2>1 DEF TypeOK
    <3>2. [status[thread[d].udinfo] EXCEPT ![thread[d].type] = thread[d].status]
            \in [CallbackTypes -> Statuses]
      BY <2>1, <3>1
    <3> QED BY <1>3, <3>2 DEF Store, TypeOK
  <2> QED BY <1>3, <2>4, <2>5, <2>6 DEF Store, TypeOK
<1> QED BY <1>1, <1>2, <1>3 DEF Callback

\* Whatever the order of the stores and whatever is deleted, every variable has its type.
THEOREM TypeCorrect == Spec => []TypeOK
<1>1. Init => TypeOK
  BY CallbackAssumption
  DEF Init, TypeOK, Statuses, Queued, Submitted, Running, Complete, Failed, ThreadCalls, LuaCalls
<1>2. TypeOK /\ [Next]_vars => TypeOK'
  <2> SUFFICES ASSUME TypeOK, [Next]_vars PROVE TypeOK' OBVIOUS
  <2>1. ASSUME NEW e \in Events, Progress(e) PROVE TypeOK'
    <3>1. \E y \in Statuses : exec' = [exec EXCEPT ![e] = y] BY <2>1, ExecType
    <3> QED BY <2>1, <3>1 DEF Progress, TypeOK, udVars, infoVars
  <2>2. CASE UNCHANGED vars BY <2>2 DEF TypeOK, vars, driverVars, udVars, infoVars
  <2> QED BY <2>1, <2>2, LuaType, CallbackType DEF Next
<1> QED BY <1>1, <1>2, PTL DEF Spec

-----------------------------------------------------------------------------
(***************************************************************************)
(* No callback is forgotten.  The lemmas take the types, before and after, *)
(* from the theorem above.                                                 *)
(***************************************************************************)
\* What KeptInv is about does not change.
LEMMA KeptSame ==
  ASSUME KeptInv, UNCHANGED <<pending, thread, udVars, called, lua, asked>>
  PROVE  KeptInv'
BY DEF KeptInv, InfoInv, LuaInv, PendingInv, AskedInv, Expected, HasInfo, udVars

\* A binding is made, or goes: nothing is said of an event without one.
LEMMA KeptBinding ==
  ASSUME TypeOK, KeptInv, NEW e \in Events, CreateEvent(e) \/ Delete(e) \/ Collect(e)
  PROVE  KeptInv'
<1> USE DEF CreateEvent, Delete, Collect, Script, Idle, KeptInv, driverVars, udVars, infoVars
<1>1. \A f \in Events : f # e => binding'[f] = binding[f] BY DEF TypeOK
<1>2. UNCHANGED <<pending, thread, info, called, lua, asked>> OBVIOUS
<1>3. binding[e] = "none" => info[e] = Null BY DEF InfoInv
<1>4. InfoInv'
  <2>1. CASE CreateEvent(e) BY <2>1, <1>1, <1>3 DEF InfoInv, HasInfo, TypeOK
  <2>2. CASE Delete(e) \/ Collect(e)
    <3>1. binding'[e] \in {"deleted", "collected"} BY <2>2 DEF TypeOK
    <3>2. \A f \in Events : HasInfo(f)' => f # e /\ HasInfo(f) BY <1>1, <1>2, <3>1 DEF HasInfo
    <3>3. ASSUME NEW f \in Events, HasInfo(f)' PROVE info[f] \in allocated'
      <4>1. f # e /\ HasInfo(f) /\ info[f] \in allocated BY <3>2, <3>3 DEF InfoInv
      <4>2. CASE Delete(e)
        <5>1. info[f] # info[e] BY <4>1, <4>2 DEF InfoInv, HasInfo
        <5> QED BY <4>1, <4>2, <5>1
      <4>3. CASE Collect(e) BY <4>1, <4>3
      <4> QED BY <2>2, <4>2, <4>3
    <3>4. \A f \in Events : binding'[f] = "none" => info[f] = Null
      BY <1>1, <3>1 DEF InfoInv
    <3> QED BY <1>2, <3>2, <3>3, <3>4 DEF InfoInv
  <2> QED BY <2>1, <2>2
<1>5. LuaInv' BY DEF LuaInv
<1>6. PendingInv'
  <2> SUFFICES ASSUME NEW d \in Threads, thread[d] # Idle, binding'[thread[d].event] = "valid"
               PROVE  thread[d].udinfo \in {Null, info[thread[d].event]}
    BY <1>2 DEF PendingInv
  <2>1. thread[d].event \in Events /\ info[thread[d].event] # Null
    BY CallParts DEF PendingInv
  <2>2. thread[d].event # e \/ binding[e] = "valid" BY <1>3, <2>1 DEF TypeOK
  <2> QED BY <1>1, <2>1, <2>2 DEF PendingInv
<1>7. AskedInv'
  <2> SUFFICES ASSUME NEW f \in Events, NEW t \in CallbackTypes, binding'[f] = "valid",
                      <<f, t>> \in asked, ~Expected(f, t)
               PROVE  t \in called[info[f]]
    BY <1>2 DEF AskedInv, Expected
  <2>1. info[f] # Null BY DEF PendingInv
  <2>2. binding[f] = "valid" BY <1>1, <1>3, <2>1 DEF TypeOK
  <2> QED BY <2>2 DEF AskedInv
<1> QED BY <1>4, <1>5, <1>6, <1>7

\* The udinfo_t of an event is new, or its flag is reset; either way the callback is asked
\* for again, and nothing is promised until it is registered.
LEMMA KeptReset ==
  ASSUME TypeOK, KeptInv, NEW e \in Events, NEW t \in CallbackTypes, SetEventCallback(e, t)
  PROVE  KeptInv'
<1> USE DEF KeptInv, driverVars
<1>a. /\ lua = Idle /\ binding[e] = "valid" /\ Null \notin Addresses
      /\ lua' = [at |-> "register", event |-> e, type |-> t]
      /\ asked' = asked \ {<<e, t>>}
      /\ UNCHANGED <<exec, pending, thread, binding, result>>
  BY CallbackAssumption DEF SetEventCallback, Script
<1>b. CASE info[e] = Null
  <2>1. PICK a \in Addresses \ allocated :
          /\ info' = [info EXCEPT ![e] = a]
          /\ allocated' = allocated \cup {a}
          /\ called' = [called EXCEPT ![a] = {}]
    BY <1>b DEF SetEventCallback
  <2>2. \A f \in Events : info'[f] = IF f = e THEN a ELSE info[f] BY <2>1 DEF TypeOK
  <2>3. a # Null /\ \A f \in Events : HasInfo(f) => info[f] # a
    BY <1>a, <2>1 DEF InfoInv, HasInfo
  <2>4. ~ \E d \in Threads : thread[d] # Idle /\ thread[d].event = e
    BY <1>b DEF PendingInv
  <2>5. \A u \in CallbackTypes : <<e, u>> \notin asked BY <1>b DEF PendingInv
  <2>6. \A f \in Events : HasInfo(f) => called'[info'[f]] = called[info[f]]
    BY <1>b, <2>1, <2>2, <2>3 DEF TypeOK, HasInfo
  <2>7. InfoInv'
    <3>1. \A f \in Events : HasInfo(f)' => f = e \/ HasInfo(f) BY <1>a, <2>2 DEF HasInfo
    <3>2. \A f \in Events : HasInfo(f)' => info'[f] \in allocated'
      BY <2>1, <2>2, <3>1 DEF InfoInv
    <3>3. ASSUME NEW f \in Events, NEW g \in Events, HasInfo(f)', HasInfo(g)', info'[f] = info'[g]
          PROVE  f = g
      BY <2>2, <2>3, <3>1, <3>3 DEF InfoInv
    <3>4. \A f \in Events : binding'[f] = "none" => info'[f] = Null
      BY <1>a, <2>2 DEF InfoInv
    <3> QED BY <3>2, <3>3, <3>4 DEF InfoInv
  <2>8. LuaInv' BY <1>a, <2>2, <2>3 DEF LuaInv, HasInfo
  <2>9. PendingInv' BY <1>a, <2>2, <2>3, <2>4, CallParts DEF PendingInv
  <2>10. AskedInv'
    <3> SUFFICES ASSUME NEW f \in Events, NEW u \in CallbackTypes,
                        binding[f] = "valid", <<f, u>> \in asked, ~Expected(f, u)
                 PROVE  u \in called'[info'[f]]
      BY <1>a DEF AskedInv, Expected
    <3>1. HasInfo(f) /\ u \in called[info[f]] BY DEF AskedInv, PendingInv, HasInfo
    <3> QED BY <2>6, <3>1
  <2> QED BY <2>7, <2>8, <2>9, <2>10
<1>c. CASE info[e] # Null
  <2>1. /\ called' = [called EXCEPT ![info[e]] = @ \ {t}]
        /\ UNCHANGED <<info, allocated>>
    BY <1>c DEF SetEventCallback
  <2>2. info[e] \in Addresses /\ \A f \in Events : HasInfo(f) /\ info[f] = info[e] => f = e
    BY <1>a, <1>c DEF TypeOK, InfoInv, HasInfo
  <2>3. \A x \in Addresses :
          called'[x] = IF x = info[e] THEN called[x] \ {t} ELSE called[x]
    BY <2>1, <2>2 DEF TypeOK
  <2>4. InfoInv' BY <1>a, <2>1 DEF InfoInv, HasInfo
  <2>5. LuaInv' BY <1>a, <1>c, <2>1 DEF LuaInv, HasInfo
  <2>6. PendingInv' BY <1>a, <2>1 DEF PendingInv
  <2>7. AskedInv'
    <3> SUFFICES ASSUME NEW f \in Events, NEW u \in CallbackTypes, binding[f] = "valid",
                        <<f, u>> \in asked, <<f, u>> # <<e, t>>, ~Expected(f, u)
                 PROVE  u \in called'[info[f]]
      BY <1>a, <2>1 DEF AskedInv, Expected
    <3>1. info[f] \in Addresses /\ HasInfo(f) /\ u \in called[info[f]]
      BY DEF AskedInv, PendingInv, HasInfo, TypeOK
    <3> QED BY <2>2, <2>3, <3>1
  <2> QED BY <2>4, <2>5, <2>6, <2>7
<1> QED BY <1>b, <1>c

\* The driver registers the callback, or fails.
LEMMA KeptRegister ==
  ASSUME TypeOK, KeptInv, Register
  PROVE  KeptInv'
<1> USE DEF KeptInv, udVars, infoVars
<1> DEFINE e == lua.event  t == lua.type
<1>a. /\ lua.at # "idle" /\ e \in Events /\ t \in CallbackTypes /\ HasInfo(e)
      /\ lua' = Idle /\ UNCHANGED <<exec, thread, udVars, infoVars, result>>
  BY LuaParts DEF Register, LuaInv
<1>b. /\ \A f \in Events, u \in CallbackTypes :
           /\ pending[f][u] > 0 => pending'[f][u] > 0
           /\ pending'[f][u] > 0 => pending[f][u] > 0 \/ f = e
      /\ asked' # asked => asked' = asked \cup {<<e, t>>} /\ pending'[e][t] > 0
  <2>1. CASE UNCHANGED <<pending, asked>> BY <2>1
  <2>2. CASE pending' = [pending EXCEPT ![e][t] = @ + 1] /\ asked' = asked \cup {<<e, t>>}
    <3>1. pending[e] \in [CallbackTypes -> Nat] BY <1>a DEF TypeOK
    <3>2. \A u \in CallbackTypes : pending'[e][u] = IF u = t THEN pending[e][u] + 1 ELSE pending[e][u]
      BY <1>a, <2>2, <3>1 DEF TypeOK
    <3>3. \A f \in Events : f # e => pending'[f] = pending[f] BY <1>a, <2>2 DEF TypeOK
    <3>4. ASSUME NEW f \in Events, NEW u \in CallbackTypes
          PROVE  /\ pending[f][u] > 0 => pending'[f][u] > 0
                 /\ pending'[f][u] > 0 => pending[f][u] > 0 \/ f = e
      <4>1. pending[f][u] \in Nat BY DEF TypeOK
      <4> QED BY <3>2, <3>3, <4>1
    <3>5. pending'[e][t] > 0 BY <1>a, <3>1, <3>2
    <3> QED BY <2>2, <3>4, <3>5
  <2> QED BY <2>1, <2>2 DEF Register
<1>1. InfoInv' BY <1>a DEF InfoInv, HasInfo
<1>2. LuaInv' BY <1>a DEF LuaInv, Idle
<1>3. PendingInv' BY <1>a, <1>b DEF PendingInv, HasInfo
<1>4. AskedInv' BY <1>a, <1>b DEF AskedInv, Expected
<1> QED BY <1>1, <1>2, <1>3, <1>4

\* check_event_callback changes nothing that the callbacks share with it.
LEMMA KeptCheck ==
  ASSUME TypeOK, KeptInv, UNCHANGED <<driverVars, udVars, infoVars, asked>>,
         \/ lua' = Idle
         \/ \E e \in Events, t \in CallbackTypes : HasInfo(e) /\ t \in called[info[e]]
              /\ lua' = [at |-> "status", event |-> e, type |-> t]
  PROVE  KeptInv'
<1> USE DEF KeptInv, driverVars, udVars, infoVars
<1>1. InfoInv' BY DEF InfoInv, HasInfo
<1>2. LuaInv' BY DEF LuaInv, HasInfo, Idle
<1>3. PendingInv' BY DEF PendingInv
<1>4. AskedInv' BY DEF AskedInv, Expected
<1> QED BY <1>1, <1>2, <1>3, <1>4

\* A callback that was registered is called, and is expected as before.
LEMMA KeptCall ==
  ASSUME TypeOK, KeptInv, NEW d \in Threads, NEW e \in Events, NEW t \in CallbackTypes, Call(d, e, t)
  PROVE  KeptInv'
<1> USE DEF KeptInv, udVars, infoVars
<1> DEFINE c == [at |-> "call", event |-> e, type |-> t,
                 status |-> IF exec[e] < 0 THEN exec[e] ELSE t,
                 udinfo |-> Null, todo |-> {"status", "called"}]
<1>a. /\ thread[d] = Idle /\ pending[e][t] > 0
      /\ pending' = [pending EXCEPT ![e][t] = @ - 1]
      /\ thread' = [thread EXCEPT ![d] = c]
      /\ UNCHANGED <<udVars, infoVars, lua, asked>>
  BY DEF Call
<1>b. /\ c # Idle /\ c.event = e /\ c.type = t /\ c.udinfo = Null
      /\ c.todo = {"status", "called"}
  BY DEF Idle
<1> HIDE DEF c
<1>c. \A x \in Threads : thread'[x] = IF x = d THEN c ELSE thread[x] BY <1>a DEF TypeOK
<1>d. \A f \in Events, u \in CallbackTypes :
        /\ pending'[f][u] > 0 => pending[f][u] > 0
        /\ <<f, u>> # <<e, t>> => pending'[f][u] = pending[f][u]
  <2>1. pending[e] \in [CallbackTypes -> Nat] BY DEF TypeOK
  <2>2. \A u \in CallbackTypes : pending'[e][u] = IF u = t THEN pending[e][u] - 1 ELSE pending[e][u]
    BY <1>a, <2>1 DEF TypeOK
  <2>3. \A f \in Events : f # e => pending'[f] = pending[f] BY <1>a DEF TypeOK
  <2> QED BY <1>a, <2>1, <2>2, <2>3
<1>1. InfoInv' BY <1>a DEF InfoInv, HasInfo
<1>2. LuaInv' BY <1>a DEF LuaInv, HasInfo
<1>3. PendingInv'
  <2>1. info[e] # Null BY <1>a DEF PendingInv
  <2>2. \A f \in Events, u \in CallbackTypes :
          pending'[f][u] > 0 \/ <<f, u>> \in asked' => info'[f] # Null
    BY <1>a, <1>d DEF PendingInv
  <2>3. ASSUME NEW x \in Threads, thread'[x] # Idle
        PROVE  LET k == thread'[x]
               IN  /\ info'[k.event] # Null
                   /\ binding'[k.event] = "valid" => k.udinfo \in {Null, info'[k.event]}
                   /\ k.udinfo = Null => "called" \in k.todo
    <3>1. CASE x = d BY <1>a, <1>b, <1>c, <2>1, <3>1
    <3>2. CASE x # d BY <1>a, <1>c, <2>3, <3>2 DEF PendingInv
    <3> QED BY <3>1, <3>2
  <2> QED BY <2>2, <2>3 DEF PendingInv
<1>4. AskedInv'
  <2>1. \A f \in Events, u \in CallbackTypes : Expected(f, u) => Expected(f, u)'
    BY <1>a, <1>b, <1>c, <1>d DEF Expected
  <2> QED BY <1>a, <2>1 DEF AskedInv
<1> QED BY <1>1, <1>2, <1>3, <1>4

\* The callback of a valid event finds its udinfo_t; it returns only if the event is not
\* valid any more.
LEMMA KeptEnter ==
  ASSUME TypeOK, KeptInv, NEW d \in Threads, Enter(d)
  PROVE  KeptInv'
<1> USE DEF KeptInv, udVars, infoVars
<1>a. /\ thread[d] # Idle /\ thread[d].udinfo = Null /\ thread[d] \in ThreadCalls
      /\ thread[d].event \in Events /\ info[thread[d].event] # Null
      /\ UNCHANGED <<pending, udVars, infoVars, lua, asked>>
  BY CallParts DEF Enter, PendingInv, TypeOK
<1>b. PICK a \in InfoRead(thread[d].event) :
        thread' = [thread EXCEPT ![d] = IF a = Null THEN Idle ELSE [thread[d] EXCEPT !.udinfo = a]]
  BY DEF Enter
<1>c. binding[thread[d].event] = "valid" => a = info[thread[d].event] BY <1>b DEF InfoRead
<1> DEFINE next == [thread[d] EXCEPT !.udinfo = a]
<1>d. /\ next.event = thread[d].event /\ next.type = thread[d].type
      /\ next.todo = thread[d].todo /\ next.udinfo = a
  BY <1>a DEF ThreadCalls, Idle
<1>e. \A x \in Threads : thread'[x] = IF x # d THEN thread[x] ELSE IF a = Null THEN Idle ELSE next
  BY <1>b DEF TypeOK
<1>f. next # Idle
  <2>1. next.at = "call" BY <1>a DEF ThreadCalls, Idle
  <2> QED BY <2>1 DEF Idle
<1> HIDE DEF next
<1>1. InfoInv' BY <1>a DEF InfoInv, HasInfo
<1>2. LuaInv' BY <1>a DEF LuaInv, HasInfo
<1>3. PendingInv' BY <1>a, <1>c, <1>d, <1>e DEF PendingInv
<1>4. AskedInv'
  <2>1. \A f \in Events, u \in CallbackTypes :
          binding[f] = "valid" /\ Expected(f, u) => Expected(f, u)'
    BY <1>a, <1>c, <1>d, <1>e, <1>f DEF Expected
  <2> QED BY <1>a, <2>1 DEF AskedInv
<1> QED BY <1>1, <1>2, <1>3, <1>4

\* The callback makes one of its stores: if it sets the flag it is not expected any more,
\* and the flag of a valid event is set in the udinfo_t that the event has.
LEMMA KeptStore ==
  ASSUME TypeOK, KeptInv, NEW d \in Threads, Store(d)
  PROVE  KeptInv'
<1> USE DEF KeptInv, udVars
<1> DEFINE e == thread[d].event  t == thread[d].type  a == thread[d].udinfo
<1>a. /\ thread[d] # Idle /\ thread[d] \in ThreadCalls /\ a \in Addresses /\ a # Null
      /\ e \in Events /\ t \in CallbackTypes
      /\ UNCHANGED <<exec, pending, udVars, lua, asked, result>>
      /\ binding[e] = "valid" => a = info[e]
  <2>1. thread[d] # Idle /\ a # Null BY DEF Store
  <2> QED BY <2>1, CallParts DEF Store, PendingInv, TypeOK
<1>b. PICK f \in NextStore(d) :
        /\ IF f = "status" THEN UNCHANGED called
           ELSE called' = [called EXCEPT ![a] = @ \cup {t}]
        /\ thread' = [thread EXCEPT ![d] = IF thread[d].todo = {f} THEN Idle
                                           ELSE [thread[d] EXCEPT !.todo = @ \ {f}]]
  BY DEF Store
<1>c. f \in {"status", "called"} /\ f \in thread[d].todo
  BY <1>a, <1>b, CallParts DEF NextStore
<1> DEFINE next == [thread[d] EXCEPT !.todo = @ \ {f}]
<1>d. /\ next.event = e /\ next.type = t /\ next.udinfo = a /\ next.todo = thread[d].todo \ {f}
      /\ next # Idle
  <2>1. next.at = "call" BY <1>a DEF ThreadCalls, Idle
  <2> QED BY <1>a, <2>1 DEF ThreadCalls, Idle
<1>e. \A x \in Threads :
        thread'[x] = IF x # d THEN thread[x] ELSE IF thread[d].todo = {f} THEN Idle ELSE next
  BY <1>b DEF TypeOK
<1> HIDE DEF next
<1>f. /\ \A x \in Addresses : called[x] \subseteq called'[x]
      /\ f = "called" => t \in called'[a]
  <2>1. CASE f = "status" BY <1>b, <2>1
  <2>2. CASE f # "status"
    <3>1. called' = [called EXCEPT ![a] = called[a] \cup {t}] BY <1>b, <2>2
    <3>2. \A x \in Addresses : called'[x] = IF x = a THEN called[a] \cup {t} ELSE called[x]
      BY <1>a, <3>1 DEF TypeOK
    <3> QED BY <1>a, <3>2
  <2> QED BY <2>1, <2>2
<1>1. InfoInv' BY <1>a DEF InfoInv, HasInfo
<1>2. LuaInv'
  <2>1. lua.at # "idle" => info[lua.event] \in Addresses BY LuaParts DEF LuaInv, HasInfo, TypeOK
  <2> QED BY <1>a, <1>f, <2>1 DEF LuaInv, HasInfo
<1>3. PendingInv' BY <1>a, <1>d, <1>e DEF PendingInv
<1>4. AskedInv'
  <2> SUFFICES ASSUME NEW g \in Events, NEW u \in CallbackTypes, binding[g] = "valid",
                      <<g, u>> \in asked, ~Expected(g, u)'
               PROVE  u \in called'[info[g]]
    BY <1>a DEF AskedInv
  <2>1. info[g] \in Addresses BY DEF PendingInv, TypeOK
  <2>2. Expected(g, u) => f = "called" /\ g = e /\ u = t
    BY <1>a, <1>c, <1>d, <1>e DEF Expected
  <2> QED BY <1>a, <1>f, <2>1, <2>2 DEF AskedInv
<1> QED BY <1>1, <1>2, <1>3, <1>4

\* Nothing is registered at first, and every step preserves the invariant.
THEOREM KeptInvariance == Spec => []KeptInv
<1>1. Init => KeptInv
  BY DEF Init, KeptInv, InfoInv, LuaInv, PendingInv, AskedInv, HasInfo, Idle
<1>2. TypeOK /\ KeptInv /\ [Next]_vars => KeptInv'
  <2> SUFFICES ASSUME TypeOK, KeptInv, [Next]_vars PROVE KeptInv' OBVIOUS
  <2>1. CASE Lua
    <3>1. ASSUME NEW e \in Events, NEW s \in {Complete, Failed}, SetUserEventStatus(e, s)
          PROVE  KeptInv'
      BY <3>1, KeptSame DEF SetUserEventStatus, infoVars
    <3>2. ASSUME NEW e \in Events, NEW t \in CallbackTypes, CheckEventCallback(e, t)
          PROVE  KeptInv'
      BY <3>2, KeptCheck DEF CheckEventCallback, Script, Return, HasInfo
    <3>3. CASE ReadStatus BY <3>3, KeptCheck DEF ReadStatus, Return
    <3> QED BY <2>1, <3>1, <3>2, <3>3, KeptBinding, KeptReset, KeptRegister DEF Lua
  <2>2. ASSUME NEW e \in Events, Progress(e) PROVE KeptInv'
    BY <2>2, KeptSame DEF Progress, infoVars
  <2>3. ASSUME NEW d \in Threads, Callback(d) PROVE KeptInv'
    BY <2>3, KeptCall, KeptEnter, KeptStore DEF Callback
  <2>4. CASE UNCHANGED vars
    BY <2>4, KeptSame DEF vars, driverVars, infoVars
  <2> QED BY <2>1, <2>2, <2>3, <2>4 DEF Next
<1> QED BY <1>1, <1>2, TypeCorrect, PTL DEF Spec

\* Once the callbacks of a type have been called, its flag is set: no call is forgotten,
\* however the reset of the flag, the registration and the calls interleave, in whichever
\* order the stores are seen, and whichever events the script deletes.
THEOREM NothingLost == Spec => []NoLostNotification
<1>1. KeptInv => NoLostNotification
  BY DEF KeptInv, AskedInv, PendingInv, Expected, Awaited, NoLostNotification
<1> QED BY <1>1, KeptInvariance, PTL

-----------------------------------------------------------------------------
(***************************************************************************)
(* What is reported is true.  The lemmas take the types and KeptInv from   *)
(* the theorems above.                                                     *)
(***************************************************************************)
\* What is true of an event remains true when it proceeds.
LEMMA GoodStable ==
  ASSUME NEW x \in Statuses, NEW y \in Statuses, x > 0, y < x,
         NEW t \in {Submitted, Running, Complete}, NEW s \in Statuses, Good(x, t, s)
  PROVE  Good(y, t, s)
BY DEF Good, Statuses, Queued, Submitted, Running, Complete, Failed

\* What TruthInv is about does not change.
LEMMA TruthSame ==
  ASSUME TruthInv, UNCHANGED <<driverVars, udVars, infoVars, result>>
  PROVE  TruthInv'
BY DEF TruthInv, LiveInv, StoresInv, FlagInv, CheckTruthful, HasInfo, driverVars, udVars, infoVars

\* An event proceeds.
LEMMA TruthExec ==
  ASSUME TypeOK, KeptInv, TruthInv, NEW e \in Events, NEW y \in Statuses,
         exec[e] > 0, y < exec[e], exec' = [exec EXCEPT ![e] = y],
         UNCHANGED <<pending, thread, udVars, infoVars, result>>
  PROVE  TruthInv'
<1> USE DEF TruthInv, KeptInv, udVars, infoVars
<1>1. LiveInv' BY DEF LiveInv
<1>2. \A f \in Events : exec[f] \in Statuses /\ exec'[f] = IF f = e THEN y ELSE exec[f]
  BY DEF TypeOK
<1>3. ASSUME NEW f \in Events, NEW t \in CallbackTypes, NEW s \in Statuses, Good(exec[f], t, s)
      PROVE  Good(exec'[f], t, s)
  BY <1>2, <1>3, GoodStable, CallbackAssumption
<1>4. StoresInv'
  <2> SUFFICES ASSUME NEW d \in Threads, thread[d] # Idle
               PROVE  LET c == thread[d] IN
                      /\ Good(exec'[c.event], c.type, c.status)
                      /\ "status" \notin c.todo => Good(exec'[c.event], c.type, status[info[c.event]][c.type])
    BY DEF StoresInv
  <2>1. status[info[thread[d].event]][thread[d].type] \in Statuses
    BY CallParts DEF TypeOK, PendingInv
  <2> QED BY <1>3, <2>1, CallParts DEF StoresInv
<1>5. FlagInv'
  <2> SUFFICES ASSUME NEW f \in Events, NEW t \in CallbackTypes, HasInfo(f), t \in called[info[f]]
               PROVE  Good(exec'[f], t, status[info[f]][t])
    BY DEF FlagInv, HasInfo
  <2>1. status[info[f]][t] \in Statuses BY DEF TypeOK, HasInfo
  <2> QED BY <1>3, <2>1 DEF FlagInv
<1>6. CheckTruthful'
  <2>1. ASSUME result # Idle
        PROVE  /\ result.event \in Events /\ exec[result.event] \in Statuses
               /\ result.type \in {Submitted, Running, Complete}
    BY <2>1, <1>2, CallbackAssumption DEF TypeOK
  <2>2. ASSUME result # Idle, result.value = "true"
        PROVE  /\ exec'[result.event] <= result.type
               /\ result.type = Complete => exec'[result.event] = Complete
    BY <1>2, <2>1, <2>2 DEF CheckTruthful, Statuses, Queued, Submitted, Running, Complete, Failed
  <2>3. ASSUME result # Idle, result.value = "error"
        PROVE  exec'[result.event] < 0
    BY <1>2, <2>1, <2>3 DEF CheckTruthful, Statuses, Queued, Submitted, Running, Complete, Failed
  <2> QED BY <2>2, <2>3 DEF CheckTruthful
<1> QED BY <1>1, <1>4, <1>5, <1>6

\* A command that proceeds leaves what was said of it true.
LEMMA TruthProgress ==
  ASSUME TypeOK, KeptInv, TruthInv, NEW e \in Events, Progress(e)
  PROVE  TruthInv'
<1>1. PICK y \in Statuses : exec[e] > 0 /\ y < exec[e] /\ exec' = [exec EXCEPT ![e] = y]
  BY ExecType
<1>2. UNCHANGED <<pending, thread, udVars, infoVars, result>> BY DEF Progress
<1> QED BY <1>1, <1>2, TruthExec

\* And so does the script that sets the status of its event.
LEMMA TruthSetUserEventStatus ==
  ASSUME TypeOK, KeptInv, TruthInv, NEW e \in Events, NEW s \in {Complete, Failed},
         SetUserEventStatus(e, s)
  PROVE  TruthInv'
<1>1. exec[e] > 0 /\ s \in Statuses /\ s < exec[e] /\ exec' = [exec EXCEPT ![e] = s]
  BY DEF SetUserEventStatus, Script, Submitted, Statuses, Complete, Failed
<1>2. UNCHANGED <<pending, thread, udVars, infoVars, result>> BY DEF SetUserEventStatus
<1> QED BY <1>1, <1>2, TruthExec

\* Nothing is outstanding for an event that is deleted, and a new one has nothing yet.
LEMMA TruthBinding ==
  ASSUME ~DeletesPending, TypeOK, KeptInv, TruthInv, NEW e \in Events,
         CreateEvent(e) \/ Delete(e) \/ Collect(e)
  PROVE  TruthInv'
<1> USE DEF CreateEvent, Delete, Collect, Script, KeptInv, TruthInv, driverVars, udVars, infoVars
<1>1. \A f \in Events : f # e => binding'[f] = binding[f] BY DEF TypeOK
<1>2. UNCHANGED <<exec, pending, thread, info, called, status, result>> OBVIOUS
<1>3. CASE Delete(e)
  <2>1. LiveInv' BY <1>1, <1>2, <1>3 DEF LiveInv, Outstanding
  <2>2. \A f \in Events : HasInfo(f)' => HasInfo(f) BY <1>1, <1>3 DEF HasInfo, TypeOK
  <2>3. FlagInv' BY <1>2, <2>2 DEF FlagInv
  <2>4. StoresInv' /\ CheckTruthful' BY <1>2 DEF StoresInv, CheckTruthful
  <2> QED BY <2>1, <2>3, <2>4
<1>4. CASE CreateEvent(e) \/ Collect(e)
  <2>1. LiveInv'
    <3>1. binding[e] # "valid" BY <1>4
    <3> QED BY <1>1, <1>2, <3>1, CallParts DEF LiveInv
  <2>2. \A f \in Events : HasInfo(f)' => HasInfo(f)
    <3>1. CASE CreateEvent(e) BY <1>1, <1>2, <3>1 DEF HasInfo, InfoInv
    <3>2. CASE Collect(e) BY <1>1, <1>2, <3>2 DEF HasInfo, TypeOK
    <3> QED BY <1>4, <3>1, <3>2
  <2>3. FlagInv' BY <1>2, <2>2 DEF FlagInv
  <2>4. StoresInv' /\ CheckTruthful' BY <1>2 DEF StoresInv, CheckTruthful
  <2> QED BY <2>1, <2>3, <2>4
<1> QED BY <1>3, <1>4

\* A new udinfo_t has no flags, and a flag that is reset needs no status.
LEMMA TruthReset ==
  ASSUME TypeOK, KeptInv, TruthInv, NEW e \in Events, NEW t \in CallbackTypes,
         SetEventCallback(e, t)
  PROVE  TruthInv'
<1> USE DEF KeptInv, TruthInv, driverVars
<1>a. /\ binding[e] = "valid" /\ Null \notin Addresses
      /\ UNCHANGED <<exec, pending, thread, binding, result>>
  BY CallbackAssumption DEF SetEventCallback, Script
<1>1. LiveInv' /\ CheckTruthful' BY <1>a DEF LiveInv, CheckTruthful
<1>b. CASE info[e] = Null
  <2>1. PICK a \in Addresses \ allocated :
          /\ info' = [info EXCEPT ![e] = a]
          /\ called' = [called EXCEPT ![a] = {}]
          /\ status' = [status EXCEPT ![a] = [u \in CallbackTypes |-> 0]]
    BY <1>b DEF SetEventCallback
  <2>2. \A f \in Events : info'[f] = IF f = e THEN a ELSE info[f] BY <2>1 DEF TypeOK
  <2>3. \A f \in Events : HasInfo(f) => info[f] # a BY <2>1 DEF InfoInv
  <2>4. ~ \E d \in Threads : thread[d] # Idle /\ thread[d].event = e
    BY <1>b DEF PendingInv
  <2>5. \A f \in Events : HasInfo(f) =>
          called'[info'[f]] = called[info[f]] /\ status'[info'[f]] = status[info[f]]
    BY <1>b, <2>1, <2>2, <2>3 DEF TypeOK, HasInfo
  <2>6. StoresInv'
    <3>1. \A d \in Threads : thread[d] # Idle =>
            thread[d].event \in Events /\ thread[d].event # e /\ HasInfo(thread[d].event)
      BY <2>4, CallParts DEF LiveInv, PendingInv, HasInfo
    <3> QED BY <1>a, <2>5, <3>1 DEF StoresInv
  <2>7. FlagInv'
    <3>1. called'[info'[e]] = {} BY <2>1, <2>2 DEF TypeOK
    <3> QED BY <1>a, <2>2, <2>5, <3>1 DEF FlagInv, HasInfo
  <2> QED BY <1>1, <2>6, <2>7
<1>c. CASE info[e] # Null
  <2>1. /\ called' = [called EXCEPT ![info[e]] = @ \ {t}]
        /\ UNCHANGED <<info, allocated, status>>
    BY <1>c DEF SetEventCallback
  <2>2. info[e] \in Addresses BY <1>c DEF TypeOK
  <2>3. \A f \in Events : HasInfo(f) => called'[info[f]] \subseteq called[info[f]]
    BY <2>1, <2>2 DEF TypeOK, HasInfo
  <2>4. StoresInv' BY <1>a, <2>1 DEF StoresInv
  <2>5. FlagInv' BY <1>a, <2>1, <2>3 DEF FlagInv, HasInfo
  <2> QED BY <1>1, <2>4, <2>5
<1> QED BY <1>b, <1>c

\* The driver registers a callback for a valid event, or fails.
LEMMA TruthRegister ==
  ASSUME TypeOK, KeptInv, TruthInv, Register
  PROVE  TruthInv'
<1> USE DEF KeptInv, TruthInv, udVars, infoVars
<1> DEFINE e == lua.event  t == lua.type
<1>1. /\ e \in Events /\ t \in CallbackTypes /\ binding[e] = "valid"
      /\ UNCHANGED <<exec, thread, udVars, infoVars, result>>
  BY LuaParts DEF Register, LuaInv, HasInfo
<1>2. \A f \in Events : f # e => pending'[f] = pending[f]
  BY <1>1 DEF Register, TypeOK
<1>3. LiveInv' BY <1>1, <1>2 DEF LiveInv
<1>4. StoresInv' /\ FlagInv' /\ CheckTruthful' BY <1>1 DEF StoresInv, FlagInv, CheckTruthful, HasInfo
<1> QED BY <1>3, <1>4

\* A flag that is not set is reported as false.
LEMMA TruthCheck ==
  ASSUME TypeOK, TruthInv, NEW e \in Events, NEW t \in CallbackTypes, CheckEventCallback(e, t)
  PROVE  TruthInv'
<1> USE DEF CheckEventCallback, Return, driverVars, udVars, infoVars
<1>1. CheckTruthful' BY DEF TruthInv, CheckTruthful
<1>2. LiveInv' /\ StoresInv' /\ FlagInv'
  BY DEF TruthInv, LiveInv, StoresInv, FlagInv, HasInfo
<1> QED BY <1>1, <1>2 DEF TruthInv

\* The status behind a flag that is set is good.
LEMMA TruthReadStatus ==
  ASSUME TypeOK, KeptInv, TruthInv, ReadStatus
  PROVE  TruthInv'
<1> USE DEF ReadStatus, Return, KeptInv, TruthInv, driverVars, udVars, infoVars
<1>1. LiveInv' /\ StoresInv' /\ FlagInv'
  BY DEF LiveInv, StoresInv, FlagInv, HasInfo
<1>2. CheckTruthful'
  <2> DEFINE e == lua.event  t == lua.type  st == status[info[e]][t]
  <2>1. e \in Events /\ t \in {Submitted, Running, Complete} /\ t \in CallbackTypes
        /\ HasInfo(e) /\ t \in called[info[e]]
    BY LuaParts, CallbackAssumption DEF LuaInv
  <2>2. Good(exec[e], t, st) BY <2>1 DEF FlagInv
  <2>3. exec[e] \in Statuses /\ st \in Statuses BY <2>1 DEF TypeOK, HasInfo
  <2>4. result' = [at |-> "returned", event |-> e, type |-> t,
                   value |-> IF st < 0 THEN "error" ELSE "true"] /\ exec' = exec
    OBVIOUS
  <2> QED BY <2>1, <2>2, <2>3, <2>4 DEF CheckTruthful, Good, Statuses, Queued, Submitted, Running, Complete, Failed
<1> QED BY <1>1, <1>2

\* A callback is called with a status that is good.
LEMMA TruthCall ==
  ASSUME TypeOK, TruthInv, NEW d \in Threads, NEW e \in Events, NEW t \in CallbackTypes, Call(d, e, t)
  PROVE  TruthInv'
<1> USE DEF TruthInv, udVars, infoVars
<1> DEFINE c == [at |-> "call", event |-> e, type |-> t,
                 status |-> IF exec[e] < 0 THEN exec[e] ELSE t,
                 udinfo |-> Null, todo |-> {"status", "called"}]
<1>a. /\ pending[e][t] > 0 /\ exec[e] <= t
      /\ pending' = [pending EXCEPT ![e][t] = @ - 1]
      /\ thread' = [thread EXCEPT ![d] = c]
      /\ UNCHANGED <<exec, udVars, infoVars, lua, asked, result>>
  BY DEF Call
<1>b. \A x \in Threads : thread'[x] = IF x = d THEN c ELSE thread[x] BY <1>a DEF TypeOK
<1>c. Good(exec[e], t, IF exec[e] < 0 THEN exec[e] ELSE t)
  <2>1. exec[e] \in Statuses /\ t \in {Submitted, Running, Complete}
    BY CallbackAssumption DEF TypeOK
  <2> QED BY <1>a, <2>1 DEF Good, Statuses, Queued, Submitted, Running, Complete, Failed
<1>1. LiveInv'
  <2>1. binding[e] = "valid" BY <1>a DEF LiveInv
  <2>2. \A f \in Events : f # e => pending'[f] = pending[f] BY <1>a DEF TypeOK
  <2> QED BY <1>a, <1>b, <2>1, <2>2 DEF LiveInv
<1>2. StoresInv'
  <2> SUFFICES ASSUME NEW x \in Threads, thread'[x] # Idle
               PROVE  LET k == thread'[x] IN
                      /\ Good(exec[k.event], k.type, k.status)
                      /\ "called" \in k.todo
                      /\ k.udinfo = Null => "status" \in k.todo
                      /\ "status" \notin k.todo => Good(exec[k.event], k.type, status[info[k.event]][k.type])
    BY <1>a DEF StoresInv
  <2>1. CASE x = d BY <1>b, <1>c, <2>1
  <2>2. CASE x # d BY <1>b, <2>2 DEF StoresInv
  <2> QED BY <2>1, <2>2
<1>3. FlagInv' /\ CheckTruthful' BY <1>a DEF FlagInv, CheckTruthful, HasInfo
<1> QED BY <1>1, <1>2, <1>3

\* The callback finds the udinfo_t of its event.
LEMMA TruthEnter ==
  ASSUME TypeOK, KeptInv, TruthInv, NEW d \in Threads, Enter(d)
  PROVE  TruthInv'
<1> USE DEF KeptInv, TruthInv, udVars, infoVars
<1>a. /\ thread[d] # Idle /\ thread[d].udinfo = Null /\ thread[d] \in ThreadCalls
      /\ thread[d].event \in Events /\ binding[thread[d].event] = "valid"
      /\ info[thread[d].event] # Null
      /\ UNCHANGED <<exec, pending, udVars, infoVars, result>>
  BY CallParts DEF Enter, PendingInv, LiveInv, TypeOK
<1> DEFINE next == [thread[d] EXCEPT !.udinfo = info[thread[d].event]]
<1>b. thread' = [thread EXCEPT ![d] = next] BY <1>a DEF Enter, InfoRead
<1>c. /\ next.event = thread[d].event /\ next.type = thread[d].type /\ next.status = thread[d].status
      /\ next.todo = thread[d].todo /\ next.udinfo = info[thread[d].event]
  BY <1>a DEF ThreadCalls, Idle
<1>d. \A x \in Threads : thread'[x] = IF x = d THEN next ELSE thread[x] BY <1>b DEF TypeOK
<1> HIDE DEF next
<1>1. LiveInv' BY <1>a, <1>c, <1>d DEF LiveInv
<1>2. StoresInv' BY <1>a, <1>c, <1>d DEF StoresInv
<1>3. FlagInv' /\ CheckTruthful' BY <1>a DEF FlagInv, CheckTruthful, HasInfo
<1> QED BY <1>1, <1>2, <1>3

\* The callback stores the status first, and in its own event's udinfo_t.
LEMMA TruthStore ==
  ASSUME InOrderStores, TypeOK, KeptInv, TruthInv, NEW d \in Threads, Store(d)
  PROVE  TruthInv'
<1> USE DEF KeptInv, TruthInv, udVars, infoVars
<1> DEFINE e == thread[d].event  t == thread[d].type  a == thread[d].udinfo
           next == [thread[d] EXCEPT !.todo = {"called"}]
<1>a. /\ thread[d] # Idle /\ thread[d] \in ThreadCalls
      /\ e \in Events /\ t \in CallbackTypes /\ thread[d].status \in Statuses
      /\ HasInfo(e) /\ a = info[e] /\ a \in Addresses
      /\ thread[d].todo \in {{"status", "called"}, {"called"}}
      /\ Good(exec[e], t, thread[d].status)
  <2>1. thread[d] # Idle /\ thread[d].udinfo # Null BY DEF Store
  <2> QED BY <2>1, CallParts DEF PendingInv, LiveInv, StoresInv, HasInfo, TypeOK
<1>b. UNCHANGED <<exec, pending, udVars, lua, asked, result>> BY DEF Store
<1>c. /\ next.event = e /\ next.type = t /\ next.udinfo = a
      /\ next.status = thread[d].status /\ next.todo = {"called"}
  BY <1>a DEF ThreadCalls, Idle
<1>d. ASSUME NEW f \in Events, HasInfo(f), info[f] = a PROVE f = e
  BY <1>a, <1>d DEF InfoInv
<1>1. CheckTruthful' BY <1>b DEF CheckTruthful
\* The status is stored; the flag is still to be set.
<1>2. CASE thread[d].todo = {"status", "called"}
  <2>1. {"status", "called"} \ {"status"} = {"called"} /\ {"status", "called"} # {"status"} OBVIOUS
  <2>2. /\ status' = [status EXCEPT ![a][t] = thread[d].status] /\ called' = called
        /\ thread' = [thread EXCEPT ![d] = next]
    BY <1>2, <2>1 DEF Store, NextStore
  <2>3. \A x \in Threads : thread'[x] = IF x = d THEN next ELSE thread[x] BY <2>2 DEF TypeOK
  <2>4. \A x \in Addresses, u \in CallbackTypes :
          status'[x][u] = IF x = a /\ u = t THEN thread[d].status ELSE status[x][u]
    BY <1>a, <2>2 DEF TypeOK
  <2> HIDE DEF next
  <2>5. LiveInv' BY <1>a, <1>b, <1>c, <2>3 DEF LiveInv
  <2>6. StoresInv'
    <3> SUFFICES ASSUME NEW x \in Threads, thread'[x] # Idle
                 PROVE  LET k == thread'[x] IN
                        /\ Good(exec[k.event], k.type, k.status)
                        /\ "called" \in k.todo
                        /\ k.udinfo = Null => "status" \in k.todo
                        /\ "status" \notin k.todo => Good(exec[k.event], k.type, status'[info[k.event]][k.type])
      BY <1>b DEF StoresInv
    <3>1. CASE x = d
      <4>1. status'[info[e]][t] = thread[d].status BY <1>a, <2>4
      <4> QED BY <1>a, <1>c, <2>3, <3>1, <4>1 DEF HasInfo
    <3>2. CASE x # d
      <4>1. thread'[x] = thread[x] BY <2>3, <3>2
      <4>2. /\ thread[x].event \in Events /\ thread[x].type \in CallbackTypes
            /\ HasInfo(thread[x].event) /\ info[thread[x].event] \in Addresses
        BY <4>1, CallParts DEF LiveInv, PendingInv, HasInfo, TypeOK
      <4>3. info[thread[x].event] = a => thread[x].event = e BY <1>d, <4>2
      <4>4. status'[info[thread[x].event]][thread[x].type] =
              IF info[thread[x].event] = a /\ thread[x].type = t THEN thread[d].status
              ELSE status[info[thread[x].event]][thread[x].type]
        BY <2>4, <4>2
      <4> QED BY <1>a, <4>1, <4>3, <4>4 DEF StoresInv
    <3> QED BY <3>1, <3>2
  <2>7. FlagInv'
    <3> SUFFICES ASSUME NEW f \in Events, NEW u \in CallbackTypes, HasInfo(f), u \in called[info[f]]
                 PROVE  Good(exec[f], u, status'[info[f]][u])
      BY <1>b, <2>2 DEF FlagInv, HasInfo
    <3>1. info[f] \in Addresses /\ (info[f] = a => f = e) BY <1>d DEF HasInfo, TypeOK
    <3>2. status'[info[f]][u] = IF info[f] = a /\ u = t THEN thread[d].status ELSE status[info[f]][u]
      BY <2>4, <3>1
    <3> QED BY <1>a, <3>1, <3>2 DEF FlagInv
  <2> QED BY <1>1, <2>5, <2>6, <2>7
\* The flag is set, and the callback returns.
<1>3. CASE thread[d].todo = {"called"}
  <2>1. /\ called' = [called EXCEPT ![a] = @ \cup {t}] /\ status' = status
        /\ thread' = [thread EXCEPT ![d] = Idle]
    BY <1>a, <1>3 DEF Store, NextStore
  <2>2. Good(exec[e], t, status[a][t]) BY <1>a, <1>3 DEF StoresInv
  <2>3. \A x \in Threads : thread'[x] = IF x = d THEN Idle ELSE thread[x] BY <2>1 DEF TypeOK
  <2>4. \A x \in Addresses : called'[x] = IF x = a THEN called[x] \cup {t} ELSE called[x]
    BY <1>a, <2>1 DEF TypeOK
  <2>5. LiveInv' BY <1>b, <2>3 DEF LiveInv
  <2>6. StoresInv' BY <1>b, <2>1, <2>3 DEF StoresInv
  <2>7. FlagInv'
    <3> SUFFICES ASSUME NEW f \in Events, NEW u \in CallbackTypes, HasInfo(f), u \in called'[info[f]]
                 PROVE  Good(exec[f], u, status[info[f]][u])
      BY <1>b, <2>1 DEF FlagInv, HasInfo
    <3>1. info[f] \in Addresses /\ (info[f] = a => f = e) BY <1>d DEF HasInfo, TypeOK
    <3>2. u \in called[info[f]] \/ (f = e /\ u = t) BY <2>4, <3>1
    <3> QED BY <1>a, <2>2, <3>2 DEF FlagInv
  <2> QED BY <1>1, <2>5, <2>6, <2>7
<1> QED BY <1>a, <1>2, <1>3

\* The invariant holds if the callback's stores are seen in order and no event is deleted
\* before its callbacks have returned.
THEOREM TruthInvariance == ASSUME InOrderStores, ~DeletesPending PROVE Spec => []TruthInv
<1>1. Init => TruthInv
  BY DEF Init, TruthInv, LiveInv, StoresInv, FlagInv, CheckTruthful, HasInfo
<1>2. TypeOK /\ KeptInv /\ TruthInv /\ [Next]_vars => TruthInv'
  <2> SUFFICES ASSUME TypeOK, KeptInv, TruthInv, [Next]_vars PROVE TruthInv' OBVIOUS
  <2>1. CASE Lua
    BY <2>1, TruthBinding, TruthSetUserEventStatus, TruthReset, TruthRegister, TruthCheck,
       TruthReadStatus DEF Lua
  <2>2. ASSUME NEW e \in Events, Progress(e) PROVE TruthInv'
    BY <2>2, TruthProgress
  <2>3. ASSUME NEW d \in Threads, Callback(d) PROVE TruthInv'
    BY <2>3, TruthCall, TruthEnter, TruthStore DEF Callback
  <2>4. CASE UNCHANGED vars
    BY <2>4, TruthSame DEF vars
  <2> QED BY <2>1, <2>2, <2>3, <2>4 DEF Next
<1> QED BY <1>1, <1>2, TypeCorrect, KeptInvariance, PTL DEF Spec

\* check_event_callback reports true and an error only of events that have reached the
\* status, or failed.
THEOREM Truthful == ASSUME InOrderStores, ~DeletesPending PROVE Spec => []CheckTruthful
<1>1. TruthInv => CheckTruthful BY DEF TruthInv
<1> QED BY TruthInvariance, <1>1, PTL

-----------------------------------------------------------------------------
(***************************************************************************)
(* The notices look atomic (Notices): each step of the code is one of the  *)
(* board, or none.  Under the hypotheses of Truthful.                      *)
(***************************************************************************)
BoardStep == [Board!Next]_(Board!vars)

\* A step that leaves what the script can see, and what is due, changes nothing.
LEMMA BoardSame ==
  ASSUME UNCHANGED <<exec, result>>,
         \A e \in Events, t \in CallbackTypes :
           Notice(e, t)' = Notice(e, t) /\ (Expected(e, t)' <=> Expected(e, t))
  PROVE  BoardStep
<1>1. Shown' = Shown BY DEF Shown
<1>2. Due' = Due BY DEF Due
<1> QED BY <1>1, <1>2 DEF BoardStep, Board!vars

\* Only the notice for type t of e changes.
LEMMA ShownExcept ==
  ASSUME NEW e \in Events, NEW t \in CallbackTypes, NEW S, Notice(e, t)' = S,
         \A f \in Events, u \in CallbackTypes : <<f, u>> # <<e, t>> => Notice(f, u)' = Notice(f, u)
  PROVE  Shown' = [Shown EXCEPT ![e][t] = S]
<1>1. \A f \in Events, u \in CallbackTypes :
        Shown'[f][u] = IF f = e /\ u = t THEN S ELSE Shown[f][u]
  BY DEF Shown
<1>2. Shown' = [f \in Events |-> [u \in CallbackTypes |-> Shown'[f][u]]] BY DEF Shown
<1>3. [Shown EXCEPT ![e][t] = S]
        = [f \in Events |-> [u \in CallbackTypes |-> IF f = e /\ u = t THEN S ELSE Shown[f][u]]]
  BY DEF Shown
<1> QED BY <1>1, <1>2, <1>3

\* The board has an empty notice for everything when it starts.
LEMMA BoardInit == Init => Board!Init
<1> SUFFICES ASSUME Init PROVE Board!Init OBVIOUS
<1>1. exec \in [Events -> Statuses] BY DEF Init, Statuses, Submitted, Queued
<1>2. \A e \in Events, t \in CallbackTypes : ~Expected(e, t) /\ Notice(e, t) = {}
  BY DEF Init, Expected, Notice, HasInfo
<1>3. Due = {} BY <1>2 DEF Due
<1>4. Shown = [e \in Events |-> Board!NoNotices] BY <1>2 DEF Shown, Board!NoNotices
<1>5. result = [at |-> "idle"] BY DEF Init, Idle
<1> QED BY <1>1, <1>3, <1>4, <1>5 DEF Board!Init

\* A command proceeds.
LEMMA BoardExec ==
  ASSUME NEW e \in Events, NEW s \in Statuses, s < exec[e], exec' = [exec EXCEPT ![e] = s],
         UNCHANGED <<pending, thread, udVars, infoVars, result>>
  PROVE  BoardStep
<1>1. Shown' = Shown BY DEF Shown, Notice, HasInfo, udVars, infoVars
<1>2. Due' = Due BY DEF Due, Expected
<1>3. Board!Proceed(e) BY <1>1, <1>2 DEF Board!Proceed
<1> QED BY <1>3 DEF BoardStep, Board!Next

\* Bindings that come or are collected have no notices; with one that is deleted they go.
LEMMA BoardBinding ==
  ASSUME ~DeletesPending, TypeOK, KeptInv, NEW e \in Events,
         CreateEvent(e) \/ Delete(e) \/ Collect(e)
  PROVE  BoardStep
<1> USE DEF CreateEvent, Delete, Collect, Script, driverVars, udVars, infoVars
<1>1. \A f \in Events : f # e => binding'[f] = binding[f] BY DEF TypeOK
<1>2. UNCHANGED <<exec, pending, thread, info, called, status, result>> OBVIOUS
<1>3. \A f \in Events, t \in CallbackTypes : Expected(f, t)' <=> Expected(f, t)
  BY <1>2 DEF Expected
<1>4. \A f \in Events, t \in CallbackTypes : f # e => Notice(f, t)' = Notice(f, t)
  BY <1>1, <1>2 DEF Notice, HasInfo
<1>5. CASE Delete(e)
  <2>1. \A t \in CallbackTypes : ~Expected(e, t) BY <1>5 DEF Expected, Outstanding
  <2>2. ~HasInfo(e)' BY <1>5 DEF HasInfo, TypeOK
  <2>3. Shown' = [Shown EXCEPT ![e] = Board!NoNotices]
    BY <1>4, <2>2 DEF Shown, Notice, Board!NoNotices
  <2>4. Due' = Due BY <1>3 DEF Due
  <2>5. Board!Forget(e) BY <1>2, <2>1, <2>3, <2>4 DEF Board!Forget, Due
  <2> QED BY <2>5 DEF BoardStep, Board!Next
<1>6. CASE CreateEvent(e) \/ Collect(e)
  <2>1. ~HasInfo(e) BY <1>6 DEF HasInfo
  <2>2. ~HasInfo(e)'
    <3>1. CASE CreateEvent(e) BY <1>2, <3>1 DEF HasInfo, KeptInv, InfoInv
    <3>2. CASE Collect(e) BY <3>2 DEF HasInfo, TypeOK
    <3> QED BY <1>6, <3>1, <3>2
  <2>3. \A t \in CallbackTypes : Notice(e, t)' = Notice(e, t) BY <2>1, <2>2 DEF Notice
  <2> QED BY <1>2, <1>3, <1>4, <2>3, BoardSame
<1> QED BY <1>5, <1>6

\* set_event_callback takes the notice down; there is none if the udinfo_t is new.
LEMMA BoardReset ==
  ASSUME TypeOK, KeptInv, NEW e \in Events, NEW t \in CallbackTypes, SetEventCallback(e, t)
  PROVE  BoardStep
<1>a. /\ binding[e] = "valid" /\ Null \notin Addresses
      /\ UNCHANGED <<exec, pending, thread, binding, result>>
  BY CallbackAssumption DEF SetEventCallback, Script, driverVars
<1>1. \A f \in Events, u \in CallbackTypes : Expected(f, u)' <=> Expected(f, u)
  BY <1>a DEF Expected
<1>b. CASE info[e] = Null
  <2>1. PICK a \in Addresses \ allocated :
          /\ info' = [info EXCEPT ![e] = a]
          /\ called' = [called EXCEPT ![a] = {}]
          /\ status' = [status EXCEPT ![a] = [u \in CallbackTypes |-> 0]]
    BY <1>b DEF SetEventCallback
  <2>2. \A f \in Events : info'[f] = IF f = e THEN a ELSE info[f] BY <2>1 DEF TypeOK
  <2>3. \A f \in Events : HasInfo(f) => info[f] # a BY <2>1 DEF KeptInv, InfoInv
  <2>4. \A f \in Events : HasInfo(f) =>
          called'[info'[f]] = called[info[f]] /\ status'[info'[f]] = status[info[f]]
    BY <1>b, <2>1, <2>2, <2>3 DEF TypeOK, HasInfo
  <2>5. called'[info'[e]] = {} BY <2>1, <2>2 DEF TypeOK
  <2>6. \A u \in CallbackTypes : Notice(e, u)' = {} /\ Notice(e, u) = {}
    BY <1>b, <2>5 DEF Notice, HasInfo
  <2>7. \A f \in Events, u \in CallbackTypes : f # e => Notice(f, u)' = Notice(f, u)
    BY <1>a, <2>2, <2>4 DEF Notice, HasInfo
  <2> QED BY <1>a, <1>1, <2>6, <2>7, BoardSame
<1>c. CASE info[e] # Null
  <2>1. /\ called' = [called EXCEPT ![info[e]] = @ \ {t}]
        /\ UNCHANGED <<info, allocated, status>>
    BY <1>c DEF SetEventCallback
  <2>2. info[e] \in Addresses /\ \A f \in Events : HasInfo(f) /\ info[f] = info[e] => f = e
    BY <1>a, <1>c DEF TypeOK, KeptInv, InfoInv, HasInfo
  <2>3. \A x \in Addresses :
          called'[x] = IF x = info[e] THEN called[x] \ {t} ELSE called[x]
    BY <2>1, <2>2 DEF TypeOK
  <2>4. Notice(e, t)' = {} BY <2>1, <2>2, <2>3 DEF Notice
  <2>5. \A f \in Events, u \in CallbackTypes : <<f, u>> # <<e, t>> => Notice(f, u)' = Notice(f, u)
    <3> SUFFICES ASSUME NEW f \in Events, NEW u \in CallbackTypes, <<f, u>> # <<e, t>>, HasInfo(f)
                 PROVE  Notice(f, u)' = Notice(f, u)
      BY <1>a, <2>1 DEF Notice, HasInfo
    <3>1. info[f] \in Addresses BY DEF HasInfo, TypeOK
    <3>2. u \in called'[info[f]] <=> u \in called[info[f]] BY <2>2, <2>3, <3>1
    <3> QED BY <1>a, <2>1, <3>2 DEF Notice, HasInfo
  <2>6. Shown' = [Shown EXCEPT ![e][t] = {}] BY <2>4, <2>5, ShownExcept
  <2>7. Due' = Due BY <1>1 DEF Due
  <2>8. Board!TakeDown(e, t) BY <1>a, <2>6, <2>7 DEF Board!TakeDown
  <2> QED BY <2>8 DEF BoardStep, Board!Next
<1> QED BY <1>b, <1>c

\* With a callback registered its notice is due.
LEMMA BoardRegister ==
  ASSUME TypeOK, KeptInv, Register
  PROVE  BoardStep
<1> DEFINE e == lua.event  t == lua.type
<1>1. /\ e \in Events /\ t \in CallbackTypes
      /\ UNCHANGED <<exec, thread, udVars, infoVars, result>>
  BY LuaParts DEF Register
<1>2. \A f \in Events, u \in CallbackTypes : Notice(f, u)' = Notice(f, u)
  BY <1>1 DEF Notice, HasInfo, udVars, infoVars
<1>3. CASE pending' = pending
  <2>1. \A f \in Events, u \in CallbackTypes : Expected(f, u)' <=> Expected(f, u)
    BY <1>1, <1>3 DEF Expected
  <2> QED BY <1>1, <1>2, <2>1, BoardSame
<1>4. CASE pending' = [pending EXCEPT ![e][t] = @ + 1]
  <2>1. \A f \in Events, u \in CallbackTypes :
          /\ pending[f][u] \in Nat
          /\ pending'[f][u] = IF f = e /\ u = t THEN pending[f][u] + 1 ELSE pending[f][u]
    BY <1>1, <1>4 DEF TypeOK
  <2>2. pending'[e][t] > 0 BY <1>1, <2>1
  <2>3. \A f \in Events, u \in CallbackTypes :
          Expected(f, u)' <=> Expected(f, u) \/ <<f, u>> = <<e, t>>
    BY <1>1, <2>1, <2>2 DEF Expected
  <2>4. Due' = Due \cup {<<e, t>>} BY <1>1, <2>3 DEF Due
  <2>5. Shown' = Shown BY <1>2 DEF Shown
  <2>6. Board!Expect(e, t) BY <1>1, <2>4, <2>5 DEF Board!Expect
  <2> QED BY <1>1, <2>6 DEF BoardStep, Board!Next
<1> QED BY <1>3, <1>4 DEF Register

\* Steps in which the driver and the bindings are left alone, and no notice changes.
LEMMA BoardAnswer ==
  ASSUME UNCHANGED <<exec, pending, thread, udVars, infoVars>>, NEW e \in Events,
         NEW t \in CallbackTypes,
         result' = [at |-> "returned", event |-> e, type |-> t,
                    value |-> IF Notice(e, t) = {} THEN "false"
                              ELSE IF \E s \in Notice(e, t) : s < 0 THEN "error" ELSE "true"]
  PROVE  BoardStep
<1>1. Shown' = Shown BY DEF Shown, Notice, HasInfo, udVars, infoVars
<1>2. Due' = Due BY DEF Due, Expected
<1>3. Shown[e][t] = Notice(e, t) BY DEF Shown
<1>4. Board!Answer(e, t) BY <1>1, <1>2, <1>3 DEF Board!Answer
<1> QED BY <1>4 DEF BoardStep, Board!Next

\* check_event_callback answers when it reads a flag that is not set.
LEMMA BoardCheck ==
  ASSUME NEW e \in Events, NEW t \in CallbackTypes, CheckEventCallback(e, t)
  PROVE  BoardStep
<1> USE DEF CheckEventCallback, Script, Return, driverVars
<1>1. UNCHANGED <<exec, pending, thread, udVars, infoVars>> OBVIOUS
<1>2. CASE info[e] # Null /\ t \in called[info[e]]
  <2>1. UNCHANGED result BY <1>2
  <2>2. \A f \in Events, u \in CallbackTypes :
          Notice(f, u)' = Notice(f, u) /\ (Expected(f, u)' <=> Expected(f, u))
    BY <1>1 DEF Notice, Expected, HasInfo, udVars, infoVars
  <2> QED BY <1>1, <2>1, <2>2, BoardSame
<1>3. CASE ~(info[e] # Null /\ t \in called[info[e]])
  <2>1. Notice(e, t) = {} BY <1>3 DEF Notice, HasInfo
  <2>2. result' = [at |-> "returned", event |-> e, type |-> t, value |-> "false"] BY <1>3
  <2> QED BY <1>1, <2>1, <2>2, BoardAnswer
<1> QED BY <1>2, <1>3

\* Otherwise it answers when it reads the status.
LEMMA BoardReadStatus ==
  ASSUME TypeOK, KeptInv, ReadStatus
  PROVE  BoardStep
<1> DEFINE e == lua.event  t == lua.type  s == status[info[e]][t]
<1>1. /\ e \in Events /\ t \in CallbackTypes /\ HasInfo(e) /\ t \in called[info[e]]
      /\ UNCHANGED <<exec, pending, thread, udVars, infoVars>>
      /\ result' = [at |-> "returned", event |-> e, type |-> t,
                    value |-> IF s < 0 THEN "error" ELSE "true"]
  BY LuaParts DEF ReadStatus, Return, KeptInv, LuaInv, driverVars
<1>2. Notice(e, t) = {s} BY <1>1 DEF Notice
<1> HIDE DEF e, t, s
<1>3. result' = [at |-> "returned", event |-> e, type |-> t,
                 value |-> IF Notice(e, t) = {} THEN "false"
                           ELSE IF \E x \in Notice(e, t) : x < 0 THEN "error" ELSE "true"]
  BY <1>1, <1>2
<1> QED BY <1>1, <1>3, BoardAnswer

\* A callback that is called is still due.
LEMMA BoardCall ==
  ASSUME TypeOK, NEW d \in Threads, NEW e \in Events, NEW t \in CallbackTypes, Call(d, e, t)
  PROVE  BoardStep
<1> DEFINE c == [at |-> "call", event |-> e, type |-> t,
                 status |-> IF exec[e] < 0 THEN exec[e] ELSE t,
                 udinfo |-> Null, todo |-> {"status", "called"}]
<1>a. /\ thread[d] = Idle /\ pending[e][t] > 0
      /\ pending' = [pending EXCEPT ![e][t] = @ - 1]
      /\ thread' = [thread EXCEPT ![d] = c]
      /\ UNCHANGED <<exec, udVars, infoVars, lua, asked, result>>
  BY DEF Call
<1>b. \A x \in Threads : thread'[x] = IF x = d THEN c ELSE thread[x] BY <1>a DEF TypeOK
<1>c. c # Idle /\ c.event = e /\ c.type = t /\ "called" \in c.todo BY DEF Idle
<1> HIDE DEF c
<1>1. \A f \in Events, u \in CallbackTypes :
        /\ pending[f][u] \in Nat
        /\ pending'[f][u] = IF f = e /\ u = t THEN pending[f][u] - 1 ELSE pending[f][u]
  BY <1>a DEF TypeOK
<1>2. Expected(e, t)' /\ Expected(e, t) BY <1>a, <1>b, <1>c DEF Expected
<1>3. \A f \in Events, u \in CallbackTypes : <<f, u>> # <<e, t>> =>
        (Expected(f, u)' <=> Expected(f, u))
  <2> SUFFICES ASSUME NEW f \in Events, NEW u \in CallbackTypes, <<f, u>> # <<e, t>>
               PROVE  Expected(f, u)' <=> Expected(f, u)
    OBVIOUS
  <2>1. pending'[f][u] = pending[f][u] BY <1>1
  <2>2. \A x \in Threads :
          (/\ thread'[x] # Idle /\ "called" \in thread'[x].todo
           /\ thread'[x].event = f /\ thread'[x].type = u)
          <=> (/\ thread[x] # Idle /\ "called" \in thread[x].todo
               /\ thread[x].event = f /\ thread[x].type = u)
    BY <1>a, <1>b, <1>c
  <2> QED BY <2>1, <2>2 DEF Expected
<1>4. \A f \in Events, u \in CallbackTypes : Notice(f, u)' = Notice(f, u)
  BY <1>a DEF Notice, HasInfo, udVars, infoVars
<1> QED BY <1>a, <1>2, <1>3, <1>4, BoardSame

\* One that finds the udinfo_t of its event too.
LEMMA BoardEnter ==
  ASSUME TypeOK, KeptInv, TruthInv, NEW d \in Threads, Enter(d)
  PROVE  BoardStep
<1>a. /\ thread[d] # Idle /\ thread[d].udinfo = Null /\ thread[d] \in ThreadCalls
      /\ thread[d].event \in Events /\ binding[thread[d].event] = "valid"
      /\ info[thread[d].event] # Null
      /\ UNCHANGED <<exec, pending, udVars, infoVars, result>>
  BY CallParts DEF Enter, KeptInv, PendingInv, TruthInv, LiveInv, TypeOK
<1> DEFINE next == [thread[d] EXCEPT !.udinfo = info[thread[d].event]]
<1>b. thread' = [thread EXCEPT ![d] = next] BY <1>a DEF Enter, InfoRead
<1>c. /\ next.event = thread[d].event /\ next.type = thread[d].type
      /\ next.todo = thread[d].todo /\ next # Idle
  BY <1>a DEF ThreadCalls, Idle
<1>d. \A x \in Threads : thread'[x] = IF x = d THEN next ELSE thread[x] BY <1>b DEF TypeOK
<1> HIDE DEF next
<1>1. \A f \in Events, u \in CallbackTypes : Expected(f, u)' <=> Expected(f, u)
  BY <1>a, <1>c, <1>d DEF Expected
<1>2. \A f \in Events, u \in CallbackTypes : Notice(f, u)' = Notice(f, u)
  BY <1>a DEF Notice, HasInfo, udVars, infoVars
<1> QED BY <1>a, <1>1, <1>2, BoardSame

\* The notice is posted by the second store, of the flag; or, over an earlier notice, by
\* the first one, of the status.
LEMMA BoardStore ==
  ASSUME InOrderStores, TypeOK, KeptInv, TruthInv, NEW d \in Threads, Store(d)
  PROVE  BoardStep
<1> DEFINE next == [thread[d] EXCEPT !.todo = {"called"}]
<1>a. PICK e \in Events, t \in CallbackTypes, a \in Addresses :
        /\ thread[d] # Idle /\ thread[d] \in ThreadCalls /\ thread[d].status \in Statuses
        /\ e = thread[d].event /\ t = thread[d].type /\ a = thread[d].udinfo
        /\ HasInfo(e) /\ a = info[e]
        /\ thread[d].todo \in {{"status", "called"}, {"called"}}
        /\ Good(exec[e], t, thread[d].status)
  <2>1. thread[d] # Idle /\ thread[d].udinfo # Null BY DEF Store
  <2>2. /\ thread[d].event \in Events /\ thread[d].type \in CallbackTypes
        /\ thread[d].udinfo \in Addresses /\ HasInfo(thread[d].event)
        /\ thread[d].udinfo = info[thread[d].event]
        /\ thread[d] \in ThreadCalls /\ thread[d].status \in Statuses
        /\ thread[d].todo \in {{"status", "called"}, {"called"}}
        /\ Good(exec[thread[d].event], thread[d].type, thread[d].status)
    BY <2>1, CallParts DEF KeptInv, TruthInv, PendingInv, LiveInv, StoresInv, HasInfo, TypeOK
  <2> QED BY <2>1, <2>2
<1>b. UNCHANGED <<exec, pending, udVars, result>> BY DEF Store
<1>c. /\ next.event = e /\ next.type = t /\ next.todo = {"called"} /\ next # Idle
  BY <1>a DEF ThreadCalls, Idle
<1>d. ASSUME NEW f \in Events, HasInfo(f), info[f] = a PROVE f = e
  BY <1>a, <1>d DEF KeptInv, InfoInv
<1>e. Expected(e, t) /\ <<e, t>> \in Due BY <1>a DEF Expected, Due
<1>f. \A f \in Events : HasInfo(f) => info[f] \in Addresses BY DEF HasInfo, TypeOK
<1>g. \A f \in Events : HasInfo(f)' <=> HasInfo(f) BY <1>b DEF HasInfo, udVars
\* A notice for e and t, whether it is the last one due or not, is a step of the board.
<1>h. ASSUME NEW s \in Statuses, Good(exec[e], t, s), Notice(e, t)' = {s},
             \A f \in Events, u \in CallbackTypes : <<f, u>> # <<e, t>> =>
               Notice(f, u)' = Notice(f, u) /\ (Expected(f, u)' <=> Expected(f, u))
      PROVE  BoardStep
  <2>1. Shown' = [Shown EXCEPT ![e][t] = {s}]
    <3>1. \A f \in Events, u \in CallbackTypes : <<f, u>> # <<e, t>> =>
            Notice(f, u)' = Notice(f, u)
      BY <1>h
    <3> QED BY <1>h, <3>1, ShownExcept
  <2>2. Due' \in {Due, Due \ {<<e, t>>}}
    <3>1. CASE Expected(e, t)' BY <1>a, <1>e, <1>h, <3>1 DEF Due
    <3>2. CASE ~Expected(e, t)' BY <1>a, <1>e, <1>h, <3>2 DEF Due
    <3> QED BY <3>1, <3>2
  <2>3. Board!True(exec[e], t, s) BY <1>h DEF Board!True, Good
  <2>4. Board!Notify(e, t) BY <1>b, <1>e, <1>h, <2>1, <2>2, <2>3 DEF Board!Notify
  <2> QED BY <1>a, <2>4 DEF BoardStep, Board!Next
<1>1. CASE thread[d].todo = {"status", "called"}
  <2>1. {"status", "called"} \ {"status"} = {"called"} /\ {"status", "called"} # {"status"} OBVIOUS
  <2>2. /\ status' = [status EXCEPT ![a][t] = thread[d].status] /\ called' = called
        /\ thread' = [thread EXCEPT ![d] = next]
    <3>1. NextStore(d) = {"status"} BY <1>1 DEF NextStore
    <3>2. /\ status' = [status EXCEPT ![thread[d].udinfo][thread[d].type] = thread[d].status]
          /\ called' = called /\ thread' = [thread EXCEPT ![d] = next]
      BY <1>1, <2>1, <3>1 DEF Store
    <3> QED BY <1>a, <3>2
  <2>3. \A x \in Threads : thread'[x] = IF x = d THEN next ELSE thread[x] BY <2>2 DEF TypeOK
  <2>4. \A x \in Addresses, u \in CallbackTypes :
          status'[x][u] = IF x = a /\ u = t THEN thread[d].status ELSE status[x][u]
    BY <1>a, <2>2 DEF TypeOK
  <2> HIDE DEF next
  <2>5. \A f \in Events, u \in CallbackTypes : Expected(f, u)' <=> Expected(f, u)
    BY <1>1, <1>a, <1>b, <1>c, <2>3 DEF Expected
  <2>6. \A f \in Events, u \in CallbackTypes : <<f, u>> # <<e, t>> => Notice(f, u)' = Notice(f, u)
    <3> SUFFICES ASSUME NEW f \in Events, NEW u \in CallbackTypes, <<f, u>> # <<e, t>>, HasInfo(f)
                 PROVE  Notice(f, u)' = Notice(f, u)
      BY <1>g DEF Notice
    <3>1. info[f] \in Addresses /\ (info[f] = a => f = e) BY <1>d, <1>f
    <3>2. status'[info[f]][u] = status[info[f]][u] BY <2>4, <3>1
    <3> QED BY <1>b, <1>g, <2>2, <3>2 DEF Notice, udVars
  <2>7. CASE t \in called[a]
    <3>1. Notice(e, t)' = {thread[d].status} BY <1>a, <1>b, <1>g, <2>2, <2>4, <2>7 DEF Notice, udVars
    <3> QED BY <1>a, <1>h, <2>5, <2>6, <3>1
  <2>8. CASE t \notin called[a]
    <3>1. Notice(e, t)' = {} /\ Notice(e, t) = {} BY <1>a, <1>b, <2>2, <2>8 DEF Notice, udVars
    <3> QED BY <1>b, <2>5, <2>6, <3>1, BoardSame
  <2> QED BY <2>7, <2>8
<1>2. CASE thread[d].todo = {"called"}
  <2>1. /\ called' = [called EXCEPT ![a] = @ \cup {t}] /\ status' = status
        /\ thread' = [thread EXCEPT ![d] = Idle]
    BY <1>a, <1>2 DEF Store, NextStore
  <2>2. Good(exec[e], t, status[a][t]) /\ status[a][t] \in Statuses
    BY <1>a, <1>2 DEF TruthInv, StoresInv, TypeOK
  <2>3. \A x \in Threads : thread'[x] = IF x = d THEN Idle ELSE thread[x] BY <2>1 DEF TypeOK
  <2>4. \A x \in Addresses : called'[x] = IF x = a THEN called[x] \cup {t} ELSE called[x]
    BY <1>a, <2>1 DEF TypeOK
  <2>5. \A f \in Events, u \in CallbackTypes : <<f, u>> # <<e, t>> =>
          (Expected(f, u)' <=> Expected(f, u))
    BY <1>a, <1>b, <2>3 DEF Expected
  <2>6. \A f \in Events, u \in CallbackTypes : <<f, u>> # <<e, t>> => Notice(f, u)' = Notice(f, u)
    <3> SUFFICES ASSUME NEW f \in Events, NEW u \in CallbackTypes, <<f, u>> # <<e, t>>, HasInfo(f)
                 PROVE  Notice(f, u)' = Notice(f, u)
      BY <1>g DEF Notice
    <3>1. info[f] \in Addresses /\ (info[f] = a => f = e) BY <1>d, <1>f
    <3>2. u \in called'[info[f]] <=> u \in called[info[f]] BY <2>4, <3>1
    <3> QED BY <1>b, <1>g, <2>1, <3>2 DEF Notice, udVars
  <2>7. Notice(e, t)' = {status[a][t]}
    <3>1. t \in called'[a] BY <1>a, <2>4
    <3> QED BY <1>a, <1>b, <1>g, <2>1, <3>1 DEF Notice, udVars
  <2> QED BY <1>a, <1>h, <2>2, <2>5, <2>6, <2>7
<1> QED BY <1>a, <1>1, <1>2

\* To the script the notices look as if each of them were posted, taken down and read in
\* one step, whatever the interleaving of its functions with the callbacks, if the stores
\* of a callback are seen in order and no event is deleted before its callbacks returned.
THEOREM ImplementsNotices == ASSUME InOrderStores, ~DeletesPending PROVE Spec => LooksAtomic
<1>1. TypeOK /\ KeptInv /\ TruthInv /\ [Next]_vars => BoardStep
  <2> SUFFICES ASSUME TypeOK, KeptInv, TruthInv, [Next]_vars PROVE BoardStep OBVIOUS
  <2>1. CASE Lua
    <3>1. ASSUME NEW e \in Events, NEW s \in {Complete, Failed}, SetUserEventStatus(e, s)
          PROVE  BoardStep
      <4>1. s \in Statuses /\ s < exec[e] /\ exec' = [exec EXCEPT ![e] = s]
            /\ UNCHANGED <<pending, thread, udVars, infoVars, result>>
        BY <3>1 DEF SetUserEventStatus, Submitted, Statuses, Complete, Failed
      <4> QED BY <4>1, BoardExec
    <3> QED BY <2>1, <3>1, BoardBinding, BoardReset, BoardRegister, BoardCheck,
               BoardReadStatus DEF Lua
  <2>2. ASSUME NEW e \in Events, Progress(e) PROVE BoardStep
    <3>1. PICK y \in Statuses : y < exec[e] /\ exec' = [exec EXCEPT ![e] = y]
      BY <2>2, ExecType
    <3>2. UNCHANGED <<pending, thread, udVars, infoVars, result>> BY <2>2 DEF Progress
    <3> QED BY <3>1, <3>2, BoardExec
  <2>3. ASSUME NEW d \in Threads, Callback(d) PROVE BoardStep
    BY <2>3, BoardCall, BoardEnter, BoardStore DEF Callback
  <2>4. CASE UNCHANGED vars
    <3>1. UNCHANGED <<exec, result>> BY <2>4 DEF vars, driverVars
    <3>2. \A e \in Events, t \in CallbackTypes :
            Notice(e, t)' = Notice(e, t) /\ (Expected(e, t)' <=> Expected(e, t))
      BY <2>4 DEF Notice, Expected, HasInfo, vars, driverVars, udVars, infoVars
    <3> QED BY <3>1, <3>2, BoardSame
  <2> QED BY <2>1, <2>2, <2>3, <2>4 DEF Next
<1> QED
  BY <1>1, BoardInit, TypeCorrect, KeptInvariance, TruthInvariance, PTL
  DEF Spec, LooksAtomic, BoardStep, Board!Spec
=============================================================================
