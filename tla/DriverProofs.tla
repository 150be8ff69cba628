----------------------------- MODULE DriverProofs -----------------------------
(***************************************************************************)
(* Proofs about Objects: the OpenCL objects in the driver.  None is leaked *)
(* (NothingLeaked), and none is destroyed before one created from it       *)
(* (BaseAlive), although ReleaseAll drops all the references that the      *)
(* driver reports, those of the driver's own objects included.             *)
(***************************************************************************)
EXTENDS ObjectsProofs, FiniteSetTheorems

USE DEF NoHandle

\* With references that the driver counts for its own objects, a failed allocation of
\* udata_new leaves an object without binding that ReleaseAll pulls the base away from.
DriverAssumption == ReleasesTracked /\ (~CountImplicit \/ ~AllocMayFail)

\* The platforms and the root devices are there for ever, and use nothing.
PermanentInv == \A h \in Permanent : h \in alive /\ base[h] = NoHandle /\ uses[h] = {}

\* An object keeps the objects it uses alive, and nothing keeps itself alive.
UsesAlive == \A h \in alive : uses[h] \subseteq alive
NoCycle ==
  \A S \in SUBSET (alive \ Permanent) :
    S # {} => \E g \in S : \A x \in S : base[x] # g /\ g \notin uses[x]

\* The object a bound one was created from, if any, is that of the parent's binding.
BaseInv ==
  \A u \in valid :
    LET b == base[obj[u].handle]
    IN  /\ b # NoHandle => obj[u].parent \in valid /\ b = obj[obj[u].parent].handle
        /\ obj[u].type = "subbuffer" => b # NoHandle

\* An object keeps at most one alive that has been released entirely and is still bound:
\* a sub buffer its buffer, an image the buffer it was made from.
OneUsed ==
  /\ \A g \in alive : \A x, y \in uses[g] : x = y
  /\ \A g \in alive, v \in valid :
       base[g] = obj[v].handle /\ obj[v].type \in MemTypes => uses[g] = {}

\* The objects of the driver, and which others each of them keeps alive.
GraphInv == PermanentInv /\ UsesAlive /\ NoCycle /\ BaseAlive /\ BaseInv
            /\ (CountImplicit => OneUsed)

\* Only the destructor at the top can have still to release its object, and then the driver
\* has nothing to destroy.
IsPending(h) == \E k \in DOMAIN stack : stack[k].pc = "release" /\ stack[k].handle = h
PendingOnTop ==
  \A k \in DOMAIN stack : stack[k].pc = "release" => k = Len(stack) /\ Dying = {}

\* A DestructorCallback finds no children to delete and never leads to another one.
InCallbackOnTop(k, h) ==
  /\ k = Len(stack) /\ stack[k].type \in MemTypes /\ Dying = {} /\ CountImplicit
  /\ h \in alive \ Permanent /\ refs[h] = 0 /\ Users(h) = {}
CallbackOnTop ==
  \A k \in DOMAIN stack : \A h \in {stack[k].callback} \ {NoHandle} : InCallbackOnTop(k, h)

\* If the driver counts its own references, ReleaseAll leaves no object that others use.
UnusedInv ==
  \A h \in alive \ Permanent :
    tree[h] = NoUd /\ refs[h] = 0 /\ ~IsPending(h) => Users(h) = {}
OneDying == \A x, y \in Dying : x = y

ClosedInv == phase = "closed" => mem = {} /\ stack = <<>> /\ Dying = {}

\* The inductive invariant, given Inv and RefInv.
DriverInv ==
  /\ GraphInv /\ PendingOnTop /\ CallbackOnTop /\ ClosedInv
  /\ CountImplicit => UnusedInv /\ OneDying
  /\ ~AllocMayFail => ReferencesOwned

-----------------------------------------------------------------------------
(***************************************************************************)
(* What keeps an object alive.                                             *)
(***************************************************************************)
\* The types of the driver's variables.
LEMMA DriverTypes ==
  ASSUME Inv
  PROVE  /\ alive \subseteq Handles /\ refs \in [Handles -> Nat]
         /\ base \in [Handles -> Handles \cup {0}] /\ uses \in [Handles -> SUBSET Handles]
         /\ stack \in Seq(Frame) /\ Permanent \subseteq Handles
         /\ 0 \notin Handles /\ NoUd \notin valid
<1>1. Permanent \subseteq Handles BY HandlesAssumption DEF Permanent
<1>2. valid \subseteq Uds BY DEF Inv, TypeOK
<1> QED BY <1>1, <1>2, HandlesAreNat, ParametersAssumption DEF Inv, TypeOK

\* A bound object: the binding is found under the handle.
LEMMA Bound ==
  ASSUME Inv, NEW h \in Handles, tree[h] # NoUd
  PROVE  tree[h] \in valid /\ obj[tree[h]].handle = h
  BY DEF Inv, TreeMatchesValid
LEMMA BoundHandle ==
  ASSUME Inv, NEW u \in valid
  PROVE  obj[u].handle \in Handles /\ tree[obj[u].handle] = u /\ u # NoUd
  BY ParametersAssumption DEF Inv, TypeOK, Object, TreeMatchesValid

\* The driver frees h: of what the others use only h goes, and h is no user any more.
LEMMA DestroyedFacts ==
  ASSUME Inv, NEW h \in Handles \cup {0}, Destroyed(h)
  PROVE  /\ alive' = alive \ {h}
         /\ \A g \in Handles : g # h => base'[g] = base[g] /\ uses'[g] = uses[g] \ {h}
         /\ \A g \in Handles : g # h => Users(g)' = Users(g) \ {h}
<1>1. /\ alive' = alive \ {h} /\ alive \subseteq Handles
      /\ \A g \in Handles : g # h => base'[g] = base[g] /\ uses'[g] = uses[g] \ {h}
  BY DriverTypes DEF Destroyed
<1> QED BY <1>1 DEF Users

\* Destroying an unbound object that none was created from keeps GraphInv.
LEMMA GraphDestroyed ==
  ASSUME Inv, GraphInv, NEW h \in Handles \cup {0}, h \notin Permanent, Destroyed(h), UNCHANGED obj,
         \A x \in alive : x # h /\ base[x] = h => h = 0,
         \A u \in valid : obj[u].handle # h
  PROVE  GraphInv'
<1>1. /\ alive' = alive \ {h} /\ alive \subseteq Handles /\ Permanent \subseteq Handles
      /\ \A g \in Handles : g # h => base'[g] = base[g] /\ uses'[g] = uses[g] \ {h}
  BY DestroyedFacts, DriverTypes
<1>2. \A g \in alive' : g \in alive /\ g # h /\ base'[g] = base[g] /\ uses'[g] = uses[g] \ {h}
  BY <1>1
<1>3. valid' = valid /\ \A u \in valid : obj[u].handle \in Handles /\ obj[u].handle # h
  BY BoundHandle DEF valid
<1>4. PermanentInv'
  <2>1. \A g \in Permanent : g \in alive /\ base[g] = NoHandle /\ uses[g] = {}
    BY DEF GraphInv, PermanentInv
  <2> QED BY <1>1, <1>2, <2>1 DEF PermanentInv
<1>5. UsesAlive' BY <1>1, <1>2 DEF GraphInv, UsesAlive
<1>6. BaseAlive' BY <1>1, <1>2 DEF GraphInv, BaseAlive
<1>7. NoCycle'
  <2>1. ASSUME NEW S \in SUBSET (alive' \ Permanent), S # {}
        PROVE  \E g \in S : \A x \in S : base'[x] # g /\ g \notin uses'[x]
    <3>1. S \in SUBSET (alive \ Permanent) BY <1>1
    <3>2. PICK g \in S : \A x \in S : base[x] # g /\ g \notin uses[x]
      BY <2>1, <3>1 DEF GraphInv, NoCycle
    <3>3. \A x \in S : x \in alive' OBVIOUS
    <3> QED BY <1>2, <3>2, <3>3
  <2> QED BY <2>1 DEF NoCycle
<1>8. BaseInv' BY <1>1, <1>3 DEF GraphInv, BaseInv
<1>9. ASSUME CountImplicit PROVE OneUsed' BY <1>2, <1>3, <1>9 DEF GraphInv, OneUsed
<1> QED BY <1>4, <1>5, <1>6, <1>7, <1>8, <1>9 DEF GraphInv

\* Of the objects that h kept alive at most one is left without user and reference.
LEMMA OneNewlyDying ==
  ASSUME Inv, RefInv, GraphInv, ReleasesTracked, CountImplicit, UnusedInv,
         NEW h \in Handles, Destroyed(h),
         NEW x \in alive' \ Permanent, refs[x] = 0, Users(x) # {}, Users(x)' = {}, ~IsPending(x),
         NEW y \in alive' \ Permanent, refs[y] = 0, Users(y) # {}, Users(y)' = {}, ~IsPending(y)
  PROVE  x = y
<1>1. alive' = alive \ {h} /\ alive \subseteq Handles BY DestroyedFacts, DriverTypes
<1>2. ASSUME NEW z \in alive' \ Permanent, refs[z] = 0, Users(z) # {}, Users(z)' = {}, ~IsPending(z)
      PROVE  /\ h \in alive /\ (base[h] = z \/ z \in uses[h])
             /\ base[h] = z => uses[h] = {}
  <2>1. Users(z)' = Users(z) \ {h} BY <1>1, DestroyedFacts
  <2>2. h \in Users(z) BY <1>2, <2>1
  <2>3. tree[z] # NoUd BY <1>1, <1>2 DEF UnusedInv
  <2>4. tree[z] \in valid /\ obj[tree[z]].handle = z BY <1>1, <2>3, Bound
  <2>5. obj[tree[z]].type \in MemTypes BY <1>2, <2>4 DEF RefInv, ReleasesTracked
  <2> QED BY <2>2, <2>4, <2>5 DEF Users, GraphInv, OneUsed
<1>3. h \in alive /\ (base[h] = x \/ x \in uses[h]) /\ (base[h] = x => uses[h] = {}) BY <1>2
<1>4. (base[h] = y \/ y \in uses[h]) /\ (base[h] = y => uses[h] = {}) BY <1>2
<1>5. x \in uses[h] /\ y \in uses[h] => x = y BY <1>3 DEF GraphInv, OneUsed
<1> QED BY <1>3, <1>4, <1>5

-----------------------------------------------------------------------------
(***************************************************************************)
(* The steps of the destructors that touch the bindings only.              *)
(***************************************************************************)
\* Nothing changes in the driver.
LEMMA DriverKept ==
  ASSUME Inv, GraphInv, UNCHANGED <<alive, refs, base, uses>>
  PROVE  /\ \A h : Users(h)' = Users(h)
         /\ UNCHANGED obj => GraphInv'
         /\ \A h : h \in Dying' =>
              h \in alive \ Permanent /\ refs[h] = 0 /\ Users(h) = {} /\ h \notin InCallback'
<1>1. \A h : Users(h)' = Users(h) BY DEF Users
<1>2. UNCHANGED obj => GraphInv'
  BY DEF GraphInv, PermanentInv, UsesAlive, NoCycle, BaseAlive, BaseInv, OneUsed, valid
<1>3. \A h : h \in Dying' =>
        h \in alive \ Permanent /\ refs[h] = 0 /\ Users(h) = {} /\ h \notin InCallback'
  BY <1>1 DEF Dying
<1> QED BY <1>1, <1>2, <1>3

\* The frame at the top is replaced by one of the same callback.
LEMMA TopReplaced ==
  ASSUME Inv, stack # <<>>, NEW f \in Frame, stack' = WithTop(f), f.callback = Top.callback
  PROVE  /\ DOMAIN stack' = DOMAIN stack /\ Len(stack') = Len(stack) /\ stack' # <<>>
         /\ Len(stack) \in DOMAIN stack /\ Top = stack[Len(stack)] /\ stack'[Len(stack)] = f
         /\ \A k \in DOMAIN stack : k # Len(stack) => stack'[k] = stack[k]
         /\ InCallback' = InCallback
<1>1. stack \in Seq(Frame) BY DriverTypes
<1>2. /\ DOMAIN stack' = DOMAIN stack /\ Len(stack') = Len(stack) /\ Len(stack) \in DOMAIN stack
      /\ stack'[Len(stack)] = f /\ Top = stack[Len(stack)]
      /\ \A k \in DOMAIN stack : k # Len(stack) => stack'[k] = stack[k]
  BY <1>1, WithTopFacts, TopFacts
<1>3. stack' # <<>> BY <1>1, <1>2
<1>4. \A k \in DOMAIN stack : stack'[k].callback = stack[k].callback BY <1>2
<1> QED BY <1>2, <1>3, <1>4 DEF InCallback

\* The objects of the driver, and the frames that count for them, are as before.
LEMMA QuietStep ==
  ASSUME DriverAssumption, Inv, DriverInv, UNCHANGED <<obj, tree, alive, refs, base, uses>>,
         PendingOnTop', CallbackOnTop', ClosedInv',
         CountImplicit => OneDying', \A h : IsPending(h)' <=> IsPending(h)
  PROVE  DriverInv'
<1>1. GraphInv' /\ \A h : Users(h)' = Users(h) BY DriverKept DEF DriverInv
<1>2. CountImplicit => UnusedInv' BY <1>1 DEF DriverInv, UnusedInv
<1>3. ~AllocMayFail => ReferencesOwned'
  <2>1. \A h : (\E k \in DOMAIN stack' : stack'[k].pc = "release" /\ stack'[k].handle = h)
               <=> (\E k \in DOMAIN stack : stack[k].pc = "release" /\ stack[k].handle = h)
    BY DEF IsPending
  <2> QED BY <2>1 DEF DriverInv, ReferencesOwned
<1> QED BY <1>1, <1>2, <1>3 DEF DriverInv

\* With the top replaced the same callbacks are in progress, and what is Dying is the same.
LEMMA TopReplacedCallbacks ==
  ASSUME Inv, DriverInv, stack # <<>>, NEW f \in Frame, stack' = WithTop(f),
         f.callback = Top.callback, f.type = Top.type,
         UNCHANGED <<alive, refs, base, uses>>
  PROVE  Dying' = Dying /\ CallbackOnTop'
<1>1. /\ DOMAIN stack' = DOMAIN stack /\ Len(stack') = Len(stack)
      /\ Len(stack) \in DOMAIN stack /\ Top = stack[Len(stack)] /\ stack'[Len(stack)] = f
      /\ \A k \in DOMAIN stack : k # Len(stack) => stack'[k] = stack[k]
      /\ InCallback' = InCallback
  BY TopReplaced
<1>2. \A h : Users(h)' = Users(h) BY DriverKept DEF DriverInv
<1>3. Dying' = Dying BY <1>1, <1>2 DEF Dying
<1>4. ASSUME NEW k \in DOMAIN stack', NEW h \in {stack'[k].callback} \ {NoHandle}
      PROVE  InCallbackOnTop(k, h)'
  <2>1. stack'[k].callback = stack[k].callback /\ stack'[k].type = stack[k].type BY <1>1, <1>4
  <2>2. k \in DOMAIN stack BY <1>1
  <2>3. InCallbackOnTop(k, h) BY <1>4, <2>1, <2>2 DEF DriverInv, CallbackOnTop
  <2> QED BY <1>1, <1>2, <1>3, <2>1, <2>3 DEF InCallbackOnTop
<1> QED BY <1>3, <1>4 DEF CallbackOnTop

\* Of a destructor called with no callback in progress below.
LEMMA PushedDriver ==
  ASSUME DriverAssumption, Inv, DriverInv, NEW s \in Seq(Frame), NEW D \in Frame,
         stack' = Append(s, D), D.pc = "scan", D.callback = NoHandle,
         \A k \in DOMAIN s : s[k].pc # "release" /\ s[k].callback = NoHandle,
         \A k \in DOMAIN stack : stack[k].pc # "release" /\ stack[k].callback = NoHandle,
         UNCHANGED <<obj, tree, alive, refs, base, uses, phase>>, phase # "closed"
  PROVE  DriverInv'
<1>1. /\ DOMAIN stack' = DOMAIN s \cup {Len(s) + 1} /\ stack'[Len(s) + 1] = D
      /\ \A k \in DOMAIN s : stack'[k] = s[k]
  BY AppendFacts
<1>2. \A k \in DOMAIN stack' : stack'[k].pc # "release" /\ stack'[k].callback = NoHandle
  BY <1>1
<1>3. \A h : ~IsPending(h)' /\ ~IsPending(h) BY <1>2 DEF IsPending
<1>4. CountImplicit => OneDying'
  <2>1. \A h \in InCallback : h = NoHandle BY DEF InCallback
  <2>2. Dying' \subseteq Dying BY <2>1, DriverKept, DriverTypes DEF DriverInv, Dying
  <2> QED BY <2>2 DEF DriverInv, OneDying
<1> QED BY <1>2, <1>3, <1>4, QuietStep DEF PendingOnTop, CallbackOnTop, ClosedInv

\* The destructor of the next child: it is not called by a DestructorCallback.
LEMMA ScanObjectDriver ==
  ASSUME DriverAssumption, Inv, RefInv, DriverInv, ScanObject PROVE DriverInv'
<1> DEFINE v == tree[First]
<1>a. PICK T : T = [Top EXCEPT !.from = First + 1] OBVIOUS
<1>b. PICK D : D = Destroying(v, NoHandle) OBVIOUS
<1>1. /\ Scanning /\ Found # {} /\ stack # <<>> /\ Dying = {} /\ Top.pc = "scan"
      /\ stack' = Append(WithTop(T), D)
      /\ UNCHANGED <<mem, obj, hasSub, tree, alive, refs, base, uses, phase>>
  BY <1>a, <1>b DEF ScanObject, Scanning, Running, udVars, clVars
<1>2. stack \in Seq(Frame) BY DriverTypes
<1>3. Top \in Frame /\ Len(stack) \in DOMAIN stack /\ Top = stack[Len(stack)]
  BY <1>1, <1>2, TopFacts
<1>4. First \in Found BY <1>1, FirstFound
<1>5. First \in Nat /\ IsChild(v) BY <1>4, HandlesAreNat DEF Found
<1>6. v \in valid /\ obj[v].parent = Top.ud BY <1>5 DEF IsChild
<1>7. D \in Frame /\ D.pc = "scan" /\ D.callback = NoHandle BY <1>b, <1>6, NewFrame
<1>8. T \in Frame /\ T.pc = "scan" /\ T.callback = Top.callback
  BY <1>a, <1>1, <1>3, <1>5 DEF Frame
<1>9. /\ WithTop(T) \in Seq(Frame) /\ DOMAIN WithTop(T) = DOMAIN stack
      /\ WithTop(T)[Len(stack)] = T
      /\ \A k \in DOMAIN stack : k # Len(stack) => WithTop(T)[k] = stack[k]
  BY <1>1, <1>2, <1>8, WithTopFacts
<1>10. Top.callback = NoHandle
  <2>1. SUFFICES ASSUME Top.callback # NoHandle PROVE FALSE OBVIOUS
  <2>2. Top.type \in MemTypes /\ Users(Top.callback) = {}
    BY <1>3, <2>1 DEF DriverInv, CallbackOnTop, InCallbackOnTop
  <2>3. FrameInv(Len(stack)) BY <1>3 DEF Inv, FramesInv
  <2>4. Top.ud \in Uds BY <1>3 DEF Frame
  <2>5. ParentTypes(obj[v].type) # {}
    BY <1>6, <2>4, ParametersAssumption DEF Inv, ObjectInv
  <2>6. Top.ud \in valid /\ obj[Top.ud].type \in ParentTypes(obj[v].type)
    BY <1>6, <2>5 DEF Inv, ParentValid
  <2>7. /\ Top.type = obj[Top.ud].type /\ Top.handle = obj[Top.ud].handle
        /\ Top.callback = Top.handle
    BY <1>3, <2>1, <2>3, <2>6 DEF FrameInv
  <2>8. obj[v].type = "subbuffer"
    <3>1. obj[v].type \in Types BY <1>6 DEF Inv, TypeOK, Object
    <3> QED BY <2>2, <2>6, <2>7, <3>1 DEF ParentTypes, ContextChildren, MemTypes, Types
  <2>9. base[obj[v].handle] = Top.callback
    BY <1>6, <2>7, <2>8 DEF DriverInv, GraphInv, BaseInv
  <2>10. obj[v].handle \in alive BY <1>6 DEF RefInv, BindingAlive
  <2> QED BY <2>2, <2>9, <2>10 DEF Users
<1>11. \A k \in DOMAIN stack : stack[k].pc # "release" /\ stack[k].callback = NoHandle
  BY <1>1, <1>3, <1>10 DEF DriverInv, PendingOnTop, CallbackOnTop, InCallbackOnTop
<1>12. \A k \in DOMAIN stack : WithTop(T)[k].pc # "release" /\ WithTop(T)[k].callback = NoHandle
  BY <1>8, <1>9, <1>10, <1>11
<1>13. phase # "closed" BY <1>1 DEF DriverInv, ClosedInv
<1>14. PICK s : s = WithTop(T) OBVIOUS
<1> QED BY <1>1, <1>7, <1>9, <1>11, <1>12, <1>13, <1>14, PushedDriver

\* The end of a scan.
LEMMA EndScanDriver ==
  ASSUME DriverAssumption, Inv, DriverInv, EndScan PROVE DriverInv'
<1>a. PICK T : T = [Top EXCEPT !.class = @ + 1, !.from = 0] OBVIOUS
<1>1. /\ stack # <<>> /\ Dying = {} /\ Top.pc = "scan" /\ stack' = WithTop(T)
      /\ UNCHANGED <<mem, obj, hasSub, tree, alive, refs, base, uses, phase>>
  BY <1>a DEF EndScan, Scanning, Running, udVars, clVars
<1>2. Top \in Frame BY <1>1, TopFacts, DriverTypes
<1>3. T \in Frame /\ T.pc = "scan" /\ T.callback = Top.callback /\ T.type = Top.type
  <2>1. PICK c \in Nat \ {0} : c = Top.class + 1 BY <1>2 DEF Frame
  <2>2. T = [Top EXCEPT !.class = c, !.from = 0] BY <1>a, <2>1
  <2> QED BY <1>1, <1>2, <2>1, <2>2 DEF Frame
<1>4. /\ DOMAIN stack' = DOMAIN stack /\ Len(stack') = Len(stack) /\ stack' # <<>>
      /\ Len(stack) \in DOMAIN stack /\ Top = stack[Len(stack)] /\ stack'[Len(stack)] = T
      /\ \A k \in DOMAIN stack : k # Len(stack) => stack'[k] = stack[k]
  BY <1>1, <1>3, TopReplaced
<1>5. Dying' = Dying /\ CallbackOnTop' BY <1>1, <1>3, TopReplacedCallbacks
<1>6. \A k \in DOMAIN stack : stack[k].pc # "release" /\ stack'[k].pc # "release"
  BY <1>1, <1>3, <1>4 DEF DriverInv, PendingOnTop
<1>7. \A h : ~IsPending(h)' /\ ~IsPending(h) BY <1>4, <1>6 DEF IsPending
<1>8. PendingOnTop' BY <1>4, <1>6 DEF PendingOnTop
<1>9. ClosedInv' BY <1>1 DEF DriverInv, ClosedInv
<1>10. OneDying' BY <1>1, <1>5 DEF OneDying
<1> QED BY <1>1, <1>5, <1>7, <1>8, <1>9, <1>10, QuietStep

\* delete(), release_xxx or a finalizer calls a destructor.
LEMMA CalledDriver ==
  ASSUME DriverAssumption, Inv, DriverInv, NEW u \in valid, stack = <<>>, phase # "closed",
         stack' = <<Destroying(u, NoHandle)>>, UNCHANGED <<udVars, clVars, phase>>
  PROVE  DriverInv'
<1>1. PICK D : D = Destroying(u, NoHandle) OBVIOUS
<1>2. D \in Frame /\ D.pc = "scan" /\ D.callback = NoHandle BY <1>1, NewFrame
<1>3. stack' = Append(stack, D) /\ stack \in Seq(Frame) /\ DOMAIN stack = {} BY <1>1
<1>4. UNCHANGED <<obj, tree, alive, refs, base, uses, phase>> BY DEF udVars, clVars
<1> QED BY <1>2, <1>3, <1>4, PushedDriver

\* freeuserdata: the references of the object are now for the destructor to release.
LEMMA FreeBindingDriver ==
  ASSUME DriverAssumption, Inv, DriverInv, FreeUserdata, Top.ud \in valid PROVE DriverInv'
<1> DEFINE n == Len(stack)
<1>a. PICK r : r = Top.ud OBVIOUS
<1>b. PICK T : T = [Top EXCEPT !.pc = "release"] OBVIOUS
<1>1. /\ stack # <<>> /\ Dying = {} /\ Top.pc = "scan" /\ Running("scan") /\ ~Scanning
      /\ obj' = [u \in valid \ {r} |-> obj[u]]
      /\ tree' = [tree EXCEPT ![obj[r].handle] = NoUd]
      /\ stack' = WithTop(T) /\ UNCHANGED <<mem, alive, refs, base, uses, phase>>
  BY <1>a, <1>b DEF FreeUserdata, Running, clVars
<1>2. Top \in Frame BY <1>1, TopFacts, DriverTypes
<1>3. /\ T \in Frame /\ T.pc = "release" /\ T.callback = Top.callback /\ T.type = Top.type
      /\ T.handle = Top.handle
  BY <1>b, <1>2 DEF Frame
<1>4. /\ DOMAIN stack' = DOMAIN stack /\ Len(stack') = n /\ stack' # <<>>
      /\ n \in DOMAIN stack /\ Top = stack[n] /\ stack'[n] = T
      /\ \A k \in DOMAIN stack : k # n => stack'[k] = stack[k]
  BY <1>1, <1>3, TopReplaced
<1>5. Dying' = Dying /\ CallbackOnTop' BY <1>1, <1>3, TopReplacedCallbacks
<1>6. \A k \in DOMAIN stack : stack[k].pc # "release" BY <1>1, <1>4 DEF DriverInv, PendingOnTop
<1>7. \A h : (IsPending(h)' <=> h = Top.handle) /\ ~IsPending(h)
  BY <1>3, <1>4, <1>6 DEF IsPending
<1>8. PendingOnTop' BY <1>1, <1>4, <1>5, <1>6 DEF PendingOnTop
<1>9. ClosedInv' BY <1>1 DEF DriverInv, ClosedInv
<1>10. Top.handle = obj[r].handle
  <2>1. FrameInv(n) BY <1>4 DEF Inv, FramesInv
  <2> QED BY <1>a, <1>4, <2>1 DEF FrameInv
<1>11. \A h \in Handles : h # Top.handle => tree'[h] = tree[h]
  BY <1>1, <1>10 DEF Inv, TypeOK
<1>12. alive \subseteq Handles /\ \A h : Users(h)' = Users(h) BY <1>1, DriverKept, DriverTypes DEF DriverInv
<1>13. GraphInv'
  <2>1. valid' = valid \ {r} /\ \A u \in valid' : obj'[u] = obj[u] BY <1>1 DEF valid
  <2>2. \A u \in valid : obj[u].parent # r BY <1>a, <1>1, NoChildLeft
  <2>3. BaseInv'
    <3>1. \A u \in valid' : obj[u].parent \in valid => obj[u].parent \in valid'
      BY <2>1, <2>2
    <3> QED BY <1>1, <2>1, <3>1 DEF DriverInv, GraphInv, BaseInv
  <2>4. CountImplicit => OneUsed' BY <1>1, <2>1 DEF DriverInv, GraphInv, OneUsed
  <2> QED BY <1>1, <2>3, <2>4 DEF DriverInv, GraphInv, PermanentInv, UsesAlive, NoCycle, BaseAlive
<1>14. CountImplicit => UnusedInv'
  BY <1>1, <1>7, <1>11, <1>12 DEF DriverInv, UnusedInv
<1>15. ~AllocMayFail => ReferencesOwned'
  <2>1. SUFFICES ASSUME ~AllocMayFail, NEW h \in alive \ Permanent, refs[h] > 0
                 PROVE  tree'[h] # NoUd \/ IsPending(h)'
    BY <1>1 DEF ReferencesOwned, IsPending
  <2>2. tree[h] # NoUd \/ IsPending(h) BY <2>1 DEF DriverInv, ReferencesOwned, IsPending
  <2> QED BY <1>7, <1>11, <1>12, <2>2
<1>16. OneDying' BY <1>1, <1>5 DEF OneDying
<1> QED BY <1>5, <1>8, <1>9, <1>13, <1>14, <1>15, <1>16 DEF DriverInv

\* The driver frees h, whose DestructorCallback, if any, has come to its end; the frames
\* that are left neither release anything nor are callbacks.
LEMMA FreedDriver ==
  ASSUME DriverAssumption, Inv, RefInv, DriverInv, NEW h \in Handles, Destroyed(h),
         h \in alive \ Permanent, refs[h] = 0, Users(h) = {}, \A u \in valid : obj[u].handle # h,
         \A k \in DOMAIN stack : stack[k].pc # "release",
         \A k \in DOMAIN stack' : stack'[k].pc # "release" /\ stack'[k].callback = NoHandle,
         Dying \subseteq {h}, \A k \in DOMAIN stack : stack[k].callback \in {NoHandle, h},
         phase # "closed", UNCHANGED <<obj, tree, refs, phase>>
  PROVE  DriverInv'
<1>1. alive' = alive \ {h} /\ \A g \in Handles : g # h => Users(g)' = Users(g) \ {h}
  BY DestroyedFacts
<1>2. alive \subseteq Handles /\ h # NoHandle /\ 0 \notin Handles BY DriverTypes
<1>3. GraphInv'
  <2>1. \A x \in alive : base[x] # h BY DEF Users
  <2> QED BY <2>1, GraphDestroyed DEF DriverInv
<1>4. \A g : ~IsPending(g)' /\ ~IsPending(g) BY DEF IsPending
<1>5. PendingOnTop' /\ CallbackOnTop' /\ ClosedInv' BY DEF PendingOnTop, CallbackOnTop, ClosedInv
<1>6. CountImplicit => UnusedInv'
  BY <1>1, <1>2, <1>4 DEF DriverInv, UnusedInv
<1>7. ~AllocMayFail => ReferencesOwned'
  <2>1. SUFFICES ASSUME ~AllocMayFail, NEW g \in alive' \ Permanent, refs[g] > 0
                 PROVE  tree[g] # NoUd
    BY DEF ReferencesOwned
  <2>2. tree[g] # NoUd \/ IsPending(g) BY <1>1, <2>1 DEF DriverInv, ReferencesOwned, IsPending
  <2> QED BY <1>4, <2>2
<1>8. ASSUME CountImplicit, NEW x \in Dying', NEW y \in Dying' PROVE x = y
  <2>1. ASSUME NEW z \in Dying'
        PROVE  z \in alive' \ Permanent /\ refs[z] = 0 /\ Users(z)' = {} /\ Users(z) # {}
    <3>1. z \in alive' \ Permanent /\ refs[z] = 0 /\ Users(z)' = {} BY DEF Dying
    <3>2. z # h /\ z \in alive /\ z \in Handles BY <1>1, <1>2, <3>1
    <3>3. z \notin InCallback BY <1>2, <3>2 DEF InCallback
    <3>4. z \notin Dying BY <3>2
    <3> QED BY <3>1, <3>2, <3>3, <3>4 DEF Dying
  <2>2. UnusedInv /\ GraphInv /\ ReleasesTracked BY <1>8 DEF DriverInv, DriverAssumption
  <2>3. x \in alive' \ Permanent /\ refs[x] = 0 /\ Users(x)' = {} /\ Users(x) # {} BY <2>1
  <2>4. y \in alive' \ Permanent /\ refs[y] = 0 /\ Users(y)' = {} /\ Users(y) # {} BY <2>1
  <2> QED BY <1>4, <1>8, <2>2, <2>3, <2>4, OneNewlyDying
<1> QED BY <1>3, <1>5, <1>6, <1>7, <1>8 DEF DriverInv, OneDying

\* The return of a destructor, and of a DestructorCallback.
LEMMA ReturnDriver ==
  ASSUME DriverAssumption, Inv, RefInv, DriverInv, stack # <<>>, Dying = {}, Top.pc # "release",
         Top.ud \notin valid, Return, UNCHANGED <<obj, hasSub, tree, mem, phase>>
  PROVE  DriverInv'
<1> DEFINE n == Len(stack)
<1>1. stack' = Rest /\ Destroyed(Top.callback) /\ UNCHANGED refs BY DEF Return
<1>2. /\ DOMAIN Rest = DOMAIN stack \ {n} /\ \A k \in DOMAIN Rest : Rest[k] = stack[k]
      /\ n \in DOMAIN stack /\ Top = stack[n] /\ Top \in Frame
  BY RestFacts, TopFacts, DriverTypes
<1>3. \A k \in DOMAIN stack : /\ stack[k].pc # "release"
                              /\ k # n => stack[k].callback = NoHandle
  BY <1>2 DEF DriverInv, PendingOnTop, CallbackOnTop, InCallbackOnTop
<1>4. \A k \in DOMAIN stack' : stack'[k].pc # "release" /\ stack'[k].callback = NoHandle
  BY <1>1, <1>2, <1>3
<1>5. phase # "closed" BY DEF DriverInv, ClosedInv
<1>6. CASE Top.callback = NoHandle
  <2>1. UNCHANGED <<alive, base, uses>>
    <3>1. alive' = alive \ {0} BY <1>1, <1>6 DEF Destroyed
    <3>2. /\ base' = [g \in Handles |-> IF g = 0 THEN NoHandle ELSE base[g]]
          /\ uses' = [g \in Handles |-> IF g = 0 THEN {} ELSE uses[g] \ {0}]
      BY <1>1, <1>6 DEF Destroyed
    <3>3. \A g \in Handles : g # 0 /\ uses[g] \ {0} = uses[g] BY DriverTypes
    <3>4. 0 \notin alive BY DriverTypes
    <3> QED BY <3>1, <3>2, <3>3, <3>4, DriverTypes
  <2>2. \A h : ~IsPending(h)' /\ ~IsPending(h) BY <1>3, <1>4 DEF IsPending
  <2>3. Dying' = {}
    <3>1. \A h \in InCallback : h = NoHandle BY <1>2, <1>3, <1>6 DEF InCallback
    <3>2. Dying' \subseteq Dying BY <1>1, <2>1, <3>1, DriverKept, DriverTypes DEF DriverInv, Dying
    <3> QED BY <3>2
  <2>4. PendingOnTop' /\ CallbackOnTop' /\ ClosedInv' /\ OneDying'
    BY <1>4, <1>5, <2>3 DEF PendingOnTop, CallbackOnTop, ClosedInv, OneDying
  <2> QED BY <1>1, <2>1, <2>2, <2>4, QuietStep
<1>7. CASE Top.callback # NoHandle
  <2>1. PICK h : h = Top.callback OBVIOUS
  <2>2. h \in Handles BY <1>2, <1>7, <2>1 DEF Frame
  <2>3. h \in alive \ Permanent /\ refs[h] = 0 /\ Users(h) = {}
    BY <1>2, <1>7, <2>1 DEF DriverInv, CallbackOnTop, InCallbackOnTop
  <2>4. \A u \in valid : obj[u].handle # h BY <2>1, TopUnbound
  <2>5. \A k \in DOMAIN stack : stack[k].callback \in {NoHandle, h} BY <1>2, <1>3, <2>1
  <2>6. Destroyed(h)
    <3>1. alive' = alive \ {h} BY <1>1, <2>1 DEF Destroyed
    <3>2. /\ base' = [g \in Handles |-> IF g = h THEN NoHandle ELSE base[g]]
          /\ uses' = [g \in Handles |-> IF g = h THEN {} ELSE uses[g] \ {h}]
      BY <1>1, <2>1 DEF Destroyed
    <3> QED BY <3>1, <3>2 DEF Destroyed
  <2> QED BY <1>1, <1>3, <1>4, <1>5, <2>2, <2>3, <2>4, <2>5, <2>6, FreedDriver
<1> QED BY <1>6, <1>7

\* The two ways to return.
LEMMA ReturnsDriver ==
  ASSUME DriverAssumption, Inv, RefInv, DriverInv,
         DestructorReturns \/ (FreeUserdata /\ Top.ud \notin valid)
  PROVE  DriverInv'
<1>1. CASE DestructorReturns
  <2>1. /\ stack # <<>> /\ Dying = {} /\ Top.pc = "return" /\ Return
        /\ UNCHANGED <<obj, hasSub, tree, mem, phase>>
    BY <1>1 DEF DestructorReturns, Running, udVars
  <2>2. Top.ud \notin valid
    <3>1. Len(stack) \in DOMAIN stack /\ Top = stack[Len(stack)] BY <2>1, TopFacts, DriverTypes
    <3>2. FrameInv(Len(stack)) BY <3>1 DEF Inv, FramesInv
    <3> QED BY <2>1, <3>1, <3>2 DEF FrameInv
  <2> QED BY <2>1, <2>2, ReturnDriver
<1>2. CASE FreeUserdata /\ Top.ud \notin valid
  <2>1. /\ stack # <<>> /\ Dying = {} /\ Top.pc = "scan" /\ Return
        /\ UNCHANGED <<obj, hasSub, tree, mem, phase>>
    BY <1>2 DEF FreeUserdata, Running
  <2> QED BY <1>2, <2>1, ReturnDriver
<1> QED BY <1>1, <1>2

-----------------------------------------------------------------------------
(***************************************************************************)
(* ReleaseAll and the driver.                                              *)
(***************************************************************************)
\* ReleaseAll pulls no object away from under one created from it: the bindings of those
\* are gone, so their references are too, and the driver has destroyed them.
LEMMA NoneAbove ==
  ASSUME Inv, DriverInv, CountImplicit, ~AllocMayFail, stack # <<>>, Dying = {},
         Top.pc = "release", Top.ud \notin valid, NEW x \in alive, x # Top.handle
  PROVE  base[x] # Top.handle
<1>1. SUFFICES ASSUME base[x] = Top.handle PROVE FALSE OBVIOUS
<1>2. Len(stack) \in DOMAIN stack /\ Top = stack[Len(stack)] /\ Top \in Frame
  BY TopFacts, DriverTypes
<1>3. x \in Handles /\ Top.handle \in Handles /\ Top.handle # NoHandle
  BY <1>2, DriverTypes DEF Frame
<1>4. x \notin Permanent BY <1>1, <1>3 DEF DriverInv, GraphInv, PermanentInv
<1>5. ~IsPending(x) BY <1>2 DEF IsPending, DriverInv, PendingOnTop
<1>6. CASE tree[x] # NoUd
  <2>1. PICK u \in valid : obj[u].handle = x BY <1>3, <1>6, Bound
  <2>2. obj[u].parent \in valid /\ obj[obj[u].parent].handle = Top.handle
    BY <1>1, <1>3, <2>1 DEF DriverInv, GraphInv, BaseInv
  <2> QED BY <2>2, TopUnbound
<1>7. CASE tree[x] = NoUd
  <2>1. refs[x] = 0
    <3>1. refs[x] > 0 => FALSE BY <1>4, <1>5, <1>7 DEF DriverInv, ReferencesOwned, IsPending
    <3> QED BY <1>3, <3>1, DriverTypes
  <2>2. Users(x) = {} BY <1>4, <1>5, <1>7, <2>1 DEF DriverInv, UnusedInv
  <2>3. x \in InCallback BY <1>4, <2>1, <2>2 DEF Dying
  <2>4. PICK k \in DOMAIN stack : stack[k].callback = x BY <2>3 DEF InCallback
  <2>5. k = Len(stack)
    BY <1>3, <2>4, DriverTypes DEF DriverInv, CallbackOnTop, InCallbackOnTop
  <2>6. FrameInv(k) BY DEF Inv, FramesInv
  <2> QED BY <1>2, <1>3, <2>4, <2>5, <2>6, DriverTypes DEF FrameInv
<1> QED BY <1>6, <1>7

\* ReleaseAll drops the references that the driver reports.
LEMMA ReleaseAllDriver ==
  ASSUME DriverAssumption, Inv, RefInv, DriverInv, ReleaseAll PROVE DriverInv'
<1> DEFINE n == Len(stack)
<1>a. PICK T : T = [Top EXCEPT !.pc = "return"] OBVIOUS
<1>b. PICK h : h = Top.handle OBVIOUS
<1>1. /\ stack # <<>> /\ Dying = {} /\ Top.pc = "release" /\ stack' = WithTop(T)
      /\ refs' = IF h \in Permanent THEN refs ELSE [refs EXCEPT ![h] = 0]
      /\ IF ReferenceCount(h) > refs[h] THEN Destroyed(h) ELSE UNCHANGED <<alive, base, uses>>
      /\ UNCHANGED <<mem, obj, hasSub, tree, phase>>
  BY <1>a, <1>b DEF ReleaseAll, Running, udVars
<1>2. Top \in Frame BY <1>1, TopFacts, DriverTypes
<1>3. T \in Frame /\ T.pc = "return" /\ T.callback = Top.callback /\ T.type = Top.type
  BY <1>a, <1>2 DEF Frame
<1>4. /\ DOMAIN stack' = DOMAIN stack /\ Len(stack') = n /\ stack' # <<>>
      /\ n \in DOMAIN stack /\ Top = stack[n] /\ stack'[n] = T
      /\ \A k \in DOMAIN stack : k # n => stack'[k] = stack[k]
      /\ InCallback' = InCallback
  BY <1>1, <1>3, TopReplaced
<1>5. FrameInv(n) BY <1>4 DEF Inv, FramesInv
<1>6. Top.ud \notin valid /\ (Top.callback # NoHandle => Top.callback = h)
  BY <1>b, <1>1, <1>4, <1>5 DEF FrameInv
<1>7. h \in Handles /\ alive \subseteq Handles /\ refs \in [Handles -> Nat]
  BY <1>b, <1>2, DriverTypes DEF Frame
<1>8. \A k \in DOMAIN stack : stack[k].pc = "release" => k = n
  BY DEF DriverInv, PendingOnTop
<1>9. \A k \in DOMAIN stack : stack[k].callback # NoHandle => k = n
  BY DEF DriverInv, CallbackOnTop, InCallbackOnTop
<1>10. \A g : ~IsPending(g)' /\ (IsPending(g) => g = h)
  BY <1>b, <1>3, <1>4, <1>8 DEF IsPending
<1>11. PendingOnTop' BY <1>3, <1>4, <1>8 DEF PendingOnTop
<1>12. ClosedInv' BY <1>1 DEF DriverInv, ClosedInv
<1>13. \A g \in Handles : g # h => refs'[g] = refs[g] BY <1>1, <1>7
<1>14. h \in Handles \ Permanent => refs'[h] = 0 BY <1>1, <1>7
<1>15. alive' \subseteq alive
  BY <1>1, DestroyedFacts DEF Destroyed
<1>16. ~AllocMayFail => ReferencesOwned'
  <2>1. SUFFICES ASSUME ~AllocMayFail, NEW g \in alive' \ Permanent, refs'[g] > 0
                 PROVE  tree[g] # NoUd
    BY <1>1 DEF ReferencesOwned
  <2>2. g # h /\ g \in Handles BY <1>7, <1>14, <1>15, <2>1
  <2>3. tree[g] # NoUd \/ IsPending(g)
    BY <1>13, <1>15, <2>1, <2>2 DEF DriverInv, ReferencesOwned, IsPending
  <2> QED BY <1>10, <2>2, <2>3
<1>17. CASE ReferenceCount(h) > refs[h]
  <2>1. Destroyed(h) BY <1>1, <1>17
  <2>2. h \notin Permanent BY <1>17 DEF ReferenceCount, RefInv
  <2>3. h \in alive BY <1>7, <1>17, <2>2 DEF ReferenceCount
  <2>4. CountImplicit /\ ReferenceCount(h) = refs[h] + Cardinality(Users(h))
    BY <1>7, <1>17, <2>2, <2>3 DEF ReferenceCount
  <2>5. Users(h) # {} BY <1>7, <1>17, <2>4, FS_EmptySet
  <2>6. Top.callback = NoHandle
    BY <1>4, <1>6, <2>5 DEF DriverInv, CallbackOnTop, InCallbackOnTop
  <2>7. ~AllocMayFail BY <2>4 DEF DriverAssumption
  <2>8. \A x \in alive : x # h => base[x] # h
    BY <1>b, <1>1, <1>6, <2>4, <2>7, NoneAbove
  <2>9. \A u \in valid : obj[u].handle # h BY <1>b, <1>1, <1>6, TopUnbound
  <2>10. GraphInv' BY <1>1, <1>7, <2>1, <2>2, <2>8, <2>9, GraphDestroyed DEF DriverInv
  <2>11. alive' = alive \ {h} /\ \A g \in Handles : g # h => Users(g)' = Users(g) \ {h}
    BY <1>7, <2>1, DestroyedFacts
  <2>12. CallbackOnTop' BY <1>3, <1>4, <1>9, <2>6 DEF CallbackOnTop
  <2>13. UnusedInv'
    BY <1>1, <1>7, <1>10, <1>13, <2>4, <2>11 DEF DriverInv, UnusedInv
  <2>14. ASSUME NEW x \in Dying', NEW y \in Dying' PROVE x = y
    <3>1. ASSUME NEW z \in Dying'
          PROVE  /\ z \in alive' \ Permanent /\ refs[z] = 0 /\ Users(z)' = {} /\ Users(z) # {}
                 /\ ~IsPending(z)
      <4>1. z \in alive' \ Permanent /\ refs'[z] = 0 /\ Users(z)' = {} /\ z \notin InCallback
        BY <1>4 DEF Dying
      <4>2. z # h /\ z \in Handles /\ refs[z] = 0 BY <1>7, <1>13, <2>11, <4>1
      <4>3. z \notin Dying BY <1>1
      <4>4. Users(z) # {} BY <2>11, <4>1, <4>2, <4>3 DEF Dying
      <4> QED BY <1>10, <4>1, <4>2, <4>4
    <3>2. UnusedInv /\ GraphInv /\ ReleasesTracked BY <2>4 DEF DriverInv, DriverAssumption
    <3>3. /\ x \in alive' \ Permanent /\ refs[x] = 0 /\ Users(x)' = {} /\ Users(x) # {}
          /\ ~IsPending(x)
      BY <3>1
    <3>4. /\ y \in alive' \ Permanent /\ refs[y] = 0 /\ Users(y)' = {} /\ Users(y) # {}
          /\ ~IsPending(y)
      BY <3>1
    <3> QED BY <1>7, <2>1, <2>4, <3>2, <3>3, <3>4, OneNewlyDying
  <2> QED BY <1>11, <1>12, <1>16, <2>10, <2>12, <2>13, <2>14 DEF DriverInv, OneDying
<1>18. CASE ~(ReferenceCount(h) > refs[h])
  <2>1. UNCHANGED <<alive, base, uses>> BY <1>1, <1>18
  <2>2. \A g : Users(g)' = Users(g) BY <2>1 DEF Users
  <2>3. GraphInv'
    BY <1>1, <2>1 DEF DriverInv, GraphInv, PermanentInv, UsesAlive, NoCycle, BaseAlive, BaseInv,
                      OneUsed, valid
  <2>4. Dying' \subseteq {h} /\ (h \in InCallback => Dying' = {})
    <3>1. ASSUME NEW z \in Dying', z # h PROVE FALSE
      <4>1. z \in alive \ Permanent /\ refs'[z] = 0 /\ Users(z) = {} /\ z \notin InCallback
        BY <1>4, <2>1, <2>2 DEF Dying
      <4>2. refs[z] = 0 BY <1>7, <1>13, <3>1, <4>1
      <4> QED BY <1>1, <4>1, <4>2 DEF Dying
    <3>2. h \in InCallback => h \notin Dying' BY <1>4 DEF Dying
    <3> QED BY <3>1, <3>2
  <2>5. CallbackOnTop'
    <3>1. ASSUME NEW k \in DOMAIN stack', NEW g \in {stack'[k].callback} \ {NoHandle}
          PROVE  InCallbackOnTop(k, g)'
      <4>1. k \in DOMAIN stack /\ stack[k].callback = g /\ stack[k].type = stack'[k].type
        BY <1>3, <1>4
      <4>2. InCallbackOnTop(k, g) BY <3>1, <4>1 DEF DriverInv, CallbackOnTop
      <4>3. k = n /\ g = h BY <1>4, <1>6, <1>9, <3>1, <4>1
      <4>4. h \in InCallback BY <4>1, <4>3 DEF InCallback
      <4> QED BY <1>4, <1>7, <1>14, <2>1, <2>2, <2>4, <4>1, <4>2, <4>3, <4>4 DEF InCallbackOnTop
    <3> QED BY <3>1 DEF CallbackOnTop
  <2>6. ASSUME CountImplicit PROVE UnusedInv'
    <3>1. SUFFICES ASSUME NEW g \in alive \ Permanent, tree[g] = NoUd, refs'[g] = 0
                   PROVE  Users(g) = {}
      BY <1>1, <2>1, <2>2 DEF UnusedInv
    <3>2. CASE g # h
      <4>1. refs[g] = 0 /\ ~IsPending(g) BY <1>7, <1>10, <1>13, <3>1, <3>2
      <4> QED BY <2>6, <3>1, <4>1 DEF DriverInv, UnusedInv
    <3>3. CASE g = h
      <4>1. ReferenceCount(h) = refs[h] + Cardinality(Users(h))
        BY <2>6, <3>1, <3>3 DEF ReferenceCount
      <4>2. IsFiniteSet(Users(h))
        <5>1. Users(h) \subseteq Handles BY <1>7 DEF Users
        <5> QED BY <5>1, HandlesAssumption, FS_Subset
      <4>3. Cardinality(Users(h)) \in Nat BY <4>2, FS_CardinalityType
      <4>4. Cardinality(Users(h)) = 0 BY <1>7, <1>18, <4>1, <4>3
      <4> QED BY <3>3, <4>2, <4>4, FS_EmptySet
    <3> QED BY <3>2, <3>3
  <2>7. OneDying' BY <2>4 DEF OneDying
  <2> QED BY <1>11, <1>12, <1>16, <2>3, <2>5, <2>6, <2>7 DEF DriverInv
<1> QED BY <1>17, <1>18

\* The driver frees an object, or calls its DestructorCallback first if it is still bound.
LEMMA DriverDestroysDriver ==
  ASSUME DriverAssumption, Inv, RefInv, DriverInv, NEW h \in Handles, DriverDestroys(h)
  PROVE  DriverInv'
<1>1. /\ h \in Dying /\ h \in alive \ Permanent /\ refs[h] = 0 /\ Users(h) = {}
      /\ UNCHANGED <<obj, tree, refs, phase>>
  BY DEF DriverDestroys, Dying, udVars
<1>2. \A k \in DOMAIN stack : stack[k].pc # "release" /\ stack[k].callback = NoHandle
  BY <1>1 DEF DriverInv, PendingOnTop, CallbackOnTop, InCallbackOnTop
<1>3. phase # "closed" BY <1>1 DEF DriverInv, ClosedInv
<1>4. \A u \in valid : obj[u].handle = h => CountImplicit /\ obj[u].type \in MemTypes /\ tree[h] = u
  BY <1>1, BoundHandle DEF RefInv, DriverAssumption, ReleasesTracked
<1>5. CASE tree[h] \in valid /\ obj[tree[h]].type \in MemTypes
  <2>1. stack' = Append(stack, Destroying(tree[h], h)) /\ UNCHANGED <<alive, base, uses>>
    BY <1>5 DEF DriverDestroys
  <2>2. obj[tree[h]].handle = h /\ h # NoHandle BY <1>5, Bound, DriverTypes
  <2>3. CountImplicit BY <1>4, <1>5, <2>2
  <2>4. PICK D : D = Destroying(tree[h], h) OBVIOUS
  <2>5. D \in Frame /\ D.pc = "scan" /\ D.callback = h /\ D.type \in MemTypes
    BY <1>5, <2>2, <2>4, NewFrame
  <2>6. stack \in Seq(Frame) BY DriverTypes
  <2>7. /\ DOMAIN stack' = DOMAIN stack \cup {Len(stack) + 1} /\ Len(stack') = Len(stack) + 1
        /\ stack'[Len(stack) + 1] = D /\ Len(stack) + 1 \in DOMAIN stack'
        /\ \A k \in DOMAIN stack : stack'[k] = stack[k]
    BY <2>1, <2>4, <2>5, <2>6, AppendFacts
  <2>8. \A k \in DOMAIN stack' : stack'[k].pc # "release" BY <1>2, <2>5, <2>7
  <2>9. Dying' = {}
    <3>1. h \in InCallback' BY <2>5, <2>7 DEF InCallback
    <3>2. \A x \in Dying' : x \in Dying
      <4>1. \A x \in InCallback : x = NoHandle BY <1>2 DEF InCallback
      <4> QED BY <1>1, <2>1, <4>1, DriverKept, DriverTypes DEF DriverInv, Dying
    <3>3. \A x \in Dying : x = h BY <1>1, <2>3 DEF DriverInv, OneDying
    <3>4. h \notin Dying' BY <3>1 DEF Dying
    <3> QED BY <3>2, <3>3, <3>4
  <2>10. Users(h)' = {} BY <1>1, <2>1 DEF Users
  <2>11. CallbackOnTop'
    <3>1. ASSUME NEW k \in DOMAIN stack', NEW g \in {stack'[k].callback} \ {NoHandle}
          PROVE  InCallbackOnTop(k, g)'
      <4>1. k = Len(stack) + 1 BY <1>2, <2>7
      <4>2. g = h BY <2>5, <2>7, <4>1
      <4> QED BY <1>1, <2>1, <2>3, <2>5, <2>7, <2>9, <2>10, <4>1, <4>2 DEF InCallbackOnTop
    <3> QED BY <3>1 DEF CallbackOnTop
  <2>12. \A g : ~IsPending(g)' /\ ~IsPending(g) BY <1>2, <2>8 DEF IsPending
  <2>13. PendingOnTop' /\ ClosedInv' /\ OneDying'
    BY <1>1, <1>3, <2>8, <2>9 DEF PendingOnTop, ClosedInv, OneDying
  <2> QED BY <1>1, <2>1, <2>11, <2>12, <2>13, QuietStep
<1>6. CASE ~(tree[h] \in valid /\ obj[tree[h]].type \in MemTypes)
  <2>1. Destroyed(h) /\ UNCHANGED stack BY <1>6 DEF DriverDestroys
  <2>2. \A u \in valid : obj[u].handle # h BY <1>4, <1>6
  <2>3. CASE CountImplicit
    <3>1. Dying \subseteq {h} BY <1>1, <2>3 DEF DriverInv, OneDying
    <3> QED BY <1>1, <1>2, <1>3, <2>1, <2>2, <3>1, FreedDriver
  <2>4. CASE ~CountImplicit
    <3>1. alive' = alive \ {h} BY <2>1, DestroyedFacts
    <3>2. GraphInv'
      <4>1. \A x \in alive : base[x] # h BY <1>1 DEF Users
      <4> QED BY <1>1, <2>1, <2>2, <4>1, GraphDestroyed DEF DriverInv
    <3>3. PendingOnTop' /\ CallbackOnTop' /\ ClosedInv'
      BY <1>1, <1>2, <1>3, <2>1 DEF PendingOnTop, CallbackOnTop, ClosedInv
    <3>4. ~AllocMayFail => ReferencesOwned'
      BY <1>1, <2>1, <3>1 DEF DriverInv, ReferencesOwned
    <3> QED BY <2>4, <3>2, <3>3, <3>4 DEF DriverInv
  <2> QED BY <2>3, <2>4
<1> QED BY <1>5, <1>6

-----------------------------------------------------------------------------
(***************************************************************************)
(* The script and Lua.                                                     *)
(***************************************************************************)
\* retain_xxx and release_xxx change the references of a bound object.
LEMMA CountedDriver ==
  ASSUME Inv, DriverInv, stack = <<>>, Dying = {}, phase = "open",
         NEW h \in Handles, tree[h] # NoUd, \A g \in Handles : g # h => refs'[g] = refs[g],
         UNCHANGED <<obj, tree, alive, base, uses, stack, phase>>
  PROVE  DriverInv'
<1>1. alive \subseteq Handles /\ Permanent \subseteq Handles BY DriverTypes
<1>2. \A g : Users(g)' = Users(g) BY DEF Users
<1>3. GraphInv'
  BY DEF DriverInv, GraphInv, PermanentInv, UsesAlive, NoCycle, BaseAlive, BaseInv, OneUsed, valid
<1>4. PendingOnTop' /\ CallbackOnTop' /\ ClosedInv' /\ \A g : ~IsPending(g)
  BY DEF PendingOnTop, CallbackOnTop, ClosedInv, IsPending
<1>5. \A g \in Dying' : g = h
  <2>1. InCallback' = InCallback BY DEF InCallback
  <2> QED BY <1>1, <1>2, <2>1 DEF Dying
<1>6. CountImplicit => UnusedInv' BY <1>1, <1>2, <1>4 DEF DriverInv, UnusedInv, IsPending
<1>7. ~AllocMayFail => ReferencesOwned' BY <1>1 DEF DriverInv, ReferencesOwned
<1> QED BY <1>3, <1>4, <1>5, <1>6, <1>7 DEF DriverInv, OneDying

LEMMA RetainDriver ==
  ASSUME Inv, DriverInv, NEW u \in valid, Retain(u) PROVE DriverInv'
<1>1. PICK h : h = obj[u].handle OBVIOUS
<1>2. h \in Handles /\ tree[h] # NoUd BY <1>1, BoundHandle
<1>3. /\ stack = <<>> /\ Dying = {} /\ phase = "open" /\ refs' = [refs EXCEPT ![h] = @ + 1]
      /\ UNCHANGED <<obj, tree, alive, base, uses, stack, phase>>
  BY <1>1 DEF Retain, Script, Idle, udVars
<1>4. \A g \in Handles : g # h => refs'[g] = refs[g] BY <1>3, DriverTypes
<1> QED BY <1>2, <1>3, <1>4, CountedDriver

LEMMA ReleaseDriver ==
  ASSUME DriverAssumption, Inv, DriverInv, NEW u \in valid, Release(u) PROVE DriverInv'
<1>1. PICK h : h = obj[u].handle OBVIOUS
<1>2. h \in Handles /\ tree[h] # NoUd BY <1>1, BoundHandle
<1>3. stack = <<>> /\ Dying = {} /\ phase = "open" BY DEF Release, Script, Idle
<1>4. CASE ReferenceCount(h) = 1
  <2>1. stack' = <<Destroying(u, NoHandle)>> /\ UNCHANGED <<udVars, clVars, phase>>
    BY <1>1, <1>4 DEF Release, clVars
  <2> QED BY <1>3, <2>1, CalledDriver
<1>5. CASE ReferenceCount(h) # 1
  <2>1. /\ refs' = [refs EXCEPT ![h] = @ - 1]
        /\ UNCHANGED <<obj, tree, alive, base, uses, stack, phase>>
    BY <1>1, <1>5 DEF Release, udVars
  <2>2. \A g \in Handles : g # h => refs'[g] = refs[g] BY <2>1, DriverTypes
  <2> QED BY <1>2, <1>3, <2>1, <2>2, CountedDriver
<1> QED BY <1>4, <1>5

\* Lua collects a userdata, and lua_close begins and ends.
LEMMA LuaDriver ==
  ASSUME DriverAssumption, Inv, DriverInv, UNCHANGED <<obj, tree, alive, refs, base, uses, stack>>,
         ClosedInv'
  PROVE  DriverInv'
<1>1. \A h : Users(h)' = Users(h) BY DEF Users
<1>2. Dying' = Dying
  <2>1. InCallback' = InCallback BY DEF InCallback
  <2> QED BY <1>1, <2>1 DEF Dying
<1>3. PendingOnTop' BY <1>2 DEF DriverInv, PendingOnTop
<1>4. CallbackOnTop' BY <1>1, <1>2 DEF DriverInv, CallbackOnTop, InCallbackOnTop
<1>5. CountImplicit => OneDying' BY <1>2 DEF DriverInv, OneDying
<1>6. \A h : IsPending(h)' <=> IsPending(h) BY DEF IsPending
<1> QED BY <1>3, <1>4, <1>5, <1>6, QuietStep

\* The new objects have no users yet, and what they are created from and use is alive.
LEMMA CreatesDriver ==
  ASSUME DriverAssumption, Inv, RefInv, DriverInv, Creates PROVE DriverInv'
<1>1. PICK new, p, from, used : Creation(new, p, from, used) BY DEF Creates
<1> DEFINE H == DOMAIN new
<1>2. /\ phase = "open" /\ stack = <<>> /\ Dying = {} /\ H \subseteq Handles
      /\ \A h \in H : IsNew(new[h], h, p)
      /\ p \in valid \cup {NoUd}
      /\ from = NoHandle \/ (p \in valid /\ from = obj[p].handle)
      /\ \A o \in used : o = NoHandle \/ \E u \in valid : o = obj[u].handle
      /\ \A x, y \in used : x = y
      /\ p \in valid => (obj[p].type \in MemTypes => from = obj[p].handle /\ used = {})
  BY <1>1 DEF Creation, IsNew
<1>3. PICK B, N : Bindings(new, from, used, B, N)
  BY <1>1, <1>2, CreateBindingsFacts DEF Creation
<1>a. PICK F : F = H \ Permanent OBVIOUS
<1>b. PICK U : U = used \ ({NoHandle} \cup Permanent) OBVIOUS
<1>4. /\ B \subseteq H /\ valid' = valid \cup N
      /\ \A u \in valid : u \notin N /\ obj'[u] = obj[u]
      /\ \A h \in Handles \ B : tree'[h] = tree[h]
      /\ alive' = alive \cup H /\ UNCHANGED <<stack, phase>>
      /\ refs' = [h \in Handles |-> IF h \in F THEN 1 ELSE refs[h]]
      /\ base' = [h \in Handles |-> IF h \in F THEN from ELSE base[h]]
      /\ uses' = [h \in Handles |-> IF h \in F THEN U ELSE uses[h]]
  BY <1>3, <1>a, <1>b, Zenon DEF Bindings
<1>5. /\ alive \subseteq Handles /\ Permanent \subseteq Handles /\ 0 \notin Handles
      /\ NoUd \notin valid /\ Permanent \subseteq alive
  BY DriverTypes DEF DriverInv, GraphInv, PermanentInv
<1>6. \A h \in F : h \in Handles /\ h \notin alive /\ h \notin Permanent
  BY <1>2, <1>a DEF IsNew
<1>7. alive' = alive \cup F /\ F \cap alive = {} BY <1>4, <1>5, <1>6, <1>a
<1>8. \A u \in valid : obj[u].handle \in alive BY DEF RefInv, BindingAlive
<1>9. (from # NoHandle => from \in alive) /\ U \subseteq alive BY <1>2, <1>8, <1>b
<1>10. /\ \A h \in F : base'[h] = from /\ uses'[h] = U /\ refs'[h] = 1
       /\ \A h \in alive : base'[h] = base[h] /\ uses'[h] = uses[h] /\ refs'[h] = refs[h]
       /\ \A h \in Handles \ F : base'[h] = base[h] /\ uses'[h] = uses[h] /\ refs'[h] = refs[h]
  BY <1>4, <1>5, <1>6
<1>11. /\ \A u \in valid : obj[u].handle \notin F /\ obj[u].handle \in Handles
       /\ \A u \in N : \E h \in B : obj'[u] = new[h] /\ h \in H /\ obj'[u].handle = h
                                    /\ obj'[u].parent = p /\ WellFormed(new[h], h)
                                    /\ (new[h].type \in MemTypes => h \in F)
  <2>1. \A u \in valid : obj[u].handle \notin F /\ obj[u].handle \in Handles
    BY <1>6, <1>8, BoundHandle
  <2>2. ASSUME NEW u \in N
        PROVE  \E h \in B : /\ obj'[u] = new[h] /\ h \in H /\ obj'[u].handle = h
                            /\ obj'[u].parent = p /\ WellFormed(new[h], h)
                            /\ (new[h].type \in MemTypes => h \in F)
    <3>1. PICK h \in B : obj'[u] = new[h] BY <1>3 DEF Bindings
    <3>2. h \in H /\ IsNew(new[h], h, p) BY <1>2, <1>4
    <3>3. /\ WellFormed(new[h], h) /\ new[h].parent = p /\ new[h].handle = h
          /\ (new[h].type \in MemTypes => h \notin Permanent)
      BY <3>2 DEF IsNew, WellFormed
    <3> QED BY <1>a, <3>1, <3>2, <3>3
  <2> QED BY <2>1, <2>2
<1>12. PermanentInv' BY <1>5, <1>6, <1>7, <1>10 DEF DriverInv, GraphInv, PermanentInv
<1>13. UsesAlive'
  <2>1. \A h \in alive : uses[h] \subseteq alive BY DEF DriverInv, GraphInv, UsesAlive
  <2> QED BY <1>7, <1>9, <1>10, <2>1 DEF UsesAlive
<1>14. BaseAlive'
  <2>1. \A h \in alive : base[h] # NoHandle => base[h] \in alive
    BY DEF DriverInv, GraphInv, BaseAlive
  <2> QED BY <1>7, <1>9, <1>10, <2>1 DEF BaseAlive
<1>15. NoCycle'
  <2>1. ASSUME NEW S \in SUBSET (alive' \ Permanent), S # {}
        PROVE  \E g \in S : \A x \in S : base'[x] # g /\ g \notin uses'[x]
    <3>1. CASE S \cap F # {}
      <4>1. PICK g \in S : g \in F BY <3>1
      <4>2. ASSUME NEW x \in S PROVE base'[x] # g /\ g \notin uses'[x]
        <5>1. g \notin alive /\ g # NoHandle BY <1>5, <1>6, <4>1
        <5>2. x \in alive' BY <2>1
        <5>3. x \in alive \/ x \in F BY <1>7, <5>2
        <5>4. x \in alive => base[x] # g /\ g \notin uses[x]
          BY <5>1 DEF DriverInv, GraphInv, BaseAlive, UsesAlive
        <5> QED BY <1>9, <1>10, <5>1, <5>3, <5>4
      <4> QED BY <4>1, <4>2
    <3>2. CASE S \cap F = {}
      <4>1. S \in SUBSET (alive \ Permanent) BY <1>7, <2>1, <3>2
      <4>2. PICK g \in S : \A x \in S : base[x] # g /\ g \notin uses[x]
        BY <2>1, <4>1 DEF DriverInv, GraphInv, NoCycle
      <4> QED BY <1>10, <4>1, <4>2
    <3> QED BY <3>1, <3>2
  <2> QED BY <2>1 DEF NoCycle
<1>16. BaseInv'
  <2>1. ASSUME NEW u \in valid
        PROVE  /\ base'[obj'[u].handle] # NoHandle =>
                    obj'[u].parent \in valid' /\ base'[obj'[u].handle] = obj'[obj'[u].parent].handle
               /\ obj'[u].type = "subbuffer" => base'[obj'[u].handle] # NoHandle
    <3>1. obj'[u] = obj[u] /\ base'[obj[u].handle] = base[obj[u].handle]
      BY <1>4, <1>10, <1>11
    <3>2. /\ base[obj[u].handle] # NoHandle =>
               obj[u].parent \in valid /\ base[obj[u].handle] = obj[obj[u].parent].handle
          /\ obj[u].type = "subbuffer" => base[obj[u].handle] # NoHandle
      BY DEF DriverInv, GraphInv, BaseInv
    <3> QED BY <1>4, <3>1, <3>2
  <2>2. ASSUME NEW u \in N
        PROVE  /\ base'[obj'[u].handle] # NoHandle =>
                    obj'[u].parent \in valid' /\ base'[obj'[u].handle] = obj'[obj'[u].parent].handle
               /\ obj'[u].type = "subbuffer" => base'[obj'[u].handle] # NoHandle
    <3>1. PICK h \in B : /\ obj'[u] = new[h] /\ h \in H /\ obj'[u].handle = h
                         /\ obj'[u].parent = p /\ WellFormed(new[h], h)
                         /\ (new[h].type \in MemTypes => h \in F)
      BY <1>11
    <3>2. h \in F \/ h \in Permanent BY <1>a, <3>1
    <3>3. h \in Permanent => base'[h] = NoHandle BY <1>12 DEF PermanentInv
    <3>4. h \in F => base'[h] = from BY <1>10
    <3>5. from # NoHandle => p \in valid' /\ from = obj'[p].handle BY <1>2, <1>4
    <3>6. new[h].type = "subbuffer" => h \in F /\ p \in valid /\ obj[p].type = "buffer"
      <4>1. SUFFICES ASSUME new[h].type = "subbuffer"
                     PROVE  h \in F /\ p \in valid /\ obj[p].type = "buffer"
        OBVIOUS
      <4>2. ParentTypes(new[h].type) = {"buffer"} BY <4>1, ParentTypesOf
      <4>3. new[h].parent = p BY <3>1
      <4>4. p \in valid /\ obj[p].type \in ParentTypes(new[h].type)
        BY <3>1, <4>2, <4>3 DEF WellFormed
      <4> QED BY <3>1, <4>1, <4>2, <4>4 DEF MemTypes
    <3>7. new[h].type = "subbuffer" => from # NoHandle
      BY <1>2, <1>5, <1>11, <3>6 DEF MemTypes
    <3> QED BY <3>1, <3>2, <3>3, <3>4, <3>5, <3>6, <3>7
  <2> QED BY <1>4, <2>1, <2>2 DEF BaseInv
<1>17. ASSUME CountImplicit PROVE OneUsed'
  <2>1. OneUsed BY <1>17 DEF DriverInv, GraphInv
  <2>2. ASSUME NEW g \in alive', NEW x \in uses'[g], NEW y \in uses'[g] PROVE x = y
    <3>1. g \in alive \/ g \in F BY <1>7
    <3> QED BY <1>2, <1>10, <1>b, <2>1, <2>2, <3>1 DEF OneUsed
  <2>3. ASSUME NEW g \in alive', NEW v \in valid', base'[g] = obj'[v].handle,
               obj'[v].type \in MemTypes
        PROVE  uses'[g] = {}
    <3>1. g \in alive \/ g \in F BY <1>7
    <3>2. CASE v \in valid
      <4>1. obj'[v] = obj[v] BY <1>4, <3>2
      <4>2. g \in alive => uses'[g] = {} BY <1>10, <2>1, <2>3, <3>2, <4>1 DEF OneUsed
      <4>3. ASSUME g \in F PROVE uses'[g] = {}
        <5>1. from = obj[v].handle /\ from \in Handles BY <1>10, <1>11, <2>3, <3>2, <4>1, <4>3
        <5>2. p \in valid /\ from = obj[p].handle BY <1>2, <1>5, <5>1
        <5>3. p = v BY <3>2, <5>1, <5>2, BoundHandle
        <5>4. used = {} BY <1>2, <2>3, <4>1, <5>2, <5>3
        <5> QED BY <1>10, <1>b, <4>3, <5>4
      <4> QED BY <3>1, <4>2, <4>3
    <3>3. CASE v \in N
      <4>1. obj'[v].handle \in F BY <1>11, <2>3, <3>3
      <4>2. base'[g] \notin F
        <5>1. base'[g] # NoHandle => base'[g] \in alive
          BY <1>9, <1>10, <3>1 DEF DriverInv, GraphInv, BaseAlive
        <5> QED BY <1>5, <1>6, <5>1
      <4> QED BY <2>3, <4>1, <4>2
    <3> QED BY <1>4, <3>2, <3>3
  <2> QED BY <2>2, <2>3 DEF OneUsed
<1>18. \A g : ~IsPending(g) /\ ~IsPending(g)' BY <1>2, <1>4 DEF IsPending
<1>19. PendingOnTop' /\ CallbackOnTop' /\ ClosedInv'
  BY <1>2, <1>4 DEF PendingOnTop, CallbackOnTop, ClosedInv
<1>20. ASSUME NEW g \in alive PROVE Users(g) \subseteq Users(g)'
  BY <1>7, <1>10 DEF Users
<1>21. Dying' = {}
  <2>1. SUFFICES ASSUME NEW g \in Dying' PROVE FALSE OBVIOUS
  <2>2. g \in alive' \ Permanent /\ refs'[g] = 0 /\ Users(g)' = {} BY DEF Dying
  <2>3. g \in alive BY <1>7, <1>10, <2>2
  <2>4. refs[g] = 0 /\ Users(g) = {} BY <1>10, <1>20, <2>2, <2>3
  <2>5. g \notin InCallback BY <1>2 DEF InCallback
  <2> QED BY <1>2, <2>2, <2>3, <2>4, <2>5 DEF Dying
<1>22. ASSUME CountImplicit PROVE UnusedInv'
  <2>1. SUFFICES ASSUME NEW g \in alive' \ Permanent, tree'[g] = NoUd, refs'[g] = 0
                 PROVE  Users(g)' = {}
    BY DEF UnusedInv
  <2>2. g \in alive /\ g \in Handles BY <1>5, <1>7, <1>10, <2>1
  <2>3. refs[g] = 0 BY <1>10, <2>1, <2>2
  <2>4. g \notin B
    <3>1. \A h \in B : tree'[h] \in N BY <1>3 DEF Bindings
    <3>2. N \subseteq Uds BY <1>3 DEF Bindings
    <3> QED BY <2>1, <3>1, <3>2, ParametersAssumption
  <2>5. tree[g] = NoUd BY <1>4, <2>1, <2>2, <2>4
  <2>6. Users(g) = {} BY <1>18, <1>22, <2>1, <2>2, <2>3, <2>5 DEF DriverInv, UnusedInv
  <2>7. g # from
    <3>1. \A u \in valid : obj[u].handle # g BY <2>5, BoundHandle
    <3> QED BY <1>2, <1>5, <2>2, <3>1
  <2>8. g \notin U
    <3>1. \A u \in valid : obj[u].handle # g BY <2>5, BoundHandle
    <3> QED BY <1>2, <1>b, <3>1
  <2> QED BY <1>7, <1>10, <2>6, <2>7, <2>8 DEF Users
<1>23. ASSUME ~AllocMayFail PROVE ReferencesOwned'
  <2>1. \A h \in H : tree[h] = NoUd
    <3>1. ASSUME NEW h \in H, tree[h] # NoUd PROVE FALSE
      <4>1. tree[h] \in valid /\ obj[tree[h]].handle = h BY <1>2, <3>1, Bound
      <4>2. h \in alive BY <1>8, <4>1
      <4> QED BY <1>2, <3>1, <4>2 DEF IsNew
    <3> QED BY <3>1
  <2>2. B = H BY <1>3, <1>23, <2>1 DEF Bindings, Clash
  <2>3. \A h \in B : tree'[h] \in N /\ tree'[h] # NoUd
    BY <1>3, ParametersAssumption DEF Bindings
  <2>4. ASSUME NEW h \in alive' \ Permanent, refs'[h] > 0, h \notin B PROVE tree'[h] # NoUd
    <3>1. h \in alive /\ h \in Handles BY <1>5, <1>7, <1>a, <2>2, <2>4
    <3>2. refs[h] > 0 BY <1>10, <2>4, <3>1
    <3>3. tree[h] # NoUd
      BY <1>2, <1>23, <2>4, <3>1, <3>2 DEF DriverInv, ReferencesOwned
    <3> QED BY <1>4, <2>4, <3>1, <3>3
  <2> QED BY <2>3, <2>4 DEF ReferencesOwned
<1> QED BY <1>12, <1>13, <1>14, <1>15, <1>16, <1>17, <1>19, <1>21, <1>22, <1>23
        DEF DriverInv, GraphInv, OneDying

-----------------------------------------------------------------------------
\* Every step of a destructor or of the driver preserves the invariant.
LEMMA DestructorDriver ==
  ASSUME DriverAssumption, Inv, RefInv, DriverInv, Destructor PROVE DriverInv'
<1>1. CASE ScanObject BY <1>1, ScanObjectDriver
<1>2. CASE EndScan BY <1>2, EndScanDriver
<1>3. CASE FreeUserdata
  <2>1. CASE Top.ud \in valid BY <1>3, <2>1, FreeBindingDriver
  <2>2. CASE Top.ud \notin valid BY <1>3, <2>2, ReturnsDriver
  <2> QED BY <2>1, <2>2
<1>4. CASE ReleaseAll BY <1>4, ReleaseAllDriver
<1>5. CASE DestructorReturns BY <1>5, ReturnsDriver
<1>6. ASSUME NEW h \in Handles, DriverDestroys(h) PROVE DriverInv'
  BY <1>6, DriverDestroysDriver
<1> QED BY <1>1, <1>2, <1>3, <1>4, <1>5, <1>6 DEF Destructor

\* Every step preserves the invariant.
LEMMA NextDriver ==
  ASSUME DriverAssumption, Inv, RefInv, DriverInv, [Next]_vars PROVE DriverInv'
<1>1. CASE Create BY <1>1, CreateCreates, CreatesDriver
<1>2. ASSUME NEW u \in valid, Delete(u) PROVE DriverInv'
  <2>1. /\ stack = <<>> /\ phase # "closed" /\ stack' = <<Destroying(u, NoHandle)>>
        /\ UNCHANGED <<udVars, clVars, phase>>
    BY <1>2 DEF Delete, Idle
  <2> QED BY <2>1, CalledDriver
<1>3. ASSUME NEW u \in Args(Released), Retain(u) \/ Release(u) PROVE DriverInv'
  BY <1>3, RetainDriver, ReleaseDriver DEF Args
<1>4. ASSUME NEW u \in mem \ valid, Collect(u) PROVE DriverInv'
  <2>1. /\ phase # "closed" /\ UNCHANGED phase
        /\ UNCHANGED <<obj, tree, alive, refs, base, uses, stack>>
    BY <1>4 DEF Collect, clVars
  <2> QED BY <2>1, LuaDriver DEF ClosedInv
<1>5. CASE Destructor BY <1>5, DestructorDriver
<1>6. CASE Close
  <2>1. phase' = "closing" /\ UNCHANGED <<obj, tree, alive, refs, base, uses, stack>>
    BY <1>6 DEF Close, udVars, clVars
  <2> QED BY <2>1, LuaDriver DEF ClosedInv
<1>7. CASE Closed
  <2>1. /\ mem' = {} /\ stack' = <<>> /\ Dying = {}
        /\ UNCHANGED <<obj, tree, alive, refs, base, uses, stack>>
    BY <1>7 DEF Closed, Idle, udVars, clVars
  <2>2. Dying' = {}
    <3>1. \A h : Users(h)' = Users(h) BY <2>1 DEF Users
    <3>2. InCallback' = InCallback BY <2>1 DEF InCallback
    <3> QED BY <2>1, <3>1, <3>2 DEF Dying
  <2> QED BY <2>1, <2>2, LuaDriver DEF ClosedInv
<1>8. CASE UNCHANGED vars
  <2>1. UNCHANGED <<mem, obj, hasSub, tree, alive, refs, base, uses, stack, phase>>
    BY <1>8 DEF vars
  <2>2. ClosedInv'
    <3>1. \A h : Users(h)' = Users(h) BY <2>1 DEF Users
    <3>2. InCallback' = InCallback BY <2>1 DEF InCallback
    <3>3. Dying' = Dying BY <2>1, <3>1, <3>2 DEF Dying
    <3> QED BY <2>1, <3>3 DEF DriverInv, ClosedInv
  <2> QED BY <2>1, <2>2, LuaDriver
<1> QED BY <1>1, <1>2, <1>3, <1>4, <1>5, <1>6, <1>7, <1>8 DEF Next

\* Initially the driver has the platforms and the root devices only.
LEMMA InitDriver == ASSUME Init PROVE DriverInv
<1>1. /\ alive = Permanent /\ stack = <<>> /\ DOMAIN stack = {} /\ phase = "open" /\ valid = {}
      /\ \A h \in Permanent : h \in Handles /\ base[h] = NoHandle /\ uses[h] = {}
  BY HandlesAssumption DEF Init, valid, Permanent
<1>2. GraphInv
  BY <1>1 DEF GraphInv, PermanentInv, UsesAlive, NoCycle, BaseAlive, BaseInv, OneUsed
<1>3. Dying = {} BY <1>1 DEF Dying
<1> QED BY <1>1, <1>2, <1>3 DEF DriverInv, PendingOnTop, CallbackOnTop, ClosedInv, UnusedInv,
                                OneDying, ReferencesOwned

\* The invariant of the driver's objects.
THEOREM DriverInvariance == ASSUME DriverAssumption PROVE Spec => []DriverInv
<1>1. ReleasesTracked BY DEF DriverAssumption
<1>2. Inv /\ RefInv /\ [Next]_vars => RefInv' BY <1>1, NextRefs
<1>3. Inv /\ RefInv /\ DriverInv /\ [Next]_vars => DriverInv' BY NextDriver
<1>4. Init => DriverInv BY InitDriver
<1> QED BY <1>2, <1>3, <1>4, InitRefs, Invariance, PTL DEF Spec

\* No object of the driver is destroyed while one created from it is alive, although ReleaseAll
\* drops as many references as the driver reports: when a destructor comes to it, the users
\* that those references belong to are gone.
THEOREM BasesStayAlive == ASSUME DriverAssumption PROVE Spec => []BaseAlive
<1>1. DriverInv => BaseAlive BY DEF DriverInv, GraphInv
<1> QED BY <1>1, DriverInvariance, PTL

\* After lua_close the driver has destroyed all it can: what is left would have to be kept
\* alive by something that nothing refers to.
LEMMA ClosedIsEmpty ==
  ASSUME Inv, DriverInv, ReferencesOwned, phase = "closed"
  PROVE  alive = Permanent /\ \A h \in Handles : tree[h] = NoUd
<1>1. mem = {} /\ stack = <<>> /\ Dying = {} BY DEF DriverInv, ClosedInv
<1>2. valid = {} BY <1>1 DEF Inv, TypeOK
<1>3. \A h \in Handles : tree[h] = NoUd BY <1>2 DEF Inv, TreeMatchesValid
<1>4. Permanent \subseteq alive BY DEF DriverInv, GraphInv, PermanentInv
<1>5. ASSUME alive \ Permanent # {} PROVE FALSE
  <2>1. PICK g \in alive \ Permanent : \A x \in alive \ Permanent : base[x] # g /\ g \notin uses[x]
    BY <1>5 DEF DriverInv, GraphInv, NoCycle
  <2>2. g \in Handles /\ g # NoHandle BY DriverTypes
  <2>3. \A x \in Permanent : base[x] # g /\ g \notin uses[x]
    BY <2>2 DEF DriverInv, GraphInv, PermanentInv
  <2>4. Users(g) = {} BY <2>1, <2>3 DEF Users
  <2>5. refs[g] = 0
    <3>1. ~(refs[g] > 0) BY <1>1, <1>3, <2>2 DEF ReferencesOwned
    <3> QED BY <2>2, <3>1, DriverTypes
  <2>6. g \notin InCallback BY <1>1 DEF InCallback
  <2> QED BY <1>1, <2>4, <2>5, <2>6 DEF Dying
<1> QED BY <1>3, <1>4, <1>5

\* Nothing is leaked: the references of the application are those of the bindings and of the
\* destructor in progress, and after lua_close nothing is left in the driver, whatever the order
\* of the finalizers.  (A failed allocation of udata_new does leak the object it was for.)
THEOREM NothingIsLeaked ==
  ASSUME ReleasesTracked, ~AllocMayFail PROVE Spec => []NothingLeaked
<1>1. DriverAssumption BY DEF DriverAssumption
<1>2. Inv /\ DriverInv => NothingLeaked
  <2>1. ASSUME Inv, DriverInv PROVE NothingLeaked
    <3>1. ReferencesOwned BY <2>1 DEF DriverInv
    <3> QED BY <2>1, <3>1, ClosedIsEmpty DEF NothingLeaked, ClosedReleasesAll
  <2> QED BY <2>1
<1>3. Spec => []DriverInv BY <1>1, DriverInvariance
<1> QED BY <1>2, <1>3, Invariance, PTL
=============================================================================
