--------------------------- MODULE ObjectsRefinement ---------------------------
(***************************************************************************)
(* Proof that the object layer implements ObjectTree (DeletesSubtree): a   *)
(* destructor deletes the objects below its own, children first, and no    *)
(* others, if the script's count of references keeps the DestructorCallback *)
(* from deleting some on its own.                                          *)
(***************************************************************************)
EXTENDS ObjectsProofs

USE DEF NoHandle

\* The destructors in progress are those of an object, of one of its children, of a child of
\* that one and so on; all but the last have still to free their objects.
Descends(k) ==
  stack[k].ud \in valid => k = 1 \/ obj[stack[k].ud].parent = stack[k - 1].ud
ChainInv ==
  \A k \in DOMAIN stack :
    /\ stack[k].callback = NoHandle
    /\ k # Len(stack) => stack[k].ud \in valid
    /\ Descends(k)

\* The driver destroys no object that is bound, so it never calls a DestructorCallback that
\* has something to delete.
LEMMA NoCallback ==
  ASSUME OwnCounts, Inv, RefInv, NEW h \in Handles, DriverDestroys(h)
  PROVE  UNCHANGED <<obj, stack>>
<1>1. refs[h] = 0 /\ UNCHANGED obj BY DEF DriverDestroys, Dying, udVars
<1>2. ASSUME tree[h] \in valid PROVE FALSE
  <2>1. obj[tree[h]].handle = h
    BY <1>2, ParametersAssumption DEF Inv, TypeOK, TreeMatchesValid
  <2> QED BY <1>1, <1>2, <2>1 DEF RefInv, OwnCounts
<1> QED BY <1>1, <1>2 DEF DriverDestroys

-----------------------------------------------------------------------------
(***************************************************************************)
(* The stack of destructors is a path of the tree.                         *)
(***************************************************************************)
\* The frame at the top is replaced by one for the same object.
LEMMA ChainTop ==
  ASSUME Inv, ChainInv, stack # <<>>, NEW f \in Frame, stack' = WithTop(f), f.ud = Top.ud,
         f.callback = Top.callback, \A u \in valid' : u \in valid /\ obj'[u] = obj[u],
         \A k \in DOMAIN stack : k # Len(stack) => stack[k].ud \in valid'
  PROVE  /\ ChainInv' /\ DOMAIN stack' = DOMAIN stack
         /\ \A k \in DOMAIN stack : stack'[k].ud = stack[k].ud
<1>1. stack \in Seq(Frame) BY DEF Inv, TypeOK
<1>2. /\ DOMAIN stack' = DOMAIN stack /\ Len(stack') = Len(stack) /\ stack'[Len(stack)] = f
      /\ Top = stack[Len(stack)] /\ \A k \in DOMAIN stack : k # Len(stack) => stack'[k] = stack[k]
  BY <1>1, WithTopFacts, TopFacts
<1>3. \A k \in DOMAIN stack : stack'[k].ud = stack[k].ud /\ stack'[k].callback = stack[k].callback
  BY <1>2
<1>4. ASSUME NEW k \in DOMAIN stack PROVE Descends(k)'
  <2>1. SUFFICES ASSUME stack[k].ud \in valid', k # 1
                 PROVE  obj'[stack[k].ud].parent = stack'[k - 1].ud
    BY <1>3 DEF Descends
  <2>2. k - 1 \in DOMAIN stack BY <1>1, <2>1
  <2>3. obj[stack[k].ud].parent = stack[k - 1].ud BY <2>1 DEF ChainInv, Descends
  <2> QED BY <1>3, <2>1, <2>2, <2>3
<1> QED BY <1>2, <1>3, <1>4 DEF ChainInv

\* A destructor is called for a child of the object at the top, or for one on its own.
LEMMA ChainPushed ==
  ASSUME Inv, NEW s \in Seq(Frame), NEW D \in Frame, stack' = Append(s, D), UNCHANGED obj,
         D.callback = NoHandle, D.ud \in valid,
         s = <<>> \/ obj[D.ud].parent = s[Len(s)].ud,
         \A k \in DOMAIN s :
           /\ s[k].callback = NoHandle /\ s[k].ud \in valid
           /\ k = 1 \/ obj[s[k].ud].parent = s[k - 1].ud
  PROVE  ChainInv'
<1>1. /\ DOMAIN stack' = DOMAIN s \cup {Len(s) + 1} /\ stack'[Len(s) + 1] = D
      /\ \A k \in DOMAIN s : stack'[k] = s[k]
  BY AppendFacts
<1>2. valid' = valid /\ Len(s) \in Nat /\ DOMAIN s = 1..Len(s) BY DEF valid
<1>3. ASSUME NEW k \in DOMAIN stack' PROVE Descends(k)'
  <2>1. CASE k = Len(s) + 1
    <3>1. CASE s = <<>> BY <2>1, <3>1 DEF Descends
    <3>2. CASE s # <<>>
      <4>1. Len(s) \in DOMAIN s /\ k - 1 = Len(s) BY <1>2, <2>1, <3>2
      <4> QED BY <1>1, <2>1, <3>2, <4>1 DEF Descends
    <3> QED BY <3>1, <3>2
  <2>2. CASE k \in DOMAIN s
    <3>1. k # 1 => k - 1 \in DOMAIN s BY <1>2, <2>2
    <3> QED BY <1>1, <2>2, <3>1 DEF Descends
  <2> QED BY <1>1, <2>1, <2>2
<1> QED BY <1>1, <1>2, <1>3 DEF ChainInv

\* A destructor returns to the one that called it.
LEMMA ChainReturn ==
  ASSUME Inv, ChainInv, stack # <<>>, stack' = Rest, UNCHANGED obj
  PROVE  /\ ChainInv' /\ DOMAIN stack' = DOMAIN stack \ {Len(stack)}
         /\ \A k \in DOMAIN stack' : stack'[k] = stack[k]
<1>1. /\ DOMAIN stack' = DOMAIN stack \ {Len(stack)} /\ stack \in Seq(Frame)
      /\ \A k \in DOMAIN stack' : stack'[k] = stack[k]
  BY RestFacts DEF Inv, TypeOK
<1>2. valid' = valid BY DEF valid
<1>3. ASSUME NEW k \in DOMAIN stack' PROVE Descends(k)'
  <2>1. Descends(k) /\ k \in DOMAIN stack BY <1>1 DEF ChainInv
  <2>2. k # 1 => k - 1 \in DOMAIN stack' BY <1>1, <2>1
  <2> QED BY <1>1, <1>2, <2>1, <2>2 DEF Descends
<1> QED BY <1>1, <1>2, <1>3 DEF ChainInv

-----------------------------------------------------------------------------
(***************************************************************************)
(* Each step is one of ObjectTree, or none.                                *)
(***************************************************************************)
Step == ChainInv' /\ [Hierarchy!Next]_(Hierarchy!vars)

\* Steps that neither change the bindings nor which destructors are in progress.
LEMMA Stutters ==
  ASSUME UNCHANGED obj, (stack' = <<>>) <=> (stack = <<>>),
         stack # <<>> => stack'[1].ud = stack[1].ud
  PROVE  UNCHANGED Hierarchy!vars
<1>1. valid' = valid BY DEF valid
<1> QED BY <1>1 DEF Hierarchy!vars

\* Steps that change neither the bindings nor the stack.
LEMMA UnchangedStep == ASSUME ChainInv, UNCHANGED <<obj, stack>> PROVE Step
<1>1. ChainInv' BY DEF ChainInv, Descends, valid
<1>2. UNCHANGED Hierarchy!vars BY Stutters
<1> QED BY <1>1, <1>2 DEF Step

\* The first destructor in progress is that of an object.
LEMMA FirstFrame ==
  ASSUME Inv, stack # <<>>
  PROVE  /\ 1 \in DOMAIN stack /\ stack[1] \in Frame /\ stack[1].ud \in Uds /\ stack[1].ud # NoUd
         /\ Len(stack) \in Nat \ {0} /\ DOMAIN stack = 1..Len(stack)
<1>1. stack \in Seq(Frame) BY DEF Inv, TypeOK
<1>2. 1 \in DOMAIN stack /\ stack[1] \in Frame /\ Len(stack) \in Nat \ {0}
      /\ DOMAIN stack = 1..Len(stack)
  BY <1>1
<1> QED BY <1>2, ParametersAssumption DEF Frame

\* A creation adds the new bindings under their parent.
LEMMA CreatesAdd == ASSUME Inv, Creates PROVE Step
<1>1. PICK new, p, from, used : Creation(new, p, from, used) BY DEF Creates
<1>2. /\ DOMAIN new \subseteq Handles /\ \A h \in DOMAIN new : IsNew(new[h], h, p)
      /\ stack = <<>> /\ p \in valid \cup {NoUd}
  BY <1>1 DEF Creation, IsNew
<1>3. PICK B, N : Bindings(new, from, used, B, N)
  BY <1>1, <1>2, CreateBindingsFacts DEF Creation
<1>4. /\ valid' = valid \cup N /\ N \subseteq Uds \ mem /\ valid \subseteq mem
      /\ \A u \in valid : u \notin N /\ obj'[u] = obj[u] /\ UNCHANGED stack
  BY <1>3 DEF Bindings, Inv, TypeOK
<1>5. UNCHANGED stack BY <1>3 DEF Bindings
<1>6. ASSUME NEW u \in N PROVE obj'[u].parent = p
  <2>1. PICK h \in B : obj'[u] = new[h] /\ h \in DOMAIN new BY <1>3 DEF Bindings
  <2> QED BY <1>2, <2>1 DEF IsNew
<1>7. [u \in valid' |-> obj'[u].parent]
        = [o \in valid \cup N |-> IF o \in N THEN p ELSE [u \in valid |-> obj[u].parent][o]]
  BY <1>4, <1>6
<1>8. N \in SUBSET (Uds \ valid) BY <1>4
<1>9. DOMAIN [u \in valid |-> obj[u].parent] = valid OBVIOUS
<1>10. Hierarchy!Add(N, p) BY <1>2, <1>5, <1>7, <1>9 DEF Hierarchy!Add, Hierarchy!live
<1>11. Hierarchy!Next BY <1>2, <1>8, <1>9, <1>10 DEF Hierarchy!Next, Hierarchy!live
<1>12. ChainInv' BY <1>2, <1>5 DEF ChainInv
<1> QED BY <1>11, <1>12 DEF Step

\* delete(), release_xxx or a finalizer begins a deletion.
LEMMA CalledBegins ==
  ASSUME Inv, NEW u \in valid, stack = <<>>, stack' = <<Destroying(u, NoHandle)>>, UNCHANGED obj
  PROVE  Step
<1>1. PICK D : D = Destroying(u, NoHandle) OBVIOUS
<1>2. D \in Frame /\ D.ud = u /\ D.callback = NoHandle BY <1>1, NewFrame
<1>3. stack' = Append(stack, D) /\ stack \in Seq(Frame) /\ DOMAIN stack = {} BY <1>1
<1>4. ChainInv' BY <1>2, <1>3, ChainPushed
<1>5. stack' = <<D>> /\ stack' # <<>> /\ stack'[1].ud = u BY <1>1, <1>2
<1>6. valid' = valid BY DEF valid
<1>7. DOMAIN [v \in valid |-> obj[v].parent] = valid OBVIOUS
<1>8. Hierarchy!BeginDelete(u) BY <1>5, <1>6 DEF Hierarchy!BeginDelete
<1>9. Hierarchy!Next BY <1>7, <1>8 DEF Hierarchy!Next, Hierarchy!live
<1> QED BY <1>4, <1>9 DEF Step

\* The scans.
LEMMA ScanObjectStep == ASSUME Inv, ChainInv, ScanObject PROVE Step
<1> DEFINE v == tree[First]
<1>a. PICK T : T = [Top EXCEPT !.from = First + 1] OBVIOUS
<1>b. PICK D : D = Destroying(v, NoHandle) OBVIOUS
<1>1. /\ Found # {} /\ stack # <<>> /\ Top.pc = "scan" /\ stack' = Append(WithTop(T), D)
      /\ UNCHANGED obj
  BY <1>a, <1>b DEF ScanObject, Scanning, Running, udVars
<1>2. stack \in Seq(Frame) BY DEF Inv, TypeOK
<1>3. Top \in Frame /\ Len(stack) \in DOMAIN stack /\ Top = stack[Len(stack)]
  BY <1>1, <1>2, TopFacts
<1>4. First \in Found BY <1>1, FirstFound
<1>5. First \in Nat /\ IsChild(v) BY <1>4, HandlesAreNat DEF Found
<1>6. v \in valid /\ obj[v].parent = Top.ud BY <1>5 DEF IsChild
<1>7. D \in Frame /\ D.ud = v /\ D.callback = NoHandle BY <1>b, <1>6, NewFrame
<1>8. T \in Frame /\ T.ud = Top.ud /\ T.callback = Top.callback
  BY <1>a, <1>3, <1>5 DEF Frame
<1>9. PICK s : s = WithTop(T) OBVIOUS
<1>10. /\ s \in Seq(Frame) /\ DOMAIN s = DOMAIN stack /\ Len(s) = Len(stack)
       /\ s[Len(stack)] = T /\ \A k \in DOMAIN stack : k # Len(stack) => s[k] = stack[k]
  BY <1>1, <1>2, <1>8, <1>9, WithTopFacts
<1>11. \A k \in DOMAIN s : s[k].ud = stack[k].ud /\ s[k].callback = stack[k].callback
  BY <1>3, <1>8, <1>10
<1>12. Top.ud \in valid
  <2>1. ParentTypes(obj[v].type) # {}
    <3>1. Top.ud \in Uds BY <1>3 DEF Frame
    <3> QED BY <1>6, <3>1, ParametersAssumption DEF Inv, ObjectInv
  <2> QED BY <1>6, <2>1 DEF Inv, ParentValid
<1>13. ASSUME NEW k \in DOMAIN s
       PROVE  /\ s[k].callback = NoHandle /\ s[k].ud \in valid
              /\ k = 1 \/ obj[s[k].ud].parent = s[k - 1].ud
  <2>1. k \in DOMAIN stack /\ (k # 1 => k - 1 \in DOMAIN s) BY <1>10
  <2>2. stack[k].callback = NoHandle /\ stack[k].ud \in valid
    BY <1>3, <1>12, <2>1 DEF ChainInv
  <2>3. k = 1 \/ obj[stack[k].ud].parent = stack[k - 1].ud
    BY <2>1, <2>2 DEF ChainInv, Descends
  <2> QED BY <1>11, <2>1, <2>2, <2>3
<1>14. obj[D.ud].parent = s[Len(s)].ud BY <1>6, <1>7, <1>8, <1>10
<1>15. ChainInv' BY <1>1, <1>6, <1>7, <1>9, <1>10, <1>13, <1>14, ChainPushed
<1>16. UNCHANGED Hierarchy!vars
  <2>1. 1 \in DOMAIN s BY <1>1, <1>10, FirstFrame
  <2>2. stack' # <<>> /\ stack'[1] = s[1] BY <1>1, <1>7, <1>9, <1>10, <2>1, AppendFacts
  <2> QED BY <1>1, <1>11, <2>1, <2>2, Stutters
<1> QED BY <1>15, <1>16 DEF Step

\* The steps that replace the frame at the top and keep the bindings.
LEMMA TopStep ==
  ASSUME Inv, ChainInv, stack # <<>>, NEW f \in Frame, stack' = WithTop(f), f.ud = Top.ud,
         f.callback = Top.callback, UNCHANGED obj
  PROVE  Step
<1>1. valid' = valid BY DEF valid
<1>2. \A k \in DOMAIN stack : k # Len(stack) => stack[k].ud \in valid BY DEF ChainInv
<1>3. /\ ChainInv' /\ DOMAIN stack' = DOMAIN stack
      /\ \A k \in DOMAIN stack : stack'[k].ud = stack[k].ud
  BY <1>1, <1>2, ChainTop
<1>4. 1 \in DOMAIN stack /\ stack' # <<>> BY <1>3, FirstFrame
<1>5. UNCHANGED Hierarchy!vars BY <1>3, <1>4, Stutters
<1> QED BY <1>3, <1>5 DEF Step

\* The end of a scan.
LEMMA EndScanStep == ASSUME Inv, ChainInv, EndScan PROVE Step
<1>1. stack # <<>> /\ stack' = WithTop([Top EXCEPT !.class = @ + 1, !.from = 0]) /\ UNCHANGED obj
  BY DEF EndScan, Scanning, Running, udVars
<1>2. Top \in Frame BY <1>1, TopFacts DEF Inv, TypeOK
<1>3. PICK c \in Nat \ {0} : c = Top.class + 1 BY <1>2 DEF Frame
<1>4. PICK T : T = [Top EXCEPT !.class = c, !.from = 0] OBVIOUS
<1>5. T \in Frame /\ T.ud = Top.ud /\ T.callback = Top.callback BY <1>2, <1>3, <1>4 DEF Frame
<1>6. stack' = WithTop(T) BY <1>1, <1>3, <1>4
<1> QED BY <1>1, <1>5, <1>6, TopStep

\* The release of the OpenCL object.
LEMMA ReleaseAllStep == ASSUME Inv, ChainInv, ReleaseAll PROVE Step
<1>1. PICK T : T = [Top EXCEPT !.pc = "return"] OBVIOUS
<1>2. stack # <<>> /\ stack' = WithTop(T) /\ UNCHANGED obj
  BY <1>1 DEF ReleaseAll, Running, udVars
<1>3. Top \in Frame BY <1>2, TopFacts DEF Inv, TypeOK
<1>4. T \in Frame /\ T.ud = Top.ud /\ T.callback = Top.callback BY <1>1, <1>3 DEF Frame
<1> QED BY <1>2, <1>4, TopStep

\* Whatever closed set the object of the first destructor is in, the others are in it too.
LEMMA TopIsBelow ==
  ASSUME Inv, ChainInv, stack # <<>>, Top.ud \in valid, NEW S, stack[1].ud \in S,
         \A o \in valid : obj[o].parent \in S => o \in S
  PROVE  Top.ud \in S
<1>1. /\ DOMAIN stack = 1..Len(stack) /\ Len(stack) \in Nat \ {0} BY FirstFrame
<1>2. Top = stack[Len(stack)] /\ Len(stack) \in DOMAIN stack BY TopFacts DEF Inv, TypeOK
<1> DEFINE M == {k \in 1..Len(stack) : stack[k].ud \notin S}
<1>3. ASSUME M # {} PROVE FALSE
  <2>1. M \subseteq Nat BY <1>1
  <2>2. PICK k \in M : \A j \in M : ~(<<j, k>> \in OpToRel(<, Nat))
    BY <1>3, <2>1, NatLessThanWellFounded, WFMin
  <2>3. k \in DOMAIN stack /\ k # 1 /\ k - 1 \in DOMAIN stack /\ k - 1 \in Nat /\ k - 1 < k
    BY <1>1
  <2>4. <<k - 1, k>> \in OpToRel(<, Nat) BY <2>1, <2>3 DEF OpToRel
  <2>5. stack[k - 1].ud \in S BY <1>1, <2>2, <2>3, <2>4
  <2>6. stack[k].ud \in valid BY <1>2, <2>3 DEF ChainInv
  <2>7. obj[stack[k].ud].parent = stack[k - 1].ud BY <2>3, <2>6 DEF ChainInv, Descends
  <2> QED BY <2>5, <2>6, <2>7
<1> QED BY <1>1, <1>2, <1>3

\* freeuserdata removes an object below that of the first destructor, or that object.
LEMMA FreeBindingRemoves ==
  ASSUME Inv, ChainInv, FreeUserdata, Top.ud \in valid PROVE Step
<1>a. PICK r : r = Top.ud OBVIOUS
<1>b. PICK T : T = [Top EXCEPT !.pc = "release"] OBVIOUS
<1>1. /\ stack # <<>> /\ Running("scan") /\ ~Scanning /\ stack' = WithTop(T)
      /\ obj' = [u \in valid \ {r} |-> obj[u]]
  BY <1>a, <1>b DEF FreeUserdata, Running
<1>2. Top \in Frame /\ Top = stack[Len(stack)] /\ Len(stack) \in DOMAIN stack
  BY <1>1, TopFacts DEF Inv, TypeOK
<1>3. T \in Frame /\ T.ud = Top.ud /\ T.callback = Top.callback BY <1>b, <1>2 DEF Frame
<1>4. valid' = valid \ {r} /\ r \in valid /\ \A u \in valid' : u \in valid /\ obj'[u] = obj[u]
  BY <1>1, <1>a DEF valid
<1>5. \A v \in valid : obj[v].parent # r BY <1>1, <1>a, NoChildLeft
<1>6. ASSUME NEW k \in DOMAIN stack, k # Len(stack) PROVE stack[k].ud \in valid'
  <2>1. /\ k + 1 \in DOMAIN stack /\ k + 1 # 1 /\ (k + 1) - 1 = k BY <1>6, <1>1, FirstFrame
  <2>2. stack[k + 1].ud \in valid /\ stack[k].ud \in valid
    BY <1>2, <1>4, <1>6, <1>a, <2>1 DEF ChainInv
  <2>3. obj[stack[k + 1].ud].parent = stack[k].ud BY <2>1, <2>2 DEF ChainInv, Descends
  <2> QED BY <1>4, <1>5, <2>2, <2>3
<1>7. /\ ChainInv' /\ DOMAIN stack' = DOMAIN stack
      /\ \A k \in DOMAIN stack : stack'[k].ud = stack[k].ud
  BY <1>1, <1>3, <1>4, <1>6, ChainTop
<1>8. /\ 1 \in DOMAIN stack /\ stack[1].ud # NoUd /\ stack' # <<>> /\ stack'[1].ud = stack[1].ud
  BY <1>1, <1>7, FirstFrame
<1>c. PICK U : U = [u \in valid |-> obj[u].parent] OBVIOUS
<1>9. DOMAIN U = valid /\ \A o \in valid : U[o] = obj[o].parent BY <1>c
<1>10. [u \in valid' |-> obj'[u].parent] = [l \in valid \ {r} |-> U[l]] BY <1>4, <1>9
<1>11. ASSUME NEW S, stack[1].ud \in S, \A o \in valid : U[o] \in S => o \in S PROVE r \in S
  BY <1>1, <1>4, <1>9, <1>11, <1>a, TopIsBelow
<1>12. Hierarchy!Remove(r)
  <2>1. r \in Hierarchy!Below(stack[1].ud)
    BY <1>4, <1>9, <1>11, <1>c DEF Hierarchy!Below, Hierarchy!Closed, Hierarchy!live
  <2> QED BY <1>1, <1>5, <1>8, <1>9, <1>10, <1>c, <2>1 DEF Hierarchy!Remove, Hierarchy!live
<1>13. Hierarchy!Next BY <1>4, <1>9, <1>12, <1>c DEF Hierarchy!Next, Hierarchy!live
<1> QED BY <1>7, <1>13 DEF Step

\* The last destructor to return ends the deletion, whose object is gone.
LEMMA ReturnStep ==
  ASSUME Inv, ChainInv, stack # <<>>, Top.ud \notin valid, stack' = Rest, UNCHANGED obj
  PROVE  Step
<1>1. /\ ChainInv' /\ DOMAIN stack' = DOMAIN stack \ {Len(stack)}
      /\ \A k \in DOMAIN stack' : stack'[k] = stack[k]
  BY ChainReturn
<1>2. /\ Len(stack) \in Nat \ {0} /\ DOMAIN stack = 1..Len(stack) /\ stack[1].ud # NoUd
      /\ Top = stack[Len(stack)] /\ stack' \in Seq(Frame) /\ valid' = valid
  BY FirstFrame, TopFacts, RestFacts DEF Inv, TypeOK, valid
<1>3. CASE Len(stack) = 1
  <2>1. stack' = <<>> BY <1>1, <1>2, <1>3
  <2>2. DOMAIN [u \in valid |-> obj[u].parent] = valid OBVIOUS
  <2>3. Hierarchy!EndDelete
    BY <1>2, <1>3, <2>1, <2>2 DEF Hierarchy!EndDelete, Hierarchy!live
  <2> QED BY <1>1, <2>3 DEF Step, Hierarchy!Next
<1>4. CASE Len(stack) # 1
  <2>1. 1 \in DOMAIN stack' BY <1>1, <1>2, <1>4
  <2>2. stack'[1] = stack[1] BY <1>1, <2>1
  <2>3. stack' # <<>>
    <3>1. DOMAIN <<>> = {} OBVIOUS
    <3> QED BY <2>1, <3>1
  <2>4. UNCHANGED Hierarchy!vars BY <2>2, <2>3, Stutters
  <2> QED BY <1>1, <2>4 DEF Step
<1> QED BY <1>3, <1>4

\* The return of a destructor that has released its object.
LEMMA DestructorReturnsStep == ASSUME Inv, ChainInv, DestructorReturns PROVE Step
<1>1. stack # <<>> /\ Top.pc = "return" /\ stack' = Rest /\ UNCHANGED obj
  BY DEF DestructorReturns, Return, Running, udVars
<1>2. Len(stack) \in DOMAIN stack /\ Top = stack[Len(stack)] BY <1>1, TopFacts DEF Inv, TypeOK
<1>3. FrameInv(Len(stack)) BY <1>2 DEF Inv, FramesInv
<1>4. Top.ud \notin valid BY <1>1, <1>2, <1>3 DEF FrameInv
<1> QED BY <1>1, <1>4, ReturnStep

\* freeuserdata, a second call for an object included.
LEMMA FreeUserdataStep == ASSUME Inv, ChainInv, FreeUserdata PROVE Step
<1>1. CASE Top.ud \in valid BY <1>1, FreeBindingRemoves
<1>2. CASE Top.ud \notin valid
  <2>1. stack # <<>> /\ stack' = Rest /\ UNCHANGED obj
    BY <1>2 DEF FreeUserdata, Return, Running
  <2> QED BY <1>2, <2>1, ReturnStep
<1> QED BY <1>1, <1>2

-----------------------------------------------------------------------------
\* Every step is one of ObjectTree, or none, and the stack stays a path.
LEMMA NextStep == ASSUME OwnCounts, Inv, RefInv, ChainInv, [Next]_vars PROVE Step
<1>1. CASE Create BY <1>1, CreateCreates, CreatesAdd
<1>2. ASSUME NEW u \in valid, Delete(u) PROVE Step
  BY <1>2, CalledBegins DEF Delete, Idle, udVars
<1>3. ASSUME NEW u \in Args(Released), Retain(u) PROVE Step
  BY <1>3, UnchangedStep DEF Retain, udVars
<1>4. ASSUME NEW u \in Args(Released), Release(u) PROVE Step
  <2>1. u \in valid /\ stack = <<>> /\ UNCHANGED obj
    BY <1>4 DEF Args, Release, Script, Idle, udVars
  <2>2. stack' = <<Destroying(u, NoHandle)>> \/ UNCHANGED stack BY <1>4 DEF Release
  <2> QED BY <2>1, <2>2, CalledBegins, UnchangedStep
<1>5. ASSUME NEW u \in mem \ valid, Collect(u) PROVE Step BY <1>5, UnchangedStep DEF Collect
<1>6. CASE Destructor
  <2>1. ASSUME NEW h \in Handles, DriverDestroys(h) PROVE Step
    BY <2>1, NoCallback, UnchangedStep
  <2> QED BY <1>6, <2>1, ScanObjectStep, EndScanStep, FreeUserdataStep, ReleaseAllStep,
             DestructorReturnsStep DEF Destructor
<1>7. CASE Close \/ Closed BY <1>7, UnchangedStep DEF Close, Closed, udVars
<1>8. CASE UNCHANGED vars BY <1>8, UnchangedStep DEF vars
<1> QED BY <1>1, <1>2, <1>3, <1>4, <1>5, <1>6, <1>7, <1>8 DEF Next

\* Initially there is no object.
LEMMA InitStep == ASSUME Init PROVE ChainInv /\ Hierarchy!Init
<1>1. valid = {} /\ stack = <<>> /\ DOMAIN stack = {} BY DEF Init, valid
<1>2. [u \in valid |-> obj[u].parent] = <<>> BY <1>1
<1> QED BY <1>1, <1>2 DEF ChainInv, Hierarchy!Init

\* The recursive destructors, interrupted by nothing but the driver that frees what they have
\* released, implement the deletion of a subtree: of all of it, children first, and of
\* nothing else.
THEOREM SubtreesAreDeleted == ASSUME OwnCounts PROVE Spec => DeletesSubtree
<1>1. ReleasesTracked BY DEF OwnCounts, ReleasesTracked
<1>2. Inv /\ RefInv /\ [Next]_vars => RefInv' BY <1>1, NextRefs
<1>3. Inv /\ RefInv /\ ChainInv /\ [Next]_vars => ChainInv' /\ [Hierarchy!Next]_(Hierarchy!vars)
  BY NextStep DEF Step
<1>4. Init => ChainInv /\ Hierarchy!Init BY InitStep
<1> QED BY <1>2, <1>3, <1>4, InitRefs, Invariance, PTL DEF Spec, DeletesSubtree, Hierarchy!Spec
=============================================================================
