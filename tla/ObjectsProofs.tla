---------------------------- MODULE ObjectsProofs ----------------------------
(***************************************************************************)
(* Proofs about Objects: its inductive invariant Inv, and what follows.    *)
(***************************************************************************)
EXTENDS Objects, WellFoundedInduction, NaturalsInduction, SequenceTheorems, TLAPS

USE DEF NoHandle

\* 0 is no handle, and no object has the handle NoHandle.
LEMMA HandlesAreNat == Handles \subseteq Nat /\ 0 \notin Handles
  BY HandlesAssumption

\* The scan of an object's destructor covers every type of children it may have.
LEMMA ScanCovers ==
  ASSUME NEW s \in Types, NEW t \in Types, s \in ParentTypes(t)
  PROVE  \E i \in 1..Len(ScanOrder(s)) : ScanOrder(s)[i] = Mt(t)
<1>1. CASE t \in {"device", "context"}
  <2>1. s = "platform" BY <1>1 DEF ParentTypes, ContextChildren
  <2>2. ScanOrder(s) = <<"context", "device">> BY <2>1 DEF ScanOrder
  <2> QED BY <1>1, <2>2 DEF Mt
<1>2. CASE t = "subdevice"
  <2>1. ScanOrder(s) = <<"device">> BY <1>2 DEF ParentTypes, ContextChildren, ScanOrder
  <2> QED BY <1>2, <2>1 DEF Mt
<1>3. CASE t = "kernel"
  <2>1. ScanOrder(s) = <<"kernel">> BY <1>3 DEF ParentTypes, ContextChildren, ScanOrder
  <2> QED BY <1>3, <2>1 DEF Mt
<1>4. CASE t = "subbuffer"
  <2>1. ScanOrder(s) = <<"buffer">> BY <1>4 DEF ParentTypes, ContextChildren, ScanOrder
  <2> QED BY <1>4, <2>1 DEF Mt
<1>5. CASE t \in ContextChildren
  <2>1. s = "context" BY <1>5 DEF ParentTypes, ContextChildren
  <2>2. ScanOrder(s) = <<"queue", "program", "event", "pipe", "image", "buffer", "sampler", "svm">>
    BY <2>1 DEF ScanOrder
  <2> DEFINE S == ScanOrder(s)
  <2>3. Len(S) = 8 /\ S[1] = "queue" /\ S[2] = "program" /\ S[3] = "event" /\ S[4] = "pipe"
        /\ S[5] = "image" /\ S[6] = "buffer" /\ S[7] = "sampler" /\ S[8] = "svm"
    BY <2>2
  <2> HIDE DEF S
  <2>4. \E i \in 1..Len(S) : S[i] = Mt(t)
    BY <1>5, <2>3 DEF Mt, ContextChildren
  <2> QED BY <2>4 DEF S
<1>6. CASE t \in {"platform", "hostmem"}
  BY <1>6 DEF ParentTypes, ContextChildren
<1> QED BY <1>1, <1>2, <1>3, <1>4, <1>5, <1>6 DEF Types, ContextChildren

\* The next object of a scan exists and is the one of the least handle.
LEMMA FirstFound ==
  ASSUME Found # {}
  PROVE  First \in Found /\ \A g \in Found : First <= g
<1>1. Found \subseteq Nat BY HandlesAreNat DEF Found
<1>2. PICK h \in Found : \A g \in Found : ~(<<g, h>> \in OpToRel(<, Nat))
  BY <1>1, NatLessThanWellFounded, WFMin
<1>3. ASSUME NEW g \in Found PROVE h <= g
  <2>1. g \in Nat /\ h \in Nat BY <1>1
  <2>2. CASE g < h
    <3>1. <<g, h>> \in OpToRel(<, Nat) BY <2>1, <2>2 DEF OpToRel
    <3> QED BY <3>1, <1>2
  <2> QED BY <2>1, <2>2
<1> QED BY <1>2, <1>3 DEF First

-----------------------------------------------------------------------------
(***************************************************************************)
(* The stack of destructors.                                               *)
(***************************************************************************)
\* Replacing the top frame keeps the length of the stack and the frames below.
LEMMA WithTopFacts ==
  ASSUME stack \in Seq(Frame), stack # <<>>, NEW f \in Frame
  PROVE  /\ WithTop(f) \in Seq(Frame) /\ Len(WithTop(f)) = Len(stack)
         /\ DOMAIN WithTop(f) = DOMAIN stack /\ Len(stack) \in DOMAIN stack
         /\ WithTop(f)[Len(stack)] = f
         /\ \A k \in DOMAIN stack : k # Len(stack) => WithTop(f)[k] = stack[k]
  BY DEF WithTop

\* The top frame of a stack that is not empty is a frame of it.
LEMMA TopFacts ==
  ASSUME stack \in Seq(Frame), stack # <<>>
  PROVE  Top \in Frame /\ Len(stack) \in DOMAIN stack /\ Top = stack[Len(stack)]
  BY DEF Top

\* A return takes the top frame off and leaves the frames below.
LEMMA RestFacts ==
  ASSUME stack \in Seq(Frame), stack # <<>>
  PROVE  /\ Rest \in Seq(Frame) /\ DOMAIN Rest = DOMAIN stack \ {Len(stack)}
         /\ \A k \in DOMAIN Rest : Rest[k] = stack[k]
<1>1. Len(stack) \in Nat \ {0} /\ DOMAIN stack = 1..Len(stack)
  OBVIOUS
<1>2. \A k \in 1..Len(stack) - 1 : stack[k] \in Frame
  BY <1>1
<1> QED BY <1>1, <1>2 DEF Rest

\* A call puts a frame on top and leaves the frames below.
LEMMA AppendFacts ==
  ASSUME NEW s \in Seq(Frame), NEW f \in Frame
  PROVE  /\ Append(s, f) \in Seq(Frame) /\ DOMAIN Append(s, f) = DOMAIN s \cup {Len(s) + 1}
         /\ Len(s) + 1 \notin DOMAIN s
         /\ Append(s, f)[Len(s) + 1] = f
         /\ \A k \in DOMAIN s : Append(s, f)[k] = s[k]
  OBVIOUS

\* A destructor that starts has all the children of its object before it.
LEMMA NewFrame ==
  ASSUME Inv, NEW u \in valid, NEW h \in Handles \cup {0}, h # 0 => h = obj[u].handle
  PROVE  /\ Destroying(u, h) \in Frame
         /\ Destroying(u, h).ud = u /\ Destroying(u, h).pc = "scan"
         /\ Destroying(u, h).type = obj[u].type /\ Destroying(u, h).handle = obj[u].handle
         /\ Destroying(u, h).callback = h
         /\ \A v \in valid : obj[v].parent = u => Pending(Destroying(u, h), v)
<1> DEFINE f == Destroying(u, h)
<1>1. u \in Uds /\ obj[u] \in Object BY DEF Inv, TypeOK
<1>2. /\ f \in Frame /\ f.ud = u /\ f.pc = "scan" /\ f.type = obj[u].type
      /\ f.handle = obj[u].handle /\ f.callback = h /\ f.from = 0
  BY <1>1 DEF Destroying, Frame, Object
<1>3. ASSUME NEW v \in valid, obj[v].parent = u PROVE Pending(f, v)
  <2>1. v \in Uds /\ obj[v] \in Object BY DEF Inv, TypeOK
  <2>2. u # NoUd BY <1>1, ParametersAssumption
  <2>3. ParentTypes(obj[v].type) # {} BY <1>3, <2>2 DEF Inv, ObjectInv
  <2>4. obj[u].type \in ParentTypes(obj[v].type) BY <1>3, <2>3 DEF Inv, ParentValid
  <2>5. obj[u].type \in Types /\ obj[v].type \in Types BY <1>1, <2>1 DEF Object
  <2>6. f.class = 1
    <3>1. CASE obj[u].type \in {"device", "subdevice"}
      <4>1. obj[v].type = "subdevice"
        BY <2>4, <2>5, <3>1 DEF ParentTypes, ContextChildren, Types
      <4>2. u \in hasSub BY <4>1, <1>3 DEF Inv, ObjectInv
      <4> QED BY <4>2 DEF Destroying
    <3>2. CASE obj[u].type \notin {"device", "subdevice"}
      BY <3>2 DEF Destroying
    <3> QED BY <3>1, <3>2
  <2>7. PICK i \in 1..Len(ScanOrder(obj[u].type)) : ScanOrder(obj[u].type)[i] = Mt(obj[v].type)
    BY <2>4, <2>5, ScanCovers
  <2>8. obj[v].handle \in Nat BY <2>1, HandlesAreNat DEF Object
  <2> QED BY <1>2, <2>6, <2>7, <2>8 DEF Pending
<1> QED BY <1>2, <1>3

\* A frame that a step leaves alone keeps its invariant if the objects and the
\* frames' objects are the same.
LEMMA FrameKept ==
  ASSUME NEW k \in DOMAIN stack, FrameInv(k), UNCHANGED <<obj, tree>>,
         DOMAIN stack \subseteq DOMAIN stack',
         \A j \in DOMAIN stack : stack'[j].ud = stack[j].ud,
         stack'[k] = stack[k]
  PROVE  FrameInv(k)'
<1> DEFINE f == stack[k]
<1>1. valid' = valid BY DEF valid
<1>2. ASSUME NEW v \in valid, Pending(f, v) PROVE Pending(f, v)'
  BY <1>2 DEF Pending
<1>3. ASSUME f.ud \in valid, NEW v \in valid, obj[v].parent = f.ud
      PROVE  Pending(f, v)' \/ \E j \in DOMAIN stack' : j > k /\ stack'[j].ud = v
  BY <1>2, <1>3 DEF FrameInv
<1> QED BY <1>1, <1>3 DEF FrameInv

\* A destructor whose object is not valid any more can return.
LEMMA FramesAfterReturn ==
  ASSUME Inv, stack # <<>>, Top.ud \notin valid, UNCHANGED <<obj, tree>>, stack' = Rest
  PROVE  stack' \in Seq(Frame) /\ FramesInv'
<1>1. /\ Rest \in Seq(Frame) /\ DOMAIN Rest = DOMAIN stack \ {Len(stack)}
      /\ \A k \in DOMAIN Rest : Rest[k] = stack[k]
  BY RestFacts DEF Inv, TypeOK
<1>2. Top = stack[Len(stack)] BY DEF Top
<1>3. ASSUME NEW k \in DOMAIN Rest PROVE FrameInv(k)'
  <2>1. FrameInv(k) /\ stack'[k] = stack[k] BY <1>1, <1>3 DEF Inv, FramesInv
  <2>2. ASSUME NEW v \in valid, NEW j \in DOMAIN stack, j > k, stack[j].ud = v
        PROVE  j \in DOMAIN Rest /\ stack'[j].ud = v
    BY <1>1, <1>2, <2>2
  <2> DEFINE f == stack[k]
  <2>3. valid' = valid BY DEF valid
  <2>4. ASSUME NEW v \in valid, Pending(f, v) PROVE Pending(f, v)'
    BY <2>1, <2>4 DEF Pending
  <2>5. ASSUME f.ud \in valid, NEW v \in valid, obj[v].parent = f.ud
        PROVE  Pending(f, v)' \/ \E j \in DOMAIN Rest : j > k /\ stack'[j].ud = v
    <3>1. k \in DOMAIN stack BY <1>1, <1>3
    <3>2. Pending(f, v) \/ \E j \in DOMAIN stack : j > k /\ stack[j].ud = v
      BY <2>1, <2>5, <3>1 DEF FrameInv
    <3> QED BY <2>2, <2>4, <3>2
  <2> QED BY <2>1, <2>3, <2>5 DEF FrameInv
<1> QED BY <1>1, <1>3 DEF FramesInv

-----------------------------------------------------------------------------
(***************************************************************************)
(* The steps of the destructors preserve the invariant.                    *)
(***************************************************************************)
\* Steps that leave the bindings alone keep what the invariant says of them.
LEMMA UdVarsKept ==
  ASSUME Inv, UNCHANGED <<obj, hasSub, tree>>
  PROVE  TreeMatchesValid' /\ ParentValid' /\ ObjectInv' /\ valid' = valid
  BY DEF Inv, TreeMatchesValid, ParentValid, ObjectInv, valid

\* The driver's variables keep their types when it frees an object.
LEMMA DestroyedType ==
  ASSUME TypeOK, NEW h, Destroyed(h)
  PROVE  /\ alive' \subseteq Handles
         /\ base' \in [Handles -> Handles \cup {NoHandle}]
         /\ uses' \in [Handles -> SUBSET Handles]
  BY DEF TypeOK, Destroyed

\* Calling the destructor of the next child: the child is now on the stack above.
LEMMA ScanObjectInv == ASSUME Inv, ScanObject PROVE Inv'
<1> DEFINE n == Len(stack)
           v == tree[First]
<1>a. PICK T : T = [Top EXCEPT !.from = First + 1] OBVIOUS
<1>b. PICK D : D = Destroying(v, NoHandle) OBVIOUS
<1>1. /\ Scanning /\ Found # {} /\ stack # <<>> /\ stack' = Append(WithTop(T), D)
      /\ UNCHANGED <<mem, obj, hasSub, tree, alive, refs, base, uses, phase>>
  BY <1>a, <1>b DEF ScanObject, Scanning, Running, udVars, clVars
<1>2. stack \in Seq(Frame) /\ TypeOK BY DEF Inv, TypeOK
<1>3. Top \in Frame /\ n \in DOMAIN stack /\ Top = stack[n] BY <1>1, <1>2, TopFacts
<1>4. First \in Found /\ \A g \in Found : First <= g BY <1>1, FirstFound
<1>5. First \in Handles /\ First \in Nat /\ First >= Top.from /\ v # NoUd /\ IsChild(v)
  BY <1>4, HandlesAreNat DEF Found
<1>6. v \in valid /\ obj[v].parent = Top.ud /\ Mt(obj[v].type) = ScanOrder(Top.type)[Top.class]
  BY <1>5 DEF IsChild
<1>7. D \in Frame /\ D.ud = v /\ D.pc = "scan" /\ D.type = obj[v].type
      /\ D.handle = obj[v].handle /\ D.callback = NoHandle
      /\ \A w \in valid : obj[w].parent = v => Pending(D, w)
  BY <1>b, <1>6, NewFrame
<1>8. /\ T \in Frame /\ T.ud = Top.ud /\ T.type = Top.type /\ T.handle = Top.handle
      /\ T.class = Top.class /\ T.from = First + 1 /\ T.pc = Top.pc /\ T.callback = Top.callback
  BY <1>a, <1>3, <1>5 DEF Frame
<1>9. /\ WithTop(T) \in Seq(Frame) /\ Len(WithTop(T)) = n
      /\ DOMAIN WithTop(T) = DOMAIN stack /\ WithTop(T)[n] = T
      /\ \A k \in DOMAIN stack : k # n => WithTop(T)[k] = stack[k]
  BY <1>1, <1>2, <1>8, WithTopFacts
<1>10. /\ stack' \in Seq(Frame) /\ DOMAIN stack' = DOMAIN stack \cup {n + 1}
       /\ n + 1 \notin DOMAIN stack /\ stack'[n + 1] = D /\ stack'[n] = T
       /\ \A k \in DOMAIN stack : k # n => stack'[k] = stack[k]
  BY <1>1, <1>3, <1>7, <1>9, AppendFacts
<1>11. \A k \in DOMAIN stack : k \in Nat /\ k <= n BY <1>2
<1>12. valid' = valid /\ TreeMatchesValid' /\ ParentValid' /\ ObjectInv'
  BY <1>1, UdVarsKept
<1>13. TypeOK' BY <1>1, <1>2, <1>10, <1>12 DEF TypeOK
<1>14. ASSUME NEW k \in DOMAIN stack' PROVE FrameInv(k)'
  <2>1. CASE k \in DOMAIN stack /\ k # n
    <3>1. FrameInv(k) BY <2>1 DEF Inv, FramesInv
    <3>2. \A j \in DOMAIN stack : stack'[j].ud = stack[j].ud BY <1>3, <1>8, <1>10
    <3> QED BY <1>1, <1>10, <2>1, <3>1, <3>2, FrameKept
  <2>2. CASE k = n + 1
    <3>1. \A w \in valid : Pending(D, w) => Pending(D, w)' BY <1>1 DEF Pending
    <3>2. stack'[k] = D BY <1>10, <2>2
    <3> QED BY <1>1, <1>6, <1>7, <1>12, <3>1, <3>2 DEF FrameInv
  <2>3. CASE k = n
    <3>1. FrameInv(n) BY <1>3 DEF Inv, FramesInv
    <3>2. stack'[k] = T BY <1>10, <2>3
    <3>3. ASSUME T.ud \in valid, NEW w \in valid, obj[w].parent = T.ud
          PROVE  Pending(T, w)' \/ \E j \in DOMAIN stack' : j > k /\ stack'[j].ud = w
      <4>1. obj[w].handle \in Handles /\ obj[w].handle \in Nat /\ tree[obj[w].handle] = w
        BY HandlesAreNat DEF Inv, TypeOK, Object, TreeMatchesValid
      <4>2. Pending(Top, w)
        <5>1. ~ \E j \in DOMAIN stack : j > n BY <1>3, <1>11
        <5> QED BY <1>3, <1>8, <3>1, <3>3, <5>1 DEF FrameInv
      <4>3. PICK i \in Top.class..Len(ScanOrder(Top.type)) :
              /\ ScanOrder(Top.type)[i] = Mt(obj[w].type)
              /\ i = Top.class => obj[w].handle >= Top.from
        BY <4>2 DEF Pending
      <4>4. CASE i # Top.class
        BY <1>1, <1>8, <4>3, <4>4 DEF Pending
      <4>5. CASE i = Top.class
        <5>1. w # NoUd BY ParametersAssumption DEF Inv, TypeOK
        <5>2. IsChild(w) BY <1>8, <3>3, <4>3, <4>5 DEF IsChild
        <5>3. obj[w].handle \in Found BY <4>1, <4>3, <4>5, <5>1, <5>2 DEF Found
        <5>4. First <= obj[w].handle BY <1>4, <5>3
        <5>5. CASE obj[w].handle = First
          <6>1. w = v BY <4>1, <5>5
          <6> QED BY <1>3, <1>7, <1>10, <1>11, <2>3, <6>1
        <5>6. CASE obj[w].handle >= First + 1
          BY <1>1, <1>8, <4>3, <4>5, <5>6 DEF Pending
        <5> QED BY <1>5, <4>1, <5>4, <5>5, <5>6
      <4> QED BY <4>4, <4>5
    <3> QED BY <1>1, <1>3, <1>8, <1>12, <3>1, <3>2, <3>3 DEF FrameInv
  <2> QED BY <1>10, <2>1, <2>2, <2>3
<1> QED BY <1>12, <1>13, <1>14 DEF Inv, FramesInv

\* A scan that ends has no child of its class left (the id starts from 0 again).
LEMMA EndScanInv == ASSUME Inv, EndScan PROVE Inv'
<1> DEFINE n == Len(stack)
<1>a. PICK T : T = [Top EXCEPT !.class = @ + 1, !.from = 0] OBVIOUS
<1>1. /\ Scanning /\ Found = {} /\ stack # <<>> /\ stack' = WithTop(T)
      /\ UNCHANGED <<mem, obj, hasSub, tree, alive, refs, base, uses, phase>>
  BY <1>a DEF EndScan, Scanning, Running, udVars, clVars
<1>2. stack \in Seq(Frame) /\ TypeOK BY DEF Inv, TypeOK
<1>3. Top \in Frame /\ n \in DOMAIN stack /\ Top = stack[n] BY <1>1, <1>2, TopFacts
<1>4. /\ T \in Frame /\ T.ud = Top.ud /\ T.type = Top.type /\ T.handle = Top.handle
      /\ T.class = Top.class + 1 /\ T.from = 0 /\ T.pc = Top.pc /\ T.callback = Top.callback
  <2>1. Top.class + 1 \in Nat \ {0} BY <1>3 DEF Frame
  <2>2. PICK c : c = Top.class + 1 OBVIOUS
  <2>3. T = [Top EXCEPT !.class = c, !.from = 0] BY <1>a, <2>2
  <2> QED BY <1>3, <2>1, <2>2, <2>3 DEF Frame
<1>5. /\ stack' \in Seq(Frame) /\ DOMAIN stack' = DOMAIN stack /\ stack'[n] = T
      /\ \A k \in DOMAIN stack : k # n => stack'[k] = stack[k]
  BY <1>1, <1>2, <1>4, WithTopFacts
<1>6. \A k \in DOMAIN stack : k \in Nat /\ k <= n BY <1>2
<1>7. valid' = valid /\ TreeMatchesValid' /\ ParentValid' /\ ObjectInv'
  BY <1>1, UdVarsKept
<1>8. TypeOK' BY <1>1, <1>2, <1>5, <1>7 DEF TypeOK
<1>9. ASSUME NEW k \in DOMAIN stack' PROVE FrameInv(k)'
  <2>1. CASE k # n
    <3>1. FrameInv(k) BY <1>5 DEF Inv, FramesInv
    <3>2. \A j \in DOMAIN stack : stack'[j].ud = stack[j].ud BY <1>3, <1>4, <1>5
    <3> QED BY <1>1, <1>5, <2>1, <3>1, <3>2, FrameKept
  <2>2. CASE k = n
    <3>1. FrameInv(n) BY <1>3 DEF Inv, FramesInv
    <3>2. stack'[k] = T BY <1>5, <2>2
    <3>3. ASSUME T.ud \in valid, NEW w \in valid, obj[w].parent = T.ud
          PROVE  Pending(T, w)'
      <4>1. obj[w].handle \in Handles /\ obj[w].handle \in Nat /\ tree[obj[w].handle] = w
        BY HandlesAreNat DEF Inv, TypeOK, Object, TreeMatchesValid
      <4>2. Pending(Top, w)
        <5>1. ~ \E j \in DOMAIN stack : j > n BY <1>3, <1>6
        <5> QED BY <1>3, <1>4, <3>1, <3>3, <5>1 DEF FrameInv
      <4>3. PICK i \in Top.class..Len(ScanOrder(Top.type)) :
              /\ ScanOrder(Top.type)[i] = Mt(obj[w].type)
              /\ i = Top.class => obj[w].handle >= Top.from
        BY <4>2 DEF Pending
      <4>4. i # Top.class
        <5>1. SUFFICES ASSUME i = Top.class PROVE FALSE OBVIOUS
        <5>2. w # NoUd BY ParametersAssumption DEF Inv, TypeOK
        <5>3. IsChild(w) BY <1>4, <3>3, <4>3, <5>1 DEF IsChild
        <5>4. obj[w].handle \in Found BY <4>1, <4>3, <5>1, <5>2, <5>3 DEF Found
        <5> QED BY <1>1, <5>4
      <4>5. Top.class \in Nat BY <1>3 DEF Frame
      <4>6. i \in T.class..Len(ScanOrder(T.type)) BY <1>4, <4>3, <4>4, <4>5
      <4> QED BY <1>1, <1>4, <4>1, <4>3, <4>6 DEF Pending
    <3> QED BY <1>1, <1>3, <1>4, <1>7, <3>1, <3>2, <3>3 DEF FrameInv
  <2> QED BY <2>1, <2>2
<1> QED BY <1>7, <1>8, <1>9 DEF Inv, FramesInv

\* The scans are over and the object is still valid: it has no child left.
LEMMA NoChildLeft ==
  ASSUME Inv, Running("scan"), ~Scanning, Top.ud \in valid, NEW v \in valid
  PROVE  obj[v].parent # Top.ud
<1> DEFINE n == Len(stack)
<1>1. SUFFICES ASSUME obj[v].parent = Top.ud PROVE FALSE OBVIOUS
<1>2. stack \in Seq(Frame) /\ stack # <<>> BY DEF Inv, TypeOK, Running
<1>3. Top \in Frame /\ n \in DOMAIN stack /\ Top = stack[n] BY <1>2, TopFacts
<1>4. FrameInv(n) BY <1>3 DEF Inv, FramesInv
<1>5. ~ \E j \in DOMAIN stack : j > n BY <1>2
<1>6. Pending(Top, v) BY <1>1, <1>3, <1>4, <1>5 DEF FrameInv
<1>7. PICK i \in Top.class..Len(ScanOrder(Top.type)) : ScanOrder(Top.type)[i] = Mt(obj[v].type)
  BY <1>6 DEF Pending
<1>8. Top.class \in Nat \ {0}
  BY <1>3 DEF Frame
<1>9. Len(ScanOrder(Top.type)) \in Nat
  BY DEF ScanOrder
<1> QED BY <1>7, <1>8, <1>9 DEF Scanning

\* freeuserdata removes an object that has no child left, and its entry in the tree.
LEMMA FreeUserdataInv == ASSUME Inv, FreeUserdata PROVE Inv'
<1> DEFINE n == Len(stack)
<1>1. /\ Running("scan") /\ ~Scanning /\ stack # <<>> /\ Top.pc = "scan"
      /\ UNCHANGED <<mem, phase>>
  BY DEF FreeUserdata, Running
<1>2. stack \in Seq(Frame) /\ TypeOK BY DEF Inv, TypeOK
<1>3. Top \in Frame /\ n \in DOMAIN stack /\ Top = stack[n] BY <1>1, <1>2, TopFacts
<1>4. CASE Top.ud \notin valid
  <2>1. stack' = Rest /\ Destroyed(Top.callback) /\ UNCHANGED <<obj, hasSub, tree, refs>>
    BY <1>4 DEF FreeUserdata, Return
  <2>2. stack' \in Seq(Frame) /\ FramesInv' BY <1>1, <1>4, <2>1, FramesAfterReturn
  <2>3. TreeMatchesValid' /\ ParentValid' /\ ObjectInv' /\ valid' = valid BY <2>1, UdVarsKept
  <2>4. TypeOK' BY <1>1, <1>2, <2>1, <2>2, <2>3, DestroyedType DEF TypeOK
  <2> QED BY <2>2, <2>3, <2>4 DEF Inv
<1>5. CASE Top.ud \in valid
  <2>a. PICK r : r = Top.ud OBVIOUS
  <2>b. PICK T : T = [Top EXCEPT !.pc = "release"] OBVIOUS
  <2>1. /\ obj' = [u \in valid \ {r} |-> obj[u]] /\ hasSub' = hasSub \ {r}
        /\ tree' = [tree EXCEPT ![obj[r].handle] = NoUd]
        /\ stack' = WithTop(T) /\ UNCHANGED <<alive, refs, base, uses>>
    BY <1>5, <2>a, <2>b DEF FreeUserdata, clVars
  <2>2. /\ T \in Frame /\ T.ud = r /\ T.handle = Top.handle /\ T.callback = Top.callback
    BY <2>a, <2>b, <1>3 DEF Frame
  <2>3. /\ stack' \in Seq(Frame) /\ DOMAIN stack' = DOMAIN stack /\ stack'[n] = T
        /\ \A k \in DOMAIN stack : k # n => stack'[k] = stack[k]
    BY <1>1, <1>2, <2>1, <2>2, WithTopFacts
  <2>4. valid' = valid \ {r} /\ r \in valid BY <1>5, <2>a, <2>1 DEF valid
  <2>5. \A u \in valid' : u \in valid /\ u # r /\ obj'[u] = obj[u] /\ obj[u].parent # r
    BY <1>1, <1>5, <2>a, <2>1, <2>4, NoChildLeft
  <2>6. TypeOK' BY <1>1, <1>2, <2>1, <2>3, <2>4, <2>5 DEF TypeOK
  <2>7. \A u \in valid : tree[obj[u].handle] = u /\ obj[u].handle \in Handles
    BY DEF Inv, TreeMatchesValid, TypeOK, Object
  <2>8. \A h \in Handles : tree'[h] = IF h = obj[r].handle THEN NoUd ELSE tree[h]
    BY <1>2, <2>1 DEF TypeOK
  <2>9. TreeMatchesValid'
    <3>1. ASSUME NEW u \in valid' PROVE tree'[obj'[u].handle] = u
      BY <2>4, <2>5, <2>7, <2>8
    <3>2. ASSUME NEW h \in Handles, tree'[h] # NoUd
          PROVE  tree'[h] \in valid' /\ obj'[tree'[h]].handle = h
      <4>1. h # obj[r].handle /\ tree'[h] = tree[h] BY <2>8, <3>2
      <4>2. tree[h] \in valid /\ obj[tree[h]].handle = h
        BY <3>2, <4>1 DEF Inv, TreeMatchesValid
      <4>3. tree[h] # r BY <4>1, <4>2
      <4> QED BY <2>4, <2>5, <4>1, <4>2, <4>3
    <3> QED BY <3>1, <3>2 DEF TreeMatchesValid
  <2>10. ParentValid'
    BY <2>4, <2>5 DEF Inv, ParentValid
  <2>11. ObjectInv'
    <3>1. ASSUME NEW u \in valid'
          PROVE  /\ ParentTypes(obj[u].type) = {} => obj'[u].parent = NoUd
                 /\ obj[u].type = "subdevice" => obj'[u].parent \in hasSub'
                 /\ obj[u].type \in OwnedByParent => obj'[u].owner = obj'[obj[u].parent].handle
      <4>1. u \in valid /\ obj'[u] = obj[u] /\ obj[u].parent # r BY <2>5
      <4>2. /\ ParentTypes(obj[u].type) = {} => obj[u].parent = NoUd
            /\ obj[u].type = "subdevice" => obj[u].parent \in hasSub
            /\ obj[u].type \in OwnedByParent => obj[u].owner = obj[obj[u].parent].handle
        BY <4>1 DEF Inv, ObjectInv
      <4>3. obj[u].type \in OwnedByParent => obj[u].parent \in valid
        <5>1. obj[u].type \in OwnedByParent => ParentTypes(obj[u].type) # {}
          BY DEF OwnedByParent, ParentTypes, ContextChildren
        <5> QED BY <4>1, <5>1 DEF Inv, ParentValid
      <4>4. obj[u].parent \in valid => obj'[obj[u].parent] = obj[obj[u].parent]
        BY <2>1, <4>1
      <4> QED BY <2>1, <4>1, <4>2, <4>3, <4>4
    <3> QED BY <2>5, <3>1 DEF ObjectInv
  <2>12. ASSUME NEW k \in DOMAIN stack' PROVE FrameInv(k)'
    <3>1. k \in DOMAIN stack /\ FrameInv(k) BY <2>3 DEF Inv, FramesInv
    <3>2. /\ stack'[k].ud = stack[k].ud /\ stack'[k].handle = stack[k].handle
          /\ stack'[k].callback = stack[k].callback
      BY <1>3, <2>a, <2>2, <2>3, <3>1
    <3>3. stack[k].handle \in Handles
      <4>1. stack[k] \in Frame BY <1>2, <3>1
      <4> QED BY <4>1 DEF Frame
    <3>4. stack[k].ud \notin valid' => tree'[stack[k].handle] = NoUd
      BY <2>4, <2>8, <3>1, <3>3 DEF FrameInv
    <3>5. CASE stack[k].ud \in valid'
      <4>1. stack[k].ud \in valid /\ k # n BY <1>3, <2>a, <2>4, <3>5
      <4>2. stack'[k] = stack[k] BY <2>3, <3>1, <4>1
      <4>3. PICK f : f = stack[k] OBVIOUS
      <4>4. ASSUME NEW v \in valid', obj[v].parent = f.ud
            PROVE  Pending(f, v)' \/ \E j \in DOMAIN stack' : j > k /\ stack'[j].ud = v
        <5>1. v \in valid /\ obj'[v] = obj[v] BY <2>5
        <5>2. Pending(f, v) \/ \E j \in DOMAIN stack : j > k /\ stack[j].ud = v
          BY <3>1, <4>1, <4>3, <4>4, <5>1 DEF FrameInv
        <5>3. Pending(f, v) => Pending(f, v)' BY <5>1 DEF Pending
        <5>4. \A j \in DOMAIN stack : stack'[j].ud = stack[j].ud BY <1>3, <2>a, <2>2, <2>3
        <5> QED BY <2>3, <5>2, <5>3, <5>4
      <4> QED BY <2>5, <3>1, <3>2, <3>5, <4>1, <4>2, <4>3, <4>4 DEF FrameInv
    <3> QED BY <3>1, <3>2, <3>4, <3>5 DEF FrameInv
  <2> QED BY <2>6, <2>9, <2>10, <2>11, <2>12 DEF Inv, FramesInv
<1> QED BY <1>4, <1>5

\* ReleaseAll touches the driver only.
LEMMA ReleaseAllInv == ASSUME Inv, ReleaseAll PROVE Inv'
<1> DEFINE n == Len(stack)
<1>a. PICK T : T = [Top EXCEPT !.pc = "return"] OBVIOUS
<1>1. /\ stack # <<>> /\ Top.pc = "release" /\ stack' = WithTop(T)
      /\ refs' = IF Top.handle \in Permanent THEN refs ELSE [refs EXCEPT ![Top.handle] = 0]
      /\ Destroyed(Top.handle) \/ UNCHANGED <<alive, base, uses>>
      /\ UNCHANGED <<mem, obj, hasSub, tree, phase>>
  BY <1>a DEF ReleaseAll, Running, udVars
<1>2. stack \in Seq(Frame) /\ TypeOK BY DEF Inv, TypeOK
<1>3. Top \in Frame /\ n \in DOMAIN stack /\ Top = stack[n] BY <1>1, <1>2, TopFacts
<1>4. T \in Frame /\ T.ud = Top.ud /\ T.handle = Top.handle /\ T.callback = Top.callback
  BY <1>a, <1>3 DEF Frame
<1>5. /\ stack' \in Seq(Frame) /\ DOMAIN stack' = DOMAIN stack /\ stack'[n] = T
      /\ \A k \in DOMAIN stack : k # n => stack'[k] = stack[k]
  BY <1>1, <1>2, <1>4, WithTopFacts
<1>6. TreeMatchesValid' /\ ParentValid' /\ ObjectInv' /\ valid' = valid BY <1>1, UdVarsKept
<1>7. TypeOK'
  <2>1. refs' \in [Handles -> Nat] BY <1>1, <1>2 DEF TypeOK
  <2>2. /\ alive' \subseteq Handles
        /\ base' \in [Handles -> Handles \cup {NoHandle}]
        /\ uses' \in [Handles -> SUBSET Handles]
    <3>1. CASE Destroyed(Top.handle) BY <1>2, <3>1, DestroyedType
    <3>2. CASE UNCHANGED <<alive, base, uses>> BY <1>2, <3>2 DEF TypeOK
    <3> QED BY <1>1, <3>1, <3>2
  <2> QED BY <1>1, <1>2, <1>5, <1>6, <2>1, <2>2 DEF TypeOK
<1>8. ASSUME NEW k \in DOMAIN stack' PROVE FrameInv(k)'
  <2>1. FrameInv(k) /\ k \in DOMAIN stack BY <1>5 DEF Inv, FramesInv
  <2>2. CASE k # n
    <3>1. \A j \in DOMAIN stack : stack'[j].ud = stack[j].ud BY <1>3, <1>4, <1>5
    <3> QED BY <1>1, <1>5, <2>1, <2>2, <3>1, FrameKept
  <2>3. CASE k = n
    <3>1. Top.ud \notin valid BY <1>1, <1>3, <2>1, <2>3 DEF FrameInv
    <3> QED BY <1>1, <1>3, <1>4, <1>5, <1>6, <2>1, <2>3, <3>1 DEF FrameInv
  <2> QED BY <2>2, <2>3
<1> QED BY <1>6, <1>7, <1>8 DEF Inv, FramesInv

\* The return of a destructor whose object is invalid by now.
LEMMA DestructorReturnsInv == ASSUME Inv, DestructorReturns PROVE Inv'
<1>1. /\ stack # <<>> /\ Top.pc = "return" /\ stack' = Rest /\ Destroyed(Top.callback)
      /\ UNCHANGED <<mem, obj, hasSub, tree, refs, phase>>
  BY DEF DestructorReturns, Return, Running, udVars
<1>2. stack \in Seq(Frame) /\ TypeOK BY DEF Inv, TypeOK
<1>3. Top.ud \notin valid
  <2>1. Len(stack) \in DOMAIN stack /\ Top = stack[Len(stack)] BY <1>1, <1>2, TopFacts
  <2>2. FrameInv(Len(stack)) BY <2>1 DEF Inv, FramesInv
  <2> QED BY <1>1, <2>1, <2>2 DEF FrameInv
<1>4. stack' \in Seq(Frame) /\ FramesInv' BY <1>1, <1>3, FramesAfterReturn
<1>5. TreeMatchesValid' /\ ParentValid' /\ ObjectInv' /\ valid' = valid BY <1>1, UdVarsKept
<1>6. TypeOK' BY <1>1, <1>2, <1>4, <1>5, DestroyedType DEF TypeOK
<1> QED BY <1>4, <1>5, <1>6 DEF Inv

\* A destructor called on top of those in progress (none, or interrupted ones).
LEMMA CallInv ==
  ASSUME Inv, NEW u \in valid, NEW h \in Handles \cup {0}, h # 0 => h = obj[u].handle,
         stack' = Append(stack, Destroying(u, h)), UNCHANGED <<obj, hasSub, tree>>
  PROVE  stack' \in Seq(Frame) /\ FramesInv'
<1>1. PICK D : D = Destroying(u, h) OBVIOUS
<1>2. /\ D \in Frame /\ D.ud = u /\ D.pc = "scan" /\ D.type = obj[u].type
      /\ D.handle = obj[u].handle /\ D.callback = h
      /\ \A v \in valid : obj[v].parent = u => Pending(D, v)
  BY <1>1, NewFrame
<1>3. stack \in Seq(Frame) BY DEF Inv, TypeOK
<1>4. /\ stack' \in Seq(Frame) /\ DOMAIN stack' = DOMAIN stack \cup {Len(stack) + 1}
      /\ stack'[Len(stack) + 1] = D
      /\ \A k \in DOMAIN stack : stack'[k] = stack[k]
  BY <1>1, <1>2, <1>3, AppendFacts
<1>5. ASSUME NEW k \in DOMAIN stack PROVE FrameInv(k)'
  <2>1. FrameInv(k) BY DEF Inv, FramesInv
  <2> QED BY <1>4, <2>1, FrameKept
<1>6. ASSUME NEW k, k = Len(stack) + 1 PROVE FrameInv(k)'
  <2>1. \A w \in valid : Pending(D, w) => Pending(D, w)' BY DEF Pending
  <2>2. stack'[k] = D /\ valid' = valid BY <1>4, <1>6 DEF valid
  <2> QED BY <1>2, <2>1, <2>2 DEF FrameInv
<1> QED BY <1>4, <1>5, <1>6 DEF FramesInv

\* DestructorCallback, or the driver frees an object.
LEMMA DriverDestroysInv == ASSUME Inv, NEW h \in Handles, DriverDestroys(h) PROVE Inv'
<1>1. TypeOK /\ UNCHANGED <<mem, obj, hasSub, tree, refs, phase>>
  BY DEF Inv, DriverDestroys, udVars
<1>2. TreeMatchesValid' /\ ParentValid' /\ ObjectInv' /\ valid' = valid BY <1>1, UdVarsKept
<1>3. CASE tree[h] \in valid /\ obj[tree[h]].type \in MemTypes
  <2>1. stack' = Append(stack, Destroying(tree[h], h)) /\ UNCHANGED <<alive, base, uses>>
    BY <1>3 DEF DriverDestroys
  <2>2. h = obj[tree[h]].handle
    BY <1>3, ParametersAssumption DEF Inv, TypeOK, TreeMatchesValid
  <2>3. stack' \in Seq(Frame) /\ FramesInv' BY <1>1, <1>3, <2>1, <2>2, CallInv
  <2>4. TypeOK' BY <1>1, <1>2, <2>1, <2>3 DEF TypeOK
  <2> QED BY <1>2, <2>3, <2>4 DEF Inv
<1>4. CASE ~(tree[h] \in valid /\ obj[tree[h]].type \in MemTypes)
  <2>1. Destroyed(h) /\ UNCHANGED stack BY <1>4 DEF DriverDestroys
  <2>2. TypeOK' BY <1>1, <1>2, <2>1, DestroyedType DEF TypeOK
  <2>3. FramesInv'
    <3>1. ASSUME NEW k \in DOMAIN stack PROVE FrameInv(k)'
      <4>1. FrameInv(k) BY DEF Inv, FramesInv
      <4> QED BY <1>1, <2>1, <4>1, FrameKept
    <3> QED BY <2>1, <3>1 DEF FramesInv
  <2> QED BY <1>2, <2>2, <2>3 DEF Inv
<1> QED BY <1>3, <1>4

\* Every step of a destructor or of the driver preserves the invariant.
LEMMA DestructorInv == ASSUME Inv, Destructor PROVE Inv'
  BY ScanObjectInv, EndScanInv, FreeUserdataInv, ReleaseAllInv, DestructorReturnsInv,
     DriverDestroysInv DEF Destructor

-----------------------------------------------------------------------------
(***************************************************************************)
(* The steps of the script and of Lua preserve the invariant.              *)
(***************************************************************************)
\* Changes of reference counts and of the phase preserve it.
LEMMA CountsInv ==
  ASSUME Inv, TypeOK', UNCHANGED <<obj, hasSub, tree, stack>>
  PROVE  Inv'
<1>1. TreeMatchesValid' /\ ParentValid' /\ ObjectInv' BY UdVarsKept
<1>2. ASSUME NEW k \in DOMAIN stack PROVE FrameInv(k)'
  <2>1. FrameInv(k) BY DEF Inv, FramesInv
  <2> QED BY <2>1, FrameKept
<1> QED BY <1>1, <1>2 DEF Inv, FramesInv

\* A destructor called by the script or by a finalizer.
LEMMA CalledInv ==
  ASSUME Inv, NEW u \in valid, stack = <<>>, stack' = <<Destroying(u, NoHandle)>>,
         UNCHANGED <<udVars, clVars, phase>>
  PROVE  Inv'
<1>1. stack' = Append(stack, Destroying(u, NoHandle)) OBVIOUS
<1>2. stack' \in Seq(Frame) /\ FramesInv' BY <1>1, CallInv DEF udVars
<1>3. TreeMatchesValid' /\ ParentValid' /\ ObjectInv' /\ valid' = valid
  BY UdVarsKept DEF udVars
<1>4. TypeOK' BY <1>2, <1>3 DEF Inv, TypeOK, udVars, clVars
<1> QED BY <1>2, <1>3, <1>4 DEF Inv

\* object:delete().
LEMMA DeleteInv == ASSUME Inv, NEW u \in valid, Delete(u) PROVE Inv'
  BY CalledInv DEF Delete, Idle

\* retain_xxx.
LEMMA RetainInv == ASSUME Inv, NEW u \in valid, Retain(u) PROVE Inv'
<1>1. UNCHANGED <<mem, obj, hasSub, tree, alive, base, uses, stack, phase>>
      /\ refs' = [refs EXCEPT ![obj[u].handle] = @ + 1]
  BY DEF Retain, udVars
<1>2. refs' \in [Handles -> Nat]
  <2>1. obj[u].handle \in Handles /\ refs \in [Handles -> Nat] BY DEF Inv, TypeOK, Object
  <2> QED BY <1>1, <2>1
<1>3. TypeOK' BY <1>1, <1>2 DEF Inv, TypeOK, valid
<1> QED BY <1>1, <1>3, CountsInv

\* release_xxx, with the destructor or without.
LEMMA ReleaseInv == ASSUME Inv, NEW u \in valid, Release(u) PROVE Inv'
<1>1. CASE ReferenceCount(obj[u].handle) = 1
  BY <1>1, CalledInv DEF Release, Script, Idle, udVars, clVars
<1>2. CASE ReferenceCount(obj[u].handle) # 1
  <2>1. UNCHANGED <<mem, obj, hasSub, tree, alive, base, uses, stack, phase>>
        /\ refs[obj[u].handle] > 0 /\ refs' = [refs EXCEPT ![obj[u].handle] = @ - 1]
    BY <1>2 DEF Release, udVars
  <2>2. refs' \in [Handles -> Nat]
    <3>1. obj[u].handle \in Handles /\ refs \in [Handles -> Nat] BY DEF Inv, TypeOK, Object
    <3> QED BY <2>1, <3>1
  <2>3. TypeOK' BY <2>1, <2>2 DEF Inv, TypeOK, valid
  <2> QED BY <2>1, <2>3, CountsInv
<1> QED BY <1>1, <1>2

\* The collection of a userdata that is not valid.
LEMMA CollectInv == ASSUME Inv, NEW u \in mem \ valid, Collect(u) PROVE Inv'
<1>1. mem' = mem \ {u} /\ UNCHANGED <<obj, hasSub, tree, clVars, stack, phase>> BY DEF Collect
<1>2. TypeOK' BY <1>1 DEF Inv, TypeOK, valid, clVars
<1> QED BY <1>1, <1>2, CountsInv

\* The beginning and the end of lua_close.
LEMMA CloseInv == ASSUME Inv, Close \/ Closed PROVE Inv'
<1>1. phase' \in {"closing", "closed"} /\ UNCHANGED <<udVars, clVars, stack>>
  BY DEF Close, Closed
<1>2. TypeOK' BY <1>1 DEF Inv, TypeOK, valid, udVars, clVars
<1> QED BY <1>1, <1>2, CountsInv DEF udVars

-----------------------------------------------------------------------------
(***************************************************************************)
(* Creation.                                                               *)
(***************************************************************************)
\* What newxxx puts in a new binding, in the state in which the script calls it.
WellFormed(n, h) ==
  /\ n \in Object /\ n.handle = h
  /\ ParentTypes(n.type) = {} => n.parent = NoUd /\ n.owner = NoHandle
  /\ ParentTypes(n.type) # {} => /\ n.parent \in valid
                                /\ obj[n.parent].type \in ParentTypes(n.type)
  /\ n.type \in OwnedByParent => n.owner = obj[n.parent].handle
  /\ n.type \in {"subdevice", "subbuffer"} => n.owner = obj[n.parent].owner

\* n is the binding for an object h under p that has none; it existed already only if it
\* is a platform or a root device.
IsNew(n, h, p) ==
  /\ h \in Handles /\ WellFormed(n, h) /\ n.parent = p
  /\ IF h \in Permanent THEN tree[h] = NoUd ELSE h \notin alive
  /\ n.type \in MemTypes => h \notin Permanent

\* A call creates the objects of new, and bindings of them under one parent p (or, for
\* platforms and hostmems, none): the driver creates them from the object from, if any,
\* which is p's, and they use the objects used.
Creation(new, p, from, used) ==
  /\ CreateBindings(new, from, used)
  /\ phase = "open" /\ stack = <<>> /\ Dying = {}
  /\ \A h \in DOMAIN new : IsNew(new[h], h, p)
  /\ p \in valid \cup {NoUd}
  /\ from = NoHandle \/ (p \in valid /\ from = obj[p].handle)
  /\ \A o \in used : o = NoHandle \/ \E u \in valid : o = obj[u].handle
  /\ \A x, y \in used : x = y
  /\ p \in valid => (obj[p].type \in MemTypes => from = obj[p].handle /\ used = {})

Creates == \E new, p, from, used : Creation(new, p, from, used)

\* The bindings N that the call has created, those of the objects B: all of them, unless
\* udata_new failed.
Bindings(new, from, used, B, N) ==
  LET H == DOMAIN new
  IN  /\ B \subseteq H /\ N \subseteq Uds \ mem
      /\ Clash(H) \/ AllocMayFail \/ B = H
      /\ mem' = mem \cup N /\ valid' = valid \cup N
      /\ obj' = [u \in valid' |-> obj'[u]]
      /\ \A u \in valid : u \notin N /\ obj'[u] = obj[u]
      /\ \A u \in N : \E h \in B : tree'[h] = u /\ obj'[u] = new[h]
      /\ \A h \in B : tree[h] = NoUd /\ tree'[h] \in N /\ obj'[tree'[h]] = new[h]
      /\ \A h \in Handles \ B : tree'[h] = tree[h]
      /\ tree' = [h \in Handles |-> tree'[h]]
      /\ hasSub' = hasSub \cup Marked(new, B)
      /\ alive' = alive \cup H
      /\ refs' = [h \in Handles |-> IF h \in H \ Permanent THEN 1 ELSE refs[h]]
      /\ base' = [h \in Handles |-> IF h \in H \ Permanent THEN from ELSE base[h]]
      /\ uses' = [h \in Handles |-> IF h \in H \ Permanent
                                    THEN used \ ({NoHandle} \cup Permanent)
                                    ELSE uses[h]]
      /\ UNCHANGED <<stack, phase>>

LEMMA CreateBindingsFacts ==
  ASSUME Inv, NEW new, NEW from, NEW used, DOMAIN new \subseteq Handles,
         CreateBindings(new, from, used)
  PROVE  \E B, N : Bindings(new, from, used, B, N)
<1> DEFINE H == DOMAIN new
<1>1. PICK B \in SUBSET H :
        /\ Clash(H) \/ AllocMayFail \/ B = H
        /\ \A h \in B : tree[h] = NoUd
        /\ \E at \in [B -> Uds \ mem] :
             /\ \A g, h \in B : at[g] = at[h] => g = h
             /\ LET N == {at[h] : h \in B}
                IN  /\ mem' = mem \cup N
                    /\ obj' = [u \in valid \cup N |->
                                IF u \in N THEN new[CHOOSE h \in B : at[h] = u] ELSE obj[u]]
                    /\ tree' = [h \in Handles |-> IF h \in B THEN at[h] ELSE tree[h]]
                    /\ hasSub' = hasSub \cup Marked(new, B)
             /\ alive' = alive \cup H
             /\ refs' = [h \in Handles |-> IF h \in H \ Permanent THEN 1 ELSE refs[h]]
             /\ base' = [h \in Handles |-> IF h \in H \ Permanent THEN from ELSE base[h]]
             /\ uses' = [h \in Handles |-> IF h \in H \ Permanent
                                           THEN used \ ({NoHandle} \cup Permanent)
                                           ELSE uses[h]]
             /\ UNCHANGED <<stack, phase>>
  <2>1. CASE Clash(H) \/ AllocMayFail
    BY <2>1 DEF CreateBindings
  <2>2. CASE ~(Clash(H) \/ AllocMayFail)
    <3>1. \A h \in H : tree[h] = NoUd BY <2>2 DEF Clash
    <3> QED BY <2>2, <3>1 DEF CreateBindings
  <2> QED BY <2>1, <2>2
<1>2. PICK at \in [B -> Uds \ mem] :
        /\ \A g, h \in B : at[g] = at[h] => g = h
        /\ mem' = mem \cup {at[h] : h \in B}
        /\ obj' = [u \in valid \cup {at[h] : h \in B} |->
                    IF u \in {at[h] : h \in B} THEN new[CHOOSE h \in B : at[h] = u] ELSE obj[u]]
        /\ tree' = [h \in Handles |-> IF h \in B THEN at[h] ELSE tree[h]]
        /\ hasSub' = hasSub \cup Marked(new, B)
        /\ alive' = alive \cup H
        /\ refs' = [h \in Handles |-> IF h \in H \ Permanent THEN 1 ELSE refs[h]]
        /\ base' = [h \in Handles |-> IF h \in H \ Permanent THEN from ELSE base[h]]
        /\ uses' = [h \in Handles |-> IF h \in H \ Permanent
                                      THEN used \ ({NoHandle} \cup Permanent)
                                      ELSE uses[h]]
        /\ UNCHANGED <<stack, phase>>
  BY <1>1
<1>3. PICK N : N = {at[h] : h \in B} OBVIOUS
<1>4. valid \subseteq mem BY DEF Inv, TypeOK
<1>5. N \subseteq Uds \ mem /\ \A h \in B : at[h] \in N BY <1>2, <1>3
<1>6. valid' = valid \cup N BY <1>2, <1>3 DEF valid
<1>7. \A u \in valid : u \notin N /\ obj'[u] = obj[u]
  BY <1>2, <1>3, <1>4, <1>5
<1>8. ASSUME NEW u \in N PROVE \E h \in B : u = at[h] /\ obj'[u] = new[h]
  <2>1. PICK h \in B : u = at[h] BY <1>3
  <2>2. (CHOOSE g \in B : at[g] = u) = h BY <1>2, <2>1
  <2>3. obj'[u] = new[CHOOSE g \in B : at[g] = u] BY <1>2, <1>3
  <2> QED BY <2>1, <2>2, <2>3
<1>9. \A h \in B : h \in Handles /\ tree'[h] = at[h] /\ obj'[at[h]] = new[h]
  BY <1>2, <1>5, <1>8
<1>10. \A h \in Handles \ B : tree'[h] = tree[h] BY <1>2
<1>11. obj' = [u \in valid' |-> obj'[u]] /\ tree' = [h \in Handles |-> tree'[h]]
  BY <1>2, <1>3, <1>6
<1>12. \A u \in N : \E h \in B : tree'[h] = u /\ obj'[u] = new[h] BY <1>8, <1>9
<1>13. \A h \in B : tree[h] = NoUd /\ tree'[h] \in N /\ obj'[tree'[h]] = new[h]
  BY <1>1, <1>5, <1>9
<1>14. mem' = mem \cup N /\ hasSub' = hasSub \cup Marked(new, B) BY <1>2, <1>3
<1>15. B \subseteq H /\ (Clash(H) \/ AllocMayFail \/ B = H) BY <1>1
<1>16. Bindings(new, from, used, B, N)
  BY <1>2, <1>5, <1>6, <1>7, <1>10, <1>11, <1>12, <1>13, <1>14, <1>15, Zenon DEF Bindings
<1> QED BY <1>16

\* The count that release_xxx compares with 1 is the application's, or the script releases
\* only objects that have a DestructorCallback.  (A count that includes the references of
\* the driver's own objects makes release_xxx drop the last one of the application and keep
\* the binding, so that the driver destroys the object behind it some time later.)
ReleasesTracked == ~CountImplicit \/ Released \subseteq MemTypes

\* The count is the application's, or the script deletes its objects instead.
OwnCounts == ~CountImplicit \/ Released = {}

\* A binding has references, unless the script has called release_xxx with such a count;
\* if ReleasesTracked, its object is alive.
RefInv ==
  /\ \A h \in Permanent : refs[h] = 1
  /\ \A u \in valid : refs[obj[u].handle] > 0 \/ (CountImplicit /\ obj[u].type \in Released)
  /\ BindingAlive

\* What a creation preserves.
Kept == Inv' /\ (RefInv => RefInv')

\* A call that creates well formed bindings, all of them or some, preserves the
\* invariant.
LEMMA CreationInv == ASSUME Inv, Creates PROVE Kept
<1>1. PICK new, p, from, used : Creation(new, p, from, used) BY DEF Creates
<1> DEFINE H == DOMAIN new
<1>2. H \subseteq Handles /\ stack = <<>> BY <1>1 DEF Creation, IsNew
<1>3. PICK B, N : Bindings(new, from, used, B, N)
  BY <1>1, <1>2, CreateBindingsFacts DEF Creation
<1>4. TypeOK /\ valid \subseteq mem /\ mem \subseteq Uds BY DEF Inv, TypeOK
<1>5. /\ B \subseteq H /\ N \subseteq Uds \ mem /\ mem' = mem \cup N /\ valid' = valid \cup N
      /\ \A h \in B : h \in Handles /\ tree'[h] \in N
  BY <1>2, <1>3 DEF Bindings
<1>7. \A u \in valid : u \notin N /\ u # NoUd /\ obj'[u] = obj[u]
  BY <1>3, <1>4, ParametersAssumption DEF Bindings
<1>8. \A u \in N : \E h \in B : tree'[h] = u /\ obj'[u] = new[h] BY <1>3 DEF Bindings
<1>9. \A h \in B : tree[h] = NoUd /\ obj'[tree'[h]] = new[h] BY <1>3 DEF Bindings
<1>10. \A h \in B : h \in Handles /\ new[h] \in Object /\ WellFormed(new[h], h)
  BY <1>1, <1>5 DEF Creation, IsNew, WellFormed
<1>11. Marked(new, B) \subseteq valid
  <2>1. ASSUME NEW h \in B, new[h].type = "subdevice" PROVE new[h].parent \in valid
    <3>1. ParentTypes(new[h].type) # {} BY <2>1 DEF ParentTypes, ContextChildren
    <3> QED BY <1>10, <3>1 DEF WellFormed
  <2> QED BY <2>1 DEF Marked
<1>12. TypeOK'
  <2>1. mem' \subseteq Uds /\ valid' \subseteq mem' /\ hasSub' \subseteq valid'
    BY <1>3, <1>4, <1>5, <1>11 DEF TypeOK, Bindings
  <2>2. obj' \in [valid' -> Object]
    <3>1. \A u \in valid' : obj'[u] \in Object
      BY <1>4, <1>5, <1>7, <1>8, <1>10 DEF TypeOK
    <3> QED BY <1>3, <3>1 DEF Bindings
  <2>3. tree' \in [Handles -> Uds \cup {NoUd}]
    <3>1. \A h \in Handles : tree'[h] \in Uds \cup {NoUd}
      BY <1>3, <1>4, <1>5 DEF TypeOK, Bindings
    <3> QED BY <1>3, <3>1 DEF Bindings
  <2>4. alive' \subseteq Handles BY <1>2, <1>3, <1>4 DEF TypeOK, Bindings
  <2>5. refs' \in [Handles -> Nat] BY <1>3, <1>4 DEF TypeOK, Bindings
  <2>6. from \in Handles \cup {NoHandle} /\ used \subseteq Handles \cup {NoHandle}
    <3>1. \A u \in valid : obj[u].handle \in Handles BY DEF Inv, TypeOK, Object
    <3> QED BY <1>1, <3>1 DEF Creation
  <2>7. base' \in [Handles -> Handles \cup {NoHandle}] BY <1>3, <1>4, <2>6 DEF TypeOK, Bindings
  <2>8. uses' \in [Handles -> SUBSET Handles] BY <1>3, <1>4, <2>6 DEF TypeOK, Bindings
  <2>9. stack' \in Seq(Frame) /\ phase' \in {"open", "closing", "closed"}
    BY <1>3, <1>4 DEF TypeOK, Bindings
  <2> QED BY <2>1, <2>2, <2>3, <2>4, <2>5, <2>7, <2>8, <2>9 DEF TypeOK
<1>13. TreeMatchesValid'
  <2>1. ASSUME NEW u \in valid' PROVE tree'[obj'[u].handle] = u
    <3>1. CASE u \in valid
      <4>1. obj[u].handle \in Handles /\ tree[obj[u].handle] = u
        BY <3>1 DEF Inv, TypeOK, Object, TreeMatchesValid
      <4>2. obj[u].handle \notin B BY <1>7, <1>9, <3>1, <4>1
      <4> QED BY <1>3, <1>7, <3>1, <4>1, <4>2 DEF Bindings
    <3>2. CASE u \in N
      <4>1. PICK h \in B : tree'[h] = u /\ obj'[u] = new[h] BY <1>8, <3>2
      <4> QED BY <1>10, <4>1 DEF WellFormed
    <3> QED BY <1>5, <3>1, <3>2
  <2>2. ASSUME NEW h \in Handles, tree'[h] # NoUd
        PROVE  tree'[h] \in valid' /\ obj'[tree'[h]].handle = h
    <3>1. CASE h \in B
      BY <1>5, <1>9, <1>10, <3>1 DEF WellFormed
    <3>2. CASE h \notin B
      <4>1. tree'[h] = tree[h] BY <1>3, <3>2 DEF Bindings
      <4>2. tree[h] \in valid /\ obj[tree[h]].handle = h
        BY <2>2, <4>1 DEF Inv, TreeMatchesValid
      <4> QED BY <1>5, <1>7, <4>1, <4>2
    <3> QED BY <3>1, <3>2
  <2> QED BY <2>1, <2>2 DEF TreeMatchesValid
<1>14. ParentValid'
  <2>1. ASSUME NEW u \in valid', ParentTypes(obj'[u].type) # {}
        PROVE  obj'[u].parent \in valid /\ obj[obj'[u].parent].type \in ParentTypes(obj'[u].type)
    <3>1. CASE u \in valid BY <1>7, <2>1, <3>1 DEF Inv, ParentValid
    <3>2. CASE u \in N BY <1>8, <1>10, <2>1, <3>2 DEF WellFormed
    <3> QED BY <1>5, <3>1, <3>2
  <2> QED BY <1>5, <1>7, <2>1 DEF ParentValid
<1>15. ObjectInv'
  <2>1. ASSUME NEW u \in valid'
        PROVE  /\ ParentTypes(obj'[u].type) = {} => obj'[u].parent = NoUd
               /\ obj'[u].type = "subdevice" => obj'[u].parent \in hasSub'
               /\ obj'[u].type \in OwnedByParent =>
                    obj'[u].parent \in valid /\ obj'[u].owner = obj[obj'[u].parent].handle
    <3>1. \A t \in OwnedByParent : ParentTypes(t) # {}
      BY DEF OwnedByParent, ParentTypes, ContextChildren
    <3>2. CASE u \in valid
      <4>1. /\ ParentTypes(obj[u].type) = {} => obj[u].parent = NoUd
            /\ obj[u].type = "subdevice" => obj[u].parent \in hasSub
            /\ obj[u].type \in OwnedByParent => obj[u].owner = obj[obj[u].parent].handle
        BY <3>2 DEF Inv, ObjectInv
      <4>2. obj[u].type \in OwnedByParent => obj[u].parent \in valid
        BY <3>1, <3>2 DEF Inv, ParentValid
      <4> QED BY <1>3, <1>7, <3>2, <4>1, <4>2 DEF Bindings
    <3>3. CASE u \in N
      <4>1. PICK h \in B : obj'[u] = new[h] BY <1>8, <3>3
      <4>2. new[h].type = "subdevice" => new[h].parent \in Marked(new, B) BY DEF Marked
      <4>3. Marked(new, B) \subseteq hasSub' BY <1>3 DEF Bindings
      <4>4. WellFormed(new[h], h) BY <1>10
      <4>5. /\ ParentTypes(new[h].type) = {} => new[h].parent = NoUd
            /\ new[h].type \in OwnedByParent =>
                 new[h].parent \in valid /\ new[h].owner = obj[new[h].parent].handle
        BY <3>1, <4>4 DEF WellFormed
      <4> QED BY <4>1, <4>2, <4>3, <4>5
    <3> QED BY <1>5, <3>2, <3>3
  <2> QED BY <1>7, <2>1 DEF ObjectInv
<1>16. FramesInv' BY <1>2, <1>3 DEF FramesInv, Bindings
<1>17. ASSUME RefInv PROVE RefInv'
  <2>1. \A h \in Permanent : h \in Handles /\ refs'[h] = 1
    BY <1>3, <1>17, HandlesAssumption DEF RefInv, Permanent, Bindings
  <2>2. ASSUME NEW u \in valid'
        PROVE  /\ obj'[u].handle \in alive'
               /\ refs'[obj'[u].handle] > 0 \/ (CountImplicit /\ obj'[u].type \in Released)
    <3>1. CASE u \in valid
      <4>1. obj[u].handle \in Handles BY <3>1 DEF Inv, TypeOK, Object
      <4>2. /\ obj[u].handle \in alive
            /\ refs[obj[u].handle] > 0 \/ (CountImplicit /\ obj[u].type \in Released)
        BY <1>17, <3>1 DEF RefInv, BindingAlive
      <4>3. refs[obj[u].handle] > 0 => refs'[obj[u].handle] > 0
        BY <1>3, <4>1 DEF Bindings
      <4>4. obj[u].handle \in alive' BY <1>3, <4>2 DEF Bindings
      <4> QED BY <1>7, <3>1, <4>2, <4>3, <4>4
    <3>2. CASE u \in N
      <4>1. PICK h \in B : obj'[u] = new[h] BY <1>8, <3>2
      <4>2. obj'[u].handle = h /\ h \in H /\ h \in Handles BY <1>5, <1>10, <4>1 DEF WellFormed
      <4>3. refs'[h] = 1
        <5>1. CASE h \in Permanent BY <2>1, <5>1
        <5>2. CASE h \notin Permanent BY <1>3, <4>2, <5>2 DEF Bindings
        <5> QED BY <5>1, <5>2
      <4> QED BY <1>3, <4>2, <4>3 DEF Bindings
    <3> QED BY <1>5, <3>1, <3>2
  <2> QED BY <2>1, <2>2 DEF RefInv, BindingAlive
<1> QED BY <1>12, <1>13, <1>14, <1>15, <1>16, <1>17 DEF Inv, Kept

\* A valid object is the one its own handle finds.
LEMMA UDOf ==
  ASSUME Inv, NEW u \in valid
  PROVE  UD(obj[u].handle) = u /\ obj[u] \in Object /\ obj[u].handle \in Handles
         /\ obj[u].owner \in Handles \cup {0} /\ u \in Uds
  BY DEF Inv, TypeOK, TreeMatchesValid, Object, UD

\* The types of parents, class by class.
LEMMA ParentTypesOf ==
  /\ ParentTypes("platform") = {} /\ ParentTypes("hostmem") = {}
  /\ ParentTypes("device") = {"platform"} /\ ParentTypes("context") = {"platform"}
  /\ ParentTypes("subdevice") = {"device", "subdevice"}
  /\ ParentTypes("kernel") = {"program"} /\ ParentTypes("subbuffer") = {"buffer"}
  /\ \A t \in ContextChildren : ParentTypes(t) = {"context"}
  BY DEF ParentTypes, ContextChildren

\* A handle the driver can give to a new object.
LEMMA FreshHandle ==
  ASSUME NEW h \in FreshHandles
  PROVE  h \in Handles /\ h \notin Permanent /\ h \notin alive
  BY DEF FreshHandles

\* A new object under a parent of the right type, with the parent's handle as owner or
\* (sub devices and sub buffers) the parent's owner.
LEMMA NewUnder ==
  ASSUME Inv, NEW p \in valid, NEW t \in Types, NEW h \in Handles, NEW d \in Handles \cup {0},
         ParentTypes(t) # {}, obj[p].type \in ParentTypes(t), NEW o \in Handles \cup {0},
         t \in OwnedByParent => o = obj[p].handle,
         t \in {"subdevice", "subbuffer"} => o = obj[p].owner,
         IF h \in Permanent THEN tree[h] = NoUd ELSE h \notin alive,
         t \in MemTypes => h \notin Permanent
  PROVE  IsNew(New(t, h, p, o, d), h, p)
<1>1. p \in Uds BY UDOf
<1>2. New(t, h, p, o, d) \in Object BY <1>1 DEF New, Object
<1> QED BY <1>2 DEF New, WellFormed, IsNew

\* A new object without parent (platform, hostmem).
LEMMA NewRoot ==
  ASSUME NEW t \in {"platform", "hostmem"}, NEW h \in Handles,
         IF h \in Permanent THEN tree[h] = NoUd ELSE h \notin alive
  PROVE  IsNew(New(t, h, NoUd, NoHandle, NoHandle), h, NoUd)
<1>1. New(t, h, NoUd, NoHandle, NoHandle) \in Object BY DEF New, Object, Types
<1>2. t \notin OwnedByParent /\ t \notin MemTypes BY DEF OwnedByParent, ContextChildren, MemTypes
<1> QED BY <1>1, <1>2, ParentTypesOf DEF New, WellFormed, IsNew

\* A call of the script that creates new objects of this kind.
LEMMA CallCreates ==
  ASSUME Script, NEW new, NEW p \in valid \cup {NoUd}, NEW from, NEW used,
         CreateBindings(new, from, used),
         \A h \in DOMAIN new : IsNew(new[h], h, p),
         from = NoHandle \/ (p \in valid /\ from = obj[p].handle),
         \A o \in used : o = NoHandle \/ \E u \in valid : o = obj[u].handle,
         \A x, y \in used : x = y,
         p \in valid => (obj[p].type \in MemTypes => from = obj[p].handle /\ used = {})
  PROVE  Creates
  BY DEF Script, Idle, Creation, Creates

\* The platforms and devices that have no binding yet.
LEMMA UnboundPermanent ==
  ASSUME Inv, NEW h \in Permanent, UD(h) = NoUd
  PROVE  h \in Handles /\ tree[h] = NoUd
<1>1. h \in Handles BY HandlesAssumption DEF Permanent
<1> QED BY <1>1 DEF Inv, TreeMatchesValid, UD

\* get_platform_ids.
LEMMA GetPlatformsCreates == ASSUME Inv, GetPlatforms PROVE Creates
<1>1. PICK unbound : unbound = {h \in Platforms : UD(h) = NoUd} OBVIOUS
<1>2. PICK new : new = [h \in unbound |-> New("platform", h, NoUd, NoHandle, NoHandle)] OBVIOUS
<1>3. CreateBindings(new, NoHandle, {}) /\ Script
  BY <1>1, <1>2 DEF GetPlatforms
<1>4. \A h \in unbound : h \in Permanent /\ h \in Handles /\ tree[h] = NoUd
  BY <1>1, UnboundPermanent DEF Permanent
<1>5. \A h \in DOMAIN new : IsNew(new[h], h, NoUd) BY <1>2, <1>4, NewRoot
<1>6. NoUd \notin valid BY ParametersAssumption DEF Inv, TypeOK
<1> QED BY <1>3, <1>5, <1>6, CallCreates

\* malloc, aligned_alloc, hostmem.
LEMMA CreateHostmemCreates == ASSUME Inv, CreateHostmem PROVE Creates
<1>1. PICK h \in FreshHandles :
        CreateBindings([g \in {h} |-> New("hostmem", h, NoUd, NoHandle, NoHandle)], NoHandle, {})
  BY DEF CreateHostmem
<1>2. PICK new : new = [g \in {h} |-> New("hostmem", h, NoUd, NoHandle, NoHandle)] OBVIOUS
<1>3. CreateBindings(new, NoHandle, {}) /\ Script BY <1>1, <1>2 DEF CreateHostmem
<1>4. h \in Handles /\ h \notin Permanent /\ h \notin alive BY FreshHandle
<1>5. IsNew(New("hostmem", h, NoUd, NoHandle, NoHandle), h, NoUd) BY <1>4, NewRoot
<1>6. \A g \in DOMAIN new : IsNew(new[g], g, NoUd) BY <1>2, <1>5
<1>7. NoUd \notin valid BY ParametersAssumption DEF Inv, TypeOK
<1> QED BY <1>3, <1>6, <1>7, CallCreates

\* A root device that has no binding yet.
LEMMA NewDeviceIsNew ==
  ASSUME Inv, NEW p \in Args({"platform"}), NEW h \in UnboundDevices(p)
  PROVE  IsNew(NewDevice(p, h), h, p)
<1>1. p \in valid /\ obj[p].type = "platform" BY DEF Args
<1>2. h \in Permanent /\ h \in Handles /\ tree[h] = NoUd
  BY UnboundPermanent DEF UnboundDevices, Permanent
<1>3. UD(obj[p].handle) = p /\ obj[p].handle \in Handles BY <1>1, UDOf
<1>4. "device" \in Types /\ "device" \notin MemTypes BY DEF Types, MemTypes
<1> QED BY <1>1, <1>2, <1>3, <1>4, ParentTypesOf, NewUnder DEF NewDevice

\* get_device_ids.
LEMMA GetDevicesCreates == ASSUME Inv, NEW p \in Args({"platform"}), GetDevices(p) PROVE Creates
<1>1. PICK D \in SUBSET UnboundDevices(p) :
        CreateBindings([h \in D |-> NewDevice(p, h)], NoHandle, {})
  BY DEF GetDevices
<1>2. PICK new : new = [h \in D |-> NewDevice(p, h)] OBVIOUS
<1>3. CreateBindings(new, NoHandle, {}) /\ Script BY <1>1, <1>2 DEF GetDevices
<1>4. \A h \in DOMAIN new : IsNew(new[h], h, p) BY <1>2, NewDeviceIsNew
<1>5. p \in valid /\ obj[p].type \notin MemTypes BY DEF Args, MemTypes
<1> QED BY <1>3, <1>4, <1>5, CallCreates

\* create_context, with the devices it binds.
LEMMA CreateContextCreates ==
  ASSUME Inv, NEW p \in Args({"platform"}), CreateContext(p) PROVE Creates
<1>1. PICK c \in FreshHandles, D \in SUBSET UnboundDevices(p),
           d \in {obj[u].handle : u \in Args({"device", "subdevice"})} \cup {NoHandle} :
        CreateBindings([h \in D \cup {c} |->
                          IF h = c THEN New("context", c, UD(obj[p].handle), obj[p].handle, NoHandle)
                                   ELSE NewDevice(p, h)],
                       NoHandle, {d})
  BY DEF CreateContext
<1>2. PICK new : new = [h \in D \cup {c} |->
                   IF h = c THEN New("context", c, UD(obj[p].handle), obj[p].handle, NoHandle)
                            ELSE NewDevice(p, h)]
  OBVIOUS
<1>3. CreateBindings(new, NoHandle, {d}) /\ Script BY <1>1, <1>2 DEF CreateContext
<1>4. p \in valid /\ obj[p].type = "platform" /\ obj[p].type \notin MemTypes
  BY DEF Args, MemTypes
<1>5. UD(obj[p].handle) = p /\ obj[p].handle \in Handles BY <1>4, UDOf
<1>6. c \in Handles /\ c \notin Permanent /\ c \notin alive BY FreshHandle
<1>7. "context" \in Types BY DEF Types
<1>8. IsNew(New("context", c, UD(obj[p].handle), obj[p].handle, NoHandle), c, p)
  BY <1>4, <1>5, <1>6, <1>7, ParentTypesOf, NewUnder
<1>9. \A h \in DOMAIN new : IsNew(new[h], h, p) BY <1>2, <1>8, NewDeviceIsNew
<1>10. d = NoHandle \/ \E u \in valid : d = obj[u].handle BY DEF Args
<1> QED BY <1>3, <1>4, <1>9, <1>10, CallCreates

\* A new child of a context.
LEMMA CreateInContextCreates ==
  ASSUME Inv, NEW c \in Args({"context"}), NEW t \in ContextChildren,
         NEW o \in {NoHandle} \cup {obj[u].handle : u \in valid}, CreateInContext(c, t, o)
  PROVE  Creates
<1>1. PICK h \in FreshHandles :
        CreateBindings([g \in {h} |-> New(t, h, UD(obj[c].handle), obj[c].handle,
                                         IF t = "queue" THEN o ELSE NoHandle)],
                       obj[c].handle, {o})
  BY DEF CreateInContext
<1>2. c \in valid /\ obj[c].type = "context" /\ obj[c].type \notin MemTypes /\ Script
  BY DEF Args, CreateInContext, MemTypes
<1>3. UD(obj[c].handle) = c /\ obj[c].handle \in Handles BY <1>2, UDOf
<1>4. h \in Handles /\ h \notin Permanent /\ h \notin alive BY FreshHandle
<1>5. o \in Handles \cup {0} BY UDOf
<1>6. PICK d \in Handles \cup {0} : d = IF t = "queue" THEN o ELSE NoHandle BY <1>5
<1>7. PICK new : new = [g \in {h} |-> New(t, h, c, obj[c].handle, d)] OBVIOUS
<1>8. PICK from : from = obj[c].handle OBVIOUS
<1>9. CreateBindings(new, from, {o}) BY <1>1, <1>3, <1>6, <1>7, <1>8
<1>10. /\ t \in Types /\ t \notin {"subdevice", "subbuffer"}
       /\ ParentTypes(t) # {} /\ obj[c].type \in ParentTypes(t)
  BY <1>2, ParentTypesOf DEF ContextChildren, Types
<1>11. IsNew(New(t, h, c, obj[c].handle, d), h, c) BY <1>2, <1>3, <1>4, <1>10, NewUnder
<1>12. \A g \in DOMAIN new : IsNew(new[g], g, c) BY <1>7, <1>11
<1> QED BY <1>2, <1>8, <1>9, <1>12, CallCreates

\* Each of the calls that create a child of a context.
LEMMA CreateChildOfContextCreates ==
  ASSUME Inv, NEW c \in Args({"context"}),
         \/ CreateCommandQueue(c) \/ CreateProgram(c) \/ CreateUserEvent(c) \/ CreatePipe(c)
         \/ CreateBuffer(c) \/ CreateImage(c) \/ CreateSampler(c) \/ CreateSvm(c)
  PROVE  Creates
<1> DEFINE O == {NoHandle} \cup {obj[u].handle : u \in valid}
<1>1. {"queue", "program", "event", "pipe", "buffer", "image", "sampler", "svm"} \subseteq ContextChildren
  BY DEF ContextChildren
<1>2. CASE CreateCommandQueue(c)
  <2>1. PICK d \in Args({"device", "subdevice"}) : CreateInContext(c, "queue", obj[d].handle)
    BY <1>2 DEF CreateCommandQueue
  <2>2. obj[d].handle \in O BY DEF Args
  <2> QED BY <1>1, <2>1, <2>2, CreateInContextCreates
<1>3. CASE CreateImage(c)
  <2>1. PICK o \in {obj[b].handle : b \in Args({"buffer"})} \cup {NoHandle} :
          CreateInContext(c, "image", o)
    BY <1>3 DEF CreateImage
  <2>2. o \in O BY DEF Args
  <2> QED BY <1>1, <2>1, <2>2, CreateInContextCreates
<1>4. NoHandle \in O OBVIOUS
<1>5. CASE CreateProgram(c) BY <1>1, <1>4, <1>5, CreateInContextCreates DEF CreateProgram
<1>6. CASE CreateUserEvent(c) BY <1>1, <1>4, <1>6, CreateInContextCreates DEF CreateUserEvent
<1>7. CASE CreatePipe(c) BY <1>1, <1>4, <1>7, CreateInContextCreates DEF CreatePipe
<1>8. CASE CreateBuffer(c) BY <1>1, <1>4, <1>8, CreateInContextCreates DEF CreateBuffer
<1>9. CASE CreateSampler(c) BY <1>1, <1>4, <1>9, CreateInContextCreates DEF CreateSampler
<1>10. CASE CreateSvm(c) BY <1>1, <1>4, <1>10, CreateInContextCreates DEF CreateSvm
<1> QED BY <1>2, <1>3, <1>5, <1>6, <1>7, <1>8, <1>9, <1>10

\* create_sub_devices.
LEMMA CreateSubDevicesCreates ==
  ASSUME Inv, NEW d \in Args({"device", "subdevice"}), CreateSubDevices(d) PROVE Creates
<1>1. d \in valid /\ obj[d].type \in {"device", "subdevice"} /\ Script
  BY DEF Args, CreateSubDevices
<1>2. UD(obj[d].handle) = d /\ obj[d].handle \in Handles /\ obj[d].owner \in Handles \cup {0}
  BY <1>1, UDOf
<1>3. PICK B \in Batches :
        CreateBindings([h \in B |-> New("subdevice", h, d, obj[d].owner, NoHandle)], obj[d].handle, {})
  BY <1>2 DEF CreateSubDevices
<1>4. PICK new : new = [h \in B |-> New("subdevice", h, d, obj[d].owner, NoHandle)] OBVIOUS
<1>5. PICK from : from = obj[d].handle OBVIOUS
<1>6. CreateBindings(new, from, {}) BY <1>3, <1>4, <1>5
<1>7. "subdevice" \in Types /\ "subdevice" \notin OwnedByParent
  BY DEF Types, OwnedByParent, ContextChildren
<1>8. obj[d].type \in ParentTypes("subdevice") BY <1>1, ParentTypesOf
<1>9. \A h \in B : h \in Handles /\ h \notin Permanent /\ h \notin alive
  BY DEF Batches, FreshHandles
<1>10. \A h \in B : IsNew(New("subdevice", h, d, obj[d].owner, NoHandle), h, d)
  BY <1>1, <1>2, <1>7, <1>8, <1>9, NewUnder
<1>11. \A h \in DOMAIN new : IsNew(new[h], h, d) BY <1>4, <1>10
<1> QED BY <1>1, <1>5, <1>6, <1>11, CallCreates

\* create_buffer_region.
LEMMA CreateSubBufferCreates ==
  ASSUME Inv, NEW b \in Args({"buffer"}), CreateSubBuffer(b) PROVE Creates
<1>1. b \in valid /\ obj[b].type = "buffer" /\ Script BY DEF Args, CreateSubBuffer
<1>2. UD(obj[b].handle) = b /\ obj[b].handle \in Handles /\ obj[b].owner \in Handles \cup {0}
  BY <1>1, UDOf
<1>3. PICK h \in FreshHandles :
        CreateBindings([g \in {h} |-> New("subbuffer", h, b, obj[b].owner, NoHandle)], obj[b].handle, {})
  BY <1>2 DEF CreateSubBuffer
<1>4. PICK new : new = [g \in {h} |-> New("subbuffer", h, b, obj[b].owner, NoHandle)] OBVIOUS
<1>5. PICK from : from = obj[b].handle OBVIOUS
<1>6. CreateBindings(new, from, {}) BY <1>3, <1>4, <1>5
<1>7. h \in Handles /\ h \notin Permanent /\ h \notin alive BY FreshHandle
<1>8. "subbuffer" \in Types /\ "subbuffer" \notin OwnedByParent
  BY DEF Types, OwnedByParent, ContextChildren
<1>9. IsNew(New("subbuffer", h, b, obj[b].owner, NoHandle), h, b)
  BY <1>1, <1>2, <1>7, <1>8, ParentTypesOf, NewUnder
<1>10. \A g \in DOMAIN new : IsNew(new[g], g, b) BY <1>4, <1>9
<1> QED BY <1>1, <1>5, <1>6, <1>10, CallCreates

\* create_kernel, create_kernels_in_program.
LEMMA CreateKernelsCreates ==
  ASSUME Inv, NEW p \in Args({"program"}), CreateKernels(p) PROVE Creates
<1>1. p \in valid /\ obj[p].type = "program" /\ Script BY DEF Args, CreateKernels
<1>2. UD(obj[p].handle) = p /\ obj[p].handle \in Handles BY <1>1, UDOf
<1>3. PICK B \in Batches :
        CreateBindings([h \in B |-> New("kernel", h, p, obj[p].handle, NoHandle)], obj[p].handle, {})
  BY <1>2 DEF CreateKernels
<1>4. PICK new : new = [h \in B |-> New("kernel", h, p, obj[p].handle, NoHandle)] OBVIOUS
<1>5. PICK from : from = obj[p].handle OBVIOUS
<1>6. CreateBindings(new, from, {}) BY <1>3, <1>4, <1>5
<1>7. "kernel" \in Types BY DEF Types
<1>8. \A h \in B : h \in Handles /\ h \notin Permanent /\ h \notin alive
  BY DEF Batches, FreshHandles
<1>9. \A h \in B : IsNew(New("kernel", h, p, obj[p].handle, NoHandle), h, p)
  BY <1>1, <1>2, <1>7, <1>8, ParentTypesOf, NewUnder
<1>10. \A h \in DOMAIN new : IsNew(new[h], h, p) BY <1>4, <1>9
<1> QED BY <1>1, <1>5, <1>6, <1>10, CallCreates

\* The parent of a valid object with an owner is found from the stored handle.
LEMMA OwnerIsParent ==
  ASSUME Inv, NEW u \in valid, obj[u].type \in OwnedByParent
  PROVE  /\ obj[u].parent \in valid /\ obj[obj[u].parent].type \in ParentTypes(obj[u].type)
         /\ obj[u].owner = obj[obj[u].parent].handle /\ UD(obj[u].owner) = obj[u].parent
<1>1. ParentTypes(obj[u].type) # {} BY DEF OwnedByParent, ParentTypes, ContextChildren
<1>2. /\ obj[u].parent \in valid /\ obj[obj[u].parent].type \in ParentTypes(obj[u].type)
      /\ obj[u].owner = obj[obj[u].parent].handle
  BY <1>1 DEF Inv, ParentValid, ObjectInv
<1> QED BY <1>2, UDOf

\* clone_kernel: the handle the kernel stores still finds its program.
LEMMA CloneKernelCreates == ASSUME Inv, NEW k \in Args({"kernel"}), CloneKernel(k) PROVE Creates
<1>1. k \in valid /\ obj[k].type = "kernel" /\ Script BY DEF Args, CloneKernel
<1>2. PICK p : p = obj[k].parent OBVIOUS
<1>3. p \in valid /\ obj[p].type = "program" /\ obj[k].owner = obj[p].handle /\ UD(obj[k].owner) = p
  BY <1>1, <1>2, OwnerIsParent, ParentTypesOf DEF OwnedByParent
<1>4. PICK h \in FreshHandles :
        CreateBindings([g \in {h} |-> New("kernel", h, p, obj[p].handle, NoHandle)], obj[p].handle, {})
  BY <1>3 DEF CloneKernel
<1>5. PICK new : new = [g \in {h} |-> New("kernel", h, p, obj[p].handle, NoHandle)] OBVIOUS
<1>6. PICK from : from = obj[p].handle OBVIOUS
<1>7. CreateBindings(new, from, {}) BY <1>4, <1>5, <1>6
<1>8. obj[p].handle \in Handles /\ "kernel" \in Types BY <1>3, UDOf DEF Types
<1>9. h \in Handles /\ h \notin Permanent /\ h \notin alive BY FreshHandle
<1>10. IsNew(New("kernel", h, p, obj[p].handle, NoHandle), h, p)
  BY <1>3, <1>8, <1>9, ParentTypesOf, NewUnder
<1>11. \A g \in DOMAIN new : IsNew(new[g], g, p) BY <1>5, <1>10
<1> QED BY <1>1, <1>3, <1>6, <1>7, <1>11, CallCreates

\* The event of a command: the handle the queue stores still finds its context.
LEMMA EnqueueEventCreates == ASSUME Inv, NEW q \in Args({"queue"}), EnqueueEvent(q) PROVE Creates
<1>1. q \in valid /\ obj[q].type = "queue" /\ Script BY DEF Args, EnqueueEvent
<1>2. PICK c : c = obj[q].parent OBVIOUS
<1>3. c \in valid /\ obj[c].type = "context" /\ obj[q].owner = obj[c].handle /\ UD(obj[q].owner) = c
  <2>1. "queue" \in OwnedByParent /\ "queue" \in ContextChildren
    BY DEF OwnedByParent, ContextChildren
  <2> QED BY <1>1, <1>2, <2>1, OwnerIsParent, ParentTypesOf
<1>4. PICK h \in FreshHandles :
        CreateBindings([g \in {h} |-> New("event", h, c, obj[c].handle, NoHandle)], obj[c].handle, {})
  BY <1>3 DEF EnqueueEvent
<1>5. PICK new : new = [g \in {h} |-> New("event", h, c, obj[c].handle, NoHandle)] OBVIOUS
<1>6. PICK from : from = obj[c].handle OBVIOUS
<1>7. CreateBindings(new, from, {}) BY <1>4, <1>5, <1>6
<1>8. obj[c].handle \in Handles /\ "event" \in Types /\ "event" \in ContextChildren
  BY <1>3, UDOf DEF Types, ContextChildren
<1>9. h \in Handles /\ h \notin Permanent /\ h \notin alive BY FreshHandle
<1>10. IsNew(New("event", h, c, obj[c].handle, NoHandle), h, c)
  BY <1>3, <1>8, <1>9, ParentTypesOf, NewUnder
<1>11. \A g \in DOMAIN new : IsNew(new[g], g, c) BY <1>5, <1>10
<1> QED BY <1>1, <1>3, <1>6, <1>7, <1>11, CallCreates

\* Every call that creates objects.
LEMMA CreateCreates == ASSUME Inv, Create PROVE Creates
<1>1. CASE GetPlatforms BY <1>1, GetPlatformsCreates
<1>2. CASE CreateHostmem BY <1>2, CreateHostmemCreates
<1>3. ASSUME NEW p \in Args({"platform"}), GetDevices(p) \/ CreateContext(p) PROVE Creates
  BY <1>3, GetDevicesCreates, CreateContextCreates
<1>4. ASSUME NEW d \in Args({"device", "subdevice"}), CreateSubDevices(d) PROVE Creates
  BY <1>4, CreateSubDevicesCreates
<1>5. ASSUME NEW c \in Args({"context"}),
             \/ CreateCommandQueue(c) \/ CreateProgram(c) \/ CreateUserEvent(c) \/ CreatePipe(c)
             \/ CreateBuffer(c) \/ CreateImage(c) \/ CreateSampler(c) \/ CreateSvm(c)
      PROVE  Creates
  BY <1>5, CreateChildOfContextCreates
<1>6. ASSUME NEW q \in Args({"queue"}), EnqueueEvent(q) PROVE Creates
  BY <1>6, EnqueueEventCreates
<1>7. ASSUME NEW p \in Args({"program"}), CreateKernels(p) PROVE Creates
  BY <1>7, CreateKernelsCreates
<1>8. ASSUME NEW k \in Args({"kernel"}), CloneKernel(k) PROVE Creates
  BY <1>8, CloneKernelCreates
<1>9. ASSUME NEW b \in Args({"buffer"}), CreateSubBuffer(b) PROVE Creates
  BY <1>9, CreateSubBufferCreates
<1> QED BY <1>1, <1>2, <1>3, <1>4, <1>5, <1>6, <1>7, <1>8, <1>9 DEF Create

-----------------------------------------------------------------------------
\* The invariant holds initially.
LEMMA InitInv == Init => Inv
<1> SUFFICES ASSUME Init PROVE Inv OBVIOUS
<1>1. valid = {} /\ stack = <<>> /\ DOMAIN stack = {} BY DEF Init, valid
<1>2. obj \in [valid -> Object] BY <1>1 DEF Init
<1>3. Permanent \subseteq Handles BY HandlesAssumption DEF Permanent
<1>4. TypeOK BY <1>1, <1>2, <1>3 DEF Init, TypeOK
<1>5. TreeMatchesValid BY <1>1 DEF Init, TreeMatchesValid
<1> QED BY <1>1, <1>4, <1>5 DEF Inv, ParentValid, ObjectInv, FramesInv

\* Every step preserves the invariant.
LEMMA NextInv == Inv /\ [Next]_vars => Inv'
<1> SUFFICES ASSUME Inv, [Next]_vars PROVE Inv' OBVIOUS
<1>1. CASE Create BY <1>1, CreateCreates, CreationInv DEF Kept
<1>2. ASSUME NEW u \in valid, Delete(u) PROVE Inv' BY <1>2, DeleteInv
<1>3. ASSUME NEW u \in Args(Released), Retain(u) \/ Release(u) PROVE Inv'
  BY <1>3, RetainInv, ReleaseInv DEF Args
<1>4. ASSUME NEW u \in mem \ valid, Collect(u) PROVE Inv' BY <1>4, CollectInv
<1>5. CASE Destructor BY <1>5, DestructorInv
<1>6. CASE Close \/ Closed BY <1>6, CloseInv
<1>7. CASE UNCHANGED vars
  <2>1. UNCHANGED <<mem, obj, hasSub, tree, alive, refs, base, uses, stack, phase>> BY <1>7 DEF vars
  <2>2. TypeOK' BY <2>1 DEF Inv, TypeOK, valid
  <2> QED BY <2>1, <2>2, CountsInv
<1> QED BY <1>1, <1>2, <1>3, <1>4, <1>5, <1>6, <1>7 DEF Next

\* The invariant of the object layer.
THEOREM Invariance == Spec => []Inv
  BY InitInv, NextInv, PTL DEF Spec

\* Every variable keeps its type.
THEOREM TypeCorrect == Spec => []TypeOK
<1>1. Inv => TypeOK BY DEF Inv
<1> QED BY <1>1, Invariance, PTL

\* No binding outlives its parent's: the destructors free an object after its children.
THEOREM ParentsStayValid == Spec => []ParentValid
<1>1. Inv => ParentValid BY DEF Inv
<1> QED BY <1>1, Invariance, PTL

\* The udata tree finds the valid objects, all of them and nothing else.
THEOREM TreeIsSound == Spec => []TreeMatchesValid
<1>1. Inv => TreeMatchesValid BY DEF Inv
<1> QED BY <1>1, Invariance, PTL

-----------------------------------------------------------------------------
(***************************************************************************)
(* The references that the application holds on the driver's objects.      *)
(***************************************************************************)
\* The object a destructor that has freed its binding releases has no binding.
LEMMA TopUnbound ==
  ASSUME Inv, stack # <<>>, Top.ud \notin valid, NEW u \in valid
  PROVE  obj[u].handle # Top.handle /\ obj[u].handle # Top.callback
<1>1. stack \in Seq(Frame) BY DEF Inv, TypeOK
<1>2. Len(stack) \in DOMAIN stack /\ Top = stack[Len(stack)] BY <1>1, TopFacts
<1>3. FrameInv(Len(stack)) BY <1>2 DEF Inv, FramesInv
<1>4. tree[Top.handle] = NoUd /\ (Top.callback # NoHandle => Top.callback = Top.handle)
  BY <1>2, <1>3 DEF FrameInv
<1>5. obj[u].handle \in Handles /\ tree[obj[u].handle] = u /\ u # NoUd
  BY ParametersAssumption DEF Inv, TypeOK, Object, TreeMatchesValid
<1> QED BY <1>4, <1>5, HandlesAreNat

\* RefInv needs only the objects, the references and what is alive.
LEMMA RefInvKept ==
  ASSUME RefInv, UNCHANGED <<obj, alive, refs>>
  PROVE  RefInv'
  BY DEF RefInv, BindingAlive, valid

\* The return of a destructor keeps the invariant on references.
LEMMA ReturnRefs ==
  ASSUME Inv, RefInv, stack # <<>>, Top.ud \notin valid, Return, UNCHANGED obj
  PROVE  RefInv'
<1>1. alive' = alive \ {Top.callback} /\ UNCHANGED refs BY DEF Return, Destroyed
<1>2. \A u \in valid : obj[u].handle # Top.callback BY TopUnbound
<1> QED BY <1>1, <1>2 DEF RefInv, BindingAlive, valid

\* freeuserdata removes the only binding the references are for.
LEMMA FreeUserdataRefs == ASSUME Inv, RefInv, FreeUserdata PROVE RefInv'
<1>1. CASE Top.ud \notin valid
  BY <1>1, ReturnRefs DEF FreeUserdata, Running
<1>2. CASE Top.ud \in valid
  <2>1. obj' = [u \in valid \ {Top.ud} |-> obj[u]] /\ UNCHANGED <<alive, refs>>
    BY <1>2 DEF FreeUserdata, clVars
  <2>2. \A u \in DOMAIN obj' : u \in valid /\ obj'[u] = obj[u] BY <2>1
  <2> QED BY <2>1, <2>2 DEF RefInv, BindingAlive, valid
<1> QED BY <1>1, <1>2

\* ReleaseAll drops the references of an object that has no binding any more.
LEMMA ReleaseAllRefs == ASSUME Inv, RefInv, ReleaseAll PROVE RefInv'
<1>1. /\ stack # <<>> /\ Top.pc = "release"
      /\ refs' = IF Top.handle \in Permanent THEN refs ELSE [refs EXCEPT ![Top.handle] = 0]
      /\ alive' = alive \ {Top.handle} \/ alive' = alive
      /\ UNCHANGED obj
  BY DEF ReleaseAll, Running, Destroyed, udVars
<1>2. stack \in Seq(Frame) BY DEF Inv, TypeOK
<1>3. Top.ud \notin valid
  <2>1. Len(stack) \in DOMAIN stack /\ Top = stack[Len(stack)] BY <1>1, <1>2, TopFacts
  <2>2. FrameInv(Len(stack)) BY <2>1 DEF Inv, FramesInv
  <2> QED BY <1>1, <2>1, <2>2 DEF FrameInv
<1>4. \A u \in valid : obj[u].handle # Top.handle /\ obj[u].handle \in Handles
  BY <1>1, <1>3, TopUnbound DEF Inv, TypeOK, Object
<1>5. \A h \in Handles : h # Top.handle => refs'[h] = refs[h] BY <1>1 DEF Inv, TypeOK
<1>6. \A h \in Permanent : refs'[h] = refs[h]
  BY <1>1, <1>5, HandlesAssumption DEF Permanent
<1> QED BY <1>1, <1>4, <1>5, <1>6 DEF RefInv, BindingAlive, valid

\* The return of a destructor, or of DestructorCallback.
LEMMA DestructorReturnsRefs == ASSUME Inv, RefInv, DestructorReturns PROVE RefInv'
<1>1. stack # <<>> /\ Top.pc = "return" /\ Return /\ UNCHANGED obj
  BY DEF DestructorReturns, Running, udVars
<1>2. stack \in Seq(Frame) BY DEF Inv, TypeOK
<1>3. Top.ud \notin valid
  <2>1. Len(stack) \in DOMAIN stack /\ Top = stack[Len(stack)] BY <1>1, <1>2, TopFacts
  <2>2. FrameInv(Len(stack)) BY <2>1 DEF Inv, FramesInv
  <2> QED BY <1>1, <2>1, <2>2 DEF FrameInv
<1> QED BY <1>1, <1>3, ReturnRefs

\* The driver frees an object without reference; if it is still bound, its
\* DestructorCallback comes first.
LEMMA DriverDestroysRefs ==
  ASSUME ReleasesTracked, Inv, RefInv, NEW h \in Handles, DriverDestroys(h) PROVE RefInv'
<1>1. refs[h] = 0 /\ UNCHANGED <<obj, refs>> BY DEF DriverDestroys, Dying, udVars
<1>2. CASE tree[h] \in valid /\ obj[tree[h]].type \in MemTypes
  BY <1>1, <1>2, RefInvKept DEF DriverDestroys
<1>3. CASE ~(tree[h] \in valid /\ obj[tree[h]].type \in MemTypes)
  <2>1. alive' = alive \ {h} BY <1>3 DEF DriverDestroys, Destroyed
  <2>2. ASSUME NEW u \in valid, obj[u].handle = h PROVE FALSE
    <3>1. tree[h] = u BY <2>2 DEF Inv, TreeMatchesValid
    <3>2. obj[u].type \in MemTypes BY <1>1, <2>2 DEF RefInv, ReleasesTracked
    <3> QED BY <1>3, <3>1, <3>2
  <2> QED BY <1>1, <2>1, <2>2 DEF RefInv, BindingAlive, valid
<1> QED BY <1>2, <1>3

\* retain_xxx adds a reference.
LEMMA RetainRefs == ASSUME Inv, RefInv, NEW u \in valid, Retain(u) PROVE RefInv'
<1>1. /\ refs' = [refs EXCEPT ![obj[u].handle] = @ + 1] /\ obj[u].handle \notin Permanent
      /\ UNCHANGED <<obj, alive>>
  BY DEF Retain, udVars
<1>2. refs \in [Handles -> Nat] /\ \A v \in valid : obj[v].handle \in Handles
  BY DEF Inv, TypeOK, Object
<1>3. \A h \in Handles : refs[h] \in Nat /\ refs'[h] = IF h = obj[u].handle THEN refs[h] + 1 ELSE refs[h]
  BY <1>1, <1>2
<1>4. \A v \in valid : refs'[obj[v].handle] > 0 \/ (CountImplicit /\ obj[v].type \in Released)
  BY <1>2, <1>3 DEF RefInv
<1>5. \A h \in Permanent : refs'[h] = 1
  BY <1>1, <1>3, HandlesAssumption DEF RefInv, Permanent
<1> QED BY <1>1, <1>4, <1>5 DEF RefInv, BindingAlive, valid

\* release_xxx drops the last reference only if the count includes others: else the
\* destructor does.
LEMMA ReleaseRefs ==
  ASSUME Inv, RefInv, NEW u \in valid, obj[u].type \in Released, Release(u) PROVE RefInv'
<1>1. CASE ReferenceCount(obj[u].handle) = 1
  BY <1>1, RefInvKept DEF Release, udVars
<1>2. CASE ReferenceCount(obj[u].handle) # 1
  <2>1. PICK h : h = obj[u].handle OBVIOUS
  <2>2. /\ refs' = [refs EXCEPT ![h] = @ - 1] /\ h \in alive /\ refs[h] > 0
        /\ UNCHANGED <<obj, alive>>
    BY <1>2, <2>1 DEF Release, udVars
  <2>3. refs \in [Handles -> Nat] /\ h \in Handles /\ \A v \in valid : obj[v].handle \in Handles
    BY <2>1 DEF Inv, TypeOK, Object
  <2>4. h \notin Permanent /\ (~CountImplicit => refs[h] # 1)
    BY <1>2, <2>1, <2>2, <2>3 DEF ReferenceCount
  <2>5. \A g \in Handles : refs[g] \in Nat /\ refs'[g] = IF g = h THEN refs[g] - 1 ELSE refs[g]
    BY <2>2, <2>3
  <2>6. ASSUME NEW v \in valid
        PROVE  refs'[obj[v].handle] > 0 \/ (CountImplicit /\ obj[v].type \in Released)
    <3>1. CASE obj[v].handle = h
      <4>1. v = u BY <2>1, <3>1 DEF Inv, TreeMatchesValid
      <4> QED BY <2>2, <2>3, <2>4, <2>5, <3>1, <4>1, ParametersAssumption
    <3>2. CASE obj[v].handle # h BY <2>3, <2>5, <3>2 DEF RefInv
    <3> QED BY <3>1, <3>2
  <2>7. \A g \in Permanent : refs'[g] = 1
    BY <2>4, <2>5, HandlesAssumption DEF RefInv, Permanent
  <2> QED BY <2>2, <2>6, <2>7 DEF RefInv, BindingAlive, valid
<1> QED BY <1>1, <1>2

\* Every step preserves the invariant on references.
LEMMA NextRefs == ASSUME ReleasesTracked, Inv, RefInv, [Next]_vars PROVE RefInv'
<1>1. CASE Create BY <1>1, CreateCreates, CreationInv DEF Kept
<1>2. ASSUME NEW u \in valid, Delete(u) PROVE RefInv'
  BY <1>2, RefInvKept DEF Delete, udVars, clVars
<1>3. ASSUME NEW u \in Args(Released), Retain(u) \/ Release(u) PROVE RefInv'
  <2>1. u \in valid /\ obj[u].type \in Released BY DEF Args
  <2> QED BY <1>3, <2>1, RetainRefs, ReleaseRefs
<1>4. ASSUME NEW u \in mem \ valid, Collect(u) PROVE RefInv'
  BY <1>4, RefInvKept DEF Collect, clVars
<1>5. CASE Destructor
  <2>1. CASE ScanObject \/ EndScan
    BY <2>1, RefInvKept DEF ScanObject, EndScan, udVars, clVars
  <2> QED BY <1>5, <2>1, FreeUserdataRefs, ReleaseAllRefs, DestructorReturnsRefs,
             DriverDestroysRefs DEF Destructor
<1>6. CASE Close \/ Closed
  BY <1>6, RefInvKept DEF Close, Closed, udVars, clVars
<1>7. CASE UNCHANGED vars BY <1>7, RefInvKept DEF vars
<1> QED BY <1>1, <1>2, <1>3, <1>4, <1>5, <1>6, <1>7 DEF Next

\* Initially there is no binding.
LEMMA InitRefs == Init => RefInv
  BY HandlesAssumption DEF Init, RefInv, BindingAlive, valid, Permanent

\* A valid binding is that of a driver object that exists, also where the script releases
\* mem objects by a count that includes the references of others: the DestructorCallback
\* invalidates the binding when the driver destroys the object.
THEOREM BindingsAreAlive == ASSUME ReleasesTracked PROVE Spec => []BindingAlive
<1>1. Inv /\ RefInv /\ [Next]_vars => RefInv' BY NextRefs
<1>2. RefInv => BindingAlive BY DEF RefInv
<1> QED BY <1>1, <1>2, InitRefs, Invariance, PTL DEF Spec

\* With a driver whose reference count is the application's, or a script that deletes its
\* objects instead, an object the script has released entirely has no valid binding.
THEOREM ReleasedAreInvalid == ASSUME OwnCounts PROVE Spec => []ReleasedInvalid
<1>1. ReleasesTracked BY DEF OwnCounts, ReleasesTracked
<1>2. Inv /\ RefInv /\ [Next]_vars => RefInv' BY <1>1, NextRefs
<1>3. RefInv => ReleasedInvalid BY DEF RefInv, OwnCounts, ReleasedInvalid
<1> QED BY <1>2, <1>3, InitRefs, Invariance, PTL DEF Spec

-----------------------------------------------------------------------------
(***************************************************************************)
(* The handles stored in the bindings.                                     *)
(***************************************************************************)
\* freeuserdata removes the binding r, which has no children left.
Removed(r) ==
  /\ r \in valid /\ obj' = [u \in valid \ {r} |-> obj[u]]
  /\ \A v \in valid : obj[v].parent # r

\* What a step does to the bindings.
LEMMA StepOfBindings ==
  ASSUME Inv, [Next]_vars
  PROVE  Creates \/ (\E r \in valid : Removed(r)) \/ UNCHANGED obj
<1>1. CASE Create BY <1>1, CreateCreates
<1>2. CASE FreeUserdata
  <2>1. CASE Top.ud \in valid
    <3>1. PICK r : r = Top.ud OBVIOUS
    <3>2. obj' = [u \in valid \ {r} |-> obj[u]] /\ Running("scan") /\ ~Scanning
      BY <1>2, <2>1, <3>1 DEF FreeUserdata
    <3>3. \A v \in valid : obj[v].parent # r BY <2>1, <3>1, <3>2, NoChildLeft
    <3> QED BY <2>1, <3>1, <3>2, <3>3 DEF Removed
  <2> QED BY <1>2, <2>1 DEF FreeUserdata
<1>3. CASE Destructor
  BY <1>2, <1>3 DEF Destructor, ScanObject, EndScan, ReleaseAll, DestructorReturns,
                    DriverDestroys, udVars
<1>4. ASSUME NEW u, Delete(u) \/ Retain(u) \/ Release(u) \/ Collect(u) PROVE UNCHANGED obj
  BY <1>4 DEF Delete, Retain, Release, Collect, udVars
<1>5. CASE Close \/ Closed \/ UNCHANGED vars
  BY <1>5 DEF Close, Closed, udVars, vars
<1> QED BY <1>1, <1>3, <1>4, <1>5 DEF Next

\* A sub device stores the platform of its parent device, a sub buffer the context of its
\* buffer.
OwnerInv ==
  \A u \in valid :
    /\ ParentTypes(obj[u].type) = {} => obj[u].owner = NoHandle
    /\ obj[u].type \in {"subdevice", "subbuffer"} => obj[u].owner = obj[obj[u].parent].owner

\* The parents of valid objects never form a loop, though the addresses of userdata are
\* used again.
NoLoop == \A S \in SUBSET valid : S # {} => \E u \in S : obj[u].parent \notin S

LEMMA NextOwners == ASSUME Inv, OwnerInv, NoLoop, [Next]_vars PROVE OwnerInv' /\ NoLoop'
<1>1. CASE UNCHANGED obj BY <1>1 DEF OwnerInv, NoLoop, valid
<1>2. ASSUME NEW r \in valid, Removed(r) PROVE OwnerInv' /\ NoLoop'
  <2>1. valid' = valid \ {r} /\ \A u \in valid' : obj'[u] = obj[u] /\ obj[u].parent # r
    BY <1>2 DEF Removed, valid
  <2>2. \A u \in valid : ParentTypes(obj[u].type) # {} => obj[u].parent \in valid
    BY DEF Inv, ParentValid
  <2>3. ParentTypes("subdevice") # {} /\ ParentTypes("subbuffer") # {} BY ParentTypesOf
  <2>4. OwnerInv'
    <3>1. ASSUME NEW u \in valid',
                 obj[u].type \in {"subdevice", "subbuffer"}
          PROVE  obj[u].owner = obj'[obj[u].parent].owner
      <4>1. u \in valid /\ obj[u].parent \in valid' BY <2>1, <2>2, <2>3, <3>1
      <4> QED BY <2>1, <3>1, <4>1 DEF OwnerInv
    <3> QED BY <2>1, <3>1 DEF OwnerInv
  <2>5. NoLoop'
    <3>1. ASSUME NEW S \in SUBSET valid', S # {} PROVE \E u \in S : obj'[u].parent \notin S
      <4>1. PICK u \in S : obj[u].parent \notin S BY <2>1, <3>1 DEF NoLoop
      <4> QED BY <2>1, <4>1
    <3> QED BY <3>1 DEF NoLoop
  <2> QED BY <2>4, <2>5
<1>3. CASE Creates
  <2>1. PICK new, p, from, used : Creation(new, p, from, used) BY <1>3 DEF Creates
  <2>2. DOMAIN new \subseteq Handles /\ \A h \in DOMAIN new : IsNew(new[h], h, p)
    BY <2>1 DEF Creation, IsNew
  <2>3. PICK B, N : Bindings(new, from, used, B, N)
    BY <2>1, <2>2, CreateBindingsFacts DEF Creation
  <2>4. valid' = valid \cup N /\ \A u \in valid : u \notin N /\ obj'[u] = obj[u]
    BY <2>3 DEF Bindings
  <2>5. ASSUME NEW u \in N
        PROVE  /\ obj'[u].parent = p
               /\ ParentTypes(obj'[u].type) = {} => obj'[u].owner = NoHandle
               /\ obj'[u].type \in {"subdevice", "subbuffer"} =>
                    p \in valid /\ obj'[u].owner = obj[p].owner
    <3>1. PICK h \in B : obj'[u] = new[h] BY <2>3 DEF Bindings
    <3>2. h \in DOMAIN new BY <2>3 DEF Bindings
    <3>3. WellFormed(new[h], h) /\ new[h].parent = p BY <2>2, <3>2 DEF IsNew
    <3> QED BY <3>1, <3>3, ParentTypesOf DEF WellFormed
  <2>6. ASSUME NEW u \in valid
        PROVE  obj[u].parent \in valid \cup {NoUd}
    <3>1. CASE ParentTypes(obj[u].type) = {} BY <3>1 DEF Inv, ObjectInv
    <3>2. CASE ParentTypes(obj[u].type) # {} BY <3>2 DEF Inv, ParentValid
    <3> QED BY <3>1, <3>2
  <2>7. NoUd \notin valid' BY CreationInv, <1>3, ParametersAssumption DEF Kept, Inv, TypeOK
  <2>8. OwnerInv'
    <3>1. ASSUME NEW u \in valid', obj'[u].type \in {"subdevice", "subbuffer"}
          PROVE  obj'[u].owner = obj'[obj'[u].parent].owner
      <4>1. CASE u \in valid
        <5>1. obj[u].parent \in valid BY <2>4, <3>1, <4>1, ParentTypesOf DEF Inv, ParentValid
        <5> QED BY <2>4, <3>1, <4>1, <5>1 DEF OwnerInv
      <4>2. CASE u \in N BY <2>4, <2>5, <3>1, <4>2
      <4> QED BY <2>4, <4>1, <4>2
    <3>2. ASSUME NEW u \in valid', ParentTypes(obj'[u].type) = {} PROVE obj'[u].owner = NoHandle
      BY <2>4, <2>5, <3>2 DEF OwnerInv
    <3> QED BY <3>1, <3>2 DEF OwnerInv
  <2>9. NoLoop'
    <3>1. ASSUME NEW S \in SUBSET valid', S # {} PROVE \E u \in S : obj'[u].parent \notin S
      <4>1. CASE S \cap valid # {}
        <5>1. PICK u \in S \cap valid : obj[u].parent \notin S \cap valid BY <4>1 DEF NoLoop
        <5> QED BY <2>4, <2>6, <2>7, <5>1
      <4>2. CASE S \cap valid = {}
        <5>1. PICK u \in S : u \in N BY <2>4, <3>1, <4>2
        <5>2. p \in valid \cup {NoUd} BY <2>1 DEF Creation
        <5> QED BY <2>5, <2>7, <4>2, <5>1, <5>2
      <4> QED BY <4>1, <4>2
    <3> QED BY <3>1 DEF NoLoop
  <2> QED BY <2>8, <2>9
<1> QED BY <1>1, <1>2, <1>3, StepOfBindings

\* Sub devices have a root device above them, and it has their platform.
LEMMA OwnerFound ==
  ASSUME Inv, OwnerInv, NoLoop, NEW u \in valid, obj[u].owner # NoHandle
  PROVE  UD(obj[u].owner) # NoUd /\ obj[UD(obj[u].owner)].type = OwnerType(obj[u].type)
<1>1. obj[u].type \in Types /\ NoUd \notin valid
  BY ParametersAssumption DEF Inv, TypeOK, Object
<1>2. ASSUME NEW v \in valid, obj[v].type \in OwnedByParent
      PROVE  /\ UD(obj[v].owner) \in valid
             /\ obj[UD(obj[v].owner)].type \in ParentTypes(obj[v].type)
  BY <1>2, OwnerIsParent
<1>3. CASE obj[u].type \in OwnedByParent
  <2>1. ParentTypes(obj[u].type) = {OwnerType(obj[u].type)}
    BY <1>3, ParentTypesOf DEF OwnedByParent, OwnerType, ContextChildren
  <2> QED BY <1>1, <1>2, <1>3, <2>1
<1>4. CASE obj[u].type = "subbuffer"
  <2>1. PICK b : b = obj[u].parent OBVIOUS
  <2>2. b \in valid /\ obj[b].type = "buffer" /\ obj[u].owner = obj[b].owner
    BY <1>4, <2>1, ParentTypesOf DEF Inv, ParentValid, OwnerInv
  <2>3. "buffer" \in ContextChildren /\ "buffer" \in OwnedByParent
    BY DEF ContextChildren, OwnedByParent
  <2> QED BY <1>1, <1>2, <1>4, <2>2, <2>3, ParentTypesOf DEF OwnerType
<1>5. CASE obj[u].type = "subdevice"
  <2>1. PICK S : S = {v \in valid : obj[v].type \in {"device", "subdevice"}
                                    /\ obj[v].owner = obj[u].owner}
    OBVIOUS
  <2>2. PICK v \in S : obj[v].parent \notin S BY <1>5, <2>1 DEF NoLoop
  <2>3. obj[v].type = "device"
    <3>1. SUFFICES ASSUME obj[v].type = "subdevice" PROVE FALSE BY <2>1
    <3>2. /\ obj[v].parent \in valid /\ obj[obj[v].parent].type \in {"device", "subdevice"}
          /\ obj[v].owner = obj[obj[v].parent].owner
      BY <2>1, <3>1, ParentTypesOf DEF Inv, ParentValid, OwnerInv
    <3> QED BY <2>1, <2>2, <3>2
  <2>4. obj[v].owner = obj[u].owner /\ v \in valid /\ "device" \in OwnedByParent
    BY <2>1 DEF OwnedByParent
  <2> QED BY <1>1, <1>2, <1>5, <2>3, <2>4, ParentTypesOf DEF OwnerType
<1>6. CASE obj[u].type \in {"platform", "hostmem"} BY <1>6, ParentTypesOf DEF OwnerInv
<1> QED BY <1>1, <1>3, <1>4, <1>5, <1>6 DEF Types, OwnedByParent, ContextChildren

\* The platform, context or program handle stored in a valid object finds the object it
\* was taken from: no object outlives the one whose handle it stores.
THEOREM OwnersResolve == Spec => []OwnerResolves
<1>1. Init => OwnerInv /\ NoLoop BY DEF Init, OwnerInv, NoLoop, valid
<1>2. Inv /\ OwnerInv /\ NoLoop /\ [Next]_vars => OwnerInv' /\ NoLoop' BY NextOwners
<1>3. Inv /\ OwnerInv /\ NoLoop => OwnerResolves BY OwnerFound DEF OwnerResolves
<1> QED BY <1>1, <1>2, <1>3, Invariance, PTL DEF Spec
=============================================================================
