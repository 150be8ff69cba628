------------------------------- MODULE Objects -------------------------------
(***************************************************************************)
(* The MoonCL object layer: the bindings (Lua userdata, ud_t) of OpenCL    *)
(* objects, the udata tree that finds a binding from its handle, and the   *)
(* destructors that delete an object after all its children.               *)
(*                                                                         *)
(* A destructor is a recursive C function: it scans the udata tree once    *)
(* per class of children (udata_scan), and calls the destructor of each    *)
(* child it meets while the scan is in progress.  The recursion is modelled *)
(* by a stack of frames, one step per iteration of a scan, because the     *)
(* OpenCL driver may call back into it (DestructorCallback) in the middle. *)
(*                                                                         *)
(* The driver is external.  It keeps an object alive while the application *)
(* has references to it or a live object uses it, and reports a reference  *)
(* count that, depending on the implementation (CountImplicit), includes   *)
(* the references of the objects that use it.                              *)
(*                                                                         *)
(* A definition called "X without ..." or the like, before one called X,    *)
(* is a mutant: X as a plausible slip would have it.  Nothing uses it.      *)
(***************************************************************************)
EXTENDS Integers, Sequences, FiniteSets

CONSTANTS
  Handles,       (* addresses the driver and malloc give to objects          *)
  Platforms,     (* handles of the platforms                                 *)
  RootDevices,   (* handles of the devices the platforms come with           *)
  PlatformOf,    (* the platform of each root device                         *)
  Uds,           (* addresses Lua gives to userdata                          *)
  NoUd,          (* the NULL ud_t pointer                                    *)
  Created,       (* types of the objects the script creates                  *)
  Released,      (* types whose retain_xxx and release_xxx the script calls  *)
  MaxRefs,       (* bound: references the application holds on an object     *)
  MaxBatch,      (* bound: objects that one call creates                     *)
  CountImplicit, (* does the driver count the references of its own objects? *)
  AllocMayFail   (* may the allocations of udata_new fail?                   *)

Permanent == Platforms \cup RootDevices

ASSUME HandlesAssumption ==
  /\ Handles \subseteq Nat \ {0} /\ IsFiniteSet(Handles)
  /\ Platforms \subseteq Handles /\ RootDevices \subseteq Handles
  /\ Platforms \cap RootDevices = {}
  /\ PlatformOf \in [RootDevices -> Platforms]

ASSUME ParametersAssumption ==
  /\ NoUd \notin Uds
  /\ MaxRefs \in Nat \ {0} /\ MaxBatch \in Nat \ {0}
  /\ CountImplicit \in BOOLEAN /\ AllocMayFail \in BOOLEAN

Types == {"platform", "device", "subdevice", "context", "queue", "program",
          "kernel", "event", "pipe", "image", "buffer", "subbuffer", "sampler",
          "svm", "hostmem"}
ContextChildren == {"queue", "program", "event", "pipe", "image", "buffer",
                    "sampler", "svm"}
MemTypes == {"pipe", "image", "buffer", "subbuffer"}

\* The metatable of an object: sub devices and sub buffers share their parents'.
Mt(t) == CASE t = "subdevice" -> "device"
           [] t = "subbuffer" -> "buffer"
           [] OTHER -> t

\* The types an object's parent may have.
ParentTypes(t) ==
  CASE t \in {"device", "context"} -> {"platform"}
    [] t = "subdevice"             -> {"device", "subdevice"}
    [] t = "kernel"                -> {"program"}
    [] t = "subbuffer"             -> {"buffer"}
    [] t \in ContextChildren       -> {"context"}
    [] OTHER                       -> {}

\* freecontext forgets the events, freebuffer the sub buffers, freeplatform the devices.
ScanOrderWithoutEvents(t) ==
  CASE t = "platform" -> <<"context", "device">>
    [] t = "context"  -> <<"queue", "program", "pipe", "image", "buffer", "sampler", "svm">>
    [] t = "program"  -> <<"kernel">>
    [] t \in {"buffer", "subbuffer"}   -> <<"buffer">>
    [] t \in {"device", "subdevice"}   -> <<"device">>
    [] OTHER          -> <<>>
ScanOrderWithoutSubBuffers(t) ==
  CASE t = "platform" -> <<"context", "device">>
    [] t = "context"  -> <<"queue", "program", "event", "pipe", "image", "buffer", "sampler", "svm">>
    [] t = "program"  -> <<"kernel">>
    [] t \in {"device", "subdevice"}   -> <<"device">>
    [] OTHER          -> <<>>
ScanOrderWithoutDevices(t) ==
  CASE t = "platform" -> <<"context">>
    [] t = "context"  -> <<"queue", "program", "event", "pipe", "image", "buffer", "sampler", "svm">>
    [] t = "program"  -> <<"kernel">>
    [] t \in {"buffer", "subbuffer"}   -> <<"buffer">>
    [] t \in {"device", "subdevice"}   -> <<"device">>
    [] OTHER          -> <<>>

\* The classes of children a destructor scans for, in the order it does.
ScanOrder(t) ==
  CASE t = "platform" -> <<"context", "device">>
    [] t = "context"  -> <<"queue", "program", "event", "pipe", "image",
                           "buffer", "sampler", "svm">>
    [] t = "program"  -> <<"kernel">>
    [] t \in {"buffer", "subbuffer"}   -> <<"buffer">>
    [] t \in {"device", "subdevice"}   -> <<"device">>
    [] OTHER          -> <<>>

-----------------------------------------------------------------------------
VARIABLES
  mem,      (* userdata in Lua's memory                                      *)
  obj,      (* those with the Valid mark, with the contents newxxx gives     *)
  hasSub,   (* userdata with the HasSubDevices mark                          *)
  tree,     (* the udata tree: the userdata found under each handle          *)
  alive,    (* driver: objects not yet destroyed                             *)
  refs,     (* driver: references the application holds                      *)
  base,     (* driver: the object an object was created from                 *)
  uses,     (* driver: the other objects an object keeps alive               *)
  stack,    (* frames of the destructors in progress                         *)
  phase     (* the Lua state: open, closing (lua_close), closed              *)

udVars == <<mem, obj, hasSub, tree>>
clVars == <<alive, refs, base, uses>>
vars   == <<mem, obj, hasSub, tree, alive, refs, base, uses, stack, phase>>

\* Nothing reads the contents of a userdata that is not valid.
valid == DOMAIN obj

NoHandle == 0
\* owner stands for the handle stored in ud->platform (of a device or a context),
\* ud->program (of a kernel) or ud->context (of the others), device for the one a
\* queue stores in ud->device.
Object == [type : Types, handle : Handles, parent : Uds \cup {NoUd},
           owner : Handles \cup {NoHandle}, device : Handles \cup {NoHandle}]

\* A destructor in progress: the object with its type and handle, the index of the
\* class it scans for, the id the scan resumes from, where it is, and the object
\* whose DestructorCallback called it (NoHandle if none did).
Frame == [ud : Uds, type : Types, handle : Handles, class : Nat \ {0}, from : Nat,
          pc : {"scan", "release", "return"}, callback : Handles \cup {NoHandle}]

\* Every variable has its type; a valid object is in memory and only valid ones are
\* marked (freeuserdata leaves nothing behind that a later object could inherit).
TypeOK ==
  /\ mem \subseteq Uds /\ valid \subseteq mem /\ hasSub \subseteq valid
  /\ obj \in [valid -> Object]
  /\ tree \in [Handles -> Uds \cup {NoUd}]
  /\ alive \subseteq Handles
  /\ refs \in [Handles -> Nat]
  /\ base \in [Handles -> Handles \cup {NoHandle}]
  /\ uses \in [Handles -> SUBSET Handles]
  /\ stack \in Seq(Frame)
  /\ phase \in {"open", "closing", "closed"}

Init ==
  /\ mem = {} /\ obj = [u \in {} |-> NoUd] /\ hasSub = {}
  /\ tree = [h \in Handles |-> NoUd]
  /\ alive = Permanent
  /\ refs = [h \in Handles |-> IF h \in Permanent THEN 1 ELSE 0]
  /\ base = [h \in Handles |-> NoHandle]
  /\ uses = [h \in Handles |-> {}]
  /\ stack = <<>>
  /\ phase = "open"

-----------------------------------------------------------------------------
(***************************************************************************)
(* The driver.                                                             *)
(***************************************************************************)
Users(h) == {g \in alive : base[g] = h \/ h \in uses[g]}

\* CL_XXX_REFERENCE_COUNT: always 1 for a root device, 0 for an object that is
\* gone (the query fails and leaves the variable as it was initialized).
ReferenceCount(h) ==
  CASE h \in Permanent -> 1
    [] h \notin alive   -> 0
    [] OTHER -> refs[h] + IF CountImplicit THEN Cardinality(Users(h)) ELSE 0

\* Objects whose DestructorCallback is running.
InCallback == {stack[k].callback : k \in DOMAIN stack}

\* Objects the driver has to destroy before the call in progress returns.
Dying == {h \in alive \ (Permanent \cup InCallback) : refs[h] = 0 /\ Users(h) = {}}

Idle == stack = <<>> /\ Dying = {}

\* The driver frees h.
Destroyed(h) ==
  /\ alive' = alive \ {h}
  /\ base' = [g \in Handles |-> IF g = h THEN NoHandle ELSE base[g]]
  /\ uses' = [g \in Handles |-> IF g = h THEN {} ELSE uses[g] \ {h}]

-----------------------------------------------------------------------------
(***************************************************************************)
(* The destructors: freeplatform, freedevice, freecontext, ..., which all  *)
(* scan for children, free the binding and release the OpenCL object.      *)
(***************************************************************************)
Top == stack[Len(stack)]
Rest == [k \in 1..Len(stack) - 1 |-> stack[k]]
WithTop(f) == [stack EXCEPT ![Len(stack)] = f]

\* The destructor of u starts, called by the DestructorCallback of h or by another
\* one.  freedevice makes its scan only if the device has sub devices.
Destroying(u, h) ==
  [ud |-> u, type |-> obj[u].type, handle |-> obj[u].handle,
   class |-> IF obj[u].type \in {"device", "subdevice"} /\ u \notin hasSub THEN 2 ELSE 1,
   from |-> 0, pc |-> "scan", callback |-> h]

\* The destructor at the top of the stack, or the callback it is, returns.
Return ==
  /\ stack' = Rest
  /\ Destroyed(Top.callback)
  /\ UNCHANGED refs

Running(pc) == stack # <<>> /\ Dying = {} /\ Top.pc = pc
Scanning == Running("scan") /\ Top.class \in 1..Len(ScanOrder(Top.type))

IsChildWhateverParent(v) ==
  /\ v \in valid
  /\ Mt(obj[v].type) = ScanOrder(Top.type)[Top.class]

\* freeifchild's condition, with udata_scan's
IsChild(v) ==
  /\ v \in valid
  /\ Mt(obj[v].type) = ScanOrder(Top.type)[Top.class]
  /\ obj[v].parent = Top.ud

\* The children the scan has still to meet; the next is that of the least handle.
Found == {h \in Handles : h >= Top.from /\ tree[h] # NoUd /\ IsChild(tree[h])}
First == CHOOSE h \in Found : \A g \in Found : h <= g

\* The iterations of udata_scan up to the next child: freeifchild calls its
\* destructor (the iterations that meet another object only advance the id).
ScanObject ==
  /\ Scanning /\ Found # {}
  /\ stack' = Append(WithTop([Top EXCEPT !.from = First + 1]),
                     Destroying(tree[First], NoHandle))
  /\ UNCHANGED <<udVars, clVars, phase>>

EndScanKeepingFrom ==
  /\ Scanning /\ Found = {}
  /\ stack' = WithTop([Top EXCEPT !.class = @ + 1])
  /\ UNCHANGED <<udVars, clVars, phase>>
EndScanWithoutNext ==
  /\ Scanning /\ Found = {}
  /\ stack' = WithTop([Top EXCEPT !.from = 0])
  /\ UNCHANGED <<udVars, clVars, phase>>

\* udata_scan meets no other child: on to the next class.
EndScan ==
  /\ Scanning /\ Found = {}
  /\ stack' = WithTop([Top EXCEPT !.class = @ + 1, !.from = 0])
  /\ UNCHANGED <<udVars, clVars, phase>>

FreeUserdataKeepingEntry ==
  /\ Running("scan") /\ ~Scanning
  /\ IF Top.ud \in valid
     THEN /\ obj' = [u \in valid \ {Top.ud} |-> obj[u]]
          /\ hasSub' = hasSub \ {Top.ud}
          /\ stack' = WithTop([Top EXCEPT !.pc = "release"])
          /\ UNCHANGED <<tree, clVars>>
     ELSE /\ Return
          /\ UNCHANGED <<obj, hasSub, tree>>
  /\ UNCHANGED <<mem, phase>>

\* freeuserdata, with udata_free: a second call for the same object does nothing.
FreeUserdata ==
  /\ Running("scan") /\ ~Scanning
  /\ IF Top.ud \in valid
     THEN /\ obj' = [u \in valid \ {Top.ud} |-> obj[u]]
          /\ hasSub' = hasSub \ {Top.ud}
          /\ tree' = [tree EXCEPT ![obj[Top.ud].handle] = NoUd]
          /\ stack' = WithTop([Top EXCEPT !.pc = "release"])
          /\ UNCHANGED clVars
     ELSE /\ Return
          /\ UNCHANGED <<obj, hasSub, tree>>
  /\ UNCHANGED <<mem, phase>>

ReleaseAllOnce ==
  LET h == Top.handle
  IN  /\ Running("release")
      /\ stack' = WithTop([Top EXCEPT !.pc = "return"])
      /\ refs' = IF h \in Permanent \/ refs[h] = 0 THEN refs ELSE [refs EXCEPT ![h] = @ - 1]
      /\ UNCHANGED <<udVars, alive, base, uses, phase>>
ReleaseAllButDevices ==
  LET h == Top.handle
  IN  /\ Running("release")
      /\ stack' = WithTop([Top EXCEPT !.pc = "return"])
      /\ refs' = IF Mt(Top.type) = "device" THEN refs ELSE [refs EXCEPT ![h] = 0]
      /\ IF ReferenceCount(h) > refs[h] THEN Destroyed(h) ELSE UNCHANGED <<alive, base, uses>>
      /\ UNCHANGED <<udVars, phase>>

\* ReleaseAll (SVMFree for svm, free for hostmem, nothing for a platform): drops
\* as many references as the count says, those of the users included.
ReleaseAll ==
  LET h == Top.handle
  IN  /\ Running("release")
      /\ stack' = WithTop([Top EXCEPT !.pc = "return"])
      /\ refs' = IF h \in Permanent THEN refs ELSE [refs EXCEPT ![h] = 0]
      /\ IF ReferenceCount(h) > refs[h] THEN Destroyed(h) ELSE UNCHANGED <<alive, base, uses>>
      /\ UNCHANGED <<udVars, phase>>

DestructorReturns ==
  /\ Running("return")
  /\ Return
  /\ UNCHANGED <<udVars, phase>>

DriverDestroysWithoutCallback(h) ==
  /\ h \in Dying
  /\ Destroyed(h)
  /\ UNCHANGED <<udVars, refs, stack, phase>>

\* The driver destroys an object nothing refers to any more.  If it is a mem
\* object it first calls its DestructorCallback, which calls the destructor of
\* the binding if there still is one.
DriverDestroys(h) ==
  /\ h \in Dying
  /\ IF tree[h] \in valid /\ obj[tree[h]].type \in MemTypes
     THEN /\ stack' = Append(stack, Destroying(tree[h], h))
          /\ UNCHANGED <<alive, base, uses>>
     ELSE /\ Destroyed(h)
          /\ UNCHANGED stack
  /\ UNCHANGED <<udVars, refs, phase>>

-----------------------------------------------------------------------------
(***************************************************************************)
(* The script: creation.                                                   *)
(***************************************************************************)
\* userdata(handle)
UD(h) == IF h \in Handles /\ tree[h] \in valid THEN tree[h] ELSE NoUd

Script == phase = "open" /\ Idle

\* The script can pass a valid object of these types.
Args(types) == {u \in valid : obj[u].type \in types}

FreshHandles == Handles \ (Permanent \cup alive)
Batches == {B \in SUBSET FreshHandles : Cardinality(B) \in 1..MaxBatch}

New(t, h, parent, owner, device) ==
  [type |-> t, handle |-> h, parent |-> parent, owner |-> owner, device |-> device]

\* udata_new raises an error for a handle that is in the tree already.
Clash(H) == \E h \in H : tree[h] # NoUd

MarkedRootsOnly(new, B) ==
  {new[h].parent : h \in {g \in B : new[g].type = "subdevice" /\ obj[new[g].parent].type = "device"}}

\* newsubdevice marks the parent of each new sub device.
Marked(new, B) == {new[h].parent : h \in {g \in B : new[g].type = "subdevice"}}

\* The call got the objects in DOMAIN new from the driver and creates their
\* bindings, one by one.  An error of udata_new abandons the others: the objects
\* exist, with the reference of their creation, and no binding.
CreateBindings(new, from, used) ==
  LET H == DOMAIN new
  IN  \E B \in IF Clash(H) \/ AllocMayFail
              THEN SUBSET {h \in H : tree[h] = NoUd} ELSE {H} :
      \E at \in [B -> Uds \ mem] :
        /\ \A g, h \in B : at[g] = at[h] => g = h
        /\ LET N == {at[h] : h \in B}
           IN  /\ mem' = mem \cup N
               /\ obj' = [u \in valid \cup N |->
                           IF u \in N THEN new[CHOOSE h \in B : at[h] = u] ELSE obj[u]]
               /\ tree' = [h \in Handles |-> IF h \in B THEN at[h] ELSE tree[h]]
               /\ hasSub' = hasSub \cup Marked(new, B)
        /\ alive' = alive \cup H
        /\ refs' = [h \in Handles |-> IF h \in H \ Permanent THEN 1 ELSE refs[h]]
        /\ base' = [h \in Handles |-> IF h \in H \ Permanent THEN from ELSE base[h]]
        /\ uses' = [h \in Handles |-> IF h \in H \ Permanent
                                      THEN used \ ({NoHandle} \cup Permanent)
                                      ELSE uses[h]]
        /\ UNCHANGED <<stack, phase>>

\* get_platform_ids
GetPlatforms ==
  /\ Script
  /\ LET unbound == {h \in Platforms : UD(h) = NoUd}
     IN  CreateBindings([h \in unbound |-> New("platform", h, NoUd, NoHandle, NoHandle)],
                       NoHandle, {})

UnboundDevices(p) == {h \in RootDevices : PlatformOf[h] = obj[p].handle /\ UD(h) = NoUd}

NewDevice(p, h) == New("device", h, UD(obj[p].handle), obj[p].handle, NoHandle)

\* get_device_ids: the devices that have no binding yet get one.
GetDevices(p) ==
  /\ Script /\ "device" \in Created
  /\ \E D \in SUBSET UnboundDevices(p) :
       CreateBindings([h \in D |-> NewDevice(p, h)], NoHandle, {})

\* create_sub_devices
CreateSubDevices(d) ==
  /\ Script /\ "subdevice" \in Created
  /\ LET parent == UD(obj[d].handle)
     IN  \E B \in Batches :
           CreateBindings([h \in B |-> New("subdevice", h, parent, obj[parent].owner, NoHandle)],
                          obj[d].handle, {})

\* create_context, from a list of devices (d stands for them) or from a device
\* type: createcontextdevices then binds the devices D that have no binding.
CreateContext(p) ==
  /\ Script /\ "context" \in Created
  /\ \E c \in FreshHandles, D \in SUBSET UnboundDevices(p),
        d \in {obj[u].handle : u \in Args({"device", "subdevice"})} \cup {NoHandle} :
       /\ D = {} <=> d # NoHandle
       /\ CreateBindings([h \in D \cup {c} |->
                            IF h = c THEN New("context", c, UD(obj[p].handle), obj[p].handle, NoHandle)
                                     ELSE NewDevice(p, h)],
                         NoHandle, {d})

\* A child of context c that uses the object o too: the device of a queue, the
\* buffer an image may be created from (NoHandle if it uses none).
CreateInContext(c, t, o) ==
  /\ Script /\ t \in Created
  /\ \E h \in FreshHandles :
       CreateBindings([g \in {h} |-> New(t, h, UD(obj[c].handle), obj[c].handle,
                                        IF t = "queue" THEN o ELSE NoHandle)],
                      obj[c].handle, {o})

CreateCommandQueue(c) ==
  \E d \in Args({"device", "subdevice"}) : CreateInContext(c, "queue", obj[d].handle)
\* create_program_with_source, _binary, _built_in_kernels, _il, link_program
CreateProgram(c)   == CreateInContext(c, "program", NoHandle)
CreateUserEvent(c) == CreateInContext(c, "event", NoHandle)
CreatePipe(c)      == CreateInContext(c, "pipe", NoHandle)
CreateBuffer(c)    == CreateInContext(c, "buffer", NoHandle)
CreateSampler(c)   == CreateInContext(c, "sampler", NoHandle)
CreateSvm(c)       == CreateInContext(c, "svm", NoHandle)
CreateImage(c) ==
  \E o \in {obj[b].handle : b \in Args({"buffer"})} \cup {NoHandle} : CreateInContext(c, "image", o)

\* newevent, by an enqueue_xxx with ge: the event of a command of queue q.
EnqueueEvent(q) ==
  /\ Script /\ "event" \in Created
  /\ LET c == obj[q].owner
     IN  \E h \in FreshHandles :
           CreateBindings([g \in {h} |-> New("event", h, UD(c), c, NoHandle)], c, {})

\* create_kernel, create_kernels_in_program
CreateKernels(p) ==
  /\ Script /\ "kernel" \in Created
  /\ LET prog == obj[p].handle
     IN  \E B \in Batches :
           CreateBindings([h \in B |-> New("kernel", h, UD(prog), prog, NoHandle)], prog, {})

CloneKernelParentHandle(k) ==
  /\ Script /\ "kernel" \in Created
  /\ LET prog == obj[k].owner
     IN  \E h \in FreshHandles :
           CreateBindings([g \in {h} |-> New("kernel", h, prog, prog, NoHandle)], prog, {})
CloneKernelOfKernel(k) ==
  /\ Script /\ "kernel" \in Created
  /\ LET prog == obj[k].handle
     IN  \E h \in FreshHandles :
           CreateBindings([g \in {h} |-> New("kernel", h, UD(prog), prog, NoHandle)], prog, {})

\* clone_kernel, with the program handle the source kernel stores
CloneKernel(k) ==
  /\ Script /\ "kernel" \in Created
  /\ LET prog == obj[k].owner
     IN  \E h \in FreshHandles :
           CreateBindings([g \in {h} |-> New("kernel", h, UD(prog), prog, NoHandle)], prog, {})

\* create_buffer_region: not of a sub buffer
CreateSubBuffer(b) ==
  /\ Script /\ "subbuffer" \in Created
  /\ LET parent == UD(obj[b].handle)
     IN  \E h \in FreshHandles :
           CreateBindings([g \in {h} |-> New("subbuffer", h, parent, obj[parent].owner, NoHandle)],
                          obj[b].handle, {})

\* cl.malloc, cl.aligned_alloc, cl.hostmem
CreateHostmem ==
  /\ Script /\ "hostmem" \in Created
  /\ \E h \in FreshHandles :
       CreateBindings([g \in {h} |-> New("hostmem", h, NoUd, NoHandle, NoHandle)],
                      NoHandle, {})

-----------------------------------------------------------------------------
(***************************************************************************)
(* The script: deletion, reference counts; Lua: collection and lua_close.  *)
(***************************************************************************)
\* object:delete(), and __gc at lua_close
Delete(u) ==
  /\ phase \in {"open", "closing"} /\ Idle
  /\ stack' = <<Destroying(u, NoHandle)>>
  /\ UNCHANGED <<udVars, clVars, phase>>

\* cl.retain_xxx
Retain(u) ==
  LET h == obj[u].handle
  IN  /\ Script /\ h \in alive \ Permanent /\ refs[h] < MaxRefs
      /\ refs' = [refs EXCEPT ![h] = @ + 1]
      /\ UNCHANGED <<udVars, alive, base, uses, stack, phase>>

ReleaseWithoutDestructor(u) ==
  LET h == obj[u].handle
  IN  /\ Script /\ h \in alive /\ refs[h] > 0
      /\ refs' = [refs EXCEPT ![h] = @ - 1]
      /\ UNCHANGED <<udVars, alive, base, uses, stack, phase>>

\* cl.release_xxx: the destructor if the count is 1, else one reference less.
Release(u) ==
  LET h == obj[u].handle
  IN  /\ Script
      /\ IF ReferenceCount(h) = 1
         THEN /\ stack' = <<Destroying(u, NoHandle)>>
              /\ UNCHANGED refs
         ELSE /\ h \in alive /\ refs[h] > 0
              /\ refs' = [refs EXCEPT ![h] = @ - 1]
              /\ UNCHANGED stack
      /\ UNCHANGED <<udVars, alive, base, uses, phase>>

\* Lua collects a userdata that is not in the registry; __gc finds it invalid.
Collect(u) ==
  /\ phase \in {"open", "closing"} /\ Idle
  /\ mem' = mem \ {u}
  /\ UNCHANGED <<obj, hasSub, tree, clVars, stack, phase>>

\* lua_close: no more script, all finalizers are called, in some order.
Close ==
  /\ Script
  /\ phase' = "closing"
  /\ UNCHANGED <<udVars, clVars, stack>>

Closed ==
  /\ phase = "closing" /\ Idle /\ mem = {}
  /\ phase' = "closed"
  /\ UNCHANGED <<udVars, clVars, stack>>

-----------------------------------------------------------------------------
Create ==
  \/ GetPlatforms
  \/ CreateHostmem
  \/ \E p \in Args({"platform"}) : GetDevices(p) \/ CreateContext(p)
  \/ \E d \in Args({"device", "subdevice"}) : CreateSubDevices(d)
  \/ \E c \in Args({"context"}) :
       \/ CreateCommandQueue(c) \/ CreateProgram(c) \/ CreateUserEvent(c) \/ CreatePipe(c)
       \/ CreateBuffer(c) \/ CreateImage(c) \/ CreateSampler(c) \/ CreateSvm(c)
  \/ \E q \in Args({"queue"}) : EnqueueEvent(q)
  \/ \E p \in Args({"program"}) : CreateKernels(p)
  \/ \E k \in Args({"kernel"}) : CloneKernel(k)
  \/ \E b \in Args({"buffer"}) : CreateSubBuffer(b)

Destructor ==
  \/ ScanObject \/ EndScan \/ FreeUserdata \/ ReleaseAll \/ DestructorReturns
  \/ \E h \in Handles : DriverDestroys(h)

Finalize == (\E u \in valid : Delete(u)) \/ (\E u \in mem \ valid : Collect(u))

Next ==
  \/ Create
  \/ \E u \in valid : Delete(u)
  \/ \E u \in Args(Released) : Retain(u) \/ Release(u)
  \/ \E u \in mem \ valid : Collect(u)
  \/ Destructor
  \/ Close \/ Closed

Spec == Init /\ [][Next]_vars

\* A destructor runs to its end, and so does lua_close.
LiveSpec ==
  /\ Spec
  /\ WF_vars(Destructor)
  /\ WF_vars(phase = "closing" /\ (Finalize \/ Closed))

-----------------------------------------------------------------------------
(***************************************************************************)
(* Properties.                                                             *)
(***************************************************************************)
\* No valid object outlives its parent: ud->parent_ud never dangles, in the middle
\* of a deletion included (freechildren before freeuserdata in every destructor).
ParentValid ==
  \A u \in valid : ParentTypes(obj[u].type) # {} =>
    /\ obj[u].parent \in valid
    /\ obj[obj[u].parent].type \in ParentTypes(obj[u].type)

\* The udata tree finds exactly the valid objects, each under its own handle, so
\* udata_free and udata_push never meet an unknown identifier.
TreeMatchesValid ==
  /\ \A u \in valid : tree[obj[u].handle] = u
  /\ \A h \in Handles : tree[h] # NoUd => tree[h] \in valid /\ obj[tree[h]].handle = h

OwnerType(t) ==
  CASE t \in {"device", "subdevice", "context"} -> "platform"
    [] t = "kernel" -> "program"
    [] OTHER        -> "context"

\* The platform, context or program handle stored in a valid object still finds the
\* object it was taken from, and not another one that got the same address.
OwnerResolves ==
  \A u \in valid : obj[u].owner # NoHandle =>
    UD(obj[u].owner) # NoUd /\ obj[UD(obj[u].owner)].type = OwnerType(obj[u].type)

\* Every reference the application holds on a driver object is on an object that
\* has a binding, or whose destructor is about to drop it: nothing is leaked.
ReferencesOwned ==
  \A h \in alive \ Permanent : refs[h] > 0 =>
    \/ tree[h] # NoUd
    \/ \E k \in DOMAIN stack : stack[k].pc = "release" /\ stack[k].handle = h

\* ReleaseAll never drops the references that the children of an object hold in the
\* driver: no driver object is destroyed while one created from it is alive.
BaseAlive == \A h \in alive : base[h] # NoHandle => base[h] \in alive

\* A valid binding is that of a driver object that exists: no call passes the
\* driver a dead handle.
BindingAlive == \A u \in valid : obj[u].handle \in alive

\* An object the application has released entirely has no valid binding left.
ReleasedInvalid == \A u \in valid : refs[obj[u].handle] > 0

\* queue:device() finds the device of the queue.
QueueDeviceResolves ==
  \A u \in valid : obj[u].type = "queue" =>
    UD(obj[u].device) # NoUd /\ Mt(obj[UD(obj[u].device)].type) = "device"

\* lua_close leaves no object behind: nothing in the udata tree and nothing alive
\* in the driver, whatever order the finalizers are called in.
ClosedReleasesAll ==
  phase = "closed" => alive = Permanent /\ \A h \in Handles : tree[h] = NoUd

\* Nothing is leaked, while the state is open or after.
NothingLeaked == ReferencesOwned /\ ClosedReleasesAll

\* The destructors implement the deletion of a whole subtree, children first, of
\* nothing else, and return only when it is gone.
Hierarchy == INSTANCE ObjectTree WITH
  Objs <- Uds, None <- NoUd,
  up   <- [u \in valid |-> obj[u].parent],
  root <- IF stack = <<>> THEN NoUd ELSE stack[1].ud
DeletesSubtree == Hierarchy!Spec

-----------------------------------------------------------------------------
(***************************************************************************)
(* The invariant behind ParentValid: what a destructor in progress has     *)
(* still to do covers every child that is left.                            *)
(***************************************************************************)
\* The scans of frame f have still to meet v.
Pending(f, v) ==
  \E i \in f.class..Len(ScanOrder(f.type)) :
    /\ ScanOrder(f.type)[i] = Mt(obj[v].type)
    /\ i = f.class => obj[v].handle >= f.from

\* Types whose owner is the handle of the parent.
OwnedByParent == ContextChildren \cup {"device", "context", "kernel"}

ObjectInv ==
  \A u \in valid :
    /\ ParentTypes(obj[u].type) = {} => obj[u].parent = NoUd
    /\ obj[u].type = "subdevice" => obj[u].parent \in hasSub
    /\ obj[u].type \in OwnedByParent => obj[u].owner = obj[obj[u].parent].handle

\* Of a destructor whose object is still valid, no child is forgotten: it is pending
\* or its own destructor is on the stack above.  Once the object is invalid, nothing
\* is found any more under its handle.
FrameInv(k) ==
  LET f == stack[k]
  IN  /\ f.callback # NoHandle => f.callback = f.handle
      /\ f.ud \in valid =>
           /\ f.pc = "scan" /\ f.type = obj[f.ud].type /\ f.handle = obj[f.ud].handle
           /\ \A v \in valid : obj[v].parent = f.ud =>
                Pending(f, v) \/ \E j \in DOMAIN stack : j > k /\ stack[j].ud = v
      /\ f.ud \notin valid => tree[f.handle] = NoUd

FramesInv == \A k \in DOMAIN stack : FrameInv(k)

\* The inductive invariant: a destructor in progress, interrupted by a callback or
\* not, forgets no child (udata_scan resumes at id + 1, freeifchild's condition).
Inv == TypeOK /\ TreeMatchesValid /\ ParentValid /\ ObjectInv /\ FramesInv

-----------------------------------------------------------------------------
\* Every deletion ends, whatever the callbacks do in its middle.
DestructorsReturn == stack # <<>> ~> stack = <<>>

\* lua_close ends, and has released everything.
CloseCompletes == phase = "closing" ~> phase = "closed" /\ ClosedReleasesAll
=============================================================================
