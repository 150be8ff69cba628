# A verification project for MoonCL

MoonCL binds OpenCL to Lua. Each OpenCL object a script creates gets a *binding*:
a Lua userdata (`ud_t`, `src/src/udata.h`), found from the object's handle in a red-black
tree. The binding layer decides when objects die: a script may delete any object,
deleting one deletes everything created under it, and closing the Lua state deletes what
is left. Behind it the OpenCL driver runs commands and calls callbacks from threads of
its own.

These TLA+ modules model that part of MoonCL, which has state and an order of events that
tests hardly reach, and the C functions around it: the paths through their bodies, the
arithmetic of ranges, the conversions between Lua and C, the strings of the enums and the queries they
name, the loading of the module. TLC checks the models on small instances, and TLAPS proves the
central properties for all instances. `PROJECT.json` maps each definition to the lines it
was translated from, and lists the runs, the mutants that show each property able to
fail, the hazards, the findings and the theorems.

- [Inventory](#inventory)
- [The modules](#the-modules)
- [Runs](#runs)
- [Fairness](#fairness)
- [Proofs](#proofs)
- [What is left out](#what-is-left-out)
- [Plan](#plan)

## Inventory

All paths are under `src/src/`.

| Component | State | Operations | What makes it correct |
|---|---|---|---|
| udata tree (`udata.c`) | tree from handles to userdata, references in the Lua registry | `udata_new`, `udata_free`, `udata_push`, `udata_mem`, `udata_scan` | finds exactly the valid objects; a scan misses no child while its callback deletes nodes |
| objects (`objects.c`, `objects.h`) | marks, parent and stored handles of a `ud_t` | `newuserdata`, `freeuserdata`, `freechildren`, `userdata`, delete, retain, release | no object outlives its parent; each is freed once; nothing leaks |
| platform, device, context, queue, program, kernel, event, mem objects, sampler, svm, hostmem (a file each) | the class's part of `ud_t`; reference counts in the driver | `newxxx`, `freexxx`, create, retain, release, queries | children are scanned for in every destructor; stored handles still resolve |
| mem objects' destructor callback (`buffer.c`, `image.c`, `pipe.c`) | none of its own | `DestructorCallback`, called by the driver | deletes the binding if there still is one, wherever it comes |
| event callbacks (`event.c`) | `udinfo_t`: flag and status by type, shared by threads | `set_event_callback`, `check_event_callback`, `Callback_xxx`, `freeevent` | no status reported that is not true; no callback lost |
| commands (`enqueue.c`, `queue.c`, `svm.c`, `hostmem.c`) | commands and event statuses, in the driver | `enqueue_xxx`, `finish`, `wait_for_events`, `enqueue_svm_free`, deletion of queues and memory | no command outlives its queue or its memory; memory is freed exactly once; closing ends |
| host memory (`hostmem.c`) | address, size, whether MoonCL allocated it | create, write, copy, clear, read, ptr, size, free | no access past the end for any integer argument; nothing legal refused; freed by its owner only |
| buffers' extents (`buffer.c`, `enqueue.c`) | origin and size of each buffer | create, sub buffers, the checks of copies, fills and mappings | a sub buffer is inside its parent, a checked command inside the buffer |
| calls (all files) | arrays during a call; which functions the driver has | every function that allocates, or calls a function that may be missing | each block freed once on every way out; nothing used that may be NULL or unset |
| conversions (`datahandling.c`, `structs.c`, `flags.c`) | none | pack, unpack, check and push | what goes in comes out; no array overflows |
| enums and queries (`enums.c`, the `get_xxx_info` functions) | a table of strings, filled at load | check, push, list; a switch for each type of query | each string that is accepted has a case, each value that comes back a string |
| loading (`main.c`, `utils.c`, `getproc.c`, `enums.c`) | the allocator, the OpenCL library, the two trees of enums | `luaopen_mooncl`, `AtExit` | a loaded module is complete; the trees agree; what is allocated is freed with an allocator that still exists |
| `versions.c`, `tracing.c`, `mooncl/utils.lua` | set at load | versions, trace, helpers | not modelled: no behaviour over time |

How they interact:

- **Calls.** A script's call checks its arguments, calls the driver, and then makes the
  bindings with `newxxx`, which stores the parent (`ud->parent_ud`, a pointer) and
  the handles of the objects the new one depends on.
- **Deletion.** `delete`, the last `release_xxx`, `__gc` and the driver's
  `DestructorCallback` all end in the class's destructor, `freexxx`. It calls
  `freechildren` once per class of children, which scans the whole tree with
  `udata_scan` and calls the destructor of each child. Then it calls `freeuserdata` and
  releases the OpenCL object until its reference count is zero.
- **Driver.** It keeps an object alive while the application or another
  live object refers to it. Whether the count it reports includes the references of other
  objects depends on the implementation.
- **Threads.** MoonCL creates none. The driver calls event callbacks from its
  own threads; they share the `ud_t` and the `udinfo_t` with the script and take no lock.
- **Commands** run after `enqueue_xxx` returns. They keep raw pointers to host
  memory and svm's; the destructor of a queue blocks until they have ended.
- **End.** `lua_close` calls `__gc` of all userdata, in the reverse order of creation.

What is hard here is in `PROJECT.json` under `hazards`: destructors that nest through the
driver's callbacks while a scan is in progress; objects deleted by several parties; stored
handles that the driver may reuse; calls that fail when half of their bindings
are made; the unsynchronized callback; commands that outlive what they use; and
the waits inside destructors.

## The modules

### Objects

The udata tree, the bindings and the destructors of all fifteen kinds of objects, with a
driver that counts references.

| Variable | In the code |
|---|---|
| `mem` | userdata Lua has not collected |
| `obj` | the `ud_t`'s with the Valid mark: type, `handle`, `parent_ud`, and the stored handles (`owner` stands for `platform`, `program` or `context`) |
| `hasSub` | the mark `MASK_HAS_SUBDEVICES` |
| `tree` | the red-black tree, with the registry references |
| `alive`, `refs`, `base`, `uses` | the driver: live objects, the application's references, what an object was made from and keeps alive |
| `stack` | the C stack, as far as it holds destructors |
| `phase` | open; closing, that is in `lua_close`; closed |

The destructor is a recursive C function, and the driver may call back into it. So the
recursion is a stack of frames and a step is one iteration of one scan:
`ScanObject` (`udata_scan` meets a child and `freeifchild` calls its destructor),
`EndScan`, `FreeUserdata`, `ReleaseAll`, `DestructorReturns`. `DriverDestroys` pushes the
frame of a `DestructorCallback` on top of whatever is in progress, as soon as nothing refers
to the mem object any more. Each creating function is an action; the ones that make
several bindings (`create_sub_devices`, `create_kernels_in_program`, `get_device_ids`,
`create_context`) share `CreateBindings`, which may stop half way, as `udata_new` does on a
duplicate handle or a failed allocation. `Delete` is `object:delete()` and `__gc`;
`Collect` is Lua freeing an invalid userdata.

Constants that say what is not known: `CountImplicit` (does the driver's reference count
include the references of other objects?) and `AllocMayFail`.

### ObjectTree

What `Objects` promises, in four actions: a forest; deletion removes the objects
below the one deleted, each after its children, then that object, and nothing else. What is
below an object is in every set that contains it and is closed under children (`Below`).
`Objects` implements it under the mapping `Hierarchy`: a valid userdata is a live
object, its parent is `parent_ud`, and the root of the deletion in progress is the
object at the bottom of the stack.

### EventCallback

One Lua thread and any number of driver threads. The state they share is `binding` and
`info` (the userdata, `ud->info`), and `called` and `status` (the `udinfo_t`). Each access
to shared memory is a step: `Enter` (the callback reads `ud->info`), `Store` (one of its two
stores), `SetEventCallback` (allocate, reset the flag), `Register`
(`cl.SetEventCallback`), `CheckEventCallback` (reads the flag), `ReadStatus`. The
`udinfo_t` has an address of its own, since `malloc` may give a freed one to another event.

- `InOrderStores`: the status is seen before the flag. The code has a comment
  that says so (`event.c:134`), but the two variables are plain ones, and neither C nor the
  processor promises it.
- `DeletesPending`: does the script delete events with callbacks outstanding?

### Notices

What `EventCallback` promises, without threads, pointers and flags: a board shows a notice for each event and
type, the status of the last callback, or none. A callback posts its notice in one step (`Notify`), with a
status that is true of the event at that moment; `check_event_callback` reads it in one step (`Answer`);
`set_event_callback` takes down an old notice (`TakeDown`) and, if the driver accepts the callback, expects a new one
(`Expect`). `EventCallback` implements it under the mapping `Board`: the notice is the status behind a flag that is
set in the `udinfo_t` of a valid event (`Notice`), and due are the callbacks that have still to set a flag (`Due`).
That this is so is what a reader of `event.c` takes for granted: that a callback of two stores looks like one step.

### Commands

Queues, user events, svm's and hostmem's, the commands that use them, and the
driver that runs the commands in order or out of order. The Lua thread is one of: in the script;
blocked until events end (`finish`, `wait_for_events`, a blocking `enqueue_xxx`); or
inside a destructor (`Destroy`, then `QueueFinished` for the `cl.Finish` of `freequeue`).
`NextToDelete` is the order in which `freecontext` destroys its children; `Finalize` is the
order of `lua_close`.

- `SvmFree`: does the script call `enqueue_svm_free`?
- `Careful`: does the script wait for the commands that use a memory before it frees the
  memory or ends?

What the model assumes: the driver starts commands without waiting for a flush; a command
that waits for a failed event fails; a list of events or of memory has one element at most,
which is enough to order two commands in each way.

### Lifetimes

What `Commands` promises, without bindings, destructors and a thread that blocks: queues that are open or not, memory
that is there or was freed, and the commands so far. A command is accepted by an open queue, for memory that is there
and events that are known (`Enqueue`); a queue goes when its commands have ended (`CloseQueue`); memory goes once, when no command uses it
(`Free`); the script is over when neither is left (`Finish`). `Commands` implements it under the mapping `Life`: a queue is open
until its destructor returns from `cl.Finish`, when its binding is gone already (`Open`), and a command is known by its event, its
queue, its wait list and its memory (`Jobs`). The order of an in-order queue is not part of the promise.

### Calls, CallSteps, EnqueueCalls, ProgramCalls, ObjectCalls

What each C function does with the memory it allocates, along every path through its body.
A body is data, a sequence of steps; a step is the set of its outcomes (`CallSteps`): the
call goes on, returns, or raises an error, and some blocks are allocated, used, freed or handed
over. A block has the name of the local variable that holds it. `Required("we", {"devices"})`
reads: a list is allocated for `we`; if that fails, `devices` is freed and an error raised.
The bodies of 115 functions and templates are in `EnqueueCalls` (`enqueue.c`), `ProgramCalls`
(`program.c`, `kernel.c`, the templates of `objects.h`) and `ObjectCalls` (all other files).
`Calls` executes them: `mem` is what has become of each block (`wild`: freed when it was
not there to free, or used after), `known` which of the optional functions of the driver
have been checked, and which locals assigned, and `assumed` which were relied upon without.

An error in Lua is a `longjmp` out of the C function. So a function that raises one while
it holds an array leaks it, and that is where most of the leaks below come from.

### Ranges, Hostmem, Buffers

`Ranges` is the arithmetic of `size_t` and Lua integers, modulo `2 * Half`, and the test that
`hostmem.c` and `buffer.c` share. `Hostmem` has the areas of memory there are (`areas`), the
window of each hostmem over them (`windows`), and what the last call read and wrote
(`last`); each method is an action. `Buffers` has the `udinfo_t` of each buffer and the ranges of the
command being enqueued.

- `Careful`: the script keeps a string or a mapped region as long as there is a hostmem over it, and
  gives `cl.hostmem(size, ptr)` a size that is right. MoonCL cannot check either.

### Conversions: Selection, Structs, Flags, Literals, Queries; Datahandling

`Structs` and `Flags` are operators, a pair for each conversion: from Lua to C
(`CheckProperties`, `CheckPartition`, `CheckFlags`) and back (`PushXxx`).
`Conversions` puts them in a row: a value is given, converted, held by OpenCL, and converted
back. `Lossy` and `LossyPartition` say which fields and partitions do not come back, and
the invariants that *exactly* those do not. A context's list is completed first (`WithPlatform`): both callers of
`echeckcontextproperties` (`context.c:132`, `gl_object.c:179`) hand it the platform that the script names as the
first argument, which is never NULL, so that the `platform` of the table is never read (`structs.c:243-260` is not
reached), as `context.adoc` says, and even a table without fields makes a list. So a context comes back with the
platform of the call, also when the script gave none in the table, or another. The loops that go through the fields or the flags in the order of the
code and take some of them are `InOrder` (`Selection`), the increasing sequence of a set of positions.

`Datahandling` is `pack` followed by `unpack`: `LossyPack` says which numbers do not come back, and
`Numbers` is the reference definition of flattening, for
the code counts indices through a recursion over tables.

`Literals` is the table of `mooncl_open_enums`, all strings of all 38 types, with
`enums_check` and `enums_push`. `Queries` has the switch of each `get_xxx_info` function, as the sets of
strings each function of the driver is asked for, and the type of command that OpenCL gives to the event of each
function (external). In `Conversions` a string goes to C and comes back, or chooses a case, and the type of a
command comes back as a string. The three tables are kept by hand in different files; `LiteralsAnswered` says
where they do not agree.

### Loading

`luaopen_mooncl` step by step, any of which may fail, for several Lua states in a
process, which share the library's static variables and take turns: `alloc` (`utils.c`),
`handle` (`getproc.c`), `byCode` and `byStr` (the two trees of `enums.c`), and how often `AtExit` is registered.

### MC modules and mutants

`MCObjects`, `MCEventCallback` and `MCCommands` give values and symmetries to the
constants. `MCBinding` puts `Calls`, `Hostmem`, `Buffers`, `Conversions`, `Datahandling` and `Loading`, which do
not act on one another, in one run: each behaviour is one of a single part. In each module, a
definition named after another one and a slip (`EndScanWithoutNext`, `RegisterThenReset`) is a
mutant: the same code with a plausible bug. No definition uses it; with it in place, TLC finds
the property violated that `PROJECT.json` names.

## Runs

Those that must find no error:

| Run | Checks | Shows |
|---|---|---|
| `ObjectsContext` | types, `ParentValid`, `TreeMatchesValid`, `OwnerResolves`, `NothingLeaked`, `ReleasedInvalid`, `DeletesSubtree` | contexts with queues, events, programs and kernels: no dangling parent, no stale handle, no leak, in any order of deletions, releases and finalizers; a deletion implements that of `ObjectTree` |
| `ObjectsMem` | `Inv`, `NothingLeaked`, `BaseAlive`, `BindingAlive` | the same with destructor callbacks that nest in destructors, and a driver that counts implicit references; and that the invariant of the proofs holds |
| `ObjectsAlloc` | `Inv` | sub devices of sub devices, the other types of children, and calls that fail after some of their bindings are made |
| `ObjectsLive` | `DestructorsReturn`, `CloseCompletes` | deletions and `lua_close` end, and leave nothing behind; sub devices and sub buffers, whose destructors call themselves, included |
| `EventCallback` | types, `CheckTruthful`, `NoLostNotification`, `LooksAtomic` | two driver threads, a command's event and a user event, two registrations of the same type; it all implements `Notices` |
| `EventCallbackLive` | `NotificationArrives` | the polling script sees the status in the end |
| `Commands` | types, `QueueDrained`, `MemoryOutlivesCommands`, `FreedOnce`, `LifetimesKept` | a careful script: nothing outlives what it uses; it all implements `Lifetimes` |
| `CommandsLive` | `DeletionEnds`, `CloseEnds` | with no user event, no destructor waits forever; `enqueue_svm_free`, failing half way included, leaks nothing |
| `Binding` | `BlocksFreedOnce`, `BlocksReleased`, `FactsEstablished` | every path through every body: what is allocated is freed once, and what may be missing is checked, but for the faults listed below |
| | `MemoryInside`, `OneOwner`, `RefusedIfIllegal` | host memory: no integer argument gets past the checks, windows stay in their memory, nothing legal is refused, memory is freed by its owner |
| | `BuffersInside` | buffers: the same for regions and the commands on them |
| | `CellsInside`, `ValuesRoundTrip` | conversions come back, or are of the kinds that are known not to; no array overflows |
| | `PackRoundTrip` | so do packed numbers, from any nesting of tables |
| | `LiteralsAnswered` | enums and queries: each string is accepted, answered and pushed, but for the faults listed below |
| | `EnumsRoundTrip`, `StaticsSound` | loading, failing and closing, by two Lua states in any order |

`NothingLeaked`, `MemoryInside`, `BuffersInside`, `ValuesRoundTrip` and `StaticsSound` are conjunctions of
the named properties above them in their modules.

Those that show a disagreement between the code and what is said of it. Each checks one
property, and TLC prints the steps that violate it:

| Run | Violates | Because |
|---|---|---|
| `ObjectsQueueDevice` | `QueueDeviceResolves` | `queue:device()` looks up a handle whose binding may have been deleted (`objects.h:341`) |
| `EventCallbackStores` | `CheckTruthful` | nothing orders the two stores of the callback (`event.c:147`) |
| `CommandsSvmFree` | `FreedOnce` | the destructor never looks at the mark `SvmDontFree`: the svm is freed at once, and again by the command (`svm.c:35`) |

Some properties hold only with a constant at the value the passing runs give it. With the
other value TLC shows how:

- `CountImplicit = TRUE` and `ReleasedInvalid` (programs and kernels): the last
  `release_program` finds a count above one, because the kernels refer to the program, and
  does not call the destructor (`objects.h:370`). Nor does `DeletesSubtree` hold then: the
  deletion of an object may be what destroys another that was released before.
- `DeletesPending = TRUE` and `CheckTruthful`: a callback that is called after its event was
  deleted stores into freed memory, which may be the `udinfo_t` of another event (`event.c:145`).
- `Careful = FALSE` and `MemoryOutlivesCommands`: at exit, host memory created after a queue
  is freed before the queue is finished (`hostmem.c:45`).
- `UserEvents` not empty and `CloseEnds`: the script ends while a command waits for a user
  event, and `cl.Finish` never returns (`queue.c:32`).

### Faults of the code that `Binding` names

The properties of `Calls` say that there is no leak, double free or unchecked use *except* at the
places that `MCBinding` lists, and `LiteralsAnswered` that the tables agree *except* for `Unanswered` and
`Unnamed`. Each is a fault found when the code was read, and confirmed by TLC when its entry is taken out:

| Where | What |
|---|---|
| `enqueue.c:1012` | `enqueue_ndrange_kernel` frees its wait list in its macro `CLEANUP` and again after it |
| `gl_object.c:151` | the driver is given the address and the size of the array pointer: it overwrites the pointer, which is then freed |
| `program.c:96` | binaries and devices of different numbers: the clean up frees as many strings as there are devices; the lengths are lost if `checklstringlist` fails |
| `program.c:379` | the loop assigns to `bin[i]`, not to `binaries[i]`: with two devices the driver gets pointers that were never set |
| `enqueue.c:770` | an svm twice in the list of `enqueue_svm_free`: its binding is gone the second time, and `NULL` is used |
| `queue.c:71`, `sampler.c:65` | with OpenCL 1.2 and no properties, locals are passed on that nobody has assigned |
| `platform.c:48` | a platform is entered in the tree before its extensions are loaded; if that fails it has no destructor |
| `context.c:160`, `queue.c:75` | properties, and the devices of a context, are freed on errors only; the `svm_t`'s of `enqueue_svm_free` never |
| `program.c:122-245`, `enums.c:229` | an argument after a list is refused while the list is there (`LeaksOnBadArguments`) |
| `device.c:405`, `platform.c:107` | `get_device_info` and `get_platform_info` accept four strings for which they have no case: an "unexpected error" |
| `enums.c:668` | no string for `CL_COMMAND_SVM_MIGRATE_MEM`: the type of the command of an event of `enqueue_svm_migrate_mem` cannot be read |
| many | no memory for a binding or a copy while an array is there (`LeaksOnNoMemory`) |

### Bounds

- *Objects*: one platform, one root device, three or four other objects at a time, two
  references on each, two bindings in one call (`MaxRefs`, `MaxBatch`; one of each for
  liveness). The longest chain of scans a destructor makes (platform, context, program,
  kernel, or buffer, sub buffer) fits, with a sibling beside it. The handle of the platform is
  in the middle of the others (`MCPlatforms`), so scans meet children before and after the
  id they resume from. Handles are reused: an address the driver gives to a new object may
  still be stored in old ones. The proofs do away with the bounds for the properties they cover.
- *EventCallback*: two threads and two registrations of one type are the least with which
  two callbacks store into the same flag, and two events the least for one `udinfo_t` to
  be reused by another. `NoLostNotification`, `CheckTruthful` and `LooksAtomic` are proved without bounds.
- *Commands*: two commands on a queue, in order in `Commands` and out of order in
  `CommandsLive`; they may wait for one another and, in `Commands`, for a user event. One svm,
  and in `CommandsLive` one host memory too, for the ways to free them to mix.
- *Calls*: none. A call has no state outside its body, so all calls along all paths are explored.
- *Hostmem*, *Buffers*: words of six values (`Half = 3`), two areas, hostmems, buffers. All
  offsets and sizes are tried, the negative ones and those whose sum wraps around included; two windows
  over one area, or a sub buffer and its parent, are what the properties relate. Proved
  without bounds. (`Careful = FALSE` has been checked as well: `OneOwner` holds.)
- *Conversions*: up to three fields of a property list at once, each with the values -1, 0, 1, 2, and two
  platforms, so that a call and its table may name different ones; a `cl_uint` has two values; lists of up to two counts; two flags. A handle, an enum or a flag is a small integer. `CellsInside` and
  `ValuesRoundTrip` are proved without bounds.
- *Datahandling*: two arguments to pack, of numbers or tables of up to two
  numbers, or one table nested twice. Bytes have two values and types one or two bytes, so that every
  value in range is tried, and some out of it.
- *Literals*, *Queries*: none. All strings of all types, and one that is not among them.
- *Loading*: two Lua states, three records in two domains with a code and a string in common.
- Deadlock is not checked (`CHECK_DEADLOCK FALSE`): the systems stop, when the state
  is closed, or when the script does nothing any more.

## Fairness

Safety is checked with no fairness. The liveness runs use `LiveSpec`:

- *Objects*: weak fairness of the destructor's steps, for C code runs on, and of
  the steps of `lua_close`, which is a loop over the finalizers. Nothing obliges the script to do
  anything.
- *EventCallback*: weak fairness of the rest of a function that the script has called, and of each
  driver thread in a callback; strong fairness of the call of each registered callback,
  because threads may be taken by other callbacks again and again, and OpenCL promises to call
  each. `Progress`, the execution of commands, is not fair: a command may run forever.
- *Commands*: weak fairness of the return of blocked calls, of destructors, of
  `lua_close`, and of the driver starting and ending commands that are ready. The script is
  not fair; in particular it need not complete its user events, and after `lua_close` it cannot.

## Proofs

The provers check every theorem for all values of the constants: any number of objects, threads,
commands, states and records, integers of any width. TLC finds no violation of the invariants below either,
with the constants of the runs (of fewer objects, for those of the driver); `ObjectsMem` keeps `Inv` checked.

### Objects

From `HandlesAssumption` (handles are non-zero numbers, the platforms' and root devices' among them,
finitely many) and `ParametersAssumption`:

| Module | Theorem | States | If |
|---|---|---|---|
| `ObjectsProofs` | `Invariance` | `Inv` | |
| | `TypeCorrect`, `ParentsStayValid`, `TreeIsSound` | the parts of `Inv` that matter: `TypeOK`, `ParentValid`, `TreeMatchesValid` | |
| | `OwnersResolve` | `OwnerResolves` | |
| | `BindingsAreAlive` | `BindingAlive` | `ReleasesTracked` |
| | `ReleasedAreInvalid` | `ReleasedInvalid` | `OwnCounts` |
| `ObjectsRefinement` | `SubtreesAreDeleted` | `DeletesSubtree`: `Objects` implements `ObjectTree` | `OwnCounts` |
| `DriverProofs` | `BasesStayAlive` | `BaseAlive` | `DriverAssumption` |
| | `NothingIsLeaked` | `NothingLeaked` | `ReleasesTracked`, `~AllocMayFail` |

The conditions on the constants are about one thing: what `release_xxx` does with a driver
that counts the references of its own objects (`CountImplicit`), when it finds a count above one and keeps
the binding.

- `OwnCounts`: the driver does not count them, or the script deletes its objects and never releases them.
- `ReleasesTracked`: the driver does not, or the script releases only mem objects, which have a
  `DestructorCallback` that takes the binding away in the end.
- `DriverAssumption`: `ReleasesTracked`, and with such a driver no allocation of `udata_new` fails (the
  object made is then left with no binding, and a count that is too high pulls another away from under it).

Without them the properties do not hold. They hold of the drivers and the scripts that the code was written
for, and TLC checks runs on both sides of `CountImplicit`.

**`Inv`.** `ParentValid` is not inductive. When `FreeUserdata` makes an object invalid, no child may be
left, and that depends on all the scans made since the destructor started. `FrameInv`
says what is true in between: **of a destructor whose object is still valid, each child is
either still to be met by a scan (`Pending`: its class comes later, or it is this class
with a handle not below the id the scan resumes from), or has its own destructor higher on
the stack.** The proof has one lemma per action. The interesting ones are `ScanObject` (the
child leaves the pending ones and enters the stack), `EndScan` (the class is exhausted, so
the child must be of a later one), `FreeUserdata` (the scans are over, so no
child is pending; none is above the top of the stack; hence there is none) and
`DriverDestroys` (a frame is pushed in the middle of any of these). `ScanCovers`
states what each destructor's list of scans must satisfy: it covers every type whose
parent may be of that class. `ObjectInv` adds what the code relies on without a check: that a parent of
sub devices has its mark, since `freedevice` does not scan without it.

**`RefInv`**, on top of `Inv`, is about the references of valid objects. **`OwnerInv`** says of each type which of its
ancestors the stored handle is that of, one step of the tree at a time: a sub device, for instance, has the
owner of its parent. With `NoLoop` (every set of valid objects has one whose parent is not in it) the platform
of a device is found at any depth, with no recursion.

**`DriverInv`**, on top of both, is the graph of objects in the driver. The reason that `ReleaseAll` never destroys
an object that another one uses, even if it drops references that are not the application's, is not in any one function:
it is that the users are bound to children of the binding being freed, whose destructors have run.
`NoCycle` says that nothing keeps itself alive, `OneDying` and `PendingOnTop` that the driver destroys one object at
a time, before the destructor above which it did so goes on, and `ReferencesOwned` that every reference of the
application is one of a binding or of the destructor at the top. The cardinality of sets of users decides what the
reported count is, hence `FiniteSetTheorems`.

**The refinement** maps `up` to the parents of the valid objects and `root` to the object at the bottom of
the stack. `ChainInv` says that the destructors on the stack are those of a path of the tree, so that the
one at the top frees an object that is below the root. `Below` is defined as what is in every
closed set that has the root, and `ObjectTree` needs no recursion.

### EventCallback

| Theorem | States | If |
|---|---|---|
| `TypeCorrect` | `TypeOK` | |
| `KeptInvariance`, `NothingLost` | `NoLostNotification` | |
| `TruthInvariance`, `Truthful` | `CheckTruthful` | `InOrderStores`, `~DeletesPending` |
| `ImplementsNotices` | `LooksAtomic`: `EventCallback` implements `Notices` | `InOrderStores`, `~DeletesPending` |

No callback is forgotten whatever the order of the stores and whatever is deleted, late stores into a `udinfo_t` that
has been freed and given to another event included: they may set a flag too early, but not reset one. `KeptInv` says
that valid events have `udinfo_t`'s of their own, that the callbacks of a valid event store into its own, and
that a flag is set unless a callback has still to set it (`Expected`, which is less than the callback being awaited).

Whether what is reported is true depends on both assumptions: the run `EventCallbackStores` is without
the first, and TLC finds a violation without the second too. `TruthInv` says that callbacks are outstanding only
for valid events (`LiveInv`), that a callback that has still to set its flag has stored a
status that is good, or has still to store it (`StoresInv`), and that the status behind a flag that is set is
good (`FlagInv`). *Good* means true of the event's present execution status, and what is good stays good as the
event proceeds (`GoodStable`).

The refinement rests on both invariants. The step of a callback at which its notice is posted is its second
store, which sets the flag; but if the flag was set before, by another callback of the same type, the notice is
posted by the first store, and the second one is a stutter. `check_event_callback` answers when it
reads the status, at which time the flag it has seen is still set: only the script resets it. Both assumptions are
needed: with the stores in the other order a notice appears with the status 0 that was never posted, and a
callback of a deleted event posts one for another event.

### Commands

From `CommandsAssumption` (the kinds of objects are disjoint):

| Theorem | States | If |
|---|---|---|
| `TypeCorrect`, `QueuesAreDrained` | `TypeOK`, `QueueDrained` | |
| `CloseFreesAll` | no memory is allocated once `lua_close` has returned | |
| `MemoryFreedOnce` | `FreedOnce` | `~SvmFree` |
| `MemoryOutlives` | `MemoryOutlivesCommands` | `~SvmFree`, `Careful` |
| `ImplementsLifetimes` | `LifetimesKept`: `Commands` implements `Lifetimes` | `~SvmFree`, `Careful` |

`Inv` says that the bindings are distinct, what the Lua thread may be waiting for, and that the commands of a queue that
is gone have ended. `OnceInv` adds that no command frees memory and that what has a binding is not
freed; `CarefulInv` that the script waits for the commands that use a memory before it deletes it or ends. That a
context may be deleted while its commands run is not assumed but proved: `NextToDelete` takes the queues first.

The refinement uses all three, and `StatusInv`: the events that were created are those that have a status, so that what a
script can name in a wait list is known to the driver. Of the steps of a deletion, `Destroy` of memory is `Free`, for nothing uses it
(`DestroyedUnused`); that of a queue changes nothing, and `QueueFinished` is `CloseQueue`. Both conditions
are needed: `enqueue_svm_free` frees twice, and a script that is not careful frees what commands use.

### Ranges, Hostmem, Buffers (`BoundsProofs`)

For any width of the words (`RangesAssumption`: `Half` is a positive number) and any memory:

| Theorem | States |
|---|---|
| `RangeTestExact` | the test `offset >= size` or `length > size - offset`, in wrapping arithmetic on converted integers, refuses exactly the ranges not inside, if the size is below `Half` |
| `BufferRanges` | `BuffersInside`: `SubBuffersInside` and `CommandsInside` |
| `HostmemTypes`, `HostmemOneOwner` | `HostmemTypeOK`; `OneOwner` |
| `HostmemBounds`, `IllegalIsRefused` | `MemoryInside` (that is, `AccessesInside` and `WindowsInside`); `RefusedIfIllegal`; both are about careful scripts |

The inductive invariant of the buffers, `BufferInv`, adds that extents are below `Half`, as
what any allocator gives is; of the hostmems, `HostmemInv` is `MemoryInv` (each window over live
memory and in it, each owned area owned once) and `LastInv` (the last call's accesses were inside the
areas, and it was refused if and only if it was illegal). There is a lemma for each method, which
reduces to `RefusedExact` and `PassedInside`, the two directions of `RangeTestExact` seen through a window.

### Conversions

For any `FieldIntegers`, `PlatformHandles` and `UintSize` and any bounds on the numbers of fields, counts and flags
(`ConversionAssumption`: the values are integers, a platform is not NULL, there is at least one `cl_uint`, the bounds
are natural numbers):

| Theorem | States |
|---|---|
| `ArraysInside` | `CellsInside` |
| `ValuesReturn` | `ValuesRoundTrip`: `PropertiesRoundTrip` and `FlagsRoundTrip` |

The invariant, `ConversionInv`, only says that what is held is `CheckXxx` of what was given and what is taken
`PushXxx` of that (the lemma `ConversionInvariance`); the argument is in the lemmas about the operators.

- `InOrder(S)` is strictly increasing and has every number of `S` (`InOrderIncreases`, `InOrderOnto`). The place of
  a number in it is how many there are up to it (`Place`), which grows from one number to the next and so is an
  injection of `S` into as many places as it has numbers, hence onto: no induction is needed.
- An array has twice as many cells as fields are written, and a zero (`ArrayOf`); no fewer are present than are written
  (`PositionsFinite`), and room was made for those. The reader stops at that zero and at none before, for a key is
  never zero (`EndOfArray`), and meets each key once (`FieldsReturn`, because no two fields have the same name).
- A field is written unless it is a pointer of -1 (`FieldWritten`): booleans, enums and the platform are never what
  is taken for an absent one (`FieldKinds`, `Completed`). `PropertiesReturn` puts these together.
- A list of counts comes back up to its first zero (`FirstZeroOf`); `LeastOf` gives the first.
- The bits given are all there are, or the names given (`BitsAccepted`); the strings pushed are the names of the
  bits (`FlagsPushed`), because no two strings of a type are equal and none is one with a meaning of its own
  (`NamedBits`).

### Loading

For any Lua states and any list of records (`LoadingAssumption`: `NoState` is not a state, and `Records` is a sequence):
`LoadingTypeCorrect` (`LoadingTypeOK`), `EnumsAgree` (`EnumsRoundTrip`) and `StaticsAreSound` (`StaticsSound`).
`OwnerInv` says whose allocator is in use, `ProgressInv` what `luaopen_mooncl` has set up at each step; that the two
trees hold the same records is part of the invariant, since an `AtExit` that frees one must free the other.

### Only model-checked

- The liveness properties (`DestructorsReturn`, `CloseCompletes`, `NotificationArrives`, `DeletionEnds`,
  `CloseEnds`): fairness is beyond the provers.
- `BlocksFreedOnce`, `BlocksReleased`, `FactsEstablished`: they are about the bodies of 115 functions, which are
  constants to `Calls`; there is nothing to generalize over, and TLC explores all paths.
- `PackRoundTrip`: `Datahandling` computes over nested tables by recursion, and what a recursive operator returns for
  every table takes an induction over the tables.
- `LiteralsAnswered`: the tables of enums and queries are finite data, which TLC goes through completely; there is no
  constant that it would depend on.
- `TypeOK` of `MCBinding` as a whole; `HostmemTypeOK` and `LoadingTypeOK`, which are parts of it, are proved.

## What is left out

- Queries (`get_xxx_info` and the like) read the driver; of them the choice of the function, the blocks and the
  strings are modelled, and not the numbers they push. Arguments that the code only passes on (sizes, names) are not in the models.
- Floating point numbers: `half` (packed as an integer of 16 bits), `float`, `double`.
- Image formats, image descriptors and pipe properties of `structs.c`: fields copied one by one, or none.
- The memory that Lua itself allocates (tables, strings, the stack), and its errors when there is none.
- Two hostmems over the same memory may overlap in a copy (`hostmem.c:226` is a `memcpy`); what the bytes
  are after it is not modelled. Nor is the depth of the Lua stack, which nested tables use up (`datahandling.c:74`).
- The numeric codes of the enums: a constant is its position in its type, and in `Loading` three records stand for
  the table. That no two codes of a type are equal is checked by `enums_new` when the module is loaded.
- Argument checks are the guards of actions: a call with wrong arguments raises an error
  before it changes anything, except where the model has a failing branch.
- A context's devices: one stands for the list, for it only keeps them alive.
- The tree is a function. That `tree.h` implements an ordered map is taken from it,
  vendored code that it is.
- Lua and OpenCL themselves are external: what the models say of them is how the code uses
  them.
- `versions.c`, `tracing.c` and the Lua helpers: set up at load or without state. The vendored
  files and the headers of OpenCL.

## Plan

Done, in this order: `Objects` with its runs, `ObjectTree`, `ObjectsProofs`;
`EventCallback`, `EventCallbackProofs`; `Commands`; `Calls` with the bodies of all files;
`Ranges`, `Hostmem`, `Buffers` and their proofs (`BoundsProofs`); `Conversions`; `Loading`;
`Literals`, `Queries`; `CommandsProofs`, `DriverProofs`, `ObjectsRefinement`, `LoadingProofs`; `Notices` and its
refinement; `Conversions` again, in a form without recursion, and `ConversionProofs`; `Lifetimes` and its refinement. Next:

1. What a kernel keeps of its arguments (`set_kernel_arg`), and the life of the bindings behind them.
2. Barriers, markers and flushes in `Commands`.
3. `checksize3` against the padding that the manual describes (`lists.c:231`).
