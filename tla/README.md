# Models of LibCMPC

TLA+ models of the parts of LibCMPC that are hard to test: the lock-free ring
buffer, the modality engine with its worker pool and its single-threaded loop,
the timers, the condition variable, the asynchronous reads and the watches of
the virtual file system, the router, the dispatch of events, coroutines, block
pools, and the holders of application state; and of what nearly every object of
the library does with memory when allocations fail.  TLC checks them on small
instances; TLAPS proves the main safety properties for every value of the
constants.  Paths are relative to the root of
the repository, and line numbers are those of the commit the models were
written from.  In `PROJECT.json` and in the comments of the modules the same
paths have the directory of the checkout, `src/`, in front.

## 1. The system

LibCMPC is a C89 library for GUI applications.  At its core is the *modality*,
a queue of tasks with one thread or a pool of threads that run them.  Around it:

- A **ring buffer** carries task nodes from the owner of a threaded modality to
  its workers (`src/cmp_modality.c:42`, `:188`), and copies of window and
  accessibility events to the application (`src/core/cmp_event.c`, pushed by
  `src/cmp_window.c` and `src/cmp_a11y_action.c`).
- **Tasks** are queued by the application, by the virtual file system for an
  asynchronous read (`src/core/cmp_vfs.c:320`), and by the network layer for a
  WebSocket or SSE loop (`src/cmp_http.c:426`, `:521`), which is one long task.
- A **timer** is a thread of its own; its callback runs on that thread.  A
  **watch** of the file system is one too.
- The **mutex, condition variable and semaphore** of `src/cmp_sync.c` are used
  by applications and tests; no other part of the library uses them.
- The **UI tree**, the router and the holders of application state (tabs, undo,
  toasts, focus, ...) belong to the thread of the loop.  What is hard in them is
  re-entrancy: listeners, guards and builders call back into what called them.

### Components

| component | state | operations | talks to | what makes it correct | here |
|---|---|---|---|---|---|
| ring buffer `src/cmp_ring_buffer.c` | array of slots, `head`, `tail` | init, push, pop, destroy | producers and consumers share its memory | first in first out, nothing lost or doubled, full and empty told apart, slots not raced on | modelled, proved |
| threaded modality `src/cmp_modality.c` | ring of task nodes, threads, `is_running` | init, queue_task, stop, destroy, worker loop | ring buffer, threads | no access after destroy, each node freed once, each task run once, accepted tasks run, destroy returns | modelled, proved |
| single modality `src/cmp_modality.c` | linked list of nodes, `is_running` | init, queue_task, run, stop, destroy | tasks call back into it | list sound and in order under re-entrancy, stop ends every nested run | modelled; safety proved |
| timer `src/cmp_timer.c` | a block and a thread per timer | system init and shutdown, start, stop, the thread | callbacks may stop timers | block outlives thread, bounded calls after stop, no early call, stop returns | modelled; safety proved |
| synchronisation `src/cmp_sync.c` | mutex, semaphore, condition variable | init, lock, wait, signal, broadcast | the system's primitives | no lost wake-up, mutex held after a wait | the Windows condition variable; safety proved |
| VFS mounts and reads `src/core/cmp_vfs.c` | list of mounts, contexts of reads | init, shutdown, mount, resolve, read sync and async | tasks of a modality | reads never meet freed mounts, newest mount wins, context and buffer live long enough and are freed | modelled (not the spelling of paths, nor the folders of lines 706-847); safety proved |
| VFS watches `src/core/cmp_vfs.c`, `src/cmp_file_watcher.c` | a block, a pipe and a thread per watch | watch, unwatch, the thread | callback on its thread | the watch outlives its thread, unwatch returns | the Linux build modelled; safety proved |
| event queue `src/core/cmp_event.c` | ring of 1023 copies | init, push, pop, shutdown | ring buffer, window code | every copy freed once, order | its memory; its order is the ring buffer's |
| event dispatch, UI tree `src/core/cmp_event_bubbling.c`, `src/cmp_ui.c` | tree of nodes, listeners | add, destroy, dispatch | listeners change the tree | every listener on the way hears the event once, in order | dispatch modelled and proved, without listeners that destroy nodes; memory of every node |
| router `src/cmp_router.c` | routes, stack of URIs, active view | register, push, replace, pop, switch tab, split view | guards and builders call back | the view shown is that of the top of the stack, no URI leaks | modelled and proved; the matching of paths abstracted |
| network `src/cmp_http.c`, `src/cmp_secure_network.c`, `src/cmp_network.c` | request, socket, exit flag | send, connect, close | external HTTP library, modality | what a request allocates is freed | its memory; the rest is the external library's |
| coroutines `src/cmp_coroutine.c` | state and context per coroutine | init, resume, yield, destroy | the system's contexts | control goes back to a resume that waits | modelled and proved |
| memory `src/core/cmp_memory.c` | tracked blocks, arenas, pools | alloc, free, reset | all | a block of a pool has one owner | pool modelled and proved; tracking is an insertion and a removal under one lock |
| ORM, observables `src/cmp_orm.c` | connection, bound property | bind, set, destroy | external database, UI nodes | bound string freed once | its memory |
| application state holders: tabs, undo, toasts, focus, windows, shader cache, docking, workspace, palette | arrays and lists with a cursor | add, remove, select, save, load | application | cursor and contents agree, also after a failure; a file cut short loads nothing that was never stored, but what a failed allocation has taken the type of | tabs, undo and shader cache modelled and proved; memory of all |
| gestures, scrolling | small state machines | pointer events | window code | floating-point geometry | memory |
| accessibility | array of nodes with copied strings | add, update | event queue | texts are replaced without loss or double free | memory |
| windows, platforms | handles of the system | create, poll, swap | system, event queue | handles and blocks are given back | memory |
| layout, drawing, animation | trees and paths | compute | UI tree | numerical | memory; not the numbers |
| themes, widgets | nodes of controls | build nodes | UI tree | a control that cannot be built gives back what it had | memory; not the tables of the themes |
| text, internationalisation, errors | strings and tables | convert, look up | all | conversions | memory; not what parsers find |
| platform services and stubs | flags, contexts | setters | none | bodies are comments or calls of the system | memory |

The hazards of each part, with their lines and the properties that cover them,
are in `PROJECT.json`; a hazard without a property says what would cover it.

## 2. Modules

| module | extends or instantiates | models |
|---|---|---|
| `BoundedQueue` | | the abstract queue: at most `Limit` items, operations in one step, a push refused only when full, a pop only when empty |
| `RingBuffer` | `BoundedQueue` as refinement target | push and pop, one action per access to shared memory |
| `RingBuffer_proofs` | `RingBuffer` | its theorems |
| `TaskQueue` | | what both modalities promise an application: tasks begin in order, each once, and none after the modality is destroyed |
| `ThreadedModality` | `BoundedQueue` as its queue, `TaskQueue` as refinement target | the worker pool and its owner |
| `ThreadedModality_proofs` | `ThreadedModality` | its theorems |
| `Vfs` | `ThreadedModality` | mounts, and reads that are tasks |
| `Vfs_proofs` | `Vfs`, `ThreadedModality_proofs` | its theorems |
| `SingleModality` | `TaskQueue` as refinement target | the loop over a linked list, with runs nested in tasks |
| `SingleModality_proofs` | `SingleModality` | its theorems |
| `Timer` | | timer threads and `cmp_timer_stop` |
| `Timer_proofs` | `Timer` | its theorems |
| `Condition` | | the Windows condition variable in a monitor |
| `Condition_proofs` | `Condition` | its theorems |
| `Watch` | | the watches of the file system, their pipes and threads |
| `Router` | | routes, the stack and the view, with callbacks that navigate |
| `Dispatch` | | an event on its way through the tree, with listeners that change it |
| `EditorTabs` | | open tabs and which is active |
| `UndoStack` | | the last ten states and a position |
| `ShaderStore` | | the shader cache and its file, over crashes and loads that run out of memory |
| `Coroutines` | | coroutines that resume each other on one thread |
| `BlockPool` | | the free list of a pool of blocks |
| `UserInterface_proofs` | `Router`, `Dispatch`, `EditorTabs`, `UndoStack` | their theorems |
| `Runtime_proofs` | `Coroutines`, `BlockPool`, `ShaderStore`, `Watch`, `Ownership` | their theorems |
| `Statements` | | the language in which the tables below say what a call does with memory |
| `Ownership` | `Statements` | the life of one object of any class, under failing allocations |
| `Widgets`, `UiNodes`, `Fluent2`, `Accessibility`, `Inputs`, `Texts`, `Graphics`, `Records`, `Services`, `Managers`, `Vectors` | `Statements` | the tables: the calls of the classes of the library |
| `MCOwnership` | `Ownership` and the tables | all classes, and what is known to go wrong in them |
| `MCApplication` | `MCOwnership` and the modules from `Watch` to `BlockPool` | their sum |
| `MC*` | the module of that name | instances for TLC |

**RingBuffer.**  `head` and `tail` are the two indices of the C structure and
wrap as they do.  A push is four steps (`PushLoadTail`, `PushLoadHead`,
`PushWrite`, `PushCAS`: lines 42, 43, 53, 61), a pop is too (86, 87, 98, 106);
a failed compare-and-swap goes back to the first.  `cur` holds the locals of a
call.  `accepted` and `taken` are history: what the successful compare-and-swaps
published and released; `seen` is how many items had been taken when a pop
loaded head.  `NoLap` says with it that nobody sleeps in a pop while the producer
comes round to the slot it is about to read: of the items behind those that had
been taken at that load, fewer have been accepted than there are slots.  One
consumer alone keeps to `NoLap` whatever it does; with several the code does not
see to it, and `ring_spmc` shows what follows.  Each step acts on one shared memory, in the order of
the program; section 5 says what that leaves out of the code's acquire and
release operations.

**ThreadedModality.**  The owner's program counter `opc` covers the loops of
`cmp_modality_threaded_init` (create threads) and `cmp_modality_destroy` (join,
then drain); a worker's `wpc` covers its loop (look at `is_running`, pop, run,
free).  A new thread runs while the owner still creates others.  A task may stop
the modality.  The queue here is `BoundedQueue`, so that a push or a pop is one
step; `RingBuffer` justifies that by proof, for one producer and as many consumers
as one likes, as long as no pop sleeps through a whole lap of the ring (`NoLap`).  The owner is the only producer; with tasks
that queue tasks there would be several, and run `ring_mpsc` shows why that is
not a way the ring buffer can be used.

**TaskQueue** is the promise that the engine makes ("Run your application
in single-threaded, multi-threaded worker-pool, or fully asynchronous [...] modes
without changing your business logic", `README.md:19`), as a specification that both modalities implement.  A task is new, waiting,
begun, ended or unrun: refused, or given up by the destruction.  `Stages` maps a
node and what happened to it to a stage.  In the threaded modality `closed` is
true while there are no workers; a single modality can be destroyed by one of its
tasks, and that task ends afterwards.

**Vfs** extends the variables and the actions of `ThreadedModality`: a read is a
task, `ReadAsync` is `QueueTask` with a context, and `WorkerRun` is spread over
`JobStart`, `JobWalk`, `JobRead`, `JobCall` and `JobFree`, the body of
`cmp_vfs_read_async_worker`.  A path is abstracted to the set of mounts it
matches, a file to success or failure.

**SingleModality.**  `frames` is the C stack: one entry for each active
`cmp_modality_run`, with the node whose task it is in.  Between any two steps of
the loop the running task may queue, stop, run again, or destroy.  `Destroy`
frees what a walk from `head` along `next` comes to; `InChain` says that without
recursion, so that it can be reasoned about.  `ListIs` says that the linked list
is a given sequence, and `Waiting` is the sequence it should be.

**Timer.**  A timer thread is `check` (line 49), `sleep`, `due` (56, before the
call), `callback`.  `MayStop` is what callers do: each timer is stopped once, by
the owner or by a callback.  `is_running` is a plain `int` shared by threads;
the compiler cannot keep it in a register across `usleep` or the callback, so
each look reads memory.  Time is counted in units of the sleep.

**Condition.**  The wait is `Register`, `Unlock`, `Wake`, `Leave`, `Reset` and
the lock of line 296; signal and broadcast look at the count under the inner
lock and set the event outside it.  The monitor around it (waiters take items,
notifiers add them) is the usual way to use a condition variable and is marked
external.

**Watch.**  A thread is at `loop` (line 415), `select` (423), `events` (438) or
`callback` (441).  `cmp_vfs_unwatch` is `UnwatchBegin` (663), `UnwatchSignal`
(680), the join, and the frees (`UnwatchEnd`).  It is called by the owner or by
the callback of another watch, as the constant `Unwatched` says: a callback that
unwatches its own watch joins its own thread, and two that unwatch each other
never return.  The thread may call the application before `cmp_vfs_watch_path`
has stored the watch in `*out_watch` (650).

**Router.**  To navigate is to call the guard and the builder of the first route
that matches; `frames` is the C stack of those calls.  Between a call and its
return the callback may navigate itself, within what `Within` allows.  The
assumption `WithinAssumption` is the contract that applications have to keep,
and is as wide as the code allows.  What it excludes breaks the code, not only
the property: a builder that pops during a pop is given a URI that has been
freed (line 341), and a switch of tabs that fails in the builder of a replace
leaves an empty stack whose element -1 is then freed (320).  A pop whose callback navigates
leaves another URI on top than is shown; `outcome` calls it "redirected".
A navigation that fails may leave an old view over a new stack (lines 264 and
341): the model does too, and `ShownIsTop` asks only that the next navigation
which succeeds puts it right.

**Dispatch.**  `visits` is the journey, gathered before any listener is called;
`rest` is the part of a list that the walk has not reached.  A listener may add
listeners, to the node the event is at too, and give nodes other parents.
`Lineage` is what the walk along `parent` gathers.  `due` is the calls that have
to be made, each known by how many visits and how many listeners are left when
it is: listeners are added in front, so these numbers stay.

**Coroutines.**  Who runs is kept by the system (`running`), by the local
storage of the thread (`key`) and in `caller`.  `Resting` is what callers owe:
no coroutine resumes itself or one that waits for it, and only one that rests is
destroyed.

**BlockPool.**  Pointers are offsets, from one before the buffer to one past it.
Callers free what they hold, or something that is no block.

**UndoStack, EditorTabs, ShaderStore** keep the numbers and arrays of the code
and leave out the texts.  A push of the undo stack that runs out of memory has
dropped the oldest state.  The file of the shader cache may end in the middle of
an entry.  A load that runs out of memory for an entry stops there; one that
runs out of it for the handle of a shader goes on and stores the shader without a
type (`src/cmp_shader_cache.c:193`, whose result nobody reads), which a later
save writes to the file: `WithoutHandles` takes the type of any of the loaded
entries away, and `starved` remembers their keys.  Two things that the code does are in the models and no property
forbids them: a push after an undo keeps the states that were undone, and
loading a file reverses the order of its entries, so that after a restart an
older entry may hide a newer one with its key (`src/cmp_shader_cache.c:81`).

**Ownership.**  A class is a record of calls and a call a sequence of
statements: allocate, free, move, use, each on a field, with what a failed
allocation frees before it returns.  `Ownership` runs the calls of one object in
any order; each allocation may fail and each optional part may be passed over.
Elements of an array are one field.  An array whose capacity is doubled before
it has grown has a field `room`, which is missing until it has.  What is freed
twice in the model is freed by `cmp_mem_free_tracked`, which looks the address
up and answers that it is not there, unless it has been given out again in the
meantime (`src/core/cmp_memory.c:57`); then a block of somebody else is freed.
`Tidy` is a discipline that can be read off a class, one free at a time: a
pointer that is freed without being set to NULL is given another block by the
next statement, or is not mentioned any more and ends with the call; and a call
that may fail half-way frees only what ends with it.  `FreedOnce` also says that
every class keeps to it, but for the four with a known double free.

Definitions whose name extends that of another, with a comment "A plausible
bug" (`FullNeverSeen` beside `Full`), are not used by any specification.  Putting
one in the place of the other makes the property it is paired with in
`PROJECT.json` fail, which shows that the property depends on that code.

## 3. What TLC checks

| run | instance | states | shows |
|---|---|---|---|
| `ring` | 1 producer, 2 consumers that it does not lap, 5 items, 3 slots | 84k | FIFO, nothing lost, no race on a slot, implements `BoundedQueue` with limit 2, every accepted item comes out |
| `threaded` | 2 workers, 3 tasks, queue of 2, 2 inits | 35k | no use after free, no leak, implements `TaskQueue`, accepted tasks run, destroy returns |
| `single` | 3 tasks, runs nested 2 deep | 1.6k | no use after free, no leak, implements `TaskQueue`, stop ends runs, accepted tasks begin |
| `timer` | 2 timers, 2 intervals, one callback stops the other timer | 49k | block outlives thread, one late call at most and a one-shot timer once, not early, stop returns, started is called |
| `vfs` | 2 workers, 2 reads (one without callback), 2 mounts, queue of 1 | 214k | reads meet only live mounts, newest mount wins, contexts and buffers, still a modality, accepted reads answered |
| `condition` | 1 waiter, 2 notifiers, 4 items | 11k | the mutex is held after a wait, no wake-up lost, none out of nothing, a sleeper wakes |
| `application` | one of the nine parts below, which share no state | 307k | what each of them promises |

The parts of `application`, each a choice of `subject` in the first state:

| part | instance | property |
|---|---|---|
| objects | every class of the tables | `NothingLeaks`, `FreedOnce`, `UsesLiveBlocks`, but for the known faults |
| router | 2 URIs, 3 paths (one with a dynamic segment), 2 routes, a stack of 2, navigations 2 deep | `ShownIsTop`: after a navigation that succeeded the view is the top's, whatever failed before |
| tabs | 4 tabs | `ActiveTabStays`: moving tabs and closing others keeps the active one |
| undo | the 10 states of the code | `UndoReadsLiveState` over failing pushes |
| pool | 3 blocks of 2 | `BlocksAreConserved` |
| shaders | 2 keys, 2 types, 2 entries | `RetrievedWasStored` over crashes, full disks and handles that cannot be allocated |
| coroutines | 3 | `ResumersWait` |
| dispatch | 3 nodes, 2 listeners | `HeardOnTheWay` |
| watches | 2, one of which may unwatch the other; 2 changes each | `WatchOutlivesThread`, `UnwatchReturns` |

Five runs end in a counterexample; each is a disagreement between the code and
a statement in the repository, quoted in `PROJECT.json`:

- `ring_mpsc`: two producers write the slot of the same tail before one of them
  claims it.  An item comes out twice and another is lost.
- `ring_spmc`: two consumers; one sleeps between reading the slot and its
  compare-and-swap while the other goes all the way round.  The index is the
  same again, the compare-and-swap succeeds, an item is taken twice.  On the
  ring of a modality (16,384 slots) a worker must sleep for 16,384 tasks.
- `timer_selfstop`: a callback stops its own timer.  The join fails with
  `EDEADLK`, which is not read, and the block is freed under the thread.
- `vfs_leak`: a modality is destroyed with reads in its queue.  Their nodes are
  freed, their contexts are not, and the callbacks are never called.
- `condition_two`: two waiters, two signals.  The second finds the auto-reset
  event set already, and one waiter sleeps beside an item.

### Known faults of the objects

The tables name what goes wrong in them (`WidgetFaults`, `UiNodeFaults` and so
on: a class, a fault, a call), and the three properties hold but for these; an
entry that is taken away makes one of them fail.  Those that leak are at odds with
the zero leaks of `ARCHITECTURE.md:10`, which `vfs_leak` quotes.  They are, by
kind:

- *A failed allocation behind a free.*  `cmp_ui_node_bind`
  (`src/cmp_orm.c:178`), the routes of a split view (`src/cmp_router.c:528`),
  and `update_now_playing` of a media player leave a pointer to the freed text,
  which the next call or destroy frees again; so do the segments of a segmented
  control, which are then read too.
- *A capacity that is doubled before the array has grown.*  Tabs
  (`src/cmp_tab_navigation.c:65`), toasts, docking panels and the command
  palette write behind the end of the array in the next call.
- *Creations that fail half-way* and lose what they had: most Fluent 2 controls,
  menu items, tabs of a tab bar, SVG `use`, list rows, commands, the fonts of the
  system.
- *Properties of nodes* (`node->properties`), which `cmp_ui_node_destroy` does
  not free: those of buttons, check boxes, radio buttons, images, sliders and
  grids, and of the Fluent 2 controls.
- *Replaced without being freed:* the suggestions of a search, the items of a
  wheel picker, the tracks of a grid, the CSS of an SVG node.
- *Results that are not read:* Markdown nodes and syntax spans are linked where
  there is none.
- The root URI when tabs are switched (`src/cmp_router.c:482`), and a shader
  read from the disk that could not be stored.
- The context of a WebSocket or SSE task (`src/cmp_http.c:414`, `:509`) whose
  modality is destroyed before it runs: `cmp_modality_destroy` frees the node
  only (`src/cmp_modality.c:290`), as with the reads of `vfs_leak`.

A further counterexample is at hand but has no run of its own: put 4 in
`Intervals` of `MCTimer.cfg` (4 times 2 is 0 modulo 8) and `NotEarly` fails.
The product of line 53 wraps in the same way from 4,294,968 ms (71.6 minutes)
on, and such a timer calls early.

### Bounds, and why they are enough

- *Ring buffer.*  Five items in three slots make slots be written twice and meet
  full and empty; they are numbers, offered in one order, since the code never
  looks at an item.  Each item is offered once, so that an item names its push.
  Two consumers race for head.  The run takes only pushes that keep `NoLap`;
  without that, five items are enough to lap a consumer, and all three safety
  properties fail.  `ring_spmc` shows it as a run of its own.  The proofs
  cover any number of consumers, items and slots.
- *Threaded modality.*  Two workers race with each other and with the owner;
  three tasks overfill a queue of two; two inits show what a destroy leaves
  behind.  A third worker adds no new pair of steps, and the proofs hold for any
  number.
- *Vfs.*  The queue of one is full with the first read.  `e1` matches both
  reads and `e2` one, so resolution depends on which mounts there are and on
  their order.  Entries and reads are allocated once each: memory the allocator
  hands out again is a new member.
- *Single modality.*  Three nodes give a list with an inner node; two activations
  give a run inside a task.
- *Timer.*  A millisecond of two units and an `unsigned int` of eight values keep
  the shape of 1000 and 2^32: intervals 1 and 3 do not wrap, 4 does.  `slept`
  stays below the width; calls are counted up to 2 (`CountCap`), which is enough
  to tell one from more.
- *Condition.*  `MaxAdded` items bound the length of a behaviour, with more items
  than notifiers so that each comes back; `wakes` is counted up to one more than
  `sets` can reach.
- *Router.*  Two URIs, one of which two routes match, and a stack of two have
  every navigation fail and succeed; two navigations deep is one inside the
  callback of another.  *Tabs*: four are enough to close and move on both sides
  of the active one, and the proof covers any number.  *Dispatch*: a chain of
  three has a root, an inner node and a target that change places.
  *Coroutines*: three give a caller, a callee and one that takes over.  *Undo*
  has the code's own limit.  *Shaders*: two entries give a file that ends in
  the middle of the second, and one entry that a load takes the type of beside
  one it does not.  *Watches*: two, so that one stops the other; a
  buffer of two changes outlives the call that stops it.
- *Objects* have no bound: a call runs to its end, and an object has finitely
  many states.
- No run uses symmetry: those with liveness must not, and the others do not
  need it.

`CHECK_DEADLOCK FALSE` appears in the runs of `Condition`, where a waiter may
wait for ever when nobody adds an item any more, and in `application`, where an
object that has been destroyed and coroutines that were used up have nothing
left to do: neither is a fault.  Everywhere
else a state without successor is an error.

### Fairness

Fairness stands for what the operating system and the callers owe the code:

- a thread that can take a step takes one sooner or later (`WF` of each worker,
  each timer thread, each watch, of the steps inside a wait, a signal or a broadcast), and
  the loop of a single modality goes on;
- a task, a callback or a file read returns (the step that leaves it is part of
  the same `WF`);
- a loop of the owner that creates or joins threads goes on once it has begun
  (`SpawnWorker \/ Finish`, `StopEnd`, `UnwatchSignal \/ UnwatchEnd`), and time passes (`Tick`);
- a consumer calls pop again, as the worker loop does.

Nothing makes an application queue, start, stop, destroy or add: these are never
fair.  Weak fairness is enough: no property needs a step that is enabled only
now and then, except taking a contended mutex, and there `Condition` asks only
that a thread which already owns it goes on.

## 4. What is proved

All theorems are checked by TLAPS.  They assume of the constants what the
modules assume (`Capacity`, `NumWorkers` and the like are positive, `NULL` is
not an item) and nothing of their size; tasks, items, reads and mounts may be
infinitely many.

**RingBuffer**: the types (`TypeCorrect`), `NothingIsLost`, `SlotsDoNotRace`,
`NothingIsTakenTwice`, and `Implementation`, which is the refinement of
`BoundedQueue`.  All five are about one producer (`OneProducer`) and any number
of consumers, and say `Spec /\ []NoLap => ...`; `OneConsumerIsNotLapped` proves
`[]NoLap` where there is one consumer, so that nothing is assumed of that use.
For several, `NoLap` is a condition on the scheduling that the code does not
enforce; in the ring of a modality a worker has to sleep for 16,384 tasks to
break it.  `NothingLost` is not inductive: a push writes
a slot knowing only what it loaded two steps ago.  The invariant `IInv` adds
`LocalView`: a producer's copy of tail is current, a slot it found free is still
free, the slot it wrote still holds its item; and a consumer's copy of head is as
many slots behind head as items were taken since it was loaded (`Distance`).
So a compare-and-swap that finds the same index finds it in the same round,
which is where `NoLap` is used.  `NothingIsTakenTwice` adds
that no item is published by two pushes (`PushedOnce`).  The
arithmetic of wrapping indices is in `NextIndexValue`, `Geometry`,
`TailAdvances`, `HeadAdvances` and `RoomStays`, stated without the modulus.  The
refinement mapping is `Contents`, the slots from head to tail; the compare-and-
swap is where a push or pop takes effect, and a refused call takes effect at its
second load.

**ThreadedModality**: `TypeCorrect`, `DestroyIsSafe`, `TasksRunOnce`,
`NodesAreFreed`, for any number of workers.  `Inv` strengthens them with
`LifeCycle` (what the owner's place says of the block and of the workers: those
joined have exited, after the joins nobody is alive), `NodeHasOneHolder` (a node
is in one place: the queue, or the hands of one worker), `WorkerView` (the task a
worker is about to run has not run) and `LiveHasHolder` (an allocated node is
queued or held: the converse of `NodeHasOneHolder`, and what excludes leaks).
`WorkersKeepThePromise` is the refinement of `TaskQueue`: a pop is where a task
begins, freeing its node is where it ends, and the joins are where nothing begins
any more.  It needs one invariant beyond `Inv`, that a worker which frees a node
has run its task (`FreesWhatRan`), and gives the properties that single steps do
not show: the order, and that what destroy finds in the queue never runs.

**Vfs**: `ReadsAreTasks` shows `VfsSpec => Spec`, so every theorem about the
modality holds here; `MountsOutliveReads` proves `ReadsMeetTheMounts` on top of
them.  `VfsInv` says where a worker is in a read agrees with where it is in the
modality (`JobView`), that the file system is up while a read is queued or runs
(`UpForReads`), and that live entries link to live entries (`ListIsLive`).  The
step that matters is `Shutdown`: by `LifeCycle` the queue is empty and no worker
lives once the modality is destroyed.  That the application shuts down after it
has destroyed the modality is a guard of `Shutdown`: the code does not enforce
it, and the test of the file system does it (`tests/core/test_cmp_vfs.c:107`).

`ContextsOutliveReads` proves `ContextOutlivesJob`.  A context passes through
three hands, and `ReadInv` says whose it is for each place of a read: the
caller's when the queue refused it, the queue's, and the worker's until it frees
it; the buffer goes to the callback, or is freed with the context if there is
none.  `NewestMountFound` proves `NewestMountWins`, with no lock between the
owner that mounts and the workers that walk.  `ListIsOrder` says that the list is
the mounts in the order they were made, newest first, whatever is added; so a
walk only goes down that order, and `WalkInv` says that nothing it has passed
since its start matches.

**SingleModality**: `TasksStartInOrder`, `LoopIsSafe` and `ListIsFreed`, for any
number of tasks and any depth of nested runs.  `ListInv` says that the list links
the accepted tasks that have not begun (`Linked`), that each activation of the
loop holds the node of another task (`Held`), and that a live node is in the list
or held (`Accounted`, which excludes leaks).  `WalkIsList` shows that the walk of
`Destroy` meets exactly the list.  That is an induction along the list; it is
done with the least number that is a counterexample (`LeastNumber`).
`LoopKeepsThePromise` is the refinement of the same `TaskQueue` as that of the
workers: the loop begins the head of the list, a nested run the head of what is
left, and a destroy discards all that is left.  So an application that relies on
`TaskQueue` alone may change its modality.

**Timer**: `BlocksOutliveThreads` for any timers, whoever stops whom, as long as
no callback stops its own timer: `timer_selfstop` shows that the hypothesis is
needed.  `AtMostOneLateCall` needs no hypothesis.  Its invariant follows a thread
between its look at `is_running` (line 56) and its call: only there can one call
still come.  `IntervalsAreSlept` is for intervals whose microseconds fit an
`unsigned int`; for those that do not it is false (section 3).

**Condition**: `MutualExclusion` for any number of threads; `OneWaiterIsWoken`
and `WakesUseUpSets` for one waiter, any notifiers and any number of items.  The
invariant `Announced` says that an item added while the waiter waits comes with a
set event or with a notifier on its way; `Backed`, that the sets of the events
which no wait has answered yet pay for the events that are set.  The hypothesis
is needed for the first: `condition_two` refutes it for two waiters.

**Router**: `ViewIsTop` for any routes, stacks and depth of nesting, under
`WithinAssumption`.  The property speaks of the end of the outermost navigation;
`RouterInv` says of each one that is under way what it will leave when it ends:
a pop whose callbacks did not navigate shows the top already left by it
(`PopShowsTop`), and under a pop there are only pushes (`PopsNestPushes`).
`StackOutlivesCallbacks` is why the assumption is what the code needs: under it a
replace always has a top to free, and the URI that a pop shows is on the stack
until its builder has returned.

**Dispatch**: `ListenersHearOnce` for a tree of any shape and any listeners.
Counted from the end, a visit and a place in a list do not change when others are
added in front, so `Coming` can say where the listener of a call still is, and
`RestIsEnd` that the walk is at the end of its list.  `NotAgain` says that what
was called is met by no visit that is left: a node is visited twice only on the
way down and on the way up (`DownAndUp`), where different listeners hear.  That
the chain of ancestors has no node twice (`LineageIsDistinct`) follows from its
having an end; that it has one is kept by `cmp_ui_node_add_child` as long as
nobody makes a node the child of one below it, which the code does not check.

**Watch**: `WatchesOutliveThreads` for any number of watches and any relation
`Unwatched` without a watch that unwatches itself.  The invariant says that the
thread of a watch that has been freed has exited, and that a watch without a
block has no thread: the join comes before the frees.

**Coroutines**: `ResumersAreReturnedTo` for any number of them.  The coroutines
that wait for each other form a chain from the thread's own context to the one
that runs (`ChainInv`), and a resume makes the chain longer at that end, a yield
or a return shorter.

**ShaderStore**: `CacheReturnsWhatWasStored`: every entry in memory and every
whole entry of the file is one that was stored, or one that a load has taken the
type of (`OnlyStored`, `Known`), wherever writes were cut off and however often
the file was loaded.  Only a shader that has a type can lose it, so by induction
each key that has lost one was stored with one.

**EditorTabs**: `MarksAgree` shows that the `is_active` of the tabs and
`active_index` always name the same tab, which is the invariant
`ActiveTabIsKept` needs: closing looks at the index and moving at the marks.

**UndoStack**: `UndoReadsWhatIsThere` for any limit.  The invariant is that the
position is at most one ahead of the count, and only of an array that has just
lost its oldest state.

**BlockPool**: `BlocksAreSharedByNobody` for any number of blocks of any size.
`PoolInv` names the free list as a sequence that reaches every block nobody
holds, each once; that a pointer which passes the two checks of `cmp_pool_free`
is a block is `BlocksAreOffsets`.

**Ownership**: `TidyClassesFreeOnce` and `TidyClassesUseNothingFreed`, for any
class that is `Tidy`, however many fields and calls it has: whichever allocations
fail and in whatever order its calls are made, no block is freed twice and no call
follows a pointer whose block is gone.  The tables are finite and TLC goes through
them all; the theorems are about the classes that are added or changed, for which
the discipline is enough and no state has to be looked at.  The invariant
`TidySoFar` says of a pointer whose block is gone that the statement which comes
next replaces it, or that nothing in the rest of the call mentions it and it ends
with the call (`EndsUnmentioned`); in particular none is left between two calls.

Only model-checked:

- Liveness: fairness and `ENABLED` are beyond the prover.  These are
  `EveryAcceptedIsTaken`, `AcceptedIsRun`, `DestroyReturns`, `AcceptedIsAnswered`,
  `StopReturns`, `StartedIsCalled`, `StopEndsRuns`, `AcceptedIsStarted`,
  `SleeperIsWoken`, `UnwatchReturns` and the fairness of `IsModality`; its safety
  is `ReadsAreTasks`.
- `NothingLeaks` and `UsesLiveBlocks` of `Ownership`, and `FreedOnce` of the four
  classes that are not tidy.  They are about the classes in the tables, and TLC
  goes through all their behaviours, which are finite.  That a block is there
  where it is used, and that destroy comes to every block, depends on what the
  calls of a class have in common, which no discipline as simple as `Tidy` says.

## 5. What is left out

- In the modules other than `Ownership`, allocation failures that change nothing
  are not steps.
- Calls that the code cannot survive and does not forbid: a listener that
  destroys a node the event still has to visit
  (`src/core/cmp_event_bubbling.c:67`), a node with two parents, both of which
  destroy it (`src/cmp_ui.c:448`), a block freed twice to its pool, a coroutine
  that resumes itself, a watch that unwatches itself.  The models exclude them
  by the guards named in section 2.
- Of the tables: numbers, flags, the contents of texts, and the calls of the
  system or of other libraries between two statements.
- The tables of the themes and the example applications.
- `pthread_create` that fails inside `cmp_modality_threaded_init` (line 102):
  the result is not read, and joining a thread that was never made is undefined.
- A stop that comes before `run` in the single modality is overwritten by it.
  The model has the step; no statement of the repository says what should
  happen, so no property does.
- Weak memory.  The code publishes an index by a compare-and-swap with release
  order and reads the index of the other side with acquire order, so a slot is
  seen as it was when its index was published; with one producer and one
  consumer the relaxed loads (lines 42 and 86) are of an index that only the
  loading thread writes, and a late view of the other index can only make a
  buffer look fuller to a push, or emptier to a pop, than it is.  With several
  consumers the relaxed load of head may, on a machine that reorders loads, be
  performed after that of tail, which no run here covers: `ring` speaks
  of machines that keep loads in order.
- `is_running` is a plain `int` between threads in the modality and in the
  timer, read afresh at each look as explained above.
- The reset of the broadcast event after the lock is released
  (`src/cmp_sync.c:293`) can wipe out a later broadcast when there are two
  waiters.  The model has the step; `condition_two` stops at a shorter fault.
- The pthread build of the condition variable, mutexes and semaphores: one call
  each to the system.

## 6. Plan

1. The **semaphore** of the Apple build (a count under a mutex and a condition),
   and the **exit flag** of the WebSocket loop as a task that returns only when
   it is told.
2. **Dispatch** with listeners that destroy nodes other than those of the chain,
   and **focus**, which stays marked on a node that has lost it.
3. The **watches** of the Windows and BSD builds, as instances of one module with
   the object they wait on as a parameter.
4. Theorems: what a signal does that finds the event clear, with more than one
   waiter; and a discipline like `Tidy` for leaks.
