# TLA+ model of the binder driver (`src/module/new/binder.c`)

This directory holds a TLA+ model of the rewritten Android binder kernel module.
The model is checked with TLC. Every definition is translated from
`src/module/new/binder.c`. `PROJECT.json` maps each definition to the lines it
stands for. It also lists the runs, the mutants, the findings and the hazards.

## The system

The driver is one character device. Each `open` creates a **binder_proc**. Each
thread that issues an ioctl on the descriptor gets a **binder_thread** through
`binder_get_thread`. The parts are:

| Part | Code | State |
|---|---|---|
| process / thread records | `binder_new_proc`, `binder_new_thread`, `binder_get_thread` (172-254) | `proc->queue`, `max_threads`, `num_loopers`, `pending_loopers`; `thread->queue`, `incoming_transactions`, `pending_replies`, `state`, `last_error` |
| object registry | `_binder_find_obj`, `_binder_new_obj` (331-407) | `proc->obj_tree`: (owner queue, binder ptr) -> object with `real_cookie`, `notifiers` |
| flat-object translation | `bcmd_write_flat_obj`, `bcmd_read_flat_obj`, `bcmd_write_msg_buf` (447-547) | rewrites BINDER <-> HANDLE and creates registry entries |
| message queues | `bcmd_*_msg` wrappers (549-627) over `msg_queue`, which is not in `src/` | FIFO queues of `bcmd_msg` |
| write side | `binder_thread_write` (813-871): `bcmd_write_transaction`, `bcmd_write_notifier`, `bcmd_write_looper` | |
| read side | `binder_thread_read` (1031-1097): `bcmd_spawn_on_busy`, `bcmd_read_transaction`, `bcmd_read_notifier`, `bcmd_read_dead_binder` | |
| ioctl layer | `binder_ioctl` (1172-1228), `cmd_set_max_threads`, `cmd_set_context_mgr` | globals `context_mgr_obj`, `context_mgr_uid` |
| release | `binder_release` -> `binder_free_proc` -> `binder_free_thread`, `free_queued_msg` (157-329) | |
| poll / mmap / flush / init | empty stubs (1230-1269) | none |

**How the parts interact.**

- **Sending a call.** A BC_TRANSACTION names its target by handle. Handle 0 is
  `context_mgr_obj`. Any other handle is looked up in the *caller's own*
  registry, under the caller's own queue as owner. The message is appended to
  the target object's owner queue, which is a `proc->queue`. The sender then
  gets a BR_TRANSACTION_COMPLETE on its own thread queue. A synchronous call
  raises `pending_replies`.
- **Receiving a call.** A reader takes messages from its thread queue while that
  queue is non-empty or while it owes replies. Otherwise it takes them from the
  process queue. A synchronous transaction that is read is pushed on the
  reader's `incoming_transactions`.
- **Replying.** BC_REPLY pops the top of `incoming_transactions` and sends the
  reply to the saved `reply_queue`, which is the caller's thread queue.
- **Death notifications.** Requests and clears travel through the owner's
  process queue. The reader of that queue stores or removes the notifier.
- **Release.** Release drains every queue. Each queued synchronous call becomes
  a BC_DEAD_BINDER sent to its caller. Each death notifier is fired.
  `binder_free_proc` frees the threads in pid order (`ord`, any order of the
  process's threads), so a call whose caller is a thread of the same process
  that was freed earlier is written to that freed thread's queue. Only the
  first `kmalloc` of a death notification can fail: the next step writes to
  the process's own freed queue, so its message is kept and reused and never
  allocated again. That failure returns -ENOMEM with `proc->lock` held and
  leaves the process in state "enomem".

## Module

**`Binder.tla`** covers the whole driver. **`BinderCall.tla`** is the abstract
specification of one call's lifecycle, which `Binder` is shown to implement.
**`ObjTree.tla`** is one process's `obj_tree` as the red-black tree it is (see
*The object tree* below); `Binder` keeps the registry as the map the code
means. Queues are named by their owner:
process `p` for `proc->queue`, thread `t` for `thread->queue`.

**Variables.** Each variable is the field of the same name:

- per process: `procq`, `objs`, `notifiers`, `numLoopers`, `pendingLoopers`,
  `maxThreads`;
- per thread: `tq`, `incoming`, `pending`, `state`;
- global: `ctxMgr` (`context_mgr_obj`), `ctxUid`, `ctxRet`.

Bookkeeping variables:

- `pc`, `rsz`, `out` and `held` give the position of a thread inside a
  multi-step ioctl. `rsz` is the read-buffer space left and `out` is what the
  current read has written. `held` is a message taken off a queue on ENOSPC.
- `sent` counts each thread's messages. It is bounded and gives the ids.
- `procState` is open, released, "bug" (the BUG_ON fired) or "enomem" (release
  returned -ENOMEM half way).
- `oops` records the memory-safety faults the code hits: a write to a released
  queue ("stale queue") and the NULL dereference of BC_REPLY ("null deref").

`last_error` is not kept. No code reads it: the `if (err) {}` at line 867 is
empty.

**Actions.** There is one action per command or handler branch:

- write side: `Transaction`, `Reply` (as written: it oopses), `ReplyFixed`
  (corrected, see below), `Complete` (the TR_COMPLETE tail of
  `bcmd_write_transaction`), `Notifier`, `EnterLooper`, `ExitLooper`,
  `RegisterLooper`;
- ioctl settings: `SetMaxThreads`, `SetContextMgr`;
- read side, one step per loop iteration: `StartRead` (spawn-on-busy),
  `ReadTransaction`, `Rehead` (ENOSPC put-back), `ReadNotifier`,
  `ReadDeadBinder`, `ReadUnknown` (the default case), `ReadEmpty`,
  `ReadReturn`;
- `Release(p)`.

**Translation.** The flat-object translation is modelled by what the code does
to one descriptor. Both offsets loops never advance their cursor (lines 534 and
904). The outcome is therefore one of these:

- the message is sent;
- it is refused, because of the inverted test at 682;
- the ioctl spins for ever (`pc = "spin"`);
- the read fails with EFAULT.

Each outcome comes with the registry entries that the repeated pass creates.

**Initial state.** `Init` is the state just after every `open` and every
thread's first ioctl. Each `thread->state` is an arbitrary member of
`StateGarbage`, because `binder_new_thread` never initialises it.

**Two deviations, both disclosed.** Two lines of `bcmd_write_transaction` and
`cmd_set_context_mgr` stop the driver as written from doing anything useful.
The model keeps each as written and also gives a corrected form.

1. `cmd_set_context_mgr` returns EBUSY when `context_mgr_obj` is NULL (line
   1132). As written, no context manager can ever be set. `binder_find_obj`
   only finds the caller's own objects. So no message can ever cross
   processes. `SetContextMgrFixed` returns EBUSY when a manager *is* set, the
   evident intent.
2. The BC_REPLY branch calls `obj_id_init(&msg->obj_id, NULL, NULL)` (line
   671). That sets `owner = proc->queue` through a NULL `proc` (line 140), so
   every BC_REPLY that pops a request oopses: the replying thread dies in the
   ioctl (`pc = "oops"`), the popped request is on no queue, and no reply is
   sent. `Reply` is this. `ReplyFixed` gives the message an obj_id of (NULL,
   NULL), the evident intent, and sends the reply.

The specifications are:

- `Spec`: the driver as written. Only the `ctx_mgr_as_written` run uses it.
- `SpecFixedCM`: `SetContextMgrFixed` and `Reply` as written. It is used by
  every violation run except `ctx_mgr_as_written`, and, with `Fairness`
  (`FairSpecFixedCM`), by the `live` run.
- `SpecFixed`: `SetContextMgrFixed` and `ReplyFixed`. Only the safety runs
  `core` and `solo` use it. The oops leaves a request popped and nothing sent,
  as a refused reply of `ReplyFixed` does. So `SpecFixed` has every behaviour
  of `SpecFixedCM` except the oops itself, which `MemorySafe` reports, and
  invariants that hold under it hold for the replies the code meant to send.

Line 704 also uses `obj` outside the block that declares it, so the file does
not compile as written. The model reads it as the target object of a
BC_TRANSACTION.

## The object tree

`ObjTree.tla` models `proc->obj_tree` on its own:

- a tree is a record of functions over node slots `1..MaxObjs`: `key`, `left`,
  `right`, `parent`, `red`, plus `root` and `size`, with 0 the NULL node;
- `ObjIdCmp` is `obj_id_cmp` as written, with the pointer difference reduced
  modulo `2^Width`, as the `size_t sign` does;
- `Walk` is the descent shared by `_binder_find_obj` and `_binder_new_obj`,
  `FindObj` the lookup, `NewObj` the insert. The insert returns an object
  another thread linked meanwhile, or links a red node at the end of the
  descent and calls `InsertColor`;
- `InsertColor`, `Rotate` and `ChangeChild` are the kernel's `rb_insert_color`,
  which `_binder_new_obj` calls at line 397. It is library code and not in
  this repository; they follow its algorithm;
- each thread does `Lookup` (the find of `bcmd_write_flat_obj` or
  `bcmd_read_flat_obj`) and, on a miss, `Insert` (`_binder_new_obj`).
  `obj_lock` is dropped between the two, so another thread may link the same
  id first.

`RegistryIsAMap` says that the tree holds each id at most once and that
`FindObj` finds exactly the ids stored in it. The first half is about the
race between `Lookup` and `Insert`. A `NewObj` that skipped its own descent
would link a second copy when two threads intern the same id. `MCObjTree.cfg` has two threads, owners {1, 2} and binders {0, 1} (the
0 of the context manager's object), four distinct ids, and room for five
nodes. With the comparator as written the property fails after three inserts:
`sign > 0` holds for every non-zero `size_t`, so every descent turns right, and
the rotation of the third insert puts the first object in a left subtree. The
same check with a signed comparator (`SignedObjIdCmp` of `MCObjTree.tla`
substituted for `ObjIdCmp`) passes. So does a check of the red-black rules,
the search order and the parent links over six ids. Neither is a listed run.

`Binder` reaches three objects in one process: the context manager's
`(A, NULL)`, a BINDER `(A, ptr1)`, and a HANDLE reference `(B, ptr1)`. Its
registry is the map the code means, so beyond two objects it is more
forgiving than the driver as written.

## Runs

`MCBinder.tla` instantiates the model. It has processes A and B, threads `a1`
(A) and `b1` (B), one binder pointer and one cookie. The payloads are:

- no data;
- data without offsets;
- a BINDER descriptor;
- HANDLE descriptors naming an object of A, an object of B, or an owner with no
  queue.

| run | cfg | expect | shows |
|---|---|---|---|
| core | MCBinder.cfg | pass | two processes calling through the context manager, replies, TR_COMPLETE, ENOSPC, releases: `ReplyAccounting`, `CallerNeverServesOwnCall`, `TypeOK`, under `SpecFixed` (168k states, ~40 s) |
| solo | MCBinderSolo.cfg | pass | one process and thread: self-calls, garbage looper state, max_threads and spawn, death-notification request and clear: `ReplyAccounting`, `CallerNeverServesOwnCall` under `SpecFixed` (240k states, ~20 s) |
| ctx_mgr_as_written | MCBinderCtx.cfg | violation | `ContextMgrSettable`: the first SET_CONTEXT_MGR gets EBUSY |
| bug_on_release | MCBinderBugOn.cfg | violation | `ReleaseCompletes`: a queued one-way call and close hit BUG_ON (the -ENOMEM exit of a release with notifiers breaks it too) |
| translation_spins | MCBinderSpin.cfg | violation | `TranslationTerminates`: a BINDER object spins in `bcmd_write_msg_buf` |
| looper_counts | MCBinderLoopCount.cfg | violation | `LooperCountsNonNegative`: REGISTER without a spawn |
| released_queue | MCBinderStale.cfg | violation | `MemorySafe`: handle 0 after the manager closed (the shortest trace); the NULL dereference of every BC_REPLY is reached too, in 7 states; `a1` and `a2` are both in A (`TwoInAProcOf`) so release in pid order can also divert a call into a freed thread queue of A |
| orphaned_wait | MCBinderOrphan.cfg | violation | `NoOrphanedWait`: a caller left waiting with nothing in flight; the shortest trace is a read that fails with EFAULT after taking the call off the queue and frees it |
| obj_tree_lookup | MCObjTree.cfg | violation | `RegistryIsAMap`: after three inserts `_binder_find_obj` misses the first object |
| live | MCBinderLive.cfg | pass | under `FairSpecFixedCM`, with messages without data and read sizes 1 and 3: with `Reply` as written: `IoctlReturns` (every TR_COMPLETE tail and read loop on a non-blocking descriptor returns) and `CallLifecycle` (`Binder` implements `BinderCall`); 7k states, ~10 s |
| read_blocks | MCBinderBlock.cfg | violation | `ReadWithDataReturns`: a blocking read that copied a transaction sleeps with it |
| delivery_order | MCBinderOrder.cfg | violation | `DeliveredInOrder`: with two readers of one process queue, the ENOSPC put-back lets the later message out first |

**The passing safety properties.**

- `ReplyAccounting` says that `pending_replies` is never below the caller's
  synchronous calls in flight. A call in flight is the request, the reply, or
  its BC_DEAD_BINDER, wherever it is queued, stacked or held.
- `CallerNeverServesOwnCall` says that a thread never pops its own call. That
  depends on the queue choice at line 1046, and the context manager can call
  itself through handle 0.

Each of these has a mutant that TLC kills under both the core and solo cfgs
(`FitsOffByOne` only under core, the one run that checks `TypeOK`):

- `OweReplyInverted` inverts the TF_ONE_WAY test;
- `ReadQueueNoPending` drops `pending_replies` from the queue choice;
- `FitsOffByOne` puts the ENOSPC test off by one word, which drives `rsz`
  negative.

**Liveness.** `IoctlReturns` says that a thread inside BINDER_WRITE_READ
(the TR_COMPLETE tail, the read loop, an ENOSPC put-back) eventually returns to
userspace. The run uses messages without data so that the flat-object loops,
which never terminate (`translation_spins`), stay out of it. It uses `Reply`
as written: a thread that sends BC_REPLY dies in the kernel and never reaches
the TR_COMPLETE tail, so no reply is delivered in this run, and the property
says nothing about a BC_REPLY ioctl, which does not return (`MemorySafe`
reports it). Its mutant
`ReheadContinue` makes the put-back continue the loop instead of breaking out,
and the reader then takes the same message forever. `ReadWithDataReturns` is
the same question for a read that has already copied a transaction, on a
blocking descriptor: it fails, because the loop of line 1045 reads on until the
buffer is full.

**Delivery order.** `DeliveredInOrder` is an action property: no reader copies
out a transaction or reply while another thread of the same queue holds an
earlier message aside after ENOSPC. The `delivery_order` run puts both threads
`a1` and `a2` in process A (`OneProcOf`), so two readers share `proc->queue`.

**Refinement.** `BinderCall` has one variable, `status`, a function from call
ids to `idle`, `oneway`, `queued`, `serving`, `answered`, `dead` or `done`. A
call moves one step at a time along `Send`, `Consume`, `Serve`, `Answer`,
`Receive` and `Drop`, and a closing server may kill its unanswered
synchronous calls and drop the others at once. `NotACall` covers a sequence
number that went to a notifier command. The mapping `CallStatus` in `Binder`
reads each id's status off the message that carries it: a one-way or
synchronous BC_TRANSACTION in a queue or held aside, the request on an
`incoming_transactions` stack, a BC_REPLY, or a BC_DEAD_BINDER. An id whose
message is gone is `done`. `CallLifecycle == Call!Spec` is checked as a
PROPERTY. Its mutant `IsSyncTxnAnyTxn` drops the TF_ONE_WAY test before the
push onto `incoming_transactions`, and a one-way call is then served. The
abstract spec allows drops anywhere, because the driver really drops calls
(`orphaned_wait`); what it rules out is a call going
backwards, a one-way call being served or killed, an answer without a serve,
and a call reappearing. The `live` run checks it with messages without data
and `Reply` as written, so a served call is never answered there: it is
dropped when the reply oopses, or killed by a release.

**Bounds.**

- `SendBound` is 1 in the core run, so each thread sends one message. That is
  enough for a call, its reply, a queue of two messages (the spawn gate), and a
  release with a call pending.
- `SendBound` is 3 in the solo run, which fits a one-way self-call, a death
  notification request and its clear.
- `ReadSizes` {2, 3} makes a 3-word transaction hit ENOSPC.
- `LooperBound` is 1 and caps the looper counters. It is 0 in the core run,
  where looper commands stay out of the state space; the solo run exercises
  them over every garbage `state` (`AnyState`).
- `ReadSizes` {1, 3} in the `live`, `read_blocks` and `delivery_order` runs,
  whose messages carry no data (2 words): a 1-word read always hits ENOSPC,
  and a 3-word read has a word left after a copy, so the loop reads again.
- The `delivery_order` run has one process A with two threads, the smallest
  case in which two readers share a queue.
- `B` has one thread. Two threads per process made the core run exceed the
  time budget.

`CHECK_DEADLOCK FALSE` is set in every `MCBinder` cfg. A blocked reader with nothing to
read, or a process that has been released, really does stop.

**Fairness.** `Fairness` is weak fairness of `KernelStep(t)` for each thread:
the TR_COMPLETE tail and each iteration of the read loop. Once a thread is
inside the ioctl, the kernel runs it on, so these steps cannot stay enabled and
never be taken. A reader sleeping in `read_msg_queue` is not enabled. No
userspace action is fair: a program may stop sending, replying, reading or
closing. Only the `live` and `read_blocks` runs use `FairSpecFixedCM`; the
other properties are safety properties.

**Unchecked defect.** `bcmd_spawn_on_busy` counts a word it did not write
when `max_threads` leaves no room (line 1025). The model keeps that word as the
`UNWRITTEN` item of `out`, and the core run reaches it, but no run states it as
a property: it is a defect of one call, visible at the line itself.

**Reachability.** Between them, the three passing runs fire every action:
`ReplyFixed` in `core` and `solo`, the oops of `Reply` in `live`. One
branch is never reached: `ClaimContextMgr`'s EPERM. Once a manager is set it is
never cleared, so the uid check can never fail in either spec.

## Not modelled

- **Allocation failures outside release.** A `kmalloc` NULL in
  `binder_alloc_msg`, `binder_new_obj` or the notifier commands, and the
  uninitialised `p` test in `binder_alloc_msg`, are not modelled; only the
  -ENOMEM exit of `binder_free_proc` is. One of them is a defect at the line:
  `bcmd_write_flat_obj` writes `obj->real_cookie` before it tests
  `binder_new_obj`'s result (line 459).
- **The tree inside `Binder`.** `Binder` uses the registry as a map. Putting
  `ObjTree`'s tree there would give each process its insertion history as
  state.
- **Malformed write buffers.** The EINVAL and EFAULT exits of
  `binder_thread_write` are not modelled.
- **Calls that change no state.** BINDER_VERSION, THREAD_EXIT, poll, mmap,
  flush, init and exit change no state.
- **The internals of `msg_queue`.** They are not in `src/`. A queue is a FIFO
  whose read blocks when it is empty, or fails at once on an O_NONBLOCK
  descriptor.
- **A BUG_ON part-way through release.** The process is marked "bug" and left
  as it was.
- **The `binder_get_thread` race.** Two threads of one process inserting into
  `proc->thread_tree` without a lock (line 249) can lose a thread record. The
  model gives each thread its own record from the start (Init), so that loss
  is outside it.
- **The SET_CONTEXT_MGR race.** Two managers set at once (line 1141, marked
  "TODO: protection") needs the test and the set as separate steps; the
  model takes them as one.
- **WRITE_READ falling through into THREAD_EXIT** (line 1201). It changes only
  the indeterminate value the ioctl returns, which the model does not keep.

## Plan for later sittings

1. Liveness of a synchronous call (it eventually gets BR_REPLY or
   BR_DEAD_BINDER) under fairness of well-behaved servers, where userspace
   reads whenever idle and answers every transaction.
2. A two-thread-per-process configuration using symmetry, if a view or
   constraint keeps it under five minutes.
3. Opening a descriptor after start (and reopening after release), which would
   make the dangling `context_mgr_obj` meet a new process.
4. The object tree inside `Binder`, so that a lookup the tree misses leads to
   the EINVAL and duplicate-object paths of the driver.
