# A verification of gr4-torchdsp

gr4-torchdsp runs inferences on a Triton Inference Server (TIS) from a GNU
Radio 4 flowgraph. It adds three things to GNU Radio: a *block* that hands its
buffers to TIS, a *buffer* in shared memory that TIS reads and writes in place,
and a *scheduler* whose single worker thread runs such blocks and waits for
their asynchronous answers. This directory holds TLA+ models of that code, the
TLC runs that check them on small instances, and TLAPS proofs.

References to the code are `file:line`; `graph_executor.cc`,
`thread_wrapper.cc` and `scheduler_triton*` are in `src/schedulers/triton`, the
rest in `src/blocklib/torchdsp`.

## 1. Inventory

### Components

| component | code | state | operations |
|---|---|---|---|
| Scheduler front end | `scheduler_triton.{h,cc}`, `scheduler_triton_options.h` | the one worker, the options | `initialize`, `start`, `stop`, `wait`, `kill`, `push_message`, the factory that reads options from YAML |
| Worker thread | `thread_wrapper.{h,cc}` | message queue, stop flag, start gate, flush flag and counter | `thread_body`, one case per message kind; `start`, `stop`, `wait`, `kill`, `push_message`; `handle_work_notification`; parameter query and change |
| Graph executor | `graph_executor.{h,cc}` | the chain of blocks; per iteration: work io of each block, status, unclog flags | `run_one_iteration` |
| Triton block | `triton_block_triton.{h,cc}`, `triton_async_block.h` | its model, the callback of the current call | `work`, `set_async_callback` |
| Triton model | `triton_model_impl.{h,cc}` | HTTP client, input and output descriptions, request objects | construction from the server's metadata, `infer_batch_zerocopy` |
| Triton buffer | `buffer_triton.{h,cc}`, `shm_utils.{h,cc}` | shared memory segment, its registration with TIS, a ring of items | construction, destruction, `add_reader`, the blocked callbacks |
| Python bindings, add block, example models, tests, bench | | none | none that matters to the scheduler |

### How they interact

    runtime thread --start/stop/wait--> worker <--messages-- neighbours, blocks,
                                          |  ^               parameter clients
    runtime monitor <--DONE, FLUSHED------+  +--DONE, EXIT-- runtime monitor
                                          |
                          run_one_iteration: read_info, write_info, work ...
                                          |
      neighbours <--shared buffers--> graph executor --request--> TIS
                                          ^                        |
                                          +--callback on the client's thread

Messages go through one queue with its own mutex. The stop flag
`d_thread_stopped` is a plain bool that two threads write and read without a
lock. Buffers are shared with neighbouring schedulers, which write the inputs
and read the outputs while an iteration runs. The callback of an inference runs
on the HTTP client's transfer thread and touches a mutex, a condition variable
and a flag in the *stack frame* of the worker.

### What is hard here, and what has to hold

* **Merged notifications.** The worker drains its queue and runs one iteration
  for all the notifications in it. No request for work may be lost between the
  drain and the iteration.
* **Two ways to stop.** `stop()` sets a flag and pushes EXIT; the monitor pushes
  EXIT by itself. The blocks must end stopped, `done()` must not run beside
  `work()`, a stop must return.
* **Flushing.** When a block somewhere is done, every worker flushes for a
  number of iterations and reports. It must get there whatever the iterations
  return, and must not report unasked.
* **Parameter queries** travel in the same queue as everything else, and must see
  the newest change pushed before them.
* **The rendezvous.** The callback may come before, while or after the worker
  starts to wait. It must find the frame alive, the worker must neither miss it
  nor go on without it, and nothing of the last block may be posted while TIS
  works on it.
* **Accounting.** An iteration looks at the buffers once and posts much later;
  every block of the chain is given the numbers of the first input and the first
  output, and rounds them by its own output multiple. It must not read what was
  not written nor overwrite what was not read, inner buffers must balance, and
  neighbours that wait must be woken.
* **Requests.** A request is built one input and one output at a time from
  buffers the neighbours go on writing and reading, and names them to TIS by
  window. The windows must hold until the answer, cover the shapes claimed, and
  be what is posted.
* **The ring.** Items wrap around the end of a buffer, and when a side is blocked
  the unread ones are moved. A window that was named to TIS by offset must stay
  where it is and inside the segment, and the order of the items must survive.
* **Shared memory.** A segment is created, mapped, registered, and torn down in
  steps each of which may fail, while TIS may restart. TIS must only be told of
  whole segments, nothing may be left behind, and one buffer's failure must not
  reach another.

The `hazards` of `PROJECT.json` list these one by one, with the line where each
bites and the property that covers it.

## 2. Modules

| module | models | extends / instantiates |
|---|---|---|
| `ThreadWrapper` | the worker thread, its callers, the runtime monitor as it uses them | |
| `MCThreadWrapper` | values of its constants | `ThreadWrapper` |
| `ThreadWrapper_proofs` | theorems about it | `ThreadWrapper` |
| `SynchronousCall` | abstract: a call is answered, then returns | |
| `InferenceRendezvous` | one iteration's inferences, step by step | refines `SynchronousCall` |
| `InferenceRendezvous_proofs` | theorems about it, the refinement among them | `InferenceRendezvous` |
| `SyncStream` | abstract: a sync block between a writer and a reader | |
| `GraphExecutor` | `run_one_iteration` between its neighbours | refines `SyncStream` |
| `MCGraphExecutor` | the blocks' multiples | `GraphExecutor` |
| `GraphExecutor_proofs` | theorems about it, the refinement among them | `GraphExecutor` |
| `Pipeline` | the worker thread running the executor, neighbours that notify through its queue | extends `ThreadWrapper`, refines `GraphExecutor` |
| `MCPipeline` | values of its constants | `Pipeline` |
| `Pipeline_proofs` | theorems about it, the refinement of the executor among them | `Pipeline`, `ThreadWrapper_proofs`, instantiates `GraphExecutor_proofs` |
| `TritonModel` | a Triton block's model and the requests it builds | |
| `MCTritonModel` | what the server may say of a model | `TritonModel` |
| `TritonModel_proofs` | theorems about it | `TritonModel` |
| `ItemFifo` | abstract: a bounded queue of items | |
| `TritonBuffer` | a buffer's ring between a writer and a reader that name windows to TIS | refines `ItemFifo` |
| `MCTritonBuffer` | sizes of buffers | `TritonBuffer` |
| `TritonBuffer_proofs` | theorems about it, the refinement among them | `TritonBuffer` |
| `SharedSegment` | the shared memory segments behind the buffers | |
| `MCSharedSegment` | interchangeable buffers | `SharedSegment` |
| `SharedSegment_proofs` | theorems about it | `SharedSegment` |

The first three detailed modules meet at an iteration. `ThreadWrapper` sees it as two
steps (`BeginIteration`, `EndIteration(s)`) that may return any status;
`GraphExecutor` opens it, with a block's `work` as one step;
`InferenceRendezvous` opens the `work` of Triton blocks; `TritonModel` opens the
building of the request that `InferenceRendezvous` submits in one step, and
`TritonBuffer` the buffer that such a request names windows of. `Pipeline`
composes the first two.

### ThreadWrapper

One action is one access to shared state: one queue operation under the queue's
mutex, or one read or write of `d_thread_stopped`. The flag is a data race in
C++. Interleaving single accesses is enough for it here: every write is followed
by a push to the queue and every read by a queue operation, so the queue's mutex
orders all later accesses, and a value read late is the behaviour in which the
write was scheduled later.

| code | model |
|---|---|
| `start()` 28-39 | `StartBlocks` (blocks started, NOTIFY_ALL pushed), `SetReady` |
| `stop()` 41-51 | `StopSetFlag`, `StopKill`, `StopJoin` |
| `wait()` 52-60 | `CallWait`, `WaitJoin` |
| `kill()` 67-70 | `kill`, called by the runtime |
| wait for the start 197-201 | `Gate` |
| the two loop conditions 202-208 | `OuterTest`, `InnerTest` |
| blocking and non-blocking pop 209-220 | `Pop` (either), `PopNothing` |
| one case per message 221-295 | `HandleNotify` (the three NOTIFY kinds alike), `HandleSignalDone`, `HandleDone`, `HandleExit`, `HandleMsgport`, `handle_parameter_query`, `handle_parameter_change` |
| work or block 299-306 | `SkipWork`, `BeginIteration` |
| `handle_work_notification` 72-142 | `EndIteration(s)`, by `Finish` and `ReportsFlushed` |

`Monitor` actions are the runtime monitor, which is not under `src/`: it answers
the first DONE with DONE to every scheduler, and EXIT when FLUSHED has come. The
history variables `owed`, `late`, `reported`, `newest` and `expected` change
nothing the code reads.

### InferenceRendezvous

Worker, transfer threads and server, one step each on the mutex `m`, the
condition variable `cv`, the flag `ready` or a request. `cv.wait` is `Check`
(predicate, with `m` held), `Sleep` (release and sleep at once), `Wake` or
`SpuriousWake`, and `Lock` again. The callback `lam` (187-194) is `CallbackLock`,
`CallbackSet` (flag and unlock) and `CallbackNotify`. A frame is named by its
iteration, and `alive` says which frames' scope has not ended. `notify_all` on a
frame that is gone is undefined; the model lets it do nothing, or wake the frame
that took its place. After OK and DONE alike the last block is waited for (200), so three
cases in the model make the worker wait for good: a synchronous `Infer` and a
submission that fails, which return OK from `work` without a callback, and a block
that returns DONE without an inference (`NothingSent`). A last block that finds too
few items or too little room (208-217) is not waited for, and the posts that follow
are of nothing (`PostNothing`).

### GraphExecutor

A buffer is two totals, items written and items read. `read_info` and
`write_info` choose what a single-mapped buffer may tell of `n` items: all, or any
number from `Part` up, where `Part = 0` says nothing of the buffers and `Part > 0` that a
window before the end is never smaller. The early return of a short input (76), the limits
(49-69, 93-115), the rounding, the first input's and first output's `n_items`
given to all (156-165), the status overwritten by each block (222-251), the
posts, notifications and blocked callbacks (255-316) are all there, in the code's
order. `Upstream` and `Downstream` are the neighbouring schedulers: they write or
read what they like, then notify, or wait for a notification. `woken` stands for
what the worker's queue holds for the executor: an iteration begins when work was
asked for, by a neighbour or by whoever else pushes messages (`Asked`), and it may
have been asked for again by then, so `BeginIteration` leaves `woken` as it likes.

`Multiple` has one value for each block: `set_output_multiple` is a block's own
(`triton_block_triton.cc` 24), the executor rounds by the last block's (121-125), and
each sync block by its own. `Work` is in two kinds. A block before the last leads to
the next (`WorkInner`) and leaves its own number or the first input's in the port the
next blocks are given it from, since what `do_work` leaves there is GNU Radio's. The
last is waited for after OK and after DONE (`WorkLast`); `WaitForCallback` needs
`submitted`, whether an inference was sent whose callback will come, and without one
the wait has no end (`Deserted`). The two INSUFFICIENT results (208-217) end it without
a wait, with the blocked callbacks of their side; a block before the last that returns
one is called again (169) and stays there.

That a sync block works on whole multiples of the smaller of its `n_items`, and
says that it has too little when that is none, is `sync_block::do_work` of GNU
Radio (external). Tags are fetched and dropped by the code and are left out.

### Pipeline

`BeginIteration` of `ThreadWrapper` happens together with `Enter` of
`GraphExecutor` (`Call`), the executor's other steps run while the rest of the
system goes on (`Run`), and `EndIteration` is given the status the executor
ended with (`Return`). A neighbour that moved items pushes a notification to the
worker's queue (`Notified`), behind whatever is there, and is woken by the
executor's own notices. The composition adds what neither part can say.

* `GraphExecutor`'s wake-up flag is what the queue makes of the notifications:
  work is `Pending` while a message that asks for it is queued or in hand, or while
  `do_some_work` notes it. With that for `woken` the composition refines
  `GraphExecutor` (`Runner`, `RunsTheExecutor`): merging notifications, handling them
  behind others, starting, flushing and stopping add nothing to the executor's
  behaviour but the further requests that `Asked` allows.
* A worker that waits on an empty queue is the sleeping worker of `NoStall`
  (`Sleeper`).
* A DONE of the last block comes out of the executor as its status, goes to the
  monitor, comes back as a message and ends in the flush.

### TritonModel

`Construct` is the model's constructor: one description per input and output
(`Configure`), up to the first datatype `itemsize` does not know, with wildcard
dimensions made 1 by `parse_io_shape`. A server that is gone, or metadata without
the members the code reads, ends in the state `"undefined"`, from which nothing
is claimed; so do a model without outputs, a second input that is not there
(`triton_block_triton.cc` 36), and more model inputs than ports. `make` sets the
block's output multiple. A call of `work` begins with what the executor hands it: every
input held an item, every output had room for a multiple, and the *first* input's and
output's numbers are given to all (`graph_executor.cc` 158, 163), so a second input may
hold fewer items than the call is of. `found_in` and `found_out` are the ports that held
the call's number, the first always among them. It is `BeginWork`, then `SetInput` and
`SetOutput` once per input and output in the order of the code, and `Submit`; the
neighbours may move between any two. `Post` is the executor's, after the answer, and
posts the call's number at every port; a port that does not have it is overrun, and of
that state nothing more is claimed.
Shapes and datatypes are real; names, keys and JSON are left out.

### TritonBuffer

`slot` is the memory, an item is the number of its writing, and the two indices
and totals are those of GNU Radio's single-mapped buffer. A side looks at the
buffer (`read_info`, `write_info`), then names offset and size in two calls
(`triton_model_impl.cc` 335-357), then the server reads or fills the window, then
the side posts; the other side may take any of its steps in between. What
`buffer_triton.h` says of the callbacks (47-50, 87-90) is that they pass to
`buffer_sm` the buffer's memory and, for the input, how many items were asked
for; `adjust_buffer_data` and `output_blocked_callback_logic`, the moves
themselves, are the library's and external. They may decline. When they are
called is the executor's doing: an input's with one item asked for when the last
block had too few (`graph_executor.cc` 292-304), every output's when any of them
was short (306-316), hence `siblings`. Short is what has no room left for the writer's
multiple after the buffer's own `min_buffer_fill` and `max_buffer_fill`
(`max_output_buffer`, `graph_executor.cc` 90-131), so the callback may also run when
there is room for a multiple. `items_required` is kept a parameter, since
the callback's interface lets a caller ask for more. The limits on reading make the
reader look at less or not at all, which it may do anyway here.

`TellsEnough` is what the executor's progress asks of such a buffer: it tells a side of
all it holds or of one multiple at least.

`moved` records that a callback moved items while a window was in use. Of such a
buffer nothing more is claimed, and `WindowsStay` says when there is none.

### SharedSegment

The constructor and destructor of `buffer_triton`, one action per library or
system call, with every outcome the call may have. A server that answers may still not be
ready (25-31), and one that does not answer leaves the verdict to chance, so
`is_server_healthy` may say no in any state of the server. A thrown constructor leaves
what it made; an unhealthy server leaves a *hollow* object whose pointer, size and
key were never set, and whose destructor may unmap anything (`UnmapSharedMemory`)
and unregisters the empty name, which the client takes for all regions. The
server (external) forgets its registrations when it stops.

## 3. Runs

| run | shows | properties |
|---|---|---|
| `worker_lifecycle` | every order of `start`, `stop`, `wait`, the monitor, `kill` and a neighbour's message, with flush on and off and `flush_count` 0 and 2 | `NoLostWakeup`, `ExitStopsBlocks`, `FlushedOnlyAfterDone`, `OneLateIteration`, `StopReturns`, `FlushLeadsToExit` |
| `worker_parameters` | a client's query and changes of a parameter among the other messages | `TypeOK`, `QuerySeesNewest`, `QueryAnswered` |
| `inference_chain` | two blocks, each synchronous or not, two iterations | `PostedIsSettled`, `CallbackHasFrame`, `DesertedOnlyIfUnsent`, `AcceptedIsPosted`, `IsSynchronousCall`, `OverlapsOnlyAsync` |
| `executor_stream` | one block, `output_multiple` 2, buffers of 4 that tell all or 2 at least, read limit 3, 8 items | `NoStall`, `IsSyncStream`, `IterationEnds`, `Delivered` |
| `executor_chain` | three blocks, the middle one's multiple 2, two inputs, read and fill limits, any partial windows, 6 items | `TypeOK`, `ReadsOnlyFound`, `WritesOnlyFree`, `ChainIsBalanced` |
| `pipeline_stream` | the worker thread and its executor from `start` to EXIT, between a writer and a reader | `WaitingMeansDone`, `RunsTheExecutor`, `DeliveredUnlessStopped`, `DoneLeadsToExit` |
| `buffer_ring` | buffers of five sizes with and without fill limits, a writer of twos, a reader of threes, the callbacks at any time | `TypeOK`, `WindowsStay`, `TellsEnough`, `NamedWindowsHold`, `RingIsFifo`, `MultiplesFlow` |
| `model_request` | eight answers of the server, two inputs, one output, capacity 4, 6 items | `TypeOK`, `WindowsHold`, `InputCoversShape`, `PostedIsInferred` |
| `segment_lifecycle` | three buffers, a failure at any step, one restart of the server | `RegisteredIsSized`, `DestroyedLeavesNothing`, `LiveIsServed` |
| `flush_comment` | *violation* of `FlushedMeansBlocked` | |
| `callback_comment` | *violation* of `WaitCoversCallback` | |
| `outputs_comment` | *violation* of `WritesOnlyFree` with two outputs | |

### Bounds, and why they are enough

* `MaxSent`, `Calls`, `Clients`, `Values`: one or two foreign messages besides
  those of the runtime, the monitor and the worker itself put every kind of
  message before and behind every other. `flush_count` 2 tells the last flush
  iteration from the first; 0 makes the first the last. `flush_count` 1 makes the
  shortest counterexample in `flush_comment`.
* `Last = 2` and `MaxIterations = 2`: the callback of an iteration meets the frame
  of the next, and the first block's request overlaps the last's.
* `Cap`, `Multiple`, `MaxItems`: a capacity of 4 with multiples of 2 and a read
  limit of 3 makes buffers full, empty, and short of a multiple; 8 items fill
  each buffer twice. The chain's partial windows also make inputs and outputs
  disagree, its second input holds now less and now more than its first, and its
  multiples `<<1, 2, 1>>` put a block that rounds between two that do not: the buffer
  in front of it drifts, the one behind it must not. `Part` 2 in the stream is the
  multiple, which `TellsEnough` says a buffer of 4 always tells.
* `pipeline_stream`: buffers of one item and two items in all, since the product of
  the two state spaces is large; one item makes every buffer both full and empty,
  two make a second iteration. `MaxSent` is 4, the moves two items make, so that it
  never keeps a neighbour from notifying. Capacities and multiples are `executor_stream`'s
  matter, other messages `worker_lifecycle`'s.
* `Sizes` 4, 5, 6, 9 and 10: multiples of the writer's two, of the reader's three, of
  both and of neither, with a tail before the end of one item and of two. 24 items
  go around each buffer at least twice. `Asks` 1 is what the executor asks, 2 the
  least at which the input's callback moves anything. A `min_buffer_fill` of 4 is two of
  the writer's multiples and a `max_buffer_fill` of 3 is none.
* `Models`: models that are served, with a fixed first dimension, with another
  item size, with unknown datatypes in each place, with too many inputs and too
  many outputs. Shapes of two elements make the batch differ from the items; 6
  items through a capacity of 4 let the neighbours move during a request.
* Three buffers, of which one is live, one is being built or destroyed and one is
  hollow, and one restart, which tells a registration with this server from one
  with the last. They are interchangeable: the run uses symmetry, and checks no
  liveness.

`CHECK_DEADLOCK FALSE` everywhere: a worker that has exited, a stream that is
delivered, a worker that waits for a submission that failed and buffers that are
all destroyed really do stop.

### Fairness

Threads are scheduled by the OS: weak fairness of each thread's next step. The
callback's lock has strong fairness, since the worker takes and releases the same
mutex; a mutex no thread holds for ever is acquired in the end. The server answers
what it has accepted and the monitor serves its queue; both are assumptions about
programs outside `src/`. Nobody is obliged to call, send, change, query or kill,
and no fairness is assumed of spurious wake-ups. `ThreadWrapper` assumes that
an iteration returns, which is `IterationEnds` and `AcceptedIsPosted` of the
other modules and fails in a chain that is short of a multiple and after a submission
that failed or was never made, as said below. So `IterationEnds`, `Delivered`,
`DeliveredUnlessStopped` and `DoneLeadsToExit` each end in what they promise or in
`Deserted`, the wait for an answer to nothing; whether the last block sent an inference
is left open in every iteration. `Pipeline` keeps the fairness of its two components, but
asks none of the writer. In `TritonBuffer` only the reader is fair: its thread is
scheduled and its requests are answered; the callbacks owe nothing.

### What the violations show

* **A flush ends by count.** FLUSHED is pushed on the `flush_count`-th iteration
  after DONE, READY or not (`thread_wrapper.cc` 96: `all_blkd` is never cleared),
  where the comment at 238-240 waits for all blocks to be blocked.
* **The callback outlives its frame.** `notify_all` (`graph_executor.cc` 193) comes
  after the unlock; a worker that sees the flag first has destroyed `cv`.
* **Two outputs.** The second is written past its room (90, 163).

Other disagreements met while modelling have no run of their own.

* The inputs have the flaw of the outputs: with two, in the setup of both tests
  (`test_custom_buffers.py` 54-55, `test_custom_buffers_async.py` 58-59), the second is
  read past what was written when the first holds more (158, 263). `executor_chain` and
  `model_request` have two inputs, and their `ReadsOnlyFound`, `WindowsHold` and
  `InputCoversShape` say what the code does keep: the first input, and any that held as
  much when the iteration looked.
* In a chain, a block that is done and not the last is not reported, since the last
  block's OK overwrites the status (234), and one whose work finds fewer items than its
  multiple is called for ever with the same items (169-222). Between blocks of different
  multiples every iteration posts another number as written than as read (263, 281), so
  the buffer between them drifts, in either direction; the scheduler's class comment
  (`scheduler_triton.h` 21) has blocks "consume all their given inputs", which such a
  chain does not. Blocks before the last are not waited for, so their inferences overlap
  with the next block's (`scheduler_triton.h` 15-17 speaks of sequencing).
* A last block that returns DONE without an inference is waited for (200-205), and the
  flowgraph never ends.
* After EXIT one more iteration may work the stopped blocks (`thread_wrapper.cc` 300),
  which `OneLateIteration` allows.
* An input found short returns at `graph_executor.cc` 76 before the input blocked
  callbacks, which line 75 has just asked for and the comment at 293-294 has run "if we
  are blocked on the input". Asked for one item, that callback never moves anything
  (`buffer_triton.h` 87-90, `NothingToAdjust` in `TritonBuffer_proofs`), so a tail shorter
  than a multiple stays at the end of a buffer whose size is no multiple of the reader's,
  and nothing more gets through: `MultiplesFlow` is stated for the other sizes.
* The output's callback may move the items a request of the reader names, if the
  buffer's size is no multiple of the writer's, its `min_buffer_fill` is more than the
  multiple, or another output was short.
* A model whose first dimension is fixed has it overwritten by the batch size
  (`triton_model_impl.cc` 331), and one whose inputs and outputs differ in size, as the
  defaults of `triton_block.yml` do, names too few bytes: `PostedIsInferred` and
  `InputCoversShape` say for which models they hold.
* A hollow buffer's destruction disturbs the others (`buffer_triton.cc` 48-51, 80-82):
  `LiveIsServed` excludes it.
* `flush_sleep_ms` is read from the key `flush_count` (`scheduler_triton.cc` 67). The
  macros `TRITON_BUFFER_ARGS*` (`buffer_triton.h` 123-125) pass a transfer type where the
  server's URL is expected. A block that is no `triton_async_block` leaves a null pointer
  that is then used (`graph_executor.cc` 196-198).

## 4. Proofs

`ThreadWrapper_proofs` proves, from `ConstantsAssumption` alone, hence for any
clients, values, flush configurations and number of messages: `TypeCorrect`,
`NoWakeupIsLost`, `ExitIsClean`, `FlushIsAsked` and
`StopIsPrompt`, and `QueriesAreOrdered`, each `Spec => []` of a property of its runs.

All but the last follow from one inductive invariant `IInv`, because none of the properties is
inductive by itself:

* `OwedIsPending`: work that is owed is in the queue, in hand, or noted in
  `do_some_work` on the way to an iteration. With `BlockingMeansIdle` (the worker
  waits only with no work noted) it gives `NoLostWakeup`.
* `LateMeansLast`: an iteration begun late leads straight to the test of the stop
  flag. It gives `OneLateIteration`.
* `StopIsComplete`: whoever sets the stop flag stops the blocks or is about to, and
  a worker exits only on that flag; `GateOpensOnce` keeps `start()` from running
  the blocks again behind it. They give `ExitStopsBlocks`.
* `DoneIsForwarded`: flushing, a DONE in the queue or in hand, and a waiting FLUSHED
  all need the monitor's word. It gives `FlushedOnlyAfterDone`.

`QueriesAreOrdered` (`QuerySeesNewest`) has an invariant of its own. What a query at
some place in the queue `Finds` is the argument of the last change before it or,
if there is none, the parameter as the message in hand will leave it.
`QueriesFind` says that this is what each query was pushed to expect, wherever it
stands, and `NewestIsLast` that a query pushed now would find the newest change. A
push behind a query and a pop in front of it change nothing it finds.

`InferenceRendezvous_proofs` proves, from `ChainAssumption`, hence for chains of
any length and any number of iterations: `TypeCorrect`, `CallbackIsSafe`,
`PostsAreSettled`, `NoCallbackIsMissed`, and `WaitIsSynchronous`: every behaviour
is one of `SynchronousCall`. The inductive invariant follows the protocol of the
wait:

* `Exclusion`: who is between lock and unlock holds the mutex. Hence what the worker
  concluded from the flag stays true until it sleeps or leaves (`FlagWasRead`).
* `FlagIsCallbacks`: the flag is set exactly when the callback has set it. With
  `FlagWasRead`, a worker that leaves leaves a frame no callback will lock or set,
  and posts an inference that is over.
* `WakeIsComing`: a worker asleep on a set flag has been notified or is about to be.
  Here `WaitingIsAlive` is needed: a notify on a frame that is gone may be lost,
  and the worker's own frame never is.
* `IterationHasFrame`: an iteration is posted once, which the refinement counts.

`InferencesAreInSequence` (`OverlapsOnlyAsync`) has an invariant of its own:
no request is ahead of the worker's place in the iterations (`NoneAhead`), and one
in flight that is not left to itself is the one the worker is at (`Awaited`), since
the worker waits for the last block's only (`WaitsForLast`).

`GraphExecutor_proofs` proves, from `ExecutorAssumption`, for chains of any length,
blocks of any multiples, any number of ports, any limits and any windows the buffers
tell: `TypeCorrect`, `WhatWasFoundIsRead` (`ReadsOnlyFound`) and `ChainsBalance`, which is
about the buffers whose reader has the last block's multiple. Three theorems have a
hypothesis, which the code needs:

* `OneOutputIsSafe` (`WritesOnlyFree`): one output.
* `TheExecutorIsASyncBlock` (`IsSyncStream`, between the first input and the first
  output): the first and the last block have the same multiple, so that what one
  consumes is what the other produces. The blocks between them are free.
* `NotificationsSuffice` (`NoStall`): that, and `PartsSuffice`: an empty output buffer is
  enough to work, and so is a part of a buffer that is told for the whole.

The invariant:

* `GivenHolds`: what was found in the first buffers is still there while the
  neighbours go on; the properties forget what an iteration found, so they are not
  inductive.
* `WorkHolds`: each block that has worked processed the first input's and the first
  output's number, rounded by its own multiple. `SameMultipleSameItems`: blocks of one
  multiple processed the same.
* `ChainHolds` and `StreamHolds`: between the reads and the writes the inner buffers
  are short, and the input ahead of the output, by that number.

`PartsSuffice` is where the buffers' being single-mapped matters, and is not taken from
thin air: `WhatIsToldSuffices` of `TritonBuffer_proofs` proves that a ring whose size is a
multiple of both sides' tells all it holds or one multiple at least. With `Part` the
multiple, `PartsSuffice` is left to say that `min_buffer_read` and `min_buffer_fill` are
at most the multiple and a `max_buffer_fill` at least that. Without it a chain may rightly
wait for ever: on a tail that the code never joins (see above), or on limits nothing
can meet. Both runs that check `NoStall` have constants that satisfy it, `executor_stream`
with windows that tell less than there is. `NeighboursWait`: a neighbour that waits has
nothing to do or is about to be notified. `WorkerWaits`: with no notification in
the queue what the iteration found is all there is or enough, and an iteration that ends
has left something to read or found too few items.

`Pipeline_proofs` takes the theorems of both parts to their composition, from
`PipelineAssumption` and `ConstantsAssumption`. `PipelineIsAWorker`: its behaviours
are behaviours of `ThreadWrapper`, so whatever is proved of the worker holds of it.
`WorkerRunsTheExecutor` (`RunsTheExecutor`): they are behaviours of `GraphExecutor`,
by a lemma for each kind of step that says what it does to `Pending`: a push adds
what it asks for, a pop and a handler hand it on, an iteration begins only when
work was pending, and a neighbour that moves items leaves it so. Hence
`PipelineIsASyncBlock`, from the refinement of `SyncStream`, for any limits and messages
and any chain whose first and last block have the same multiple. `WaitingIsDone`
(`WaitingMeansDone`), for such chains and `PartsSuffice`, joins the two parts: a worker that waits on an empty queue
has no work noted (`BlockingMeansIdle`), so nothing is pending, and `NoStall` of the
executor says that nobody has anything to do. All hold for every `MaxSent`, the
number of messages from outside.

`TritonBuffer_proofs` proves, from `BufferAssumption`, for buffers of any sizes and
blocks of any multiples: `TypeCorrect`, `WindowsAreSound`,
`NothingMovesUnderARequest`, `WhatIsToldSuffices` and `TheRingIsAQueue`, the refinement of
`ItemFifo`.
`Layout` ties the indices to the totals; `ReaderHolds` and `WriterHolds` say that
what a side was told is still there, at the offset it named unless a callback moved
it; `ItemsInPlace` and `FilledInPlace` say which item is in which place, and make the
unread items a run of consecutive numbers, so that the refinement is about runs that
join and are cut. `AlignedHolds` keeps the writer at its multiples, where it always
has room for one when items lie before it, so that its callback has no reason to
run as long as its `min_buffer_fill` asks for no more than one. `ReaderAligned` does
the same for the reader.

`SharedSegment_proofs` proves, from `SegmentAssumption`, for any finite set of
buffers and any number of restarts: `TypeCorrect`, `RegistrationIsSound`,
`DestructionIsComplete` and `BuffersAreIndependent`. `Progress` says of each
position of the constructor and the destructor which of key, name, size and
memory are there; `MappedStays` and `RegisteredStays` extend the last theorem to
buffers still being built, since a buffer that goes live must have kept its mapping
until then; `BuiltBefore` makes a registration with a server that was restarted
old.

`TritonModel_proofs` proves, from `ModelAssumption`, for any models of the server with
shapes of any length, any sizes and any number of ports: `TypeCorrect`,
`RequestsHold` (`WindowsHold`), `ShapesAreCovered` (`InputCoversShape`) and
`BatchesArePosted` (`PostedIsInferred`). `ModelAssumption` takes from the server that
an input or output has at least one dimension and none of 0, as Triton
requires of a model's configuration. Nothing is assumed of what a second input holds:
the theorems about windows speak of the ports in `found_in` and `found_out`, and of the
others only that their windows are not empty and are theirs. `StillThere`: what
the executor found is there until it posts; `InputsNamed` and `OutputsNamed`: the
windows named so far hold while the rest of the request is built. The neighbours
only add items and room (`NeighboursAdd`), and each buffer is named once, so that a
window told later than the executor's look is no smaller.

The shapes have an invariant of their own, `ServeInv`. `ModelHolds`: what was
configured has no empty shape and as much memory as its shape takes, and the shape
an input holds differs from its description's in the first dimension only. `MultipleHolds`: the
output multiple is the number of elements of the first output, so a call's items
are whole batches. `ShapesNamed`: a shape that was named has this call's batch in
front. They rest on what `num_elements` gives for a shape of any length, which is
an induction; `LeastNumber` (a set of numbers has a least one, from the library's
theorems on well-founded relations) makes it without an operator parameter: each
lemma takes the least length at which it fails. `ProductExists` is that for the
recursive function itself, `NumElementsIsPositive`, `NumElementsScales` (two shapes
that differ in front are in the proportion of their fronts) and
`NumElementsOfTail` for what is needed of it.

Each proof takes the conjuncts one at a time, one step per action. Facts about the
queue, the requests and the counters are lemmas cited by name.

### Only model-checked

Liveness: `StopReturns`, `FlushLeadsToExit`, `QueryAnswered`, `AcceptedIsPosted`,
`IterationEnds`, `Delivered`, `DeliveredUnlessStopped`, `DoneLeadsToExit` and
`MultiplesFlow`. TLAPS does not reach fairness and ENABLED. Every invariant of a
passing run and every refinement is proved, under the hypotheses named above. Where no run names a module's `TypeOK`
(`InferenceRendezvous`, `SharedSegment`), the theorem `TypeCorrect` stands for it.

## 5. What is not modelled

* Logging, thread names, affinity, benchmarks and the Python bindings: no state the
  scheduler depends on.
* Of the buffer: more than one reader, its `min_buffer_read` and `max_buffer_read` in
  `TritonBuffer` (they are in `GraphExecutor`), and what `buffer_sm` does beyond what the
  code here relies on (`adjust_buffer_data`, `output_blocked_callback_logic` and
  the windows are modelled as external). The move constructor and assignment of
  `triton_model_impl`, which nothing calls.
* What an inference computes, and the result object the callback ignores.

## 6. Plan

Every component with state of its own is modelled, and every safety property of the
passing runs is proved under the hypotheses of section 4. What is left: the step from `InferenceRendezvous` to the
executor's `Work`, which `GraphExecutor` takes as one step; `PostedIsSettled` makes
it sound for the last block, and the blocks before it are not waited for. A
composition of the two, as `Pipeline` is of the worker and the executor, would let
`IsSyncStream` be stated of a chain whose inferences are still under way.
