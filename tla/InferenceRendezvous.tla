------------------------ MODULE InferenceRendezvous ------------------------
(***************************************************************************)
(* One iteration's inferences, step by step (graph_executor.cc 151-289,    *)
(* triton_block_triton.cc work, triton_model_impl.cc infer_batch_zerocopy).*)
(* The worker runs a chain of Triton blocks.  Each block's model hands a   *)
(* request to its own HTTP client; for the last block the worker keeps a   *)
(* mutex, a condition variable and a flag in its stack frame, passes a     *)
(* callback that refers to them, and waits for the flag.                   *)
(*                                                                         *)
(* Three kinds of thread take part: the worker, each client's transfer     *)
(* thread, which runs the callbacks one at a time, and the server.  One    *)
(* action is one step of one of them on the mutex, the condition variable, *)
(* the flag or a request.  Items are GraphExecutor's concern: here there   *)
(* are always enough for every block, save that the last may find none.    *)
(***************************************************************************)
EXTENDS Integers, FiniteSets

CONSTANTS
  Last,          \* the chain is 1..Last, and Last is last_block
  MaxIterations  \* bound: iterations of the worker

ASSUME ChainAssumption == Last \in Nat \ {0} /\ MaxIterations \in Nat

VARIABLES
  async_,    \* blocks whose model has triton_model_impl::async_ set
  iter,      \* iterations begun; also names the frame of the current one
  cur,       \* the block of the chain being worked
  wpc,       \* position of the worker
  alive,     \* frames (cv, m, ready) whose scope has not ended
  ready,     \* frames whose flag is set
  holder,    \* who holds each frame's mutex m
  notified,  \* the sleeping worker has been notified
  req,       \* state of each iteration's and block's request
  posted     \* iterations that ran post_read and post_write

workerVars == <<iter, cur, wpc, alive, posted>>
vars == <<async_, workerVars, ready, holder, notified, req>>

Blocks == 1..Last
Frames == 1..MaxIterations

\* "locking", "locked" and "notifying" are positions of the callback lam.
RequestStates == {"none", "rejected", "queued", "running", "answered",
                  "locking", "locked", "notifying", "done"}
InFlight == {"queued", "running"}

Init ==
  /\ async_ \in SUBSET Blocks
  /\ iter = 0
  /\ cur = 1
  /\ wpc = "idle"
  /\ alive = {}
  /\ ready = {}
  /\ holder = [i \in Frames |-> "nobody"]
  /\ notified = FALSE
  /\ req = [i \in Frames |-> [b \in Blocks |-> "none"]]
  /\ posted = {}

Request(i, b, from, to) ==
  /\ req[i][b] \in from
  /\ req' = [req EXCEPT ![i][b] = to]

-----------------------------------------------------------------------------
(* The worker.                                                             *)

BeginIteration ==
  /\ wpc = "idle" /\ iter < MaxIterations
  /\ iter' = iter + 1
  /\ cur' = 1
  /\ wpc' = "work"
  /\ UNCHANGED <<async_, alive, ready, holder, notified, req, posted>>

\* For the last block the frame is made and the callback set before do_work.
EnterFrame ==
  /\ cur = Last
  /\ alive' = alive \union {iter}
  /\ UNCHANGED <<ready, holder>>

\* After do_work returned OK or DONE: the next block, or the wait.
AfterWork ==
  IF cur = Last THEN wpc' = "lock" /\ UNCHANGED cur
                ELSE wpc' = "work" /\ cur' = cur + 1

\* Variant: on to post_read and post_write without the wait.
AsyncInfer_NoWait ==
  /\ wpc = "work" /\ cur \in async_
  /\ \E s \in {"queued", "rejected"} : Request(iter, cur, {"none"}, s)
  /\ IF cur = Last THEN EnterFrame ELSE UNCHANGED <<alive, ready, holder>>
  /\ IF cur = Last THEN wpc' = "leave" /\ UNCHANGED cur
                   ELSE wpc' = "work" /\ cur' = cur + 1
  /\ UNCHANGED <<async_, iter, notified, posted>>

\* infer_batch_zerocopy, asynchronous: AsyncInfer queues the request or
\* returns an error, which is printed; work returns OK in both cases.
AsyncInfer ==
  /\ wpc = "work" /\ cur \in async_
  /\ \E s \in {"queued", "rejected"} : Request(iter, cur, {"none"}, s)
  /\ IF cur = Last THEN EnterFrame ELSE UNCHANGED <<alive, ready, holder>>
  /\ AfterWork
  /\ UNCHANGED <<async_, iter, notified, posted>>

\* Synchronous: Infer returns when the server has answered, or at once with
\* an error, which is printed.  No callback is involved.
Infer ==
  /\ wpc = "work" /\ cur \notin async_
  /\ IF cur = Last THEN EnterFrame ELSE UNCHANGED <<alive, ready, holder>>
  /\ \/ Request(iter, cur, {"none"}, "queued") /\ wpc' = "infer" /\ UNCHANGED cur
     \/ Request(iter, cur, {"none"}, "rejected") /\ AfterWork
  /\ UNCHANGED <<async_, iter, notified, posted>>

InferReturns ==
  /\ wpc = "infer"
  /\ Request(iter, cur, {"answered"}, "done")
  /\ AfterWork
  /\ UNCHANGED <<async_, iter, alive, ready, holder, notified, posted>>

\* A block returns DONE without an inference (external: a Triton block always
\* tries).  The last one is waited for all the same.
NothingSent ==
  /\ wpc = "work"
  /\ IF cur = Last THEN EnterFrame ELSE UNCHANGED <<alive, ready, holder>>
  /\ AfterWork
  /\ UNCHANGED <<async_, iter, notified, req, posted>>

\* The last block finds too few items or too little room: the frame ends
\* unused, without a wait, ...
Insufficient ==
  /\ wpc = "work" /\ cur = Last
  /\ wpc' = "post_nothing"
  /\ UNCHANGED <<async_, iter, cur, alive, ready, holder, notified, req, posted>>

\* ... and the posts that follow are of no items of the last block.
PostNothing ==
  /\ wpc = "post_nothing"
  /\ wpc' = "idle"
  /\ UNCHANGED <<async_, iter, cur, alive, ready, holder, notified, req, posted>>

\* unique_lock lk(m), and the lock's re-acquisition inside cv.wait.
Lock ==
  /\ wpc = "lock" /\ holder[iter] = "nobody"
  /\ holder' = [holder EXCEPT ![iter] = "worker"]
  /\ wpc' = "check"
  /\ UNCHANGED <<async_, iter, cur, alive, ready, notified, req, posted>>

\* Variant: cv.wait_for, as in the line commented out above the wait.
Check_TimesOut ==
  /\ wpc = "check"
  /\ \/ wpc' = "leave"
     \/ iter \notin ready /\ wpc' = "sleep"
  /\ UNCHANGED <<async_, iter, cur, alive, ready, holder, notified, req, posted>>

\* cv.wait evaluates its predicate with m held ...
Check ==
  /\ wpc = "check"
  /\ wpc' = IF iter \in ready THEN "leave" ELSE "sleep"
  /\ UNCHANGED <<async_, iter, cur, alive, ready, holder, notified, req, posted>>

\* ... and, the flag unset, releases m and sleeps in one step.
Sleep ==
  /\ wpc = "sleep"
  /\ holder' = [holder EXCEPT ![iter] = "nobody"]
  /\ notified' = FALSE
  /\ wpc' = "asleep"
  /\ UNCHANGED <<async_, iter, cur, alive, ready, req, posted>>

Wake ==
  /\ wpc = "asleep" /\ notified
  /\ wpc' = "lock"
  /\ UNCHANGED <<async_, iter, cur, alive, ready, holder, notified, req, posted>>

SpuriousWake ==
  /\ wpc = "asleep"
  /\ wpc' = "lock"
  /\ UNCHANGED <<async_, iter, cur, alive, ready, holder, notified, req, posted>>

\* The wait returned: lk, ready, m and cv go out of scope.
Leave ==
  /\ wpc = "leave"
  /\ holder' = [holder EXCEPT ![iter] = "nobody"]
  /\ alive' = alive \ {iter}
  /\ wpc' = "post"
  /\ UNCHANGED <<async_, iter, cur, ready, notified, req, posted>>

\* post_read, post_write and the notifications.
Post ==
  /\ wpc = "post"
  /\ posted' = posted \union {iter}
  /\ wpc' = "idle"
  /\ UNCHANGED <<async_, iter, cur, alive, ready, holder, notified, req>>

Worker ==
  \/ BeginIteration \/ AsyncInfer \/ Infer \/ InferReturns \/ NothingSent
  \/ Insufficient \/ PostNothing
  \/ Lock \/ Check \/ Sleep \/ Wake \/ Leave \/ Post

-----------------------------------------------------------------------------
(* The server and the clients' transfer threads (external), and the        *)
(* callback lam, which a transfer thread runs.                             *)

Serve(i, b) ==
  /\ \/ Request(i, b, {"queued"}, "running")
     \/ Request(i, b, {"running"}, "answered")
  /\ UNCHANGED <<async_, workerVars, ready, holder, notified>>

\* A client's thread is in one callback at a time.
Busy(b) == \E i \in Frames : req[i][b] \in {"locking", "locked", "notifying"}

\* The request is complete: its callback is called, lam for the last block
\* and the one that does nothing for the others.
Complete(i, b) ==
  /\ b \in async_ /\ ~Busy(b)
  /\ Request(i, b, {"answered"}, IF b = Last THEN "locking" ELSE "done")
  /\ UNCHANGED <<async_, workerVars, ready, holder, notified>>

\* Variant: the callback sets the flag without the mutex.
CallbackLock_None(i) ==
  /\ Request(i, Last, {"locking"}, "locked")
  /\ UNCHANGED <<async_, workerVars, ready, holder, notified>>

CallbackLock(i) ==
  /\ holder[i] = "nobody"
  /\ holder' = [holder EXCEPT ![i] = "callback"]
  /\ Request(i, Last, {"locking"}, "locked")
  /\ UNCHANGED <<async_, workerVars, ready, notified>>

\* ready = true, and the end of the block releases m.
CallbackSet(i) ==
  /\ Request(i, Last, {"locked"}, "notifying")
  /\ ready' = ready \union {i}
  /\ holder' = [holder EXCEPT ![i] = IF @ = "callback" THEN "nobody" ELSE @]
  /\ UNCHANGED <<async_, workerVars, notified>>

\* Variant: no notify_all.
CallbackNotify_None(i) ==
  /\ Request(i, Last, {"notifying"}, "done")
  /\ UNCHANGED <<async_, workerVars, ready, holder, notified>>

\* cv.notify_all().  On a frame whose scope has ended this is undefined: it
\* does nothing, or wakes the frame that now has its place on the stack.
CallbackNotify(i) ==
  /\ Request(i, Last, {"notifying"}, "done")
  /\ \/ notified' = (wpc = "asleep")
     \/ i \notin alive /\ UNCHANGED notified
  /\ UNCHANGED <<async_, workerVars, ready, holder>>

Next ==
  \/ Worker \/ SpuriousWake
  \/ \E i \in Frames :
       \/ \E b \in Blocks : Serve(i, b) \/ Complete(i, b)
       \/ CallbackLock(i) \/ CallbackSet(i) \/ CallbackNotify(i)

\* The threads are scheduled by the OS, and the server answers what it has
\* accepted.  Spurious wake-ups are allowed and not relied on.
Fairness ==
  /\ WF_vars(Worker)
  /\ \A i \in Frames :
       /\ \A b \in Blocks : WF_vars(Serve(i, b)) /\ WF_vars(Complete(i, b))
       /\ SF_vars(CallbackLock(i))
       /\ WF_vars(CallbackSet(i)) /\ WF_vars(CallbackNotify(i))

Spec == Init /\ [][Next]_vars
FairSpec == Spec /\ Fairness

-----------------------------------------------------------------------------
TypeOK ==
  /\ async_ \subseteq Blocks
  /\ iter \in 0..MaxIterations
  /\ cur \in Blocks
  /\ wpc \in {"idle", "work", "infer", "lock", "check", "sleep", "asleep",
              "leave", "post", "post_nothing"}
  /\ alive \subseteq Frames
  /\ ready \subseteq Frames
  /\ holder \in [Frames -> {"nobody", "worker", "callback"}]
  /\ notified \in BOOLEAN
  /\ req \in [Frames -> [Blocks -> RequestStates]]
  /\ posted \subseteq Frames

(* The callback never locks or sets what is no longer on the worker's      *)
(* stack: a request that can still call back keeps its frame alive         *)
(* (graph_executor.cc 184-205).                                            *)
CallbackHasFrame ==
  \A i \in Frames :
    Last \in async_ /\ req[i][Last] \in InFlight \union {"answered", "locking", "locked"}
      => i \in alive

(* What is posted is settled: no window of the last block is handed to the *)
(* neighbours while the server may still read or write it                  *)
(* (graph_executor.cc 203-205 before 255-284).  The blocks before the last *)
(* are not waited for, and for them nothing of the kind holds.             *)
PostedIsSettled == \A i \in posted : req[i][Last] \notin InFlight

(* Inferences are in sequence but for one case (scheduler_triton.h 15-19): *)
(* while a request is in flight a later one of the worker's is not, unless *)
(* the earlier one's block is asynchronous and not the last of the chain   *)
(* (graph_executor.cc 222, triton_model_impl.cc 362-370).                  *)
Earlier(i, b, j, c) == i < j \/ (i = j /\ b < c)
OverlapsOnlyAsync ==
  \A i, j \in Frames, b, c \in Blocks :
    /\ Earlier(i, b, j, c)
    /\ req[i][b] \in InFlight /\ req[j][c] \in InFlight
    => b \in async_ /\ b # Last

(* The worker sleeps with nobody left to wake it only when no callback was *)
(* ever to come: the block sent nothing, the submission failed, or the     *)
(* model is synchronous (graph_executor.cc 200, triton_model_impl.cc       *)
(* 362-376).                                                               *)
DesertedOnlyIfUnsent ==
  wpc = "asleep" /\ ~notified /\ req[iter][Last] \in {"none", "rejected", "done"}
    => req[iter][Last] # "done" \/ Last \notin async_

(* A request that was accepted ends its iteration.                         *)
AcceptedIsPosted ==
  \A i \in Frames :
    (Last \in async_ /\ req[i][Last] = "queued") ~> (i \in posted)

(* The mutex, the condition variable and the flag make the last block's    *)
(* asynchronous inference a synchronous call (graph_executor.cc 183-218).  *)
Calling ==
  \/ wpc \in {"lock", "check", "sleep", "asleep", "leave", "post"}
  \/ wpc = "infer" /\ cur = Last
Waiting == req[iter][Last] \in InFlight \union {"none", "rejected"}

Phase == IF ~Calling THEN "idle" ELSE IF Waiting THEN "called" ELSE "answered"

SyncCall == INSTANCE SynchronousCall WITH
  phase <- Phase, returned <- Cardinality(posted)
IsSynchronousCall == SyncCall!Spec

(* What the comment at graph_executor.cc 201 says of the wait: it blocks   *)
(* on the callback.  No callback is still at work on a frame that ended.   *)
WaitCoversCallback ==
  \A i \in Frames :
    req[i][Last] \in {"locking", "locked", "notifying"} => i \in alive
=============================================================================
