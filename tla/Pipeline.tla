------------------------------ MODULE Pipeline ------------------------------
(***************************************************************************)
(* The worker thread and the executor it runs, together: an iteration of   *)
(* ThreadWrapper is run_one_iteration of GraphExecutor, what it returns is *)
(* what the worker reports, and a neighbour's notification is a message in *)
(* the worker's queue, behind whatever else is there.                      *)
(***************************************************************************)
EXTENDS ThreadWrapper

CONSTANTS
  Last, Ins, Outs, Cap, Multiple,             \* of GraphExecutor
  MinRead, MaxRead, MinFill, MaxFill, Part,
  MayFinish, MaxItems

ASSUME PipelineAssumption ==
  /\ {Last, Ins, Outs, Cap} \subseteq Nat \ {0}
  /\ Multiple \in [1..Last -> Nat \ {0}]
  /\ {MinRead, MaxRead, MinFill, MaxFill, Part, MaxItems} \subseteq Nat
  /\ MayFinish \in BOOLEAN

VARIABLES
  in_written, in_read, out_written, out_read, lag,
  epc,       \* position in run_one_iteration: GraphExecutor's wpc
  cur, n_in, n_out, n_consumed, n_produced, submitted, status, unclog, dones,
  up_awake, down_awake

\* The executor's worker is woken when work is owed.
Executor == INSTANCE GraphExecutor WITH wpc <- epc, woken <- owed

executorVars == <<in_written, in_read, out_written, out_read, lag, epc, cur,
                  n_in, n_out, n_consumed, n_produced, submitted, status, unclog,
                  dones, up_awake, down_awake>>
allVars == <<vars, executorVars>>

PipelineInit ==
  /\ Init
  /\ in_written = [p \in 1..Ins |-> 0] /\ in_read = [p \in 1..Ins |-> 0]
  /\ out_written = [q \in 1..Outs |-> 0] /\ out_read = [q \in 1..Outs |-> 0]
  /\ lag = [b \in 1..(Last - 1) |-> 0]
  /\ epc = "idle" /\ cur = 1
  /\ n_in = [p \in 1..Ins |-> 0] /\ n_out = [q \in 1..Outs |-> 0]
  /\ n_consumed = [b \in 1..Last |-> 0] /\ n_produced = [b \in 1..Last |-> 0]
  /\ submitted = FALSE
  /\ status = "READY" /\ unclog = "none" /\ dones = {}
  /\ up_awake = [p \in 1..Ins |-> TRUE] /\ down_awake = [q \in 1..Outs |-> TRUE]

-----------------------------------------------------------------------------
\* handle_work_notification calls run_one_iteration ...
Call == BeginIteration /\ Executor!Enter

\* ... which runs while others push messages ...
Run == Executor!Iterate /\ UNCHANGED vars

\* Variant: the worker goes by READY whatever the executor returned.
Return_Ready ==
  /\ epc = "idle"
  /\ EndIteration("READY")
  /\ UNCHANGED executorVars

\* ... and whose status decides what is reported and pushed.
Return ==
  /\ epc = "idle"
  /\ EndIteration(status)
  /\ UNCHANGED executorVars

\* The worker outside its iterations.
Drain ==
  /\ \/ Gate \/ OuterTest \/ InnerTest \/ Pop \/ PopNothing
     \/ HandleNotify \/ HandleDone \/ HandleExit \/ SkipWork
  /\ UNCHANGED executorVars

\* A neighbour that moved items notifies the worker through its queue.
Notified(moved) == IF moved THEN Send("NOTIFY") ELSE UNCHANGED vars

Upstream(p) == Executor!Upstream(p) /\ Notified(in_written' # in_written)
Downstream(q) == Executor!Downstream(q) /\ Notified(out_read' # out_read)

\* The runtime's thread and its monitor.
Runtime ==
  /\ \/ StartBlocks \/ SetReady
     \/ ForwardDone \/ OtherSchedulerDone \/ AllFlushed \/ kill
  /\ UNCHANGED executorVars

TheWorker == Call \/ Run \/ Return \/ Drain

PipelineNext ==
  \/ TheWorker \/ Runtime
  \/ (\E p \in 1..Ins : Upstream(p)) \/ (\E q \in 1..Outs : Downstream(q))

\* As in the two components.
PipelineFairness ==
  /\ WF_allVars(TheWorker)
  /\ WF_allVars(SetReady /\ UNCHANGED executorVars)
  /\ WF_allVars(ForwardDone /\ UNCHANGED executorVars)
  /\ WF_allVars(AllFlushed /\ UNCHANGED executorVars)
  /\ \A q \in 1..Outs : WF_allVars(Downstream(q))

PipelineSpec == PipelineInit /\ [][PipelineNext]_allVars /\ PipelineFairness

-----------------------------------------------------------------------------
\* Work was asked for and no iteration has begun for it: it is in the queue,
\* in hand, or noted in do_some_work.
Pending ==
  \/ \E i \in 1..Len(msgq) : msgq[i].kind \in AsksForWork
  \/ wpc = "handle" /\ msg.kind \in AsksForWork
  \/ wpc \in {"inner", "pop", "handle", "work"} /\ do_some_work

(* The worker runs the executor as GraphExecutor says, whatever else comes *)
(* through its queue (thread_wrapper.cc 194-306).                          *)
Runner == INSTANCE GraphExecutor WITH wpc <- epc, woken <- Pending
RunsTheExecutor == Runner!Spec

(* Every whole multiple written to a started worker reaches the reader,    *)
(* however notifications are merged or queued behind other messages,       *)
(* unless the worker is stopped or waits for an answer to nothing          *)
(* (thread_wrapper.cc 207-306, graph_executor.cc 18-320).                  *)
DeliveredUnlessStopped ==
  \A n \in 1..(MaxItems \div Multiple[Last]) :
    ((\A p \in 1..Ins : in_written[p] >= n * Multiple[Last]) /\ ready_to_start)
      ~> \/ \A q \in 1..Outs : out_read[q] >= n * Multiple[Last]
         \/ d_thread_stopped \/ Executor!Deserted

\* The worker sleeps in its queue: the executor's worker that nobody woke.
Waiting == wpc = "pop" /\ msgq = <<>> /\ blocking_queue
Sleeper == INSTANCE GraphExecutor WITH wpc <- epc, woken <- ~Waiting

(* When the worker waits on an empty queue and its neighbours wait for     *)
(* it, there is nothing to do: GraphExecutor's NoStall, for what the       *)
(* worker's queue makes of the notifications (thread_wrapper.cc 207-306,   *)
(* graph_executor.cc 268-288).                                             *)
WaitingMeansDone == Sleeper!NoStall

(* A last block's DONE ends the flowgraph: it comes out of the executor as *)
(* its status, goes to the monitor, comes back as DONE, and the flush that *)
(* it starts ends in EXIT, unless that DONE or an iteration of the flush   *)
(* sent no inference and is waited for all the same (graph_executor.cc     *)
(* 200-205, 229-234, thread_wrapper.cc 76-142, 232-252).                   *)
DoneLeadsToExit == (Last \in dones) ~> (wpc = "exited" \/ Executor!Deserted)
=============================================================================
