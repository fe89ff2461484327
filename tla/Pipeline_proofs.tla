-------------------------- MODULE Pipeline_proofs --------------------------
(***************************************************************************)
(* The pipeline is a ThreadWrapper and, seen through its pending work, a   *)
(* GraphExecutor; what is proved of the two holds of it.                   *)
(***************************************************************************)
EXTENDS Pipeline, ThreadWrapper_proofs

Exec == INSTANCE GraphExecutor_proofs WITH wpc <- epc, woken <- Pending

-----------------------------------------------------------------------------
(* What the queue makes of the work that is asked for.                     *)

LEMMA SamePends == UNCHANGED <<msgq, wpc, msg, do_some_work>> => Pending' = Pending
  BY DEF Pending

LEMMA PushPends ==
  ASSUME msgq \in Seq(Message), NEW m \in Message, push_message(m),
         UNCHANGED <<wpc, msg, do_some_work>>
  PROVE  Pending' = (m.kind \in AsksForWork \/ Pending)
<1>1. Queued(AsksForWork)' <=> m.kind \in AsksForWork \/ Queued(AsksForWork)
  BY PushQueued
<1> QED
  BY <1>1 DEF Pending, Queued

\* The message that is popped is in the worker's hand.
LEMMA PopPends == TypeOK /\ Pop => Pending' = Pending
<1> SUFFICES ASSUME TypeOK, Pop PROVE Pending' = Pending
  OBVIOUS
<1>1. Queued(AsksForWork) <=> Head(msgq).kind \in AsksForWork \/ Queued(AsksForWork)'
  BY PopQueued DEF Pop, TypeOK, DataOK
<1> QED
  BY <1>1 DEF Pending, Queued, Pop

LEMMA HandlePends ==
  TypeOK /\ (HandleNotify \/ HandleDone \/ HandleExit) => Pending' = Pending
<1> SUFFICES ASSUME TypeOK, HandleNotify \/ HandleDone \/ HandleExit PROVE Pending' = Pending
  OBVIOUS
<1>1. CASE HandleNotify
  BY <1>1 DEF HandleNotify, Handling, Pending, AsksForWork
<1>2. CASE HandleDone
  BY <1>2 DEF HandleDone, Handling, Pending, AsksForWork
<1>3. CASE HandleExit
  BY <1>3 DEF HandleExit, Handling, Pending, AsksForWork
<1> QED
  BY <1>1, <1>2, <1>3

LEMMA DrainPends == TypeOK /\ Drain => Pending' = Pending
<1> SUFFICES ASSUME TypeOK, Drain PROVE Pending' = Pending
  OBVIOUS
<1>1. CASE Gate \/ OuterTest \/ InnerTest \/ PopNothing \/ SkipWork
  BY <1>1 DEF Gate, OuterTest, InnerTest, PopNothing, SkipWork, Pending
<1> QED
  BY <1>1, PopPends, HandlePends DEF Drain

LEMMA RuntimePends == TypeOK /\ Runtime => Pending' = TRUE \/ Pending' = Pending
<1> SUFFICES ASSUME TypeOK, Runtime PROVE Pending' = TRUE \/ Pending' = Pending
  OBVIOUS
<1>1. UNCHANGED <<wpc, msg, do_some_work>>
  BY DEF Runtime, StartBlocks, SetReady, ForwardDone, OtherSchedulerDone, AllFlushed,
         kill, Monitor, workerVars
<1>2. UNCHANGED msgq \/ \E m \in Message : push_message(m)
  BY ActionIsMessage
  DEF Runtime, StartBlocks, SetReady, ForwardDone, OtherSchedulerDone, AllFlushed,
      kill, Monitor, ActionKinds
<1> QED
  BY <1>1, <1>2, SamePends, PushPends DEF TypeOK, DataOK, Pending

LEMMA ReturnPends == TypeOK /\ Return => Pending' = TRUE \/ Pending' = Pending
<1> SUFFICES ASSUME TypeOK, Return PROVE Pending' = TRUE \/ Pending' = Pending
  OBVIOUS
<1>1. wpc = "iterating" /\ wpc' = "outer" /\ UNCHANGED <<msg, do_some_work>>
  BY DEF Return, EndIteration, Finish
<1>2. UNCHANGED msgq \/ \E m \in Message : push_message(m)
  BY ActionIsMessage DEF Return, EndIteration, Finish, ActionKinds
<1>3. CASE UNCHANGED msgq
  BY <1>1, <1>3 DEF Pending
<1>4. ASSUME NEW m \in Message, push_message(m) PROVE Pending' = TRUE \/ Pending' = Pending
  <2>1. Queued(AsksForWork)' <=> m.kind \in AsksForWork \/ Queued(AsksForWork)
    BY <1>4, PushQueued DEF TypeOK, DataOK
  <2> QED
    BY <1>1, <2>1 DEF Pending, Queued
<1> QED
  BY <1>2, <1>3, <1>4

\* A neighbour's notification asks for work.
LEMMA SendPends == TypeOK /\ Send("NOTIFY") => Pending' = TRUE
<1> SUFFICES ASSUME TypeOK, Send("NOTIFY") PROVE Pending' = TRUE
  OBVIOUS
<1>1. Action("NOTIFY") \in Message /\ Action("NOTIFY").kind \in AsksForWork
  BY ActionIsMessage DEF ActionKinds, Action, AsksForWork
<1>2. UNCHANGED <<wpc, msg, do_some_work>> /\ push_message(Action("NOTIFY"))
  BY DEF Send, workerVars
<1> QED
  BY <1>1, <1>2, PushPends DEF TypeOK, DataOK

-----------------------------------------------------------------------------
(* Every step is a step of the worker and a step of the executor.          *)

PInv == TypeOK /\ Exec!TypeOK

LEMMA MovesAreSent ==
  ASSUME PInv
  PROVE  /\ \A p \in 1..Ins : Upstream(p) =>
              Executor!Upstream(p) /\ (Send("NOTIFY") \/ UNCHANGED vars)
         /\ \A q \in 1..Outs : Downstream(q) =>
              Executor!Downstream(q) /\ (Send("NOTIFY") \/ UNCHANGED vars)
  BY DEF Upstream, Downstream, Notified

LEMMA WorkerStep == PInv /\ [PipelineNext]_allVars => [Next]_vars
<1> SUFFICES ASSUME PInv, [PipelineNext]_allVars PROVE [Next]_vars
  OBVIOUS
<1>1. CASE Call \/ Run
  BY <1>1 DEF Call, Run, Next, Worker
<1>2. CASE Return
  <2>1. status \in Status /\ EndIteration(status)
    BY <1>2 DEF Return, PInv, Exec!TypeOK, Status
  <2> QED
    BY <2>1 DEF Next, Worker
<1>3. CASE Drain
  BY <1>3 DEF Drain, Next, Worker
<1>4. CASE Runtime
  BY <1>4 DEF Runtime, Next
<1>5. CASE (\E p \in 1..Ins : Upstream(p)) \/ (\E q \in 1..Outs : Downstream(q))
  BY <1>5, MovesAreSent DEF Next
<1>6. CASE UNCHANGED allVars
  BY <1>6 DEF allVars
<1> QED
  BY <1>1, <1>2, <1>3, <1>4, <1>5, <1>6 DEF PipelineNext, TheWorker

LEMMA RunIterates == Run => Exec!Iterate
<1> SUFFICES ASSUME Run PROVE Exec!Iterate
  OBVIOUS
<1>1. Pending' = Pending
  BY SamePends DEF Run, vars, workerVars
<1> USE <1>1 DEF Executor!notices, Exec!notices, Executor!buffers, Exec!buffers,
        Executor!wio, Exec!wio, Executor!result, Exec!result
<1>2. Executor!read_info => Exec!read_info
  BY DEF Executor!read_info, Exec!read_info, Executor!In, Exec!In, Executor!Window, Exec!Window,
         Executor!Available, Exec!Available, Executor!TooFew, Exec!TooFew,
         Executor!Limited, Exec!Limited, Executor!Smaller, Exec!Smaller
<1>3. Executor!write_info => Exec!write_info
  BY DEF Executor!write_info, Exec!write_info, Executor!Out, Exec!Out, Executor!Window, Exec!Window,
         Executor!Space, Exec!Space, Executor!Clogged, Exec!Clogged,
         Executor!max_output_buffer, Exec!max_output_buffer,
         Executor!round_down, Exec!round_down, Executor!Smaller, Exec!Smaller
<1>4. \A ret : Executor!Work(ret) => Exec!Work(ret)
  BY DEF Executor!Work, Exec!Work, Executor!WorkInner, Exec!WorkInner,
         Executor!WorkLast, Exec!WorkLast, Executor!Items, Exec!Items,
         Executor!round_down, Exec!round_down, Executor!Smaller, Exec!Smaller
<1>5. Executor!WorkInsufficient => Exec!WorkInsufficient
  BY DEF Executor!WorkInsufficient, Exec!WorkInsufficient, Executor!Items, Exec!Items,
         Executor!round_down, Exec!round_down, Executor!Smaller, Exec!Smaller
<1>6. Executor!post_read => Exec!post_read
  BY DEF Executor!post_read, Exec!post_read, Executor!In, Exec!In
<1>7. Executor!NotifyOutput => Exec!NotifyOutput
  BY DEF Executor!NotifyOutput, Exec!NotifyOutput, Executor!In, Exec!In
<1>8. Executor!post_write => Exec!post_write
  BY DEF Executor!post_write, Exec!post_write, Executor!Out, Exec!Out
<1>9. Executor!NotifyInput => Exec!NotifyInput
  BY DEF Executor!NotifyInput, Exec!NotifyInput, Executor!Out, Exec!Out
<1>10. Executor!Unclog => Exec!Unclog
  BY DEF Executor!Unclog, Exec!Unclog, Executor!In, Exec!In, Executor!Out, Exec!Out
<1>11. Executor!WaitForCallback => Exec!WaitForCallback
  BY DEF Executor!WaitForCallback, Exec!WaitForCallback
<1>12. Executor!Iterate
  BY DEF Run
<1> QED
  BY <1>2, <1>3, <1>4, <1>5, <1>6, <1>7, <1>8, <1>9, <1>10, <1>11, <1>12
  DEF Executor!Iterate, Exec!Iterate

\* A neighbour moves items and asks for work in one step.
LEMMA UpstreamAsks ==
  ASSUME PInv, NEW p \in 1..Ins, Upstream(p)
  PROVE  Exec!Upstream(p)
<1>1. in_written \in [1..Ins -> Nat] /\ in_read \in [1..Ins -> Nat]
  BY PipelineAssumption DEF PInv, Exec!TypeOK, Exec!In
<1>2. Executor!Upstream(p)
  BY DEF Upstream
<1> USE DEF Executor!Available, Exec!Available, Executor!Smaller, Exec!Smaller,
        Executor!wio, Exec!wio, Executor!result, Exec!result
<1>3. ASSUME NEW k \in 1..Executor!Smaller(Cap - Executor!Available(p), MaxItems - in_written[p]),
             in_written' = [in_written EXCEPT ![p] = @ + k], UNCHANGED up_awake
      PROVE  Exec!Upstream(p)
  <2>1. k \in Nat /\ k # 0
    BY <1>1, <1>3, PipelineAssumption
  <2>2. in_written'[p] # in_written[p]
    BY <1>1, <1>3, <2>1
  <2>3. Pending' = TRUE
    BY <2>2, SendPends DEF PInv, Upstream, Notified
  <2> QED
    BY <1>2, <1>3, <2>3 DEF Executor!Upstream, Exec!Upstream
<1>4. ASSUME Cap <= Executor!Available(p), up_awake' = [up_awake EXCEPT ![p] = FALSE],
             UNCHANGED in_written
      PROVE  Exec!Upstream(p)
  <2>1. Pending' = Pending
    BY <1>4, SamePends DEF Upstream, Notified, vars, workerVars
  <2> QED
    BY <1>2, <1>4, <2>1 DEF Executor!Upstream, Exec!Upstream
<1> QED
  BY <1>2, <1>3, <1>4 DEF Executor!Upstream

LEMMA DownstreamAsks ==
  ASSUME PInv, NEW q \in 1..Outs, Downstream(q)
  PROVE  Exec!Downstream(q)
<1>1. out_written \in [1..Outs -> Nat] /\ out_read \in [1..Outs -> Nat]
  BY DEF PInv, Exec!TypeOK, Exec!Out
<1>2. Executor!Downstream(q)
  BY DEF Downstream
<1> USE DEF Executor!wio, Exec!wio, Executor!result, Exec!result
<1>3. ASSUME NEW k \in 1..(out_written[q] - out_read[q]),
             out_read' = [out_read EXCEPT ![q] = @ + k], UNCHANGED down_awake
      PROVE  Exec!Downstream(q)
  <2>1. out_read'[q] # out_read[q]
    BY <1>1, <1>3
  <2>2. Pending' = TRUE
    BY <2>1, SendPends DEF PInv, Downstream, Notified
  <2> QED
    BY <1>2, <1>3, <2>2 DEF Executor!Downstream, Exec!Downstream
<1>4. ASSUME out_written[q] = out_read[q], down_awake' = [down_awake EXCEPT ![q] = FALSE],
             UNCHANGED out_read
      PROVE  Exec!Downstream(q)
  <2>1. Pending' = Pending
    BY <1>4, SamePends DEF Downstream, Notified, vars, workerVars
  <2> QED
    BY <1>2, <1>4, <2>1 DEF Executor!Downstream, Exec!Downstream
<1> QED
  BY <1>2, <1>3, <1>4 DEF Executor!Downstream

LEMMA ExecutorStep == PInv /\ [PipelineNext]_allVars => [Exec!Next]_(Exec!vars)
<1> SUFFICES ASSUME PInv, [PipelineNext]_allVars PROVE [Exec!Next]_(Exec!vars)
  OBVIOUS
<1> USE DEF Exec!buffers, Exec!wio, Exec!result, Exec!notices
<1>1. CASE Call
  <2>1. Pending /\ Pending' \in BOOLEAN
    BY <1>1 DEF Call, BeginIteration, Pending
  <2>2. Exec!Enter
    BY <1>1 DEF Call, Executor!Enter, Exec!Enter, Executor!buffers, Executor!wio
  <2> QED
    BY <2>1, <2>2 DEF Exec!BeginIteration, Exec!Worker, Exec!Next
<1>2. CASE Run
  BY <1>2, RunIterates DEF Exec!Worker, Exec!Next
<1>3. CASE Return \/ Drain \/ Runtime
  <2>1. UNCHANGED executorVars
    BY <1>3 DEF Return, Drain, Runtime
  <2>2. Pending' = TRUE \/ Pending' = Pending
    BY <1>3, DrainPends, ReturnPends, RuntimePends DEF PInv
  <2>3. CASE Pending' = TRUE
    BY <2>1, <2>3 DEF executorVars, Exec!Asked, Exec!Next
  <2>4. CASE Pending' = Pending
    BY <2>1, <2>4 DEF executorVars, Exec!vars
  <2> QED
    BY <2>2, <2>3, <2>4
<1>4. ASSUME NEW p \in 1..Ins, Upstream(p) PROVE Exec!Next
  BY <1>4, UpstreamAsks DEF Exec!Next, Exec!In
<1>5. ASSUME NEW q \in 1..Outs, Downstream(q) PROVE Exec!Next
  BY <1>5, DownstreamAsks DEF Exec!Next, Exec!Out
<1>6. CASE UNCHANGED allVars
  BY <1>6, SamePends DEF allVars, vars, workerVars, executorVars, Exec!vars
<1> QED
  BY <1>1, <1>2, <1>3, <1>4, <1>5, <1>6 DEF PipelineNext, TheWorker

-----------------------------------------------------------------------------
(* The two specifications.                                                 *)

LEMMA PipelineInits == PipelineInit => Init /\ Exec!Init
<1> SUFFICES ASSUME PipelineInit PROVE Init /\ Exec!Init
  OBVIOUS
<1>1. Init
  BY DEF PipelineInit
<1>2. Pending = FALSE
  BY <1>1 DEF Init, Pending
<1>3. Exec!Init
  BY <1>2 DEF PipelineInit, Exec!Init, Exec!In, Exec!Out, Exec!Blocks
<1> QED
  BY <1>1, <1>3

LEMMA PipelineTypes == PipelineSpec => []PInv
<1>1. PipelineInit => PInv
  BY PipelineInits, InitType, Exec!TypeInit, PipelineAssumption DEF PInv
<1>2. PInv /\ [PipelineNext]_allVars => PInv'
  <2> SUFFICES ASSUME PInv, [PipelineNext]_allVars PROVE PInv'
    OBVIOUS
  <2>1. TypeOK'
    BY WorkerStep, NextType DEF PInv
  <2>2. Exec!TypeOK'
    BY ExecutorStep, Exec!NextType, PipelineAssumption DEF PInv
  <2> QED
    BY <2>1, <2>2 DEF PInv
<1> QED
  BY <1>1, <1>2, PTL DEF PipelineSpec

(* The pipeline's worker is the worker of ThreadWrapper, with the          *)
(* executor's statuses, so all that is proved of that one holds of it      *)
(* (thread_wrapper.cc 76-142, 194-306).                                    *)
THEOREM PipelineIsAWorker == PipelineSpec => Spec
<1>1. PipelineInit => Init
  BY PipelineInits
<1>2. PInv /\ [PipelineNext]_allVars => [Next]_vars
  BY WorkerStep
<1> QED
  BY <1>1, <1>2, PipelineTypes, PTL DEF PipelineSpec, Spec

LEMMA PipelineIsAnExecutor == PipelineSpec => Exec!Spec
<1>1. PipelineInit => Exec!Init
  BY PipelineInits
<1>2. PInv /\ [PipelineNext]_allVars => [Exec!Next]_(Exec!vars)
  BY ExecutorStep
<1> QED
  BY <1>1, <1>2, PipelineTypes, PTL DEF PipelineSpec, Exec!Spec

\* Runner and Exec are instances of one specification.
LEMMA SameNext == [Exec!Next]_(Exec!vars) => [Runner!Next]_(Runner!vars)
<1> USE DEF Exec!buffers, Runner!buffers, Exec!wio, Runner!wio, Exec!result, Runner!result,
        Exec!notices, Runner!notices
<1>1. Exec!BeginIteration => Runner!BeginIteration
  BY DEF Exec!BeginIteration, Runner!BeginIteration, Exec!Enter, Runner!Enter
<1>2. Exec!read_info => Runner!read_info
  BY DEF Exec!read_info, Runner!read_info, Exec!In, Runner!In, Exec!Window, Runner!Window,
         Exec!Available, Runner!Available, Exec!TooFew, Runner!TooFew,
         Exec!Limited, Runner!Limited, Exec!Smaller, Runner!Smaller
<1>3. Exec!write_info => Runner!write_info
  BY DEF Exec!write_info, Runner!write_info, Exec!Out, Runner!Out, Exec!Window, Runner!Window,
         Exec!Space, Runner!Space, Exec!Clogged, Runner!Clogged,
         Exec!max_output_buffer, Runner!max_output_buffer,
         Exec!round_down, Runner!round_down, Exec!Smaller, Runner!Smaller
<1>4. \A ret : Exec!Work(ret) => Runner!Work(ret)
  BY DEF Exec!Work, Runner!Work, Exec!WorkInner, Runner!WorkInner,
         Exec!WorkLast, Runner!WorkLast, Exec!Items, Runner!Items,
         Exec!round_down, Runner!round_down, Exec!Smaller, Runner!Smaller
<1>5. Exec!WorkInsufficient => Runner!WorkInsufficient
  BY DEF Exec!WorkInsufficient, Runner!WorkInsufficient, Exec!Items, Runner!Items,
         Exec!round_down, Runner!round_down, Exec!Smaller, Runner!Smaller
<1>6. Exec!post_read => Runner!post_read
  BY DEF Exec!post_read, Runner!post_read, Exec!In, Runner!In
<1>7. Exec!NotifyOutput => Runner!NotifyOutput
  BY DEF Exec!NotifyOutput, Runner!NotifyOutput, Exec!In, Runner!In
<1>8. Exec!post_write => Runner!post_write
  BY DEF Exec!post_write, Runner!post_write, Exec!Out, Runner!Out
<1>9. Exec!NotifyInput => Runner!NotifyInput
  BY DEF Exec!NotifyInput, Runner!NotifyInput, Exec!Out, Runner!Out
<1>10. Exec!Unclog => Runner!Unclog
  BY DEF Exec!Unclog, Runner!Unclog, Exec!In, Runner!In, Exec!Out, Runner!Out
<1>11. Exec!WaitForCallback => Runner!WaitForCallback
  BY DEF Exec!WaitForCallback, Runner!WaitForCallback
<1>12. Exec!Worker => Runner!Worker
  BY <1>1, <1>2, <1>3, <1>4, <1>5, <1>6, <1>7, <1>8, <1>9, <1>10, <1>11
  DEF Exec!Worker, Runner!Worker, Exec!Iterate, Runner!Iterate
<1>13. \A p : Exec!Upstream(p) => Runner!Upstream(p)
  BY DEF Exec!Upstream, Runner!Upstream, Exec!Available, Runner!Available,
         Exec!Smaller, Runner!Smaller
<1>14. \A q : Exec!Downstream(q) => Runner!Downstream(q)
  BY DEF Exec!Downstream, Runner!Downstream
<1>15. Exec!Asked => Runner!Asked
  BY DEF Exec!Asked, Runner!Asked
<1>16. Exec!Next => Runner!Next
  BY <1>12, <1>13, <1>14, <1>15 DEF Exec!Next, Runner!Next, Exec!In, Runner!In, Exec!Out, Runner!Out
<1>17. Exec!vars = Runner!vars /\ Exec!vars' = Runner!vars'
  BY DEF Exec!vars, Runner!vars
<1> QED
  BY <1>16, <1>17

(* The worker runs the executor as GraphExecutor says: its queue loses no  *)
(* request for work and makes up none, for any chain, any clients and any  *)
(* number of messages (thread_wrapper.cc 194-306).                         *)
THEOREM WorkerRunsTheExecutor == PipelineSpec => RunsTheExecutor
<1>1. Exec!Init => Runner!Init
  BY DEF Exec!Init, Runner!Init, Exec!In, Runner!In, Exec!Out, Runner!Out, Exec!Blocks, Runner!Blocks
<1>2. [Exec!Next]_(Exec!vars) => [Runner!Next]_(Runner!vars)
  BY SameNext
<1> QED
  BY <1>1, <1>2, PipelineIsAnExecutor, PTL DEF Exec!Spec, RunsTheExecutor, Runner!Spec

-----------------------------------------------------------------------------
(* What follows of the two together.                                       *)

(* To its neighbours the worker with its chain is one sync block, however  *)
(* its iterations are asked for, flushed or cut short by messages, if the  *)
(* chain's first and last block have the same multiple                     *)
(* (thread_wrapper.cc 76-142, graph_executor.cc 18-320).                   *)
THEOREM PipelineIsASyncBlock ==
  ASSUME Multiple[1] = Multiple[Last] PROVE PipelineSpec => Exec!IsSyncStream
  BY Exec!TheExecutorIsASyncBlock, PipelineIsAnExecutor, PipelineAssumption, PTL

\* A worker that waits for a message has no work noted.
LEMMA WaitingIsIdle == IInv /\ Waiting => ~Pending
  BY DEF IInv, BlockingMeansIdle, Waiting, Pending

(* When the worker waits on an empty queue and its neighbours wait for it  *)
(* there is nothing to do, for any messages and a chain of any length, if  *)
(* its first and last block have the same multiple, an empty output buffer *)
(* is enough to work, and so is a part that a single-mapped buffer tells   *)
(* of (thread_wrapper.cc 207-306, graph_executor.cc 98-131, 268-288).      *)
THEOREM WaitingIsDone ==
  ASSUME Exec!PartsSuffice, Multiple[1] = Multiple[Last]
  PROVE  PipelineSpec => []WaitingMeansDone
<1>1. Exec!Spec => []Exec!NoStall
  BY Exec!NotificationsSuffice, PipelineAssumption
<1>2. IInv /\ Exec!NoStall => WaitingMeansDone
  <2> SUFFICES ASSUME IInv, Exec!NoStall, Sleeper!AllWait
               PROVE  Sleeper!NoStall
    BY DEF WaitingMeansDone, Sleeper!NoStall
  <2>1. Waiting
    BY DEF Sleeper!AllWait
  <2>2. Exec!AllWait
    BY <2>1, WaitingIsIdle
    DEF Sleeper!AllWait, Exec!AllWait, Sleeper!In, Exec!In, Sleeper!Out, Exec!Out,
        Sleeper!Finished, Exec!Finished
  <2> QED
    BY <2>2
    DEF Sleeper!NoStall, Exec!NoStall, Sleeper!In, Exec!In, Sleeper!Out, Exec!Out,
        Sleeper!Finished, Exec!Finished, Sleeper!Available, Exec!Available,
        Sleeper!TooFew, Exec!TooFew, Sleeper!Limited, Exec!Limited,
        Sleeper!Smaller, Exec!Smaller
<1> QED
  BY <1>1, <1>2, PipelineIsAWorker, PipelineIsAnExecutor, Invariance, PTL
=============================================================================
