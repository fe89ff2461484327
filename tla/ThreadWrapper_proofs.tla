------------------------ MODULE ThreadWrapper_proofs ------------------------
(***************************************************************************)
(* The safety invariants of ThreadWrapper hold for every set of clients    *)
(* and values, every flush configuration and any number of messages.       *)
(***************************************************************************)
EXTENDS ThreadWrapper, SequenceTheorems, TLAPS

-----------------------------------------------------------------------------
(* The inductive invariant.                                                *)

Queued(Kinds) == \E i \in 1..Len(msgq) : msgq[i].kind \in Kinds
InHand(Kinds) == wpc = "handle" /\ msg.kind \in Kinds

\* Work that is owed is in the queue, in hand, or noted in do_some_work.
OwedIsPending ==
  owed /\ wpc # "exited" =>
    \/ Queued(AsksForWork)
    \/ InHand(AsksForWork)
    \/ do_some_work /\ wpc \in {"inner", "pop", "handle", "work"}

\* The worker waits for a message only with no work noted.
BlockingMeansIdle ==
  /\ blocking_queue /\ wpc \in {"inner", "pop"} => ~do_some_work
  /\ wpc = "handle" => ~blocking_queue

\* A late iteration is followed by the test of the stop flag.
LateMeansLast ==
  /\ late \in {0, 1}
  /\ late = 1 => d_thread_stopped /\ wpc \in {"iterating", "outer", "exited"}

\* The worker leaves the gate after start() only, and blocks are stopped
\* only by a worker that has left it or after one that has.
GateOpensOnce ==
  /\ wpc # "gate" => ready_to_start
  /\ ready_to_start \/ api = "starting" => "start" \in called
  /\ blocks = "stopped" => wpc # "gate"

\* Whoever sets the stop flag stops the blocks.
StopIsComplete ==
  /\ d_thread_stopped => blocks = "stopped" \/ api \in {"stopping", "stop_join"}
  /\ wpc = "exited" => d_thread_stopped

\* The worker flushes only on the monitor's word.
DoneIsForwarded ==
  d_flushing \/ Queued({"DONE"}) \/ InHand({"DONE"}) \/ "FLUSHED" \in inbox
    => rtmon # "watching"

IInv ==
  /\ TypeOK
  /\ OwedIsPending
  /\ BlockingMeansIdle
  /\ LateMeansLast
  /\ GateOpensOnce
  /\ StopIsComplete
  /\ DoneIsForwarded
-----------------------------------------------------------------------------
(* Type correctness.                                                       *)

LEMMA ActionIsMessage ==
  ASSUME NEW k \in ActionKinds \union {"MSGPORT_MESSAGE"}
  PROVE  Action(k) \in Message
  BY DEF Action, Message

LEMMA MessageFields ==
  ASSUME NEW m \in Message
  PROVE  /\ m.kind = "PARAMETER_QUERY" => m.arg \in Clients
         /\ m.kind = "PARAMETER_CHANGE" => m.arg \in Values
  BY DEF Message, ActionKinds

\* A push keeps the queue a queue of messages.
LEMMA PushType ==
  ASSUME msgq \in Seq(Message), NEW m \in Message, push_message(m)
  PROVE  msgq' \in Seq(Message)
  BY DEF push_message

\* So does a pop.
LEMMA PopType ==
  ASSUME msgq \in Seq(Message), msgq # <<>>
  PROVE  Head(msgq) \in Message /\ Tail(msgq) \in Seq(Message)
  OBVIOUS

LEMMA InitType == Init => TypeOK
<1> SUFFICES ASSUME Init PROVE TypeOK
  OBVIOUS
<1>1. FlagsOK
  BY Zenon DEF Init, factory, FlagsOK
<1>2. msg \in Message
  BY ActionIsMessage DEF Init, ActionKinds
<1>3. DataOK
  BY <1>2, ConstantsAssumption DEF Init, DataOK, WorkerStates
<1> QED
  BY <1>1, <1>3 DEF TypeOK

LEMMA NextFlags == FlagsOK /\ [Next]_vars => FlagsOK'
<1> SUFFICES ASSUME FlagsOK, [Next]_vars PROVE FlagsOK'
  OBVIOUS
<1> USE DEF FlagsOK
<1>1. CASE Worker
  <2>1. CASE Gate
    BY <2>1, Zenon DEF Gate, flushVars, apiVars
  <2>2. CASE OuterTest
    BY <2>2, Zenon DEF OuterTest, flushVars, apiVars
  <2>3. CASE InnerTest
    BY <2>3, Zenon DEF InnerTest, flushVars, apiVars
  <2>4. CASE Pop
    BY <2>4, Zenon DEF Pop, flushVars, apiVars
  <2>5. CASE PopNothing
    BY <2>5, Zenon DEF PopNothing, flushVars, apiVars
  <2>6. CASE HandleNotify
    BY <2>6, Zenon DEF HandleNotify, Handling, flushVars, apiVars
  <2>7. CASE HandleSignalDone
    BY <2>7, Zenon DEF HandleSignalDone, Handling, flushVars, apiVars
  <2>8. CASE HandleDone
    BY <2>8, Zenon
    DEF HandleDone, start_flushing, Handling, push_message, flushVars, apiVars
  <2>9. CASE HandleExit
    BY <2>9, Zenon DEF HandleExit, stop_blocks, Handling, flushVars, apiVars
  <2>10. CASE HandleMsgport
    BY <2>10, Zenon DEF HandleMsgport, Handling, flushVars, apiVars
  <2>11. CASE handle_parameter_query
    BY <2>11, Zenon DEF handle_parameter_query, Handling, flushVars, apiVars
  <2>12. CASE handle_parameter_change
    BY <2>12, Zenon DEF handle_parameter_change, Handling, flushVars, apiVars
  <2>13. CASE SkipWork
    BY <2>13, Zenon DEF SkipWork, flushVars, apiVars
  <2>14. CASE BeginIteration
    BY <2>14, Zenon DEF BeginIteration, flushVars, apiVars
  <2>15. ASSUME NEW s \in Status, EndIteration(s) PROVE FlagsOK'
    BY <2>15, Zenon DEF EndIteration, Finish, push_message, apiVars
  <2> QED
    BY <1>1, <2>1, <2>2, <2>3, <2>4, <2>5, <2>6, <2>7, <2>8,
       <2>9, <2>10, <2>11, <2>12, <2>13, <2>14, <2>15 DEF Worker
<1>2. CASE StartBlocks \/ SetReady \/ StopSetFlag \/ StopKill \/ StopJoin
             \/ CallWait \/ WaitJoin
  BY <1>2, Zenon
  DEF StartBlocks, SetReady, StopSetFlag, StopKill, StopJoin, CallWait,
      WaitJoin,
      push_message, workerVars, flushVars
<1>3. CASE ForwardDone \/ OtherSchedulerDone \/ AllFlushed \/ kill
  BY <1>3, Zenon
  DEF ForwardDone, OtherSchedulerDone, AllFlushed, kill, Monitor, push_message,
      workerVars, flushVars, apiVars
<1>4. ASSUME NEW k \in {"NOTIFY", "SIGNAL_DONE", "MSGPORT_MESSAGE"}, Send(k)
      PROVE  FlagsOK'
  BY <1>4, Zenon DEF Send, push_message, workerVars, flushVars, apiVars
<1>5. ASSUME NEW c \in Clients, Query(c) PROVE FlagsOK'
  BY <1>5, Zenon DEF Query, push_message, workerVars, flushVars, apiVars
<1>6. ASSUME NEW v \in Values, Change(v) PROVE FlagsOK'
  BY <1>6, Zenon DEF Change, push_message, workerVars, flushVars, apiVars
<1>7. CASE UNCHANGED vars
  BY <1>7, Zenon DEF vars, workerVars, flushVars, apiVars
<1> QED
  BY <1>1, <1>2, <1>3, <1>4, <1>5, <1>6, <1>7 DEF Next

LEMMA NextData == DataOK /\ [Next]_vars => DataOK'
<1> SUFFICES ASSUME DataOK, [Next]_vars PROVE DataOK'
  OBVIOUS
<1> USE DEF DataOK, WorkerStates
<1>1. CASE Worker
  <2>1. CASE Gate
    BY <2>1 DEF Gate, flushVars, apiVars, monVars, paramVars
  <2>2. CASE OuterTest
    BY <2>2 DEF OuterTest, flushVars, apiVars, monVars, paramVars
  <2>3. CASE InnerTest
    BY <2>3 DEF InnerTest, flushVars, apiVars, monVars, paramVars
  <2>4. CASE Pop
    BY <2>4, PopType DEF Pop, flushVars, apiVars, monVars, paramVars
  <2>5. CASE PopNothing
    BY <2>5 DEF PopNothing, flushVars, apiVars, monVars, paramVars
  <2>6. CASE HandleNotify
    BY <2>6 DEF HandleNotify, Handling, flushVars, apiVars, monVars, paramVars
  <2>7. CASE HandleSignalDone
    BY <2>7
    DEF HandleSignalDone, Handling, flushVars, apiVars, monVars, paramVars
  <2>8. CASE HandleDone
    BY <2>8, PushType, ActionIsMessage
    DEF HandleDone, start_flushing, Handling, ActionKinds, flushVars, apiVars,
        monVars, paramVars
  <2>9. CASE HandleExit
    BY <2>9
    DEF HandleExit, stop_blocks, Handling, flushVars, apiVars, monVars,
        paramVars
  <2>10. CASE HandleMsgport
    BY <2>10
    DEF HandleMsgport, Handling, flushVars, apiVars, monVars, paramVars
  <2>11. CASE handle_parameter_query
    BY <2>11, MessageFields
    DEF handle_parameter_query, Handling, flushVars, apiVars, monVars, paramVars
  <2>12. CASE handle_parameter_change
    BY <2>12, MessageFields
    DEF handle_parameter_change, Handling, flushVars, apiVars, monVars,
        paramVars
  <2>13. CASE SkipWork
    BY <2>13 DEF SkipWork, flushVars, apiVars, monVars, paramVars
  <2>14. CASE BeginIteration
    BY <2>14 DEF BeginIteration, flushVars, apiVars, monVars, paramVars
  <2>15. ASSUME NEW s \in Status, EndIteration(s) PROVE DataOK'
    BY <2>15, PushType, ActionIsMessage
    DEF EndIteration, Finish, apiVars, paramVars, ActionKinds
  <2> QED
    BY <1>1, <2>1, <2>2, <2>3, <2>4, <2>5, <2>6, <2>7, <2>8,
       <2>9, <2>10, <2>11, <2>12, <2>13, <2>14, <2>15 DEF Worker
<1>2. CASE StartBlocks \/ SetReady \/ StopSetFlag \/ StopKill \/ StopJoin
             \/ CallWait \/ WaitJoin
  BY <1>2, PushType, ActionIsMessage
  DEF StartBlocks, SetReady, StopSetFlag, StopKill, StopJoin, CallWait,
      WaitJoin,
      workerVars, flushVars, monVars, paramVars, ActionKinds
<1>3. CASE ForwardDone \/ OtherSchedulerDone \/ AllFlushed \/ kill
  BY <1>3, PushType, ActionIsMessage
  DEF ForwardDone, OtherSchedulerDone, AllFlushed, kill, Monitor, ActionKinds,
      workerVars, flushVars, apiVars, paramVars
<1>4. ASSUME NEW k \in {"NOTIFY", "SIGNAL_DONE", "MSGPORT_MESSAGE"}, Send(k)
      PROVE  DataOK'
  BY <1>4, PushType, ActionIsMessage
  DEF Send, workerVars, flushVars, apiVars, monVars, paramVars, ActionKinds
<1>5. ASSUME NEW c \in Clients, Query(c) PROVE DataOK'
  <2>1. [kind |-> "PARAMETER_QUERY", arg |-> c] \in Message
    BY DEF Message
  <2> QED
    BY <1>5, <2>1, PushType DEF Query, workerVars, flushVars, apiVars, monVars
<1>6. ASSUME NEW v \in Values, Change(v) PROVE DataOK'
  <2>1. [kind |-> "PARAMETER_CHANGE", arg |-> v] \in Message
    BY DEF Message
  <2> QED
    BY <1>6, <2>1, PushType DEF Change, workerVars, flushVars, apiVars, monVars
<1>7. CASE UNCHANGED vars
  BY <1>7 DEF vars, workerVars, flushVars, apiVars, monVars, paramVars
<1> QED
  BY <1>1, <1>2, <1>3, <1>4, <1>5, <1>6, <1>7 DEF Next

LEMMA NextType == TypeOK /\ [Next]_vars => TypeOK'
  BY NextFlags, NextData DEF TypeOK

\* Every variable of thread_body and of its callers stays in its domain.
THEOREM TypeCorrect == Spec => []TypeOK
  BY InitType, NextType, PTL DEF Spec

-----------------------------------------------------------------------------
(* What a push and a pop do to the kinds of message waiting.               *)

LEMMA PushQueued ==
  ASSUME msgq \in Seq(Message), NEW m \in Message, push_message(m), NEW K
  PROVE  Queued(K)' <=> m.kind \in K \/ Queued(K)
<1>1. /\ Len(msgq') = Len(msgq) + 1
      /\ \A i \in 1..Len(msgq) : msgq'[i] = msgq[i]
      /\ msgq'[Len(msgq) + 1] = m
      /\ Len(msgq) \in Nat
  BY AppendProperties DEF push_message
<1> QED
  BY <1>1 DEF Queued

LEMMA PopQueued ==
  ASSUME msgq \in Seq(Message), msgq # <<>>, msgq' = Tail(msgq), NEW K
  PROVE  Queued(K) <=> Head(msgq).kind \in K \/ Queued(K)'
  BY DEF Queued

LEMMA SameQueued ==
  ASSUME UNCHANGED msgq, NEW K
  PROVE  Queued(K)' <=> Queued(K)
  BY DEF Queued

\* The other threads reach the worker through its queue only.
LEMMA OthersPush ==
  ASSUME [Next]_vars
  PROVE  \/ Worker
         \/ /\ UNCHANGED <<workerVars, late, flushVars>>
            /\ \/ UNCHANGED <<msgq, owed>>
               \/ \E m \in Message : push_message(m)
<1>1. CASE StartBlocks \/ SetReady \/ StopSetFlag \/ StopKill \/ StopJoin
             \/ CallWait \/ WaitJoin
  BY <1>1, ActionIsMessage
  DEF StartBlocks, SetReady, StopSetFlag, StopKill, StopJoin, CallWait,
      WaitJoin,
      ActionKinds
<1>2. CASE ForwardDone \/ OtherSchedulerDone \/ AllFlushed \/ kill
  BY <1>2, ActionIsMessage
  DEF ForwardDone, OtherSchedulerDone, AllFlushed, kill, Monitor, ActionKinds
<1>3. ASSUME NEW k \in {"NOTIFY", "SIGNAL_DONE", "MSGPORT_MESSAGE"}, Send(k)
      PROVE  /\ UNCHANGED <<workerVars, late, flushVars>>
             /\ \E m \in Message : push_message(m)
  BY <1>3, ActionIsMessage DEF Send, ActionKinds
<1>4. ASSUME NEW c \in Clients, Query(c)
      PROVE  /\ UNCHANGED <<workerVars, late, flushVars>>
             /\ \E m \in Message : push_message(m)
  BY <1>4 DEF Query, Message
<1>5. ASSUME NEW v \in Values, Change(v)
      PROVE  /\ UNCHANGED <<workerVars, late, flushVars>>
             /\ \E m \in Message : push_message(m)
  BY <1>5 DEF Change, Message
<1>6. CASE UNCHANGED vars
  BY <1>6 DEF vars
<1> QED
  BY <1>1, <1>2, <1>3, <1>4, <1>5, <1>6 DEF Next

-----------------------------------------------------------------------------
(* No lost wake-up.                                                        *)

LEMMA NextOwed == TypeOK /\ OwedIsPending /\ [Next]_vars => OwedIsPending'
<1> SUFFICES ASSUME TypeOK, OwedIsPending, [Next]_vars PROVE OwedIsPending'
  OBVIOUS
<1> USE DEF OwedIsPending, InHand
<1>0. msgq \in Seq(Message)
  BY DEF TypeOK, DataOK
<1>1. CASE Gate \/ OuterTest \/ InnerTest \/ PopNothing \/ SkipWork \/ BeginIteration
  BY <1>1, SameQueued, Zenon
  DEF Gate, OuterTest, InnerTest, PopNothing, SkipWork, BeginIteration
<1>2. CASE HandleNotify \/ HandleSignalDone \/ HandleExit \/ HandleMsgport
             \/ handle_parameter_query \/ handle_parameter_change
  BY <1>2, SameQueued
  DEF HandleNotify, HandleSignalDone, HandleExit, stop_blocks, HandleMsgport,
      handle_parameter_query, handle_parameter_change, Handling, AsksForWork
<1>3. CASE Pop
  <2>1. Queued(AsksForWork) => msg'.kind \in AsksForWork \/ Queued(AsksForWork)'
    BY <1>0, <1>3, PopQueued DEF Pop
  <2> QED
    BY <1>3, <2>1 DEF Pop
<1>4. CASE HandleDone
  BY <1>0, <1>4, PushQueued, ActionIsMessage
  DEF HandleDone, start_flushing, Handling, ActionKinds
<1>5. ASSUME NEW s \in Status, EndIteration(s) PROVE OwedIsPending'
  <2>1. wpc = "iterating"
    BY <1>5 DEF EndIteration, Finish
  <2>2. push_message(Action("NOTIFY")) \/ UNCHANGED <<msgq, owed>>
    BY <1>5 DEF EndIteration, Finish
  <2>3. CASE push_message(Action("NOTIFY"))
    BY <1>0, <2>3, PushQueued, ActionIsMessage
    DEF Action, ActionKinds, AsksForWork
  <2>4. CASE UNCHANGED <<msgq, owed>>
    <3>1. owed => Queued(AsksForWork)
      BY <2>1
    <3> QED
      BY <2>4, <3>1, SameQueued
  <2> QED
    BY <2>2, <2>3, <2>4
<1>6. CASE UNCHANGED workerVars /\ UNCHANGED <<msgq, owed>>
  BY <1>6, SameQueued DEF workerVars
<1>7. ASSUME UNCHANGED workerVars, NEW m \in Message, push_message(m)
      PROVE  OwedIsPending'
  BY <1>0, <1>7, PushQueued DEF workerVars, push_message
<1> QED
  BY <1>1, <1>2, <1>3, <1>4, <1>5, <1>6, <1>7, OthersPush DEF Worker

-----------------------------------------------------------------------------
(* The worker's own flags.                                                 *)

LEMMA NextBlocking ==
  FlagsOK /\ BlockingMeansIdle /\ [Next]_vars => BlockingMeansIdle'
<1> SUFFICES ASSUME FlagsOK, BlockingMeansIdle, [Next]_vars
             PROVE  BlockingMeansIdle'
  OBVIOUS
<1> USE DEF BlockingMeansIdle
<1>1. CASE Gate \/ OuterTest \/ InnerTest \/ Pop \/ PopNothing \/ SkipWork
             \/ BeginIteration
  BY <1>1
  DEF Gate, OuterTest, InnerTest, Pop, PopNothing, SkipWork, BeginIteration
<1>2. CASE HandleNotify \/ HandleSignalDone \/ HandleDone \/ HandleExit
             \/ HandleMsgport \/ handle_parameter_query \/ handle_parameter_change
  BY <1>2
  DEF HandleNotify, HandleSignalDone, HandleDone, start_flushing, HandleExit,
      stop_blocks, HandleMsgport,
      handle_parameter_query, handle_parameter_change, Handling
<1>3. ASSUME NEW s \in Status, EndIteration(s) PROVE BlockingMeansIdle'
  BY <1>3 DEF EndIteration, Finish
<1>4. CASE UNCHANGED workerVars
  BY <1>4 DEF workerVars
<1> QED
  BY <1>1, <1>2, <1>3, <1>4, OthersPush DEF Worker

LEMMA NextLate == LateMeansLast /\ [Next]_vars => LateMeansLast'
<1> SUFFICES ASSUME LateMeansLast, [Next]_vars PROVE LateMeansLast'
  OBVIOUS
<1> USE DEF LateMeansLast
<1>1. d_thread_stopped => d_thread_stopped'
  <2>1. CASE Worker
    BY <2>1, Zenon
    DEF Worker, Gate, OuterTest, InnerTest, Pop, PopNothing, HandleNotify,
        HandleSignalDone, HandleDone, start_flushing, HandleExit, stop_blocks,
        HandleMsgport,
        handle_parameter_query, handle_parameter_change, SkipWork,
        BeginIteration,
        EndIteration, Finish
  <2> QED
    BY <2>1, Zenon
    DEF Next, StartBlocks, SetReady, StopSetFlag, StopKill, StopJoin, CallWait,
        WaitJoin, ForwardDone, OtherSchedulerDone, AllFlushed, kill, Monitor,
        Send, Query, Change, vars
<1>2. CASE Gate \/ InnerTest \/ Pop \/ PopNothing \/ SkipWork
  BY <1>2 DEF Gate, InnerTest, Pop, PopNothing, SkipWork
<1>3. CASE OuterTest
  BY <1>3 DEF OuterTest
<1>4. CASE BeginIteration
  BY <1>4 DEF BeginIteration
<1>5. CASE HandleNotify \/ HandleSignalDone \/ HandleDone \/ HandleExit
             \/ HandleMsgport \/ handle_parameter_query \/ handle_parameter_change
  BY <1>5
  DEF HandleNotify, HandleSignalDone, HandleDone, start_flushing, HandleExit,
      stop_blocks, HandleMsgport,
      handle_parameter_query, handle_parameter_change, Handling
<1>6. ASSUME NEW s \in Status, EndIteration(s) PROVE LateMeansLast'
  BY <1>6, <1>1 DEF EndIteration, Finish
<1>7. CASE UNCHANGED <<workerVars, late>>
  BY <1>1, <1>7 DEF workerVars
<1> QED
  BY <1>2, <1>3, <1>4, <1>5, <1>6, <1>7, OthersPush DEF Worker

-----------------------------------------------------------------------------
(* The worker and the calls of the runtime's thread.                       *)

LEMMA NextGate ==
  GateOpensOnce /\ [Next]_vars => GateOpensOnce'
<1> SUFFICES ASSUME GateOpensOnce, [Next]_vars PROVE GateOpensOnce'
  OBVIOUS
<1> USE DEF GateOpensOnce
<1>1. CASE Gate \/ OuterTest \/ InnerTest \/ Pop \/ PopNothing \/ SkipWork
             \/ BeginIteration
  BY <1>1
  DEF Gate, OuterTest, InnerTest, Pop, PopNothing, SkipWork, BeginIteration,
      apiVars
<1>2. CASE HandleNotify \/ HandleSignalDone \/ HandleDone \/ HandleExit
             \/ HandleMsgport \/ handle_parameter_query \/ handle_parameter_change
  BY <1>2
  DEF HandleNotify, HandleSignalDone, HandleDone, start_flushing, HandleExit,
      stop_blocks, HandleMsgport,
      handle_parameter_query, handle_parameter_change, Handling, apiVars
<1>3. ASSUME NEW s \in Status, EndIteration(s) PROVE GateOpensOnce'
  BY <1>3 DEF EndIteration, Finish, apiVars
<1>4. CASE StartBlocks \/ SetReady \/ StopSetFlag \/ StopKill \/ StopJoin
             \/ CallWait \/ WaitJoin
  BY <1>4
  DEF StartBlocks, SetReady, StopSetFlag, StopKill, StopJoin, CallWait,
      WaitJoin,
      workerVars
<1>5. CASE UNCHANGED <<workerVars, apiVars, blocks>>
  BY <1>5 DEF workerVars, apiVars
<1> QED
  BY <1>1, <1>2, <1>3, <1>4, <1>5
  DEF Next, Worker, ForwardDone, OtherSchedulerDone, AllFlushed, kill, Monitor,
      Send, Query, Change, vars

LEMMA NextStop ==
  GateOpensOnce /\ StopIsComplete /\ [Next]_vars => StopIsComplete'
<1> SUFFICES ASSUME GateOpensOnce, StopIsComplete, [Next]_vars
             PROVE  StopIsComplete'
  OBVIOUS
<1> USE DEF StopIsComplete
<1>1. CASE Gate \/ OuterTest \/ InnerTest \/ Pop \/ PopNothing \/ SkipWork
             \/ BeginIteration
  BY <1>1
  DEF Gate, OuterTest, InnerTest, Pop, PopNothing, SkipWork, BeginIteration,
      apiVars
<1>2. CASE HandleNotify \/ HandleSignalDone \/ HandleDone \/ HandleExit
             \/ HandleMsgport \/ handle_parameter_query \/ handle_parameter_change
  BY <1>2
  DEF HandleNotify, HandleSignalDone, HandleDone, start_flushing, HandleExit,
      stop_blocks, HandleMsgport,
      handle_parameter_query, handle_parameter_change, Handling, apiVars
<1>3. ASSUME NEW s \in Status, EndIteration(s) PROVE StopIsComplete'
  BY <1>3 DEF EndIteration, Finish, apiVars
<1>4. CASE StartBlocks
  BY <1>4 DEF StartBlocks, GateOpensOnce, workerVars
<1>5. CASE SetReady \/ StopSetFlag \/ StopKill \/ StopJoin \/ CallWait \/ WaitJoin
  BY <1>5
  DEF SetReady, StopSetFlag, StopKill, StopJoin, CallWait, WaitJoin, workerVars
<1>6. CASE UNCHANGED <<d_thread_stopped, workerVars, apiVars, blocks>>
  BY <1>6 DEF workerVars, apiVars
<1> QED
  BY <1>1, <1>2, <1>3, <1>4, <1>5, <1>6
  DEF Next, Worker, ForwardDone, OtherSchedulerDone, AllFlushed, kill, Monitor,
      Send, Query, Change, vars

-----------------------------------------------------------------------------
(* The worker and the monitor.                                             *)

LEMMA NextForwarded ==
  TypeOK /\ DoneIsForwarded /\ [Next]_vars => DoneIsForwarded'
<1> SUFFICES ASSUME TypeOK, DoneIsForwarded, [Next]_vars PROVE DoneIsForwarded'
  OBVIOUS
<1> USE DEF DoneIsForwarded, InHand
<1>0. msgq \in Seq(Message)
  BY DEF TypeOK, DataOK
<1>1. CASE Gate \/ OuterTest \/ InnerTest \/ PopNothing \/ SkipWork \/ BeginIteration
  BY <1>1, SameQueued
  DEF Gate, OuterTest, InnerTest, PopNothing, SkipWork, BeginIteration, monVars,
      flushVars
<1>2. CASE Pop
  <2>1. Queued({"DONE"}) <=> msg'.kind \in {"DONE"} \/ Queued({"DONE"})'
    BY <1>0, <1>2, PopQueued DEF Pop
  <2> QED
    BY <1>2, <2>1 DEF Pop, monVars, flushVars
<1>3. CASE HandleNotify \/ HandleExit \/ HandleMsgport
             \/ handle_parameter_query \/ handle_parameter_change
  BY <1>3, SameQueued
  DEF HandleNotify, HandleExit, stop_blocks, HandleMsgport,
      handle_parameter_query,
      handle_parameter_change, Handling, monVars, flushVars
<1>4. CASE HandleSignalDone
  BY <1>4, SameQueued DEF HandleSignalDone, Handling, flushVars
<1>5. CASE HandleDone
  BY <1>5 DEF HandleDone, start_flushing, Handling, monVars
<1>6. ASSUME NEW s \in Status, EndIteration(s) PROVE DoneIsForwarded'
  <2>1. wpc' = "outer" /\ UNCHANGED <<d_flushing, rtmon>>
    BY <1>6 DEF EndIteration, Finish
  <2>2. Queued({"DONE"})' <=> Queued({"DONE"})
    <3>1. push_message(Action("NOTIFY")) \/ UNCHANGED msgq
      BY <1>6 DEF EndIteration, Finish
    <3> QED
      BY <1>0, <3>1, PushQueued, SameQueued, ActionIsMessage
      DEF Action, ActionKinds
  <2>3. "FLUSHED" \in inbox' => "FLUSHED" \in inbox \/ d_flushing
    BY <1>6 DEF EndIteration, Finish, ReportsFlushed
  <2> QED
    BY <2>1, <2>2, <2>3
<1>7. CASE ForwardDone \/ OtherSchedulerDone \/ AllFlushed \/ kill
  BY <1>7 DEF ForwardDone, OtherSchedulerDone, AllFlushed, kill, Monitor
<1>8. ASSUME UNCHANGED <<workerVars, flushVars, monVars>>,
             NEW m \in Message, push_message(m), m.kind # "DONE"
      PROVE  DoneIsForwarded'
  BY <1>0, <1>8, PushQueued DEF workerVars, flushVars, monVars
<1>9. CASE UNCHANGED <<workerVars, flushVars, monVars, msgq>>
  BY <1>9, SameQueued DEF workerVars, flushVars, monVars
<1>10. CASE StartBlocks \/ SetReady \/ StopSetFlag \/ StopKill \/ StopJoin
             \/ CallWait \/ WaitJoin
  BY <1>8, <1>9, <1>10, ActionIsMessage
  DEF StartBlocks, SetReady, StopSetFlag, StopKill, StopJoin, CallWait,
      WaitJoin,
      Action, ActionKinds
<1>11. ASSUME NEW k \in {"NOTIFY", "SIGNAL_DONE", "MSGPORT_MESSAGE"}, Send(k)
       PROVE  DoneIsForwarded'
  BY <1>8, <1>11, ActionIsMessage DEF Send, Action, ActionKinds
<1>12. ASSUME NEW c \in Clients, Query(c) PROVE DoneIsForwarded'
  BY <1>8, <1>12 DEF Query, Message
<1>13. ASSUME NEW v \in Values, Change(v) PROVE DoneIsForwarded'
  BY <1>8, <1>13 DEF Change, Message
<1>14. CASE UNCHANGED vars
  BY <1>9, <1>14 DEF vars
<1> QED
  BY <1>1, <1>2, <1>3, <1>4, <1>5, <1>6, <1>7, <1>10, <1>11, <1>12, <1>13, <1>14
  DEF Next, Worker

-----------------------------------------------------------------------------
(* The inductive invariant and what follows from it.                       *)

LEMMA InitIInv == Init => IInv
<1> SUFFICES ASSUME Init PROVE IInv
  OBVIOUS
<1>1. OwedIsPending /\ BlockingMeansIdle /\ LateMeansLast
  BY DEF Init, OwedIsPending, BlockingMeansIdle, LateMeansLast
<1>2. GateOpensOnce /\ StopIsComplete
  BY DEF Init, GateOpensOnce, StopIsComplete
<1>3. DoneIsForwarded
  BY DEF Init, DoneIsForwarded, Queued, InHand
<1> QED
  BY <1>1, <1>2, <1>3, InitType DEF IInv

LEMMA NextIInv == IInv /\ [Next]_vars => IInv'
  BY NextType, NextOwed, NextBlocking, NextLate, NextGate, NextStop, NextForwarded
  DEF IInv, TypeOK

THEOREM Invariance == Spec => []IInv
  BY InitIInv, NextIInv, PTL DEF Spec

\* The drain loop merges notifications and loses none, however many arrive
\* and whoever sends them.
THEOREM NoWakeupIsLost == Spec => []NoLostWakeup
<1>1. IInv => NoLostWakeup
  <2>1. msgq = <<>> => ~Queued(AsksForWork)
    BY DEF Queued
  <2> QED
    BY <2>1 DEF IInv, OwedIsPending, BlockingMeansIdle, InHand, NoLostWakeup
<1> QED
  BY <1>1, Invariance, PTL

\* No block keeps running once its worker is gone.
THEOREM ExitIsClean == Spec => []ExitStopsBlocks
<1>1. IInv => ExitStopsBlocks
  BY DEF IInv, StopIsComplete, ExitStopsBlocks
<1> QED
  BY <1>1, Invariance, PTL

\* A worker never flushes unasked.
THEOREM FlushIsAsked == Spec => []FlushedOnlyAfterDone
<1>1. IInv => FlushedOnlyAfterDone
  BY DEF IInv, DoneIsForwarded, FlushedOnlyAfterDone
<1> QED
  BY <1>1, Invariance, PTL

\* At most one iteration begins after the stop flag is set.
THEOREM StopIsPrompt == Spec => []OneLateIteration
<1>1. IInv => OneLateIteration
  BY DEF IInv, LateMeansLast, OneLateIteration
<1> QED
  BY <1>1, Invariance, PTL

-----------------------------------------------------------------------------
(* What a query will find.                                                 *)

\* The parameter once the change in hand is made.
Current == IF InHand({"PARAMETER_CHANGE"}) THEN msg.arg ELSE param

NoChange(i, j) == \A k \in i..j : msgq[k].kind # "PARAMETER_CHANGE"

\* A query in place i of the queue will be answered v: the value of the last
\* change before it, or the current one.
Finds(i, v) ==
  \/ v = Current /\ NoChange(1, i - 1)
  \/ \E j \in 1..(i - 1) :
       /\ msgq[j].kind = "PARAMETER_CHANGE" /\ msgq[j].arg = v
       /\ NoChange(j + 1, i - 1)

\* A query pushed now would find what was pushed last.
NewestIsLast == Finds(Len(msgq) + 1, newest)

\* Every query under way will be answered as expected when it was pushed.
QueriesFind ==
  /\ \A i \in 1..Len(msgq) : msgq[i].kind = "PARAMETER_QUERY" =>
       expected[msgq[i].arg] # NoValue /\ Finds(i, expected[msgq[i].arg])
  /\ InHand({"PARAMETER_QUERY"}) => expected[msg.arg] = param

QInv == TypeOK /\ NewestIsLast /\ QueriesFind /\ QuerySeesNewest

LEMMA PushFinds ==
  ASSUME msgq \in Seq(Message), NEW m, push_message(m), Current' = Current,
         NEW i \in 1..(Len(msgq) + 1), NEW v
  PROVE  Finds(i, v)' <=> Finds(i, v)
<1>1. /\ Len(msgq) \in Nat
      /\ \A k \in 1..Len(msgq) : msgq'[k] = msgq[k]
  BY DEF push_message
<1>2. \A k \in 1..(i - 1) : msgq'[k] = msgq[k]
  BY <1>1
<1>3. \A j \in 1..i : NoChange(j, i - 1)' <=> NoChange(j, i - 1)
  BY <1>2 DEF NoChange
<1>4. \A j \in 1..(i - 1) : j + 1 \in 1..i
  BY <1>1
<1>5. 1 \in 1..i
  BY <1>1
<1> QED
  BY <1>2, <1>3, <1>4, <1>5 DEF Finds

LEMMA SameFinds ==
  ASSUME UNCHANGED msgq, Current' = Current, NEW i, NEW v
  PROVE  Finds(i, v)' <=> Finds(i, v)
  BY DEF Finds, NoChange

\* The queue moves up by one.
LEMMA PopFinds ==
  ASSUME TypeOK, Pop, NEW i \in 1..Len(msgq), NEW v, Finds(i + 1, v)
  PROVE  Finds(i, v)'
<1>1. /\ msgq \in Seq(Message) /\ msgq # <<>> /\ msgq' = Tail(msgq) /\ msg' = msgq[1]
      /\ wpc' = "handle" /\ wpc = "pop" /\ param' = param
  BY DEF TypeOK, DataOK, Pop, paramVars
<1>2. /\ Len(msgq) \in Nat /\ Len(msgq') = Len(msgq) - 1
      /\ \A k \in 1..(Len(msgq) - 1) : msgq'[k] = msgq[k + 1]
  BY <1>1
<1>3. Current = param
  BY <1>1 DEF Current, InHand
<1>4. Current' = IF msgq[1].kind = "PARAMETER_CHANGE" THEN msgq[1].arg ELSE param
  BY <1>1 DEF Current, InHand
<1>5. ASSUME NEW j \in 1..i, NoChange(j + 1, i) PROVE NoChange(j, i - 1)'
  BY <1>2, <1>5 DEF NoChange
<1>6. CASE v = Current /\ NoChange(1, i)
  <2>1. NoChange(2, i) /\ msgq[1].kind # "PARAMETER_CHANGE"
    BY <1>6 DEF NoChange
  <2> QED
    BY <2>1, <1>3, <1>4, <1>5, <1>6 DEF Finds
<1>7. ASSUME NEW j \in 1..i, msgq[j].kind = "PARAMETER_CHANGE", msgq[j].arg = v, NoChange(j + 1, i)
      PROVE  Finds(i, v)'
  <2>1. NoChange(j, i - 1)'
    BY <1>5, <1>7
  <2>2. CASE j = 1
    BY <2>1, <2>2, <1>4, <1>7 DEF Finds
  <2>3. CASE j > 1
    <3>1. j - 1 \in 1..(i - 1) /\ msgq'[j - 1] = msgq[j] /\ NoChange((j - 1) + 1, i - 1)'
      BY <2>1, <2>3, <1>2
    <3> QED
      BY <3>1, <1>7 DEF Finds
  <2> QED
    BY <2>2, <2>3
<1> QED
  BY <1>6, <1>7 DEF Finds

\* A push or a step that has nothing to do with the parameter.
LEMMA OthersFind ==
  ASSUME QInv, UNCHANGED <<msg, paramVars>>,
         InHand({"PARAMETER_CHANGE"})' <=> InHand({"PARAMETER_CHANGE"}),
         InHand({"PARAMETER_QUERY"})' <=> InHand({"PARAMETER_QUERY"}),
         UNCHANGED msgq \/ \E m \in Message :
           push_message(m) /\ m.kind \notin {"PARAMETER_CHANGE", "PARAMETER_QUERY"}
  PROVE  NewestIsLast' /\ QueriesFind' /\ QuerySeesNewest'
<1> USE DEF QInv, paramVars
<1>0. msgq \in Seq(Message) /\ Current' = Current
  BY DEF TypeOK, DataOK, Current
<1>1. QuerySeesNewest' /\ (InHand({"PARAMETER_QUERY"}) => expected[msg.arg] = param)'
  BY DEF QuerySeesNewest, QueriesFind
<1>2. CASE UNCHANGED msgq
  BY <1>0, <1>1, <1>2, SameFinds DEF NewestIsLast, QueriesFind
<1>3. ASSUME NEW m \in Message, push_message(m),
             m.kind \notin {"PARAMETER_CHANGE", "PARAMETER_QUERY"}
      PROVE  NewestIsLast' /\ QueriesFind'
  <2>1. /\ Len(msgq) \in Nat /\ Len(msgq') = Len(msgq) + 1
        /\ msgq'[Len(msgq) + 1] = m
        /\ \A k \in 1..Len(msgq) : msgq'[k] = msgq[k]
    BY <1>0, <1>3 DEF push_message
  <2>2. ASSUME NEW i \in 1..(Len(msgq) + 1), NEW v PROVE Finds(i, v)' <=> Finds(i, v)
    BY <1>0, <1>3, PushFinds
  <2>3. QueriesFind'
    BY <1>1, <1>3, <2>1, <2>2 DEF QueriesFind
  <2>4. NewestIsLast'
    BY <1>0, <1>3, <2>1 DEF NewestIsLast, Finds, NoChange
  <2> QED
    BY <2>3, <2>4
<1> QED
  BY <1>1, <1>2, <1>3

LEMMA PopQueries == QInv /\ Pop => NewestIsLast' /\ QueriesFind' /\ QuerySeesNewest'
<1> SUFFICES ASSUME QInv, Pop PROVE NewestIsLast' /\ QueriesFind' /\ QuerySeesNewest'
  OBVIOUS
<1> USE DEF QInv
<1>1. /\ msgq \in Seq(Message) /\ msgq # <<>> /\ msgq' = Tail(msgq) /\ msg' = msgq[1]
      /\ wpc' = "handle" /\ wpc = "pop" /\ UNCHANGED <<param, answer, newest, expected>>
  BY DEF TypeOK, DataOK, Pop, paramVars
<1>2. /\ Len(msgq) \in Nat \ {0} /\ Len(msgq') = Len(msgq) - 1
      /\ \A k \in 1..(Len(msgq) - 1) : msgq'[k] = msgq[k + 1]
  BY <1>1
<1>3. ASSUME NEW i \in 1..Len(msgq), NEW v, Finds(i + 1, v) PROVE Finds(i, v)'
  BY <1>3, PopFinds
<1>4. NewestIsLast'
  BY <1>1, <1>2, <1>3 DEF NewestIsLast
<1>5. (InHand({"PARAMETER_QUERY"}) => expected[msg.arg] = param)'
  <2>1. msgq[1].kind = "PARAMETER_QUERY" => expected[msgq[1].arg] = Current
    BY <1>2 DEF QueriesFind, Finds
  <2> QED
    BY <1>1, <2>1 DEF Current, InHand
<1>6. QueriesFind'
  BY <1>1, <1>2, <1>3, <1>5 DEF QueriesFind
<1> QED
  BY <1>1, <1>4, <1>6 DEF QuerySeesNewest

\* The handlers do what was found.
LEMMA HandlerQueries ==
  QInv /\ (handle_parameter_query \/ handle_parameter_change)
    => NewestIsLast' /\ QueriesFind' /\ QuerySeesNewest'
<1> SUFFICES ASSUME QInv, handle_parameter_query \/ handle_parameter_change
             PROVE  NewestIsLast' /\ QueriesFind' /\ QuerySeesNewest'
  OBVIOUS
<1> USE DEF QInv
<1>1. /\ wpc = "handle" /\ wpc' = "inner" /\ UNCHANGED <<msgq, msg, newest, expected>>
  BY DEF handle_parameter_query, handle_parameter_change, Handling
<1>2. Current' = Current
  BY <1>1 DEF handle_parameter_query, handle_parameter_change, Handling, Current, InHand
<1>3. NewestIsLast' /\ QueriesFind'
  BY <1>1, <1>2, SameFinds DEF NewestIsLast, QueriesFind, InHand
<1>4. CASE handle_parameter_query
  <2>1. answer' = [answer EXCEPT ![msg.arg] = param] /\ expected[msg.arg] = param
    BY <1>4 DEF handle_parameter_query, Handling, QueriesFind, InHand
  <2> QED
    BY <1>1, <1>3, <2>1 DEF QuerySeesNewest, TypeOK, DataOK
<1>5. CASE handle_parameter_change
  BY <1>1, <1>3, <1>5 DEF handle_parameter_change, QuerySeesNewest
<1> QED
  BY <1>4, <1>5

LEMMA ClientQueries ==
  ASSUME QInv, NEW c \in Clients, Query(c)
  PROVE  NewestIsLast' /\ QueriesFind' /\ QuerySeesNewest'
<1> USE DEF QInv
<1> DEFINE m == [kind |-> "PARAMETER_QUERY", arg |-> c]
<1>1. /\ msgq \in Seq(Message) /\ push_message(m) /\ expected[c] = NoValue
      /\ expected' = [expected EXCEPT ![c] = newest]
      /\ UNCHANGED <<wpc, msg, param, answer, newest>>
  BY DEF Query, TypeOK, DataOK, workerVars
<1>2. /\ Len(msgq) \in Nat /\ Len(msgq') = Len(msgq) + 1
      /\ msgq'[Len(msgq) + 1] = m
      /\ \A k \in 1..Len(msgq) : msgq'[k] = msgq[k]
  BY <1>1 DEF push_message
<1>3. ASSUME NEW i \in 1..(Len(msgq) + 1), NEW v PROVE Finds(i, v)' <=> Finds(i, v)
  <2>1. Current' = Current
    BY <1>1 DEF Current, InHand
  <2> HIDE DEF m
  <2> QED
    BY <1>1, <2>1, PushFinds
<1>4. expected[c]' = newest /\ newest # NoValue
      /\ \A d \in Clients : d # c => expected'[d] = expected[d]
  BY <1>1, ConstantsAssumption DEF TypeOK, DataOK
<1>5. NewestIsLast'
  <2>1. m.kind = "PARAMETER_QUERY"
    OBVIOUS
  <2> HIDE DEF m
  <2>2. /\ Current' = Current
        /\ \A i \in 1..(Len(msgq) + 1) :
             NoChange(i, Len(msgq)) => NoChange(i, Len(msgq))'
    BY <1>1, <1>2, <2>1 DEF Current, InHand, NoChange
  <2>3. Finds(Len(msgq) + 1, newest)
    BY DEF NewestIsLast
  <2>4. CASE newest = Current /\ NoChange(1, Len(msgq))
    BY <1>1, <1>2, <2>2, <2>4 DEF NewestIsLast, Finds
  <2>5. ASSUME NEW j \in 1..Len(msgq), msgq[j].kind = "PARAMETER_CHANGE",
               msgq[j].arg = newest, NoChange(j + 1, Len(msgq))
        PROVE  NewestIsLast'
    <3>1. NoChange(j + 1, Len(msgq))'
      BY <1>2, <2>2, <2>5
    <3>2. msgq'[j] = msgq[j] /\ j \in 1..Len(msgq')
      BY <1>2
    <3> QED
      BY <1>1, <1>2, <2>5, <3>1, <3>2 DEF NewestIsLast, Finds
  <2> QED
    BY <1>2, <2>3, <2>4, <2>5 DEF Finds
<1>6. (InHand({"PARAMETER_QUERY"}) => expected[msg.arg] = param)'
  <2>1. SUFFICES ASSUME InHand({"PARAMETER_QUERY"}) PROVE expected'[msg.arg] = param
    BY <1>1 DEF InHand
  <2>2. msg.arg \in Clients /\ expected[msg.arg] = param /\ param # NoValue
    BY <2>1, MessageFields, ConstantsAssumption DEF InHand, QueriesFind, TypeOK, DataOK
  <2> QED
    BY <1>1, <1>4, <2>2
<1>7. QueriesFind'
  <2>1. ASSUME NEW i \in 1..Len(msgq'), msgq'[i].kind = "PARAMETER_QUERY"
        PROVE  /\ expected'[msgq'[i].arg] # NoValue
               /\ \A v : v = expected'[msgq'[i].arg] => Finds(i, v)'
    <3>1. CASE i = Len(msgq) + 1
      <4>1. msgq'[i].arg = c
        BY <1>2, <3>1
      <4>2. Finds(i, newest)'
        BY <1>1, <1>3, <3>1 DEF NewestIsLast
      <4> QED
        BY <1>1, <1>4, <4>1, <4>2
    <3>2. CASE i \in 1..Len(msgq)
      <4>1. /\ msgq'[i] = msgq[i] /\ msgq[i] \in Message
            /\ expected[msgq[i].arg] # NoValue /\ Finds(i, expected[msgq[i].arg])
        BY <1>1, <1>2, <2>1, <3>2 DEF QueriesFind
      <4>2. msgq[i].arg \in Clients
        BY <2>1, <4>1, MessageFields
      <4> QED
        BY <1>1, <1>2, <1>3, <1>4, <3>2, <4>1, <4>2
    <3> QED
      BY <1>2, <2>1, <3>1, <3>2
  <2> QED
    BY <1>6, <2>1 DEF QueriesFind
<1>8. QuerySeesNewest'
  BY <1>1, <1>4 DEF QuerySeesNewest
<1> QED
  BY <1>5, <1>7, <1>8

LEMMA ChangeQueries ==
  ASSUME QInv, NEW v \in Values, Change(v)
  PROVE  NewestIsLast' /\ QueriesFind' /\ QuerySeesNewest'
<1> USE DEF QInv
<1> DEFINE m == [kind |-> "PARAMETER_CHANGE", arg |-> v]
<1>1. /\ msgq \in Seq(Message) /\ push_message(m) /\ newest' = v
      /\ UNCHANGED <<wpc, msg, param, answer, expected>>
  BY DEF Change, TypeOK, DataOK, workerVars
<1>2. /\ Len(msgq) \in Nat /\ Len(msgq') = Len(msgq) + 1
      /\ msgq'[Len(msgq) + 1] = m
      /\ \A k \in 1..Len(msgq) : msgq'[k] = msgq[k]
  BY <1>1 DEF push_message
<1>3. Current' = Current
  BY <1>1 DEF Current, InHand
<1>4. m.kind = "PARAMETER_CHANGE" /\ m.arg = v
  OBVIOUS
<1> HIDE DEF m
<1>5. ASSUME NEW i \in 1..(Len(msgq) + 1), NEW w PROVE Finds(i, w)' <=> Finds(i, w)
  BY <1>1, <1>3, PushFinds
<1>6. NewestIsLast'
  <2>1. /\ Len(msgq) + 1 \in 1..Len(msgq')
        /\ msgq'[Len(msgq) + 1].kind = "PARAMETER_CHANGE"
        /\ msgq'[Len(msgq) + 1].arg = newest'
    BY <1>1, <1>2, <1>4
  <2>2. \E j \in 1..Len(msgq') :
          /\ msgq'[j].kind = "PARAMETER_CHANGE" /\ msgq'[j].arg = newest'
          /\ NoChange(j + 1, Len(msgq))'
    <3>1. Len(msgq') = Len(msgq) + 1
      BY <1>2
    <3> QED
      BY <1>2, <2>1, <3>1 DEF NoChange
  <2> QED
    BY <1>2, <2>2 DEF NewestIsLast, Finds
<1>7. QueriesFind'
  BY <1>1, <1>2, <1>4, <1>5 DEF QueriesFind, InHand
<1>8. QuerySeesNewest'
  BY <1>1 DEF QuerySeesNewest
<1> QED
  BY <1>6, <1>7, <1>8

LEMMA NextQInv == QInv /\ [Next]_vars => QInv'
<1> SUFFICES ASSUME QInv, [Next]_vars PROVE QInv'
  OBVIOUS
<1>1. TypeOK'
  BY NextType DEF QInv
<1>2. CASE Gate \/ OuterTest \/ InnerTest \/ PopNothing \/ SkipWork \/ BeginIteration
  BY <1>1, <1>2, OthersFind
  DEF Gate, OuterTest, InnerTest, PopNothing, SkipWork, BeginIteration, InHand, QInv
<1>3. CASE HandleNotify \/ HandleSignalDone \/ HandleExit \/ HandleMsgport
  BY <1>1, <1>3, OthersFind
  DEF HandleNotify, HandleSignalDone, HandleExit, HandleMsgport, Handling, InHand, QInv
<1>4. CASE HandleDone
  BY <1>1, <1>4, OthersFind, ActionIsMessage
  DEF HandleDone, start_flushing, Handling, InHand, Action, ActionKinds, QInv
<1>5. CASE Pop \/ handle_parameter_query \/ handle_parameter_change
  BY <1>1, <1>5, PopQueries, HandlerQueries DEF QInv
<1>6. ASSUME NEW s \in Status, EndIteration(s) PROVE QInv'
  <2>1. push_message(Action("NOTIFY")) \/ UNCHANGED msgq
    BY <1>6 DEF EndIteration, Finish
  <2>2. wpc = "iterating" /\ wpc' = "outer" /\ UNCHANGED <<msg, paramVars>>
    BY <1>6 DEF EndIteration, Finish
  <2> QED
    BY <1>1, <2>1, <2>2, OthersFind, ActionIsMessage DEF InHand, Action, ActionKinds, QInv
<1>7. CASE StartBlocks \/ SetReady \/ StopSetFlag \/ StopKill \/ StopJoin
             \/ CallWait \/ WaitJoin
  BY <1>1, <1>7, OthersFind, ActionIsMessage
  DEF StartBlocks, SetReady, StopSetFlag, StopKill, StopJoin, CallWait, WaitJoin,
      workerVars, InHand, Action, ActionKinds, QInv
<1>8. CASE ForwardDone \/ OtherSchedulerDone \/ AllFlushed \/ kill
  BY <1>1, <1>8, OthersFind, ActionIsMessage
  DEF ForwardDone, OtherSchedulerDone, AllFlushed, kill, Monitor, workerVars, InHand,
      Action, ActionKinds, QInv
<1>9. ASSUME NEW k \in {"NOTIFY", "SIGNAL_DONE", "MSGPORT_MESSAGE"}, Send(k) PROVE QInv'
  BY <1>1, <1>9, OthersFind, ActionIsMessage
  DEF Send, workerVars, InHand, Action, ActionKinds, QInv
<1>10. ASSUME NEW c \in Clients, Query(c) PROVE QInv'
  BY <1>1, <1>10, ClientQueries DEF QInv
<1>11. ASSUME NEW v \in Values, Change(v) PROVE QInv'
  BY <1>1, <1>11, ChangeQueries DEF QInv
<1>12. CASE UNCHANGED vars
  BY <1>1, <1>12, OthersFind DEF vars, workerVars, InHand, QInv
<1> QED
  BY <1>2, <1>3, <1>4, <1>5, <1>6, <1>7, <1>8, <1>9, <1>10, <1>11, <1>12 DEF Next, Worker

\* A client is answered with what was pushed last before it asked.
THEOREM QueriesAreOrdered == Spec => []QuerySeesNewest
<1>1. Init => QInv
  <2> SUFFICES ASSUME Init PROVE QInv
    OBVIOUS
  <2>1. NewestIsLast
    BY DEF Init, NewestIsLast, Finds, Current, InHand, NoChange
  <2>2. QueriesFind /\ QuerySeesNewest
    BY DEF Init, QueriesFind, InHand, QuerySeesNewest
  <2> QED
    BY <2>1, <2>2, InitType DEF QInv
<1>2. QInv => QuerySeesNewest
  BY DEF QInv
<1> QED
  BY <1>1, <1>2, NextQInv, PTL DEF Spec
=============================================================================
