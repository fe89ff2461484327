--------------------------- MODULE ThreadWrapper ---------------------------
(***************************************************************************)
(* The worker thread of the Triton scheduler (thread_wrapper.cc): one      *)
(* thread that serves one message queue, runs the graph executor when a    *)
(* message asks for work, flushes when the runtime monitor says the        *)
(* flowgraph is done, and stops on EXIT or on the stop flag.               *)
(*                                                                         *)
(* Four parties share it: the worker, the runtime's thread (start, stop,   *)
(* wait), the runtime monitor and the other threads that push messages     *)
(* (neighbouring schedulers, blocks, parameter clients).  One action is    *)
(* one access to shared state: a queue operation under the queue's mutex,  *)
(* or one read or write of d_thread_stopped.  That flag is a plain bool    *)
(* shared without a lock; every write of it is followed by a push to msgq  *)
(* and every read by a queue operation, so a late read is the same         *)
(* behaviour as a write scheduled later and interleaving covers it.        *)
(***************************************************************************)
EXTENDS Naturals, Sequences

CONSTANTS
  FlushCounts,  \* values scheduler_triton_options::flush_count may have
  Clients,      \* threads that query a block parameter
  Values,       \* values of that parameter
  InitValue,    \* its value when the flowgraph starts
  NoValue,      \* no answer
  Calls,        \* bound: the calls the runtime's thread makes, each once
  MaxSent       \* bound: messages pushed by neighbours and blocks

ASSUME ConstantsAssumption ==
  /\ FlushCounts \subseteq Nat
  /\ InitValue \in Values
  /\ NoValue \notin Values \union Clients
  /\ Calls \subseteq {"start", "stop", "wait"}
  /\ MaxSent \in Nat

VARIABLES
  opts,             \* _opts: flush and flush_count, never changed
  msgq,             \* thread_wrapper::msgq
  d_thread_stopped, \* thread_wrapper::d_thread_stopped
  ready_to_start,   \* thread_wrapper::_ready_to_start
  d_flushing,       \* thread_wrapper::d_flushing
  d_flush_cnt,      \* thread_wrapper::d_flush_cnt
  wpc,              \* the worker's position in thread_body
  blocking_queue,   \* local of thread_body
  do_some_work,     \* local of thread_body
  msg,              \* local of thread_body: the message being handled
  api,              \* position of the runtime's thread
  called,           \* the API calls it has made
  blocks,           \* what was last called on the blocks of the group
  finished,         \* block::done() was called on the blocks
  rtmon,            \* phase of the runtime monitor
  inbox,            \* kinds of messages waiting at the runtime monitor
  param,            \* the block parameter's value
  answer,           \* what each client's query was answered
  sent,             \* messages pushed by neighbours and blocks so far
  owed,             \* history: work was asked for since an iteration began
  late,             \* history: iterations begun with d_thread_stopped set
  reported,         \* history: statuses on which FLUSHED was reported
  newest,           \* history: parameter value last pushed
  expected          \* history: newest when each client pushed its query

workerVars == <<wpc, blocking_queue, do_some_work, msg>>
flushVars  == <<d_flushing, d_flush_cnt, reported>>
apiVars    == <<ready_to_start, api, called, finished>>
monVars    == <<rtmon, inbox>>
paramVars  == <<param, answer, newest, expected>>
vars == <<opts, msgq, d_thread_stopped, workerVars, flushVars, apiVars, blocks,
          monVars, paramVars, sent, owed, late>>

-----------------------------------------------------------------------------
Status == {"READY", "BLKD_IN", "BLKD_OUT", "DONE"}

\* NOTIFY stands for NOTIFY_INPUT, NOTIFY_OUTPUT and NOTIFY_ALL, which the
\* worker treats alike.
ActionKinds == {"NOTIFY", "SIGNAL_DONE", "DONE", "EXIT"}
AsksForWork == {"NOTIFY", "DONE"}

Action(k) == [kind |-> k, arg |-> NoValue]
Message ==
  [kind : ActionKinds \union {"MSGPORT_MESSAGE"}, arg : {NoValue}]
    \union [kind : {"PARAMETER_QUERY"}, arg : Clients]
    \union [kind : {"PARAMETER_CHANGE"}, arg : Values]

\* Variant: a queue that serves the newest message first.
push_message_Front(m) ==
  /\ msgq' = <<m>> \o msgq
  /\ owed' = (owed \/ m.kind \in AsksForWork)

\* thread_wrapper::push_message: concurrent_queue::push under its mutex.
push_message(m) ==
  /\ msgq' = Append(msgq, m)
  /\ owed' = (owed \/ m.kind \in AsksForWork)

\* The options factory() may make, out of YAML and the preferences.
factory == [flush : BOOLEAN, flush_count : FlushCounts]

WorkerStates == {"gate", "outer", "inner", "pop", "handle", "work",
                 "iterating", "exited"}

Init ==
  /\ opts \in factory
  /\ msgq = <<>>
  /\ d_thread_stopped = FALSE
  /\ ready_to_start = FALSE
  /\ d_flushing = FALSE
  /\ d_flush_cnt = 0
  /\ wpc = "gate"
  /\ blocking_queue = TRUE
  /\ do_some_work = FALSE
  /\ msg = Action("NOTIFY")
  /\ api = "idle"
  /\ called = {}
  /\ blocks = "created"
  /\ finished = FALSE
  /\ rtmon = "watching"
  /\ inbox = {}
  /\ param = InitValue
  /\ answer = [c \in Clients |-> NoValue]
  /\ sent = 0
  /\ owed = FALSE
  /\ late = 0
  /\ reported = {}
  /\ newest = InitValue
  /\ expected = [c \in Clients |-> NoValue]

-----------------------------------------------------------------------------
(* The runtime's thread: start(), stop(), wait(), in any order.            *)

\* start(), first part: b->start() on every block, then push NOTIFY_ALL.
StartBlocks ==
  /\ api = "idle" /\ "start" \in Calls \ called
  /\ called' = called \union {"start"}
  /\ blocks' = "running"
  /\ push_message(Action("NOTIFY"))
  /\ api' = "starting"
  /\ UNCHANGED <<opts, d_thread_stopped, ready_to_start, finished, workerVars,
                 flushVars, monVars, paramVars, sent, late>>

\* start(), second part: set _ready_to_start under _start_mutex and notify.
SetReady ==
  /\ api = "starting"
  /\ ready_to_start' = TRUE
  /\ api' = "idle"
  /\ UNCHANGED <<opts, msgq, d_thread_stopped, called, finished, blocks,
                 workerVars, flushVars, monVars, paramVars, sent, owed, late>>

\* stop(), first part: the unlocked write of the flag.
StopSetFlag ==
  /\ api = "idle" /\ "stop" \in Calls \ called
  /\ called' = called \union {"stop"}
  /\ d_thread_stopped' = TRUE
  /\ api' = "stopping"
  /\ UNCHANGED <<opts, msgq, ready_to_start, finished, blocks, workerVars,
                 flushVars, monVars, paramVars, sent, owed, late>>

\* Variant: kill() that forgets the message.
StopKill_NoExit ==
  /\ api = "stopping"
  /\ api' = "stop_join"
  /\ UNCHANGED <<opts, msgq, d_thread_stopped, ready_to_start, called, finished,
                 blocks, workerVars, flushVars, monVars, paramVars, sent, owed, late>>

\* stop(), second part: kill() pushes EXIT.
StopKill ==
  /\ api = "stopping"
  /\ push_message(Action("EXIT"))
  /\ api' = "stop_join"
  /\ UNCHANGED <<opts, d_thread_stopped, ready_to_start, called, finished,
                 blocks, workerVars, flushVars, monVars, paramVars, sent, late>>

\* stop(), the rest: join returns once the thread has exited, then b->stop().
StopJoin ==
  /\ api = "stop_join"
  /\ wpc = "exited"
  /\ blocks' = "stopped"
  /\ api' = "idle"
  /\ UNCHANGED <<opts, msgq, d_thread_stopped, ready_to_start, called, finished,
                 workerVars, flushVars, monVars, paramVars, sent, owed, late>>

\* wait() enters join.
CallWait ==
  /\ api = "idle" /\ "wait" \in Calls \ called
  /\ called' = called \union {"wait"}
  /\ api' = "wait_join"
  /\ UNCHANGED <<opts, msgq, d_thread_stopped, ready_to_start, finished, blocks,
                 workerVars, flushVars, monVars, paramVars, sent, owed, late>>

\* wait(), the rest: join returns, then b->done().
WaitJoin ==
  /\ api = "wait_join"
  /\ wpc = "exited"
  /\ finished' = TRUE
  /\ api' = "idle"
  /\ UNCHANGED <<opts, msgq, d_thread_stopped, ready_to_start, called, blocks,
                 workerVars, flushVars, monVars, paramVars, sent, owed, late>>

-----------------------------------------------------------------------------
(* The worker: thread_body.                                                *)

\* Wait on _start_cv until _ready_to_start.
Gate ==
  /\ wpc = "gate"
  /\ ready_to_start
  /\ wpc' = "outer"
  /\ UNCHANGED <<opts, msgq, d_thread_stopped, blocking_queue, do_some_work, msg,
                 flushVars, apiVars, blocks, monVars, paramVars, sent, owed, late>>

\* while (!d_thread_stopped) { do_some_work = false; ...
OuterTest ==
  /\ wpc = "outer"
  /\ \/ /\ d_thread_stopped
        /\ wpc' = "exited"
        /\ UNCHANGED do_some_work
     \/ /\ ~d_thread_stopped
        /\ wpc' = "inner"
        /\ do_some_work' = FALSE
  /\ UNCHANGED <<opts, msgq, d_thread_stopped, blocking_queue, msg, flushVars,
                 apiVars, blocks, monVars, paramVars, sent, owed, late>>

\* Variant: do_some_work declared inside the inner loop.
InnerTest_Resets ==
  /\ wpc = "inner"
  /\ wpc' = IF d_thread_stopped THEN "work" ELSE "pop"
  /\ do_some_work' = FALSE
  /\ UNCHANGED <<opts, msgq, d_thread_stopped, blocking_queue, msg,
                 flushVars, apiVars, blocks, monVars, paramVars, sent, owed, late>>

\* while (valid && !d_thread_stopped), with valid true.
InnerTest ==
  /\ wpc = "inner"
  /\ wpc' = IF d_thread_stopped THEN "work" ELSE "pop"
  /\ UNCHANGED <<opts, msgq, d_thread_stopped, blocking_queue, do_some_work, msg,
                 flushVars, apiVars, blocks, monVars, paramVars, sent, owed, late>>

\* pop_message, which waits for a message, or a pop_message_nonblocking that
\* finds one.
Pop ==
  /\ wpc = "pop"
  /\ msgq # <<>>
  /\ msg' = Head(msgq)
  /\ msgq' = Tail(msgq)
  /\ blocking_queue' = FALSE
  /\ wpc' = "handle"
  /\ UNCHANGED <<opts, d_thread_stopped, do_some_work, flushVars, apiVars, blocks,
                 monVars, paramVars, sent, owed, late>>

\* pop_message_nonblocking finds the queue empty: valid is false.
PopNothing ==
  /\ wpc = "pop"
  /\ msgq = <<>>
  /\ ~blocking_queue
  /\ wpc' = "work"
  /\ UNCHANGED <<opts, msgq, d_thread_stopped, blocking_queue, do_some_work, msg,
                 flushVars, apiVars, blocks, monVars, paramVars, sent, owed, late>>

Handling(k) ==
  /\ wpc = "handle"
  /\ msg.kind = k
  /\ wpc' = "inner"
  /\ UNCHANGED <<opts, blocking_queue, msg, apiVars, sent, late>>

HandleNotify ==
  /\ Handling("NOTIFY")
  /\ do_some_work' = TRUE
  /\ UNCHANGED <<msgq, d_thread_stopped, flushVars, blocks, monVars, paramVars, owed>>

HandleSignalDone ==
  /\ Handling("SIGNAL_DONE")
  /\ inbox' = inbox \union {"DONE"}
  /\ UNCHANGED <<msgq, d_thread_stopped, do_some_work, flushVars, blocks, rtmon,
                 paramVars, owed>>

\* Variant: start_flushing() without its NOTIFY_ALL, and no work.
HandleDone_Quiet ==
  /\ Handling("DONE")
  /\ d_flushing' = TRUE
  /\ d_flush_cnt' = 0
  /\ UNCHANGED <<msgq, d_thread_stopped, do_some_work, reported, blocks, monVars,
                 paramVars, owed>>

start_flushing ==
  /\ d_flushing' = TRUE
  /\ d_flush_cnt' = 0
  /\ push_message(Action("NOTIFY"))

\* The monitor's DONE: start to flush, and work.
HandleDone ==
  /\ Handling("DONE")
  /\ start_flushing
  /\ do_some_work' = TRUE
  /\ UNCHANGED <<d_thread_stopped, reported, blocks, monVars, paramVars>>

\* Variant: EXIT without stop_blocks().
HandleExit_NoStop ==
  /\ Handling("EXIT")
  /\ d_thread_stopped' = TRUE
  /\ UNCHANGED <<msgq, do_some_work, flushVars, blocks, monVars, paramVars, owed>>

stop_blocks == blocks' = "stopped"

\* EXIT: stop the blocks and leave; do_some_work is left as it is.
HandleExit ==
  /\ Handling("EXIT")
  /\ stop_blocks
  /\ d_thread_stopped' = TRUE
  /\ UNCHANGED <<msgq, do_some_work, flushVars, monVars, paramVars, owed>>

\* MSGPORT_MESSAGE: the port's callback, external to the worker.
HandleMsgport ==
  /\ Handling("MSGPORT_MESSAGE")
  /\ UNCHANGED <<msgq, d_thread_stopped, do_some_work, flushVars, blocks, monVars,
                 paramVars, owed>>

\* Variants: the reply is the request, or there is none.
handle_parameter_query_Echo ==
  /\ Handling("PARAMETER_QUERY")
  /\ answer' = [answer EXCEPT ![msg.arg] = msg.arg]
  /\ UNCHANGED <<msgq, d_thread_stopped, do_some_work, flushVars, blocks, monVars,
                 param, newest, expected, owed>>

handle_parameter_query_Silent ==
  /\ Handling("PARAMETER_QUERY")
  /\ UNCHANGED <<msgq, d_thread_stopped, do_some_work, flushVars, blocks, monVars,
                 paramVars, owed>>

handle_parameter_query ==
  /\ Handling("PARAMETER_QUERY")
  /\ answer' = [answer EXCEPT ![msg.arg] = param]
  /\ UNCHANGED <<msgq, d_thread_stopped, do_some_work, flushVars, blocks, monVars,
                 param, newest, expected, owed>>

handle_parameter_change ==
  /\ Handling("PARAMETER_CHANGE")
  /\ param' = msg.arg
  /\ UNCHANGED <<msgq, d_thread_stopped, do_some_work, flushVars, blocks, monVars,
                 answer, newest, expected, owed>>

\* No work was asked for: block on the queue next.
SkipWork ==
  /\ wpc = "work"
  /\ ~do_some_work
  /\ blocking_queue' = TRUE
  /\ wpc' = "outer"
  /\ UNCHANGED <<opts, msgq, d_thread_stopped, do_some_work, msg, flushVars,
                 apiVars, blocks, monVars, paramVars, sent, owed, late>>

\* handle_work_notification calls run_one_iteration.
BeginIteration ==
  /\ wpc = "work"
  /\ do_some_work
  /\ wpc' = "iterating"
  /\ owed' = FALSE
  /\ late' = IF d_thread_stopped THEN late + 1 ELSE late
  /\ UNCHANGED <<opts, msgq, d_thread_stopped, blocking_queue, do_some_work, msg,
                 flushVars, apiVars, blocks, monVars, paramVars, sent>>

\* Variant: reported whether or not the worker is flushing.
ReportsFlushed_Anytime ==
  ~opts.flush \/ d_flush_cnt + 1 >= opts.flush_count

\* FLUSHED is reported at once without flushing, else on the last of
\* flush_count iterations.
ReportsFlushed ==
  d_flushing /\ (~opts.flush \/ d_flush_cnt + 1 >= opts.flush_count)

\* run_one_iteration returned s: the rest of handle_work_notification, after
\* which the worker is at next.
Finish(s, next) ==
  /\ wpc = "iterating"
  /\ inbox' = inbox \union (IF s = "DONE" THEN {"DONE"} ELSE {})
                    \union (IF ReportsFlushed THEN {"FLUSHED"} ELSE {})
  /\ reported' = IF ReportsFlushed /\ opts.flush THEN reported \union {s} ELSE reported
  /\ d_flush_cnt' = IF d_flushing /\ opts.flush THEN d_flush_cnt + 1 ELSE d_flush_cnt
  /\ IF d_flushing /\ ~ReportsFlushed
     THEN /\ push_message(Action("NOTIFY"))
          /\ blocking_queue' = (s \notin {"READY", "BLKD_OUT"} \/ blocking_queue)
     ELSE /\ blocking_queue' = TRUE
          /\ UNCHANGED <<msgq, owed>>
  /\ wpc' = next
  /\ UNCHANGED <<opts, d_thread_stopped, do_some_work, msg, d_flushing, apiVars,
                 blocks, rtmon, paramVars, sent, late>>

\* Variant: work again at once while it returns READY.
EndIteration_Repeats(s) == Finish(s, IF s = "READY" THEN "work" ELSE "outer")

EndIteration(s) == Finish(s, "outer")

Worker ==
  \/ Gate \/ OuterTest \/ InnerTest \/ Pop \/ PopNothing
  \/ HandleNotify \/ HandleSignalDone \/ HandleDone \/ HandleExit \/ HandleMsgport
  \/ handle_parameter_query \/ handle_parameter_change
  \/ SkipWork \/ BeginIteration \/ \E s \in Status : EndIteration(s)

-----------------------------------------------------------------------------
(* The runtime monitor (external): the first DONE it sees makes it push    *)
(* DONE to every scheduler; once FLUSHED has come from all, it pushes      *)
(* EXIT.  On KILL it pushes EXIT and stops.                                *)

Monitor(from, to, k) ==
  /\ rtmon \in from
  /\ rtmon' = to
  /\ push_message(Action(k))
  /\ UNCHANGED <<opts, d_thread_stopped, workerVars, flushVars, apiVars, blocks,
                 paramVars, sent, late>>

ForwardDone ==
  /\ "DONE" \in inbox
  /\ inbox' = inbox \ {"DONE"}
  /\ Monitor({"watching"}, "flushing", "DONE")

\* Another scheduler's block finished, typically a head block.
OtherSchedulerDone == Monitor({"watching"}, "flushing", "DONE") /\ UNCHANGED inbox

AllFlushed ==
  /\ "FLUSHED" \in inbox
  /\ inbox' = inbox \ {"FLUSHED"}
  /\ Monitor({"flushing"}, "finished", "EXIT")

\* scheduler_triton::kill -> thread_wrapper::kill.
kill == Monitor({"watching", "flushing"}, "killed", "EXIT") /\ UNCHANGED inbox

-----------------------------------------------------------------------------
(* Threads that push messages: neighbouring schedulers and blocks, at most *)
(* MaxSent messages; each client queries once and sets each value once.    *)

Send(k) ==
  /\ sent < MaxSent
  /\ sent' = sent + 1
  /\ push_message(Action(k))
  /\ UNCHANGED <<opts, d_thread_stopped, workerVars, flushVars, apiVars, blocks,
                 monVars, paramVars, late>>

Query(c) ==
  /\ expected[c] = NoValue
  /\ expected' = [expected EXCEPT ![c] = newest]
  /\ push_message([kind |-> "PARAMETER_QUERY", arg |-> c])
  /\ UNCHANGED <<opts, d_thread_stopped, workerVars, flushVars, apiVars, blocks,
                 monVars, param, answer, newest, sent, late>>

Change(v) ==
  /\ sent < MaxSent
  /\ sent' = sent + 1
  /\ newest' = v
  /\ push_message([kind |-> "PARAMETER_CHANGE", arg |-> v])
  /\ UNCHANGED <<opts, d_thread_stopped, workerVars, flushVars, apiVars, blocks,
                 monVars, param, answer, expected, late>>

Next ==
  \/ Worker
  \/ StartBlocks \/ SetReady \/ StopSetFlag \/ StopKill \/ StopJoin
  \/ CallWait \/ WaitJoin
  \/ ForwardDone \/ OtherSchedulerDone \/ AllFlushed \/ kill
  \/ \E k \in {"NOTIFY", "SIGNAL_DONE", "MSGPORT_MESSAGE"} : Send(k)
  \/ \E c \in Clients : Query(c)
  \/ \E v \in Values : Change(v)

\* The worker and the runtime's thread are scheduled by the OS and an
\* iteration returns (InferenceRendezvous says when it does); the monitor
\* serves its queue.  Nobody is obliged to call, send or kill.
Fairness ==
  /\ WF_vars(Worker)
  /\ WF_vars(SetReady) /\ WF_vars(StopKill) /\ WF_vars(StopJoin) /\ WF_vars(WaitJoin)
  /\ WF_vars(ForwardDone) /\ WF_vars(AllFlushed)

Spec == Init /\ [][Next]_vars
FairSpec == Spec /\ Fairness

-----------------------------------------------------------------------------
FlagsOK ==
  /\ d_thread_stopped \in BOOLEAN
  /\ ready_to_start \in BOOLEAN
  /\ d_flushing \in BOOLEAN
  /\ blocking_queue \in BOOLEAN
  /\ do_some_work \in BOOLEAN
  /\ finished \in BOOLEAN
  /\ owed \in BOOLEAN

DataOK ==
  /\ opts \in factory
  /\ msgq \in Seq(Message)
  /\ d_flush_cnt \in Nat
  /\ wpc \in WorkerStates
  /\ msg \in Message
  /\ api \in {"idle", "starting", "stopping", "stop_join", "wait_join"}
  /\ called \subseteq Calls
  /\ blocks \in {"created", "running", "stopped"}
  /\ rtmon \in {"watching", "flushing", "finished", "killed"}
  /\ inbox \subseteq {"DONE", "FLUSHED"}
  /\ param \in Values
  /\ answer \in [Clients -> Values \union {NoValue}]
  /\ sent \in Nat
  /\ late \in Nat
  /\ reported \subseteq Status
  /\ newest \in Values
  /\ expected \in [Clients -> Values \union {NoValue}]

(* Every variable stays in its domain; in particular a query is answered   *)
(* with a parameter value, and the queue holds only well-formed messages.  *)
TypeOK == FlagsOK /\ DataOK

(* No lost wake-up: the worker never blocks on an empty queue while work   *)
(* asked for since its last iteration began is still undone.  (The drain   *)
(* loop merges many notifications into one iteration, thread_wrapper.cc    *)
(* 206-306.)                                                               *)
NoLostWakeup ==
  wpc = "pop" /\ msgq = <<>> /\ blocking_queue => ~owed

(* A worker that has exited leaves no block running: EXIT stopped them, or *)
(* stop() is under way and will (thread_wrapper.cc 41-51, 246-252).        *)
ExitStopsBlocks ==
  wpc = "exited" => blocks = "stopped" \/ api \in {"stopping", "stop_join"}

(* Flushing is the monitor's decision: FLUSHED is never waiting at a       *)
(* monitor that has not told the schedulers DONE (thread_wrapper.cc 88-94, *)
(* 122-127, 232-245).                                                      *)
FlushedOnlyAfterDone == "FLUSHED" \in inbox => rtmon # "watching"

(* Shutdown is prompt: once the stop flag is set, by stop() or by EXIT, at *)
(* most one more iteration begins (thread_wrapper.cc 202-208, 299-302).    *)
OneLateIteration == late <= 1

(* A query is answered with the parameter value pushed last before it,     *)
(* whoever pushed it and whatever was queued in between (thread_wrapper.cc *)
(* 144-166, 283-292).                                                      *)
QuerySeesNewest ==
  \A c \in Clients : answer[c] # NoValue => answer[c] = expected[c]

(* stop() on a started worker returns.                                     *)
StopReturns ==
  (api = "stop_join" /\ ready_to_start) ~> (api # "stop_join")

(* Once the monitor has told a started worker DONE, the worker flushes,    *)
(* reports it and is told to exit, whatever its iterations return.         *)
FlushLeadsToExit ==
  (rtmon = "flushing" /\ ready_to_start) ~> (wpc = "exited")

(* Every query pushed to a started worker is answered unless the worker    *)
(* is stopped first.                                                       *)
QueryAnswered ==
  \A c \in Clients :
    (expected[c] # NoValue /\ ready_to_start)
      ~> (answer[c] # NoValue \/ d_thread_stopped)

(* What the comment at thread_wrapper.cc 236-240 says of flushing: FLUSHED *)
(* is reported only on an iteration that was blocked.                      *)
FlushedMeansBlocked == reported \subseteq {"BLKD_IN", "BLKD_OUT"}
=============================================================================
