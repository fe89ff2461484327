--------------------------- MODULE GraphExecutor ---------------------------
(***************************************************************************)
(* run_one_iteration (graph_executor.cc) between its neighbours: schedulers*)
(* that write the first block's input buffers and read the last block's    *)
(* output buffers while it runs.  A buffer is two totals, items written    *)
(* and items read; post_write and post_read add to them.  A block's work   *)
(* is one step here, and the last block's is followed by the wait for its  *)
(* answer: InferenceRendezvous opens both.                                 *)
(***************************************************************************)
EXTENDS Integers

CONSTANTS
  Last,      \* the blocks are 1..Last; 1 is first_block, Last last_block
  Ins,       \* input ports of the first block
  Outs,      \* output ports of the last block
  Cap,       \* items a buffer holds
  Multiple,  \* output_multiple of each block, 1 if it is not set
  MinRead, MaxRead,  \* min_buffer_read and max_buffer_read, 0 if not set
  MinFill, MaxFill,  \* min_buffer_fill and max_buffer_fill, 0 if not set
  Part,      \* read_info and write_info tell all there is, or at least this
  MayFinish, \* a block's work may return DONE
  MaxItems   \* bound: items written to each input

ASSUME ExecutorAssumption ==
  /\ {Last, Ins, Outs, Cap} \subseteq Nat \ {0}
  /\ Multiple \in [1..Last -> Nat \ {0}]
  /\ {MinRead, MaxRead, MinFill, MaxFill, Part, MaxItems} \subseteq Nat
  /\ MayFinish \in BOOLEAN

Blocks == 1..Last
In == 1..Ins
Out == 1..Outs

VARIABLES
  in_written, in_read,    \* totals of the input buffers
  out_written, out_read,  \* totals of the output buffers
  lag,       \* written minus read of the buffer from block b to b + 1
  wpc,       \* position in run_one_iteration, "idle" outside it
  cur,       \* the block being worked
  n_in,      \* n_items of the first block's inputs, as they were found
  n_out,     \* n_items of the last block's outputs
  n_consumed, n_produced,  \* of each block
  submitted, \* the last block's work has sent an inference
  status,    \* the iteration's status
  unclog,    \* side whose blocked callbacks this iteration has run
  dones,     \* history: blocks whose work returned DONE in this iteration
  woken,     \* a notification waits in the worker's queue
  up_awake,  \* the writer of each input has something to try
  down_awake \* the reader of each output has something to try

buffers == <<in_written, in_read, out_written, out_read, lag>>
wio == <<n_in, n_out, n_consumed, n_produced, submitted>>
result == <<status, unclog, dones>>
notices == <<woken, up_awake, down_awake>>
vars == <<buffers, wpc, cur, wio, result, notices>>

Smaller(a, b) == IF a < b THEN a ELSE b
round_down(n, multiple) == (n \div multiple) * multiple

\* What a buffer tells of n items available: a single-mapped buffer tells of
\* those before its end.  Of a buffer that was overrun nothing is claimed.
Window(n) == {w \in 0..n : w = n \/ w >= Part}

Init ==
  /\ in_written = [p \in In |-> 0] /\ in_read = [p \in In |-> 0]
  /\ out_written = [q \in Out |-> 0] /\ out_read = [q \in Out |-> 0]
  /\ lag = [b \in 1..(Last - 1) |-> 0]
  /\ wpc = "idle" /\ cur = 1
  /\ n_in = [p \in In |-> 0] /\ n_out = [q \in Out |-> 0]
  /\ n_consumed = [b \in Blocks |-> 0] /\ n_produced = [b \in Blocks |-> 0]
  /\ submitted = FALSE
  /\ status = "READY" /\ unclog = "none" /\ dones = {}
  /\ woken = FALSE
  /\ up_awake = [p \in In |-> TRUE] /\ down_awake = [q \in Out |-> TRUE]

-----------------------------------------------------------------------------
(* The iteration.                                                          *)

\* run_one_iteration is called.
Enter ==
  /\ wpc = "idle"
  /\ wpc' = "inputs"
  /\ cur' = 1
  /\ status' = "READY" /\ unclog' = "none" /\ dones' = {}
  /\ UNCHANGED <<buffers, wio, up_awake, down_awake>>

\* The worker has drained its queue and was asked for work; it may have been
\* asked again since.
BeginIteration == woken /\ woken' \in BOOLEAN /\ Enter

\* start(), a flush and whoever else pushes messages ask for work, too.
Asked ==
  /\ woken' = TRUE
  /\ UNCHANGED <<buffers, wpc, cur, wio, result, up_awake, down_awake>>

Available(p) == in_written[p] - in_read[p]
Space(q) == Cap - (out_written[q] - out_read[q])

TooFew(n) == n < 1 \/ (MinRead > 0 /\ n < MinRead)
Limited(n) == IF MaxRead > 0 THEN Smaller(n, MaxRead) ELSE n

\* read_info of every input; one that is short ends the iteration at once.
read_info ==
  /\ wpc = "inputs"
  /\ \E n \in [In -> 0..Cap] :
       /\ \A p \in In : n[p] \in Window(Available(p))
       /\ \/ /\ \E p \in In : TooFew(n[p])
             /\ status' = "BLKD_IN"
             /\ wpc' = "idle"
             /\ UNCHANGED n_in
          \/ /\ \A p \in In : ~TooFew(n[p])
             /\ n_in' = [p \in In |-> Limited(n[p])]
             /\ wpc' = "outputs"
             /\ UNCHANGED status
  /\ UNCHANGED <<buffers, cur, n_out, n_consumed, n_produced, submitted, unclog,
                 dones, notices>>

max_output_buffer(n) ==
  round_down(IF MaxFill > 0 THEN Smaller(n, MaxFill) ELSE n, Multiple[Last])
Clogged(n) == n < 1 \/ (MinFill > 0 /\ n < MinFill) \/ max_output_buffer(n) = 0

\* write_info of every output; one that is short skips the work.
write_info ==
  /\ wpc = "outputs"
  /\ \E n \in [Out -> 0..Cap] :
       /\ \A q \in Out : n[q] \in Window(Space(q))
       /\ \/ /\ \E q \in Out : Clogged(n[q])
             /\ status' = "BLKD_OUT" /\ unclog' = "out"
             /\ wpc' = "unclog"
             /\ UNCHANGED n_out
          \/ /\ \A q \in Out : ~Clogged(n[q])
             /\ n_out' = [q \in Out |-> max_output_buffer(n[q])]
             /\ wpc' = "work"
             /\ UNCHANGED <<status, unclog>>
  /\ UNCHANGED <<buffers, cur, n_in, n_consumed, n_produced, submitted, dones, notices>>

\* Variants: the input's or the output's n_items alone.
Items_InputOnly(b) == round_down(n_in[1], Multiple[b])
Items_OutputOnly(b) == n_out[1]

\* Every block is given the first input's and the first output's n_items; a
\* sync block (external) processes whole multiples of the smaller.
Items(b) == round_down(Smaller(n_in[1], n_out[1]), Multiple[b])

\* do_work of a block that is not the last.  It may leave the items it
\* processed in its ports (external), where the next blocks find them.
WorkInner(b) ==
  /\ cur' = b + 1 /\ UNCHANGED <<wpc, submitted>>
  /\ \/ UNCHANGED n_in
     \/ b = 1 /\ n_in' = [n_in EXCEPT ![1] = Items(1)]

\* Variant: one block too far.
WorkLast_Past ==
  /\ cur' = cur + 1 /\ wpc' = "wait" /\ submitted' \in BOOLEAN
  /\ UNCHANGED n_in

\* do_work of the last block is waited for, whether or not it has sent an
\* inference that will be answered.
WorkLast ==
  /\ wpc' = "wait" /\ submitted' \in BOOLEAN
  /\ UNCHANGED <<cur, n_in>>

\* do_work returns OK or DONE.
Work(ret) ==
  /\ wpc = "work" /\ Items(cur) > 0
  /\ n_consumed' = [n_consumed EXCEPT ![cur] = Items(cur)]
  /\ n_produced' = [n_produced EXCEPT ![cur] = Items(cur)]
  /\ status' = IF ret = "DONE" THEN "DONE" ELSE "READY"
  /\ dones' = IF ret = "DONE" THEN dones \union {cur} ELSE dones
  /\ IF cur = Last THEN WorkLast ELSE WorkInner(cur)
  /\ UNCHANGED <<buffers, n_out, unclog, notices>>

\* The answer of the inference ends the wait; without one it has no end.
WaitForCallback ==
  /\ wpc = "wait" /\ submitted
  /\ wpc' = "post_read"
  /\ UNCHANGED <<buffers, cur, wio, result, notices>>

\* Variant: the last block, too, is called again.
WorkInsufficient_Retries ==
  /\ wpc = "work" /\ Items(cur) = 0
  /\ UNCHANGED vars

\* do_work returns INSUFFICIENT_INPUT_ITEMS or INSUFFICIENT_OUTPUT_ITEMS.  For
\* the last block that ends the loop without a wait; any other block is called
\* again, with the same items.
WorkInsufficient ==
  /\ wpc = "work" /\ Items(cur) = 0 /\ cur = Last
  /\ n_consumed' = [n_consumed EXCEPT ![cur] = 0]
  /\ n_produced' = [n_produced EXCEPT ![cur] = 0]
  /\ \/ status' = "BLKD_IN" /\ unclog' = "in"
     \/ status' = "BLKD_OUT" /\ unclog' = "out"
  /\ wpc' = "post_read"
  /\ UNCHANGED <<buffers, cur, n_in, n_out, submitted, dones, notices>>

\* Variant: post_read of what was offered instead of what was consumed.
post_read_Given ==
  /\ wpc = "post_read"
  /\ in_read' = [p \in In |-> in_read[p] + n_in[p]]
  /\ lag' = [b \in DOMAIN lag |-> lag[b] - n_consumed[b + 1]]
  /\ wpc' = "notify_output"
  /\ UNCHANGED <<in_written, out_written, out_read, cur, wio, result, notices>>

post_read ==
  /\ wpc = "post_read"
  /\ in_read' = [p \in In |-> in_read[p] + n_consumed[1]]
  /\ lag' = [b \in DOMAIN lag |-> lag[b] - n_consumed[b + 1]]
  /\ wpc' = "notify_output"
  /\ UNCHANGED <<in_written, out_written, out_read, cur, wio, result, notices>>

\* Variant: no NOTIFY_OUTPUT after the reads.
NotifyOutput_None ==
  /\ wpc = "notify_output"
  /\ wpc' = "post_write"
  /\ UNCHANGED <<buffers, cur, wio, result, notices>>

NotifyOutput ==
  /\ wpc = "notify_output"
  /\ up_awake' = [p \in In |-> TRUE]
  /\ wpc' = "post_write"
  /\ UNCHANGED <<buffers, cur, wio, result, woken, down_awake>>

\* Variant: only the last block's outputs are posted.
post_write_LastOnly ==
  /\ wpc = "post_write"
  /\ out_written' = [q \in Out |-> out_written[q] + n_produced[Last]]
  /\ wpc' = "notify_input"
  /\ UNCHANGED <<in_written, in_read, out_read, lag, cur, wio, result, notices>>

\* The last block's n_produced is posted to every block's outputs.
post_write ==
  /\ wpc = "post_write"
  /\ out_written' = [q \in Out |-> out_written[q] + n_produced[Last]]
  /\ lag' = [b \in DOMAIN lag |-> lag[b] + n_produced[Last]]
  /\ wpc' = "notify_input"
  /\ UNCHANGED <<in_written, in_read, out_read, cur, wio, result, notices>>

\* Variant: no NOTIFY_INPUT after the writes.
NotifyInput_None ==
  /\ wpc = "notify_input"
  /\ wpc' = IF unclog = "none" THEN "idle" ELSE "unclog"
  /\ UNCHANGED <<buffers, cur, wio, result, notices>>

NotifyInput ==
  /\ wpc = "notify_input"
  /\ down_awake' = [q \in Out |-> TRUE]
  /\ wpc' = IF unclog = "none" THEN "idle" ELSE "unclog"
  /\ UNCHANGED <<buffers, cur, wio, result, woken, up_awake>>

\* The blocked callbacks of one side (external); a callback that made room
\* or moved items notifies its neighbour.
Unclog ==
  /\ wpc = "unclog"
  /\ \/ UNCHANGED <<up_awake, down_awake>>
     \/ unclog = "in" /\ up_awake' = [p \in In |-> TRUE] /\ UNCHANGED down_awake
     \/ unclog = "out" /\ down_awake' = [q \in Out |-> TRUE] /\ UNCHANGED up_awake
  /\ wpc' = "idle"
  /\ UNCHANGED <<buffers, cur, wio, result, woken>>

\* The steps of run_one_iteration after its call.
Iterate ==
  \/ read_info \/ write_info
  \/ Work("OK") \/ (MayFinish /\ Work("DONE")) \/ WorkInsufficient
  \/ WaitForCallback
  \/ post_read \/ NotifyOutput \/ post_write \/ NotifyInput \/ Unclog

Worker == BeginIteration \/ Iterate

-----------------------------------------------------------------------------
(* The neighbours (external): each writes or reads what it can and then    *)
(* notifies the worker, or waits for a notification.                       *)

Upstream(p) ==
  /\ up_awake[p]
  /\ \/ \E k \in 1..Smaller(Cap - Available(p), MaxItems - in_written[p]) :
          /\ in_written' = [in_written EXCEPT ![p] = @ + k]
          /\ woken' = TRUE
          /\ UNCHANGED up_awake
     \/ /\ Cap <= Available(p)
        /\ up_awake' = [up_awake EXCEPT ![p] = FALSE]
        /\ UNCHANGED <<in_written, woken>>
  /\ UNCHANGED <<in_read, out_written, out_read, lag, wpc, cur, wio, result, down_awake>>

Downstream(q) ==
  /\ down_awake[q]
  /\ \/ \E k \in 1..(out_written[q] - out_read[q]) :
          /\ out_read' = [out_read EXCEPT ![q] = @ + k]
          /\ woken' = TRUE
          /\ UNCHANGED down_awake
     \/ /\ out_written[q] = out_read[q]
        /\ down_awake' = [down_awake EXCEPT ![q] = FALSE]
        /\ UNCHANGED <<out_read, woken>>
  /\ UNCHANGED <<in_written, in_read, out_written, lag, wpc, cur, wio, result, up_awake>>

Next ==
  \/ Worker \/ Asked
  \/ (\E p \in In : Upstream(p)) \/ (\E q \in Out : Downstream(q))

\* Threads are scheduled, and each neighbour tries when it is notified.
Fairness ==
  /\ WF_vars(Worker)
  /\ \A p \in In : WF_vars(Upstream(p))
  /\ \A q \in Out : WF_vars(Downstream(q))

Spec == Init /\ [][Next]_vars
FairSpec == Spec /\ Fairness

-----------------------------------------------------------------------------
TypeOK ==
  /\ in_written \in [In -> 0..MaxItems] /\ in_read \in [In -> Nat]
  /\ out_written \in [Out -> Nat] /\ out_read \in [Out -> Nat]
  /\ lag \in [1..(Last - 1) -> Int]
  /\ wpc \in {"idle", "inputs", "outputs", "work", "wait", "post_read",
              "notify_output", "post_write", "notify_input", "unclog"}
  /\ cur \in Blocks
  /\ n_in \in [In -> 0..Cap] /\ n_out \in [Out -> 0..Cap]
  /\ n_consumed \in [Blocks -> 0..Cap] /\ n_produced \in [Blocks -> 0..Cap]
  /\ submitted \in BOOLEAN
  /\ status \in {"READY", "BLKD_IN", "BLKD_OUT", "DONE"}
  /\ unclog \in {"none", "in", "out"}
  /\ dones \subseteq Blocks
  /\ woken \in BOOLEAN
  /\ up_awake \in [In -> BOOLEAN] /\ down_awake \in [Out -> BOOLEAN]

(* The executor reads only what was written, as far as the code sees to    *)
(* it: the first input is never read beyond what was written, nor is any   *)
(* that held as much as the first when both were asked, whatever was       *)
(* written and processed since, for any multiples, limits and partial      *)
(* windows.  An input that held less is: it is given the first one's       *)
(* number (graph_executor.cc 46-69, 158, 255-266).                         *)
ReadsOnlyFound ==
  /\ in_read[1] <= in_written[1]
  /\ wpc = "post_read" =>
       \A p \in In : n_in[p] >= n_in[1] => n_consumed[1] <= Available(p)

(* It overwrites nothing unread (graph_executor.cc 84-140, 163, 272-284).  *)
WritesOnlyFree == \A q \in Out : out_written[q] - out_read[q] <= Cap

(* A buffer inside the chain is balanced between iterations, though it is  *)
(* read before it is written and by another block's number, if its reader  *)
(* has the last block's multiple.  Another multiple leaves items behind at *)
(* every iteration (graph_executor.cc 255-284).                            *)
ChainIsBalanced ==
  wpc = "idle" =>
    \A b \in DOMAIN lag : Multiple[b + 1] = Multiple[Last] => lag[b] = 0

(* The chain is one sync block to its neighbours.                          *)
Stream == INSTANCE SyncStream WITH
  offered <- in_written[1], taken <- in_read[1],
  given <- out_written[1], freed <- out_read[1]
IsSyncStream == Stream!Spec

(* When everyone waits for a notification nobody has anything to do: each  *)
(* writer is through or its buffer is full, the readers have read all, and *)
(* some input is too short to work on (graph_executor.cc 56-61, 268-288).  *)
Finished(p) == in_written[p] = MaxItems
AllWait ==
  /\ wpc = "idle" /\ ~woken
  /\ \A p \in In : ~up_awake[p] \/ Finished(p)
  /\ \A q \in Out : ~down_awake[q]
NoStall ==
  AllWait =>
    /\ \A p \in In : Finished(p) \/ Available(p) = Cap
    /\ \A q \in Out : out_written[q] = out_read[q]
    /\ \E p \in In : TooFew(Available(p)) \/ Limited(Available(p)) < Multiple[Last]

\* The last block returned OK or DONE and sent nothing: the wait has no end.
Deserted == wpc = "wait" /\ ~submitted

(* An iteration returns, unless it waits for an answer to nothing          *)
(* (graph_executor.cc 149-253, 292-320).                                   *)
IterationEnds == (wpc # "idle") ~> (wpc = "idle" \/ Deserted)

(* Every whole multiple written upstream reaches the reader downstream,    *)
(* unless an iteration waits for an answer to nothing.                     *)
Delivered ==
  \A n \in 1..(MaxItems \div Multiple[Last]) :
    (\A p \in In : in_written[p] >= n * Multiple[Last])
      ~> (Deserted \/ \A q \in Out : out_read[q] >= n * Multiple[Last])
=============================================================================
