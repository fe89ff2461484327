--------------------- MODULE InferenceRendezvous_proofs ---------------------
(***************************************************************************)
(* The safety of the wait on the last block's callback, and that it makes  *)
(* an inference a synchronous call, for chains and iterations of any       *)
(* number.                                                                 *)
(***************************************************************************)
EXTENDS InferenceRendezvous, FiniteSetTheorems, TLAPS

-----------------------------------------------------------------------------
(* The inductive invariant.                                                *)

\* An iteration has a frame to itself, which is not posted before its end.
IterationHasFrame ==
  /\ wpc # "idle" => iter \in Frames /\ iter \notin posted
  /\ \A i \in posted : i <= iter

\* A synchronous call is of a synchronous block.
InferIsSync == wpc = "infer" => cur \notin async_

\* While the worker waits it is inside the frame's scope.
WaitingIsAlive ==
  wpc \in {"lock", "check", "sleep", "asleep", "leave"} \/ (wpc = "infer" /\ cur = Last)
    => iter \in alive

\* The mutex is held by the one that is between lock and unlock.
Exclusion ==
  /\ wpc \in {"check", "sleep", "leave"} => holder[iter] = "worker"
  /\ \A i \in Frames : req[i][Last] = "locked" => holder[i] = "callback"

\* The flag is set when the callback has set it, and never before.
FlagIsCallbacks ==
  /\ \A i \in ready : req[i][Last] \in {"notifying", "done"}
  /\ Last \in async_ =>
       \A i \in Frames : req[i][Last] \in {"notifying", "done"} => i \in ready

\* What the worker concluded from the flag with the mutex held still holds.
FlagWasRead ==
  /\ wpc \in {"leave", "post"} => iter \in ready
  /\ wpc = "sleep" => iter \notin ready

\* A worker asleep on a set flag is about to be notified.
WakeIsComing ==
  wpc = "asleep" /\ iter \in ready /\ ~notified => req[iter][Last] = "notifying"

PostedIsReady == posted \subseteq ready

IInv ==
  /\ TypeOK /\ CallbackHasFrame
  /\ IterationHasFrame /\ InferIsSync /\ WaitingIsAlive /\ Exclusion
  /\ FlagIsCallbacks /\ FlagWasRead /\ WakeIsComing /\ PostedIsReady

\* The type invariant, the arithmetic apart from the sets and functions.
PositionOK ==
  /\ iter \in 0..MaxIterations /\ cur \in 1..Last
  /\ wpc \in {"idle", "work", "infer", "lock", "check", "sleep", "asleep", "leave", "post",
             "post_nothing"}
DataOK ==
  /\ async_ \subseteq Blocks /\ alive \subseteq Frames /\ ready \subseteq Frames
  /\ posted \subseteq Frames
  /\ holder \in [Frames -> {"nobody", "worker", "callback"}]
  /\ notified \in BOOLEAN
  /\ req \in [Frames -> [Blocks -> RequestStates]]

-----------------------------------------------------------------------------
(* Facts about the constants and about requests.                           *)

LEMMA LastIsBlock == Last \in Blocks
  BY ChainAssumption DEF Blocks

LEMMA FramesAreNumbers == Frames \subseteq Nat /\ 0..MaxIterations \subseteq Int
  BY ChainAssumption DEF Frames

\* A step of one request leaves the others alone.
LEMMA RequestMoves ==
  ASSUME req \in [Frames -> [Blocks -> RequestStates]],
         NEW i \in Frames, NEW b \in Blocks, NEW from, NEW to \in RequestStates,
         Request(i, b, from, to)
  PROVE  /\ req' \in [Frames -> [Blocks -> RequestStates]]
         /\ req[i][b] \in from /\ req'[i][b] = to
         /\ \A j \in Frames, c \in Blocks : j # i \/ c # b => req'[j][c] = req[j][c]
  BY DEF Request

\* What a step of one request does to the last block's requests.
LEMMA LastMoves ==
  ASSUME req \in [Frames -> [Blocks -> RequestStates]],
         NEW i \in Frames, NEW b \in Blocks, NEW from, NEW to \in RequestStates,
         Request(i, b, from, to)
  PROVE  \A j \in Frames :
           \/ req'[j][Last] = req[j][Last]
           \/ j = i /\ b = Last /\ req[j][Last] \in from /\ req'[j][Last] = to
  BY RequestMoves, LastIsBlock

-----------------------------------------------------------------------------
(* The invariant holds initially, and every step keeps it.                 *)

LEMMA TypeParts == TypeOK <=> PositionOK /\ DataOK
  BY DEF TypeOK, PositionOK, DataOK, Blocks

LEMMA NextTypeParts == PositionOK' /\ DataOK' => TypeOK'
  BY DEF TypeOK, PositionOK, DataOK, Blocks

LEMMA InitIInv == Init => IInv
<1> SUFFICES ASSUME Init PROVE IInv
  OBVIOUS
<1>1. PositionOK
  BY ChainAssumption DEF Init, PositionOK
<1>2. req \in [Frames -> [Blocks -> RequestStates]]
  BY DEF Init, RequestStates
<1>3. DataOK
  BY <1>2 DEF Init, DataOK
<1>4. \A i \in Frames : req[i][Last] = "none"
  BY LastIsBlock DEF Init
<1> QED
  BY <1>1, <1>3, <1>4, TypeParts
  DEF Init, IInv, CallbackHasFrame, IterationHasFrame, InferIsSync, WaitingIsAlive, Exclusion,
      FlagIsCallbacks, FlagWasRead, WakeIsComing, PostedIsReady, InFlight

LEMMA NextPosition == PositionOK /\ [Next]_vars => PositionOK'
<1> SUFFICES ASSUME PositionOK, [Next]_vars PROVE PositionOK'
  OBVIOUS
<1> USE ChainAssumption DEF PositionOK
<1>1. CASE BeginIteration
  BY <1>1 DEF BeginIteration
<1>2. CASE AfterWork /\ iter' = iter
  BY <1>2 DEF AfterWork
<1>3. CASE AsyncInfer \/ Infer \/ InferReturns \/ NothingSent
  BY <1>2, <1>3 DEF AsyncInfer, Infer, InferReturns, NothingSent
<1>4. CASE Insufficient \/ PostNothing \/ Lock \/ Check \/ Sleep \/ Wake \/ SpuriousWake \/ Leave \/ Post
  BY <1>4 DEF Insufficient, PostNothing, Lock, Check, Sleep, Wake, SpuriousWake, Leave, Post
<1>5. ASSUME NEW i \in Frames, NEW b \in Blocks, Serve(i, b) \/ Complete(i, b)
      PROVE  PositionOK'
  BY <1>5 DEF Serve, Complete, workerVars
<1>6. ASSUME NEW i \in Frames, CallbackLock(i) \/ CallbackSet(i) \/ CallbackNotify(i)
      PROVE  PositionOK'
  BY <1>6 DEF CallbackLock, CallbackSet, CallbackNotify, workerVars
<1>7. CASE UNCHANGED vars
  BY <1>7 DEF vars, workerVars
<1> QED
  BY <1>1, <1>3, <1>4, <1>5, <1>6, <1>7 DEF Next, Worker

\* Every step leaves the requests alone or moves one of them.
LEMMA NextMovesRequest ==
  ASSUME PositionOK, IterationHasFrame, [Next]_vars
  PROVE  \/ UNCHANGED req
         \/ \E i \in Frames, b \in Blocks, from \in SUBSET RequestStates, to \in RequestStates :
              Request(i, b, from, to)
<1> USE LastIsBlock DEF RequestStates
<1>1. CASE AsyncInfer \/ Infer \/ InferReturns
  <2>1. iter \in Frames /\ cur \in Blocks
    BY <1>1 DEF AsyncInfer, Infer, InferReturns, IterationHasFrame, PositionOK, Blocks
  <2>2. PICK to \in {"queued", "rejected", "done"} :
          Request(iter, cur, {"none"}, to) \/ Request(iter, cur, {"answered"}, to)
    BY <1>1 DEF AsyncInfer, Infer, InferReturns
  <2> QED
    BY <2>1, <2>2
<1>2. CASE \/ BeginIteration \/ NothingSent \/ Insufficient \/ PostNothing \/ Lock \/ Check
           \/ Sleep \/ Wake \/ SpuriousWake \/ Leave \/ Post
  BY <1>2 DEF BeginIteration, NothingSent, Insufficient, PostNothing, Lock, Check, Sleep, Wake,
              SpuriousWake, Leave, Post
<1>3. ASSUME NEW i \in Frames, NEW b \in Blocks, Serve(i, b) \/ Complete(i, b)
      PROVE  \E from \in SUBSET RequestStates, to \in RequestStates : Request(i, b, from, to)
  BY <1>3 DEF Serve, Complete
<1>4. ASSUME NEW i \in Frames, CallbackLock(i) \/ CallbackSet(i) \/ CallbackNotify(i)
      PROVE  \E from \in SUBSET RequestStates, to \in RequestStates : Request(i, Last, from, to)
  BY <1>4 DEF CallbackLock, CallbackSet, CallbackNotify
<1>5. CASE UNCHANGED vars
  BY <1>5 DEF vars
<1> QED
  BY <1>1, <1>2, <1>3, <1>4, <1>5 DEF Next, Worker

LEMMA NextData == PositionOK /\ DataOK /\ IterationHasFrame /\ [Next]_vars => DataOK'
<1> SUFFICES ASSUME PositionOK, DataOK, IterationHasFrame, [Next]_vars PROVE DataOK'
  OBVIOUS
<1>1. req' \in [Frames -> [Blocks -> RequestStates]]
  BY NextMovesRequest, RequestMoves DEF DataOK
<1>2. wpc # "idle" => iter \in Frames
  BY DEF IterationHasFrame
<1> USE <1>1, <1>2 DEF DataOK
<1>3. CASE BeginIteration
  BY <1>3 DEF BeginIteration
<1>4. CASE AsyncInfer \/ Infer \/ InferReturns \/ NothingSent
  BY <1>4 DEF AsyncInfer, Infer, InferReturns, NothingSent, EnterFrame
<1>5. CASE Insufficient \/ PostNothing \/ Lock \/ Check \/ Sleep \/ Wake \/ SpuriousWake \/ Leave \/ Post
  BY <1>5 DEF Insufficient, PostNothing, Lock, Check, Sleep, Wake, SpuriousWake, Leave, Post
<1>6. ASSUME NEW i \in Frames, NEW b \in Blocks, Serve(i, b) \/ Complete(i, b) PROVE DataOK'
  BY <1>6 DEF Serve, Complete, workerVars
<1>7. ASSUME NEW i \in Frames, CallbackLock(i) \/ CallbackSet(i) \/ CallbackNotify(i)
      PROVE  DataOK'
  BY <1>7 DEF CallbackLock, CallbackSet, CallbackNotify, workerVars
<1>8. CASE UNCHANGED vars
  BY <1>8 DEF vars, workerVars
<1> QED
  BY <1>3, <1>4, <1>5, <1>6, <1>7, <1>8 DEF Next, Worker

LEMMA NextIteration ==
  PositionOK /\ DataOK /\ IterationHasFrame /\ [Next]_vars => IterationHasFrame'
<1> SUFFICES ASSUME PositionOK, DataOK, IterationHasFrame, [Next]_vars PROVE IterationHasFrame'
  OBVIOUS
<1>0. posted \subseteq Nat
  BY FramesAreNumbers DEF DataOK
<1> USE DEF IterationHasFrame
<1>1. CASE BeginIteration
  BY <1>0, <1>1, ChainAssumption DEF BeginIteration, PositionOK, Frames
<1>2. CASE AsyncInfer \/ Infer \/ InferReturns \/ NothingSent
  BY <1>2 DEF AsyncInfer, Infer, InferReturns, NothingSent
<1>3. CASE Insufficient \/ PostNothing \/ Lock \/ Check \/ Sleep \/ Wake \/ SpuriousWake \/ Leave
  BY <1>3 DEF Insufficient, PostNothing, Lock, Check, Sleep, Wake, SpuriousWake, Leave
<1>4. CASE Post
  BY <1>4 DEF Post, PositionOK
<1>5. ASSUME NEW i \in Frames, NEW b \in Blocks, Serve(i, b) \/ Complete(i, b)
      PROVE  IterationHasFrame'
  BY <1>5 DEF Serve, Complete, workerVars
<1>6. ASSUME NEW i \in Frames, CallbackLock(i) \/ CallbackSet(i) \/ CallbackNotify(i)
      PROVE  IterationHasFrame'
  BY <1>6 DEF CallbackLock, CallbackSet, CallbackNotify, workerVars
<1>7. CASE UNCHANGED vars
  BY <1>7 DEF vars, workerVars
<1> QED
  BY <1>1, <1>2, <1>3, <1>4, <1>5, <1>6, <1>7 DEF Next, Worker

LEMMA NextInferIsSync == InferIsSync /\ [Next]_vars => InferIsSync'
<1> SUFFICES ASSUME InferIsSync, [Next]_vars PROVE InferIsSync'
  OBVIOUS
<1> USE DEF InferIsSync
<1>1. CASE BeginIteration \/ AsyncInfer \/ Infer \/ InferReturns \/ NothingSent
  BY <1>1 DEF BeginIteration, AsyncInfer, Infer, InferReturns, NothingSent, AfterWork
<1>2. CASE Insufficient \/ PostNothing \/ Lock \/ Check \/ Sleep \/ Wake \/ SpuriousWake \/ Leave \/ Post
  BY <1>2 DEF Insufficient, PostNothing, Lock, Check, Sleep, Wake, SpuriousWake, Leave, Post
<1>3. ASSUME NEW i \in Frames, NEW b \in Blocks, Serve(i, b) \/ Complete(i, b)
      PROVE  InferIsSync'
  BY <1>3 DEF Serve, Complete, workerVars
<1>4. ASSUME NEW i \in Frames, CallbackLock(i) \/ CallbackSet(i) \/ CallbackNotify(i)
      PROVE  InferIsSync'
  BY <1>4 DEF CallbackLock, CallbackSet, CallbackNotify, workerVars
<1>5. CASE UNCHANGED vars
  BY <1>5 DEF vars, workerVars
<1> QED
  BY <1>1, <1>2, <1>3, <1>4, <1>5 DEF Next, Worker

LEMMA NextWaiting == WaitingIsAlive /\ [Next]_vars => WaitingIsAlive'
<1> SUFFICES ASSUME WaitingIsAlive, [Next]_vars PROVE WaitingIsAlive'
  OBVIOUS
<1> USE DEF WaitingIsAlive
<1>1. CASE BeginIteration
  BY <1>1 DEF BeginIteration
<1>2. CASE AsyncInfer \/ Infer \/ NothingSent
  BY <1>2 DEF AsyncInfer, Infer, NothingSent, AfterWork, EnterFrame
<1>3. CASE InferReturns
  BY <1>3 DEF InferReturns, AfterWork
<1>4. CASE Insufficient \/ PostNothing \/ Lock \/ Check \/ Sleep \/ Wake \/ SpuriousWake \/ Leave \/ Post
  BY <1>4 DEF Insufficient, PostNothing, Lock, Check, Sleep, Wake, SpuriousWake, Leave, Post
<1>5. ASSUME NEW i \in Frames, NEW b \in Blocks, Serve(i, b) \/ Complete(i, b)
      PROVE  WaitingIsAlive'
  BY <1>5 DEF Serve, Complete, workerVars
<1>6. ASSUME NEW i \in Frames, CallbackLock(i) \/ CallbackSet(i) \/ CallbackNotify(i)
      PROVE  WaitingIsAlive'
  BY <1>6 DEF CallbackLock, CallbackSet, CallbackNotify, workerVars
<1>7. CASE UNCHANGED vars
  BY <1>7 DEF vars, workerVars
<1> QED
  BY <1>1, <1>2, <1>3, <1>4, <1>5, <1>6, <1>7 DEF Next, Worker

-----------------------------------------------------------------------------
(* What each kind of step does to the last block's requests.               *)

SameLast(j) == req'[j][Last] = req[j][Last]

LEMMA SubmitMovesLast ==
  ASSUME PositionOK, DataOK, IterationHasFrame, AsyncInfer \/ Infer
  PROVE  \A j \in Frames :
           \/ SameLast(j)
           \/ /\ j = iter /\ cur = Last
              /\ req[j][Last] = "none" /\ req'[j][Last] \in {"queued", "rejected"}
<1>1. iter \in Frames /\ cur \in Blocks
  BY DEF AsyncInfer, Infer, IterationHasFrame, PositionOK, Blocks
<1>2. PICK to \in {"queued", "rejected"} : Request(iter, cur, {"none"}, to)
  BY DEF AsyncInfer, Infer
<1>3. to \in RequestStates
  BY DEF RequestStates
<1> QED
  BY <1>1, <1>2, <1>3, LastMoves DEF SameLast, DataOK

LEMMA ReturnMovesLast ==
  ASSUME PositionOK, DataOK, IterationHasFrame, InferReturns
  PROVE  \A j \in Frames :
           \/ SameLast(j)
           \/ j = iter /\ cur = Last /\ req[j][Last] = "answered" /\ req'[j][Last] = "done"
<1>1. iter \in Frames /\ cur \in Blocks /\ "done" \in RequestStates
  BY DEF InferReturns, IterationHasFrame, PositionOK, Blocks, RequestStates
<1>2. Request(iter, cur, {"answered"}, "done")
  BY DEF InferReturns
<1> QED
  BY <1>1, <1>2, LastMoves DEF SameLast, DataOK

LEMMA ServerMovesLast ==
  ASSUME DataOK, NEW i \in Frames, NEW b \in Blocks, Serve(i, b) \/ Complete(i, b)
  PROVE  \A j \in Frames :
           \/ SameLast(j)
           \/ /\ j = i /\ b = Last
              /\ \/ req[j][Last] = "queued" /\ req'[j][Last] = "running"
                 \/ req[j][Last] = "running" /\ req'[j][Last] = "answered"
                 \/ req[j][Last] = "answered" /\ req'[j][Last] = "locking" /\ Last \in async_
<1>1. {"running", "answered", "locking", "done"} \subseteq RequestStates
  BY DEF RequestStates
<1>2. CASE Request(i, b, {"queued"}, "running")
  BY <1>1, <1>2, LastMoves DEF SameLast, DataOK
<1>3. CASE Request(i, b, {"running"}, "answered")
  BY <1>1, <1>3, LastMoves DEF SameLast, DataOK
<1>4. CASE Complete(i, b) /\ b = Last
  BY <1>1, <1>4, LastMoves DEF SameLast, DataOK, Complete
<1>5. CASE Complete(i, b) /\ b # Last
  BY <1>1, <1>5, LastMoves DEF SameLast, DataOK, Complete
<1> QED
  BY <1>2, <1>3, <1>4, <1>5 DEF Serve

CallbackMoves(i, from, to) ==
  req[i][Last] = from /\ req'[i][Last] = to /\ \A j \in Frames : j # i => SameLast(j)

LEMMA CallbackMovesLast ==
  ASSUME DataOK, NEW i \in Frames
  PROVE  /\ CallbackLock(i) => CallbackMoves(i, "locking", "locked")
         /\ CallbackSet(i) => CallbackMoves(i, "locked", "notifying")
         /\ CallbackNotify(i) => CallbackMoves(i, "notifying", "done")
<1>1. {"locked", "notifying", "done"} \subseteq RequestStates
  BY DEF RequestStates
<1>2. ASSUME NEW from, NEW to \in RequestStates, Request(i, Last, {from}, to)
      PROVE  CallbackMoves(i, from, to)
  BY <1>2, RequestMoves, LastIsBlock DEF SameLast, DataOK, CallbackMoves
<1> QED
  BY <1>1, <1>2 DEF CallbackLock, CallbackSet, CallbackNotify

\* The other steps leave the requests alone.
Quiet ==
  \/ BeginIteration \/ Insufficient \/ PostNothing \/ Lock \/ Check \/ Sleep \/ Wake \/ SpuriousWake
  \/ Leave \/ Post \/ UNCHANGED vars

LEMMA QuietKeepsRequests == Quiet => req' = req
  BY DEF Quiet, BeginIteration, Insufficient, PostNothing, Lock, Check, Sleep, Wake, SpuriousWake, Leave,
         Post, vars

-----------------------------------------------------------------------------
(* The rest of the invariant.                                              *)

LEMMA NextExclusion ==
  PositionOK /\ DataOK /\ IterationHasFrame /\ Exclusion /\ [Next]_vars => Exclusion'
<1> SUFFICES ASSUME PositionOK, DataOK, IterationHasFrame, Exclusion, [Next]_vars
             PROVE  Exclusion'
  OBVIOUS
<1> USE DEF Exclusion, SameLast
<1>0a. CASE NothingSent
  <2>1. holder' = holder /\ req' = req /\ wpc' \notin {"check", "sleep", "leave"}
    BY <1>0a DEF NothingSent, AfterWork, EnterFrame
  <2> QED
    BY <2>1
<1>1. CASE AsyncInfer \/ Infer
  <2>1. holder' = holder /\ wpc' \notin {"check", "sleep", "leave"}
    BY <1>1 DEF AsyncInfer, Infer, AfterWork, EnterFrame
  <2> QED
    BY <1>1, <2>1, SubmitMovesLast
<1>2. CASE InferReturns
  <2>1. holder' = holder /\ wpc' \notin {"check", "sleep", "leave"}
    BY <1>2 DEF InferReturns, AfterWork
  <2> QED
    BY <1>2, <2>1, ReturnMovesLast
<1>3. CASE Quiet
  <2>1. req' = req
    BY <1>3, QuietKeepsRequests
  <2>2. CASE Lock \/ Check \/ Sleep \/ Leave
    BY <2>1, <2>2 DEF Lock, Check, Sleep, Leave, DataOK, IterationHasFrame
  <2>3. CASE BeginIteration \/ Insufficient \/ PostNothing \/ Wake \/ SpuriousWake \/ Post \/ UNCHANGED vars
    BY <2>1, <2>3 DEF BeginIteration, Insufficient, PostNothing, Wake, SpuriousWake, Post, vars, workerVars
  <2> QED
    BY <1>3, <2>2, <2>3 DEF Quiet
<1>4. ASSUME NEW i \in Frames, NEW b \in Blocks, Serve(i, b) \/ Complete(i, b)
      PROVE  Exclusion'
  BY <1>4, ServerMovesLast DEF Serve, Complete, workerVars
<1>5. ASSUME NEW i \in Frames, CallbackLock(i) PROVE Exclusion'
  <2>1. holder[i] = "nobody" /\ holder'[i] = "callback" /\ wpc' = wpc /\ iter' = iter
    BY <1>5 DEF CallbackLock, workerVars, DataOK
  <2>2. \A j \in Frames : j # i => holder'[j] = holder[j]
    BY <1>5 DEF CallbackLock, DataOK
  <2>3. CallbackMoves(i, "locking", "locked")
    BY <1>5, CallbackMovesLast
  <2> QED
    BY <2>1, <2>2, <2>3 DEF CallbackMoves, IterationHasFrame
<1>6. ASSUME NEW i \in Frames, CallbackSet(i) PROVE Exclusion'
  <2>1. CallbackMoves(i, "locked", "notifying") /\ wpc' = wpc /\ iter' = iter
    BY <1>6, CallbackMovesLast DEF CallbackSet, workerVars
  <2>2. \A j \in Frames : j # i => holder'[j] = holder[j]
    BY <1>6 DEF CallbackSet, DataOK
  <2> QED
    BY <2>1, <2>2 DEF CallbackMoves, IterationHasFrame
<1>7. ASSUME NEW i \in Frames, CallbackNotify(i) PROVE Exclusion'
  BY <1>7, CallbackMovesLast DEF CallbackNotify, CallbackMoves, workerVars
<1> QED
  BY <1>0a, <1>1, <1>2, <1>3, <1>4, <1>5, <1>6, <1>7 DEF Next, Worker, Quiet

LEMMA NextFlag ==
  /\ PositionOK /\ DataOK /\ IterationHasFrame /\ InferIsSync /\ FlagIsCallbacks
  /\ [Next]_vars
  => FlagIsCallbacks'
<1> SUFFICES ASSUME PositionOK, DataOK, IterationHasFrame, InferIsSync, FlagIsCallbacks,
                    [Next]_vars
             PROVE  FlagIsCallbacks'
  OBVIOUS
<1>0. ready \subseteq Frames
  BY DEF DataOK
<1> USE <1>0 DEF FlagIsCallbacks, SameLast
<1>0a. CASE NothingSent
  BY <1>0a DEF NothingSent, EnterFrame
<1>1. CASE AsyncInfer \/ Infer
  <2>1. ready' = ready /\ async_' = async_
    BY <1>1 DEF AsyncInfer, Infer, EnterFrame
  <2> QED
    BY <1>1, <2>1, SubmitMovesLast
<1>2. CASE InferReturns
  <2>1. ready' = ready /\ async_' = async_
    BY <1>2 DEF InferReturns
  <2>2. cur = Last => Last \notin async_
    BY <1>2 DEF InferReturns, InferIsSync
  <2> QED
    BY <1>2, <2>1, <2>2, ReturnMovesLast
<1>3. CASE Quiet
  <2>1. req' = req
    BY <1>3, QuietKeepsRequests
  <2>2. ready' = ready /\ async_' = async_
    BY <1>3 DEF Quiet, BeginIteration, Insufficient, PostNothing, Lock, Check, Sleep, Wake, SpuriousWake,
      Leave, Post, vars
  <2> QED
    BY <2>1, <2>2
<1>4. ASSUME NEW i \in Frames, NEW b \in Blocks, Serve(i, b) \/ Complete(i, b)
      PROVE  FlagIsCallbacks'
  BY <1>4, ServerMovesLast DEF Serve, Complete
<1>5. ASSUME NEW i \in Frames, CallbackLock(i) PROVE FlagIsCallbacks'
  BY <1>5, CallbackMovesLast DEF CallbackLock, CallbackMoves
<1>6. ASSUME NEW i \in Frames, CallbackSet(i) PROVE FlagIsCallbacks'
  BY <1>6, CallbackMovesLast DEF CallbackSet, CallbackMoves
<1>7. ASSUME NEW i \in Frames, CallbackNotify(i) PROVE FlagIsCallbacks'
  BY <1>7, CallbackMovesLast DEF CallbackNotify, CallbackMoves
<1> QED
  BY <1>0a, <1>1, <1>2, <1>3, <1>4, <1>5, <1>6, <1>7 DEF Next, Worker, Quiet

LEMMA NextFlagWasRead ==
  /\ PositionOK /\ DataOK /\ IterationHasFrame /\ Exclusion /\ FlagWasRead /\ [Next]_vars
  => FlagWasRead'
<1> SUFFICES ASSUME PositionOK, DataOK, IterationHasFrame, Exclusion, FlagWasRead, [Next]_vars
             PROVE  FlagWasRead'
  OBVIOUS
<1> USE DEF FlagWasRead
<1>1. CASE AsyncInfer \/ Infer \/ InferReturns \/ NothingSent
  BY <1>1 DEF AsyncInfer, Infer, InferReturns, NothingSent, AfterWork
<1>2. CASE Quiet
  BY <1>2 DEF Quiet, BeginIteration, Insufficient, PostNothing, Lock, Check, Sleep, Wake, SpuriousWake,
    Leave, Post, vars, workerVars
<1>3. ASSUME NEW i \in Frames, NEW b \in Blocks, Serve(i, b) \/ Complete(i, b)
      PROVE  FlagWasRead'
  BY <1>3 DEF Serve, Complete, workerVars
<1>4. ASSUME NEW i \in Frames, CallbackSet(i) PROVE FlagWasRead'
  <2>1. ready' = ready \union {i} /\ wpc' = wpc /\ iter' = iter
    BY <1>4 DEF CallbackSet, workerVars
  <2>2. req[i][Last] = "locked"
    BY <1>4, CallbackMovesLast DEF CallbackMoves
  <2>3. wpc = "sleep" => iter # i
    BY <2>2 DEF Exclusion
  <2> QED
    BY <2>1, <2>3
<1>5. ASSUME NEW i \in Frames, CallbackLock(i) \/ CallbackNotify(i) PROVE FlagWasRead'
  BY <1>5 DEF CallbackLock, CallbackNotify, workerVars
<1> QED
  BY <1>1, <1>2, <1>3, <1>4, <1>5 DEF Next, Worker, Quiet

LEMMA NextWakeIsComing ==
  /\ PositionOK /\ DataOK /\ IterationHasFrame /\ WaitingIsAlive /\ FlagWasRead
  /\ WakeIsComing /\ [Next]_vars
  => WakeIsComing'
<1> SUFFICES ASSUME PositionOK, DataOK, IterationHasFrame, WaitingIsAlive, FlagWasRead,
                    WakeIsComing, [Next]_vars
             PROVE  WakeIsComing'
  OBVIOUS
<1> USE DEF WakeIsComing
<1>1. CASE AsyncInfer \/ Infer \/ InferReturns \/ NothingSent
  BY <1>1 DEF AsyncInfer, Infer, InferReturns, NothingSent, AfterWork
<1>2. CASE Sleep
  BY <1>2 DEF Sleep, FlagWasRead
<1>3. CASE \/ BeginIteration \/ Insufficient \/ PostNothing \/ Lock \/ Check \/ Wake \/ SpuriousWake
           \/ Leave \/ Post
  BY <1>3 DEF BeginIteration, Insufficient, PostNothing, Lock, Check, Wake, SpuriousWake, Leave, Post
<1>4. CASE UNCHANGED vars
  BY <1>4 DEF vars, workerVars
<1>5. ASSUME NEW i \in Frames, NEW b \in Blocks, Serve(i, b) \/ Complete(i, b)
      PROVE  WakeIsComing'
  <2>1. wpc = "asleep" /\ req[iter][Last] = "notifying" => req'[iter][Last] = "notifying"
    BY <1>5, ServerMovesLast DEF SameLast, IterationHasFrame
  <2>2. UNCHANGED <<wpc, iter, ready, notified>>
    BY <1>5 DEF Serve, Complete, workerVars
  <2> QED
    BY <2>1, <2>2
<1>6. ASSUME NEW i \in Frames, CallbackLock(i) PROVE WakeIsComing'
  <2>1. wpc = "asleep" /\ req[iter][Last] = "notifying" => req'[iter][Last] = "notifying"
    BY <1>6, CallbackMovesLast DEF CallbackMoves, SameLast, IterationHasFrame
  <2>2. UNCHANGED <<wpc, iter, ready, notified>>
    BY <1>6 DEF CallbackLock, workerVars
  <2> QED
    BY <2>1, <2>2
<1>7. ASSUME NEW i \in Frames, CallbackSet(i) PROVE WakeIsComing'
  <2>1. /\ wpc = "asleep" /\ req[iter][Last] = "notifying" => req'[iter][Last] = "notifying"
        /\ iter = i => req'[iter][Last] = "notifying"
    BY <1>7, CallbackMovesLast DEF CallbackMoves, SameLast, IterationHasFrame
  <2>2. UNCHANGED <<wpc, iter, notified>> /\ ready' = ready \union {i}
    BY <1>7 DEF CallbackSet, workerVars
  <2> QED
    BY <2>1, <2>2
<1>8. ASSUME NEW i \in Frames, CallbackNotify(i) PROVE WakeIsComing'
  <2>1. UNCHANGED <<wpc, iter, ready>>
    BY <1>8 DEF CallbackNotify, workerVars
  <2>2. CASE notified' = (wpc = "asleep")
    BY <2>1, <2>2
  <2>3. CASE i \notin alive /\ notified' = notified
    <3>1. wpc = "asleep" => iter # i
      BY <2>3 DEF WaitingIsAlive
    <3>2. wpc = "asleep" => req'[iter][Last] = req[iter][Last]
      BY <1>8, <3>1, CallbackMovesLast DEF CallbackMoves, SameLast, IterationHasFrame
    <3> QED
      BY <2>1, <2>3, <3>2
  <2> QED
    BY <1>8, <2>2, <2>3 DEF CallbackNotify
<1> QED
  BY <1>1, <1>2, <1>3, <1>4, <1>5, <1>6, <1>7, <1>8 DEF Next, Worker

LEMMA NextPosted == DataOK /\ FlagWasRead /\ PostedIsReady /\ [Next]_vars => PostedIsReady'
<1> SUFFICES ASSUME DataOK, FlagWasRead, PostedIsReady, [Next]_vars PROVE PostedIsReady'
  OBVIOUS
<1> USE DEF PostedIsReady
<1>1. CASE AsyncInfer \/ Infer \/ InferReturns \/ NothingSent
  BY <1>1 DEF AsyncInfer, Infer, InferReturns, NothingSent, EnterFrame
<1>2. CASE Quiet
  BY <1>2 DEF Quiet, BeginIteration, Insufficient, PostNothing, Lock, Check, Sleep, Wake, SpuriousWake,
    Leave, Post, vars, workerVars, FlagWasRead
<1>3. ASSUME NEW i \in Frames, NEW b \in Blocks, Serve(i, b) \/ Complete(i, b)
      PROVE  PostedIsReady'
  BY <1>3 DEF Serve, Complete, workerVars
<1>4. ASSUME NEW i \in Frames, CallbackLock(i) \/ CallbackSet(i) \/ CallbackNotify(i)
      PROVE  PostedIsReady'
  BY <1>4 DEF CallbackLock, CallbackSet, CallbackNotify, workerVars
<1> QED
  BY <1>1, <1>2, <1>3, <1>4 DEF Next, Worker, Quiet

LEMMA NextCallbackHasFrame ==
  /\ PositionOK /\ DataOK /\ IterationHasFrame /\ FlagIsCallbacks /\ FlagWasRead
  /\ CallbackHasFrame /\ [Next]_vars
  => CallbackHasFrame'
<1> SUFFICES ASSUME PositionOK, DataOK, IterationHasFrame, FlagIsCallbacks, FlagWasRead,
                    CallbackHasFrame, [Next]_vars
             PROVE  CallbackHasFrame'
  OBVIOUS
<1> USE DEF CallbackHasFrame, InFlight, SameLast
<1>0a. CASE NothingSent
  <2>1. async_' = async_ /\ req' = req /\ alive \subseteq alive'
    BY <1>0a DEF NothingSent, EnterFrame
  <2> QED
    BY <2>1
<1>1. CASE AsyncInfer \/ Infer
  <2>1. async_' = async_ /\ alive \subseteq alive' /\ (cur = Last => iter \in alive')
    BY <1>1 DEF AsyncInfer, Infer, EnterFrame
  <2> QED
    BY <1>1, <2>1, SubmitMovesLast
<1>2. CASE InferReturns
  <2>1. async_' = async_ /\ alive' = alive
    BY <1>2 DEF InferReturns
  <2> QED
    BY <1>2, <2>1, ReturnMovesLast
<1>3. CASE Leave
  <2>1. req' = req /\ async_' = async_ /\ alive' = alive \ {iter}
    BY <1>3 DEF Leave
  <2>2. req[iter][Last] \in {"notifying", "done"}
    BY <1>3 DEF Leave, FlagWasRead, FlagIsCallbacks
  <2> QED
    BY <2>1, <2>2
<1>4. CASE Quiet /\ ~Leave
  <2>1. req' = req
    BY <1>4, QuietKeepsRequests
  <2>2. async_' = async_ /\ alive' = alive
    BY <1>4 DEF Quiet, BeginIteration, Insufficient, PostNothing, Lock, Check, Sleep, Wake, SpuriousWake,
      Post, vars, workerVars
  <2> QED
    BY <2>1, <2>2
<1>5. ASSUME NEW i \in Frames, NEW b \in Blocks, Serve(i, b) \/ Complete(i, b)
      PROVE  CallbackHasFrame'
  <2>1. async_' = async_ /\ alive' = alive
    BY <1>5 DEF Serve, Complete, workerVars
  <2> QED
    BY <1>5, <2>1, ServerMovesLast
<1>6. ASSUME NEW i \in Frames, CallbackLock(i) \/ CallbackSet(i) \/ CallbackNotify(i)
      PROVE  CallbackHasFrame'
  <2>1. async_' = async_ /\ alive' = alive
    BY <1>6 DEF CallbackLock, CallbackSet, CallbackNotify, workerVars
  <2> QED
    BY <1>6, <2>1, CallbackMovesLast DEF CallbackMoves
<1> QED
  BY <1>0a, <1>1, <1>2, <1>3, <1>4, <1>5, <1>6 DEF Next, Worker, Quiet

-----------------------------------------------------------------------------
(* The theorems.                                                           *)

LEMMA NextIInv == IInv /\ [Next]_vars => IInv'
  BY TypeParts, NextTypeParts, NextPosition, NextData, NextIteration, NextInferIsSync, NextWaiting,
     NextExclusion, NextFlag, NextFlagWasRead, NextWakeIsComing, NextPosted,
     NextCallbackHasFrame
  DEF IInv

LEMMA Invariance == Spec => []IInv
<1>1. Init => IInv
  BY InitIInv
<1>2. IInv /\ [Next]_vars => IInv'
  BY NextIInv
<1> QED
  BY <1>1, <1>2, PTL DEF Spec

(* Every variable stays in its domain, for chains of any length.           *)
THEOREM TypeCorrect == Spec => []TypeOK
<1>1. IInv => TypeOK
  BY DEF IInv
<1> QED
  BY <1>1, Invariance, PTL

(* The callback never locks or sets what is no longer on the worker's      *)
(* stack (graph_executor.cc 184-205).                                      *)
THEOREM CallbackIsSafe == Spec => []CallbackHasFrame
<1>1. IInv => CallbackHasFrame
  BY DEF IInv
<1> QED
  BY <1>1, Invariance, PTL

(* No window of the last block is posted while the server may still read   *)
(* or write it (graph_executor.cc 203-205 before 255-284).                 *)
THEOREM PostsAreSettled == Spec => []PostedIsSettled
<1>1. IInv => PostedIsSettled
  BY DEF IInv, PostedIsReady, FlagIsCallbacks, PostedIsSettled, InFlight
<1> QED
  BY <1>1, Invariance, PTL

(* The worker misses no callback: it sleeps for good only when none was to *)
(* come (graph_executor.cc 187-205, triton_model_impl.cc 362-376).         *)
THEOREM NoCallbackIsMissed == Spec => []DesertedOnlyIfUnsent
<1>1. IInv => DesertedOnlyIfUnsent
  <2> SUFFICES ASSUME IInv, wpc = "asleep", ~notified, req[iter][Last] = "done", Last \in async_
               PROVE  FALSE
    BY DEF DesertedOnlyIfUnsent
  <2>1. iter \in ready
    BY DEF IInv, FlagIsCallbacks, IterationHasFrame
  <2> QED
    BY <2>1 DEF IInv, WakeIsComing
<1> QED
  BY <1>1, Invariance, PTL

-----------------------------------------------------------------------------
(* Inferences overlap only where a block is not waited for.                *)

\* No request is made ahead of the worker.
NoneAhead ==
  \A j \in Frames, c \in Blocks : Earlier(iter, cur, j, c) => req[j][c] = "none"

\* A request that is not left to itself is the one the worker waits for.
Awaited ==
  \A i \in Frames, b \in Blocks :
    req[i][b] \in InFlight /\ (b \notin async_ \/ b = Last)
      => i = iter /\ b = cur /\ wpc \in {"infer", "lock", "check", "sleep", "asleep"}

\* The worker waits for the last block's callback only.
WaitsForLast == wpc \in {"lock", "check", "sleep", "asleep", "leave"} => cur = Last

\* The block about to be worked has made no request in this iteration.
NoneYet == wpc = "work" => req[iter][cur] = "none"

SequenceInv == IInv /\ NoneAhead /\ NoneYet /\ Awaited /\ WaitsForLast

LEMMA InitSequence == Init => SequenceInv
  BY InitIInv DEF Init, SequenceInv, NoneAhead, NoneYet, Awaited, WaitsForLast, InFlight

\* The server and the callbacks only take a request on that was made.
LEMMA OthersKeepSequence ==
  ASSUME SequenceInv, DataOK, NEW i \in Frames, NEW b \in Blocks,
         UNCHANGED <<async_, workerVars>>,
         NEW from, NEW to \in RequestStates, Request(i, b, {from}, to),
         from # "none", to \in InFlight => from \in InFlight
  PROVE  NoneAhead' /\ NoneYet' /\ Awaited'
<1>1. /\ req[i][b] = from /\ req'[i][b] = to
      /\ \A j \in Frames, c \in Blocks : j # i \/ c # b => req'[j][c] = req[j][c]
  BY RequestMoves DEF DataOK
<1>2. NoneAhead'
  BY <1>1 DEF SequenceInv, NoneAhead, Earlier, workerVars
<1>3. Awaited'
  BY <1>1 DEF SequenceInv, Awaited, workerVars, InFlight
<1>4. NoneYet'
  <2>1. wpc = "work" => iter \in Frames /\ cur \in Blocks
    BY TypeParts DEF SequenceInv, IInv, IterationHasFrame, PositionOK, Blocks
  <2> QED
    BY <1>1, <2>1 DEF SequenceInv, NoneYet, workerVars
<1> QED
  BY <1>2, <1>3, <1>4

LEMMA SubmitKeepsSequence ==
  SequenceInv /\ (AsyncInfer \/ Infer) => NoneAhead' /\ NoneYet' /\ Awaited'
<1> SUFFICES ASSUME SequenceInv, AsyncInfer \/ Infer PROVE NoneAhead' /\ NoneYet' /\ Awaited'
  OBVIOUS
<1>0. PositionOK /\ DataOK /\ IterationHasFrame
  BY TypeParts DEF SequenceInv, IInv
<1>1. iter \in Frames /\ cur \in Blocks /\ wpc = "work"
  BY <1>0 DEF AsyncInfer, Infer, IterationHasFrame, PositionOK, Blocks
<1>2. PICK to \in {"queued", "rejected"} : Request(iter, cur, {"none"}, to)
  BY DEF AsyncInfer, Infer
<1>3. /\ req'[iter][cur] = to
      /\ \A j \in Frames, c \in Blocks : j # iter \/ c # cur => req'[j][c] = req[j][c]
  BY <1>0, <1>1, <1>2, RequestMoves DEF DataOK, RequestStates
<1>4. UNCHANGED <<async_, iter>>
  BY DEF AsyncInfer, Infer
<1>5. cur' \in {cur, cur + 1} /\ cur \in Int /\ iter \in Int
  BY <1>0, ChainAssumption DEF AsyncInfer, Infer, AfterWork, PositionOK
<1>6. NoneAhead'
  BY <1>3, <1>4, <1>5, <1>1 DEF SequenceInv, NoneAhead, Earlier, Blocks, Frames
<1>6a. NoneYet'
  <2>1. wpc' = "work" => cur' = cur + 1 /\ cur' \in Blocks
    BY <1>0, ChainAssumption DEF AsyncInfer, Infer, AfterWork, PositionOK, Blocks
  <2> QED
    BY <1>1, <1>3, <1>4, <1>5, <2>1 DEF SequenceInv, NoneAhead, NoneYet, Earlier
<1>7. \A j \in Frames, c \in Blocks :
        req[j][c] \in InFlight => c \in async_ /\ c # Last
  BY <1>1 DEF SequenceInv, Awaited
<1>8. CASE AsyncInfer
  <2>1. cur \in async_ /\ (cur = Last => cur' = cur /\ wpc' = "lock")
    BY <1>8 DEF AsyncInfer, AfterWork
  <2> QED
    BY <1>3, <1>4, <1>6, <1>6a, <1>7, <2>1 DEF Awaited
<1>9. CASE Infer
  <2>1. /\ to = "queued" => cur' = cur /\ wpc' = "infer"
        /\ to = "rejected" => to \notin InFlight
    <3>1. CASE Request(iter, cur, {"none"}, "queued") /\ wpc' = "infer" /\ UNCHANGED cur
      BY <3>1 DEF InFlight
    <3>2. CASE Request(iter, cur, {"none"}, "rejected")
      <4>1. req'[iter][cur] = "rejected"
        BY <1>0, <1>1, <3>2, RequestMoves DEF DataOK, RequestStates
      <4> QED
        BY <1>3, <4>1 DEF InFlight
    <3> QED
      BY <1>9, <3>1, <3>2 DEF Infer
  <2> QED
    BY <1>3, <1>4, <1>6, <1>6a, <1>7, <2>1 DEF Awaited
<1> QED
  BY <1>8, <1>9

LEMMA NextWaitsForLast == WaitsForLast /\ [Next]_vars => WaitsForLast'
<1> SUFFICES ASSUME WaitsForLast, [Next]_vars PROVE WaitsForLast'
  OBVIOUS
<1> USE DEF WaitsForLast
<1>1. CASE BeginIteration
  BY <1>1 DEF BeginIteration
<1>2. CASE AsyncInfer \/ Infer \/ InferReturns \/ NothingSent
  BY <1>2 DEF AsyncInfer, Infer, InferReturns, NothingSent, AfterWork
<1>3. CASE Insufficient \/ PostNothing \/ Lock \/ Check \/ Sleep \/ Wake \/ SpuriousWake \/ Leave \/ Post
  BY <1>3 DEF Insufficient, PostNothing, Lock, Check, Sleep, Wake, SpuriousWake, Leave, Post
<1>4. ASSUME NEW i \in Frames, NEW b \in Blocks, Serve(i, b) \/ Complete(i, b)
      PROVE  WaitsForLast'
  BY <1>4 DEF Serve, Complete, workerVars
<1>5. ASSUME NEW i \in Frames, CallbackLock(i) \/ CallbackSet(i) \/ CallbackNotify(i)
      PROVE  WaitsForLast'
  BY <1>5 DEF CallbackLock, CallbackSet, CallbackNotify, workerVars
<1>6. CASE UNCHANGED vars
  BY <1>6 DEF vars, workerVars
<1> QED
  BY <1>1, <1>2, <1>3, <1>4, <1>5, <1>6 DEF Next, Worker

LEMMA NextSequence == SequenceInv /\ [Next]_vars => SequenceInv'
<1> SUFFICES ASSUME SequenceInv, [Next]_vars PROVE NoneAhead' /\ NoneYet' /\ Awaited'
  BY NextIInv, NextWaitsForLast DEF SequenceInv
<1>0. PositionOK /\ DataOK /\ IterationHasFrame
  BY TypeParts DEF SequenceInv, IInv
<1>00. /\ iter \in Int /\ cur \in Int
       /\ \A j \in Frames : j \in Int
       /\ \A c \in Blocks : c \in Int /\ c >= 1
  BY <1>0, ChainAssumption DEF PositionOK, Blocks, Frames
<1> USE DEF RequestStates, InFlight
<1>1. CASE AsyncInfer \/ Infer
  BY <1>1, SubmitKeepsSequence
<1>2. CASE InferReturns
  <2>1. iter \in Frames /\ cur \in Blocks /\ wpc = "infer"
    BY <1>0, <1>2 DEF InferReturns, IterationHasFrame, PositionOK, Blocks
  <2>2. /\ req[iter][cur] = "answered" /\ req'[iter][cur] = "done"
        /\ \A j \in Frames, c \in Blocks : j # iter \/ c # cur => req'[j][c] = req[j][c]
    BY <1>0, <1>2, <2>1, RequestMoves DEF InferReturns, DataOK
  <2>3. /\ UNCHANGED <<async_, iter>> /\ cur' \in {cur, cur + 1}
        /\ wpc' = "work" => cur' = cur + 1 /\ cur' \in Blocks
    BY <1>0, <1>2, ChainAssumption DEF InferReturns, AfterWork, PositionOK, Blocks
  <2>4. NoneAhead'
    BY <1>00, <2>2, <2>3 DEF SequenceInv, NoneAhead, Earlier
  <2>4a. NoneYet'
    BY <1>00, <2>1, <2>2, <2>3 DEF SequenceInv, NoneAhead, NoneYet, Earlier
  <2>5. \A j \in Frames, c \in Blocks :
          req'[j][c] \in InFlight => c \in async_ /\ c # Last
    BY <2>2 DEF SequenceInv, Awaited
  <2> QED
    BY <2>3, <2>4, <2>4a, <2>5 DEF Awaited
<1>3. CASE BeginIteration
  <2>1. iter' = iter + 1 /\ cur' = 1 /\ UNCHANGED <<async_, req>> /\ wpc = "idle"
    BY <1>3 DEF BeginIteration
  <2>2. NoneAhead'
    BY <1>00, <2>1 DEF SequenceInv, NoneAhead, Earlier
  <2>3. Awaited'
    BY <2>1 DEF SequenceInv, Awaited
  <2>4. NoneYet'
    <3>1. iter + 1 \in Frames /\ 1 \in Blocks
      BY <1>0, <1>3, ChainAssumption DEF BeginIteration, PositionOK, Frames, Blocks
    <3> QED
      BY <1>00, <2>1, <3>1 DEF SequenceInv, NoneAhead, NoneYet, Earlier
  <2> QED
    BY <2>2, <2>3, <2>4
<1>3a. CASE NothingSent
  <2>1. /\ UNCHANGED <<async_, iter, req>> /\ cur' \in {cur, cur + 1} /\ wpc = "work"
        /\ wpc' = "work" => cur' = cur + 1 /\ cur' \in Blocks
    BY <1>0, <1>3a, ChainAssumption DEF NothingSent, AfterWork, PositionOK, Blocks
  <2>2. iter \in Frames
    BY <1>0, <2>1 DEF IterationHasFrame
  <2>3. NoneAhead'
    BY <1>00, <2>1 DEF SequenceInv, NoneAhead, Earlier
  <2>4. NoneYet'
    BY <1>00, <2>1, <2>2 DEF SequenceInv, NoneAhead, NoneYet, Earlier
  <2>5. Awaited'
    BY <2>1 DEF SequenceInv, Awaited
  <2> QED
    BY <2>3, <2>4, <2>5
<1>4. CASE Leave \/ Check
  <2>1. UNCHANGED <<async_, iter, cur, req>> /\ wpc \in {"leave", "check"}
    BY <1>4 DEF Leave, Check
  <2>2. wpc' \in {"leave", "post"} => iter \in ready
    BY <1>4 DEF Leave, Check, SequenceInv, IInv, FlagWasRead
  <2>3. wpc' \in {"leave", "post"} => req[iter][Last] \in {"notifying", "done"}
    BY <2>2 DEF SequenceInv, IInv, FlagIsCallbacks
  <2>4. wpc' \in {"leave", "post", "sleep"}
    BY <1>4 DEF Leave, Check
  <2>5. cur = Last
    BY <1>4 DEF Leave, Check, SequenceInv, IInv, WaitsForLast
  <2> QED
    BY <2>1, <2>3, <2>4, <2>5 DEF SequenceInv, NoneAhead, NoneYet, Awaited
<1>5. CASE Insufficient \/ PostNothing \/ Lock \/ Sleep \/ Wake \/ SpuriousWake \/ Post
  BY <1>5 DEF Insufficient, PostNothing, Lock, Sleep, Wake, SpuriousWake, Post, SequenceInv,
              NoneAhead, NoneYet, Awaited
<1>6. ASSUME NEW i \in Frames, NEW b \in Blocks, Serve(i, b) PROVE NoneAhead' /\ NoneYet' /\ Awaited'
  <2>1. CASE Request(i, b, {"queued"}, "running")
    BY <1>0, <1>6, <2>1, OthersKeepSequence DEF Serve
  <2>2. CASE Request(i, b, {"running"}, "answered")
    BY <1>0, <1>6, <2>2, OthersKeepSequence DEF Serve
  <2> QED
    BY <1>6, <2>1, <2>2 DEF Serve
<1>7. ASSUME NEW i \in Frames, NEW b \in Blocks, Complete(i, b) PROVE NoneAhead' /\ NoneYet' /\ Awaited'
  <2>1. CASE b = Last
    BY <1>0, <1>7, <2>1, OthersKeepSequence DEF Complete
  <2>2. CASE b # Last
    BY <1>0, <1>7, <2>2, OthersKeepSequence DEF Complete
  <2> QED
    BY <2>1, <2>2
<1>8. ASSUME NEW i \in Frames, CallbackLock(i) PROVE NoneAhead' /\ NoneYet' /\ Awaited'
  BY <1>0, <1>8, OthersKeepSequence, LastIsBlock DEF CallbackLock
<1>9. ASSUME NEW i \in Frames, CallbackSet(i) PROVE NoneAhead' /\ NoneYet' /\ Awaited'
  BY <1>0, <1>9, OthersKeepSequence, LastIsBlock DEF CallbackSet
<1>10. ASSUME NEW i \in Frames, CallbackNotify(i) PROVE NoneAhead' /\ NoneYet' /\ Awaited'
  BY <1>0, <1>10, OthersKeepSequence, LastIsBlock DEF CallbackNotify
<1>11. CASE UNCHANGED vars
  BY <1>11 DEF vars, workerVars, SequenceInv, NoneAhead, NoneYet, Awaited
<1> QED
  BY <1>1, <1>2, <1>3, <1>3a, <1>4, <1>5, <1>6, <1>7, <1>8, <1>9, <1>10, <1>11 DEF Next, Worker

LEMMA SequenceInvariance == Spec => []SequenceInv
<1>1. Init => SequenceInv
  BY InitSequence
<1>2. SequenceInv /\ [Next]_vars => SequenceInv'
  BY NextSequence
<1> QED
  BY <1>1, <1>2, PTL DEF Spec

(* Two of the worker's requests are in flight together only when the       *)
(* earlier one's block is asynchronous and not the last                    *)
(* (graph_executor.cc 183-224, triton_model_impl.cc 362-370).              *)
THEOREM InferencesAreInSequence == Spec => []OverlapsOnlyAsync
<1>1. SequenceInv => OverlapsOnlyAsync
  <2> SUFFICES ASSUME SequenceInv, NEW i \in Frames, NEW j \in Frames,
                      NEW b \in Blocks, NEW c \in Blocks, Earlier(i, b, j, c),
                      req[i][b] \in InFlight, req[j][c] \in InFlight,
                      ~(b \in async_ /\ b # Last)
               PROVE  FALSE
    BY DEF OverlapsOnlyAsync
  <2>1. i = iter /\ b = cur
    BY DEF SequenceInv, Awaited
  <2>2. req[j][c] = "none"
    BY <2>1 DEF SequenceInv, NoneAhead
  <2> QED
    BY <2>2 DEF InFlight
<1> QED
  BY <1>1, SequenceInvariance, PTL

-----------------------------------------------------------------------------
(* The wait makes the last block's inference a synchronous call.           *)

LEMMA PhaseIs ==
  /\ ~Calling => Phase = "idle"
  /\ Calling /\ Waiting => Phase = "called"
  /\ Calling /\ ~Waiting => Phase = "answered"
  BY DEF Phase

LEMMA PhaseWillBe ==
  /\ ~Calling' => Phase' = "idle"
  /\ Calling' /\ Waiting' => Phase' = "called"
  /\ Calling' /\ ~Waiting' => Phase' = "answered"
  BY DEF Phase

LEMMA PostCounts ==
  ASSUME DataOK, IterationHasFrame, Post
  PROVE  Cardinality(posted') = Cardinality(posted) + 1
<1>1. IsFiniteSet(Frames)
  BY FS_Interval, ChainAssumption DEF Frames
<1>2. IsFiniteSet(posted)
  BY <1>1, FS_Subset DEF DataOK
<1>3. iter \notin posted /\ posted' = posted \union {iter}
  BY DEF Post, IterationHasFrame
<1> QED
  BY <1>2, <1>3, FS_AddElement

LEMMA StepRefines ==
  SequenceInv /\ [Next]_vars => [SyncCall!Next]_<<Phase, Cardinality(posted)>>
<1> SUFFICES ASSUME SequenceInv, [Next]_vars
             PROVE  [SyncCall!Next]_<<Phase, Cardinality(posted)>>
  OBVIOUS
<1> USE DEF SyncCall!Next, SyncCall!Call, SyncCall!Answer, SyncCall!Return
<1> DEFINE Goal == [SyncCall!Next]_<<Phase, Cardinality(posted)>>
<1>0. PositionOK /\ DataOK /\ IterationHasFrame
  BY TypeParts DEF SequenceInv, IInv
<1>1. CASE posted' = posted /\ (Calling' <=> Calling) /\ (Calling => (Waiting' <=> Waiting))
  BY <1>1, PhaseIs, PhaseWillBe
<1>2. CASE posted' = posted /\ ~Calling /\ ~Calling'
  BY <1>2, PhaseIs, PhaseWillBe
<1>3. CASE posted' = posted /\ ~Calling /\ Calling' /\ Waiting'
  BY <1>3, PhaseIs, PhaseWillBe
<1>4. CASE posted' = posted /\ Calling /\ Calling' /\ Waiting /\ ~Waiting'
  BY <1>4, PhaseIs, PhaseWillBe
<1>5. CASE AsyncInfer \/ Infer
  <2>1. posted' = posted /\ ~Calling /\ iter' = iter /\ iter \in Frames
    BY <1>0, <1>5 DEF AsyncInfer, Infer, Calling, IterationHasFrame
  <2>2. CASE cur = Last
    <3>1. Calling'
      BY <1>5, <2>2 DEF AsyncInfer, Infer, AfterWork, Calling
    <3>2. Waiting'
      <4>1. PICK to \in {"queued", "rejected"} : Request(iter, cur, {"none"}, to)
        BY <1>5 DEF AsyncInfer, Infer
      <4>2. req'[iter][Last] = to
        BY <1>0, <2>1, <2>2, <4>1, RequestMoves, LastIsBlock DEF DataOK, RequestStates
      <4> QED
        BY <2>1, <4>2 DEF Waiting, InFlight
    <3> QED
      BY <1>3, <2>1, <3>1, <3>2
  <2>3. CASE cur # Last
    <3>1. ~Calling'
      BY <1>5, <2>3 DEF AsyncInfer, Infer, AfterWork, Calling
    <3> QED
      BY <1>2, <2>1, <3>1
  <2> QED
    BY <2>2, <2>3
<1>5a. CASE NothingSent
  <2>1. posted' = posted /\ ~Calling /\ UNCHANGED <<iter, req>>
    BY <1>5a DEF NothingSent, Calling
  <2>2. CASE cur = Last
    <3>1. Calling'
      BY <1>5a, <2>2 DEF NothingSent, AfterWork, Calling
    <3>2. Waiting'
      BY <1>5a, <2>1, <2>2 DEF NothingSent, SequenceInv, NoneYet, Waiting
    <3> QED
      BY <1>3, <2>1, <3>1, <3>2
  <2>3. CASE cur # Last
    <3>1. ~Calling'
      BY <1>5a, <2>3 DEF NothingSent, AfterWork, Calling
    <3> QED
      BY <1>2, <2>1, <3>1
  <2> QED
    BY <2>2, <2>3
<1>6. CASE InferReturns
  <2>1. posted' = posted /\ iter' = iter /\ iter \in Frames
    BY <1>0, <1>6 DEF InferReturns, IterationHasFrame
  <2>2. CASE cur = Last
    <3>1. Calling /\ Calling'
      BY <1>6, <2>2 DEF InferReturns, AfterWork, Calling
    <3>2. req[iter][Last] = "answered" /\ req'[iter][Last] = "done"
      BY <1>0, <1>6, <2>1, <2>2, RequestMoves, LastIsBlock DEF InferReturns, DataOK, RequestStates
    <3>3. ~Waiting /\ ~Waiting'
      BY <2>1, <3>2 DEF Waiting, InFlight
    <3> QED
      BY <1>1, <2>1, <3>1, <3>3
  <2>3. CASE cur # Last
    <3>1. ~Calling /\ ~Calling'
      BY <1>6, <2>3 DEF InferReturns, AfterWork, Calling
    <3> QED
      BY <1>2, <2>1, <3>1
  <2> QED
    BY <2>2, <2>3
<1>7. CASE BeginIteration \/ Insufficient \/ PostNothing
  BY <1>2, <1>7 DEF BeginIteration, Insufficient, PostNothing, Calling
<1>8. CASE Lock \/ Check \/ Sleep \/ Wake \/ SpuriousWake \/ Leave
  <2>1. posted' = posted /\ iter' = iter /\ req' = req /\ Calling /\ Calling'
    BY <1>8 DEF Lock, Check, Sleep, Wake, SpuriousWake, Leave, Calling
  <2> QED
    BY <1>1, <2>1 DEF Waiting
<1>9. CASE Post
  <2>1. Calling /\ ~Calling'
    BY <1>9 DEF Post, Calling
  <2>2. ~Waiting
    BY <1>9 DEF Post, Waiting, InFlight, SequenceInv, IInv, FlagWasRead, FlagIsCallbacks
  <2> QED
    BY <1>0, <1>9, <2>1, <2>2, PostCounts, PhaseIs, PhaseWillBe
<1>10. ASSUME NEW i \in Frames, NEW b \in Blocks, Serve(i, b) \/ Complete(i, b) PROVE Goal
  <2>1. posted' = posted /\ iter' = iter /\ (Calling' <=> Calling)
    BY <1>10 DEF Serve, Complete, workerVars, Calling
  <2>2. CASE Calling
    <3>1. iter \in Frames
      BY <1>0, <2>2 DEF Calling, IterationHasFrame
    <3>2. (Waiting' <=> Waiting) \/ (Waiting /\ ~Waiting')
      BY <1>0, <1>10, <2>1, <3>1, ServerMovesLast DEF SameLast, Waiting, InFlight
    <3> QED
      BY <1>1, <1>4, <2>1, <2>2, <3>2
  <2>3. CASE ~Calling
    BY <1>2, <2>1, <2>3
  <2> QED
    BY <2>2, <2>3
<1>11. ASSUME NEW i \in Frames, CallbackLock(i) \/ CallbackSet(i) \/ CallbackNotify(i)
       PROVE  Goal
  <2>1. posted' = posted /\ iter' = iter /\ (Calling' <=> Calling)
    BY <1>11 DEF CallbackLock, CallbackSet, CallbackNotify, workerVars, Calling
  <2>2. Calling => (Waiting' <=> Waiting)
    BY <1>0, <1>11, <2>1, CallbackMovesLast
    DEF CallbackMoves, SameLast, Waiting, InFlight, Calling, IterationHasFrame
  <2> QED
    BY <1>1, <2>1, <2>2
<1>12. CASE UNCHANGED vars
  BY <1>1, <1>12 DEF vars, workerVars, Calling, Waiting
<1> QED
  BY <1>5, <1>5a, <1>6, <1>7, <1>8, <1>9, <1>10, <1>11, <1>12 DEF Next, Worker

(* Every behaviour of the worker, the callbacks and the server is one of   *)
(* calls that are answered and then return (graph_executor.cc 183-218).    *)
THEOREM WaitIsSynchronous == Spec => IsSynchronousCall
<1>1. Init => SyncCall!Init
  BY FS_EmptySet DEF Init, SyncCall!Init, Phase, Calling
<1>2. SequenceInv /\ [Next]_vars => [SyncCall!Next]_<<Phase, Cardinality(posted)>>
  BY StepRefines
<1> QED
  BY <1>1, <1>2, SequenceInvariance, PTL DEF Spec, IsSynchronousCall, SyncCall!Spec
=============================================================================
