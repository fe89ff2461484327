----------------------- MODULE GraphExecutor_proofs -----------------------
(***************************************************************************)
(* The executor is a sync block to its neighbours, for chains of any       *)
(* length, buffers of any size and any limits on what is read and written. *)
(***************************************************************************)
EXTENDS GraphExecutor, TLAPS

-----------------------------------------------------------------------------
(* Multiples.                                                              *)

LEMMA RoundDownIsLess ==
  ASSUME NEW n \in Nat, NEW m \in Nat \ {0}
  PROVE  round_down(n, m) \in 0..n
<1>1. n = m * (n \div m) + (n % m) /\ n \div m \in Nat /\ n % m \in 0..(m - 1)
  OBVIOUS
<1>2. (n \div m) * m = m * (n \div m) /\ m * (n \div m) \in Nat
  BY <1>1
<1> QED
  BY <1>1, <1>2 DEF round_down

LEMMA RoundedIsRound ==
  ASSUME NEW n \in Nat, NEW m \in Nat \ {0}
  PROVE  round_down(round_down(n, m), m) = round_down(n, m)
<1> DEFINE k == n \div m
<1>1. k \in Nat
  OBVIOUS
<1> HIDE DEF k
<1>2. (k * m) \div m = k
  BY <1>1
<1> QED
  BY <1>2 DEF round_down, k

LEMMA MaxOutputIsLess ==
  ASSUME NEW n \in Nat
  PROVE  max_output_buffer(n) \in 0..n
<1> DEFINE limit == IF MaxFill > 0 THEN Smaller(n, MaxFill) ELSE n
<1>1. limit \in Nat /\ limit <= n
  BY ExecutorAssumption DEF Smaller
<1> HIDE DEF limit
<1>2. round_down(limit, Multiple[Last]) \in 0..limit
  <2>1. Multiple[Last] \in Nat \ {0}
    BY ExecutorAssumption
  <2> QED
    BY <1>1, <2>1, RoundDownIsLess
<1>3. round_down(limit, Multiple[Last]) \in 0..n
  BY <1>1, <1>2
<1> QED
  BY <1>3 DEF max_output_buffer, limit

-----------------------------------------------------------------------------
(* Type correctness.                                                       *)

LEMMA Constants ==
  /\ Last \in Nat \ {0} /\ Ins \in Nat \ {0} /\ Outs \in Nat \ {0}
  /\ Cap \in Nat \ {0} /\ MaxItems \in Nat
  /\ \A b \in Blocks : Multiple[b] \in Nat \ {0}
  BY ExecutorAssumption DEF Blocks

LEMMA Ports == 1 \in In /\ 1 \in Out /\ 1 \in Blocks /\ Last \in Blocks
  BY ExecutorAssumption DEF In, Out, Blocks

\* A sync block processes no more than the first ports' items.
LEMMA ItemsAreGiven ==
  ASSUME TypeOK, NEW b \in Blocks
  PROVE  Items(b) \in 0..Cap /\ Items(b) <= n_in[1] /\ Items(b) <= n_out[1]
<1>1. n_in[1] \in 0..Cap /\ n_out[1] \in 0..Cap
  BY Ports DEF TypeOK
<1> DEFINE least == Smaller(n_in[1], n_out[1])
<1>2. least \in Nat /\ least <= n_in[1] /\ least <= n_out[1]
  BY <1>1 DEF Smaller
<1> HIDE DEF least
<1>3. round_down(least, Multiple[b]) \in 0..least
  BY <1>2, RoundDownIsLess, Constants
<1>4. Items(b) = round_down(least, Multiple[b])
  BY DEF Items, least
<1> QED
  BY <1>1, <1>2, <1>3, <1>4, ExecutorAssumption

\* The first block may leave what it processed in its input; for a block of
\* its own multiple that changes nothing.
LEMMA NarrowingKeepsItems ==
  ASSUME TypeOK, NEW b \in Blocks, Multiple[b] = Multiple[1],
         n_in' = n_in \/ n_in' = [n_in EXCEPT ![1] = Items(1)], UNCHANGED n_out
  PROVE  Items(b)' = Items(b)
<1>1. n_in[1] \in 0..Cap /\ n_out[1] \in 0..Cap /\ Cap \in Nat /\ Multiple[b] \in Nat \ {0}
  BY Ports, Constants DEF TypeOK
<1>2. CASE n_in' = n_in
  BY <1>2 DEF Items
<1>3. CASE n_in' = [n_in EXCEPT ![1] = Items(1)]
  <2> DEFINE least == Smaller(n_in[1], n_out[1])
  <2>1. least \in Nat
    BY <1>1 DEF Smaller
  <2>2. n_in'[1] = Items(1)
    BY <1>3, Ports DEF TypeOK
  <2>3. Items(1) = round_down(least, Multiple[b])
    BY DEF Items
  <2>4. Items(1) \in 0..Cap /\ Items(1) <= n_out[1]
    BY ItemsAreGiven, Ports
  <2>5. Smaller(Items(1), n_out[1]) = Items(1)
    BY <1>1, <2>4 DEF Smaller
  <2>6. Items(b)' = round_down(Smaller(n_in'[1], n_out[1]), Multiple[b])
    BY DEF Items
  <2> HIDE DEF least
  <2>7. round_down(round_down(least, Multiple[b]), Multiple[b]) = round_down(least, Multiple[b])
    BY <1>1, <2>1, RoundedIsRound
  <2>8. Items(b) = Items(1)
    BY DEF Items
  <2> QED
    BY <2>2, <2>3, <2>5, <2>6, <2>7, <2>8
<1> QED
  BY <1>2, <1>3

LEMMA TypeInit == Init => TypeOK
<1> SUFFICES ASSUME Init PROVE TypeOK
  OBVIOUS
<1>1. 0 \in 0..MaxItems /\ 0 \in 0..Cap /\ 1 \in Blocks
  BY ExecutorAssumption, Ports
<1>2. woken \in BOOLEAN /\ submitted \in BOOLEAN
  BY Zenon DEF Init
<1> QED
  BY <1>1, <1>2 DEF Init, TypeOK

LEMMA NextType == TypeOK /\ [Next]_vars => TypeOK'
<1> SUFFICES ASSUME TypeOK, [Next]_vars PROVE TypeOK'
  OBVIOUS
<1> USE DEF TypeOK, buffers, wio, result, notices
<1>1. CASE BeginIteration
  BY <1>1, Ports DEF BeginIteration, Enter
<1>2. CASE read_info
  <2>1. CASE UNCHANGED n_in
    BY <1>2, <2>1 DEF read_info
  <2>2. PICK n \in [In -> 0..Cap] : n_in' = n_in \/ n_in' = [p \in In |-> Limited(n[p])]
    BY <1>2 DEF read_info
  <2>3. \A p \in In : Limited(n[p]) \in 0..Cap
    BY <2>2, ExecutorAssumption DEF Limited, Smaller
  <2>4. n_in' \in [In -> 0..Cap]
    BY <2>2, <2>3
  <2> QED
    BY <1>2, <2>4 DEF read_info
<1>3. CASE write_info
  <2>1. PICK n \in [Out -> 0..Cap] :
          n_out' = n_out \/ n_out' = [q \in Out |-> max_output_buffer(n[q])]
    BY <1>3 DEF write_info
  <2>2. \A q \in Out : max_output_buffer(n[q]) \in 0..Cap
    <3> SUFFICES ASSUME NEW q \in Out PROVE max_output_buffer(n[q]) \in 0..Cap
      OBVIOUS
    <3>1. n[q] \in 0..Cap /\ n[q] \in Nat
      BY <2>1, ExecutorAssumption
    <3>2. max_output_buffer(n[q]) \in 0..n[q]
      BY <3>1, MaxOutputIsLess
    <3> QED
      BY <3>1, <3>2, ExecutorAssumption
  <2>3. n_out' \in [Out -> 0..Cap]
    BY <2>1, <2>2
  <2> QED
    BY <1>3, <2>3 DEF write_info
<1>4. ASSUME NEW ret, Work(ret) PROVE TypeOK'
  <2>1. Items(cur) \in 0..Cap /\ Items(1) \in 0..Cap
    BY ItemsAreGiven, Ports
  <2>2. cur' \in Blocks /\ n_in' \in [In -> 0..Cap] /\ submitted' \in BOOLEAN
        /\ wpc' \in {"work", "wait"}
    <3>1. CASE cur = Last
      BY <1>4, <3>1 DEF Work, WorkLast
    <3>2. CASE cur # Last
      <4>1. cur' = cur + 1 /\ UNCHANGED <<wpc, submitted>>
            /\ (n_in' = n_in \/ n_in' = [n_in EXCEPT ![1] = Items(1)])
        BY <1>4, <3>2 DEF Work, WorkInner
      <4>2. cur' \in Blocks
        BY <3>2, <4>1, ExecutorAssumption DEF Blocks
      <4>3. n_in' \in [In -> 0..Cap]
        BY <2>1, <4>1
      <4> QED
        BY <1>4, <4>1, <4>2, <4>3 DEF Work
    <3> QED
      BY <3>1, <3>2
  <2> QED
    BY <1>4, <2>1, <2>2 DEF Work
<1>5. CASE WorkInsufficient
  <2>1. status' \in {"BLKD_IN", "BLKD_OUT"} /\ unclog' \in {"in", "out"} /\ wpc' = "post_read"
    BY <1>5 DEF WorkInsufficient
  <2>2. n_consumed' \in [Blocks -> 0..Cap] /\ n_produced' \in [Blocks -> 0..Cap]
    BY <1>5, ExecutorAssumption DEF WorkInsufficient
  <2> QED
    BY <1>5, <2>1, <2>2 DEF WorkInsufficient
<1>6. CASE post_read
  <2>0. \A b \in Blocks : n_consumed[b] \in Nat
    BY Constants
  <2>1. \A p \in In : in_read[p] + n_consumed[1] \in Nat
    BY <2>0, Ports
  <2>2. ASSUME NEW b \in 1..(Last - 1) PROVE lag[b] - n_consumed[b + 1] \in Int
    <3>1. b + 1 \in Blocks
      BY Constants DEF Blocks
    <3>2. lag[b] \in Int
      OBVIOUS
    <3>3. n_consumed[b + 1] \in Int
      BY <2>0, <3>1
    <3> QED
      BY <3>2, <3>3
  <2>4. in_read' \in [In -> Nat]
    BY <1>6, <2>1 DEF post_read
  <2>5. DOMAIN lag = 1..(Last - 1)
    OBVIOUS
  <2>6. lag' \in [1..(Last - 1) -> Int]
    BY <1>6, <2>2, <2>5 DEF post_read
  <2> QED
    BY <1>6, <2>4, <2>6 DEF post_read
<1>7. CASE post_write
  <2>0. n_produced[Last] \in Nat
    BY Constants, Ports
  <2>1. \A q \in Out : out_written[q] + n_produced[Last] \in Nat
    BY <2>0
  <2>2. ASSUME NEW b \in 1..(Last - 1) PROVE lag[b] + n_produced[Last] \in Int
    <3>1. lag[b] \in Int
      OBVIOUS
    <3> QED
      BY <2>0, <3>1
  <2>3. out_written' \in [Out -> Nat] /\ lag' \in [1..(Last - 1) -> Int]
    BY <1>7, <2>1, <2>2 DEF post_write
  <2> QED
    BY <1>7, <2>3 DEF post_write
<1>8. CASE WaitForCallback \/ NotifyOutput \/ NotifyInput \/ Unclog
  BY <1>8 DEF WaitForCallback, NotifyOutput, NotifyInput, Unclog
<1>9. ASSUME NEW p \in In, Upstream(p) PROVE TypeOK'
  <2>1. CASE UNCHANGED in_written
    BY <1>9, <2>1 DEF Upstream
  <2>2. ASSUME NEW k \in 1..Smaller(Cap - Available(p), MaxItems - in_written[p]),
               in_written' = [in_written EXCEPT ![p] = @ + k],
               woken' = TRUE, UNCHANGED up_awake
        PROVE  TypeOK'
    <3>1. in_written[p] \in 0..MaxItems /\ in_read[p] \in Nat
      OBVIOUS
    <3>2. in_written[p] + k \in 0..MaxItems
      BY <3>1, Constants DEF Smaller, Available
    <3> QED
      BY <1>9, <2>2, <3>2 DEF Upstream
  <2> QED
    BY <1>9, <2>1, <2>2 DEF Upstream
<1>10. ASSUME NEW q \in Out, Downstream(q) PROVE TypeOK'
  <2>1. \A k \in 1..(out_written[q] - out_read[q]) : out_read[q] + k \in Nat
    OBVIOUS
  <2> QED
    BY <1>10, <2>1 DEF Downstream
<1>11. CASE Asked \/ UNCHANGED vars
  BY <1>11 DEF Asked, vars
<1> QED
  BY <1>1, <1>2, <1>3, <1>4, <1>5, <1>6, <1>7, <1>8, <1>9, <1>10, <1>11
  DEF Next, Worker, Iterate

(* Every variable stays in its domain, for any chain and any limits.       *)
THEOREM TypeCorrect == Spec => []TypeOK
  BY TypeInit, NextType, PTL DEF Spec

-----------------------------------------------------------------------------
(* The inductive invariant.                                                *)

\* The first input has been read and the first output not yet written.
Between == wpc \in {"notify_output", "post_write"}

\* What the inputs and the first output were found to hold is still there.
GivenHolds ==
  /\ wpc \in {"outputs", "work", "wait", "post_read"} =>
       \A p \in In : n_in[p] <= Available(p)
  /\ wpc \in {"work", "wait", "post_read"} \/ Between => n_out[1] <= Space(1)

\* Every block that has worked processed whole multiples of what is given.
WorkHolds ==
  /\ wpc \in {"inputs", "outputs"} => cur = 1
  /\ wpc = "work" =>
       \A b \in 1..(cur - 1) : n_consumed[b] = Items(b) /\ n_produced[b] = Items(b)
  /\ wpc \in {"wait", "post_read"} \/ Between =>
       \A b \in Blocks : n_consumed[b] = Items(b) /\ n_produced[b] = Items(b)

\* The inner buffers whose reader has the last block's multiple run short only
\* between the reads and the writes.
ChainHolds ==
  \A b \in 1..(Last - 1) : Multiple[b + 1] = Multiple[Last] =>
    lag[b] = IF Between THEN 0 - Items(Last) ELSE 0

StreamHolds ==
  /\ Multiple[1] = Multiple[Last] =>
       in_read[1] = out_written[1] + (IF Between THEN Items(Last) ELSE 0)
  /\ in_read[1] <= in_written[1]
  /\ out_read[1] <= out_written[1] /\ out_written[1] - out_read[1] <= Cap

Numbers ==
  /\ in_written[1] \in Nat /\ in_read[1] \in Nat
  /\ out_written[1] \in Nat /\ out_read[1] \in Nat
  /\ n_in[1] \in Nat /\ n_out[1] \in Nat
  /\ \A b \in Blocks : Items(b) \in Nat /\ Items(b) <= n_in[1] /\ Items(b) <= n_out[1]

IInv == TypeOK /\ GivenHolds /\ WorkHolds /\ ChainHolds /\ StreamHolds

LEMMA TypeNumbers == TypeOK => Numbers
<1> SUFFICES ASSUME TypeOK PROVE Numbers
  OBVIOUS
<1>1. in_written[1] \in Nat /\ in_read[1] \in Nat
  BY Ports DEF TypeOK
<1>2. out_written[1] \in Nat /\ out_read[1] \in Nat
  BY Ports DEF TypeOK
<1>3. n_in[1] \in Nat /\ n_out[1] \in Nat
  BY Ports DEF TypeOK
<1>4. \A b \in Blocks : Items(b) \in Nat /\ Items(b) <= n_in[1] /\ Items(b) <= n_out[1]
  BY ItemsAreGiven
<1> QED
  BY <1>1, <1>2, <1>3, <1>4 DEF Numbers

LEMMA InitIInv == Init => IInv
<1> SUFFICES ASSUME Init PROVE IInv
  OBVIOUS
<1>1. TypeOK
  BY TypeInit
<1>2. StreamHolds
  <2>1. in_written[1] = 0 /\ in_read[1] = 0 /\ out_written[1] = 0 /\ out_read[1] = 0
    BY Ports DEF Init
  <2>2. wpc = "idle"
    BY DEF Init
  <2> QED
    BY <2>1, <2>2, Constants DEF StreamHolds, Between
<1>3. ChainHolds
  BY DEF Init, ChainHolds, Between
<1>4. GivenHolds /\ WorkHolds
  BY DEF Init, GivenHolds, WorkHolds, Between
<1> QED
  BY <1>1, <1>2, <1>3, <1>4 DEF IInv

-----------------------------------------------------------------------------
(* The neighbours.                                                         *)

LEMMA UpstreamGrows ==
  ASSUME TypeOK, NEW p \in In, Upstream(p), NEW o \in In
  PROVE  in_written'[o] \in Nat /\ (in_written'[o] = in_written[o] \/ in_written'[o] > in_written[o])
<1>1. in_written[o] \in Nat
  BY DEF TypeOK
<1>2. CASE UNCHANGED in_written
  BY <1>1, <1>2
<1>3. ASSUME NEW k \in 1..Smaller(Cap - Available(p), MaxItems - in_written[p]),
             in_written' = [in_written EXCEPT ![p] = @ + k]
      PROVE  in_written'[o] \in Nat /\ (in_written'[o] = in_written[o] \/ in_written'[o] > in_written[o])
  <2>1. k \in Nat \ {0}
    <3>1. in_written[p] \in Nat /\ in_read[p] \in Nat
      BY DEF TypeOK
    <3> QED
      BY <3>1, Constants DEF Smaller, Available
  <2>2. in_written'[o] = IF p = o THEN in_written[o] + k ELSE in_written[o]
    BY <1>3 DEF TypeOK
  <2> QED
    BY <1>1, <2>1, <2>2
<1> QED
  BY <1>2, <1>3 DEF Upstream

LEMMA DownstreamGrows ==
  ASSUME TypeOK, NEW q \in Out, Downstream(q)
  PROVE  /\ out_read'[1] \in Nat
         /\ out_read'[1] = out_read[1] \/ out_read'[1] \in (out_read[1] + 1)..out_written[1]
<1>1. out_written[1] \in Nat /\ out_read[1] \in Nat
  BY Ports DEF TypeOK
<1>2. CASE UNCHANGED out_read
  BY <1>1, <1>2
<1>3. ASSUME NEW k \in 1..(out_written[q] - out_read[q]),
             out_read' = [out_read EXCEPT ![q] = @ + k]
      PROVE  /\ out_read'[1] \in Nat
             /\ out_read'[1] = out_read[1] \/ out_read'[1] \in (out_read[1] + 1)..out_written[1]
  <2>1. out_read'[1] = IF q = 1 THEN out_read[1] + k ELSE out_read[1]
    BY <1>3, Ports DEF TypeOK
  <2>2. CASE q = 1
    BY <1>1, <1>3, <2>1, <2>2
  <2>3. CASE q # 1
    BY <1>1, <2>1, <2>3
  <2> QED
    BY <2>2, <2>3
<1> QED
  BY <1>2, <1>3 DEF Downstream

-----------------------------------------------------------------------------
(* What was found, and the work.                                           *)

LEMMA NextGivenHolds == IInv /\ [Next]_vars => GivenHolds'
<1> SUFFICES ASSUME IInv, [Next]_vars PROVE GivenHolds'
  OBVIOUS
<1>0. Numbers /\ Cap \in Nat
      /\ \A p \in In : in_written[p] \in Nat /\ in_read[p] \in Nat /\ n_in[p] \in Nat
  BY TypeNumbers, Constants DEF IInv, TypeOK
<1> USE DEF GivenHolds, Between, Available, Space, buffers, wio, result, notices
<1>1. CASE read_info
  <2>1. PICK n \in [In -> 0..Cap] :
          /\ \A p \in In : n[p] \in Window(Available(p))
          /\ wpc' = "idle" \/ n_in' = [p \in In |-> Limited(n[p])]
    BY <1>1 DEF read_info
  <2>2. wpc' \in {"idle", "outputs"} /\ UNCHANGED <<in_written, in_read>>
    BY <1>1 DEF read_info
  <2>3. ASSUME NEW p \in In, wpc' = "outputs" PROVE n_in'[p] <= in_written[p] - in_read[p]
    <3>1. n[p] \in Nat /\ n[p] <= in_written[p] - in_read[p]
      BY <2>1, <1>0 DEF Window
    <3>2. Limited(n[p]) \in Nat /\ Limited(n[p]) <= n[p]
      BY <3>1, ExecutorAssumption DEF Limited, Smaller
    <3>3. n_in'[p] = Limited(n[p])
      BY <2>1, <2>3
    <3> QED
      BY <1>0, <3>1, <3>2, <3>3
  <2> QED
    BY <2>2, <2>3
<1>2. CASE write_info
  <2>1. PICK n \in [Out -> 0..Cap] :
          /\ \A q \in Out : n[q] \in Window(Space(q))
          /\ wpc' = "unclog" \/ n_out' = [q \in Out |-> max_output_buffer(n[q])]
    BY <1>2 DEF write_info
  <2>2. /\ wpc = "outputs" /\ wpc' \in {"unclog", "work"}
        /\ UNCHANGED <<in_written, in_read, out_written, out_read, n_in>>
    BY <1>2 DEF write_info
  <2>3. n[1] \in Nat /\ n[1] <= Space(1)
    BY <2>1, <1>0, Ports DEF Window, Numbers
  <2>4. max_output_buffer(n[1]) \in 0..n[1]
    BY <2>3, MaxOutputIsLess
  <2>5. CASE wpc' = "work"
    <3>1. n_out'[1] = max_output_buffer(n[1])
      BY <2>1, <2>5, Ports
    <3>2. n_out'[1] <= Space(1)
      BY <2>3, <2>4, <3>1, <1>0 DEF Numbers
    <3>3. \A p \in In : n_in[p] <= Available(p)
      BY <2>2 DEF IInv
    <3> QED
      BY <2>2, <2>5, <3>2, <3>3
  <2> QED
    BY <2>2, <2>5
<1>3. CASE BeginIteration \/ NotifyInput \/ Unclog \/ post_write
  BY <1>3 DEF BeginIteration, Enter, NotifyInput, Unclog, post_write
<1>4. ASSUME NEW ret, Work(ret) PROVE GivenHolds'
  <2>1. /\ wpc = "work" /\ UNCHANGED <<in_written, in_read, out_written, out_read, n_out>>
        /\ n_in' = n_in \/ n_in' = [n_in EXCEPT ![1] = Items(1)]
        /\ wpc' \in {"work", "wait"}
    BY <1>4 DEF Work, WorkInner, WorkLast
  <2>2. ASSUME NEW p \in In PROVE n_in'[p] \in Nat /\ n_in'[p] <= n_in[p]
    <3>1. CASE n_in' = n_in \/ p # 1
      BY <1>0, <2>1, <3>1 DEF IInv, TypeOK
    <3>2. CASE n_in' = [n_in EXCEPT ![1] = Items(1)] /\ p = 1
      <4>1. n_in'[1] = Items(1)
        BY <3>2, Ports DEF IInv, TypeOK
      <4> QED
        BY <1>0, <3>2, <4>1, Ports DEF Numbers
    <3> QED
      BY <2>1, <3>1, <3>2
  <2>3. \A p \in In : n_in[p] <= in_written[p] - in_read[p]
    BY <2>1 DEF IInv
  <2>4. \A p \in In : n_in'[p] <= in_written[p] - in_read[p]
    BY <1>0, <2>2, <2>3
  <2> QED
    BY <2>1, <2>4 DEF IInv
<1>5. CASE WorkInsufficient \/ WaitForCallback \/ post_read \/ NotifyOutput
  BY <1>5 DEF WorkInsufficient, WaitForCallback, post_read, NotifyOutput, IInv
<1>6. ASSUME NEW p \in In, Upstream(p) PROVE GivenHolds'
  <2>1. UNCHANGED <<in_read, out_written, out_read, n_in, n_out, wpc>>
    BY <1>6 DEF Upstream
  <2>2. \A o \in In : in_written'[o] \in Nat /\ in_written'[o] >= in_written[o]
    BY <1>6, <1>0, UpstreamGrows DEF IInv
  <2> QED
    BY <2>1, <2>2, <1>0 DEF IInv
<1>7. ASSUME NEW q \in Out, Downstream(q) PROVE GivenHolds'
  <2>1. UNCHANGED <<in_written, in_read, out_written, n_in, n_out, wpc>>
    BY <1>7 DEF Downstream
  <2>2. /\ out_read'[1] \in Nat /\ out_read'[1] >= out_read[1]
    BY <1>7, <1>0, DownstreamGrows DEF IInv, Numbers
  <2> QED
    BY <2>1, <2>2, <1>0 DEF IInv, Numbers
<1>8. CASE Asked \/ UNCHANGED vars
  BY <1>8 DEF Asked, vars, IInv
<1> QED
  BY <1>1, <1>2, <1>3, <1>4, <1>5, <1>6, <1>7, <1>8 DEF Next, Worker, Iterate

LEMMA NextWorkHolds == IInv /\ [Next]_vars => WorkHolds'
<1> SUFFICES ASSUME IInv, [Next]_vars PROVE WorkHolds'
  OBVIOUS
<1> USE DEF WorkHolds, Between, buffers, wio, result, notices
<1>1. CASE BeginIteration \/ read_info \/ NotifyInput \/ Unclog \/ post_write
  BY <1>1 DEF BeginIteration, Enter, read_info, NotifyInput, Unclog, post_write, IInv
<1>2. CASE write_info
  <2>1. wpc' \in {"unclog", "work"} /\ cur' = cur /\ cur = 1
    BY <1>2 DEF write_info, IInv
  <2> QED
    BY <2>1
<1>3. ASSUME NEW ret, Work(ret) PROVE WorkHolds'
  <2>1. /\ wpc = "work" /\ UNCHANGED n_out /\ cur \in Blocks
        /\ \A b \in 1..(cur - 1) : n_consumed[b] = Items(b) /\ n_produced[b] = Items(b)
        /\ n_consumed' = [n_consumed EXCEPT ![cur] = Items(cur)]
        /\ n_produced' = [n_produced EXCEPT ![cur] = Items(cur)]
        /\ n_in' = n_in \/ (cur = 1 /\ n_in' = [n_in EXCEPT ![1] = Items(1)])
    BY <1>3 DEF Work, WorkInner, WorkLast, IInv, TypeOK
  <2>2. ASSUME NEW b \in 1..cur PROVE Items(b)' = Items(b)
    <3>1. CASE n_in' = n_in
      BY <2>1, <3>1 DEF Items
    <3>2. CASE cur = 1 /\ n_in' = [n_in EXCEPT ![1] = Items(1)]
      BY <2>1, <3>2, NarrowingKeepsItems DEF IInv
    <3> QED
      BY <2>1, <3>1, <3>2
  <2>3. \A b \in 1..cur : n_consumed'[b] = Items(b) /\ n_produced'[b] = Items(b)
    <3> SUFFICES ASSUME NEW b \in 1..cur
                 PROVE  n_consumed'[b] = Items(b) /\ n_produced'[b] = Items(b)
      OBVIOUS
    <3>1. b \in Blocks
      BY <2>1, Constants DEF Blocks
    <3>2. b = cur \/ b \in 1..(cur - 1)
      BY <2>1 DEF Blocks
    <3> QED
      BY <2>1, <3>1, <3>2 DEF IInv, TypeOK
  <2>4. CASE cur = Last
    BY <1>3, <2>2, <2>3, <2>4 DEF Work, WorkLast, Blocks
  <2>5. CASE cur # Last
    <3>1. wpc' = "work" /\ cur' - 1 = cur
      BY <1>3, <2>1, <2>5 DEF Work, WorkInner, Blocks
    <3> QED
      BY <2>2, <2>3, <3>1
  <2> QED
    BY <2>4, <2>5
<1>4. CASE WorkInsufficient
  <2>1. /\ wpc = "work" /\ wpc' = "post_read" /\ UNCHANGED <<n_in, n_out>>
        /\ cur = Last /\ Items(Last) = 0
        /\ \A b \in 1..(Last - 1) : n_consumed[b] = Items(b) /\ n_produced[b] = Items(b)
        /\ n_consumed' = [n_consumed EXCEPT ![Last] = 0]
        /\ n_produced' = [n_produced EXCEPT ![Last] = 0]
    BY <1>4 DEF WorkInsufficient, IInv
  <2>2. \A b \in Blocks : Items(b)' = Items(b)
    BY <2>1 DEF Items
  <2>3. ASSUME NEW b \in Blocks PROVE n_consumed'[b] = Items(b) /\ n_produced'[b] = Items(b)
    <3>1. b = Last \/ b \in 1..(Last - 1)
      BY Constants DEF Blocks
    <3> QED
      BY <2>1, <3>1 DEF IInv, TypeOK
  <2> QED
    BY <2>1, <2>2, <2>3
<1>5. CASE WaitForCallback \/ post_read \/ NotifyOutput
  BY <1>5 DEF WaitForCallback, post_read, NotifyOutput, IInv, Items
<1>6. ASSUME NEW p, Upstream(p) \/ Downstream(p) PROVE WorkHolds'
  BY <1>6 DEF Upstream, Downstream, IInv, Items
<1>7. CASE Asked \/ UNCHANGED vars
  BY <1>7 DEF Asked, vars, IInv, Items
<1> QED
  BY <1>1, <1>2, <1>3, <1>4, <1>5, <1>6, <1>7 DEF Next, Worker, Iterate

-----------------------------------------------------------------------------
(* The buffers inside the chain, and the first ports.                      *)

LEMMA NextChainHolds == IInv /\ [Next]_vars => ChainHolds'
<1> SUFFICES ASSUME IInv, [Next]_vars, NEW b \in 1..(Last - 1), Multiple[b + 1] = Multiple[Last]
             PROVE  lag'[b] = IF Between' THEN 0 - Items(Last)' ELSE 0
  BY DEF ChainHolds
<1>0. Numbers /\ b + 1 \in Blocks /\ Last \in Blocks /\ DOMAIN lag = 1..(Last - 1)
      /\ lag[b] = IF Between THEN 0 - Items(Last) ELSE 0
  <2>1. b + 1 \in Blocks /\ Last \in Blocks
    BY Constants DEF Blocks
  <2>2. DOMAIN lag = 1..(Last - 1)
    BY DEF IInv, TypeOK
  <2>3. lag[b] = IF Between THEN 0 - Items(Last) ELSE 0
    BY DEF IInv, ChainHolds
  <2> QED
    BY <2>1, <2>2, <2>3, TypeNumbers DEF IInv
<1> USE DEF Between, buffers, wio, result, notices
<1>1. CASE BeginIteration \/ read_info \/ write_info \/ NotifyInput \/ Unclog
  BY <1>0, <1>1 DEF BeginIteration, Enter, read_info, write_info, NotifyInput, Unclog
<1>2. CASE (\E ret \in {"OK", "DONE"} : Work(ret)) \/ WorkInsufficient \/ WaitForCallback
  BY <1>0, <1>2 DEF Work, WorkInner, WorkLast, WorkInsufficient, WaitForCallback
<1>3. CASE post_read
  <2>1. /\ lag'[b] = lag[b] - n_consumed[b + 1] /\ wpc = "post_read" /\ wpc' = "notify_output"
        /\ UNCHANGED <<n_in, n_out>>
    BY <1>0, <1>3 DEF post_read
  <2>2. n_consumed[b + 1] = Items(Last)
    BY <1>0, <2>1 DEF IInv, WorkHolds, Items
  <2> QED
    BY <1>0, <2>1, <2>2 DEF Items, Numbers
<1>4. CASE NotifyOutput
  BY <1>0, <1>4 DEF NotifyOutput, Items
<1>5. CASE post_write
  <2>1. /\ lag'[b] = lag[b] + n_produced[Last] /\ wpc = "post_write" /\ wpc' = "notify_input"
    BY <1>0, <1>5 DEF post_write
  <2>2. n_produced[Last] = Items(Last)
    BY <2>1, Ports DEF IInv, WorkHolds
  <2> QED
    BY <1>0, <2>1, <2>2 DEF Numbers
<1>6. ASSUME NEW p, Upstream(p) \/ Downstream(p)
      PROVE  lag'[b] = IF Between' THEN 0 - Items(Last)' ELSE 0
  BY <1>0, <1>6 DEF Upstream, Downstream, Items
<1>7. CASE Asked \/ UNCHANGED vars
  BY <1>0, <1>7 DEF Asked, vars, Items
<1> QED
  BY <1>1, <1>2, <1>3, <1>4, <1>5, <1>6, <1>7 DEF Next, Worker, Iterate

\* A step of the executor that posts nothing.
Quiet == UNCHANGED <<in_written, in_read, out_written, out_read>>

LEMMA NextQuiet ==
  [Next]_vars =>
    \/ Quiet /\ (Between' <=> Between) /\ (Between => UNCHANGED <<n_in, n_out>>)
    \/ post_read \/ post_write
    \/ (\E p \in In : Upstream(p)) \/ (\E q \in Out : Downstream(q))
  BY DEF Next, Worker, Asked, Iterate, BeginIteration, Enter, read_info, write_info, Work,
         WorkInner, WorkLast, WorkInsufficient, WaitForCallback, NotifyOutput, NotifyInput, Unclog, vars, buffers,
         wio, Quiet, Between

\* The totals of the first ports after post_read and post_write.
LEMMA ReadPosts ==
  ASSUME IInv, post_read
  PROVE  /\ in_read'[1] = in_read[1] + Items(1) /\ UNCHANGED <<in_written, out_written, out_read>>
         /\ ~Between /\ Between' /\ \A b \in Blocks : Items(b)' = Items(b)
         /\ Items(1) <= Available(1) /\ Items(1) <= Space(1)
<1>1. n_consumed[1] = Items(1)
  BY Ports DEF post_read, IInv, WorkHolds
<1>2. in_read'[1] = in_read[1] + Items(1)
  BY <1>1, Ports DEF post_read
<1>3. n_in[1] <= Available(1) /\ n_out[1] <= Space(1)
  BY Ports DEF post_read, IInv, GivenHolds
<1>4. Items(1) <= Available(1) /\ Items(1) <= Space(1)
  BY <1>3, TypeNumbers, Constants, Ports DEF IInv, Numbers, Available, Space
<1> QED
  BY <1>2, <1>4 DEF post_read, Between, wio, Items

LEMMA WritePosts ==
  ASSUME IInv, post_write
  PROVE  /\ out_written'[1] = out_written[1] + Items(Last)
         /\ UNCHANGED <<in_written, in_read, out_read>>
         /\ Between /\ ~Between' /\ Items(Last) <= Space(1)
<1>1. n_produced[Last] = Items(Last) /\ n_out[1] <= Space(1)
  BY Ports DEF post_write, IInv, WorkHolds, GivenHolds, Between
<1>2. out_written'[1] = out_written[1] + Items(Last)
  BY <1>1, Ports DEF post_write
<1>3. Items(Last) <= Space(1)
  BY <1>1, TypeNumbers, Constants, Ports DEF IInv, Numbers, Space
<1> QED
  BY <1>2, <1>3 DEF post_write, Between

\* Blocks of one multiple process the same number.
LEMMA SameMultipleSameItems ==
  ASSUME NEW a, NEW b, Multiple[a] = Multiple[b]
  PROVE  Items(a) = Items(b)
  BY DEF Items

LEMMA NextStreamHolds == IInv /\ [Next]_vars => StreamHolds'
<1> SUFFICES ASSUME IInv, [Next]_vars PROVE StreamHolds'
  OBVIOUS
<1>0. Numbers /\ StreamHolds /\ Cap \in Nat /\ 1 \in Blocks /\ Last \in Blocks
      /\ (Multiple[1] = Multiple[Last] => Items(1) = Items(Last))
  BY TypeNumbers, Constants, Ports, SameMultipleSameItems DEF IInv
<1>1. CASE Quiet /\ (Between' <=> Between) /\ (Between => UNCHANGED <<n_in, n_out>>)
  BY <1>0, <1>1 DEF Quiet, StreamHolds, Items
<1>2. CASE post_read
  <2>1. /\ in_read'[1] = in_read[1] + Items(1) /\ UNCHANGED <<in_written, out_written, out_read>>
        /\ ~Between /\ Between' /\ Items(Last)' = Items(Last) /\ Items(1) <= Available(1)
    BY <1>0, <1>2, ReadPosts
  <2> QED
    BY <1>0, <2>1 DEF StreamHolds, Numbers, Available
<1>3. CASE post_write
  BY <1>0, <1>3, WritePosts DEF StreamHolds, Numbers, Space
<1>4. ASSUME NEW p \in In, Upstream(p) PROVE StreamHolds'
  <2>1. UNCHANGED <<in_read, out_written, out_read, n_in, n_out, wpc>>
    BY <1>4 DEF Upstream, wio
  <2>2. in_written'[1] \in Nat /\ in_written'[1] >= in_written[1]
    BY <1>4, <1>0, UpstreamGrows, Ports DEF IInv, Numbers
  <2>3. Items(Last)' = Items(Last) /\ Between' = Between
    BY <2>1 DEF Items, Between
  <2> QED
    BY <1>0, <2>1, <2>2, <2>3 DEF StreamHolds, Numbers
<1>5. ASSUME NEW q \in Out, Downstream(q) PROVE StreamHolds'
  <2>1. UNCHANGED <<in_written, in_read, out_written, n_in, n_out, wpc>>
    BY <1>5 DEF Downstream, wio
  <2>2. out_read'[1] \in Nat /\ out_read'[1] >= out_read[1] /\ out_read'[1] <= out_written[1]
    BY <1>5, <1>0, DownstreamGrows DEF IInv, Numbers, StreamHolds
  <2>3. Items(Last)' = Items(Last) /\ Between' = Between
    BY <2>1 DEF Items, Between
  <2> QED
    BY <1>0, <2>1, <2>2, <2>3 DEF StreamHolds, Numbers
<1> QED
  BY <1>1, <1>2, <1>3, <1>4, <1>5, NextQuiet

LEMMA Invariance == Spec => []IInv
<1>1. Init => IInv
  BY InitIInv
<1>2. IInv /\ [Next]_vars => IInv'
  BY NextType, NextGivenHolds, NextWorkHolds, NextChainHolds, NextStreamHolds DEF IInv
<1> QED
  BY <1>1, <1>2, PTL DEF Spec

-----------------------------------------------------------------------------
(* What the executor promises.                                             *)

(* The first input is never read beyond what was written, nor is any other *)
(* that held as much when both were asked, for any number of inputs, any   *)
(* chain and any windows (graph_executor.cc 46-69, 158, 255-266).          *)
THEOREM WhatWasFoundIsRead == Spec => []ReadsOnlyFound
<1>1. IInv => ReadsOnlyFound
  <2> SUFFICES ASSUME IInv PROVE ReadsOnlyFound
    OBVIOUS
  <2>1. in_read[1] <= in_written[1]
    BY DEF IInv, StreamHolds
  <2>2. ASSUME wpc = "post_read", NEW p \in In, n_in[p] >= n_in[1]
        PROVE  n_consumed[1] <= Available(p)
    <3>1. n_consumed[1] = Items(1) /\ n_in[p] <= Available(p)
      BY <2>2, Ports DEF IInv, WorkHolds, GivenHolds
    <3>2. Items(1) \in Nat /\ Items(1) <= n_in[1] /\ n_in[1] \in Nat
      BY TypeNumbers, Ports DEF IInv, Numbers
    <3>3. n_in[p] \in Nat /\ Available(p) \in Int
      BY DEF IInv, TypeOK, Available
    <3> QED
      BY <2>2, <3>1, <3>2, <3>3
  <2> QED
    BY <2>1, <2>2 DEF ReadsOnlyFound
<1> QED
  BY <1>1, Invariance, PTL

(* With one output, nothing unread is overwritten (graph_executor.cc       *)
(* 84-140, 163, 272-284); with two the run outputs_comment refutes it.     *)
THEOREM OneOutputIsSafe == ASSUME Outs = 1 PROVE Spec => []WritesOnlyFree
<1>1. IInv => WritesOnlyFree
  BY DEF IInv, StreamHolds, WritesOnlyFree, Out
<1> QED
  BY <1>1, Invariance, PTL

(* The buffers inside a chain of any length whose readers have the last    *)
(* block's multiple are balanced between iterations, whatever the other    *)
(* blocks' multiples (graph_executor.cc 255-284).                          *)
THEOREM ChainsBalance == Spec => []ChainIsBalanced
<1>1. IInv => ChainIsBalanced
  BY DEF IInv, ChainHolds, ChainIsBalanced, Between, TypeOK
<1> QED
  BY <1>1, Invariance, PTL

(* Between its first input and its first output the executor is a sync     *)
(* block, however long the chain and whatever the multiples of its inner   *)
(* blocks, if the first and the last block have the same: it gives exactly *)
(* what it took before it takes again (graph_executor.cc 46-284).          *)
THEOREM TheExecutorIsASyncBlock ==
  ASSUME Multiple[1] = Multiple[Last] PROVE Spec => IsSyncStream
<1>1. Init => Stream!Init
  BY Ports DEF Init, Stream!Init
<1>2. IInv /\ [Next]_vars => [Stream!Next]_(Stream!vars)
  <2> SUFFICES ASSUME IInv, [Next]_vars PROVE [Stream!Next]_(Stream!vars)
    OBVIOUS
  <2>0. Numbers /\ StreamHolds /\ Cap \in Nat /\ 1 \in Blocks /\ Items(1) = Items(Last)
    BY TypeNumbers, Constants, Ports, SameMultipleSameItems DEF IInv
  <2>1. CASE Quiet
    BY <2>1 DEF Quiet, Stream!vars
  <2>2. CASE post_read
    <3>1. CASE Items(1) = 0
      BY <2>0, <2>2, <3>1, ReadPosts DEF Stream!vars, Numbers
    <3>2. CASE Items(1) # 0
      <4>1. Stream!Take
        BY <2>0, <2>2, <3>2, ReadPosts DEF Stream!Take, Numbers, StreamHolds, Available, Space
      <4> QED
        BY <4>1 DEF Stream!Next
    <3> QED
      BY <3>1, <3>2
  <2>3. CASE post_write
    <3>1. CASE Items(1) = 0
      BY <2>0, <2>3, <3>1, WritePosts DEF Stream!vars, Numbers
    <3>2. CASE Items(1) # 0
      <4>1. Stream!Give
        BY <2>0, <2>3, <3>2, WritePosts DEF Stream!Give, Numbers, StreamHolds
      <4> QED
        BY <4>1 DEF Stream!Next
    <3> QED
      BY <3>1, <3>2
  <2>4. ASSUME NEW p \in In, Upstream(p) PROVE [Stream!Next]_(Stream!vars)
    <3>1. UNCHANGED <<in_read, out_written, out_read>>
      BY <2>4 DEF Upstream
    <3>2. in_written'[1] = in_written[1] \/ in_written'[1] > in_written[1]
      BY <2>4, UpstreamGrows, Ports DEF IInv
    <3> QED
      BY <3>1, <3>2 DEF Stream!Next, Stream!Offer, Stream!vars
  <2>5. ASSUME NEW q \in Out, Downstream(q) PROVE [Stream!Next]_(Stream!vars)
    <3>1. UNCHANGED <<in_written, in_read, out_written>>
      BY <2>5 DEF Downstream
    <3>2. out_read'[1] = out_read[1] \/ out_read'[1] \in (out_read[1] + 1)..out_written[1]
      BY <2>5, DownstreamGrows DEF IInv
    <3> QED
      BY <3>1, <3>2 DEF Stream!Next, Stream!Free, Stream!vars
  <2> QED
    BY <2>1, <2>2, <2>3, <2>4, <2>5, NextQuiet
<1> QED
  BY <1>1, <1>2, Invariance, PTL DEF Spec, IsSyncStream, Stream!Spec

-----------------------------------------------------------------------------
(* No notification is missed.                                              *)

\* Some input is too short to work on.
Short == \E p \in In : TooFew(Available(p)) \/ Limited(Available(p)) < Multiple[Last]

\* An empty output buffer is enough to work, and a part that a buffer tells of
\* is enough to read and to work.
PartsSuffice ==
  ~Clogged(Cap) /\ \A w \in Part..Cap : ~TooFew(w) /\ ~Clogged(w)

Totals ==
  /\ \A p \in In : Available(p) <= Cap
  /\ \A q \in Out : out_read[q] <= out_written[q]

\* A neighbour that waits has nothing to do or is about to be notified.
NeighboursWait ==
  /\ \A p \in In : ~up_awake[p] => Cap <= Available(p) \/ wpc = "notify_output"
  /\ \A q \in Out : ~down_awake[q] => out_written[q] = out_read[q] \/ wpc = "notify_input"

\* With no notification in the queue, items found too few to work on are all
\* there is; and an iteration that ends has left items to read or found too few.
WorkerWaits ==
  /\ wpc \in {"work", "wait", "post_read"} \/ Between => n_out[1] >= Multiple[Last]
  /\ ~woken /\ wpc \in {"outputs", "work", "wait", "post_read"} =>
       n_in[1] >= Multiple[Last] \/ Short
  /\ ~woken /\ Between /\ Items(Last) = 0 => n_in[1] >= Multiple[Last] \/ Short
  /\ ~woken /\ wpc \in {"notify_input", "unclog", "idle"} =>
       Short \/ \E q \in Out : out_read[q] < out_written[q]

WaitInv == IInv /\ Totals /\ NeighboursWait /\ WorkerWaits

LEMMA ZeroIsLess ==
  ASSUME NEW n \in Nat, NEW m \in Nat \ {0}, round_down(n, m) = 0
  PROVE  n < m
<1>1. n = m * (n \div m) + (n % m) /\ n \div m \in Nat /\ n % m \in 0..(m - 1)
  OBVIOUS
<1>2. m * (n \div m) = 0
  BY <1>1 DEF round_down
<1> QED
  BY <1>1, <1>2

LEMMA NonzeroIsLarge ==
  ASSUME NEW n \in Nat, NEW m \in Nat \ {0}, round_down(n, m) # 0
  PROVE  round_down(n, m) >= m
<1>1. n \div m \in Nat /\ n \div m # 0
  BY DEF round_down
<1>2. (n \div m) * m >= m
  BY <1>1
<1> QED
  BY <1>2 DEF round_down

LEMMA InitWait == Init => WaitInv
<1> SUFFICES ASSUME Init PROVE Totals /\ NeighboursWait /\ WorkerWaits
  BY InitIInv DEF WaitInv
<1>1. Totals
  BY Constants DEF Init, Totals, Available
<1>2. NeighboursWait
  BY DEF Init, NeighboursWait
<1>3. WorkerWaits
  <2>1. Available(1) = 0
    BY Ports DEF Init, Available
  <2>2. Short
    BY <2>1, Ports DEF Short, TooFew
  <2> QED
    BY <2>2 DEF Init, WorkerWaits, Between
<1> QED
  BY <1>1, <1>2, <1>3

LEMMA NextTotals == IInv /\ Totals /\ [Next]_vars => Totals'
<1> SUFFICES ASSUME IInv, Totals, [Next]_vars PROVE Totals'
  OBVIOUS
<1>0. /\ Cap \in Nat
      /\ \A p \in In : in_written[p] \in Nat /\ in_read[p] \in Nat
      /\ \A q \in Out : out_written[q] \in Nat /\ out_read[q] \in Nat
  BY Constants DEF IInv, TypeOK
<1>1. CASE Quiet
  BY <1>1 DEF Quiet, Totals, Available
<1>2. CASE post_read
  <2>1. n_consumed[1] \in Nat
    BY Ports DEF IInv, TypeOK
  <2>2. UNCHANGED <<in_written, out_written, out_read>>
    BY <1>2 DEF post_read
  <2>3. \A p \in In : in_read'[p] = in_read[p] + n_consumed[1]
    BY <1>2 DEF post_read
  <2> QED
    BY <1>0, <2>1, <2>2, <2>3 DEF Totals, Available
<1>3. CASE post_write
  <2>1. n_produced[Last] \in Nat
    BY Ports DEF IInv, TypeOK
  <2>2. UNCHANGED <<in_written, in_read, out_read>>
    BY <1>3 DEF post_write
  <2>3. \A q \in Out : out_written'[q] = out_written[q] + n_produced[Last]
    BY <1>3 DEF post_write
  <2> QED
    BY <1>0, <2>1, <2>2, <2>3 DEF Totals, Available
<1>4. ASSUME NEW p \in In, Upstream(p) PROVE Totals'
  <2>1. UNCHANGED <<in_read, out_written, out_read>>
    BY <1>4 DEF Upstream
  <2>2. CASE UNCHANGED in_written
    BY <2>1, <2>2 DEF Totals, Available
  <2>3. ASSUME NEW k \in 1..Smaller(Cap - Available(p), MaxItems - in_written[p]),
               in_written' = [in_written EXCEPT ![p] = @ + k]
        PROVE  Totals'
    <3>1. k \in Nat /\ k <= Cap - Available(p)
      BY <1>0, Constants DEF Smaller, Available
    <3>2. ASSUME NEW o \in In PROVE in_written'[o] - in_read[o] <= Cap
      <4>1. in_written'[o] = IF o = p THEN in_written[o] + k ELSE in_written[o]
        BY <2>3 DEF IInv, TypeOK
      <4> QED
        BY <1>0, <3>1, <4>1 DEF Totals, Available
    <3> QED
      BY <2>1, <3>2 DEF Totals, Available
  <2> QED
    BY <1>4, <2>2, <2>3 DEF Upstream
<1>5. ASSUME NEW q \in Out, Downstream(q) PROVE Totals'
  <2>1. UNCHANGED <<in_written, in_read, out_written>>
    BY <1>5 DEF Downstream
  <2>2. CASE UNCHANGED out_read
    BY <2>1, <2>2 DEF Totals, Available
  <2>3. ASSUME NEW k \in 1..(out_written[q] - out_read[q]),
               out_read' = [out_read EXCEPT ![q] = @ + k]
        PROVE  Totals'
    <3>1. ASSUME NEW o \in Out PROVE out_read'[o] <= out_written[o]
      <4>1. out_read'[o] = IF o = q THEN out_read[o] + k ELSE out_read[o]
        BY <2>3 DEF IInv, TypeOK
      <4> QED
        BY <1>0, <4>1 DEF Totals
    <3> QED
      BY <2>1, <3>1 DEF Totals, Available
  <2> QED
    BY <1>5, <2>2, <2>3 DEF Downstream
<1> QED
  BY <1>1, <1>2, <1>3, <1>4, <1>5, NextQuiet

LEMMA NextNeighboursWait == IInv /\ Totals /\ NeighboursWait /\ [Next]_vars => NeighboursWait'
<1> SUFFICES ASSUME IInv, Totals, NeighboursWait, [Next]_vars PROVE NeighboursWait'
  OBVIOUS
<1> USE DEF NeighboursWait, Available, buffers, notices
<1>0. /\ Cap \in Nat
      /\ \A p \in In : in_written[p] \in Nat /\ in_read[p] \in Nat
      /\ DOMAIN up_awake = In /\ DOMAIN down_awake = Out
      /\ DOMAIN in_written = In /\ DOMAIN out_read = Out
  BY Constants DEF IInv, TypeOK
<1>1. CASE BeginIteration
  BY <1>1 DEF BeginIteration, Enter
<1>2. CASE \/ read_info \/ write_info \/ (\E ret \in {"OK", "DONE"} : Work(ret))
           \/ WorkInsufficient \/ WaitForCallback
  BY <1>2 DEF read_info, write_info, Work, WorkInner, WorkLast, WorkInsufficient, WaitForCallback
<1>3. CASE post_read
  BY <1>3 DEF post_read
<1>4. CASE NotifyOutput
  BY <1>4 DEF NotifyOutput
<1>5. CASE post_write
  BY <1>5 DEF post_write
<1>6. CASE NotifyInput
  BY <1>6 DEF NotifyInput
<1>7. CASE Unclog
  BY <1>7 DEF Unclog
<1>8. ASSUME NEW p \in In, Upstream(p) PROVE NeighboursWait'
  <2>1. UNCHANGED <<in_read, out_written, out_read, down_awake, wpc>>
    BY <1>8 DEF Upstream
  <2>2. ASSUME NEW o \in In, ~up_awake'[o] PROVE Cap <= Available(o)' \/ wpc = "notify_output"
    <3>1. CASE o = p
      BY <1>0, <1>8, <2>2, <3>1 DEF Upstream
    <3>2. CASE o # p
      BY <1>0, <1>8, <2>2, <3>2 DEF Upstream
    <3> QED
      BY <3>1, <3>2
  <2> QED
    BY <2>1, <2>2
<1>9. ASSUME NEW q \in Out, Downstream(q) PROVE NeighboursWait'
  <2>1. UNCHANGED <<in_written, in_read, out_written, up_awake, wpc>>
    BY <1>9 DEF Downstream
  <2>2. ASSUME NEW o \in Out, ~down_awake'[o]
        PROVE  out_written[o] = out_read'[o] \/ wpc = "notify_input"
    <3>1. CASE o = q
      BY <1>0, <1>9, <2>2, <3>1 DEF Downstream
    <3>2. CASE o # q
      BY <1>0, <1>9, <2>2, <3>2 DEF Downstream
    <3> QED
      BY <3>1, <3>2
  <2> QED
    BY <2>1, <2>2
<1>10. CASE Asked \/ UNCHANGED vars
  BY <1>10 DEF Asked, vars
<1> QED
  BY <1>1, <1>2, <1>3, <1>4, <1>5, <1>6, <1>7, <1>8, <1>9, <1>10 DEF Next, Worker, Iterate

\* Room that is not clogged is room for a multiple.
LEMMA UncloggedIsRoom ==
  ASSUME NEW n \in Nat, ~Clogged(n)
  PROVE  max_output_buffer(n) >= Multiple[Last] /\ n >= Multiple[Last]
<1> DEFINE limit == IF MaxFill > 0 THEN Smaller(n, MaxFill) ELSE n
<1>1. limit \in Nat /\ limit <= n
  BY ExecutorAssumption DEF Smaller
<1>2. round_down(limit, Multiple[Last]) # 0
  BY DEF Clogged, max_output_buffer
<1>3. max_output_buffer(n) = round_down(limit, Multiple[Last])
  BY DEF max_output_buffer
<1>4. Multiple[Last] \in Nat \ {0}
  BY Constants, Ports
<1> HIDE DEF limit
<1>5. round_down(limit, Multiple[Last]) \in 0..limit
  BY <1>1, <1>4, RoundDownIsLess
<1>6. round_down(limit, Multiple[Last]) >= Multiple[Last]
  BY <1>1, <1>2, <1>4, NonzeroIsLarge
<1> QED
  BY <1>1, <1>3, <1>4, <1>5, <1>6

LEMMA NextWorkerWaits ==
  ASSUME PartsSuffice, Multiple[1] = Multiple[Last], IInv, Totals, WorkerWaits, [Next]_vars
  PROVE  WorkerWaits'
<1> USE DEF WorkerWaits, Between, buffers, wio, result, notices
<1>0. /\ Numbers /\ Cap \in Nat /\ Part \in Nat /\ 1 \in Blocks /\ Last \in Blocks
      /\ Multiple[Last] \in Nat \ {0} /\ Items(1) = Items(Last)
  BY TypeNumbers, Constants, Ports, ExecutorAssumption, SameMultipleSameItems DEF IInv
<1>1. CASE BeginIteration
  BY <1>1 DEF BeginIteration, Enter
<1>2. CASE read_info
  <2>1. PICK n \in [In -> 0..Cap] :
          /\ \A p \in In : n[p] \in Window(Available(p))
          /\ \/ wpc' = "idle" /\ \E p \in In : TooFew(n[p])
             \/ wpc' = "outputs" /\ n_in' = [p \in In |-> Limited(n[p])]
    BY <1>2 DEF read_info
  <2>2. UNCHANGED <<in_written, in_read, out_written, out_read, woken>>
    BY <1>2 DEF read_info
  <2>3. \A p \in In : n[p] = Available(p) \/ n[p] \in Part..Cap
    BY <2>1, <1>0 DEF Window
  <2>4. CASE wpc' = "idle"
    <3>1. PICK p \in In : TooFew(n[p])
      BY <2>1, <2>4
    <3>2. n[p] = Available(p)
      BY <2>3, <3>1 DEF PartsSuffice
    <3>3. Short'
      BY <2>2, <3>1, <3>2 DEF Short, Available
    <3> QED
      BY <2>4, <3>3
  <2>5. CASE wpc' = "outputs"
    <3>1. n_in'[1] = Limited(n[1]) /\ n[1] \in Nat
      BY <2>1, <2>5, <1>0, Ports
    <3>2. CASE n[1] = Available(1) /\ n_in'[1] < Multiple[Last]
      <4>1. Short'
        BY <2>2, <3>1, <3>2, Ports DEF Short, Available
      <4> QED
        BY <2>5, <4>1
    <3>3. CASE n[1] \in Part..Cap /\ n_in'[1] < Multiple[Last]
      <4>1. n[1] >= Multiple[Last]
        BY <3>1, <3>3, UncloggedIsRoom DEF PartsSuffice
      <4>2. MaxRead > 0 /\ MaxRead < Multiple[Last]
        BY <1>0, <3>1, <3>3, <4>1, ExecutorAssumption DEF Limited, Smaller
      <4>3. Available(1) \in Int
        BY <1>0 DEF Numbers, Available
      <4>4. Limited(Available(1)) < Multiple[Last]
        BY <1>0, <4>2, <4>3, ExecutorAssumption DEF Limited, Smaller
      <4>5. Short'
        BY <2>2, <4>4, Ports DEF Short, Available
      <4> QED
        BY <2>5, <4>5
    <3>4. n_in'[1] \in Nat
      BY <3>1, ExecutorAssumption DEF Limited, Smaller
    <3> QED
      BY <2>3, <2>5, <3>2, <3>3, <3>4, <1>0, Ports
  <2> QED
    BY <2>1, <2>4, <2>5
<1>3. CASE write_info
  <2>1. PICK n \in [Out -> 0..Cap] :
          /\ \A q \in Out : n[q] \in Window(Space(q))
          /\ \/ wpc' = "unclog" /\ \E q \in Out : Clogged(n[q])
             \/ /\ wpc' = "work" /\ \A q \in Out : ~Clogged(n[q])
                /\ n_out' = [q \in Out |-> max_output_buffer(n[q])]
    BY <1>3 DEF write_info
  <2>2. UNCHANGED <<in_written, in_read, out_written, out_read, woken, n_in>> /\ wpc = "outputs"
    BY <1>3 DEF write_info
  <2>3. CASE wpc' = "unclog"
    <3>1. PICK q \in Out : Clogged(n[q])
      BY <2>1, <2>3
    <3>2. out_written[q] \in Nat /\ out_read[q] \in Nat /\ out_read[q] <= out_written[q]
      BY DEF IInv, TypeOK, Totals
    <3>3. n[q] = Space(q)
      BY <1>0, <2>1, <3>1 DEF Window, PartsSuffice
    <3>4. Space(q) # Cap
      BY <3>1, <3>3 DEF PartsSuffice
    <3>5. out_read[q] < out_written[q]
      BY <1>0, <3>2, <3>4 DEF Space
    <3> QED
      BY <2>2, <2>3, <3>5
  <2>4. CASE wpc' = "work"
    <3>1. n[1] \in Nat /\ ~Clogged(n[1]) /\ n_out'[1] = max_output_buffer(n[1])
      BY <2>1, <2>4, <1>0, Ports
    <3>2. n_out'[1] >= Multiple[Last]
      BY <3>1, UncloggedIsRoom
    <3>3. ~woken => n_in[1] >= Multiple[Last] \/ Short
      BY <2>2
    <3> QED
      BY <2>2, <2>4, <3>2, <3>3 DEF Short, Available
  <2> QED
    BY <2>1, <2>3, <2>4
<1>4. ASSUME NEW ret, Work(ret) PROVE WorkerWaits'
  <2>1. /\ wpc = "work" /\ wpc' \in {"work", "wait"} /\ Items(cur) > 0
        /\ UNCHANGED <<in_written, in_read, woken, n_out>>
        /\ n_in' = n_in \/ (cur = 1 /\ n_in' = [n_in EXCEPT ![1] = Items(1)])
    BY <1>4 DEF Work, WorkInner, WorkLast
  <2>2. CASE n_in' = n_in
    BY <2>1, <2>2 DEF Short, Available
  <2>3. CASE cur = 1 /\ n_in' = [n_in EXCEPT ![1] = Items(1)]
    <3> DEFINE least == Smaller(n_in[1], n_out[1])
    <3>1. least \in Nat /\ Items(1) = round_down(least, Multiple[1]) /\ Items(1) # 0
      BY <1>0, <2>1, <2>3 DEF Items, Numbers, Smaller
    <3> HIDE DEF least
    <3>2. Items(1) >= Multiple[Last]
      BY <1>0, <3>1, NonzeroIsLarge
    <3>3. n_in'[1] = Items(1)
      BY <2>3, Ports DEF IInv, TypeOK
    <3> QED
      BY <2>1, <3>2, <3>3
  <2> QED
    BY <2>1, <2>2, <2>3
<1>5. CASE WorkInsufficient \/ WaitForCallback
  BY <1>5 DEF WorkInsufficient, WaitForCallback, Short, Available
<1>6. CASE post_read
  <2>1. /\ UNCHANGED <<woken, n_in, n_out, in_written>> /\ wpc = "post_read"
        /\ wpc' = "notify_output" /\ Items(Last)' = Items(Last)
        /\ in_read' = [p \in In |-> in_read[p] + n_consumed[1]]
    BY <1>6 DEF post_read, Items
  <2>2. n_consumed[1] = Items(Last)
    BY <1>0, <2>1 DEF IInv, WorkHolds
  <2>3. Items(Last) = 0 => \A p \in In : in_read'[p] = in_read[p]
    BY <2>1, <2>2 DEF IInv, TypeOK
  <2>4. Items(Last) = 0 /\ Short => Short'
    BY <2>1, <2>3 DEF Short, Available
  <2> QED
    BY <2>1, <2>4
<1>7. CASE NotifyOutput
  BY <1>7 DEF NotifyOutput, Short, Available, Items
<1>8. CASE post_write
  <2>1. /\ UNCHANGED <<woken, in_written, in_read, out_read>> /\ wpc' = "notify_input"
        /\ out_written'[1] = out_written[1] + Items(Last)
        /\ n_out[1] >= Multiple[Last]
        /\ ~woken /\ Items(Last) = 0 => n_in[1] >= Multiple[Last] \/ Short
    BY <1>8, WritePosts DEF post_write
  <2>2. CASE Items(Last) = 0
    <3> DEFINE least == Smaller(n_in[1], n_out[1])
    <3>1. least \in Nat /\ round_down(least, Multiple[Last]) = 0
      BY <1>0, <2>2 DEF Items, Numbers, Smaller
    <3>2. least < Multiple[Last]
      <4> HIDE DEF least
      <4> QED
        BY <1>0, <3>1, ZeroIsLess
    <3>3. n_in[1] < Multiple[Last] /\ ~(n_in[1] >= Multiple[Last])
      BY <1>0, <2>1, <3>2 DEF Smaller, Numbers
    <3>4. ~woken => Short'
      BY <2>1, <2>2, <3>3 DEF Short, Available
    <3> QED
      BY <2>1, <3>4
  <2>3. CASE Items(Last) # 0
    <3>1. out_read'[1] < out_written'[1]
      BY <1>0, <2>1, <2>3 DEF Numbers, IInv, StreamHolds
    <3> QED
      BY <2>1, <3>1, Ports
  <2> QED
    BY <2>2, <2>3
<1>9. CASE NotifyInput \/ Unclog
  BY <1>9 DEF NotifyInput, Unclog, Short, Available
<1>10. ASSUME NEW p \in In, Upstream(p) PROVE WorkerWaits'
  <2>1. UNCHANGED <<in_read, out_written, out_read, wpc, n_in, n_out>>
    BY <1>10 DEF Upstream
  <2>2. woken' = TRUE \/ UNCHANGED <<in_written, woken>>
    BY <1>10 DEF Upstream
  <2> QED
    BY <2>1, <2>2 DEF Short, Available, Items
<1>11. ASSUME NEW q \in Out, Downstream(q) PROVE WorkerWaits'
  <2>1. UNCHANGED <<in_read, in_written, out_written, wpc, n_in, n_out>>
    BY <1>11 DEF Downstream
  <2>2. woken' = TRUE \/ UNCHANGED <<out_read, woken>>
    BY <1>11 DEF Downstream
  <2> QED
    BY <2>1, <2>2 DEF Short, Available, Items
<1>12. CASE Asked \/ UNCHANGED vars
  BY <1>12 DEF Asked, vars, Short, Available, Items
<1> QED
  BY <1>1, <1>2, <1>3, <1>4, <1>5, <1>6, <1>7, <1>8, <1>9, <1>10, <1>11, <1>12
  DEF Next, Worker, Iterate

(* When everyone waits nobody has anything to do, whatever the length of   *)
(* the chain, if its first and last block have the same multiple, an empty *)
(* output buffer is enough to work, and so is a part that a single-mapped  *)
(* buffer tells of (graph_executor.cc 56-61, 98-131, 268-288): TellsEnough *)
(* of TritonBuffer says when a part is a multiple.                         *)
THEOREM NotificationsSuffice ==
  ASSUME PartsSuffice, Multiple[1] = Multiple[Last] PROVE Spec => []NoStall
<1>1. Init => WaitInv
  BY InitWait
<1>2. WaitInv /\ [Next]_vars => (Totals /\ NeighboursWait /\ WorkerWaits)'
  BY NextTotals, NextNeighboursWait, NextWorkerWaits DEF WaitInv
<1>3. WaitInv => NoStall
  <2> SUFFICES ASSUME WaitInv, AllWait
               PROVE  /\ \A p \in In : Finished(p) \/ Available(p) = Cap
                      /\ \A q \in Out : out_written[q] = out_read[q]
                      /\ \E p \in In : TooFew(Available(p)) \/ Limited(Available(p)) < Multiple[Last]
    BY DEF NoStall
  <2>1. ASSUME NEW p \in In PROVE Finished(p) \/ Available(p) = Cap
    <3>1. Available(p) <= Cap /\ (Finished(p) \/ Cap <= Available(p))
      BY DEF WaitInv, Totals, NeighboursWait, AllWait
    <3>2. Available(p) \in Int /\ Cap \in Int
      BY Constants DEF WaitInv, IInv, TypeOK, Available
    <3> QED
      BY <3>1, <3>2
  <2>2. \A q \in Out : out_written[q] = out_read[q]
    BY DEF WaitInv, NeighboursWait, AllWait
  <2>3. Short \/ \E q \in Out : out_read[q] < out_written[q]
    BY DEF WaitInv, WorkerWaits, AllWait
  <2>4. ~\E q \in Out : out_read[q] < out_written[q]
    BY <2>2 DEF WaitInv, IInv, TypeOK
  <2> QED
    BY <2>1, <2>2, <2>3, <2>4 DEF Short
<1> QED
  BY <1>1, <1>2, <1>3, Invariance, PTL DEF Spec, WaitInv
=============================================================================
