------------------------- MODULE TritonModel_proofs -------------------------
(***************************************************************************)
(* The windows of a request are there until the answer, whatever the model *)
(* of the server, the sizes of the buffers and the numbers of ports.       *)
(***************************************************************************)
EXTENDS TritonModel, SequenceTheorems, WellFoundedInduction, TLAPS

-----------------------------------------------------------------------------
(* Sequences of whatever kind.                                             *)

IsSeq(s) == \E S : s \in Seq(S)

LEMMA AppendToAny ==
  ASSUME NEW s, IsSeq(s), NEW e
  PROVE  /\ IsSeq(Append(s, e)) /\ Len(s) \in Nat
         /\ DOMAIN Append(s, e) = DOMAIN s \union {Len(s) + 1}
         /\ \A k \in DOMAIN s : Append(s, e)[k] = s[k]
         /\ Append(s, e)[Len(s) + 1] = e
<1>1. PICK S : s \in Seq(S)
  BY DEF IsSeq
<1> DEFINE T == S \union {e}
<1>2. s \in Seq(T) /\ e \in T
  BY <1>1, SeqMonotonic
<1>3. /\ Len(s) \in Nat /\ DOMAIN s = 1..Len(s)
  BY <1>2, LenProperties
<1>4. /\ Append(s, e) \in Seq(T) /\ Len(Append(s, e)) = Len(s) + 1
      /\ \A i \in 1..Len(s) : Append(s, e)[i] = s[i]
      /\ Append(s, e)[Len(s) + 1] = e
  BY <1>2, AppendProperties
<1>5. DOMAIN Append(s, e) = 1..(Len(s) + 1)
  BY <1>4, LenProperties
<1> QED
  BY <1>3, <1>4, <1>5 DEF IsSeq

-----------------------------------------------------------------------------
(* The inductive invariant.                                                *)

Totals ==
  /\ in_written \in [In -> Nat] /\ in_read \in [In -> Nat]
  /\ out_written \in [Out -> Nat] /\ out_read \in [Out -> Nat]
  /\ noutput_items \in Nat

Called == pc \in {"inputs", "outputs", "inferring"}

\* What the executor found is there until it posts.
StillThere ==
  Called =>
    /\ 1 \in found_in /\ 1 \in found_out
    /\ \A p \in In :
         1 <= items_available(p) /\ (p \in found_in => noutput_items <= items_available(p))
    /\ \A q \in Out :
         /\ output_multiple <= space_available(q)
         /\ q \in found_out => noutput_items <= space_available(q)

\* The windows named so far hold.
InputsNamed ==
  Called =>
    /\ IsSeq(request.inputs) /\ DOMAIN request.inputs \subseteq In
    /\ \A k \in DOMAIN request.inputs :
         /\ request.inputs[k].first = in_read[k]
         /\ request.inputs[k].items \in 1..items_available(k)
         /\ k \in found_in => request.inputs[k].items >= noutput_items
OutputsNamed ==
  Called =>
    /\ IsSeq(request.outputs) /\ DOMAIN request.outputs \subseteq Out
    /\ \A k \in DOMAIN request.outputs :
         /\ request.outputs[k].first = out_written[k]
         /\ request.outputs[k].items \in output_multiple..space_available(k)
         /\ k \in found_out => request.outputs[k].items >= noutput_items

IsRequest ==
  \E i, o : request = [inputs |-> i, outputs |-> o]

IInv == Totals /\ StillThere /\ IsRequest /\ InputsNamed /\ OutputsNamed

LEMMA Constants == NumIn \in Nat /\ NumOut \in Nat /\ Cap \in Nat /\ 1 \in In /\ 1 \in Out
  BY ModelAssumption DEF In, Out

LEMMA InitIInv == Init => IInv
<1> SUFFICES ASSUME Init PROVE IInv
  OBVIOUS
<1>1. Totals
  BY DEF Init, Totals
<1>2. ~Called
  BY DEF Init, Called
<1>3. IsRequest
  <2>1. request = [inputs |-> <<>>, outputs |-> <<>>]
    BY DEF Init, NoRequest
  <2> QED
    BY <2>1, Zenon DEF IsRequest
<1>4. StillThere /\ InputsNamed /\ OutputsNamed
  BY <1>2 DEF StillThere, InputsNamed, OutputsNamed
<1> QED
  BY <1>1, <1>3, <1>4 DEF IInv

LEMMA NextTotals == Totals /\ StillThere /\ [Next]_vars => Totals'
<1> SUFFICES ASSUME Totals, StillThere, [Next]_vars PROVE Totals'
  OBVIOUS
<1> USE DEF Totals, streams, modelVars, callVars
<1>1. CASE Construct \/ make \/ SetInput \/ InputsSet \/ SetOutput \/ Submit
  BY <1>1 DEF Construct, make, SetInput, InputsSet, SetOutput, Submit
<1>2. CASE BeginWork
  BY <1>2, Constants DEF BeginWork
<1>3. CASE Post
  BY <1>3 DEF Post
<1>4. ASSUME NEW p \in In, Upstream(p) PROVE Totals'
  BY <1>4 DEF Upstream
<1>5. ASSUME NEW q \in Out, Downstream(q) PROVE Totals'
  BY <1>5 DEF Downstream
<1>6. CASE UNCHANGED vars
  BY <1>6 DEF vars
<1> QED
  BY <1>1, <1>2, <1>3, <1>4, <1>5, <1>6 DEF Next

\* The neighbours only add items to what is there, and room.
LEMMA NeighboursAdd ==
  ASSUME Totals, (\E p \in In : Upstream(p)) \/ (\E q \in Out : Downstream(q))
  PROVE  /\ UNCHANGED <<pc, callVars, output_multiple, request, in_read, out_written>>
         /\ \A k \in In : items_available(k) <= items_available(k)'
         /\ \A k \in Out : space_available(k) <= space_available(k)'
<1> USE DEF Totals, items_available, space_available
<1>1. ASSUME NEW p \in In, Upstream(p)
      PROVE  \A k \in In : items_available(k) <= items_available(k)'
  BY <1>1 DEF Upstream
<1>2. ASSUME NEW p \in In, Upstream(p)
      PROVE  \A k \in Out : space_available(k) <= space_available(k)'
  BY <1>2, Constants DEF Upstream
<1>3. ASSUME NEW q \in Out, Downstream(q)
      PROVE  \A k \in In : items_available(k) <= items_available(k)'
  BY <1>3 DEF Downstream
<1>4. ASSUME NEW q \in Out, Downstream(q)
      PROVE  \A k \in Out : space_available(k) <= space_available(k)'
  BY <1>4, Constants DEF Downstream
<1> QED
  BY <1>1, <1>2, <1>3, <1>4 DEF Upstream, Downstream, modelVars

LEMMA Available ==
  Totals => /\ \A k \in In : items_available(k) \in Int
            /\ \A k \in Out : space_available(k) \in Int
  BY Constants DEF Totals, items_available, space_available

LEMMA NextAvailable ==
  Totals' => /\ \A k \in In : items_available(k)' \in Int
             /\ \A k \in Out : space_available(k)' \in Int
  BY Constants DEF Totals, items_available, space_available

LEMMA NextStillThere ==
  Totals /\ Totals' /\ output_multiple \in Int /\ StillThere /\ [Next]_vars => StillThere'
<1> SUFFICES ASSUME Totals, Totals', output_multiple \in Int, StillThere, [Next]_vars
             PROVE  StillThere'
  OBVIOUS
<1> USE DEF StillThere, Called, modelVars, callVars
<1>1. CASE Construct \/ make \/ Post
  BY <1>1 DEF Construct, make, Post
<1>2. CASE BeginWork
  <2>1. /\ \A p \in In : items_available(p)' = items_available(p)
        /\ \A q \in Out : space_available(q)' = space_available(q)
    BY <1>2 DEF BeginWork, streams, items_available, space_available
  <2>2. \A p \in In : items_available(p) > 0 => 1 <= items_available(p)
    BY Available
  <2> QED
    BY <1>2, <2>1, <2>2, Constants DEF BeginWork
<1>3. CASE SetInput \/ InputsSet \/ SetOutput \/ Submit
  BY <1>3 DEF SetInput, InputsSet, SetOutput, Submit, streams, items_available, space_available
<1>4. CASE (\E p \in In : Upstream(p)) \/ (\E q \in Out : Downstream(q))
  BY <1>4, NeighboursAdd, Available, NextAvailable DEF Totals
<1>5. CASE UNCHANGED vars
  BY <1>5 DEF vars, items_available, space_available
<1> QED
  BY <1>1, <1>2, <1>3, <1>4, <1>5 DEF Next

LEMMA NextIsRequest == IsRequest /\ [Next]_vars => IsRequest'
<1> SUFFICES ASSUME IsRequest, [Next]_vars PROVE IsRequest'
  OBVIOUS
<1> USE DEF IsRequest
<1>1. CASE SetInput
  BY <1>1 DEF SetInput
<1>2. CASE SetOutput
  BY <1>2 DEF SetOutput
<1>3. CASE BeginWork
  BY <1>3 DEF BeginWork, NoRequest
<1>4. CASE UNCHANGED request
  BY <1>4
<1> QED
  BY <1>1, <1>2, <1>3, <1>4
  DEF Next, Construct, make, InputsSet, Submit, Post, Upstream, Downstream, vars

-----------------------------------------------------------------------------
(* The windows.                                                            *)

LEMMA NextInputsNamed == IInv /\ Totals' /\ output_multiple \in Int /\ [Next]_vars => InputsNamed'
<1> SUFFICES ASSUME IInv, Totals', output_multiple \in Int, [Next]_vars PROVE InputsNamed'
  OBVIOUS
<1> USE DEF InputsNamed, Called, modelVars, callVars
<1>1. CASE Construct \/ make \/ Post
  BY <1>1 DEF Construct, make, Post
<1>2. CASE BeginWork
  BY <1>2 DEF BeginWork, NoRequest, IsSeq
<1>3. CASE SetInput
  <2>1. CASE pc' = "undefined"
    BY <2>1
  <2>2. CASE Len(request.inputs) + 1 <= NumIn
    <3> DEFINE k == Len(request.inputs) + 1
               e == [shape |-> input_ptrs_'[k], first |-> in_read[k], items |-> items_available(k)]
    <3>1. /\ request' = [request EXCEPT !.inputs = Append(@, e)] /\ Called
          /\ UNCHANGED <<pc, callVars, output_multiple, streams>>
      BY <1>3, <2>2, Constants DEF SetInput, IInv
    <3>2. request'.inputs = Append(request.inputs, e)
      BY <3>1 DEF IInv, IsRequest
    <3>3. e.first = in_read[k] /\ e.items = items_available(k)
      OBVIOUS
    <3> HIDE DEF e
    <3>4. /\ IsSeq(request'.inputs) /\ Len(request.inputs) \in Nat
          /\ DOMAIN request'.inputs = DOMAIN request.inputs \union {k}
          /\ \A i \in DOMAIN request.inputs : request'.inputs[i] = request.inputs[i]
          /\ request'.inputs[k] = e
      BY <3>1, <3>2, AppendToAny DEF IInv
    <3>5. k \in In
      BY <2>2, <3>4, Constants DEF In
    <3>6. /\ 1 <= items_available(k) /\ (k \in found_in => noutput_items <= items_available(k))
          /\ items_available(k) \in Int /\ noutput_items \in Int
      BY <3>1, <3>5, Available DEF IInv, StillThere, Totals
    <3>7. ASSUME NEW i \in DOMAIN request'.inputs
          PROVE  /\ request'.inputs[i].first = in_read[i]
                 /\ request'.inputs[i].items \in 1..items_available(i)
                 /\ i \in found_in => request'.inputs[i].items >= noutput_items
      <4>1. CASE i = k
        BY <3>3, <3>4, <3>6, <4>1
      <4>2. CASE i \in DOMAIN request.inputs /\ i # k
        BY <3>1, <3>4, <4>2 DEF IInv
      <4> QED
        BY <3>4, <4>1, <4>2
    <3> QED
      BY <3>1, <3>4, <3>5, <3>7 DEF IInv, streams, items_available
  <2> QED
    BY <1>3, <2>1, <2>2 DEF SetInput
<1>4. CASE InputsSet \/ Submit
  BY <1>4 DEF InputsSet, Submit, streams, items_available, IInv
<1>5. CASE SetOutput
  <2>1. request'.inputs = request.inputs
    BY <1>5 DEF SetOutput, IInv, IsRequest
  <2> QED
    BY <1>5, <2>1 DEF SetOutput, streams, items_available, IInv
<1>6. CASE (\E p \in In : Upstream(p)) \/ (\E q \in Out : Downstream(q))
  <2>1. /\ UNCHANGED <<pc, callVars, request, in_read>>
        /\ \A k \in In : items_available(k) <= items_available(k)'
        /\ \A k \in In : items_available(k) \in Int /\ items_available(k)' \in Int
    BY <1>6, NeighboursAdd, Available, NextAvailable DEF IInv
  <2>2. noutput_items \in Int
    BY DEF IInv, Totals
  <2> QED
    BY <2>1, <2>2 DEF IInv
<1>7. CASE UNCHANGED vars
  BY <1>7 DEF vars, items_available, IInv
<1> QED
  BY <1>1, <1>2, <1>3, <1>4, <1>5, <1>6, <1>7 DEF Next

LEMMA NextOutputsNamed == IInv /\ Totals' /\ output_multiple \in Int /\ [Next]_vars => OutputsNamed'
<1> SUFFICES ASSUME IInv, Totals', output_multiple \in Int, [Next]_vars PROVE OutputsNamed'
  OBVIOUS
<1> USE DEF OutputsNamed, Called, modelVars, callVars
<1>1. CASE Construct \/ make \/ Post
  BY <1>1 DEF Construct, make, Post
<1>2. CASE BeginWork
  BY <1>2 DEF BeginWork, NoRequest, IsSeq
<1>3. CASE SetOutput
  <2>1. CASE pc' = "undefined"
    BY <2>1
  <2>2. CASE Len(request.outputs) + 1 <= NumOut
    <3> DEFINE k == Len(request.outputs) + 1
               e == [first |-> out_written[k], items |-> space_available(k)]
    <3>1. /\ request' = [request EXCEPT !.outputs = Append(@, e)] /\ Called
          /\ UNCHANGED <<pc, callVars, output_multiple, streams>>
      BY <1>3, <2>2, Constants DEF SetOutput, IInv
    <3>2. request'.outputs = Append(request.outputs, e)
      BY <3>1 DEF IInv, IsRequest
    <3>3. e.first = out_written[k] /\ e.items = space_available(k)
      OBVIOUS
    <3> HIDE DEF e
    <3>4. /\ IsSeq(request'.outputs) /\ Len(request.outputs) \in Nat
          /\ DOMAIN request'.outputs = DOMAIN request.outputs \union {k}
          /\ \A i \in DOMAIN request.outputs : request'.outputs[i] = request.outputs[i]
          /\ request'.outputs[k] = e
      BY <3>1, <3>2, AppendToAny DEF IInv
    <3>5. k \in Out
      BY <2>2, <3>4, Constants DEF Out
    <3>6. /\ output_multiple <= space_available(k)
          /\ k \in found_out => noutput_items <= space_available(k)
          /\ space_available(k) \in Int /\ noutput_items \in Int
      BY <3>1, <3>5, Available DEF IInv, StillThere, Totals
    <3>7. ASSUME NEW i \in DOMAIN request'.outputs
          PROVE  /\ request'.outputs[i].first = out_written[i]
                 /\ request'.outputs[i].items \in output_multiple..space_available(i)
                 /\ i \in found_out => request'.outputs[i].items >= noutput_items
      <4>1. CASE i = k
        BY <3>3, <3>4, <3>6, <4>1
      <4>2. CASE i \in DOMAIN request.outputs /\ i # k
        BY <3>1, <3>4, <4>2 DEF IInv
      <4> QED
        BY <3>4, <4>1, <4>2
    <3> QED
      BY <3>1, <3>4, <3>5, <3>7 DEF IInv, streams, space_available
  <2> QED
    BY <1>3, <2>1, <2>2 DEF SetOutput
<1>4. CASE InputsSet \/ Submit
  BY <1>4 DEF InputsSet, Submit, streams, space_available, IInv
<1>5. CASE SetInput
  <2>1. request'.outputs = request.outputs
    BY <1>5 DEF SetInput, IInv, IsRequest
  <2> QED
    BY <1>5, <2>1 DEF SetInput, streams, space_available, IInv
<1>6. CASE (\E p \in In : Upstream(p)) \/ (\E q \in Out : Downstream(q))
  <2>1. /\ UNCHANGED <<pc, callVars, output_multiple, request, out_written>>
        /\ \A k \in Out : space_available(k) <= space_available(k)'
        /\ \A k \in Out : space_available(k) \in Int /\ space_available(k)' \in Int
    BY <1>6, NeighboursAdd, Available, NextAvailable DEF IInv
  <2>2. noutput_items \in Int
    BY DEF IInv, Totals
  <2> QED
    BY <2>1, <2>2 DEF IInv
<1>7. CASE UNCHANGED vars
  BY <1>7 DEF vars, space_available, IInv
<1> QED
  BY <1>1, <1>2, <1>3, <1>4, <1>5, <1>6, <1>7 DEF Next

-----------------------------------------------------------------------------
(* Induction: what the least element of a set of numbers shows.            *)

LEMMA LeastNumber ==
  ASSUME NEW S \in SUBSET Nat, S # {}
  PROVE  \E m \in S : \A k \in S : ~(k < m)
<1>1. IsWellFoundedOn(OpToRel(<, Nat), Nat)
  BY NatLessThanWellFounded
<1>2. PICK m \in S : \A k \in S : <<k, m>> \notin OpToRel(<, Nat)
  BY <1>1, WFMin
<1> QED
  BY <1>2 DEF OpToRel

-----------------------------------------------------------------------------
(* What num_elements computes.                                             *)

IsProduct(p, s, n) == p = [k \in 0..n |-> IF k = 0 THEN 1 ELSE p[k - 1] * s[k]]

LEMMA ProductExists ==
  ASSUME NEW s, NEW n \in Nat
  PROVE  \E p : IsProduct(p, s, n)
<1> DEFINE Bad == {m \in Nat : ~\E p : IsProduct(p, s, m)}
<1> SUFFICES ASSUME Bad # {} PROVE FALSE
  OBVIOUS
<1>1. PICK m \in Bad : \A k \in Bad : ~(k < m)
  BY LeastNumber
<1>2. m # 0
  <2> DEFINE p == [k \in 0..0 |-> 1]
  <2>1. IsProduct(p, s, 0)
    BY DEF IsProduct
  <2> QED
    BY <2>1
<1>3. PICK p : IsProduct(p, s, m - 1)
  BY <1>1, <1>2
<1> DEFINE q == [k \in 0..m |-> IF k = m THEN p[m - 1] * s[m] ELSE p[k]]
<1>4. ASSUME NEW k \in 0..m PROVE q[k] = IF k = 0 THEN 1 ELSE q[k - 1] * s[k]
  <2>1. CASE k = m
    BY <1>2, <2>1
  <2>2. CASE k # m
    <3>1. k \in 0..(m - 1) /\ (k # 0 => k - 1 \in 0..m /\ k - 1 # m)
      BY <2>2
    <3>2. p[k] = IF k = 0 THEN 1 ELSE p[k - 1] * s[k]
      BY <1>3, <3>1 DEF IsProduct
    <3> QED
      BY <2>2, <3>1, <3>2
  <2> QED
    BY <2>1, <2>2
<1>5. IsProduct(q, s, m)
  BY <1>4 DEF IsProduct
<1> QED
  BY <1>5

LEMMA NumElementsIsProduct ==
  ASSUME NEW s, Len(s) \in Nat
  PROVE  \E p : IsProduct(p, s, Len(s)) /\ num_elements(s) = p[Len(s)]
  BY ProductExists DEF num_elements, IsProduct

LEMMA ProductStep ==
  ASSUME NEW s, NEW n \in Nat, NEW p, IsProduct(p, s, n)
  PROVE  p[0] = 1 /\ \A k \in 1..n : p[k] = p[k - 1] * s[k]
  BY DEF IsProduct

LEMMA ProductIsPositive ==
  ASSUME NEW s \in Seq(Nat \ {0}), NEW p, IsProduct(p, s, Len(s))
  PROVE  \A k \in 0..Len(s) : p[k] \in Nat \ {0}
<1> DEFINE Bad == {k \in 0..Len(s) : p[k] \notin Nat \ {0}}
<1> SUFFICES ASSUME Bad # {} PROVE FALSE
  OBVIOUS
<1>0. Bad \in SUBSET Nat /\ Len(s) \in Nat
  OBVIOUS
<1>1. PICK m \in Bad : \A k \in Bad : ~(k < m)
  BY <1>0, LeastNumber
<1>2. p[0] = 1 /\ \A k \in 1..Len(s) : p[k] = p[k - 1] * s[k]
  BY ProductStep
<1>3. m \in 1..Len(s)
  BY <1>2
<1>4. p[m - 1] \in Nat \ {0} /\ s[m] \in Nat \ {0}
  BY <1>1, <1>3
<1>5. p[m - 1] * s[m] \in Nat \ {0}
  BY <1>4
<1> QED
  BY <1>2, <1>3, <1>5

\* Two shapes that differ in their first dimension hold elements in its
\* proportion.
LEMMA HeadScales ==
  ASSUME NEW s \in Seq(Nat), NEW t \in Seq(Nat), Len(t) = Len(s), Len(s) > 0,
         \A d \in 2..Len(s) : t[d] = s[d],
         NEW p, IsProduct(p, s, Len(s)), NEW q, IsProduct(q, t, Len(s))
  PROVE  \A k \in 1..Len(s) :
           p[k] \in Nat /\ q[k] \in Nat /\ q[k] * s[1] = p[k] * t[1]
<1> DEFINE Good(k) == p[k] \in Nat /\ q[k] \in Nat /\ q[k] * s[1] = p[k] * t[1]
           Bad == {k \in 1..Len(s) : ~Good(k)}
<1> SUFFICES ASSUME Bad # {} PROVE FALSE
  OBVIOUS
<1>0. Bad \in SUBSET Nat /\ Len(s) \in Nat
  OBVIOUS
<1>1. PICK m \in Bad : \A k \in Bad : ~(k < m)
  BY <1>0, LeastNumber
<1>2. p[0] = 1 /\ \A k \in 1..Len(s) : p[k] = p[k - 1] * s[k]
  BY <1>0, ProductStep
<1>3. q[0] = 1 /\ \A k \in 1..Len(s) : q[k] = q[k - 1] * t[k]
  BY <1>0, ProductStep
<1>4. s[1] \in Nat /\ t[1] \in Nat
  OBVIOUS
<1>5. Good(1)
  <2>1. p[1] = 1 * s[1] /\ q[1] = 1 * t[1]
    BY <1>0, <1>2, <1>3
  <2> QED
    BY <2>1, <1>4
<1>6. m \in 2..Len(s)
  BY <1>0, <1>5
<1>7. m - 1 \in 1..Len(s) /\ m - 1 < m /\ m \in 1..Len(s)
  BY <1>0, <1>6
<1>8. Good(m - 1)
  BY <1>1, <1>7
<1>9. s[m] \in Nat /\ t[m] = s[m]
  BY <1>6
<1>10. p[m] = p[m - 1] * s[m] /\ q[m] = q[m - 1] * s[m]
  BY <1>2, <1>3, <1>7, <1>9
<1> DEFINE a == p[m - 1]
           b == q[m - 1]
           c == s[m]
           x == s[1]
           y == t[1]
<1>11. a \in Nat /\ b \in Nat /\ c \in Nat /\ x \in Nat /\ y \in Nat /\ b * x = a * y
  BY <1>4, <1>8, <1>9
<1>12. p[m] = a * c /\ q[m] = b * c
  BY <1>10
<1>13. a * c \in Nat /\ b * c \in Nat /\ (b * c) * x = (a * c) * y
  <2> HIDE DEF a, b, c, x, y
  <2>1. (b * c) * x = (b * x) * c /\ (a * c) * y = (a * y) * c
    BY <1>11
  <2> QED
    BY <1>11, <2>1
<1>14. Good(m)
  BY <1>12, <1>13
<1> QED
  BY <1>14

LEMMA TailIsTheRest ==
  ASSUME NEW s \in Seq(Nat), s # <<>>,
         NEW p, IsProduct(p, s, Len(s)), NEW q, IsProduct(q, Tail(s), Len(s) - 1)
  PROVE  \A k \in 0..(Len(s) - 1) : q[k] \in Nat /\ p[k + 1] = s[1] * q[k]
<1> DEFINE Good(k) == q[k] \in Nat /\ p[k + 1] = s[1] * q[k]
           Bad == {k \in 0..(Len(s) - 1) : ~Good(k)}
<1> SUFFICES ASSUME Bad # {} PROVE FALSE
  OBVIOUS
<1>0. Bad \in SUBSET Nat /\ Len(s) \in Nat /\ Len(s) - 1 \in Nat
  OBVIOUS
<1>1. PICK m \in Bad : \A k \in Bad : ~(k < m)
  BY <1>0, LeastNumber
<1>2. p[0] = 1 /\ \A k \in 1..Len(s) : p[k] = p[k - 1] * s[k]
  BY <1>0, ProductStep
<1>3. q[0] = 1 /\ \A k \in 1..(Len(s) - 1) : q[k] = q[k - 1] * Tail(s)[k]
  BY <1>0, ProductStep
<1>4. s[1] \in Nat
  BY <1>0
<1>5. Good(0)
  <2>1. p[1] = 1 * s[1]
    BY <1>0, <1>2
  <2> QED
    BY <1>3, <1>4, <2>1
<1>6. m \in 1..(Len(s) - 1)
  BY <1>0, <1>5
<1>7. m - 1 \in 0..(Len(s) - 1) /\ m - 1 < m /\ m + 1 \in 1..Len(s) /\ (m - 1) + 1 = m /\ (m + 1) - 1 = m
  BY <1>0, <1>6
<1>8. Good(m - 1)
  BY <1>1, <1>7
<1>9. Tail(s)[m] = s[m + 1] /\ s[m + 1] \in Nat
  BY <1>0, <1>6, <1>7
<1> DEFINE b == q[m - 1]
           c == s[m + 1]
           x == s[1]
<1>10. q[m] = b * c /\ p[m + 1] = (x * b) * c
  BY <1>2, <1>3, <1>6, <1>7, <1>8, <1>9
<1>11. b * c \in Nat /\ (x * b) * c = x * (b * c)
  <2>1. b \in Nat /\ c \in Nat /\ x \in Nat
    BY <1>4, <1>8, <1>9
  <2> HIDE DEF b, c, x
  <2> QED
    BY <2>1
<1>12. Good(m)
  BY <1>10, <1>11
<1> QED
  BY <1>12

LEMMA NumElementsIsPositive ==
  ASSUME NEW s \in Seq(Nat \ {0})
  PROVE  num_elements(s) \in Nat \ {0}
<1>1. Len(s) \in Nat
  OBVIOUS
<1>2. PICK p : IsProduct(p, s, Len(s)) /\ num_elements(s) = p[Len(s)]
  BY <1>1, NumElementsIsProduct
<1> QED
  BY <1>1, <1>2, ProductIsPositive

LEMMA NumElementsScales ==
  ASSUME NEW s \in Seq(Nat), NEW t \in Seq(Nat), Len(t) = Len(s), s # <<>>,
         \A d \in 2..Len(s) : t[d] = s[d]
  PROVE  /\ num_elements(s) \in Nat /\ num_elements(t) \in Nat
         /\ num_elements(t) * s[1] = num_elements(s) * t[1]
<1>1. Len(s) \in Nat /\ Len(s) > 0
  OBVIOUS
<1>2. PICK p : IsProduct(p, s, Len(s)) /\ num_elements(s) = p[Len(s)]
  BY <1>1, NumElementsIsProduct
<1>3. PICK q : IsProduct(q, t, Len(s)) /\ num_elements(t) = q[Len(s)]
  BY <1>1, NumElementsIsProduct
<1>4. Len(s) \in 1..Len(s)
  BY <1>1
<1> QED
  BY <1>1, <1>2, <1>3, <1>4, HeadScales

LEMMA NumElementsOfTail ==
  ASSUME NEW s \in Seq(Nat), s # <<>>
  PROVE  num_elements(Tail(s)) \in Nat /\ num_elements(s) = s[1] * num_elements(Tail(s))
<1>1. Len(s) \in Nat /\ Len(s) > 0 /\ Len(Tail(s)) = Len(s) - 1
  OBVIOUS
<1>2. PICK p : IsProduct(p, s, Len(s)) /\ num_elements(s) = p[Len(s)]
  BY <1>1, NumElementsIsProduct
<1>3. PICK q : IsProduct(q, Tail(s), Len(s) - 1) /\ num_elements(Tail(s)) = q[Len(s) - 1]
  <2>1. Len(Tail(s)) \in Nat
    BY <1>1
  <2>2. \E q : IsProduct(q, Tail(s), Len(Tail(s))) /\ num_elements(Tail(s)) = q[Len(Tail(s))]
    BY <2>1, NumElementsIsProduct
  <2> QED
    BY <1>1, <2>2
<1>4. Len(s) - 1 \in 0..(Len(s) - 1) /\ (Len(s) - 1) + 1 = Len(s)
  BY <1>1
<1> QED
  BY <1>2, <1>3, <1>4, TailIsTheRest

-----------------------------------------------------------------------------
(* The model's configuration.                                              *)

Shapes == Seq(Nat \ {0}) \ {<<>>}

Configured(ios) ==
  /\ ios \in Seq([item_size : {1, 2, 4}, shape : Shapes, element_byte_size : Nat])
  /\ \A k \in 1..Len(ios) :
       ios[k].element_byte_size = num_elements(ios[k].shape) * ios[k].item_size

LEMMA ConfiguredIs ==
  ASSUME NEW ios, Configured(ios)
  PROVE  /\ Len(ios) \in Nat /\ DOMAIN ios = 1..Len(ios)
         /\ \A k \in 1..Len(ios) :
              /\ ios[k].item_size \in {1, 2, 4}
              /\ ios[k].shape \in Seq(Nat \ {0}) /\ ios[k].shape # <<>>
              /\ ios[k].element_byte_size = num_elements(ios[k].shape) * ios[k].item_size
<1> DEFINE R == [item_size : {1, 2, 4}, shape : Shapes, element_byte_size : Nat]
<1>1. ios \in Seq(R)
  BY DEF Configured
<1>2. \A e \in R : e.item_size \in {1, 2, 4} /\ e.shape \in Seq(Nat \ {0}) /\ e.shape # <<>>
  BY DEF Shapes
<1> HIDE DEF R
<1>3. Len(ios) \in Nat /\ DOMAIN ios = 1..Len(ios) /\ \A k \in 1..Len(ios) : ios[k] \in R
  BY <1>1
<1> QED
  BY <1>2, <1>3 DEF Configured

LEMMA ShapeIsParsed ==
  ASSUME NEW io \in Metadata
  PROVE  /\ parse_io_shape(io) \in Shapes
         /\ Len(parse_io_shape(io)) = Len(io.shape)
<1>1. io.shape \in Seq(Int \ {0}) /\ io.shape # <<>>
  BY DEF Metadata
<1>2. DOMAIN io.shape = 1..Len(io.shape) /\ Len(io.shape) \in Nat \ {0}
  BY <1>1
<1>3. \A d \in 1..Len(io.shape) : Abs(io.shape[d]) \in Nat \ {0}
  BY <1>1 DEF Abs
<1>4. parse_io_shape(io) = [d \in 1..Len(io.shape) |-> Abs(io.shape[d])]
  BY <1>2 DEF parse_io_shape
<1>5. parse_io_shape(io) \in Seq(Nat \ {0}) /\ Len(parse_io_shape(io)) = Len(io.shape)
  BY <1>2, <1>3, <1>4
<1> QED
  BY <1>2, <1>5 DEF Shapes

LEMMA ItemSizes == \A t : itemsize(t) \in {0, 1, 2, 4}
  BY DEF itemsize

\* An input or output whose memory has a size can be configured.
LEMMA MemoryIsSized ==
  ASSUME NEW io \in Metadata, allocate_shm(io).element_byte_size # 0
  PROVE  /\ allocate_shm(io) \in [item_size : {1, 2, 4}, shape : Shapes, element_byte_size : Nat]
         /\ allocate_shm(io).shape = parse_io_shape(io)
         /\ allocate_shm(io).element_byte_size
              = num_elements(allocate_shm(io).shape) * allocate_shm(io).item_size
<1> DEFINE n == num_elements(parse_io_shape(io))
           i == itemsize(io.datatype)
<1>1. allocate_shm(io) = [item_size |-> i, shape |-> parse_io_shape(io), element_byte_size |-> n * i]
  BY DEF allocate_shm
<1>2. n \in Nat /\ parse_io_shape(io) \in Shapes
  BY ShapeIsParsed, NumElementsIsPositive DEF Shapes
<1>3. i \in {0, 1, 2, 4}
  BY ItemSizes
<1> HIDE DEF n, i
<1>4. n * i # 0 /\ n * i \in Nat
  BY <1>1, <1>2, <1>3
<1>5. i # 0
  BY <1>2, <1>4
<1> QED
  BY <1>1, <1>2, <1>3, <1>4, <1>5 DEF n

\* Configuration takes the inputs or outputs before the first unknown one.
LEMMA ConfigureTakesPrefix ==
  ASSUME NEW ios \in Seq(Metadata)
  PROVE  /\ Configured(Configure(ios)) /\ Len(Configure(ios)) <= Len(ios)
         /\ \A k \in 1..Len(Configure(ios)) :
              Configure(ios)[k].shape = parse_io_shape(ios[k])
<1> DEFINE unknown == {k \in DOMAIN ios : allocate_shm(ios[k]).element_byte_size = 0}
           known == {n \in 0..Len(ios) : \A k \in unknown : n < k}
<1>1. DOMAIN ios = 1..Len(ios) /\ Len(ios) \in Nat /\ unknown \in SUBSET Nat
  OBVIOUS
<1>2. \E x \in known : \A y \in known : x >= y
  <2>1. CASE unknown = {}
    BY <1>1, <2>1
  <2>2. CASE unknown # {}
    <3>1. PICK u \in unknown : \A k \in unknown : ~(k < u)
      BY <1>1, <2>2, LeastNumber
    <3>2. u \in 1..Len(ios) /\ \A k \in unknown : u - 1 < k
      BY <1>1, <3>1
    <3>3. u - 1 \in known /\ \A y \in known : u - 1 >= y
      BY <1>1, <3>2
    <3> QED
      BY <3>3
  <2> QED
    BY <2>1, <2>2
<1>3. Max(known) \in known
  BY <1>2 DEF Max
<1> DEFINE n == Max(known)
<1>4. n \in Nat /\ n <= Len(ios) /\ \A k \in 1..n : k \in DOMAIN ios /\ k \notin unknown
  <2>1. n \in 0..Len(ios) /\ \A k \in unknown : n < k
    BY <1>3
  <2> HIDE DEF n, unknown
  <2> QED
    BY <1>1, <2>1
<1>5. Configure(ios) = [k \in 1..n |-> allocate_shm(ios[k])]
  BY DEF Configure
<1> HIDE DEF n, known
<1>6. ASSUME NEW k \in 1..n
      PROVE  /\ allocate_shm(ios[k]) \in [item_size : {1, 2, 4}, shape : Shapes, element_byte_size : Nat]
             /\ allocate_shm(ios[k]).shape = parse_io_shape(ios[k])
             /\ allocate_shm(ios[k]).element_byte_size
                  = num_elements(allocate_shm(ios[k]).shape) * allocate_shm(ios[k]).item_size
  BY <1>1, <1>4, MemoryIsSized
<1>7. /\ Configure(ios) \in Seq([item_size : {1, 2, 4}, shape : Shapes, element_byte_size : Nat])
      /\ Len(Configure(ios)) = n
      /\ \A k \in 1..n : Configure(ios)[k] = allocate_shm(ios[k])
  BY <1>4, <1>5, <1>6
<1> QED
  BY <1>4, <1>6, <1>7 DEF Configured

-----------------------------------------------------------------------------
(* What the request's shapes hold.                                         *)

Counts ==
  /\ noutput_items \in 0..Cap
  /\ found_in \subseteq In /\ found_out \subseteq Out
  /\ \A p \in In : in_written[p] <= MaxItems

\* A shape that is another's but for the first dimension.
Reshaped(t, s) ==
  t \in Seq(Nat) /\ Len(t) = Len(s) /\ \A d \in 2..Len(s) : t[d] = s[d]

ModelHolds ==
  /\ model_metadata \in Models
  /\ pc \in {"construct", "make", "thrown", "undefined", "idle", "inputs",
             "outputs", "inferring", "overrun"}
  /\ Configured(inputs_) /\ Configured(outputs_)
  /\ input_ptrs_ \in Seq(Seq(Nat)) /\ Len(input_ptrs_) = Len(inputs_)
  /\ \A k \in 1..Len(inputs_) : Reshaped(input_ptrs_[k], inputs_[k].shape)

\* Items are produced by whole batches of the first output.
MultipleHolds ==
  /\ output_multiple \in Nat \ {0}
  /\ Called \/ pc = "idle" =>
       outputs_ # <<>> /\ output_multiple = num_elements(outputs_[1].shape)
  /\ Called => noutput_items % output_multiple = 0

\* The shapes named so far hold the batches of this call.
ShapesNamed ==
  Called =>
    /\ DOMAIN request.inputs \subseteq DOMAIN inputs_
    /\ \A k \in DOMAIN request.inputs :
         /\ Reshaped(request.inputs[k].shape, inputs_[k].shape)
         /\ request.inputs[k].shape[1] = batch_size

ServeInv == IInv /\ Counts /\ ModelHolds /\ MultipleHolds /\ ShapesNamed

LEMMA InitServe == Init => ServeInv
<1> SUFFICES ASSUME Init PROVE ServeInv
  OBVIOUS
<1>1. Counts
  BY ModelAssumption DEF Init, Counts
<1>2. Configured(<<>>)
  BY DEF Configured
<1>3. ModelHolds
  BY <1>2 DEF Init, ModelHolds
<1>4. MultipleHolds /\ ShapesNamed
  BY DEF Init, MultipleHolds, ShapesNamed, Called
<1> QED
  BY <1>1, <1>3, <1>4, InitIInv DEF ServeInv

LEMMA NextCounts == IInv /\ Counts /\ [Next]_vars => Counts'
<1> SUFFICES ASSUME IInv, Counts, [Next]_vars PROVE Counts'
  OBVIOUS
<1> USE DEF Counts, streams, modelVars, callVars
<1>0. Cap \in Nat /\ MaxItems \in Nat /\ Totals
  BY ModelAssumption DEF IInv
<1>1. CASE Construct \/ make \/ SetInput \/ InputsSet \/ SetOutput \/ Submit
  BY <1>1 DEF Construct, make, SetInput, InputsSet, SetOutput, Submit
<1>2. CASE BeginWork
  BY <1>0, <1>2 DEF BeginWork
<1>3. CASE Post
  BY <1>3 DEF Post
<1>4. ASSUME NEW p \in In, Upstream(p) PROVE Counts'
  BY <1>0, <1>4 DEF Upstream, Totals
<1>5. ASSUME NEW q \in Out, Downstream(q) PROVE Counts'
  BY <1>5 DEF Downstream
<1>6. CASE UNCHANGED vars
  BY <1>6 DEF vars
<1> QED
  BY <1>1, <1>2, <1>3, <1>4, <1>5, <1>6 DEF Next

\* Elements per batch, and batches per call.
LEMMA FirstOutput ==
  ASSUME ModelHolds, outputs_ # <<>>
  PROVE  /\ get_output_sizes[1] \div get_output_signature[1] = num_elements(outputs_[1].shape)
         /\ num_elements(outputs_[1].shape) \in Nat \ {0}
<1>1. /\ outputs_[1].item_size \in {1, 2, 4} /\ outputs_[1].shape \in Seq(Nat \ {0})
      /\ outputs_[1].element_byte_size = num_elements(outputs_[1].shape) * outputs_[1].item_size
      /\ 1 \in DOMAIN outputs_
  <2>1. 1 \in 1..Len(outputs_)
    BY ConfiguredIs DEF ModelHolds, Configured
  <2> QED
    BY <2>1, ConfiguredIs DEF ModelHolds
<1>2. num_elements(outputs_[1].shape) \in Nat \ {0}
  BY <1>1, NumElementsIsPositive
<1>3. /\ get_output_sizes[1] = outputs_[1].element_byte_size
      /\ get_output_signature[1] = outputs_[1].item_size
  BY <1>1 DEF get_output_sizes, get_output_signature
<1> DEFINE n == num_elements(outputs_[1].shape)
<1>4. \A i \in {1, 2, 4} : (n * i) \div i = n
  <2> HIDE DEF n
  <2> QED
    BY <1>2 DEF n
<1> QED
  BY <1>1, <1>2, <1>3, <1>4

LEMMA BatchesAreWhole ==
  ASSUME ModelHolds, MultipleHolds, Called, noutput_items \in Nat
  PROVE  batch_size \in Nat /\ batch_size * output_multiple = noutput_items
<1>1. batch_size = noutput_items \div output_multiple
  BY FirstOutput DEF MultipleHolds, batch_size, num_items_per_batch
<1>2. output_multiple \in Nat \ {0} /\ noutput_items % output_multiple = 0
  BY DEF MultipleHolds
<1>3. /\ noutput_items = output_multiple * (noutput_items \div output_multiple)
                           + (noutput_items % output_multiple)
      /\ noutput_items \div output_multiple \in Nat
  BY <1>2
<1> QED
  BY <1>1, <1>2, <1>3

LEMMA NextModelHolds == IInv /\ ModelHolds /\ MultipleHolds /\ [Next]_vars => ModelHolds'
<1> SUFFICES ASSUME IInv, ModelHolds, MultipleHolds, [Next]_vars PROVE ModelHolds'
  OBVIOUS
<1> USE DEF modelVars, streams, callVars
<1>1. CASE Construct
  <2>1. CASE UNCHANGED <<inputs_, outputs_, input_ptrs_>>
    BY <1>1, <2>1 DEF Construct, ModelHolds
  <2>2. CASE /\ inputs_' = Configure(model_metadata.inputs)
             /\ outputs_' = Configure(model_metadata.outputs)
             /\ input_ptrs_' = [k \in DOMAIN inputs_' |->
                                  create_triton_input(model_metadata.inputs[k])]
    <3> DEFINE ins == model_metadata.inputs
    <3>1. ins \in Seq(Metadata) /\ model_metadata.outputs \in Seq(Metadata)
      BY ModelAssumption DEF ModelHolds
    <3>2. /\ Configured(inputs_') /\ Configured(outputs_') /\ Len(inputs_') <= Len(ins)
          /\ \A k \in 1..Len(inputs_') : inputs_'[k].shape = parse_io_shape(ins[k])
      BY <2>2, <3>1, ConfigureTakesPrefix
    <3>3. DOMAIN inputs_' = 1..Len(inputs_') /\ Len(inputs_') \in Nat
      BY <3>2 DEF Configured
    <3>4. \A k \in 1..Len(inputs_') :
            inputs_'[k].shape \in Seq(Nat) /\ input_ptrs_'[k] = inputs_'[k].shape
      <4> SUFFICES ASSUME NEW k \in 1..Len(inputs_')
                   PROVE  inputs_'[k].shape \in Seq(Nat) /\ input_ptrs_'[k] = inputs_'[k].shape
        OBVIOUS
      <4>1. input_ptrs_'[k] = inputs_'[k].shape
        BY <2>2, <3>2, <3>3 DEF create_triton_input
      <4>2. inputs_'[k].shape \in Seq(Nat \ {0})
        BY <3>2, ConfiguredIs
      <4> QED
        BY <4>1, <4>2
    <3>5. input_ptrs_' \in Seq(Seq(Nat)) /\ Len(input_ptrs_') = Len(inputs_')
      BY <2>2, <3>3, <3>4
    <3>6. \A k \in 1..Len(inputs_') : Reshaped(input_ptrs_'[k], inputs_'[k].shape)
      BY <3>4 DEF Reshaped
    <3>7. pc' \in {"make", "undefined"} /\ UNCHANGED model_metadata
      BY <1>1 DEF Construct
    <3> QED
      BY <3>2, <3>5, <3>6, <3>7 DEF ModelHolds
  <2> QED
    BY <1>1, <2>1, <2>2 DEF Construct
<1>2. CASE SetInput
  <2>1. CASE UNCHANGED input_ptrs_
    BY <1>2, <2>1 DEF SetInput, ModelHolds
  <2>2. PICK k : /\ k = Len(request.inputs) + 1 /\ k <= Len(input_ptrs_) /\ pc = "inputs"
                 /\ input_ptrs_' = [input_ptrs_ EXCEPT ![k][1] = batch_size] \/ UNCHANGED input_ptrs_
                 /\ pc' \in {"inputs", "undefined"}
                 /\ UNCHANGED modelVars
    BY <1>2 DEF SetInput
  <2>3. CASE input_ptrs_' = [input_ptrs_ EXCEPT ![k][1] = batch_size]
    <3>1. IsSeq(request.inputs) /\ Called
      BY <2>2 DEF Called, IInv, InputsNamed
    <3>2. k \in 1..Len(inputs_) /\ k \in 1..Len(input_ptrs_)
      BY <2>2, <3>1, AppendToAny DEF ModelHolds, Configured
    <3>3. batch_size \in Nat
      BY <3>1, BatchesAreWhole DEF IInv, Totals
    <3> DEFINE t == [input_ptrs_[k] EXCEPT ![1] = batch_size]
    <3>4. input_ptrs_[k] \in Seq(Nat) /\ Reshaped(input_ptrs_[k], inputs_[k].shape)
      BY <3>2 DEF ModelHolds
    <3>5. t \in Seq(Nat) /\ Len(t) = Len(input_ptrs_[k])
          /\ \A d \in 2..Len(input_ptrs_[k]) : t[d] = input_ptrs_[k][d]
      <4>1. input_ptrs_[k] \in Seq(Nat) /\ Len(input_ptrs_[k]) = Len(inputs_[k].shape)
        BY <3>4 DEF Reshaped
      <4>2. Configured(inputs_)
        BY DEF ModelHolds
      <4>3. inputs_[k].shape \in Seq(Nat \ {0}) /\ inputs_[k].shape # <<>>
        BY <3>2, <4>2, ConfiguredIs
      <4>4. Len(inputs_[k].shape) \in Nat \ {0}
        BY <4>3
      <4>5. 1 \in 1..Len(input_ptrs_[k])
        BY <4>1, <4>4
      <4> QED
        BY <3>3, <4>1, <4>5, ExceptSeq
    <3>6. Reshaped(t, inputs_[k].shape)
      BY <3>4, <3>5 DEF Reshaped
    <3>7. input_ptrs_' = [input_ptrs_ EXCEPT ![k] = t]
      BY <2>3
    <3> HIDE DEF t
    <3>8. /\ input_ptrs_' \in Seq(Seq(Nat)) /\ Len(input_ptrs_') = Len(inputs_)
          /\ \A i \in 1..Len(inputs_) : input_ptrs_'[i] = IF i = k THEN t ELSE input_ptrs_[i]
      BY <3>2, <3>5, <3>7 DEF ModelHolds
    <3>9. \A i \in 1..Len(inputs_) : Reshaped(input_ptrs_'[i], inputs_[i].shape)
      BY <3>6, <3>8 DEF ModelHolds
    <3> QED
      BY <2>2, <3>8, <3>9 DEF ModelHolds
  <2> QED
    BY <2>1, <2>2, <2>3
<1>3. CASE make \/ BeginWork \/ InputsSet \/ SetOutput \/ Submit \/ Post
  <2>1. UNCHANGED <<model_metadata, inputs_, outputs_, input_ptrs_>>
    BY <1>3 DEF make, BeginWork, InputsSet, SetOutput, Submit, Post
  <2>2. pc' \in {"construct", "make", "thrown", "undefined", "idle", "inputs",
                 "outputs", "inferring", "overrun"}
    BY <1>3 DEF make, BeginWork, InputsSet, SetOutput, Submit, Post
  <2> QED
    BY <2>1, <2>2 DEF ModelHolds
<1>4. CASE (\E p \in In : Upstream(p)) \/ (\E q \in Out : Downstream(q)) \/ UNCHANGED vars
  BY <1>4 DEF Upstream, Downstream, vars, ModelHolds
<1> QED
  BY <1>1, <1>2, <1>3, <1>4 DEF Next

LEMMA NextMultipleHolds == ModelHolds /\ MultipleHolds /\ [Next]_vars => MultipleHolds'
<1> SUFFICES ASSUME ModelHolds, MultipleHolds, [Next]_vars PROVE MultipleHolds'
  OBVIOUS
<1> USE DEF MultipleHolds, Called, modelVars, callVars
<1>1. CASE Construct
  BY <1>1 DEF Construct
<1>2. CASE make
  <2>1. CASE pc' = "idle"
    <3>1. outputs_ # <<>> /\ set_output_multiple /\ UNCHANGED outputs_
      BY <1>2, <2>1 DEF make
    <3>2. output_multiple' = num_elements(outputs_[1].shape)
      BY <3>1, FirstOutput DEF set_output_multiple
    <3>3. num_elements(outputs_[1].shape) \in Nat \ {0}
      BY <3>1, FirstOutput
    <3> QED
      BY <2>1, <3>1, <3>2, <3>3
  <2>2. CASE pc' \in {"thrown", "undefined"} /\ UNCHANGED output_multiple
    BY <2>2
  <2> QED
    BY <1>2, <2>1, <2>2 DEF make
<1>3. CASE BeginWork
  BY <1>3 DEF BeginWork
<1>4. CASE SetInput \/ InputsSet \/ SetOutput \/ Submit \/ Post
  BY <1>4 DEF SetInput, InputsSet, SetOutput, Submit, Post
<1>5. CASE (\E p \in In : Upstream(p)) \/ (\E q \in Out : Downstream(q)) \/ UNCHANGED vars
  BY <1>5 DEF Upstream, Downstream, vars
<1> QED
  BY <1>1, <1>2, <1>3, <1>4, <1>5 DEF Next

LEMMA SameBatch == UNCHANGED <<noutput_items, outputs_>> => batch_size' = batch_size
  BY DEF batch_size, num_items_per_batch, get_output_sizes, get_output_signature

LEMMA NextShapesNamed ==
  ASSUME ServeInv, ModelHolds', [Next]_vars
  PROVE  ShapesNamed'
<1> USE DEF ShapesNamed, Called, modelVars, callVars
<1>1. CASE Construct \/ make \/ Post
  BY <1>1 DEF Construct, make, Post
<1>2. CASE BeginWork
  BY <1>2 DEF BeginWork, NoRequest
<1>3. CASE SetInput
  <2>1. CASE pc' = "undefined"
    BY <2>1
  <2>2. CASE Len(request.inputs) + 1 <= NumIn
    <3> DEFINE k == Len(request.inputs) + 1
               e == [shape |-> input_ptrs_'[k], first |-> in_read[k], items |-> items_available(k)]
    <3>1. /\ request' = [request EXCEPT !.inputs = Append(@, e)] /\ Called
          /\ k <= Len(input_ptrs_) /\ input_ptrs_' = [input_ptrs_ EXCEPT ![k][1] = batch_size]
          /\ UNCHANGED <<pc, noutput_items, inputs_, outputs_>>
      BY <1>3, <2>2, Constants DEF SetInput, ServeInv, IInv, InputsNamed
    <3>2. request'.inputs = Append(request.inputs, e)
      BY <3>1 DEF ServeInv, IInv, IsRequest
    <3>3. e.shape = input_ptrs_'[k]
      OBVIOUS
    <3> HIDE DEF e
    <3>4. /\ Len(request.inputs) \in Nat
          /\ DOMAIN request'.inputs = DOMAIN request.inputs \union {k}
          /\ \A i \in DOMAIN request.inputs : request'.inputs[i] = request.inputs[i]
          /\ request'.inputs[k] = e
      BY <3>1, <3>2, AppendToAny DEF ServeInv, IInv, InputsNamed
    <3>5. k \in 1..Len(inputs_) /\ k \in 1..Len(input_ptrs_) /\ 1..Len(inputs_) = DOMAIN inputs_
      BY <3>1, <3>4 DEF ServeInv, ModelHolds, Configured
    <3>6. Reshaped(input_ptrs_'[k], inputs_[k].shape)
      BY <3>1, <3>5 DEF ModelHolds
    <3>7. input_ptrs_'[k][1] = batch_size
      <4>1. input_ptrs_[k] \in Seq(Nat) /\ inputs_[k].shape \in Shapes
            /\ Len(input_ptrs_[k]) = Len(inputs_[k].shape)
        BY <3>5, ConfiguredIs DEF ServeInv, ModelHolds, Reshaped, Shapes
      <4>2. 1 \in DOMAIN input_ptrs_[k]
        BY <4>1 DEF Shapes
      <4>3. k \in DOMAIN input_ptrs_
        BY <3>5 DEF ServeInv, ModelHolds
      <4> QED
        BY <3>1, <4>2, <4>3
    <3>8. batch_size' = batch_size
      BY <3>1, SameBatch
    <3>9. ASSUME NEW i \in DOMAIN request'.inputs
          PROVE  /\ Reshaped(request'.inputs[i].shape, inputs_[i].shape)
                 /\ request'.inputs[i].shape[1] = batch_size
      <4>1. CASE i = k
        BY <3>3, <3>4, <3>6, <3>7, <4>1
      <4>2. CASE i \in DOMAIN request.inputs /\ i # k
        BY <3>1, <3>4, <4>2 DEF ServeInv
      <4> QED
        BY <3>4, <4>1, <4>2
    <3>10. DOMAIN request'.inputs \subseteq DOMAIN inputs_
      BY <3>1, <3>4, <3>5 DEF ServeInv
    <3> QED
      BY <3>1, <3>8, <3>9, <3>10
  <2> QED
    BY <1>3, <2>1, <2>2 DEF SetInput
<1>4. CASE InputsSet \/ SetOutput \/ Submit
  <2>1. UNCHANGED <<noutput_items, inputs_, outputs_>> /\ Called
    BY <1>4 DEF InputsSet, SetOutput, Submit
  <2>2. request'.inputs = request.inputs
    BY <1>4 DEF InputsSet, SetOutput, Submit, ServeInv, IInv, IsRequest
  <2> QED
    BY <2>1, <2>2, SameBatch DEF ServeInv, Reshaped
<1>5. CASE (\E p \in In : Upstream(p)) \/ (\E q \in Out : Downstream(q)) \/ UNCHANGED vars
  <2>1. UNCHANGED <<pc, noutput_items, inputs_, outputs_, request>>
    BY <1>5 DEF Upstream, Downstream, vars
  <2> QED
    BY <2>1, SameBatch DEF ServeInv, Reshaped
<1> QED
  BY <1>1, <1>2, <1>3, <1>4, <1>5 DEF Next

LEMMA NextIInv == IInv /\ output_multiple \in Int /\ [Next]_vars => IInv'
  BY NextTotals, NextStillThere, NextIsRequest, NextInputsNamed, NextOutputsNamed DEF IInv

LEMMA ServeInvariance == Spec => []ServeInv
<1>1. ServeInv /\ [Next]_vars => ServeInv'
  <2>1. ServeInv => output_multiple \in Int
    BY DEF ServeInv, MultipleHolds
  <2> QED
    BY <2>1, NextIInv, NextCounts, NextModelHolds, NextMultipleHolds, NextShapesNamed DEF ServeInv
<1> QED
  BY <1>1, InitServe, PTL DEF Spec

(* Every variable stays in its domain, whatever the server says of its     *)
(* model.                                                                  *)
THEOREM TypeCorrect == Spec => []TypeOK
<1>1. ServeInv => TypeOK
  <2> SUFFICES ASSUME ServeInv PROVE TypeOK
    OBVIOUS
  <2>1. /\ \A k \in DOMAIN inputs_ : inputs_[k].item_size \in {1, 2, 4}
        /\ \A k \in DOMAIN outputs_ : outputs_[k].item_size \in {1, 2, 4}
    BY ConfiguredIs DEF ServeInv, ModelHolds
  <2>2. in_written \in [In -> 0..MaxItems]
    BY ModelAssumption DEF ServeInv, Counts, IInv, Totals
  <2> QED
    BY <2>1, <2>2 DEF TypeOK, ServeInv, ModelHolds, MultipleHolds, Counts, IInv, Totals
<1> QED
  BY <1>1, ServeInvariance, PTL

(* What a request names is ours until the server has answered, however the *)
(* neighbours move meanwhile, and holds this call's number at every port   *)
(* that had it when the executor looked, the first among them              *)
(* (graph_executor.cc 156-165, triton_model_impl.cc 320-357).              *)
THEOREM RequestsHold == Spec => []WindowsHold
<1>1. ServeInv => WindowsHold
  BY DEF ServeInv, IInv, StillThere, InputsNamed, OutputsNamed, Called, WindowsHold
<1> QED
  BY <1>1, ServeInvariance, PTL

(* Such an input names enough bytes for the shape it claims, for a uniform *)
(* model of any shape and any buffers (graph_executor.cc 158,              *)
(* triton_block_triton.cc 50-54, triton_model_impl.cc 327-341).            *)
THEOREM ShapesAreCovered == Spec => []InputCoversShape
<1>1. ServeInv => InputCoversShape
  <2> SUFFICES ASSUME ServeInv, pc = "inferring", Uniform, NEW k \in DOMAIN request.inputs,
                      k \in found_in
               PROVE  num_elements(request.inputs[k].shape) * inputs_[k].item_size
                        <= request.inputs[k].items * ItemSize
    BY DEF InputCoversShape
  <2> DEFINE t == request.inputs[k].shape
             s == inputs_[k].shape
             items == request.inputs[k].items
  <2>1. k \in DOMAIN inputs_ /\ Reshaped(t, s) /\ t[1] = batch_size /\ Called
    BY DEF ServeInv, ShapesNamed, Called
  <2>2. s \in Seq(Nat \ {0}) /\ s # <<>>
    BY <2>1, ConfiguredIs DEF ServeInv, ModelHolds
  <2>3. s \in Seq(Nat) /\ s[1] \in Nat \ {0}
    BY <2>2
  <2>4. /\ num_elements(s) \in Nat /\ num_elements(t) \in Nat
        /\ num_elements(t) * s[1] = num_elements(s) * batch_size
    BY <2>1, <2>2, <2>3, NumElementsScales DEF Reshaped
  <2>5. /\ outputs_ # <<>> /\ output_multiple = num_elements(outputs_[1].shape)
        /\ batch_size \in Nat /\ batch_size * output_multiple = noutput_items
    BY <2>1, BatchesAreWhole DEF ServeInv, MultipleHolds, Counts
  <2>6. 1 \in DOMAIN outputs_
    BY <2>5 DEF ServeInv, ModelHolds, Configured
  <2>7. num_elements(s) = output_multiple /\ inputs_[k].item_size = ItemSize
    BY <2>1, <2>5, <2>6 DEF Uniform
  <2>8. num_elements(t) * s[1] = noutput_items
    BY <2>4, <2>5, <2>7
  <2>9. k \in In /\ items \in 1..items_available(k) /\ items >= noutput_items
        /\ items_available(k) \in Int
    BY Available DEF ServeInv, IInv, InputsNamed, Called
  <2>10. noutput_items \in Nat /\ ItemSize \in Nat
    BY ModelAssumption DEF ServeInv, IInv, Totals
  <2> HIDE DEF t, s, items
  <2>11. num_elements(t) <= noutput_items
    BY <2>3, <2>4, <2>8, <2>10
  <2>12. num_elements(t) <= items /\ items \in Int
    BY <2>4, <2>9, <2>10, <2>11
  <2>13. num_elements(t) * ItemSize <= items * ItemSize
    BY <2>4, <2>10, <2>12
  <2> QED
    BY <2>7, <2>13 DEF t, items
<1> QED
  BY <1>1, ServeInvariance, PTL

(* What is posted was computed, for a uniform model of any shape with a    *)
(* batch dimension (triton_block_triton.cc 23-25, 50-66).                  *)
THEOREM BatchesArePosted == Spec => []PostedIsInferred
<1>1. ServeInv => PostedIsInferred
  <2> SUFFICES ASSUME ServeInv, pc = "inferring", Uniform, Batched,
                      NEW k \in DOMAIN request.inputs, NEW j \in DOMAIN outputs_
               PROVE  request.inputs[k].shape[1] * num_elements(Tail(outputs_[j].shape))
                        = noutput_items
    BY DEF PostedIsInferred
  <2> DEFINE s == outputs_[j].shape
  <2>1. request.inputs[k].shape[1] = batch_size /\ Called /\ k \in DOMAIN inputs_
    BY DEF ServeInv, ShapesNamed, Called
  <2>2. s \in Seq(Nat \ {0}) /\ s # <<>>
    BY ConfiguredIs DEF ServeInv, ModelHolds
  <2>3. s \in Seq(Nat) /\ s[1] = 1
    BY <2>2 DEF Batched
  <2>4. num_elements(Tail(s)) \in Nat /\ num_elements(s) = s[1] * num_elements(Tail(s))
    BY <2>2, <2>3, NumElementsOfTail
  <2>5. num_elements(Tail(s)) = num_elements(s)
    BY <2>3, <2>4
  <2>6. /\ output_multiple = num_elements(outputs_[1].shape)
        /\ batch_size \in Nat /\ batch_size * output_multiple = noutput_items
    BY <2>1, BatchesAreWhole DEF ServeInv, MultipleHolds, Counts
  <2>7. num_elements(s) = num_elements(outputs_[1].shape)
    BY <2>1 DEF Uniform
  <2> QED
    BY <2>1, <2>5, <2>6, <2>7
<1> QED
  BY <1>1, ServeInvariance, PTL
=============================================================================
