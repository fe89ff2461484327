----------------------------- MODULE TritonModel -----------------------------
(***************************************************************************)
(* A Triton block's model: its construction from what the server says of   *)
(* it (triton_model_impl.cc 86-144), and the request it builds at each     *)
(* call of work (triton_block_triton.cc 29-68, triton_model_impl.cc        *)
(* 292-376) while its neighbours go on writing and reading its buffers.    *)
(* A buffer is two totals, items written and items read, and a window is a *)
(* first item and a number of items; item sizes count in bytes.            *)
(***************************************************************************)
EXTENDS Integers, Sequences, FiniteSetsExt

CONSTANTS
  Models,    \* what the server may say: [inputs, outputs], sequences of io
  NumIn, NumOut,  \* stream ports of the block (num_in, num_out)
  ItemSize,  \* bytes of an item in the buffers
  Cap,       \* items a buffer holds
  MaxItems   \* bound: items written to each input

\* What the server says of an input or output: at least one dimension, -1 for
\* one that is free.
Metadata == [datatype : STRING, shape : Seq(Int \ {0}) \ {<<>>}]

ASSUME ModelAssumption ==
  /\ {NumIn, NumOut, ItemSize, Cap} \subseteq Nat \ {0} /\ MaxItems \in Nat
  /\ Models \subseteq [inputs : Seq(Metadata), outputs : Seq(Metadata)]

VARIABLES
  model_metadata,    \* the server's answer
  pc,                \* "undefined" after a read the language does not define,
                     \* "overrun" after a post of more than a buffer held
  inputs_, outputs_, \* the inputs and outputs the model was configured with
  input_ptrs_,       \* shapes held by the InferInput objects
  output_multiple,   \* of the block
  noutput_items,     \* items to produce in this call
  found_in, found_out,  \* history: ports that held this call's items, or room
                        \* for them, when the executor looked
  request,           \* the windows and shapes handed to the server
  in_written, in_read, out_written, out_read

modelVars == <<model_metadata, inputs_, outputs_, output_multiple>>
callVars == <<noutput_items, found_in, found_out>>
vars == <<modelVars, pc, input_ptrs_, callVars, request,
          in_written, in_read, out_written, out_read>>

In == 1..NumIn
Out == 1..NumOut

itemsize(datatype) ==
  CASE datatype \in {"FP32", "FLOAT32", "INT32"} -> 4
    [] datatype = "INT16" -> 2
    [] datatype = "INT8" -> 1
    [] OTHER -> 0

Abs(n) == IF n < 0 THEN -n ELSE n

\* Variant: the wildcard dimension -1 is kept.
parse_io_shape_Raw(io) == io.shape
parse_io_shape(io) == [d \in DOMAIN io.shape |-> Abs(io.shape[d])]

num_elements(shape) ==
  LET product[k \in 0..Len(shape)] == IF k = 0 THEN 1 ELSE product[k - 1] * shape[k]
  IN  product[Len(shape)]

allocate_shm(io) ==
  LET shape == parse_io_shape(io)
  IN [item_size |-> itemsize(io.datatype), shape |-> shape,
      element_byte_size |-> num_elements(shape) * itemsize(io.datatype)]

\* The loop over the metadata ends at the first datatype it does not know.
Configure(ios) ==
  LET unknown == {k \in DOMAIN ios : allocate_shm(ios[k]).element_byte_size = 0}
      known == {n \in 0..Len(ios) : \A k \in unknown : n < k}
  IN [k \in 1..Max(known) |-> allocate_shm(ios[k])]

NoRequest == [inputs |-> <<>>, outputs |-> <<>>]

Init ==
  /\ model_metadata \in Models
  /\ pc = "construct"
  /\ inputs_ = <<>> /\ outputs_ = <<>> /\ input_ptrs_ = <<>>
  /\ output_multiple = 1
  /\ noutput_items = 0 /\ found_in = {} /\ found_out = {}
  /\ request = NoRequest
  /\ in_written = [p \in In |-> 0] /\ in_read = [p \in In |-> 0]
  /\ out_written = [q \in Out |-> 0] /\ out_read = [q \in Out |-> 0]

streams == <<in_written, in_read, out_written, out_read>>

-----------------------------------------------------------------------------
(* Construction.                                                           *)

\* The verdicts on a server that is live and ready, that is not, and that does
\* not answer, which leaves is_live or is_ready unset.
is_server_healthy(answer) ==
  CASE answer = "ready" -> {TRUE}
    [] answer = "unready" -> {FALSE}
    [] answer = "none" -> BOOLEAN

\* The InferInput of an input starts with its shape.
create_triton_input(io) == parse_io_shape(io)

\* Without a ready server that knows the model the metadata has no "inputs".
Construct ==
  /\ pc = "construct"
  /\ \E answer \in {"ready", "unready", "none"}, known \in BOOLEAN :
       \E healthy \in is_server_healthy(answer) :
         \/ /\ ~healthy
            /\ pc' = "make"
            /\ UNCHANGED <<inputs_, outputs_, input_ptrs_>>
         \/ /\ healthy /\ ~(answer = "ready" /\ known)
            /\ pc' = "undefined"
            /\ UNCHANGED <<inputs_, outputs_, input_ptrs_>>
         \/ /\ answer = "ready" /\ known
            /\ inputs_' = Configure(model_metadata.inputs)
            /\ outputs_' = Configure(model_metadata.outputs)
            /\ input_ptrs_' = [k \in DOMAIN inputs_' |->
                                 create_triton_input(model_metadata.inputs[k])]
            /\ pc' = "make"
  /\ UNCHANGED <<model_metadata, output_multiple, callVars, request, streams>>

get_num_inputs == Len(inputs_)
get_output_sizes == [k \in DOMAIN outputs_ |-> outputs_[k].element_byte_size]
get_output_signature == [k \in DOMAIN outputs_ |-> outputs_[k].item_size]

\* Variant: the multiple is left at 1.
set_output_multiple_None == output_multiple' = 1

set_output_multiple ==
  output_multiple' = get_output_sizes[1] \div get_output_signature[1]

\* make gives null without inputs, and the block throws; without outputs the
\* block reads the first of none.
make ==
  /\ pc = "make"
  /\ \/ /\ get_num_inputs = 0
        /\ pc' = "thrown"
        /\ UNCHANGED output_multiple
     \/ /\ get_num_inputs > 0 /\ outputs_ = <<>>
        /\ pc' = "undefined"
        /\ UNCHANGED output_multiple
     \/ /\ get_num_inputs > 0 /\ outputs_ # <<>>
        /\ pc' = "idle"
        /\ set_output_multiple
  /\ UNCHANGED <<model_metadata, inputs_, outputs_, input_ptrs_, callVars,
                 request, streams>>

-----------------------------------------------------------------------------
(* A call of work.                                                         *)

items_available(p) == in_written[p] - in_read[p]
space_available(q) == Cap - (out_written[q] - out_read[q])

\* The executor looks: every input holds an item, every output has room for a
\* multiple, and the first of each give their number to all.  The sync block
\* (external) calls work on a multiple of output_multiple within it.  work
\* looks at inputs()[1] whether there is one or not.
BeginWork ==
  /\ pc = "idle"
  /\ \A p \in In : items_available(p) > 0
  /\ \A q \in Out : space_available(q) >= output_multiple
  /\ \E n \in 1..Cap :
       /\ n % output_multiple = 0
       /\ n <= items_available(1) /\ n <= space_available(1)
       /\ noutput_items' = n
       /\ found_in' = {p \in In : n <= items_available(p)}
       /\ found_out' = {q \in Out : n <= space_available(q)}
  /\ request' = NoRequest
  /\ pc' \in IF NumIn < 2 THEN {"inputs", "undefined"} ELSE {"inputs"}
  /\ UNCHANGED <<modelVars, input_ptrs_, streams>>

\* Variant: a batch for every item.
batch_size_Items == noutput_items

num_items_per_batch == get_output_sizes[1] \div get_output_signature[1]
batch_size == noutput_items \div num_items_per_batch

\* SetShape and SetSharedMemory on the next input: all of the buffer's items
\* are named, those that came since the executor looked included.
SetInput ==
  LET k == Len(request.inputs) + 1 IN
  /\ pc = "inputs" /\ k <= Len(input_ptrs_)
  /\ \/ /\ k > NumIn
        /\ pc' = "undefined"
        /\ UNCHANGED <<input_ptrs_, request>>
     \/ /\ k <= NumIn
        /\ input_ptrs_' = [input_ptrs_ EXCEPT ![k][1] = batch_size]
        /\ request' = [request EXCEPT !.inputs = Append(@,
             [shape |-> input_ptrs_'[k], first |-> in_read[k], items |-> items_available(k)])]
        /\ UNCHANGED pc
  /\ UNCHANGED <<modelVars, callVars, streams>>

InputsSet ==
  /\ pc = "inputs" /\ Len(request.inputs) = Len(input_ptrs_)
  /\ pc' = "outputs"
  /\ UNCHANGED <<modelVars, input_ptrs_, callVars, request, streams>>

\* SetSharedMemory on the next output: all of the buffer's room is named.
SetOutput ==
  LET k == Len(request.outputs) + 1 IN
  /\ pc = "outputs" /\ k <= Len(outputs_)
  /\ \/ /\ k > NumOut
        /\ pc' = "undefined"
        /\ UNCHANGED request
     \/ /\ k <= NumOut
        /\ request' = [request EXCEPT !.outputs = Append(@,
             [first |-> out_written[k], items |-> space_available(k)])]
        /\ UNCHANGED pc
  /\ UNCHANGED <<modelVars, input_ptrs_, callVars, streams>>

\* Infer or AsyncInfer.
Submit ==
  /\ pc = "outputs" /\ Len(request.outputs) = Len(outputs_)
  /\ pc' = "inferring"
  /\ UNCHANGED <<modelVars, input_ptrs_, callVars, request, streams>>

\* Variant: work returns and the executor posts while the server works.
Post_Early ==
  /\ pc = "inferring"
  /\ in_read' = [p \in In |-> in_read[p] + noutput_items]
  /\ UNCHANGED <<modelVars, pc, input_ptrs_, callVars, request,
                 in_written, out_written, out_read>>

\* The server has answered and the executor posts what the sync block
\* consumed and produced, the same number at every port, whether it is there
\* or not.
Post ==
  /\ pc = "inferring"
  /\ in_read' = [p \in In |-> in_read[p] + noutput_items]
  /\ out_written' = [q \in Out |-> out_written[q] + noutput_items]
  /\ pc' = IF /\ \A p \in In : noutput_items <= items_available(p)
              /\ \A q \in Out : noutput_items <= space_available(q)
           THEN "idle" ELSE "overrun"
  /\ UNCHANGED <<modelVars, input_ptrs_, callVars, request, in_written, out_read>>

-----------------------------------------------------------------------------
(* The neighbours (external).                                              *)

Upstream(p) ==
  /\ in_written[p] < MaxItems /\ items_available(p) < Cap
  /\ in_written' = [in_written EXCEPT ![p] = @ + 1]
  /\ UNCHANGED <<modelVars, pc, input_ptrs_, callVars, request,
                 in_read, out_written, out_read>>

Downstream(q) ==
  /\ out_read[q] < out_written[q]
  /\ out_read' = [out_read EXCEPT ![q] = @ + 1]
  /\ UNCHANGED <<modelVars, pc, input_ptrs_, callVars, request,
                 in_written, in_read, out_written>>

\* Of a buffer that was overrun nothing more is claimed.
Next ==
  /\ pc # "overrun"
  /\ \/ Construct \/ make
     \/ BeginWork \/ SetInput \/ InputsSet \/ SetOutput \/ Submit \/ Post
     \/ (\E p \in In : Upstream(p)) \/ (\E q \in Out : Downstream(q))

Spec == Init /\ [][Next]_vars

-----------------------------------------------------------------------------
TypeOK ==
  /\ model_metadata \in Models
  /\ pc \in {"construct", "make", "thrown", "undefined", "idle", "inputs",
             "outputs", "inferring", "overrun"}
  /\ \A k \in DOMAIN inputs_ : inputs_[k].item_size \in {1, 2, 4}
  /\ \A k \in DOMAIN outputs_ : outputs_[k].item_size \in {1, 2, 4}
  /\ Len(input_ptrs_) = Len(inputs_)
  /\ output_multiple \in Nat \ {0}
  /\ noutput_items \in 0..Cap /\ found_in \subseteq In /\ found_out \subseteq Out
  /\ in_written \in [In -> 0..MaxItems] /\ in_read \in [In -> Nat]
  /\ out_written \in [Out -> Nat] /\ out_read \in [Out -> Nat]

(* What is named stays ours until the answer: an input window holds items  *)
(* that were written and are not yet given back, an output window room     *)
(* that was read and is not yet published, and of the ports that had this  *)
(* call's number when the executor looked, the first of each among them,   *)
(* at least that number, however the neighbours move while the request is  *)
(* built and served (graph_executor.cc 156-165, triton_model_impl.cc       *)
(* 320-357).                                                               *)
WindowsHold ==
  pc = "inferring" =>
    /\ 1 \in found_in /\ 1 \in found_out
    /\ \A k \in DOMAIN request.inputs :
         /\ request.inputs[k].first = in_read[k]
         /\ request.inputs[k].items \in 1..items_available(k)
         /\ k \in found_in => request.inputs[k].items >= noutput_items
    /\ \A k \in DOMAIN request.outputs :
         /\ request.outputs[k].first = out_written[k]
         /\ request.outputs[k].items \in output_multiple..space_available(k)
         /\ k \in found_out => request.outputs[k].items >= noutput_items

\* A model the block can serve: its types are the buffers', and all inputs
\* and outputs take as many elements, after the batch's dimension.
Uniform ==
  \A k \in DOMAIN inputs_, j \in DOMAIN outputs_ :
    /\ inputs_[k].item_size = ItemSize /\ outputs_[j].item_size = ItemSize
    /\ num_elements(inputs_[k].shape) = num_elements(outputs_[1].shape)
    /\ num_elements(outputs_[j].shape) = num_elements(outputs_[1].shape)
Batched ==
  \A ios \in {inputs_, outputs_} : \A k \in DOMAIN ios : ios[k].shape[1] = 1

(* An input that had this call's number when the executor looked, as the   *)
(* first has, names enough bytes for the shape it claims, for a uniform    *)
(* model (graph_executor.cc 158, triton_block_triton.cc 50-54,             *)
(* triton_model_impl.cc 327-341).                                          *)
InputCoversShape ==
  pc = "inferring" /\ Uniform =>
    \A k \in DOMAIN request.inputs \intersect found_in :
      num_elements(request.inputs[k].shape) * inputs_[k].item_size
        <= request.inputs[k].items * ItemSize

(* What is posted was computed: the batches asked for are exactly the      *)
(* items produced, for a uniform model with a batch dimension              *)
(* (triton_block_triton.cc 23-25, 50-66).                                  *)
PostedIsInferred ==
  pc = "inferring" /\ Uniform /\ Batched =>
    \A k \in DOMAIN request.inputs, j \in DOMAIN outputs_ :
      request.inputs[k].shape[1] * num_elements(Tail(outputs_[j].shape)) = noutput_items
=============================================================================
