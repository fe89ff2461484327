---------------------------- MODULE TritonBuffer ----------------------------
(***************************************************************************)
(* A Triton buffer's ring (buffer_triton.h) between a writer and a reader  *)
(* that hand windows of it to the server: the items sit in a shared        *)
(* segment, a request names them by offset and size                        *)
(* (triton_model_impl.cc 335-357), and the blocked callbacks move them.    *)
(* Either side is a block under the executor, or a neighbour that keeps    *)
(* the same steps: look at the buffer, name a window, use it, post.  Each  *)
(* call on the buffer is one step.                                         *)
(***************************************************************************)
EXTENDS Integers

CONSTANTS
  Sizes,          \* items a buffer may hold
  WriteMultiple,  \* output_multiple of the writing block
  ReadMultiple,   \* the reading block works on whole multiples of this
  Asks,           \* items_required a reader may ask its callback for
  MinFills,       \* min_buffer_fill a buffer may have, 0 if unset
  MaxFills,       \* max_buffer_fill a buffer may have, 0 if unset
  MaxItems        \* bound: items written

ASSUME BufferAssumption ==
  /\ Sizes \subseteq Nat \ {0}
  /\ {WriteMultiple, ReadMultiple} \subseteq Nat \ {0}
  /\ Asks \subseteq Nat \ {0} /\ MaxItems \in Nat
  /\ MinFills \subseteq Nat /\ MaxFills \subseteq Nat

VARIABLES
  size,       \* items the buffer holds, never changed
  siblings,   \* the writing block has other outputs, never changed
  items_required,  \* what the reader asks for, never changed
  min_fill, max_fill,  \* the buffer's fill limits, never changed
  slot,       \* the item in each place, 0 if none was written there
  write_index, read_index,
  total_written, total_read,
  wpc, rpc,   \* position of the writer and the reader
  w_items, r_items,    \* items of the current work call
  w_offset, r_offset,  \* offset of the window named
  w_named, r_named,    \* its size
  moved       \* windows that were in use when a callback moved the items

config == <<size, siblings, items_required, min_fill, max_fill>>
ring == <<slot, write_index, read_index, total_written, total_read>>
writer == <<wpc, w_items, w_offset, w_named>>
reader == <<rpc, r_items, r_offset, r_named>>
vars == <<config, ring, writer, reader, moved>>

Smaller(a, b) == IF a < b THEN a ELSE b
round_down(n, multiple) == (n \div multiple) * multiple

Places == 0..(size - 1)
unread == total_written - total_read

\* The place of index i, counted on past the end.
Wrapped(i) == IF i < size THEN i ELSE i - size

\* A single-mapped buffer tells of what lies before its end.
items_available == Smaller(unread, size - read_index)
space_available == Smaller(size - unread, size - write_index)

\* What the executor lets the writer's work produce of it: nothing below
\* min_fill, at most max_fill, and whole multiples.
max_output_buffer ==
  LET most == IF max_fill > 0 THEN Smaller(space_available, max_fill) ELSE space_available
  IN IF space_available < min_fill THEN 0 ELSE round_down(most, WriteMultiple)

Init ==
  /\ size \in Sizes /\ siblings \in BOOLEAN /\ items_required \in Asks
  /\ min_fill \in MinFills /\ max_fill \in MaxFills
  /\ slot = [i \in Places |-> 0]
  /\ write_index = 0 /\ read_index = 0
  /\ total_written = 0 /\ total_read = 0
  /\ wpc = "idle" /\ w_items = 0 /\ w_offset = 0 /\ w_named = 0
  /\ rpc = "idle" /\ r_items = 0 /\ r_offset = 0 /\ r_named = 0
  /\ moved = {}

\* Variant: the index runs on past the end.
After_NoWrap(index, n) == index + n

\* The place after the first n from index: back to the front at the end.
After(index, n) == IF index + n = size THEN 0 ELSE index + n

-----------------------------------------------------------------------------
(* The reader.                                                             *)

\* read_info, and a work call on some whole multiple of what it tells (the
\* room at the outputs decides how many).
read_info ==
  /\ rpc = "idle"
  /\ \E n \in 1..items_available : n % ReadMultiple = 0 /\ r_items' = n
  /\ rpc' = "offset"
  /\ UNCHANGED <<config, ring, writer, r_offset, r_named, moved>>

\* infer_batch_zerocopy reads the index of the input ...
NameInputOffset ==
  /\ rpc = "offset"
  /\ r_offset' = read_index
  /\ rpc' = "size"
  /\ UNCHANGED <<config, ring, writer, r_items, r_named, moved>>

\* Variant: all the items of the buffer are named, across its end.
NameInputSize_Across ==
  /\ rpc = "size"
  /\ r_named' = unread
  /\ rpc' = "infer"
  /\ UNCHANGED <<config, ring, writer, r_items, r_offset, moved>>

\* ... and then, in another call, the number of items, and sends the request.
NameInputSize ==
  /\ rpc = "size"
  /\ r_named' = items_available
  /\ rpc' = "infer"
  /\ UNCHANGED <<config, ring, writer, r_items, r_offset, moved>>

\* Variant: everything that was named is posted as read.
post_read_Named ==
  /\ rpc = "infer"
  /\ read_index' = After(read_index, r_named)
  /\ total_read' = total_read + r_named
  /\ rpc' = "idle"
  /\ UNCHANGED <<config, slot, write_index, total_written, writer,
                 r_items, r_offset, r_named, moved>>

\* The server has answered: what was consumed is posted.
post_read ==
  /\ rpc = "infer"
  /\ read_index' = After(read_index, r_items)
  /\ total_read' = total_read + r_items
  /\ rpc' = "idle"
  /\ UNCHANGED <<config, slot, write_index, total_written, writer,
                 r_items, r_offset, r_named, moved>>

\* adjust_buffer_data (external): the items at the end are copied to the
\* front and those at the front moved up behind them, if there is a gap for
\* them; it may decline.
adjust_buffer_data ==
  LET tail == size - read_index IN
  /\ tail <= read_index - write_index
  /\ slot' = [i \in Places |->
       IF i < tail THEN slot[read_index + i]
       ELSE IF i < tail + write_index THEN slot[i - tail] ELSE slot[i]]
  /\ write_index' = write_index + tail
  /\ read_index' = 0
  /\ moved' = moved \union (IF wpc \in {"size", "infer", "filled"} THEN {"room"} ELSE {})
  /\ UNCHANGED <<config, total_written, total_read, writer, reader>>

\* Variant: the callback moves when what is asked for is exactly there.
input_blocked_callback_Eager ==
  /\ rpc = "idle"
  /\ items_available <= items_required /\ write_index < read_index
  /\ adjust_buffer_data

\* Some input of the reading block is short of items: the iteration ends in
\* the callback of every input.
input_blocked_callback ==
  /\ rpc = "idle"
  /\ items_available < items_required /\ write_index < read_index
  /\ adjust_buffer_data

-----------------------------------------------------------------------------
(* The writer.                                                             *)

\* write_info, and a work call on some whole multiple of what it tells.
write_info ==
  /\ wpc = "idle"
  /\ \E n \in 1..max_output_buffer :
       n % WriteMultiple = 0 /\ total_written + n <= MaxItems /\ w_items' = n
  /\ wpc' = "offset"
  /\ UNCHANGED <<config, ring, w_offset, w_named, reader, moved>>

NameOutputOffset ==
  /\ wpc = "offset"
  /\ w_offset' = write_index
  /\ wpc' = "size"
  /\ UNCHANGED <<config, ring, w_items, w_named, reader, moved>>

NameOutputSize ==
  /\ wpc = "size"
  /\ w_named' = space_available
  /\ wpc' = "infer"
  /\ UNCHANGED <<config, ring, w_items, w_offset, reader, moved>>

\* The server (external) writes the next items into the window.
Fill ==
  /\ wpc = "infer"
  /\ slot' = [i \in Places |->
       IF i - w_offset \in 0..(w_items - 1)
       THEN total_written + 1 + i - w_offset ELSE slot[i]]
  /\ wpc' = "filled"
  /\ UNCHANGED <<config, write_index, read_index, total_written, total_read,
                 w_items, w_offset, w_named, reader, moved>>

\* Variant: all the room that was named is posted as written.
post_write_Named ==
  /\ wpc = "filled"
  /\ write_index' = After(write_index, w_named)
  /\ total_written' = total_written + w_named
  /\ wpc' = "idle"
  /\ UNCHANGED <<config, slot, read_index, total_read, w_items, w_offset, w_named,
                 reader, moved>>

post_write ==
  /\ wpc = "filled"
  /\ write_index' = After(write_index, w_items)
  /\ total_written' = total_written + w_items
  /\ wpc' = "idle"
  /\ UNCHANGED <<config, slot, read_index, total_read, w_items, w_offset, w_named,
                 reader, moved>>

\* output_blocked_callback_logic (external): the unread items are moved to the
\* front of the buffer, if they are behind the writer and do not overlap their
\* new place; it may decline.
output_blocked_callback_logic ==
  /\ 0 < read_index /\ read_index < write_index
  /\ unread <= read_index
  /\ slot' = [i \in Places |-> IF i < unread THEN slot[read_index + i] ELSE slot[i]]
  /\ write_index' = unread
  /\ read_index' = 0
  /\ moved' = moved \union (IF rpc \in {"size", "infer"} THEN {"items"} ELSE {})
  /\ UNCHANGED <<config, total_written, total_read, writer, reader>>

\* Some output of the writing block is short of room, or below its min_fill:
\* the iteration ends in the callback of every output.
output_blocked_callback ==
  /\ wpc = "idle"
  /\ max_output_buffer = 0 \/ siblings
  /\ output_blocked_callback_logic

-----------------------------------------------------------------------------
Reader == read_info \/ NameInputOffset \/ NameInputSize \/ post_read
Writer == write_info \/ NameOutputOffset \/ NameOutputSize \/ Fill \/ post_write

\* Of a buffer whose items were moved under a window nothing more is claimed.
Next ==
  /\ moved = {}
  /\ Reader \/ Writer \/ input_blocked_callback \/ output_blocked_callback

\* The reader's thread is scheduled, and its requests are answered.
Spec == Init /\ [][Next]_vars
FairSpec == Spec /\ WF_vars(moved = {} /\ Reader)

-----------------------------------------------------------------------------
TypeOK ==
  /\ size \in Sizes /\ siblings \in BOOLEAN /\ items_required \in Asks
  /\ min_fill \in MinFills /\ max_fill \in MaxFills
  /\ slot \in [Places -> 0..MaxItems]
  /\ write_index \in Places /\ read_index \in Places
  /\ total_written \in 0..MaxItems /\ total_read \in 0..MaxItems
  /\ wpc \in {"idle", "offset", "size", "infer", "filled"}
  /\ rpc \in {"idle", "offset", "size", "infer"}
  /\ w_items \in 0..size /\ w_offset \in Places /\ w_named \in 0..size
  /\ r_items \in 0..size /\ r_offset \in Places /\ r_named \in 0..size
  /\ moved \subseteq {"items", "room"}

(* Nothing moves under a request of a reader that asks its callback for    *)
(* one item, as the executor does (graph_executor.cc 300), unless the      *)
(* buffer's size is no multiple of what the writer writes, its             *)
(* min_buffer_fill is more than that, or another output of the writer was  *)
(* short: then the writer's callback may move the items a request of the   *)
(* reader names (graph_executor.cc 106-131, 306-316, buffer_triton.h       *)
(* 47-50, 87-90).                                                          *)
WriterKeepsAhead ==
  size % WriteMultiple = 0 /\ min_fill <= WriteMultiple /\ ~siblings
WindowsStay ==
  items_required = 1 =>
    /\ "room" \notin moved
    /\ "items" \in moved => ~WriterKeepsAhead

(* A buffer that tells only of what lies before its end still tells enough *)
(* for a work call whenever it holds enough: the part it tells is all, or  *)
(* a multiple at least (graph_executor.cc 44-78, 101-131).                 *)
TellsEnough ==
  /\ size % ReadMultiple = 0
       => items_available = unread \/ items_available >= ReadMultiple
  /\ items_required = 1 /\ WriterKeepsAhead
       => space_available = size - unread \/ space_available >= WriteMultiple

(* A request names a window that lies inside the segment and holds, first, *)
(* the items the executor goes on to post as read, or room for those it    *)
(* goes on to post as written (triton_model_impl.cc 335-357), though       *)
(* offset and size are read one after the other while the other side posts.*)
NamedWindowsHold ==
  moved = {} =>
    /\ rpc = "infer" =>
         /\ r_items <= r_named /\ r_offset + r_named <= size
         /\ \A i \in 0..(r_items - 1) : slot[r_offset + i] = total_read + 1 + i
    /\ wpc = "infer" =>
         /\ w_items <= w_named /\ w_offset + w_named <= size
         /\ \A i \in 0..(w_named - 1), j \in 0..(unread - 1) :
              w_offset + i # Wrapped(read_index + j)

(* The ring is a queue: wrapping and moving neither lose, repeat nor       *)
(* reorder an item.                                                        *)
Fifo == INSTANCE ItemFifo WITH
  total <- total_written,
  unread <- [i \in 1..unread |-> slot[Wrapped(read_index + i - 1)]]
RingIsFifo == Fifo!Spec

(* A buffer whose size is a multiple of the reader's lets every whole      *)
(* multiple through: no tail shorter than a multiple is left before its    *)
(* end, where neither the early return (graph_executor.cc 74-78) nor a     *)
(* callback asked for one item (300) would join it with the front.         *)
MultiplesFlow ==
  \A n \in 1..(MaxItems \div ReadMultiple) :
    (size % ReadMultiple = 0 /\ total_written >= n * ReadMultiple)
      ~> (total_read >= n * ReadMultiple \/ moved # {})
=============================================================================
