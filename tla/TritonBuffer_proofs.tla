------------------------ MODULE TritonBuffer_proofs ------------------------
(***************************************************************************)
(* The ring of a Triton buffer is a queue, and the windows named to the    *)
(* server hold, for buffers of any size and blocks of any multiple.        *)
(***************************************************************************)
EXTENDS TritonBuffer, SequenceTheorems, TLAPS

-----------------------------------------------------------------------------
(* The inductive invariant.                                                *)

\* The unread items lie between the two indices, around the end or not.
Layout ==
  /\ total_read <= total_written /\ unread <= size
  /\ write_index = Wrapped(read_index + unread)

\* What the reader was told of is still there, and its window is where it was.
ReaderHolds ==
  /\ rpc # "idle" => r_items \in 1..items_available
  /\ rpc \in {"size", "infer"} /\ moved = {} => r_offset = read_index
  /\ rpc = "infer" /\ moved = {} => r_named \in r_items..items_available

\* The room the writer was told of is still there.
WriterHolds ==
  /\ wpc # "idle" => w_items \in 1..space_available /\ total_written + w_items <= MaxItems
  /\ wpc \in {"size", "infer", "filled"} /\ moved = {} => w_offset = write_index
  /\ wpc \in {"infer", "filled"} /\ moved = {} => w_named \in w_items..space_available

\* The unread items are in their places, in order.
ItemsInPlace ==
  \A j \in 0..(unread - 1) : slot[Wrapped(read_index + j)] = total_read + 1 + j

\* So are those the server has written and the executor has yet to post.
FilledInPlace ==
  wpc = "filled" /\ moved = {} =>
    \A j \in 0..(w_items - 1) : slot[write_index + j] = total_written + 1 + j

IInv == TypeOK /\ Layout /\ ReaderHolds /\ WriterHolds /\ ItemsInPlace /\ FilledInPlace

\* The variables apart from the items.
Numbers ==
  /\ size \in Nat \ {0} /\ items_required \in Nat \ {0} /\ MaxItems \in Nat
  /\ min_fill \in Nat /\ max_fill \in Nat
  /\ read_index \in 0..(size - 1) /\ write_index \in 0..(size - 1)
  /\ total_written \in 0..MaxItems /\ total_read \in 0..MaxItems
  /\ w_items \in 0..size /\ w_offset \in 0..(size - 1) /\ w_named \in 0..size
  /\ r_items \in 0..size /\ r_offset \in 0..(size - 1) /\ r_named \in 0..size
Rest ==
  /\ size \in Sizes /\ siblings \in BOOLEAN /\ items_required \in Asks
  /\ min_fill \in MinFills /\ max_fill \in MaxFills
  /\ slot \in [Places -> 0..MaxItems]
  /\ wpc \in {"idle", "offset", "size", "infer", "filled"}
  /\ rpc \in {"idle", "offset", "size", "infer"}
  /\ moved \subseteq {"items", "room"}

LEMMA TypeParts == TypeOK <=> Numbers /\ Rest
  BY BufferAssumption DEF TypeOK, Numbers, Rest, Places

LEMMA NextTypeParts == TypeOK' <=> Numbers' /\ Rest'
  BY BufferAssumption DEF TypeOK, Numbers, Rest, Places

-----------------------------------------------------------------------------
(* The invariant holds initially.                                          *)

LEMMA InitIInv == Init => IInv
<1> SUFFICES ASSUME Init PROVE IInv
  OBVIOUS
<1>1. Numbers
  BY BufferAssumption DEF Init, Numbers
<1>2. Rest
  BY BufferAssumption DEF Init, Rest
<1>3. Layout
  BY <1>1 DEF Init, Layout, unread, Wrapped, Numbers
<1>4. ReaderHolds /\ WriterHolds /\ ItemsInPlace /\ FilledInPlace
  BY <1>1 DEF Init, ReaderHolds, WriterHolds, ItemsInPlace, FilledInPlace, unread, Numbers
<1> QED
  BY <1>1, <1>2, <1>3, <1>4, TypeParts DEF IInv

-----------------------------------------------------------------------------
(* The numbers of a step.                                                  *)

Bounds == Numbers /\ Layout /\ ReaderHolds /\ WriterHolds

LEMMA RoundsDown ==
  ASSUME NEW n \in Nat, NEW m \in Nat \ {0}
  PROVE  round_down(n, m) \in 0..n
<1>1. n = m * (n \div m) + (n % m) /\ n \div m \in Nat /\ n % m \in 0..(m - 1)
  OBVIOUS
<1>2. (n \div m) * m = m * (n \div m) /\ m * (n \div m) \in Nat
  BY <1>1
<1> QED
  BY <1>1, <1>2 DEF round_down

\* What the limits leave is no more than the room there is.
LEMMA LimitsLeave == Bounds => max_output_buffer \in 0..space_available
<1> SUFFICES ASSUME Bounds PROVE max_output_buffer \in 0..space_available
  OBVIOUS
<1> DEFINE most == IF max_fill > 0 THEN Smaller(space_available, max_fill) ELSE space_available
<1>1. space_available \in Nat /\ most \in 0..space_available
  BY DEF Bounds, Numbers, Layout, space_available, unread, Smaller
<1>2. round_down(most, WriteMultiple) \in 0..most
  BY <1>1, RoundsDown, BufferAssumption
<1> QED
  BY <1>1, <1>2 DEF max_output_buffer

LEMMA LookKeepsBounds ==
  Bounds /\ (read_info \/ write_info) => Bounds'
<1> SUFFICES ASSUME Bounds, read_info \/ write_info PROVE Bounds'
  OBVIOUS
<1> USE DEF Bounds, Numbers, Layout, ReaderHolds, WriterHolds, config, ring, writer, reader,
            unread, items_available, space_available, Smaller, Wrapped
<1>1. CASE read_info
  BY <1>1 DEF read_info
<1>2. CASE write_info
  <2>1. /\ w_items' \in 1..space_available /\ total_written + w_items' <= MaxItems
        /\ UNCHANGED <<config, ring, w_offset, w_named, reader, moved>> /\ wpc' = "offset"
    BY <1>2, LimitsLeave DEF write_info
  <2>2. /\ UNCHANGED <<size, read_index, write_index, total_written, total_read>>
        /\ UNCHANGED <<items_required, min_fill, max_fill, w_offset, w_named, r_items, r_offset,
                       r_named, rpc, moved>>
    BY <2>1
  <2>3. space_available' = space_available /\ items_available' = items_available
    BY <2>2
  <2>4. Numbers'
    BY <2>1, <2>2
  <2>5. Layout' /\ ReaderHolds'
    BY <2>2
  <2>6. WriterHolds'
    BY <2>1, <2>2
  <2> QED
    BY <2>4, <2>5, <2>6
<1> QED
  BY <1>1, <1>2

LEMMA NamingKeepsBounds ==
  /\ Bounds
  /\ NameInputOffset \/ NameInputSize \/ NameOutputOffset \/ NameOutputSize \/ Fill
  => Bounds'
<1> SUFFICES ASSUME Bounds,
                    NameInputOffset \/ NameInputSize \/ NameOutputOffset \/ NameOutputSize \/ Fill
             PROVE  Bounds'
  OBVIOUS
<1> USE DEF Bounds, Numbers, Layout, ReaderHolds, WriterHolds, config, ring, writer, reader,
            unread, items_available, space_available, Smaller, Wrapped
<1>1. CASE NameInputOffset
  BY <1>1 DEF NameInputOffset
<1>2. CASE NameInputSize
  BY <1>2 DEF NameInputSize
<1>3. CASE NameOutputOffset
  BY <1>3 DEF NameOutputOffset
<1>4. CASE NameOutputSize
  BY <1>4 DEF NameOutputSize
<1>5. CASE Fill
  BY <1>5 DEF Fill
<1> QED
  BY <1>1, <1>2, <1>3, <1>4, <1>5

LEMMA ReadKeepsBounds == Bounds /\ post_read => Bounds'
<1> SUFFICES ASSUME Bounds, post_read PROVE Bounds'
  OBVIOUS
<1> USE DEF Bounds, Numbers, Layout, ReaderHolds, WriterHolds, config, writer, reader,
            unread, items_available, space_available, Smaller, Wrapped, After
<1>1. CASE read_index + r_items = size
  BY <1>1 DEF post_read
<1>2. CASE read_index + r_items # size
  BY <1>2 DEF post_read
<1> QED
  BY <1>1, <1>2

LEMMA WriteKeepsBounds == Bounds /\ post_write => Bounds'
<1> SUFFICES ASSUME Bounds, post_write PROVE Bounds'
  OBVIOUS
<1> USE DEF Bounds, Numbers, Layout, ReaderHolds, WriterHolds, config, writer, reader,
            unread, items_available, space_available, Smaller, Wrapped, After
<1>1. CASE write_index + w_items = size
  BY <1>1 DEF post_write
<1>2. CASE write_index + w_items # size
  BY <1>2 DEF post_write
<1> QED
  BY <1>1, <1>2

\* With one item asked for, or more: the reader's callback moves only what
\* lies before the end when the writer is at the front.
LEMMA AdjustKeepsBounds == Bounds /\ input_blocked_callback => Bounds'
<1> SUFFICES ASSUME Bounds, input_blocked_callback PROVE Bounds'
  OBVIOUS
<1> USE DEF Bounds, Numbers, Layout, config, unread, items_available, space_available,
            Smaller, Wrapped
<1>1. /\ rpc = "idle" /\ write_index < read_index
      /\ size - read_index <= read_index - write_index
      /\ write_index' = write_index + (size - read_index) /\ read_index' = 0
      /\ UNCHANGED <<config, total_written, total_read, writer, reader>>
      /\ moved' = moved \union (IF wpc \in {"size", "infer", "filled"} THEN {"room"} ELSE {})
  BY DEF input_blocked_callback, adjust_buffer_data
<1>2. unread = write_index + size - read_index
  BY <1>1
<1>3. Numbers' /\ Layout'
  BY <1>1, <1>2 DEF writer, reader
<1>4. ReaderHolds'
  BY <1>1 DEF ReaderHolds, reader
<1>5. space_available <= read_index - write_index /\ space_available' = read_index - write_index
  BY <1>1, <1>2
<1>6. WriterHolds'
  BY <1>1, <1>5 DEF WriterHolds, writer
<1> QED
  BY <1>3, <1>4, <1>6

LEMMA LogicKeepsBounds == Bounds /\ output_blocked_callback => Bounds'
<1> SUFFICES ASSUME Bounds, output_blocked_callback PROVE Bounds'
  OBVIOUS
<1> USE DEF Bounds, Numbers, Layout, config, unread, items_available, space_available,
            Smaller, Wrapped
<1>1. /\ wpc = "idle" /\ 0 < read_index /\ read_index < write_index /\ unread <= read_index
      /\ write_index' = unread /\ read_index' = 0
      /\ UNCHANGED <<config, total_written, total_read, writer, reader>>
      /\ moved' = moved \union (IF rpc \in {"size", "infer"} THEN {"items"} ELSE {})
  BY DEF output_blocked_callback, output_blocked_callback_logic
<1>2. Numbers' /\ Layout'
  BY <1>1 DEF writer, reader
<1>3. items_available <= unread /\ items_available' = unread
  BY <1>1
<1>4. ReaderHolds'
  BY <1>1, <1>3 DEF ReaderHolds, reader
<1>5. WriterHolds'
  BY <1>1 DEF WriterHolds, writer
<1> QED
  BY <1>2, <1>4, <1>5

LEMMA NextBounds == Bounds /\ [Next]_vars => Bounds'
<1> SUFFICES ASSUME Bounds, [Next]_vars PROVE Bounds'
  OBVIOUS
<1>1. CASE UNCHANGED vars
  BY <1>1 DEF vars, config, ring, writer, reader, Bounds, Numbers, Layout, ReaderHolds,
              WriterHolds, unread, items_available, space_available, Smaller, Wrapped
<1> QED
  BY <1>1, LookKeepsBounds, NamingKeepsBounds, ReadKeepsBounds, WriteKeepsBounds,
     AdjustKeepsBounds, LogicKeepsBounds
  DEF Next, Reader, Writer

-----------------------------------------------------------------------------
(* The items of a step.                                                    *)

Moves == input_blocked_callback \/ output_blocked_callback

LEMMA NextRest == Bounds /\ Rest /\ [Next]_vars => Rest'
<1> SUFFICES ASSUME Bounds, Rest, [Next]_vars PROVE Rest'
  OBVIOUS
<1> USE DEF Rest, config
<1>1. CASE Reader
  BY <1>1 DEF Reader, read_info, NameInputOffset, NameInputSize, post_read, ring, writer, Places
<1>2. CASE write_info \/ NameOutputOffset \/ NameOutputSize \/ post_write
  BY <1>2 DEF write_info, NameOutputOffset, NameOutputSize, post_write, ring, reader, Places
<1>3. CASE Fill
  <2>1. total_written + w_items <= MaxItems
    BY <1>3 DEF Fill, Bounds, WriterHolds
  <2>2. \A i \in Places : i - w_offset \in 0..(w_items - 1)
                          => total_written + 1 + i - w_offset \in 0..MaxItems
    BY <2>1 DEF Bounds, Numbers, Places
  <2>3. slot' \in [Places -> 0..MaxItems]
    BY <1>3, <2>2 DEF Fill
  <2> QED
    BY <1>3, <2>3 DEF Fill, reader, Places
<1>4. CASE input_blocked_callback
  <2>1. \A i \in Places :
          /\ i < size - read_index => read_index + i \in Places
          /\ i >= size - read_index => i - (size - read_index) \in Places
    BY DEF Bounds, Numbers, Places
  <2>2. slot' \in [Places -> 0..MaxItems]
    BY <1>4, <2>1 DEF input_blocked_callback, adjust_buffer_data, Bounds, Numbers, Places
  <2> QED
    BY <1>4, <2>2 DEF input_blocked_callback, adjust_buffer_data, reader, writer, Places
<1>5. CASE output_blocked_callback
  <2>1. \A i \in Places : i < unread => read_index + i \in Places
    BY <1>5 DEF output_blocked_callback, output_blocked_callback_logic, Bounds, Numbers, Layout,
                Places, unread, Wrapped
  <2>2. slot' \in [Places -> 0..MaxItems]
    BY <1>5, <2>1 DEF output_blocked_callback, output_blocked_callback_logic
  <2> QED
    BY <1>5, <2>2 DEF output_blocked_callback, output_blocked_callback_logic, reader, writer,
                      Places
<1>6. CASE UNCHANGED vars
  BY <1>6 DEF vars, ring, writer, reader, Places
<1> QED
  BY <1>1, <1>2, <1>3, <1>4, <1>5, <1>6 DEF Next, Writer

LEMMA NextItemsInPlace ==
  Bounds /\ Rest /\ ItemsInPlace /\ FilledInPlace /\ [Next]_vars => ItemsInPlace'
<1> SUFFICES ASSUME Bounds, Rest, ItemsInPlace, FilledInPlace, [Next]_vars
             PROVE  ItemsInPlace'
  OBVIOUS
<1> USE DEF ItemsInPlace, config, unread
<1>1. CASE read_info \/ NameInputOffset \/ NameInputSize
  BY <1>1 DEF read_info, NameInputOffset, NameInputSize, ring, Wrapped
<1>2. CASE write_info \/ NameOutputOffset \/ NameOutputSize \/ UNCHANGED vars
  BY <1>2 DEF write_info, NameOutputOffset, NameOutputSize, ring, vars, Wrapped
<1>3. CASE post_read
  <2> SUFFICES ASSUME NEW j \in 0..(unread' - 1)
               PROVE  slot'[Wrapped(read_index + j)'] = total_read' + 1 + j
    BY DEF Wrapped
  <2>1. /\ r_items \in 1..items_available /\ slot' = slot /\ size' = size
        /\ read_index' = After(read_index, r_items)
        /\ total_read' = total_read + r_items /\ total_written' = total_written
    BY <1>3 DEF post_read, Bounds, ReaderHolds
  <2>2. j + r_items \in 0..(unread - 1)
    BY <2>1 DEF Bounds, Numbers
  <2>3. /\ size \in Nat /\ read_index \in 0..(size - 1) /\ r_items \in 0..size /\ j \in Nat
        /\ unread \in 0..size /\ total_read \in Nat /\ total_written \in Nat
    BY <2>1 DEF Bounds, Numbers, Layout
  <2>4. Wrapped(read_index + j)' = Wrapped(read_index + (j + r_items))
    <3>1. CASE read_index + r_items = size
      <4>1. read_index' = 0 /\ j < size
        BY <2>1, <2>2, <2>3, <3>1 DEF After
      <4>2. Wrapped(read_index + j)' = j
        BY <2>1, <2>3, <4>1 DEF Wrapped
      <4>3. Wrapped(read_index + (j + r_items)) = j
        BY <2>3, <3>1 DEF Wrapped
      <4> QED
        BY <4>2, <4>3
    <3>2. CASE read_index + r_items # size
      <4>1. read_index' = read_index + r_items
        BY <2>1, <3>2 DEF After
      <4> QED
        BY <2>1, <2>3, <4>1 DEF Wrapped
    <3> QED
      BY <3>1, <3>2
  <2>5. slot[Wrapped(read_index + (j + r_items))] = total_read + 1 + (j + r_items)
    BY <2>2
  <2> QED
    BY <2>1, <2>3, <2>4, <2>5
<1>4. CASE post_write /\ moved = {}
  <2> SUFFICES ASSUME NEW j \in 0..(unread' - 1)
               PROVE  slot'[Wrapped(read_index + j)'] = total_read' + 1 + j
    BY DEF Wrapped
  <2>1. /\ w_items \in 1..space_available /\ UNCHANGED <<size, slot, read_index, total_read>>
        /\ total_written' = total_written + w_items /\ wpc = "filled"
    BY <1>4 DEF post_write, Bounds, WriterHolds
  <2>2. Wrapped(read_index + j)' = Wrapped(read_index + j)
    BY <2>1 DEF Wrapped
  <2>3. CASE j < unread
    BY <2>1, <2>2, <2>3 DEF Bounds, Numbers
  <2>4. CASE j >= unread
    <3>1. j - unread \in 0..(w_items - 1)
      BY <2>1, <2>4 DEF Bounds, Numbers
    <3>2. Wrapped(read_index + j) = write_index + (j - unread)
      BY <2>1, <2>4, <3>1
      DEF Bounds, Numbers, Layout, space_available, Smaller, Wrapped
    <3>3. slot[write_index + (j - unread)] = total_written + 1 + (j - unread)
      BY <1>4, <2>1, <3>1 DEF FilledInPlace
    <3> QED
      BY <2>1, <2>2, <3>2, <3>3 DEF Bounds, Numbers
  <2> QED
    BY <2>1, <2>3, <2>4 DEF Bounds, Numbers
<1>5. CASE Fill /\ moved = {}
  <2> SUFFICES ASSUME NEW j \in 0..(unread - 1)
               PROVE  slot'[Wrapped(read_index + j)] = total_read + 1 + j
    BY <1>5 DEF Fill, Wrapped
  <2>1. w_items \in 1..space_available /\ w_offset = write_index
    BY <1>5 DEF Fill, Bounds, WriterHolds
  <2>2. /\ Wrapped(read_index + j) \in Places
        /\ Wrapped(read_index + j) - w_offset \notin 0..(w_items - 1)
    BY <2>1 DEF Bounds, Numbers, Layout, space_available, Smaller, Wrapped, Places
  <2> QED
    BY <1>5, <2>2 DEF Fill
<1>6. CASE input_blocked_callback
  <2>0. UNCHANGED <<size, total_written, total_read>> /\ read_index' = 0
    BY <1>6 DEF input_blocked_callback, adjust_buffer_data
  <2> SUFFICES ASSUME NEW j \in 0..(unread - 1)
               PROVE  slot'[Wrapped(j)] = total_read + 1 + j
    BY <2>0 DEF Wrapped
  <2>1. /\ write_index < read_index /\ size - read_index <= read_index - write_index
        /\ slot' = [i \in Places |->
             IF i < size - read_index THEN slot[read_index + i]
             ELSE IF i < size - read_index + write_index THEN slot[i - (size - read_index)]
             ELSE slot[i]]
    BY <1>6 DEF input_blocked_callback, adjust_buffer_data
  <2>2. unread = write_index + size - read_index
    BY <2>1 DEF Bounds, Numbers, Layout, Wrapped
  <2>3. j \in Places /\ Wrapped(j) = j /\ j < size - read_index + write_index
    BY <2>1, <2>2 DEF Bounds, Numbers, Places, Wrapped
  <2>4. slot[Wrapped(read_index + j)] = total_read + 1 + j
    OBVIOUS
  <2>5. CASE j < size - read_index
    <3>1. Wrapped(read_index + j) = read_index + j
      BY <2>5 DEF Bounds, Numbers, Wrapped
    <3> QED
      BY <2>1, <2>3, <2>4, <2>5, <3>1
  <2>6. CASE ~(j < size - read_index)
    <3>1. Wrapped(read_index + j) = j - (size - read_index)
      BY <2>6 DEF Bounds, Numbers, Wrapped
    <3> QED
      BY <2>1, <2>3, <2>4, <2>6, <3>1
  <2> QED
    BY <2>5, <2>6
<1>7. CASE output_blocked_callback
  <2> SUFFICES ASSUME NEW j \in 0..(unread - 1)
               PROVE  slot'[Wrapped(j)] = total_read + 1 + j
    BY <1>7 DEF output_blocked_callback, output_blocked_callback_logic, Wrapped, Bounds, Numbers
  <2>1. /\ read_index < write_index
        /\ slot' = [i \in Places |-> IF i < unread THEN slot[read_index + i] ELSE slot[i]]
    BY <1>7 DEF output_blocked_callback, output_blocked_callback_logic
  <2>2. /\ j \in Places /\ Wrapped(j) = j /\ j < unread
        /\ Wrapped(read_index + j) = read_index + j
    BY <2>1 DEF Bounds, Numbers, Layout, Places, Wrapped
  <2> QED
    BY <2>1, <2>2
<1> QED
  BY <1>1, <1>2, <1>3, <1>4, <1>5, <1>6, <1>7 DEF Next, Reader, Writer

LEMMA NextFilledInPlace ==
  Bounds /\ Rest /\ FilledInPlace /\ [Next]_vars => FilledInPlace'
<1> SUFFICES ASSUME Bounds, Rest, FilledInPlace, [Next]_vars PROVE FilledInPlace'
  OBVIOUS
<1> USE DEF FilledInPlace
<1>1. CASE Reader
  BY <1>1 DEF Reader, read_info, NameInputOffset, NameInputSize, post_read, config, ring, writer
<1>2. CASE write_info \/ NameOutputOffset \/ NameOutputSize \/ post_write
  BY <1>2 DEF write_info, NameOutputOffset, NameOutputSize, post_write
<1>3. CASE Fill /\ moved = {}
  <2>1. w_items \in 1..space_available /\ w_offset = write_index
    BY <1>3 DEF Fill, Bounds, WriterHolds
  <2>2. \A j \in 0..(w_items - 1) :
          write_index + j \in Places /\ (write_index + j) - w_offset = j
    BY <2>1 DEF Bounds, Numbers, Layout, Places, space_available, Smaller, unread
  <2>3. \A j \in 0..(w_items - 1) : slot'[write_index + j] = total_written + 1 + j
    BY <1>3, <2>2 DEF Fill, Bounds, Numbers
  <2> QED
    BY <1>3, <2>3 DEF Fill
<1>4. CASE input_blocked_callback
  BY <1>4 DEF input_blocked_callback, adjust_buffer_data, writer
<1>5. CASE output_blocked_callback
  BY <1>5 DEF output_blocked_callback, output_blocked_callback_logic, writer
<1>6. CASE UNCHANGED vars
  BY <1>6 DEF vars, config, ring, writer
<1> QED
  BY <1>1, <1>2, <1>3, <1>4, <1>5, <1>6 DEF Next, Writer

-----------------------------------------------------------------------------
LEMMA NextIInv == IInv /\ [Next]_vars => IInv'
  BY TypeParts, NextTypeParts, NextBounds, NextRest, NextItemsInPlace, NextFilledInPlace
  DEF IInv, Bounds

LEMMA Invariance == Spec => []IInv
<1>1. Init => IInv
  BY InitIInv
<1>2. IInv /\ [Next]_vars => IInv'
  BY NextIInv
<1> QED
  BY <1>1, <1>2, PTL DEF Spec

(* Every variable stays in its domain, whatever the sizes and multiples.   *)
THEOREM TypeCorrect == Spec => []TypeOK
<1>1. IInv => TypeOK
  BY DEF IInv
<1> QED
  BY <1>1, Invariance, PTL

(* A request names a window inside the segment that holds what is posted   *)
(* for it (triton_model_impl.cc 335-357).                                  *)
THEOREM WindowsAreSound == Spec => []NamedWindowsHold
<1>1. IInv => NamedWindowsHold
  <2> SUFFICES ASSUME IInv, moved = {}
               PROVE  /\ rpc = "infer" =>
                           /\ r_items <= r_named /\ r_offset + r_named <= size
                           /\ \A i \in 0..(r_items - 1) :
                                slot[r_offset + i] = total_read + 1 + i
                      /\ wpc = "infer" =>
                           /\ w_items <= w_named /\ w_offset + w_named <= size
                           /\ \A i \in 0..(w_named - 1), j \in 0..(unread - 1) :
                                w_offset + i # Wrapped(read_index + j)
    BY DEF NamedWindowsHold
  <2>0. /\ size \in Nat /\ read_index \in 0..(size - 1) /\ write_index \in 0..(size - 1)
        /\ unread \in 0..size /\ write_index = Wrapped(read_index + unread)
    BY TypeParts DEF IInv, Numbers, Layout, unread
  <2>1. ASSUME rpc = "infer"
        PROVE  /\ r_items <= r_named /\ r_offset + r_named <= size
               /\ \A i \in 0..(r_items - 1) : slot[r_offset + i] = total_read + 1 + i
    <3>1. r_offset = read_index /\ r_items \in 1..items_available
          /\ r_named \in r_items..items_available
      BY <2>1 DEF IInv, ReaderHolds
    <3>2. ASSUME NEW i \in 0..(r_items - 1) PROVE slot[r_offset + i] = total_read + 1 + i
      <4>1. i \in 0..(unread - 1) /\ Wrapped(read_index + i) = read_index + i
        BY <2>0, <3>1 DEF items_available, Smaller, Wrapped
      <4> QED
        BY <3>1, <4>1 DEF IInv, ItemsInPlace
    <3>3. r_items <= r_named /\ r_offset + r_named <= size
      BY <2>0, <3>1 DEF items_available, Smaller
    <3> QED
      BY <3>2, <3>3
  <2>2. ASSUME wpc = "infer"
        PROVE  /\ w_items <= w_named /\ w_offset + w_named <= size
               /\ \A i \in 0..(w_named - 1), j \in 0..(unread - 1) :
                    w_offset + i # Wrapped(read_index + j)
    <3>1. w_offset = write_index /\ w_items \in 1..space_available
          /\ w_named \in w_items..space_available
      BY <2>2 DEF IInv, WriterHolds
    <3>2. w_items <= w_named /\ w_offset + w_named <= size
      BY <2>0, <3>1 DEF space_available, Smaller
    <3>3. \A i \in 0..(w_named - 1), j \in 0..(unread - 1) :
            w_offset + i # Wrapped(read_index + j)
      BY <2>0, <3>1 DEF space_available, Smaller, Wrapped
    <3> QED
      BY <3>2, <3>3
  <2> QED
    BY <2>1, <2>2
<1> QED
  BY <1>1, Invariance, PTL

-----------------------------------------------------------------------------
(* Multiples.                                                              *)

\* No multiple of d lies strictly between 0 and d.
LEMMA NoMultipleBetween ==
  ASSUME NEW d \in Nat \ {0}, NEW k \in Int, NEW r \in 0..(d - 1), d * k = r
  PROVE  r = 0
<1>1. CASE k >= 1
  <2>1. d * k >= d
    BY <1>1
  <2> QED
    BY <2>1
<1>2. CASE k <= 0 - 1
  <2>1. d * k < 0
    BY <1>2
  <2> QED
    BY <2>1
<1>3. CASE k = 0
  BY <1>3
<1> QED
  BY <1>1, <1>2, <1>3

LEMMA ProductIsMultiple ==
  ASSUME NEW d \in Nat \ {0}, NEW a \in Nat, NEW k \in Nat, a = d * k
  PROVE  a % d = 0
<1>1. PICK q \in Nat, r \in 0..(d - 1) : a = d * q + r /\ r = a % d
  <2>1. a = d * (a \div d) + (a % d) /\ a \div d \in Nat /\ a % d \in 0..(d - 1)
    OBVIOUS
  <2> QED
    BY <2>1
<1>2. k - q \in Int /\ d * (k - q) = r
  BY <1>1
<1>3. r = 0
  BY <1>2, NoMultipleBetween
<1> QED
  BY <1>1, <1>3

LEMMA MultipleIsProduct ==
  ASSUME NEW d \in Nat \ {0}, NEW a \in Nat, a % d = 0
  PROVE  \E k \in Nat : a = d * k
<1>1. a = d * (a \div d) + (a % d) /\ a \div d \in Nat
  OBVIOUS
<1>2. a = d * (a \div d)
  BY <1>1
<1> QED
  BY <1>1, <1>2

LEMMA SumOfMultiples ==
  ASSUME NEW d \in Nat \ {0}, NEW a \in Nat, NEW b \in Nat, a % d = 0, b % d = 0
  PROVE  (a + b) % d = 0
<1>1. PICK k \in Nat : a = d * k
  BY MultipleIsProduct
<1>2. PICK m \in Nat : b = d * m
  BY MultipleIsProduct
<1>3. a + b = d * (k + m)
  BY <1>1, <1>2
<1>4. k + m \in Nat /\ a + b \in Nat
  OBVIOUS
<1> QED
  BY <1>3, <1>4, ProductIsMultiple

LEMMA DifferenceOfMultiples ==
  ASSUME NEW d \in Nat \ {0}, NEW a \in Nat, NEW b \in 0..a, a % d = 0, b % d = 0
  PROVE  (a - b) % d = 0
<1>1. PICK k \in Nat : a = d * k
  BY MultipleIsProduct
<1>2. PICK m \in Nat : b = d * m
  BY MultipleIsProduct
<1>3. a - b = d * (k - m)
  BY <1>1, <1>2
<1>4. k - m \in Nat
  BY <1>1, <1>2
<1> QED
  BY <1>3, <1>4, ProductIsMultiple

LEMMA MultipleIsLarge ==
  ASSUME NEW d \in Nat \ {0}, NEW a \in Nat \ {0}, a % d = 0
  PROVE  a >= d
  OBVIOUS

LEMMA LargeRoundsUpFromZero ==
  ASSUME NEW d \in Nat \ {0}, NEW a \in Nat, a >= d
  PROVE  round_down(a, d) # 0
  BY DEF round_down

-----------------------------------------------------------------------------
(* No window moves under a reader that asks for one item.                  *)

\* The writer keeps to its multiples as long as the buffer's end is one.
AlignedHolds ==
  items_required = 1 /\ WriterKeepsAhead =>
    /\ write_index % WriteMultiple = 0
    /\ wpc # "idle" => w_items % WriteMultiple = 0
    /\ max_fill \in 1..(WriteMultiple - 1) => wpc = "idle" /\ write_index = 0
    /\ moved = {}
NoRoomMoved == items_required = 1 => "room" \notin moved

\* Where one item is asked for, none there means that the indices coincide.
LEMMA NothingToAdjust == Bounds /\ items_required = 1 => ~input_blocked_callback
  BY DEF Bounds, Numbers, Layout, input_blocked_callback, items_available, Smaller, Wrapped,
         unread

\* A writer at a multiple, with items before it, has room for a multiple, and
\* is let write it unless it may never write.
LEMMA NothingToShift ==
  ASSUME Bounds, WriterKeepsAhead, write_index % WriteMultiple = 0,
         max_fill \in 1..(WriteMultiple - 1) => write_index = 0
  PROVE  ~output_blocked_callback
<1> SUFFICES ASSUME output_blocked_callback PROVE FALSE
  OBVIOUS
<1>1. /\ size \in Nat \ {0} /\ write_index \in 0..(size - 1) /\ read_index \in 0..(size - 1)
      /\ unread \in 0..size /\ write_index = Wrapped(read_index + unread)
      /\ WriteMultiple \in Nat \ {0} /\ min_fill \in Nat /\ max_fill \in Nat
  BY BufferAssumption DEF Bounds, Numbers, Layout, unread
<1>2. read_index < write_index /\ max_output_buffer = 0
  BY DEF output_blocked_callback, output_blocked_callback_logic, WriterKeepsAhead
<1>3. (size - write_index) % WriteMultiple = 0
  BY <1>1, DifferenceOfMultiples DEF WriterKeepsAhead
<1>4. size - write_index >= WriteMultiple
  BY <1>1, <1>3, MultipleIsLarge
<1>5. space_available \in Nat /\ space_available >= WriteMultiple
  BY <1>1, <1>2, <1>4 DEF space_available, Smaller, Wrapped
<1>6. max_fill > 0 => max_fill >= WriteMultiple
  BY <1>1, <1>2
<1> DEFINE most == IF max_fill > 0 THEN Smaller(space_available, max_fill) ELSE space_available
<1>7. most \in Nat /\ most >= WriteMultiple
  BY <1>1, <1>5, <1>6 DEF Smaller
<1>8. round_down(most, WriteMultiple) # 0
  BY <1>1, <1>7, LargeRoundsUpFromZero
<1>9. ~(space_available < min_fill)
  BY <1>1, <1>5 DEF WriterKeepsAhead
<1> QED
  BY <1>2, <1>8, <1>9 DEF max_output_buffer

\* A max_fill below the multiple lets nothing be written.
LEMMA NothingToWrite ==
  ASSUME Bounds, max_fill \in 1..(WriteMultiple - 1)
  PROVE  ~write_info
<1> DEFINE most == Smaller(space_available, max_fill)
<1>1. space_available \in Nat /\ WriteMultiple \in Nat \ {0} /\ max_fill \in Nat /\ max_fill > 0
  BY BufferAssumption DEF Bounds, Numbers, Layout, space_available, unread, Smaller
<1>2. most \in 0..(WriteMultiple - 1)
  BY <1>1 DEF Smaller
<1>3. \A n \in 1..most : n % WriteMultiple # 0
  BY <1>1, <1>2
<1>4. round_down(most, WriteMultiple) \in 0..most
  BY <1>1, <1>2, RoundsDown
<1>5. max_output_buffer \in 0..most
  BY <1>1, <1>2, <1>4 DEF max_output_buffer
<1>6. \A n \in 1..max_output_buffer : n % WriteMultiple # 0
  BY <1>2, <1>3, <1>5
<1> QED
  BY <1>6 DEF write_info

LEMMA NextAligned == IInv /\ AlignedHolds /\ [Next]_vars => AlignedHolds'
<1> SUFFICES ASSUME IInv, AlignedHolds, [Next]_vars, (items_required = 1 /\ WriterKeepsAhead)'
             PROVE  /\ write_index' % WriteMultiple = 0
                    /\ wpc' # "idle" => w_items' % WriteMultiple = 0
                    /\ (max_fill \in 1..(WriteMultiple - 1))' => wpc' = "idle" /\ write_index' = 0
                    /\ moved' = {}
  BY DEF AlignedHolds
<1>1. UNCHANGED config
  BY DEF Next, Reader, Writer, read_info, NameInputOffset, NameInputSize, post_read, write_info,
         NameOutputOffset, NameOutputSize, Fill, post_write, input_blocked_callback,
         adjust_buffer_data, output_blocked_callback, output_blocked_callback_logic, vars
<1>2. /\ items_required = 1 /\ WriterKeepsAhead /\ write_index % WriteMultiple = 0 /\ moved = {}
      /\ wpc # "idle" => w_items % WriteMultiple = 0
      /\ max_fill \in 1..(WriteMultiple - 1) => wpc = "idle" /\ write_index = 0
      /\ max_fill' = max_fill
  BY <1>1 DEF AlignedHolds, WriterKeepsAhead, config
<1>3. Bounds
  BY TypeParts DEF IInv, Bounds
<1>4. CASE Reader
  BY <1>2, <1>4 DEF Reader, read_info, NameInputOffset, NameInputSize, post_read, ring, writer
<1>5. CASE write_info
  <2>1. max_fill \notin 1..(WriteMultiple - 1)
    BY <1>3, <1>5, NothingToWrite
  <2> QED
    BY <1>2, <1>5, <2>1 DEF write_info, ring
<1>6. CASE NameOutputOffset \/ NameOutputSize \/ Fill
  BY <1>2, <1>6 DEF NameOutputOffset, NameOutputSize, Fill, ring
<1>7. CASE post_write
  <2>1. /\ write_index' = After(write_index, w_items) /\ wpc' = "idle" /\ moved' = moved
        /\ w_items % WriteMultiple = 0 /\ max_fill \notin 1..(WriteMultiple - 1)
    BY <1>2, <1>7 DEF post_write
  <2>2. write_index \in Nat /\ w_items \in Nat /\ WriteMultiple \in Nat \ {0}
    BY <1>3, BufferAssumption DEF Bounds, Numbers
  <2>3. (write_index + w_items) % WriteMultiple = 0
    BY <1>2, <2>1, <2>2, SumOfMultiples
  <2>4. 0 % WriteMultiple = 0
    BY <2>2
  <2> QED
    BY <1>2, <2>1, <2>3, <2>4 DEF After
<1>8. CASE UNCHANGED vars
  BY <1>2, <1>8 DEF vars, ring, writer
<1> QED
  BY <1>2, <1>3, <1>4, <1>5, <1>6, <1>7, <1>8, NothingToAdjust, NothingToShift DEF Next, Writer

LEMMA NextNoRoomMoved == IInv /\ NoRoomMoved /\ [Next]_vars => NoRoomMoved'
<1> SUFFICES ASSUME IInv, NoRoomMoved, [Next]_vars PROVE NoRoomMoved'
  OBVIOUS
<1> USE DEF NoRoomMoved, config
<1>1. CASE Reader
  BY <1>1 DEF Reader, read_info, NameInputOffset, NameInputSize, post_read
<1>2. CASE Writer
  BY <1>2 DEF Writer, write_info, NameOutputOffset, NameOutputSize, Fill, post_write
<1>3. CASE input_blocked_callback
  <2>1. Bounds
    BY TypeParts DEF IInv, Bounds
  <2>2. UNCHANGED config
    BY <1>3 DEF input_blocked_callback, adjust_buffer_data
  <2> QED
    BY <1>3, <2>1, <2>2, NothingToAdjust
<1>4. CASE output_blocked_callback
  BY <1>4 DEF output_blocked_callback, output_blocked_callback_logic
<1>5. CASE UNCHANGED vars
  BY <1>5 DEF vars
<1> QED
  BY <1>1, <1>2, <1>3, <1>4, <1>5 DEF Next

LEMMA AlignedInvariance == Spec => [](IInv /\ AlignedHolds /\ NoRoomMoved)
<1>1. Init => AlignedHolds /\ NoRoomMoved
  <2>1. 0 % WriteMultiple = 0
    BY BufferAssumption
  <2>2. Init => write_index = 0 /\ wpc = "idle" /\ moved = {}
    BY DEF Init
  <2> QED
    BY <2>1, <2>2 DEF AlignedHolds, NoRoomMoved
<1>2. IInv /\ AlignedHolds /\ NoRoomMoved /\ [Next]_vars => (AlignedHolds /\ NoRoomMoved)'
  BY NextAligned, NextNoRoomMoved
<1> QED
  BY <1>1, <1>2, Invariance, PTL DEF Spec

(* Under a reader that asks for one item, as the executor does             *)
(* (graph_executor.cc 300), no request's window is moved, unless the       *)
(* buffer's size is no multiple of the writer's, its min_buffer_fill is    *)
(* more than that, or the writer has another output (106-131, 306-316).    *)
THEOREM NothingMovesUnderARequest == Spec => []WindowsStay
<1>1. AlignedHolds /\ NoRoomMoved => WindowsStay
  BY DEF AlignedHolds, NoRoomMoved, WindowsStay
<1> QED
  BY <1>1, AlignedInvariance, PTL

\* The reader keeps to its multiples as long as the buffer's end is one.
ReaderAligned ==
  size % ReadMultiple = 0 =>
    /\ read_index % ReadMultiple = 0
    /\ rpc # "idle" => r_items % ReadMultiple = 0

LEMMA NextReaderAligned == IInv /\ ReaderAligned /\ [Next]_vars => ReaderAligned'
<1> SUFFICES ASSUME IInv, ReaderAligned, [Next]_vars, (size % ReadMultiple = 0)'
             PROVE  /\ read_index' % ReadMultiple = 0
                    /\ rpc' # "idle" => r_items' % ReadMultiple = 0
  BY DEF ReaderAligned
<1>1. size' = size
  BY DEF Next, Reader, Writer, read_info, NameInputOffset, NameInputSize, post_read, write_info,
         NameOutputOffset, NameOutputSize, Fill, post_write, input_blocked_callback,
         adjust_buffer_data, output_blocked_callback, output_blocked_callback_logic, vars, config
<1>2. read_index % ReadMultiple = 0 /\ (rpc # "idle" => r_items % ReadMultiple = 0)
  BY <1>1 DEF ReaderAligned
<1>3. read_index \in Nat /\ r_items \in Nat /\ ReadMultiple \in Nat \ {0} /\ 0 % ReadMultiple = 0
  BY TypeParts, BufferAssumption DEF IInv, Numbers
<1>4. CASE read_info \/ NameInputOffset \/ NameInputSize
  BY <1>2, <1>4 DEF read_info, NameInputOffset, NameInputSize, ring
<1>5. CASE post_read
  <2>1. (read_index + r_items) % ReadMultiple = 0
    BY <1>2, <1>3, <1>5, SumOfMultiples DEF post_read
  <2> QED
    BY <1>3, <1>5, <2>1 DEF post_read, After
<1>6. CASE Writer
  BY <1>2, <1>6 DEF Writer, write_info, NameOutputOffset, NameOutputSize, Fill, post_write,
                    ring, reader
<1>7. CASE input_blocked_callback \/ output_blocked_callback
  BY <1>2, <1>3, <1>7 DEF input_blocked_callback, adjust_buffer_data, output_blocked_callback,
                          output_blocked_callback_logic, reader
<1>8. CASE UNCHANGED vars
  BY <1>2, <1>8 DEF vars, ring, reader
<1> QED
  BY <1>4, <1>5, <1>6, <1>7, <1>8 DEF Next, Reader

(* What a buffer tells of is all it holds or a multiple at least, however  *)
(* its indices wrap and its items move (graph_executor.cc 44-78, 101-131): *)
(* for the reader if its multiple divides the size, and for the writer if  *)
(* its own does and nothing else makes its callback move the items.        *)
THEOREM WhatIsToldSuffices == Spec => []TellsEnough
<1>1. Init => ReaderAligned
  <2>1. 0 % ReadMultiple = 0
    BY BufferAssumption
  <2> QED
    BY <2>1 DEF Init, ReaderAligned
<1>2. IInv /\ ReaderAligned /\ [Next]_vars => ReaderAligned'
  BY NextReaderAligned
<1>3. IInv /\ AlignedHolds /\ ReaderAligned => TellsEnough
  <2> SUFFICES ASSUME IInv, AlignedHolds, ReaderAligned PROVE TellsEnough
    OBVIOUS
  <2>1. /\ size \in Nat \ {0} /\ read_index \in 0..(size - 1) /\ write_index \in 0..(size - 1)
        /\ unread \in 0..size /\ {WriteMultiple, ReadMultiple} \subseteq Nat \ {0}
    BY TypeParts, BufferAssumption DEF IInv, Numbers, Layout, unread
  <2>2. ASSUME size % ReadMultiple = 0
        PROVE  items_available = unread \/ items_available >= ReadMultiple
    <3>1. (size - read_index) % ReadMultiple = 0
      BY <2>1, <2>2, DifferenceOfMultiples DEF ReaderAligned
    <3>2. size - read_index >= ReadMultiple
      BY <2>1, <3>1, MultipleIsLarge
    <3> QED
      BY <2>1, <3>2 DEF items_available, Smaller
  <2>3. ASSUME items_required = 1, WriterKeepsAhead
        PROVE  space_available = size - unread \/ space_available >= WriteMultiple
    <3>1. (size - write_index) % WriteMultiple = 0
      BY <2>1, <2>3, DifferenceOfMultiples DEF AlignedHolds, WriterKeepsAhead
    <3>2. size - write_index >= WriteMultiple
      BY <2>1, <3>1, MultipleIsLarge
    <3> QED
      BY <2>1, <3>2 DEF space_available, Smaller
  <2> QED
    BY <2>2, <2>3 DEF TellsEnough
<1> QED
  BY <1>1, <1>2, <1>3, Invariance, AlignedInvariance, PTL DEF Spec

-----------------------------------------------------------------------------
(* The ring is a queue.                                                    *)

\* The n items that follow item a.
Run(a, n) == [i \in 1..n |-> a + i]

LEMMA RunIsASeq ==
  ASSUME NEW a \in Nat, NEW n \in Nat
  PROVE  Run(a, n) \in Seq(Nat) /\ Len(Run(a, n)) = n
<1>1. Run(a, n) \in [1..n -> Nat]
  BY DEF Run
<1>2. Run(a, n) \in Seq(Nat)
  BY <1>1, SeqDef
<1>3. DOMAIN Run(a, n) = 1..n
  BY DEF Run
<1> QED
  BY <1>2, <1>3, LenProperties

LEMMA RunsJoin ==
  ASSUME NEW a \in Nat, NEW n \in Nat, NEW w \in Nat
  PROVE  Run(a, n) \o Run(a + n, w) = Run(a, n + w)
<1>0. a + n \in Nat /\ n + w \in Nat
  OBVIOUS
<1>1. /\ Run(a, n) \in Seq(Nat) /\ Len(Run(a, n)) = n
      /\ Run(a + n, w) \in Seq(Nat) /\ Len(Run(a + n, w)) = w
      /\ Run(a, n + w) \in Seq(Nat) /\ Len(Run(a, n + w)) = n + w
  BY <1>0, RunIsASeq
<1>2. /\ Run(a, n) \o Run(a + n, w) \in Seq(Nat)
      /\ Len(Run(a, n) \o Run(a + n, w)) = n + w
      /\ \A i \in 1..(n + w) : (Run(a, n) \o Run(a + n, w))[i]
           = IF i <= n THEN Run(a, n)[i] ELSE Run(a + n, w)[i - n]
  <2> DEFINE s == Run(a, n)
             t == Run(a + n, w)
  <2>1. s \in Seq(Nat) /\ Len(s) = n /\ t \in Seq(Nat) /\ Len(t) = w
    BY <1>1
  <2> HIDE DEF s, t
  <2>2. /\ s \o t \in Seq(Nat) /\ Len(s \o t) = Len(s) + Len(t)
        /\ \A i \in 1..(Len(s) + Len(t)) : (s \o t)[i] = IF i <= Len(s) THEN s[i] ELSE t[i - Len(s)]
    BY <2>1, ConcatProperties
  <2>3. /\ s \o t \in Seq(Nat) /\ Len(s \o t) = n + w
        /\ \A i \in 1..(n + w) : (s \o t)[i] = IF i <= n THEN s[i] ELSE t[i - n]
    BY <2>1, <2>2
  <2> QED
    BY <2>3 DEF s, t
<1>3. \A i \in 1..(n + w) : (Run(a, n) \o Run(a + n, w))[i] = Run(a, n + w)[i]
  BY <1>2 DEF Run
<1> QED
  BY <1>1, <1>2, <1>3, SeqEqual

LEMMA RunIsCut ==
  ASSUME NEW a \in Nat, NEW n \in Nat, NEW k \in 1..n
  PROVE  SubSeq(Run(a, n), k + 1, n) = Run(a + k, n - k)
<1>0. a + k \in Nat /\ n - k \in Nat
  OBVIOUS
<1>1. Run(a + k, n - k) \in Seq(Nat) /\ Len(Run(a + k, n - k)) = n - k
  BY <1>0, RunIsASeq
<1>2. \A i \in (k + 1)..n : Run(a, n)[i] \in Nat
  BY DEF Run
<1>3. /\ SubSeq(Run(a, n), k + 1, n) \in Seq(Nat)
      /\ Len(SubSeq(Run(a, n), k + 1, n)) = n - k
      /\ \A i \in 1..(n - k) : SubSeq(Run(a, n), k + 1, n)[i] = Run(a, n)[k + i]
  BY <1>2, SubSeqProperties
<1>4. \A i \in 1..(n - k) : SubSeq(Run(a, n), k + 1, n)[i] = Run(a + k, n - k)[i]
  BY <1>3 DEF Run
<1> QED
  BY <1>1, <1>3, <1>4, SeqEqual

\* The unread items, read off the ring.
Unread == [i \in 1..unread |-> slot[Wrapped(read_index + i - 1)]]

LEMMA UnreadIsARun == IInv => Unread = Run(total_read, unread)
<1> SUFFICES ASSUME IInv, NEW i \in 1..unread
             PROVE  slot[Wrapped(read_index + i - 1)] = total_read + i
  BY DEF Unread, Run
<1>1. /\ total_read \in Nat /\ unread \in Nat /\ read_index \in Nat
  BY TypeParts DEF IInv, Numbers, Layout, unread
<1>2. i - 1 \in 0..(unread - 1)
  BY <1>1
<1>3. slot[Wrapped(read_index + (i - 1))] = total_read + 1 + (i - 1)
  BY <1>2 DEF IInv, ItemsInPlace
<1>4. read_index + (i - 1) = read_index + i - 1 /\ total_read + 1 + (i - 1) = total_read + i
  BY <1>1
<1> QED
  BY <1>3, <1>4

LEMMA NextUnreadIsARun == IInv' => Unread' = Run(total_read', unread')
<1> SUFFICES ASSUME IInv', NEW i \in 1..unread'
             PROVE  slot'[Wrapped(read_index + i - 1)'] = total_read' + i
  BY DEF Unread, Run
<1>1. total_read' \in Nat /\ unread' \in Nat /\ read_index' \in Nat
  BY NextTypeParts DEF IInv, Numbers, Layout, unread
<1>2. i - 1 \in 0..(unread' - 1)
  BY <1>1 DEF unread
<1>3. slot'[Wrapped(read_index + (i - 1))'] = total_read' + 1 + (i - 1)
  BY <1>2 DEF IInv, ItemsInPlace, Wrapped
<1>4. read_index' + (i - 1) = read_index' + i - 1 /\ total_read' + 1 + (i - 1) = total_read' + i
  BY <1>1
<1> QED
  BY <1>3, <1>4 DEF Wrapped

(* Whatever wraps and moves, the ring is a queue: each item is read once,  *)
(* in the order of writing, and no more than its size are kept             *)
(* (buffer_triton.h 47-50, 87-90).                                         *)
THEOREM TheRingIsAQueue == Spec => RingIsFifo
<1>1. Init => Fifo!Init
  <2> SUFFICES ASSUME Init PROVE size \in Nat \ {0} /\ Unread = <<>> /\ total_written = 0
    BY DEF Fifo!Init, Unread
  <2>1. unread = 0 /\ total_written = 0 /\ size \in Nat \ {0}
    BY BufferAssumption DEF Init, unread
  <2>2. Unread = <<>>
    BY <2>1 DEF Unread
  <2> QED
    BY <2>1, <2>2
<1>2. IInv /\ IInv' /\ [Next]_vars => [Fifo!Next]_(Fifo!vars)
  <2> SUFFICES ASSUME IInv, IInv', [Next]_vars PROVE [Fifo!Next]_(Fifo!vars)
    OBVIOUS
  <2>1. /\ Unread = Run(total_read, unread) /\ Unread' = Run(total_read', unread')
        /\ total_read \in Nat /\ total_written \in Nat /\ unread \in Nat /\ unread' \in Nat
        /\ size \in Nat /\ unread' <= size'
    BY UnreadIsARun, NextUnreadIsARun, TypeParts, NextTypeParts
    DEF IInv, Numbers, Layout, unread
  <2>2. CASE UNCHANGED <<size, total_written, total_read>>
    <3>1. Unread' = Unread
      BY <2>1, <2>2 DEF unread
    <3> QED
      BY <2>2, <3>1 DEF Fifo!vars, Unread
  <2>3. CASE post_read
    <3>1. /\ UNCHANGED <<size, total_written>> /\ total_read' = total_read + r_items
          /\ r_items \in 1..unread
      BY <2>1, <2>3, TypeParts
      DEF post_read, config, IInv, Numbers, ReaderHolds, items_available, Smaller
    <3>2. unread' = unread - r_items
      BY <2>1, <3>1 DEF unread
    <3>3. Unread' = SubSeq(Unread, r_items + 1, unread)
      BY <2>1, <3>1, <3>2, RunIsCut
    <3>4. Len(Unread) = unread
      BY <2>1, RunIsASeq
    <3>5. Fifo!Read
      BY <3>1, <3>3, <3>4 DEF Fifo!Read, Unread
    <3> QED
      BY <3>5 DEF Fifo!Next
  <2>4. CASE post_write
    <3>1. /\ UNCHANGED <<size, total_read>> /\ total_written' = total_written + w_items
          /\ w_items \in Nat \ {0}
      BY <2>1, <2>4, TypeParts
      DEF post_write, config, IInv, Numbers, WriterHolds, space_available, Smaller
    <3>2. unread' = unread + w_items /\ total_read + unread = total_written
      BY <2>1, <3>1 DEF unread
    <3>3. Unread' = Unread \o Run(total_written, w_items)
      <4>1. Run(total_read, unread) \o Run(total_read + unread, w_items)
            = Run(total_read, unread + w_items)
        BY <2>1, <3>1, RunsJoin
      <4> QED
        BY <2>1, <3>1, <3>2, <4>1
    <3>4. total_written' - total_written = w_items /\ total_written' > total_written
      BY <2>1, <3>1
    <3>5. Unread' = Unread \o [i \in 1..(total_written' - total_written) |-> total_written + i]
      BY <3>3, <3>4 DEF Run
    <3>6. Len(Unread') <= size
      BY <2>1, <3>1, RunIsASeq
    <3>7. Fifo!Write
      BY <3>1, <3>4, <3>5, <3>6 DEF Fifo!Write, Unread
    <3> QED
      BY <3>7 DEF Fifo!Next
  <2> QED
    BY <2>2, <2>3, <2>4
    DEF Next, Reader, Writer, read_info, NameInputOffset, NameInputSize, write_info,
        NameOutputOffset, NameOutputSize, Fill, input_blocked_callback, adjust_buffer_data,
        output_blocked_callback, output_blocked_callback_logic, config, ring, vars
<1> QED
  BY <1>1, <1>2, Invariance, PTL DEF Spec, RingIsFifo, Fifo!Spec
=============================================================================
