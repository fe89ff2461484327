------------------------ MODULE SharedSegment_proofs ------------------------
(***************************************************************************)
(* The safety invariants of SharedSegment hold for any buffers and any     *)
(* number of server restarts.                                              *)
(***************************************************************************)
EXTENDS SharedSegment, TLAPS

-----------------------------------------------------------------------------
(* The inductive invariant: what each position of the constructor and of   *)
(* the destructor says of the buffer's key, name, size and memory.         *)

\* Nothing has been made yet, or ever will be.
Untouched(b) ==
  b \notin has_key \union named \union mapped /\ memory[b] = "unset"

Created(b) ==
  /\ b \in has_key \ mapped
  /\ shm_fd[b] = "ok" => b \in named \intersect sized

Whole(b) ==
  /\ b \in has_key \intersect named \intersect sized
  /\ memory[b] \in {"mapped", "failed"}

Progress(b) ==
  /\ pc[b] \in {"new", "health", "create", "hollow"} => Untouched(b)
  /\ pc[b] = "map" => Created(b)
  /\ pc[b] \in {"register", "live"} => Whole(b)
  /\ pc[b] = "unmap" => Whole(b) \/ Untouched(b)
  /\ pc[b] \in {"unlink", "unregister", "gone"} => b \notin mapped
  /\ pc[b] \in {"unregister", "gone"} => b \notin named
  /\ b \in named => b \in has_key
  /\ b \in mapped => memory[b] = "mapped"

Progresses == \A b \in Buffers : Progress(b)

BuiltBefore == \A b \in Buffers : built[b] <= restarts

MappedStays ==
  ~HollowDestroyed =>
    \A b \in Buffers :
      pc[b] \in {"register", "live"} /\ memory[b] = "mapped" => b \in mapped

RegisteredStays ==
  ~HollowDestroyed =>
    \A b \in Buffers :
      pc[b] = "live" /\ server = "up" /\ restarts = built[b] => b \in registered

IInv ==
  /\ TypeOK
  /\ Progresses
  /\ BuiltBefore
  /\ RegisteredIsSized
  /\ MappedStays
  /\ RegisteredStays

-----------------------------------------------------------------------------
LEMMA InitIInv == Init => IInv
  BY DEF Init, IInv, TypeOK, SegmentsOK, CountersOK, BuiltBefore, Progresses, Progress,
      Untouched, RegisteredIsSized, MappedStays, RegisteredStays, Constructing

\* Every action moves one buffer, and only its own pc.
LEMMA StepMoves ==
  ASSUME SegmentsOK, NEW b \in Buffers, NEW from, NEW to, Step(b, from, to)
  PROVE  /\ pc[b] = from /\ pc'[b] = to
         /\ \A c \in Buffers \ {b} : pc'[c] = pc[c]
  BY DEF Step, SegmentsOK

LEMMA NextSegments == SegmentsOK /\ [Next]_vars => SegmentsOK'
<1> SUFFICES ASSUME SegmentsOK, [Next]_vars PROVE SegmentsOK'
  OBVIOUS
<1> USE DEF SegmentsOK, Constructing, Objects, Destroying
<1>1. ASSUME NEW b \in Buffers, CreateClient(b) PROVE SegmentsOK'
  BY <1>1 DEF CreateClient, Step
<1>2. ASSUME NEW b \in Buffers, is_server_healthy(b) PROVE SegmentsOK'
  BY <1>2 DEF is_server_healthy, Step
<1>3. ASSUME NEW b \in Buffers, CreateSharedMemoryRegion(b) PROVE SegmentsOK'
  BY <1>3 DEF CreateSharedMemoryRegion, Step
<1>4. ASSUME NEW b \in Buffers, MapSharedMemory(b) PROVE SegmentsOK'
  BY <1>4 DEF MapSharedMemory, Mmap, Step
<1>5. ASSUME NEW b \in Buffers, RegisterSystemSharedMemory(b) PROVE SegmentsOK'
  BY <1>5 DEF RegisterSystemSharedMemory, Step
<1>6. ASSUME NEW b \in Buffers, Destroy(b) PROVE SegmentsOK'
  BY <1>6 DEF Destroy, Step
<1>7. ASSUME NEW b \in Buffers, UnmapSharedMemory(b) PROVE SegmentsOK'
  BY <1>7 DEF UnmapSharedMemory, Step
<1>8. ASSUME NEW b \in Buffers, UnlinkSharedMemoryRegion(b) PROVE SegmentsOK'
  BY <1>8 DEF UnlinkSharedMemoryRegion, Step
<1>9. ASSUME NEW b \in Buffers, UnregisterSystemSharedMemory(b) PROVE SegmentsOK'
  BY <1>9 DEF UnregisterSystemSharedMemory, Step
<1>10. CASE ServerStops
  BY <1>10 DEF ServerStops, process
<1>11. CASE ServerStarts
  BY <1>11 DEF ServerStarts, process
<1>12. CASE UNCHANGED vars
  BY <1>12 DEF vars, process
<1> QED
  BY <1>1, <1>2, <1>3, <1>4, <1>5, <1>6, <1>7, <1>8, <1>9, <1>10, <1>11, <1>12
  DEF Next

LEMMA NextCounters ==
  CountersOK /\ BuiltBefore /\ [Next]_vars => CountersOK' /\ BuiltBefore'
<1> SUFFICES ASSUME CountersOK, BuiltBefore, [Next]_vars
             PROVE  CountersOK' /\ BuiltBefore'
  OBVIOUS
<1> USE DEF CountersOK, BuiltBefore
<1>1. CASE UNCHANGED <<restarts, built>>
  BY <1>1
<1>2. ASSUME NEW b \in Buffers, built' = [built EXCEPT ![b] = restarts], restarts' = restarts
      PROVE  CountersOK' /\ BuiltBefore'
  BY <1>2
<1>3. CASE restarts' = restarts + 1 /\ built' = built
  BY <1>3
<1>4. ASSUME NEW b \in Buffers, RegisterSystemSharedMemory(b)
      PROVE  CountersOK' /\ BuiltBefore'
  BY <1>1, <1>2, <1>4 DEF RegisterSystemSharedMemory
<1>5. CASE ServerStarts
  BY <1>3, <1>5 DEF ServerStarts
<1>6. CASE ServerStops \/ UNCHANGED vars
  BY <1>1, <1>6 DEF ServerStops, vars
<1>7. ASSUME NEW b \in Buffers,
             \/ CreateClient(b) \/ is_server_healthy(b) \/ CreateSharedMemoryRegion(b)
             \/ MapSharedMemory(b) \/ Destroy(b) \/ UnmapSharedMemory(b)
             \/ UnlinkSharedMemoryRegion(b) \/ UnregisterSystemSharedMemory(b)
      PROVE  CountersOK' /\ BuiltBefore'
  BY <1>1, <1>7, Zenon
  DEF CreateClient, is_server_healthy, CreateSharedMemoryRegion, MapSharedMemory, Destroy,
      UnmapSharedMemory, UnlinkSharedMemoryRegion, UnregisterSystemSharedMemory
<1> QED
  BY <1>4, <1>5, <1>6, <1>7 DEF Next

LEMMA NextProgress == SegmentsOK /\ Progresses /\ [Next]_vars => Progresses'
<1> SUFFICES ASSUME SegmentsOK, Progresses, [Next]_vars,
                    NEW c \in Buffers
             PROVE  Progress(c)'
  BY DEF Progresses
<1>0. Progress(c)
  BY DEF Progresses
<1> USE <1>0 DEF Progress, Untouched, Created, Whole, SegmentsOK
<1>1. ASSUME NEW b \in Buffers, CreateClient(b) PROVE Progress(c)'
  BY <1>1 DEF CreateClient, Step
<1>2. ASSUME NEW b \in Buffers, is_server_healthy(b) PROVE Progress(c)'
  BY <1>2 DEF is_server_healthy, Step
<1>3. ASSUME NEW b \in Buffers, CreateSharedMemoryRegion(b) PROVE Progress(c)'
  BY <1>3 DEF CreateSharedMemoryRegion, Step
<1>4. ASSUME NEW b \in Buffers, MapSharedMemory(b) PROVE Progress(c)'
  BY <1>4 DEF MapSharedMemory, Mmap, Step
<1>5. ASSUME NEW b \in Buffers, RegisterSystemSharedMemory(b) PROVE Progress(c)'
  BY <1>5 DEF RegisterSystemSharedMemory, Step
<1>6. ASSUME NEW b \in Buffers, Destroy(b) PROVE Progress(c)'
  BY <1>6 DEF Destroy, Step, Objects
<1>7. ASSUME NEW b \in Buffers, UnmapSharedMemory(b) PROVE Progress(c)'
  BY <1>7 DEF UnmapSharedMemory, Step
<1>8. ASSUME NEW b \in Buffers, UnlinkSharedMemoryRegion(b) PROVE Progress(c)'
  BY <1>8 DEF UnlinkSharedMemoryRegion, Step
<1>9. ASSUME NEW b \in Buffers, UnregisterSystemSharedMemory(b) PROVE Progress(c)'
  BY <1>9 DEF UnregisterSystemSharedMemory, Step
<1>10. CASE ServerStops
  BY <1>10 DEF ServerStops, process
<1>11. CASE ServerStarts
  BY <1>11 DEF ServerStarts, process
<1>12. CASE UNCHANGED vars
  BY <1>12 DEF vars, process
<1> QED
  BY <1>1, <1>2, <1>3, <1>4, <1>5, <1>6, <1>7, <1>8, <1>9, <1>10, <1>11, <1>12
  DEF Next

LEMMA NextSized == Progresses /\ RegisteredIsSized /\ [Next]_vars => RegisteredIsSized'
<1> SUFFICES ASSUME Progresses, RegisteredIsSized, [Next]_vars PROVE RegisteredIsSized'
  OBVIOUS
<1> USE DEF RegisteredIsSized
<1>1. ASSUME NEW b \in Buffers, RegisterSystemSharedMemory(b) PROVE RegisteredIsSized'
  BY <1>1 DEF RegisterSystemSharedMemory, Step, Progresses, Progress, Whole
<1>2. ASSUME NEW b \in Buffers, CreateSharedMemoryRegion(b) PROVE RegisteredIsSized'
  BY <1>2 DEF CreateSharedMemoryRegion
<1>3. ASSUME NEW b \in Buffers, UnregisterSystemSharedMemory(b) PROVE RegisteredIsSized'
  BY <1>3 DEF UnregisterSystemSharedMemory
<1>4. CASE UNCHANGED <<sized, registered>>
  BY <1>4
<1>5. ASSUME NEW b \in Buffers,
             \/ CreateClient(b) \/ is_server_healthy(b) \/ MapSharedMemory(b)
             \/ Destroy(b) \/ UnmapSharedMemory(b) \/ UnlinkSharedMemoryRegion(b)
      PROVE  RegisteredIsSized'
  BY <1>4, <1>5, Zenon
  DEF CreateClient, is_server_healthy, MapSharedMemory, Destroy, UnmapSharedMemory,
      UnlinkSharedMemoryRegion
<1>6. CASE ServerStops \/ ServerStarts
  BY <1>6 DEF ServerStops, ServerStarts, process
<1>7. CASE UNCHANGED vars
  BY <1>4, <1>7 DEF vars, process
<1> QED
  BY <1>1, <1>2, <1>3, <1>5, <1>6, <1>7 DEF Next

\* A hollow buffer that has been destroyed stays one.
LEMMA HollowStays ==
  ASSUME SegmentsOK, Progresses, [Next]_vars, HollowDestroyed
  PROVE  HollowDestroyed'
<1>1. PICK h \in Buffers : h \notin has_key /\ pc[h] \in {"unlink", "unregister", "gone"}
  BY DEF HollowDestroyed
<1> SUFFICES h \notin has_key' /\ pc'[h] \in {"unlink", "unregister", "gone"}
  BY DEF HollowDestroyed
<1> USE <1>1 DEF SegmentsOK
<1>2. ASSUME NEW b \in Buffers, UnlinkSharedMemoryRegion(b) \/ UnregisterSystemSharedMemory(b)
      PROVE  h \notin has_key' /\ pc'[h] \in {"unlink", "unregister", "gone"}
  BY <1>2 DEF UnlinkSharedMemoryRegion, UnregisterSystemSharedMemory, Step
<1>3. ASSUME NEW b \in Buffers,
             \/ CreateClient(b) \/ is_server_healthy(b) \/ CreateSharedMemoryRegion(b)
             \/ MapSharedMemory(b) \/ RegisterSystemSharedMemory(b)
             \/ Destroy(b) \/ UnmapSharedMemory(b)
      PROVE  h \notin has_key' /\ pc'[h] \in {"unlink", "unregister", "gone"}
  <2>1. PICK from \in {"new", "health", "create", "map", "register", "live", "hollow", "unmap"} :
          \E to : Step(b, from, to)
    BY <1>3, Zenon
    DEF CreateClient, is_server_healthy, CreateSharedMemoryRegion, MapSharedMemory,
        RegisterSystemSharedMemory, Destroy, UnmapSharedMemory, Objects
  <2>2. b # h /\ pc'[h] = pc[h]
    BY <2>1, StepMoves
  <2>3. has_key' \subseteq has_key \union {b}
    BY <1>3, Zenon
    DEF CreateClient, is_server_healthy, CreateSharedMemoryRegion, MapSharedMemory,
        RegisterSystemSharedMemory, Destroy, UnmapSharedMemory
  <2> QED
    BY <2>2, <2>3
<1>4. CASE ServerStops \/ ServerStarts \/ UNCHANGED vars
  BY <1>4 DEF ServerStops, ServerStarts, vars, process
<1> QED
  BY <1>2, <1>3, <1>4 DEF Next

LEMMA NextIntact ==
  SegmentsOK /\ Progresses /\ MappedStays /\ [Next]_vars => MappedStays'
<1> SUFFICES ASSUME SegmentsOK, Progresses, MappedStays, [Next]_vars, ~HollowDestroyed',
                    NEW c \in Buffers, pc'[c] \in {"register", "live"},
                    memory'[c] = "mapped"
             PROVE  c \in mapped'
  BY DEF MappedStays
<1>1. pc[c] \in {"register", "live"} /\ memory[c] = "mapped" => c \in mapped
  BY HollowStays DEF MappedStays
<1>2. Progress(c)
  BY DEF Progresses
<1> USE DEF SegmentsOK
<1>3. ASSUME NEW b \in Buffers, MapSharedMemory(b) PROVE c \in mapped'
  BY <1>1, <1>3 DEF MapSharedMemory, Mmap, Step
<1>4. ASSUME NEW b \in Buffers, RegisterSystemSharedMemory(b) PROVE c \in mapped'
  BY <1>1, <1>4 DEF RegisterSystemSharedMemory, Step
<1>5. ASSUME NEW b \in Buffers, UnmapSharedMemory(b) PROVE c \in mapped'
  <2>1. b # c /\ pc'[b] = "unlink" /\ has_key' = has_key /\ memory' = memory
    BY <1>5 DEF UnmapSharedMemory, Step
  <2>2. memory[b] # "unset"
    <3>1. b \in has_key
      BY <2>1 DEF HollowDestroyed
    <3>2. pc[b] = "unmap"
      BY <1>5 DEF UnmapSharedMemory, Step
    <3> QED
      BY <3>1, <3>2 DEF Progresses, Progress, Whole, Untouched
  <2> QED
    BY <1>1, <1>5, <2>1, <2>2 DEF UnmapSharedMemory, Step
<1>6. ASSUME NEW b \in Buffers,
             \/ CreateClient(b) \/ is_server_healthy(b) \/ CreateSharedMemoryRegion(b)
             \/ Destroy(b) \/ UnlinkSharedMemoryRegion(b) \/ UnregisterSystemSharedMemory(b)
      PROVE  c \in mapped'
  <2>1. CASE CreateClient(b)
    BY <1>1, <2>1 DEF CreateClient, Step
  <2>2. CASE is_server_healthy(b)
    BY <1>1, <2>2 DEF is_server_healthy, Step
  <2>3. CASE CreateSharedMemoryRegion(b)
    BY <1>1, <2>3 DEF CreateSharedMemoryRegion, Step
  <2>4. CASE Destroy(b)
    BY <1>1, <2>4 DEF Destroy, Step, Objects
  <2>5. CASE UnlinkSharedMemoryRegion(b)
    BY <1>1, <2>5 DEF UnlinkSharedMemoryRegion, Step
  <2>6. CASE UnregisterSystemSharedMemory(b)
    BY <1>1, <2>6 DEF UnregisterSystemSharedMemory, Step
  <2> QED
    BY <1>6, <2>1, <2>2, <2>3, <2>4, <2>5, <2>6
<1>7. CASE ServerStops \/ ServerStarts \/ UNCHANGED vars
  BY <1>1, <1>7 DEF ServerStops, ServerStarts, vars, process
<1> QED
  BY <1>3, <1>4, <1>5, <1>6, <1>7 DEF Next

LEMMA NextIsLater == \A r, n \in Nat : n <= r => r + 1 # n
  OBVIOUS

LEMMA NextRegistered ==
  SegmentsOK /\ CountersOK /\ Progresses /\ BuiltBefore /\ RegisteredStays /\ [Next]_vars
    => RegisteredStays'
<1> SUFFICES ASSUME SegmentsOK, CountersOK, Progresses, BuiltBefore, RegisteredStays,
                    [Next]_vars, ~HollowDestroyed',
                    NEW c \in Buffers, pc'[c] = "live", server' = "up",
                    restarts' = built'[c]
             PROVE  c \in registered'
  BY DEF RegisteredStays
<1>1. pc[c] = "live" /\ server = "up" /\ restarts = built[c] => c \in registered
  BY HollowStays DEF RegisteredStays
<1> USE DEF SegmentsOK
<1>2. ASSUME NEW b \in Buffers, RegisterSystemSharedMemory(b) PROVE c \in registered'
  <2>1. CASE c = b
    BY <1>2, <2>1 DEF RegisterSystemSharedMemory, Step
  <2>2. CASE c # b
    <3>1. pc'[c] = pc[c]
      BY <1>2, <2>2 DEF RegisterSystemSharedMemory, Step
    <3>2. server' = server /\ restarts' = restarts /\ registered \subseteq registered'
      BY <1>2 DEF RegisterSystemSharedMemory
    <3>3. built'[c] = built[c]
      BY <1>2, <2>2 DEF RegisterSystemSharedMemory, CountersOK
    <3> QED
      BY <1>1, <3>1, <3>2, <3>3
  <2> QED
    BY <2>1, <2>2
<1>3. ASSUME NEW b \in Buffers, UnregisterSystemSharedMemory(b) PROVE c \in registered'
  <2>1. b # c /\ pc'[b] = "gone" /\ pc'[c] = pc[c] /\ has_key' = has_key
    BY <1>3 DEF UnregisterSystemSharedMemory, Step
  <2>2. b \in has_key
    BY <2>1 DEF HollowDestroyed
  <2>3. server' = server /\ restarts' = restarts /\ built' = built
    BY <1>3 DEF UnregisterSystemSharedMemory
  <2>4. registered \ {b} \subseteq registered'
    BY <1>3, <2>2 DEF UnregisterSystemSharedMemory
  <2> QED
    BY <1>1, <2>1, <2>3, <2>4
<1>4. ASSUME NEW b \in Buffers,
             \/ CreateClient(b) \/ is_server_healthy(b) \/ CreateSharedMemoryRegion(b)
             \/ MapSharedMemory(b) \/ Destroy(b) \/ UnmapSharedMemory(b)
             \/ UnlinkSharedMemoryRegion(b)
      PROVE  c \in registered'
  <2>1. CASE CreateClient(b)
    BY <1>1, <2>1 DEF CreateClient, Step
  <2>2. CASE is_server_healthy(b)
    BY <1>1, <2>2 DEF is_server_healthy, Step
  <2>3. CASE CreateSharedMemoryRegion(b)
    BY <1>1, <2>3 DEF CreateSharedMemoryRegion, Step
  <2>4. CASE MapSharedMemory(b)
    BY <1>1, <2>4 DEF MapSharedMemory, Step
  <2>5. CASE Destroy(b)
    BY <1>1, <2>5 DEF Destroy, Step, Objects
  <2>6. CASE UnmapSharedMemory(b)
    BY <1>1, <2>6 DEF UnmapSharedMemory, Step
  <2>7. CASE UnlinkSharedMemoryRegion(b)
    BY <1>1, <2>7 DEF UnlinkSharedMemoryRegion, Step
  <2> QED
    BY <1>4, <2>1, <2>2, <2>3, <2>4, <2>5, <2>6, <2>7
<1>5. CASE ServerStarts
  <2>1. restarts' = restarts + 1 /\ built'[c] = built[c]
    BY <1>5 DEF ServerStarts
  <2>2. restarts \in Nat /\ built[c] \in Nat /\ built[c] <= restarts
    BY DEF CountersOK, BuiltBefore
  <2>3. restarts + 1 = built[c]
    BY <2>1
  <2> QED
    BY <2>2, <2>3, NextIsLater, Zenon
<1>6. CASE ServerStops \/ UNCHANGED vars
  BY <1>1, <1>6 DEF ServerStops, vars, process
<1> QED
  BY <1>2, <1>3, <1>4, <1>5, <1>6 DEF Next

-----------------------------------------------------------------------------
(* The theorems.                                                           *)

LEMMA NextIInv == IInv /\ [Next]_vars => IInv'
  BY NextSegments, NextCounters, NextProgress, NextSized, NextIntact, NextRegistered
  DEF IInv, TypeOK

LEMMA Invariance == Spec => []IInv
<1>1. Init => IInv
  BY InitIInv
<1>2. IInv /\ [Next]_vars => IInv'
  BY NextIInv
<1> QED
  BY <1>1, <1>2, PTL DEF Spec

(* Every variable of the buffers, the segments and the server stays in its *)
(* domain, for any buffers and restarts.                                   *)
THEOREM TypeCorrect == Spec => []TypeOK
<1>1. IInv => TypeOK
  BY DEF IInv
<1> QED
  BY <1>1, Invariance, PTL

(* TIS is only told of segments of full size (buffer_triton.cc 55-75).     *)
THEOREM RegistrationIsSound == Spec => []RegisteredIsSized
<1>1. IInv => RegisteredIsSized
  BY DEF IInv
<1> QED
  BY <1>1, Invariance, PTL

(* What was built and destroyed is gone (buffer_triton.cc 77-82).          *)
THEOREM DestructionIsComplete == Spec => []DestroyedLeavesNothing
<1>1. IInv => DestroyedLeavesNothing
  BY DEF IInv, Progresses, Progress, DestroyedLeavesNothing
<1> QED
  BY <1>1, Invariance, PTL

(* Without a hollow buffer destroyed, the buffers do not disturb each other*)
(* (buffer_triton.cc 36-83).                                               *)
THEOREM BuffersAreIndependent == Spec => []LiveIsServed
<1>1. IInv => LiveIsServed
  BY DEF IInv, Progresses, Progress, Whole, MappedStays, RegisteredStays, LiveIsServed
<1> QED
  BY <1>1, Invariance, PTL
=============================================================================
