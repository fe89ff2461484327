---------------------------- MODULE SharedSegment ----------------------------
(***************************************************************************)
(* The shared memory segments behind the buffers of a flowgraph: what the  *)
(* constructor and destructor of buffer_triton do (buffer_triton.cc 36-83, *)
(* shm_utils.cc), step by step, each step of which may fail, while the     *)
(* server stops and restarts.  A buffer's key is unique, so a segment is   *)
(* named by its buffer.                                                    *)
(***************************************************************************)
EXTENDS Integers, FiniteSets

CONSTANTS
  Buffers,
  MaxRestarts  \* bound: times the server restarts

ASSUME SegmentAssumption == IsFiniteSet(Buffers) /\ MaxRestarts \in Nat

VARIABLES
  pc,          \* position of each buffer's constructor or destructor
  shm_fd,      \* the descriptor CreateSharedMemoryRegion left: "ok", or what failed
  has_key,     \* buffers whose _shm_key is set
  memory,      \* _shared_memory of each: "unset", "mapped" or "failed"
  named,       \* segments with a name in /dev/shm
  sized,       \* history: segments extended to their full size
  mapped,      \* segments mapped by this process
  registered,  \* segments registered with the running server
  server,      \* "up" when the server answers, else "down"
  restarts,    \* restarts of the server so far
  built        \* history: restarts when each buffer was registered

process == <<pc, shm_fd, has_key, memory, named, sized, mapped>>
vars == <<process, registered, server, restarts, built>>

Constructing == {"new", "health", "create", "map", "register"}
Destroying == {"unmap", "unlink", "unregister"}
\* "hollow" is a buffer whose constructor returned early.
Objects == {"live", "hollow"}

Init ==
  /\ pc = [b \in Buffers |-> "new"]
  /\ shm_fd = [b \in Buffers |-> "ok"]
  /\ has_key = {}
  /\ memory = [b \in Buffers |-> "unset"]
  /\ named = {} /\ sized = {} /\ mapped = {} /\ registered = {}
  /\ server = "up"
  /\ restarts = 0
  /\ built = [b \in Buffers |-> 0]

Step(b, from, to) ==
  /\ pc[b] = from
  /\ pc' = [pc EXCEPT ![b] = to]

-----------------------------------------------------------------------------
(* The constructor.                                                        *)

\* InferenceServerHttpClient::Create, which throws when it fails.
CreateClient(b) ==
  /\ \/ Step(b, "new", "health")
     \/ Step(b, "new", "thrown")
  /\ UNCHANGED <<shm_fd, has_key, memory, named, sized, mapped, registered, server,
                 restarts, built>>

\* A server that answers may be ready or not; one that does not answer leaves
\* is_live or is_ready unset, and the verdict may be either.  Unhealthy, the
\* constructor returns.
is_server_healthy(b) ==
  /\ \E to \in {"create", "hollow"} : Step(b, "health", to)
  /\ UNCHANGED <<shm_fd, has_key, memory, named, sized, mapped, registered, server,
                 restarts, built>>

\* shm_open, which may fail, and ftruncate, which may fail.
CreateSharedMemoryRegion(b) ==
  /\ Step(b, "create", "map")
  /\ has_key' = has_key \union {b}
  /\ \/ shm_fd' = [shm_fd EXCEPT ![b] = "not open"] /\ UNCHANGED <<named, sized>>
     \/ /\ shm_fd' = [shm_fd EXCEPT ![b] = "not sized"]
        /\ named' = named \union {b}
        /\ UNCHANGED sized
     \/ /\ shm_fd' = [shm_fd EXCEPT ![b] = "ok"]
        /\ named' = named \union {b}
        /\ sized' = sized \union {b}
  /\ UNCHANGED <<memory, mapped, registered, server, restarts, built>>

\* mmap, whose failure nobody looks at; it fails without a descriptor.
Mmap(b) ==
  \/ /\ shm_fd[b] # "not open"
     /\ memory' = [memory EXCEPT ![b] = "mapped"]
     /\ mapped' = mapped \union {b}
  \/ memory' = [memory EXCEPT ![b] = "failed"] /\ UNCHANGED mapped

\* Variant: the error of the creation is lost like that of the mapping.
MapSharedMemory_NoCheck(b) ==
  /\ Mmap(b)
  /\ Step(b, "map", "register")
  /\ UNCHANGED <<shm_fd, has_key, named, sized, registered, server, restarts, built>>

\* MapSharedMemory, CloseSharedMemory, and the test of the creation's error.
MapSharedMemory(b) ==
  /\ Mmap(b)
  /\ Step(b, "map", IF shm_fd[b] = "ok" THEN "register" ELSE "thrown")
  /\ UNCHANGED <<shm_fd, has_key, named, sized, registered, server, restarts, built>>

\* The server registers the segment, or it refuses or is gone and the
\* constructor throws.
RegisterSystemSharedMemory(b) ==
  /\ \/ /\ server = "up"
        /\ Step(b, "register", "live")
        /\ registered' = registered \union {b}
        /\ built' = [built EXCEPT ![b] = restarts]
     \/ Step(b, "register", "thrown") /\ UNCHANGED <<registered, built>>
  /\ UNCHANGED <<shm_fd, has_key, memory, named, sized, mapped, server, restarts>>

-----------------------------------------------------------------------------
(* The destructor, which looks at no result.                               *)

Destroy(b) ==
  /\ \E o \in Objects : Step(b, o, "unmap")
  /\ UNCHANGED <<shm_fd, has_key, memory, named, sized, mapped, registered, server,
                 restarts, built>>

\* munmap of MAP_FAILED is refused.  Of an unset pointer and size it is
\* refused or unmaps what it hits.
UnmapSharedMemory(b) ==
  /\ Step(b, "unmap", "unlink")
  /\ \/ memory[b] = "mapped" /\ mapped' = mapped \ {b}
     \/ memory[b] = "failed" /\ UNCHANGED mapped
     \/ memory[b] = "unset" /\ \E hit \in SUBSET mapped : mapped' = mapped \ hit
  /\ UNCHANGED <<shm_fd, has_key, memory, named, sized, registered, server, restarts, built>>

\* Variant: no unlink.
UnlinkSharedMemoryRegion_None(b) ==
  /\ Step(b, "unlink", "unregister")
  /\ UNCHANGED <<shm_fd, has_key, memory, named, sized, mapped, registered, server,
                 restarts, built>>

\* shm_unlink; of an unset key it is refused.
UnlinkSharedMemoryRegion(b) ==
  /\ Step(b, "unlink", "unregister")
  /\ named' = IF b \in has_key THEN named \ {b} ELSE named
  /\ UNCHANGED <<shm_fd, has_key, memory, sized, mapped, registered, server, restarts, built>>

\* Variant: a call without the key.
UnregisterSystemSharedMemory_All(b) ==
  /\ Step(b, "unregister", "gone")
  /\ registered' \in {registered, {}}
  /\ UNCHANGED <<shm_fd, has_key, memory, named, sized, mapped, server, restarts, built>>

\* The client's unregister: the key's region, or all regions when the key is
\* empty (external).  The server may be gone or refuse.
UnregisterSystemSharedMemory(b) ==
  /\ Step(b, "unregister", "gone")
  /\ \/ server = "up" /\ b \in has_key /\ registered' = registered \ {b}
     \/ server = "up" /\ b \notin has_key /\ registered' = {}
     \/ UNCHANGED registered
  /\ UNCHANGED <<shm_fd, has_key, memory, named, sized, mapped, server, restarts, built>>

-----------------------------------------------------------------------------
(* The server (external) forgets its registrations when it goes down.      *)

ServerStops ==
  /\ server = "up" /\ restarts < MaxRestarts
  /\ server' = "down"
  /\ registered' = {}
  /\ UNCHANGED <<process, restarts, built>>

ServerStarts ==
  /\ server = "down"
  /\ server' = "up"
  /\ restarts' = restarts + 1
  /\ UNCHANGED <<process, registered, built>>

Next ==
  \/ \E b \in Buffers :
       \/ CreateClient(b) \/ is_server_healthy(b) \/ CreateSharedMemoryRegion(b)
       \/ MapSharedMemory(b) \/ RegisterSystemSharedMemory(b)
       \/ Destroy(b) \/ UnmapSharedMemory(b) \/ UnlinkSharedMemoryRegion(b)
       \/ UnregisterSystemSharedMemory(b)
  \/ ServerStops \/ ServerStarts

Spec == Init /\ [][Next]_vars

-----------------------------------------------------------------------------
SegmentsOK ==
  /\ pc \in [Buffers -> Constructing \union Objects \union Destroying \union {"thrown", "gone"}]
  /\ shm_fd \in [Buffers -> {"ok", "not open", "not sized"}]
  /\ memory \in [Buffers -> {"unset", "mapped", "failed"}]
  /\ has_key \subseteq Buffers /\ named \subseteq Buffers /\ sized \subseteq Buffers
  /\ mapped \subseteq Buffers /\ registered \subseteq Buffers
  /\ server \in {"up", "down"}

CountersOK == restarts \in Nat /\ built \in [Buffers -> Nat]

TypeOK == SegmentsOK /\ CountersOK

(* TIS is only ever told of a segment that exists in its full size         *)
(* (buffer_triton.cc 55-61 before 68-75).                                  *)
RegisteredIsSized == registered \subseteq sized

(* A buffer that was built and destroyed leaves nothing behind in this     *)
(* process or in /dev/shm (buffer_triton.cc 77-82).                        *)
DestroyedLeavesNothing ==
  \A b \in Buffers : pc[b] = "gone" => b \notin named \union mapped

HollowDestroyed ==
  \E h \in Buffers \ has_key : pc[h] \in {"unlink", "unregister", "gone"}

(* The buffers are independent: whatever fails for others, a live buffer   *)
(* keeps its segment, the memory it mapped, and, while the server that     *)
(* registered it runs, its registration, unless a hollow buffer has been   *)
(* destroyed (buffer_triton.cc 46-49, 77-82).                              *)
LiveIsServed ==
  \A b \in Buffers : pc[b] = "live" /\ ~HollowDestroyed =>
    /\ b \in named
    /\ memory[b] = "mapped" => b \in mapped
    /\ server = "up" /\ restarts = built[b] => b \in registered
=============================================================================
