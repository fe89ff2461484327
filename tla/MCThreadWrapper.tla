--------------------------- MODULE MCThreadWrapper --------------------------
(* A worker with both flush modes and flush_count 0 or 2.                   *)
EXTENDS ThreadWrapper

CONSTANTS c1, v0, v1
MCFlushCounts == {0, 2}
MCOneFlush == {1}
MCAllCalls == {"start", "stop", "wait"}
MCStartOnly == {"start"}
MCClients == {c1}
MCNoClients == {}
MCValues == {v0, v1}
MCOneValue == {v0}
=============================================================================
