----------------------------- MODULE MCPipeline -----------------------------
(* A started worker with one block, that flushes twice or reports at once.  *)
EXTENDS Pipeline

CONSTANT v0
MCFlushCounts == {2}
MCClients == {}
MCValues == {v0}
MCCalls == {"start"}
MCMultiple == <<1>>
=============================================================================
