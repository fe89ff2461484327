-------------------------- MODULE MCGraphExecutor --------------------------
(* output_multiple of the blocks: none, one for the only block, and three   *)
(* blocks of which only the middle one has a multiple.                      *)
EXTENDS GraphExecutor

MCNone == <<1>>
MCPairs == <<2>>
MCMiddle == <<1, 2, 1>>
=============================================================================
