--------------------------- MODULE MCTritonBuffer ---------------------------
(* Buffers whose size is a multiple of the writer's, of the reader's, of    *)
(* both and of neither, with and without limits, and readers that ask for   *)
(* one item and for two.                                                    *)
EXTENDS TritonBuffer

MCSizes == {4, 5, 6, 9, 10}
MCAsks == {1, 2}
MCMinFills == {0, 4}
MCMaxFills == {0, 3}
=============================================================================
