------------------------ MODULE MCReassemblerPending ------------------------
(* Nine bytes through a window of six: up to three separate entries wait,  *)
(* one substring can bridge two of them, and the tail is cut off unless    *)
(* the reader makes room.                                                  *)
EXTENDS ReassemblerPending

MCSource == <<11, 12, 13, 14, 15, 16, 17, 18, 19>>
=============================================================================
