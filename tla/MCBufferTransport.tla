------------------------- MODULE MCBufferTransport --------------------------
(***************************************************************************)
(* BufferTransport with buffers shorter and longer than the reads.         *)
(***************************************************************************)
EXTENDS BufferTransport

=============================================================================
