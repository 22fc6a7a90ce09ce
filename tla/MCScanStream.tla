---------------------------- MODULE MCScanStream ----------------------------
(***************************************************************************)
(* ScanStream on small streams: nodes of 3 bytes, one of them with a       *)
(* payload byte that looks like the beginning of a node, and stray bytes.  *)
(***************************************************************************)
EXTENDS ScanStream, SequencesExt

MCStart  == <<1, 1, 0>>          \* a start-flag node
MCDeceit == <<2, 3, 2>>          \* another node; its last byte could start one
MCPieces == {MCStart, MCDeceit, <<1>>, <<0, 0>>}
MCMaxPieces == 4

MCStreams == { FlattenSeq(p) : p \in BoundedSeq(MCPieces, MCMaxPieces) }

=============================================================================
