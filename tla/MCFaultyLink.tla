---------------------------- MODULE MCFaultyLink ----------------------------
(***************************************************************************)
(* FaultyLink with nodes of 3 bytes and one or two faults on the line.     *)
(***************************************************************************)
EXTENDS FaultyLink

MCNode(start, payload) ==
  [kind |-> "node", start |-> start,
   bytes |-> <<IF start THEN 1 ELSE 2, 3, payload>>]

(* A header byte overwritten so that the frame checks fail.                *)
MCDamaged(start, payload, k, b) ==
  [kind |-> "damaged", start |-> start,
   bytes |-> [MCNode(start, payload).bytes EXCEPT ![k] = b]]

MCStray(bytes) == [kind |-> "stray", start |-> FALSE, bytes |-> bytes]

MCFaultsOn(start, payload) ==
  { MCDamaged(start, payload, 1, 3), MCDamaged(start, payload, 2, 0),
    MCStray(<<0>>), MCStray(<<3, 0>>) }

(* Up to MCMaxChunks chunks over these payload bytes.                      *)
MCMaxChunks == 5

MCChunks(payloads) ==
  UNION { {MCNode(start, p)} \cup MCFaultsOn(start, p) :
            start \in BOOLEAN, p \in payloads }

MCFaults(link) == Len(SelectSeq(link, LAMBDA c : c.kind # "node"))

MCLinksOver(payloads, faults) ==
  { link \in BoundedSeq(MCChunks(payloads), MCMaxChunks) :
      MCFaults(link) <= faults }

(* A payload byte that begins no node, and one that could.                 *)
MCPlainLinks    == MCLinksOver({0}, 2)
MCDeceitfulLinks == MCLinksOver({2}, 1)

=============================================================================
