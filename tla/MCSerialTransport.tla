------------------------- MODULE MCSerialTransport --------------------------
(***************************************************************************)
(* SerialTransport with reads of up to 2 bytes: budgets of nothing, of     *)
(* less than the minimum a port accepts, and of more.                      *)
(***************************************************************************)
EXTENDS SerialTransport

MCBudgets == {0, 1, 3}

=============================================================================
