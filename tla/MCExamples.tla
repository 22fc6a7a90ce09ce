----------------------------- MODULE MCExamples -----------------------------
(***************************************************************************)
(* One or two processes on one device, with messages of one or two parts.  *)
(***************************************************************************)
EXTENDS Examples

MCOperations == {"info", "health", "stop", "start_scan"}

=============================================================================
