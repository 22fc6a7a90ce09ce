----------------------------- MODULE MCSession ------------------------------
(***************************************************************************)
(* Session with messages of one or two parts, so that a message can be read*)
(* or flushed in halves.                                                   *)
(***************************************************************************)
EXTENDS Session

MCOperations == {"info", "health", "stop", "reset", "start_scan"}
MCQueries    == {"info", "health"}

=============================================================================
