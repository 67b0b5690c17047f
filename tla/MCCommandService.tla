-------------------------- MODULE MCCommandService --------------------------
(* Two commands with a valid payload and one without, a ping, and one crash  *)
(* or lost connection.                                                       *)
EXTENDS CommandService
============================================================================
