--------------------------- MODULE MCServerProcess ---------------------------
(* The server's process around the instance of MCUpdateServer. *)
EXTENDS MCUpdateServer, ServerProcess
=============================================================================
