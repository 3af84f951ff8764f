------------------------------ MODULE MCAgent ------------------------------
(* One failure, and three releases of which one is not for the host. *)
EXTENDS Agent
CONSTANTS m1, m2, m3
=============================================================================
