------------------------------ MODULE MCBroker ------------------------------
(***************************************************************************)
(* The broker on its own, used by callers that may unsubscribe at any time *)
(* after Subscribe returned.                                               *)
(***************************************************************************)
EXTENDS Broker

Symmetry == Permutations(Channel) \cup Permutations(Message)
=============================================================================
