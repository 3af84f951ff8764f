--------------------------- MODULE MCServicesStream ---------------------------
(***************************************************************************)
(* Streams of two hosts that report services of the same names; s1 and s2  *)
(* are of one host, as an agent that reconnects leaves them.               *)
(***************************************************************************)
EXTENDS ServicesStream, TLC

CONSTANTS h1, h2, s1, s2, s3, n1, n2, up, down

Of(n, v) == [name |-> n, status |-> v]

MCHostname == [s \in Stream |-> IF s = s3 THEN h2 ELSE h1]

MCReport ==
  [h \in Host |-> IF h = h1 THEN {<<Of(n1, up)>>, <<Of(n2, up), Of(n1, down)>>}
                            ELSE {<<Of(n1, up)>>}]

MCReportOne == [h \in Host |-> {<<>>} \cup {<<Of(n1, v)>> : v \in Status}]

\* s1 and s2 are of one host and start alike.
Symmetry == Permutations({s1, s2})
=============================================================================
