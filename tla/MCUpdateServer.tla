--------------------------- MODULE MCUpdateServer ---------------------------
(***************************************************************************)
(* Two agents, h1 and h2, and two releases: one of a package every host    *)
(* has, one of a package only h1 has.                                      *)
(***************************************************************************)
EXTENDS UpdateServer

CONSTANTS s1, s2, base, extra, h1, h2, repo

MCPack(id) == [id |-> id, github |-> repo, accepts |-> {"deb"}, install |-> {}]

MCtopology ==
  [baseline |-> <<MCPack("base")>>,
   hosts    |-> <<[name |-> h1, packages |-> <<MCPack("extra")>>,
                   skipped |-> <<>>]>>]

MCHostname == (s1 :> h1) @@ (s2 :> h2)

MCEvent ==
  LET of(id) == [repo |-> id, assets |-> {[name |-> "deb", origin |-> repo]}]
  IN  (base :> of("base")) @@ (extra :> of("extra"))
=============================================================================
