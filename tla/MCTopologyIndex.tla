--------------------------- MODULE MCTopologyIndex ---------------------------
(***************************************************************************)
(* Topologies with at most one baseline package and either two host        *)
(* entries that list at most one package each or one that lists two; an    *)
(* entry skips at most one.  The entries may be of the same host, and ids  *)
(* repeat freely.                                                          *)
(***************************************************************************)
EXTENDS TopologyIndex

CONSTANTS app, tool, owner_app, h1, h2, old, new

MCPackage ==
  [id : {app, tool}, github : {NoRepo, owner_app}, accepts : {{}},
   install : {old, new}]

AtMostOne(S) == {<<>>} \cup {<<x>> : x \in S}

MCEntry ==
  [name : {h1, h2}, packages : AtMostOne(MCPackage),
   skipped : AtMostOne({app, tool})]

MCWideEntry ==
  [name : {h1}, packages : MCPackage \X MCPackage,
   skipped : AtMostOne({app, tool})]

MCTopologies ==
  [baseline : AtMostOne({p \in MCPackage : p.install = old}),
   hosts : {<<e>> : e \in MCWideEntry} \cup (MCEntry \X MCEntry)]

MCHosts == {h1, h2}
=============================================================================
