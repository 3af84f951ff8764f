---------------------------- MODULE TopologyIndex ----------------------------
(***************************************************************************)
(* One server start: a topology is read, then indexed.                     *)
(***************************************************************************)
EXTENDS Topology

CONSTANTS Topologies,  \* the topologies to index
          Hosts        \* the host names agents report

ASSUME TopologyIndexAssumption == \A t \in Topologies : IsTopology(t)

VARIABLES decoded,     \* s.topology
          maps         \* s.githubPackages and s.packageToHost

indexVars == <<decoded, maps>>

IndexInit ==
  /\ decoded \in Topologies
  /\ maps = EmptyIndex

NewUpdateServer ==
  /\ maps = EmptyIndex
  /\ maps' = Index(decoded)
  /\ UNCHANGED decoded

IndexNext == NewUpdateServer

IndexSpec == IndexInit /\ [][IndexNext]_indexVars

Indexed == maps # EmptyIndex

(* The loops route as the file lists: a package in the baseline goes to    *)
(* every host, whatever host entries say of it later, another one to the   *)
(* hosts whose entries name it, as listed or skipped, and to no other.     *)
RoutedAsListed ==
  Indexed =>
    \A id \in Ids(decoded), host \in Hosts :
      RoutedTo(maps, id, host) <=> Listed(decoded, id, host)

(* One definition per id: a release uses the asset expression and install  *)
(* command of the entry listed last, on every host that gets it, and an    *)
(* id listed without a repository does not hide one listed with it.        *)
LastDefinitionWins ==
  Indexed =>
    LET last == {p \in Places(decoded) : IsLast(decoded, p)}
    IN  {<<id, maps.githubPackages[id]>> : id \in DOMAIN maps.githubPackages}
          = {<<PackageAt(decoded, p).id, PackageAt(decoded, p)>> : p \in last}

(* topology.go:29 gives a host entry a list of `skipped` packages: a host  *)
(* that skips a package it does not list is not sent its releases.         *)
SkippedIsNotSent ==
  Indexed =>
    \A id \in Ids(decoded), host \in Hosts :
      SkippedBy(decoded, id, host) /\ ~ListedFor(decoded, id, host)
        => ~RoutedTo(maps, id, host)

(* update_server.go:30 calls githubPackages a "map of github full name to  *)
(* package".                                                               *)
KeyedByFullName ==
  \A key \in DOMAIN maps.githubPackages :
    maps.githubPackages[key].github = key
=============================================================================
