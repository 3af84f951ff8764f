------------------------------ MODULE Topology ------------------------------
(***************************************************************************)
(* The two maps NewUpdateServer builds from the topology file              *)
(* (pkg/mahogany/sources/update_server.go:59-85, pkg/schema/topology.go).  *)
(*                                                                         *)
(* A topology is [baseline |-> Seq(package), hosts |-> Seq(host entry)], a *)
(* package [id, github, accepts, install] and a host entry [name,          *)
(* packages, skipped].  github is the full name of the repository or NoRepo*)
(* for a package from elsewhere, accepts the asset names its regular       *)
(* expression matches.  Reading the file, compiling the expressions and    *)
(* the validator (whose tags on the two slices do not descend into their   *)
(* elements, so that no field is ever required) decide only which topology *)
(* it is.                                                                  *)
(***************************************************************************)
EXTENDS Integers, FiniteSets, SequencesExt

CONSTANTS NoRepo,    \* the GithubPackage pointer that is nil
          ALL_HOSTS  \* "*"

IsList(x) == x \in Seq(ToSet(x))

\* What is listed is in slices.
IsTopology(topology) ==
  /\ IsList(topology.baseline)
  /\ IsList(topology.hosts)
  /\ \A entry \in ToSet(topology.hosts) : IsList(entry.packages) /\ IsList(entry.skipped)

EmptyIndex == [githubPackages |-> <<>>, packageToHost |-> <<>>]

\* map[key] = value.
Assign(map, key, value) ==
  [k \in DOMAIN map \cup {key} |-> IF k = key THEN value ELSE map[k]]

\* Mutant: the first definition of an id stays.
PutGithubFirst(packages, pack) ==
  IF pack.github = NoRepo \/ pack.id \in DOMAIN packages THEN packages
  ELSE Assign(packages, pack.id, pack)

\* s.githubPackages[pack.ID] = &pack, when the package has a repository.
PutGithub(packages, pack) ==
  IF pack.github = NoRepo THEN packages ELSE Assign(packages, pack.id, pack)

\* Mutant: a new inner map replaces the one an earlier entry made.
PutHostFresh(hosts, id, host) == Assign(hosts, id, {host})

\* packageToHost[id][host] = true, making the inner map if there is none.
PutHost(hosts, id, host) ==
  LET known == IF id \in DOMAIN hosts THEN hosts[id] ELSE {}
  IN  Assign(hosts, id, known \cup {host})

AddBaseline(index, pack) ==
  [githubPackages |-> PutGithub(index.githubPackages, pack),
   packageToHost  |-> Assign(index.packageToHost, pack.id, {ALL_HOSTS})]

AddHostPackages(index, entry) ==
  [githubPackages |-> FoldLeft(PutGithub, index.githubPackages, entry.packages),
   packageToHost  |->
     FoldLeft(LAMBDA hosts, id : PutHost(hosts, id, entry.name),
              FoldLeft(LAMBDA hosts, pack : PutHost(hosts, pack.id, entry.name),
                       index.packageToHost, entry.packages),
              entry.skipped)]

\* NewUpdateServer's loops: the baseline, then the hosts, in file order.
Index(topology) ==
  FoldLeft(AddHostPackages,
           FoldLeft(AddBaseline, EmptyIndex, topology.baseline),
           topology.hosts)

\* ReleaseStream's test: is the host to be sent releases of package id?
RoutedTo(index, id, host) ==
  /\ id \in DOMAIN index.packageToHost
  /\ {host, ALL_HOSTS} \cap index.packageToHost[id] # {}

\* PropagateGithubRelease's filter: the assets of an event that the package
\* accepts by name and that are downloaded from its own repository.
MatchingAssets(pack, event) ==
  {a \in event.assets : a.name \in pack.accepts /\ a.origin = pack.github}

\* The events PropagateGithubRelease broadcasts.
Propagated(index, event) ==
  /\ event.repo \in DOMAIN index.githubPackages
  /\ MatchingAssets(index.githubPackages[event.repo], event) # {}

-----------------------------------------------------------------------------
(* What a topology lists, read off without the loops.                      *)

\* Where a package can be: the baseline, 0, or a host entry, and its index there.
Places(topology) ==
  ({0} \X DOMAIN topology.baseline) \cup
  UNION {{k} \X DOMAIN topology.hosts[k].packages : k \in DOMAIN topology.hosts}

PackageAt(topology, place) ==
  IF place[1] = 0 THEN topology.baseline[place[2]]
                  ELSE topology.hosts[place[1]].packages[place[2]]

Later(this, that) ==
  \/ this[1] > that[1]
  \/ this[1] = that[1] /\ this[2] > that[2]

Ids(topology) ==
  {PackageAt(topology, place).id : place \in Places(topology)} \cup
  UNION {ToSet(entry.skipped) : entry \in ToSet(topology.hosts)}

InBaseline(topology, id) ==
  \E i \in DOMAIN topology.baseline : topology.baseline[i].id = id

ListedFor(topology, id, host) ==
  \E entry \in ToSet(topology.hosts) :
    entry.name = host /\ \E pack \in ToSet(entry.packages) : pack.id = id

SkippedBy(topology, id, host) ==
  \E entry \in ToSet(topology.hosts) :
    entry.name = host /\ id \in ToSet(entry.skipped)

\* The hosts a package goes to, as the loops read the file.
Listed(topology, id, host) ==
  \/ InBaseline(topology, id)
  \/ \E name \in {host, ALL_HOSTS} :
       ListedFor(topology, id, name) \/ SkippedBy(topology, id, name)

\* Does no package after this one have its id and a repository, as it has?
IsLast(topology, place) ==
  LET pack(p) == PackageAt(topology, p)
  IN  /\ pack(place).github # NoRepo
      /\ \A other \in Places(topology) :
           Later(other, place) /\ pack(other).id = pack(place).id
             => pack(other).github = NoRepo
=============================================================================
