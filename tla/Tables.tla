------------------------------- MODULE Tables -------------------------------
(***************************************************************************)
(* The statements of internal/db/queries.sql.go that the program executes, *)
(* as operators on the tables of schema.sql.  The table of settings is a   *)
(* function from its names, since nothing adds or deletes a row; those of  *)
(* watched services is a set of UNIQUE names; that of packages is a set of *)
(* rows.  A list is the set of what it lists: no caller depends on the     *)
(* order.                                                                  *)
(***************************************************************************)
EXTENDS Integers, FiniteSets, FiniteSetsExt

CONSTANT Blank  \* the empty string, the value of a row that was not read

GetSetting(settings, name) ==
  IF name \in DOMAIN settings THEN settings[name] ELSE Blank

\* UPDATE ... WHERE name = ?: a name without a row changes nothing.
UpdateSetting(settings, name, value) ==
  [n \in DOMAIN settings |-> IF n = name THEN value ELSE settings[n]]

\* Of a package, its commands count as one.
NamedPackage(packages, name) == {p \in packages : p.name = name}

\* Mutant: ids are counted.
NextIdByCount(packages) == 1 + Cardinality(packages)

\* INTEGER PRIMARY KEY: one more than the largest id that is in use now.
NextId(packages) == 1 + Max({0} \cup {p.id : p \in packages})

\* The row an INSERT makes; it fails when the UNIQUE name is taken.
AddPackage(packages, name, cmd) ==
  packages \cup {[id |-> NextId(packages), name |-> name, cmd |-> cmd]}

DeletePackage(packages, id) == {p \in packages : p.id # id}

\* INSERT INTO watched_services fails likewise, DELETE by name never.
AddWatchedService(services, name) == services \cup {name}

DeleteWatchedService(services, name) == services \ {name}
=============================================================================
