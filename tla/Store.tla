-------------------------------- MODULE Store --------------------------------
(***************************************************************************)
(* The tables users edit, and the two commands that carry them from one    *)
(* database to another: pkg/mahogany/views/packages.go, the watched        *)
(* services and saves of views/settings.go, exportData and importData of   *)
(* main.go.  Requests, an export and an import run in goroutines and       *)
(* processes of their own; a single statement is atomic, and any may fail. *)
(* A page is the list of packages a user last saw and acts on.             *)
(***************************************************************************)
EXTENDS Tables, Sequences

CONSTANTS User, PackageName, Command, Service, Setting, SettingValue,
          Post,      \* the packages users post: [name, cmd]
          Database,  \* the contents a database or an export file may start with
          MaxId,     \* bound: the largest id of a package
          MaxTurns   \* bound: how often the tables are edited or a command run

Row == [id : 1..MaxId, name : PackageName, cmd : Command]

\* The columns have their types, and the UNIQUE names and ids are unique.
IsPackages(listed) ==
  /\ listed \subseteq Row
  /\ \A p, q \in listed : p.id = q.id \/ p.name = q.name => p = q

\* What the three tables may hold.
IsDatabase(d) ==
  /\ IsPackages(d.packages)
  /\ d.services \subseteq Service
  /\ d.settings \in [Setting -> SettingValue]

\* A database and the file of an export hold what the program wrote there.
ASSUME StoreAssumption ==
  /\ MaxId \in Nat /\ MaxTurns \in Nat
  /\ Post \subseteq [name : PackageName, cmd : Command]
  /\ \A d \in Database : IsDatabase(d)

VARIABLES
  packages, services, settings,  \* the tables
  rows,       \* the rows each user sees
  adding,     \* the packages each user's POST /package has yet to insert
  file,       \* the export file: what was exported, or Blank
  exporting,  \* the tables an export has read, in order; <<>> for no export
  importing,  \* what an import has yet to do; nothing for no import
  turns,      \* how many edits there were, and exports and imports
  clean,      \* history: whether the last import was not broken off and met
              \*   no error but rows that were there already,
  loaded,     \*   what it imports,
  before,     \*   the packages when that was first imported,
  touched,    \*   and the names users have touched since
  lasting,    \* history: the rows of each table since the export under way
  passing     \*   began: those there all the while, those there at any moment

tables == <<packages, services, settings>>
shown  == <<rows, adding>>
facts  == <<clean, loaded, before, touched, lasting, passing>>
storeVars == <<tables, shown, file, exporting, importing, turns, facts>>

Todo == [packages : SUBSET [name : PackageName, cmd : Command],
         services : SUBSET Service,
         settings : SUBSET Setting]
Nothing == [packages |-> {}, services |-> {}, settings |-> {}]

\* What the packages table is, apart from its ids.
Contents(listed) == {[name |-> p.name, cmd |-> p.cmd] : p \in listed}

Tables == [settings |-> settings, packages |-> packages, services |-> services]

\* The rows of each table of d.
Table == {"settings", "packages", "services"}
RowsOf(d) == [t \in Table |-> IF t = "settings"
                               THEN {<<n, d.settings[n]>> : n \in Setting}
                               ELSE d[t]]

\* The types, UNIQUE columns included, of the tables and of the file.
StoreTypeOK ==
  /\ IsDatabase(Tables)
  /\ file # Blank => IsDatabase(file)
  /\ rows \in [User -> SUBSET Row]
  /\ adding \in [User -> SUBSET [name : PackageName, cmd : Command]]
  /\ importing \in Todo
  /\ Len(exporting) <= 3
  /\ turns \in 0..MaxTurns

StoreInit ==
  \E d \in Database, f \in Database \cup {Blank} :
    /\ packages = d.packages
    /\ services = d.services
    /\ settings = d.settings
    /\ rows = [u \in User |-> {}]
    /\ adding = [u \in User |-> {}]
    /\ file = f
    /\ exporting = <<>>
    /\ importing = Nothing
    /\ turns = 0
    /\ clean = FALSE
    /\ loaded = Blank
    /\ before = {}
    /\ touched = {}
    /\ lasting = <<>>
    /\ passing = <<>>

-----------------------------------------------------------------------------
\* Histories of a step that changes the tables: touched by a user or not.
Changed(names) ==
  /\ touched' = IF loaded = Blank THEN {} ELSE touched \cup names
  /\ lasting' = [t \in DOMAIN lasting |-> lasting[t] \cap RowsOf(Tables)'[t]]
  /\ passing' = [t \in DOMAIN passing |-> passing[t] \cup RowsOf(Tables)'[t]]
  /\ UNCHANGED <<clean, loaded, before>>

\* An edit by a user.
Edited(names) ==
  /\ turns < MaxTurns
  /\ turns' = turns + 1
  /\ Changed(names)

(* Users.                                                                  *)

\* GetPackages.
ListPackages(u) ==
  /\ rows' = [rows EXCEPT ![u] = packages]
  /\ UNCHANGED <<tables, adding, file, exporting, importing, turns, facts>>

\* AddPackage lists the packages first and inserts the new one afterwards;
\* a name or command that is empty is refused in between.
PostPackage(u, new) ==
  /\ adding[u] = {}
  /\ rows' = [rows EXCEPT ![u] = packages]
  /\ adding' = [adding EXCEPT ![u] = {new}]
  /\ UNCHANGED <<tables, file, exporting, importing, turns, facts>>

\* Its answer is the old list with the new row, or an error without rows.
InsertPackage(u) ==
  \E new \in adding[u] :
    /\ adding' = [adding EXCEPT ![u] = {}]
    /\ \/ /\ NamedPackage(packages, new.name) = {}
          /\ NextId(packages) <= MaxId
          /\ packages' = AddPackage(packages, new.name, new.cmd)
          /\ rows' = [rows EXCEPT ![u] = @ \cup (packages' \ packages)]
          /\ UNCHANGED <<services, settings>>
          /\ Edited({new.name})
       \/ /\ rows' = [rows EXCEPT ![u] = {}]
          /\ UNCHANGED <<tables, turns, facts>>
    /\ UNCHANGED <<file, exporting, importing>>

\* DELETE /package/{ID} with the id of a row the page shows; its answer is
\* the list as it is now.
DeleteShown(u, p) ==
  /\ adding[u] = {}
  /\ p \in rows[u]
  /\ packages' = DeletePackage(packages, p.id)
  /\ rows' = [rows EXCEPT ![u] = packages']
  /\ UNCHANGED <<services, settings>>
  /\ Edited({q.name : q \in packages \ packages'})
  /\ UNCHANGED <<adding, file, exporting, importing>>

\* PostSettingsWatchedService and DeleteWatchedService.
EditServices(v) ==
  /\ \/ services' = AddWatchedService(services, v)
     \/ services' = DeleteWatchedService(services, v)
  /\ services' # services
  /\ UNCHANGED <<packages, settings>>
  /\ Edited({v})
  /\ UNCHANGED <<shown, file, exporting, importing>>

\* A save, which Settings.tla looks into.
SaveSetting(n, value) ==
  /\ settings' = UpdateSetting(settings, n, value)
  /\ UNCHANGED <<packages, services>>
  /\ Edited({n})
  /\ UNCHANGED <<shown, file, exporting, importing>>

-----------------------------------------------------------------------------
(* mahogany export.                                                        *)

\* The file is truncated before anything is read.
StartExport ==
  /\ turns < MaxTurns
  /\ exporting = <<>>
  /\ file' = Blank
  /\ exporting' = <<settings>>
  /\ turns' = turns + 1
  /\ lasting' = RowsOf(Tables)
  /\ passing' = RowsOf(Tables)
  /\ UNCHANGED <<tables, shown, importing, clean, loaded, before, touched>>

\* Mutant: the error of a list is logged and the export goes on without it.
ExportNextGoesOn ==
  /\ Len(exporting) \in 1..2
  /\ \E listed \in {IF Len(exporting) = 1 THEN packages ELSE services, {}} :
       exporting' = Append(exporting, listed)
  /\ UNCHANGED <<tables, shown, file, importing, turns, facts>>

\* ListPackages, then ListWatchedServices.
ExportNext ==
  /\ Len(exporting) \in 1..2
  /\ exporting' = Append(exporting, IF Len(exporting) = 1 THEN packages ELSE services)
  /\ UNCHANGED <<tables, shown, file, importing, turns, facts>>

Exported ==
  /\ exporting' = <<>>
  /\ lasting' = <<>>
  /\ passing' = <<>>
  /\ UNCHANGED <<clean, loaded, before, touched>>

WriteExport ==
  /\ Len(exporting) = 3
  /\ file' = [settings |-> exporting[1], packages |-> exporting[2],
              services |-> exporting[3]]
  /\ Exported
  /\ UNCHANGED <<tables, shown, importing, turns>>

\* A statement fails or the process dies: the file stays empty.
ExportEnds ==
  /\ exporting # <<>>
  /\ Exported
  /\ UNCHANGED <<tables, shown, file, importing, turns>>

-----------------------------------------------------------------------------
(* mahogany import.                                                        *)

\* An empty file does not decode, and nothing is done.
StartImport ==
  /\ turns < MaxTurns
  /\ importing = Nothing
  /\ file # Blank
  /\ importing' = [packages |-> Contents(file.packages),
                   services |-> file.services,
                   settings |-> DOMAIN file.settings]
  /\ turns' = turns + 1
  /\ clean' = TRUE
  /\ IF loaded = file
     THEN UNCHANGED <<loaded, before, touched>>
     ELSE loaded' = file /\ before' = packages /\ touched' = {}
  /\ UNCHANGED <<tables, shown, file, exporting, lasting, passing>>

Imported ==
  /\ Changed({})
  /\ UNCHANGED <<shown, file, exporting, turns>>

\* Mutant: the import replaces a package that is there.
ImportPackageReplacing(p) ==
  /\ p \in importing.packages
  /\ importing' = [importing EXCEPT !.packages = @ \ {p}]
  /\ NextId(packages) <= MaxId
  /\ packages' = AddPackage(packages \ NamedPackage(packages, p.name), p.name, p.cmd)
  /\ UNCHANGED <<services, settings>>
  /\ Imported

\* A package whose name is taken is left as it is.
ImportPackage(p) ==
  /\ p \in importing.packages
  /\ importing' = [importing EXCEPT !.packages = @ \ {p}]
  /\ IF NamedPackage(packages, p.name) = {}
     THEN /\ NextId(packages) <= MaxId
          /\ packages' = AddPackage(packages, p.name, p.cmd)
     ELSE UNCHANGED packages
  /\ UNCHANGED <<services, settings>>
  /\ Imported

ImportSetting(n) ==
  /\ importing.packages = {}
  /\ n \in importing.settings
  /\ importing' = [importing EXCEPT !.settings = @ \ {n}]
  /\ settings' = UpdateSetting(settings, n, loaded.settings[n])
  /\ UNCHANGED <<packages, services>>
  /\ Imported

ImportService(v) ==
  /\ importing.packages = {}
  /\ importing.settings = {}
  /\ v \in importing.services
  /\ importing' = [importing EXCEPT !.services = @ \ {v}]
  /\ services' = AddWatchedService(services, v)
  /\ UNCHANGED <<packages, settings>>
  /\ Imported

\* A row fails for another reason, and the import goes on with the next; or
\* the process dies.  Either way it may be run again.
ImportFails ==
  /\ importing # Nothing
  /\ clean' = FALSE
  /\ \/ importing' = Nothing
     \/ \E p \in importing.packages :
          importing' = [importing EXCEPT !.packages = @ \ {p}]
     \/ \E n \in importing.settings :
          importing' = [importing EXCEPT !.settings = @ \ {n}]
     \/ \E v \in importing.services :
          importing' = [importing EXCEPT !.services = @ \ {v}]
  /\ UNCHANGED <<tables, shown, file, exporting, turns, loaded, before, touched>>
  /\ UNCHANGED <<lasting, passing>>

StoreNext ==
  \/ \E u \in User : \/ ListPackages(u)
                     \/ \E new \in Post : PostPackage(u, new)
                     \/ InsertPackage(u)
                     \/ \E p \in rows[u] : DeleteShown(u, p)
  \/ \E v \in Service : EditServices(v)
  \/ \E n \in Setting, value \in SettingValue : SaveSetting(n, value)
  \/ StartExport \/ ExportNext \/ WriteExport \/ ExportEnds
  \/ StartImport \/ ImportFails
  \/ \E p \in importing.packages : ImportPackage(p)
  \/ \E n \in importing.settings : ImportSetting(n)
  \/ \E v \in importing.services : ImportService(v)

StoreSpec == StoreInit /\ [][StoreNext]_storeVars

-----------------------------------------------------------------------------
(* An import that met no error leaves in the database all that the file    *)
(* lists and no user has touched since, also when it is the second run     *)
(* after one that died or failed halfway: new packages with the commands   *)
(* of the file, known ones with those they had.                            *)
ImportRestores ==
  clean /\ importing = Nothing =>
    /\ \A p \in Contents(loaded.packages) :
         p.name \in touched
         \/ \E q \in packages :
              /\ q.name = p.name
              /\ IF NamedPackage(before, p.name) = {} THEN q.cmd = p.cmd
                                                      ELSE q \in before
    /\ loaded.services \subseteq services \cup touched
    /\ \A n \in Setting : n \in touched \/ settings[n] = loaded.settings[n]

(* An export reads its three lists one after the other, outside any        *)
(* transaction, while users and an import go on.  Yet no row is lost that  *)
(* was there all the while, and none is written that was never there.      *)
LastingRowsAreExported ==
  [][WriteExport =>
       \A t \in Table : /\ lasting[t] \subseteq RowsOf(file')[t]
                        /\ RowsOf(file')[t] \subseteq passing[t]]_storeVars

(* The X beside a package on the page deletes that package and no other,   *)
(* however old the page is.                                                *)
DeletesTheRowShown ==
  [][\A u \in User : \A p \in rows[u] :
       DeleteShown(u, p) => packages \ packages' \subseteq {p}]_storeVars
=============================================================================
