------------------------------ MODULE Settings ------------------------------
(***************************************************************************)
(* pkg/mahogany/views/settings.go: PostSettings, one goroutine per request *)
(* POST /settings, and the clients of the registry, of watchtower and of   *)
(* the VPN, which reload builds anew from the settings of the request's    *)
(* transaction and assigns to the ViewFinder every page shares.            *)
(*                                                                         *)
(* Each statement is atomic, and any may fail.  UPDATE takes the write     *)
(* lock of the database, which its transaction keeps until it ends.  A     *)
(* request's context ends when its client leaves and when its handler      *)
(* returns; from then on its statements fail, and database/sql rolls its   *)
(* transaction back in a goroutine of its own.                             *)
(***************************************************************************)
EXTENDS Tables, SequencesExt

CONSTANTS Save,       \* the requests
          Form,       \* what one may post: [name, value]
          Value,      \* the values of settings
          Duration,   \* those time.ParseDuration accepts
          Initial,    \* the tables the server may be started on first
          ZeroTime,   \* the timeout of a client that was given none
          NoSave,     \* who holds a free lock, and who built the clients at start
          MaxOutages  \* bound: how often reads fail, one or several in a row

Client == {"registry", "watchtower", "deviceFinder"}

\* The settings in the order in which reload reads them.
ReadOrder == <<"RegistryTimeout", "WatchtowerTimeout",
               "RegistryAddr",
               "WatchtowerAddr", "WatchtowerToken",
               "TailscaleApiKey", "TailnetName">>
Name     == {ReadOrder[i] : i \in 1..7}
Timeouts == {"RegistryTimeout", "WatchtowerTimeout"}

ASSUME SettingsAssumption ==
  /\ Form \subseteq [name : STRING, value : Value]
  /\ Duration \subseteq Value
  /\ Initial \subseteq [Name -> Value]
  /\ Blank \in Value \ Duration
  /\ ZeroTime \notin Value
  /\ NoSave \notin Save
  /\ MaxOutages \in Nat

VARIABLES
  stored,  \* the table of settings
  writer,  \* who holds the write lock
  up,      \* whether the server runs
  boot,    \* the settings read by a server that starts, in order
  outages, \* how often reads have failed
  live,    \* v.registry, v.watchtower, v.deviceFinder
  at,      \* where each request's handler is
  form,    \* what it posts
  left,    \* whether its client has left
  tx,      \* its transaction
  read,    \* the settings its reload has read, in order
  builder, \* history: the request that built each client,
  saw      \*   and the table each request, and the start, had before it

request == <<at, form, left, tx, read>>
process == <<up, boot>>
clients == <<live, builder>>
settingsVars == <<stored, writer, process, outages, clients, request, saw>>

\* Where a handler has returned; "busy" is one whose COMMIT met a reader.
Settled == {"saved", "failed", "busy"}

\* The types of the table, of the requests and of the clients.
SettingsTypeOK ==
  /\ stored \in [Name -> Value]
  /\ writer \in Save \cup {NoSave}
  /\ up \in BOOLEAN
  /\ boot \in Seq(Value) /\ Len(boot) < 7
  /\ outages \in 0..MaxOutages
  /\ live \in [Client -> Seq(Value \cup {ZeroTime})]
  /\ at \in [Save -> {"idle", "update", "read", "swap", "commit"} \cup Settled]
  /\ form \in [Save -> Form]
  /\ left \in [Save -> BOOLEAN]
  /\ tx \in [Save -> {"none", "open", "done"}]
  /\ read \in [Save -> Seq(Value)]
  /\ \A s \in Save : /\ Len(read[s]) <= 7
                     /\ at[s] = "read" => Len(read[s]) < 7
                     /\ at[s] = "swap" => Len(read[s]) \in {3, 5, 7}
  /\ builder \in [Client -> Save \cup {NoSave}]
  /\ saw \in [Save \cup {NoSave} -> [Name -> Value]]

NewRegistry(registryAddr, timeout) == <<registryAddr, timeout>>

\* The timeout is not kept.
NewWatchtower(addr, token, timeout) == <<addr, token, ZeroTime>>

NewClient(apiKey, tailnet) == <<apiKey, tailnet>>

\* What reload builds of the values it read.
Built(c, values) ==
  CASE c = "registry"     -> NewRegistry(values[3], values[1])
    [] c = "watchtower"   -> NewWatchtower(values[4], values[5], values[2])
    [] c = "deviceFinder" -> NewClient(values[6], values[7])

AllOf(settings) == [i \in 1..7 |-> settings[ReadOrder[i]]]

Parse(settings) == \A n \in Timeouts : settings[n] \in Duration

\* The table the transaction of s reads once it has updated it.
View(s) == UpdateSetting(stored, form[s].name, form[s].value)

NoClients == [c \in Client |-> <<>>]

SettingsInit ==
  /\ stored \in Initial /\ Parse(stored)
  /\ writer = NoSave
  /\ up = FALSE
  /\ boot = <<>>
  /\ outages = 0
  /\ live = NoClients
  /\ at = [s \in Save |-> "idle"]
  /\ form \in [Save -> Form]
  /\ left = [s \in Save |-> FALSE]
  /\ tx = [s \in Save |-> "none"]
  /\ read = [s \in Save |-> <<>>]
  /\ builder = [c \in Client |-> NoSave]
  /\ saw = [s \in Save \cup {NoSave} |-> stored]

-----------------------------------------------------------------------------
(* The transaction.                                                        *)

Release(s) ==
  /\ tx' = [tx EXCEPT ![s] = "done"]
  /\ writer' = IF writer = s THEN NoSave ELSE writer

BeginTx(s) ==
  /\ up
  /\ at[s] = "idle"
  /\ \/ /\ at' = [at EXCEPT ![s] = "update"]
        /\ tx' = [tx EXCEPT ![s] = "open"]
     \/ /\ at' = [at EXCEPT ![s] = "failed"]
        /\ UNCHANGED tx
  /\ UNCHANGED <<stored, writer, process, outages, clients, form, left, read, saw>>

ClientLeaves(s) ==
  /\ at[s] \notin {"idle"} \cup Settled
  /\ ~left[s]
  /\ left' = [left EXCEPT ![s] = TRUE]
  /\ UNCHANGED <<stored, writer, process, outages, clients, at, form, tx, read, saw>>

\* Mutant: the transaction is begun on a context that never ends.
AwaitDoneNever(s) ==
  /\ FALSE
  /\ UNCHANGED settingsVars

\* database/sql: the context of an open transaction has ended.
AwaitDone(s) ==
  /\ tx[s] = "open"
  /\ left[s] \/ at[s] \in Settled
  /\ Release(s)
  /\ UNCHANGED <<stored, process, outages, clients, at, form, left, read, saw>>

Usable(s) == tx[s] = "open" /\ ~left[s]

\* The UPDATE.  It fails when the file is locked, by whomever, when its
\* context has ended, or otherwise, with the lock or without; PostSettings
\* then returns with the transaction still open.
Update(s) ==
  /\ at[s] = "update"
  /\ \/ /\ Usable(s)
        /\ writer = NoSave
        /\ writer' = s
        /\ \/ /\ at' = [at EXCEPT ![s] = "read"]
              /\ saw' = [saw EXCEPT ![s] = View(s)]
           \/ /\ at' = [at EXCEPT ![s] = "failed"]
              /\ UNCHANGED saw
     \/ /\ at' = [at EXCEPT ![s] = "failed"]
        /\ UNCHANGED <<writer, saw>>
  /\ UNCHANGED <<stored, process, outages, clients, form, left, tx, read>>

\* Mutant: reload reads outside the transaction.
ReadValueOutside(s, n) == IF Usable(s) THEN GetSetting(stored, n) ELSE Blank

\* getSetting in the transaction; the error of an ended context is the
\* empty string.
ReadValue(s, n) == IF Usable(s) THEN GetSetting(View(s), n) ELSE Blank

\* A query fails for another reason, or because the one before it did: a
\* deadline that has passed, a file that stays locked.  getSetting logs it
\* and goes on with the empty string.
ReadFails(values) ==
  \/ /\ values # <<>> /\ Last(values) = Blank
     /\ UNCHANGED outages
  \/ /\ outages < MaxOutages
     /\ outages' = outages + 1

\* Mutant: only the first timeout is tested.
ParsedFirst(values) == Len(values) \in {1, 2} => values[1] \in Duration

\* The two timeouts are read and parsed before anything is built.
Parsed(values) == Len(values) <= 2 => values[Len(values)] \in Duration

\* reload has read its next setting; a timeout that does not parse ends it,
\* and PostSettings rolls back.
GoOn(s, values) ==
  IF Parsed(values)
  THEN /\ read' = [read EXCEPT ![s] = values]
       /\ at' = [at EXCEPT ![s] = IF Len(values) \in {3, 5, 7}
                                  THEN "swap" ELSE "read"]
       /\ UNCHANGED <<tx, writer>>
  ELSE /\ read' = [read EXCEPT ![s] = <<>>]
       /\ at' = [at EXCEPT ![s] = "failed"]
       /\ Release(s)

ReadSetting(s) ==
  /\ at[s] = "read"
  /\ \/ /\ GoOn(s, Append(read[s], ReadValue(s, ReadOrder[Len(read[s]) + 1])))
        /\ UNCHANGED outages
     \/ /\ Usable(s)
        /\ ReadFails(read[s])
        /\ GoOn(s, Append(read[s], Blank))
  /\ UNCHANGED <<stored, process, clients, form, left, saw>>

\* The client reload builds next.
Ready(s) == CASE Len(read[s]) = 3 -> "registry"
              [] Len(read[s]) = 5 -> "watchtower"
              [] Len(read[s]) = 7 -> "deviceFinder"

\* Mutant: reload does not end with the third client.
SwapOn(s) ==
  /\ at[s] = "swap"
  /\ live' = [live EXCEPT ![Ready(s)] = Built(Ready(s), read[s])]
  /\ builder' = [builder EXCEPT ![Ready(s)] = s]
  /\ at' = [at EXCEPT ![s] = "read"]
  /\ UNCHANGED <<stored, writer, process, outages, form, left, tx, read, saw>>

Swap(s) ==
  /\ at[s] = "swap"
  /\ live' = [live EXCEPT ![Ready(s)] = Built(Ready(s), read[s])]
  /\ builder' = [builder EXCEPT ![Ready(s)] = s]
  /\ at' = [at EXCEPT ![s] = IF Len(read[s]) = 7 THEN "commit" ELSE "read"]
  /\ UNCHANGED <<stored, writer, process, outages, form, left, tx, read, saw>>

\* COMMIT.  One that meets a reader is refused and changes nothing: the
\* transaction is over for database/sql, which takes the connection back
\* into its pool, and goes on for SQLite.  One that fails otherwise is
\* rolled back.  After the end of its context it is not tried.
Commit(s) ==
  /\ at[s] = "commit"
  /\ \/ /\ Usable(s)
        /\ stored' = View(s)
        /\ at' = [at EXCEPT ![s] = "saved"]
        /\ Release(s)
     \/ /\ Usable(s)
        /\ at' = [at EXCEPT ![s] = "busy"]
        /\ tx' = [tx EXCEPT ![s] = "done"]
        /\ UNCHANGED <<stored, writer>>
     \/ /\ Usable(s)
        /\ at' = [at EXCEPT ![s] = "failed"]
        /\ Release(s)
        /\ UNCHANGED stored
     \/ /\ ~Usable(s)
        /\ at' = [at EXCEPT ![s] = "failed"]
        /\ UNCHANGED <<stored, tx, writer>>
  /\ read' = [read EXCEPT ![s] = <<>>]
  /\ UNCHANGED <<process, outages, clients, form, left, saw>>

\* The pool closes a connection, which it does with one too many idle ones;
\* a transaction left open on it is rolled back.
CloseConnection(s) ==
  /\ writer = s
  /\ tx[s] = "done"
  /\ writer' = NoSave
  /\ UNCHANGED <<stored, process, outages, clients, request, saw>>

-----------------------------------------------------------------------------
(* The process may die at any time, with all it has in memory, and is      *)
(* started again.                                                          *)

Crash ==
  /\ up \/ boot # <<>>
  /\ up' = FALSE
  /\ boot' = <<>>
  /\ live' = NoClients
  /\ builder' = [c \in Client |-> NoSave]
  /\ writer' = NoSave
  /\ at' = [s \in Save |-> IF at[s] \in {"idle"} \cup Settled
                           THEN at[s] ELSE "failed"]
  /\ tx' = [s \in Save |-> IF tx[s] = "open" THEN "done" ELSE tx[s]]
  /\ read' = [s \in Save |-> <<>>]
  /\ UNCHANGED <<stored, outages, form, left, saw>>

\* NewViewFinder has read the next setting, on the database itself.  With a
\* timeout that does not parse the process ends, to be started again; nobody
\* sees the clients before there are three.
Start(values) ==
  IF ~Parsed(values) \/ Len(values) < 7
  THEN /\ boot' = IF Parsed(values) THEN values ELSE <<>>
       /\ UNCHANGED <<up, live, saw>>
  ELSE /\ up' = TRUE
       /\ boot' = <<>>
       /\ live' = [c \in Client |-> Built(c, values)]
       /\ saw' = [saw EXCEPT ![NoSave] = stored]

NewViewFinder ==
  /\ ~up
  /\ \/ /\ Start(Append(boot, GetSetting(stored, ReadOrder[Len(boot) + 1])))
        /\ UNCHANGED outages
     \/ /\ ReadFails(boot)
        /\ Start(Append(boot, Blank))
  /\ UNCHANGED <<stored, writer, builder, request>>

Step(s) == BeginTx(s) \/ Update(s) \/ ReadSetting(s) \/ Swap(s) \/ Commit(s)

SettingsNext ==
  \/ Crash
  \/ NewViewFinder
  \/ \E s \in Save : \/ Step(s) \/ ClientLeaves(s)
                     \/ AwaitDone(s) \/ CloseConnection(s)

SettingsSpec == SettingsInit /\ [][SettingsNext]_settingsVars

\* A handler goes on to its end, as does a rollback, and systemd starts the
\* server again.  Nobody has to post, leave or crash, and no connection
\* has to be closed.
SettingsFairness ==
  /\ WF_settingsVars(NewViewFinder)
  /\ \A s \in Save : /\ WF_settingsVars(at[s] # "idle" /\ Step(s))
                     /\ WF_settingsVars(AwaitDone(s))

SettingsFairSpec == SettingsSpec /\ SettingsFairness

-----------------------------------------------------------------------------
(* Pages never use a client made of two saves, such as the address of one  *)
(* with the token of another: each value is that of the table as the       *)
(* request that built the client had it, or empty where a read failed.     *)
(* That request need not have been saved, since reload replaces the        *)
(* clients before the commit; if it was, its table is the stored one.      *)
ClientsAreOfOneTable ==
  up => \A c \in Client :
    /\ \A i \in DOMAIN live[c] :
         live[c][i] \in {Blank, Built(c, AllOf(saw[builder[c]]))[i]}
    /\ builder[c] = NoSave \/ at[builder[c]] = "saved" => saw[builder[c]] = stored

(* Whatever is saved, and wherever the process dies, the next start can    *)
(* parse the timeouts it finds.                                            *)
StoredTimeoutsParse == Parse(stored)

(* A transaction ends with its request, also when PostSettings returned an *)
(* error without rolling it back, and lets others write again.  One whose  *)
(* COMMIT met a reader is the exception: its connection keeps the lock.    *)
LocksAreReturned ==
  \A s \in Save : tx[s] = "open" ~> tx[s] = "done" /\ (writer = s => at[s] = "busy")
=============================================================================
