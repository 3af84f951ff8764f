# Mahogany in TLA+

A verification development of [mahogany](../src), the server that shows and manages
containers, settings and hosts, and streams package releases to the agents running on
those hosts. The modules are translated from the Go code; every definition names its
lines in `PROJECT.json` ("map").

## The system

| Part | Source | State | Operations | Speaks to |
|---|---|---|---|---|
| release broker | `sources/broker.go` | four channels, `isStopped`, `count`; in its goroutine the map of subscribers | `Start` (the loop), `Stop`, `Subscribe`, `Unsubscribe`, `Broadcast`, `Count` | called by every handler of the update server |
| update server | `sources/update_server.go` | listener, `isClosed`, two maps from the topology, the broker | `Start`, `Stop`, `PropagateGithubRelease`, `RegisterManifest`, `ReleaseStream`, `ServicesStream`, `GetNumConnections` | agents (gRPC), broker, database |
| topology | `schema/topology.go` | none after reading | `ReadTopology` | read once by `NewUpdateServer` |
| agent | `agent.go` | `registration`, one connection, one reporter per `Run` | `Run`, `register`, `installRelease`, `reportServices` | update server, Docker, systemd |
| server process | `main.go`, `server.go` | two listening servers, a context | `RunServer`, `Start`, `Stop`, the routes | everything below |
| settings | `views/settings.go` | `settings` table; live registry, watchtower and VPN clients | `reload`, `PostSettings`, watched services | database, the three clients |
| packages, devices, export/import | `views/packages.go`, `views/devices.go`, `main.go` | `packages`, `devices`, `watched_services` tables | add, delete, list, sync, import | database, Tailscale |
| metrics | `metrics.go` | the last CPU sample | `Collect` | `/proc`, OpenTelemetry |
| pages | the other `views/*.go`, `docker.go`, `registry.go`, `watchtower.go` | none | pass requests through | Docker, registry, watchtower |

The hard part is the release path. One goroutine (the broker's loop) owns the map of
subscribers; every agent has a handler goroutine that registers a channel with it, waits
on that channel, and unregisters when it returns; every release is sent by a goroutine of
its own; and a signal stops all of it from yet another goroutine. They share `isStopped`
and `count` without synchronisation, three request channels of capacity one, and one
channel of capacity five per agent. Next come the service reports, where several streams
of one host write the same rows; the settings, where a transaction and live objects must
agree, while requests are abandoned and the process may die; pages and commands that read
in many steps what others change in between; and the agent, which retries everything for
ever without stopping what it started.

What makes each part correct:

* broker: no panic; releases are delivered in order, at most once, and are lost only to a
  subscriber whose channel is full; nobody waits for the loop for ever; a shutdown
  releases the subscribers;
* update server: each host is sent exactly the releases of the packages the topology
  gives it; the connection count is the number of subscribers; a dead connection does
  not hold anything up; a requested stop is not an error;
* topology: repeated ids and hosts do not undo each other's routing;
* service reports: one row per host and service, holding the last status reported;
* settings: no client is made of the settings of two saves; no save stores anything with
  which the server cannot start; a save that is over does not keep others from writing;
* agent: releases are begun in order and none twice, the steps of one in order up to the
  first that fails; after every reconnect it reports again; a signal ends it;
* server process: a signal or the failure of either server ends it;
* packages, export, import: a click deletes what its row shows, which is not so (see
  `stale_row`); an import can be repeated; an export loses no row that was there all the
  while and makes none up;
* registry page: it shows what was there from its first request to its last, and nothing
  that never was;
* metrics: a gauge is the share of busy time of one interval, also when counters wrap;
* device policy: no rule about a device is hidden.

`PROJECT.json` lists the components with their status and, under "hazards", each place
where one of these can go wrong, with the properties that would show it.

## Modules

| Module | What it is |
|---|---|
| `ReleaseFeed` | abstract specification: a growing log, offered in order to a bounded queue per member |
| `Broker` | `broker.go`: the loop with every case of its select, and the methods |
| `Topology` | the maps of `NewUpdateServer`, the routing test and the asset filter, as operators (folds over the file) |
| `TopologyIndex` | one start of the server over a set of topologies, with the properties of the index |
| `UpdateServer` | `Start`, `Stop`, the handlers of `ReleaseStream` and `PropagateGithubRelease`; extends `Broker` and `Topology` |
| `ServerProcess` | `RunServer`, `Server.Start` and `Server.Stop` around the update server; extends `UpdateServer` |
| `ServicesStream` | the handlers of `ServicesStream`, their ids of rows, and the `tracked_services` table |
| `Agent` | `RunAgent`, `Run`, `installRelease` and the reporters, with the server as an instance of `ReleaseFeed` |
| `Tables` | the SQL statements on settings, packages and watched services, as operators |
| `Settings` | `PostSettings`, `reload` and the live clients, over `Tables` |
| `Store` | the pages that edit the tables, with export and import, over `Tables` |
| `RegistryPage` | one page of the registry, with pushes, deletions and saves meanwhile |
| `DevicePolicy` | the rules one device's page shows |
| `Metrics` | the loop of `Collect` in the arithmetic of w-bit integers |
| `BrokerProofs`, `UpdateServerProofs`, `AgentProofs`, `ServicesStreamProofs` | theorems and proofs about the module of that name; `UpdateServerProofs` are also about `ServerProcess` |
| `TopologyProofs` | theorems about `TopologyIndex` |
| `TablesProofs` | theorems about `Settings` and `Store` |
| `MonitorProofs` | theorems about `RegistryPage`, `DevicePolicy` and `Metrics` |
| `SeqFold` | lemmas about folds over a sequence, for any operator; instantiated by `TopologyProofs` |
| `MCBroker`, `MCTopologyIndex`, `MCUpdateServer`, `MCServerProcess`, `MCServicesStream`, `MCAgent`, `MCStore` | instances for TLC |
| `MCParts` | an instance that puts the parts without common state side by side (settings, store, registry page, index, metrics, policy): an initial state chooses the part that runs |

### Broker

The control channels are sequences; that they are closed is read off `stopStep`, the
number of statements `Stop` has executed. `loop` is where the goroutine of `Start` is:
`new`, at its `select`, in the inner loop of a broadcast (`fanout`, with the subscribers
it has not visited in `todo`), in the loop that closes the subscribers (`closing`), or
`done`. Every case of the select is an action, and the cases that receive from a
*closed* channel are actions of their own: Go yields what is buffered and then the zero
value, again and again, so a closed `subC` registers nil channels, a closed `broadcastC`
fans out nils, and a closed `unsubC` makes the loop close the nil channel. A ready case
is chosen freely. A goroutine that waits parked in its select takes the first case that
becomes ready; the model does not distinguish it from one that is about to evaluate the
select, which can do the same and more.

`Subscribe`, `Unsubscribe` and `Broadcast` test `isStopped` and then send: two actions,
`...Check` and `...Send`. The flag is read without synchronisation. A stale read returns
the value of an earlier moment, which is a `...Check` taken at that moment, so the two
steps cover the data race. A send on a closed channel, or closing a channel twice or nil, sets
`fault`: the process is dead and no action is enabled. The exception is `Broadcast`,
which runs in an HTTP handler where `net/http` recovers the panic: it marks the call
`panicked`. `log`, `since` and `got` are history variables.

### Topology

A package is a record of what the code uses: id, repository, the asset names its regular
expression accepts, install command. The loops of `NewUpdateServer` are folds in file
order. `Listed` and `IsLast` read the same answers off the file without the loops: a
package of the baseline goes to every host, another one to the hosts whose entries list
or skip it (an entry named `*` is one for all hosts), and of the packages with an id and a
repository the last in the file is the one whose assets and commands are used.

### UpdateServer

A stream is identified with the channel its `Subscribe` makes and a release with the
event it comes from. `start` and `stop` are the program counters of `Start` and `Stop`,
which run in different goroutines in either order: `Stop` finds `s.ln` nil until
`SetListener`. `at` is where a handler is: waiting on its channel, in `stream.Send`, or
returning. It unsubscribes only after it has received a nil or failed to send, which is
what protects the broker from its unordered select. A lost connection is `ConnLost`; as
in the code nothing looks at it until a `Send` fails. New streams may be opened on
accepted connections also after the listener is closed: `Stop` does not stop the gRPC
server. What `main` does meanwhile is `ServerProcess`; without it the other goroutines
go on when `Start` has returned an error, which only adds behaviours. The one call of
`PropagateGithubRelease`, in `HandleGithubWebHook`, is commented out at this commit
(`server.go:201`); the model treats the method as the API it is.

### ServicesStream

Each call of `ServicesStream` is a handler: `at` is where it is (waiting in `Recv`, or
before one of its database statements), `services` what is left of the message,
`deviceID` and `trackedServices` its local variables. Each statement is atomic and has
an action per outcome, because any of them can fail: the file is locked (no busy timeout
is set) or the context of the stream has ended, which can also happen after the insert
took effect. The code tells "no such row" from no other error, so `RowNotFound` covers
both and an insert may meet a row that is there. The table is a sequence, since ids are
handed out upwards and no code deletes a row; the UNIQUE keys of the schema are guards.
All messages of a stream carry the host name of
its agent (`agent.go:184`), so a stream has one host. `AddDevice` is `syncDevices`, which runs whenever someone opens the page of devices. A
status stands for what a report says; container ids, images and times are left out. A
handler shares nothing with the broker or with `Start`, hence the module on its own.

### ServerProcess

`main` is the main goroutine from `NewServer` on; `http` is the goroutine that runs
`ListenAndServe`; the update server's is `start` of `UpdateServer`. Both send an error on
`c`, which has no buffer: `HasError` is a goroutine that waits to. The signal's goroutine
cancels the context and then takes the steps of `Stop`, so `MainReturns` may come before
any of them: the process then ends (`Exit`) without its servers being shut down, as in the
code. Only `os.Interrupt` is caught; SIGTERM kills the process at once. `Shutdown` returns
when `Timeout` is over if connections remain; nothing waits for it, so the model does not
distinguish the two.

### Agent

`main` is where the goroutine of `RunAgent` is, `run` the number of the `Run` it is in.
Each `Run` registers, sets off its reporter and opens its stream; `reporter[r]` is where
that goroutine is: opening, `on` a live connection, `off` one that is gone (it goes on
sending and logging errors until the context ends, `agent.go:243`), `cut` when it went
before its own `Run` had opened a stream, so that `Run` sees no error of its own, or
`gone`. The server is a `ReleaseFeed` whose readers are the handlers of the streams;
that the broker implements that feed is a run and `ServerImplementsBroker` carries it to
the server. `wire` is what was sent and not yet received. Steps of an installation, the
downloads and commands of a release, fail, or hang: they have neither a timeout nor the
context. A call fails when the server is down or the context is done, and may fail at any
other time too: `Fails` counts that as a fault. It may be the registration, `NewMetrics`
after it, or the opening of the stream. `Refuse` is the answer 'subscription unavailable' of a broker
that has not started yet or was stopped; it ends the stream and leaves the connection and
the reporters alone. The reports' contents are `Report` of `ServicesStream`, which has
several streams of one host because of the reporters here.

### Tables, Settings

`Tables` keeps of a table what its callers can tell apart. In `Settings`, `at` is where
each `PostSettings` is, `tx` its transaction, `read` the settings `reload` has read so far,
in the order of the code. The clients are the tuples their constructors are given;
`NewWatchtower` drops its timeout. UPDATE takes SQLite's write lock for the transaction
(`writer`), and a second one fails at once, since no busy timeout is set. A request's
context ends when its client leaves (`ClientLeaves`) or its handler returns; then every
statement fails and `database/sql` rolls back in a goroutine of its own (`AwaitDone`).

`getSetting` turns a failed read into the empty string, whatever made it fail. Reads fail
after the context has ended (`ReadValue`) and in outages (`ReadFails`): an outage lasts for
one read or several in a row, and `MaxOutages` bounds how many there are. `NewViewFinder`
makes the same seven reads of the database one by one, each of which may fail, and dies on a
timeout that is empty or does not parse. So clients may be made of empty settings; and
since `reload` replaces the clients before the commit, pages may use those of a save that
failed, until the next one. `ClientsAreOfOneTable` is what remains true of every client,
whoever built it: it is never made of two saves (an address of one with the token of
another), and if its builder was saved, it is of what is stored.

COMMIT has four outcomes: it is done; it fails and is rolled back; it is not tried since the
context has ended; or it meets a reader (`busy`). In the last case SQLite goes on with the
transaction, while `database/sql` takes the connection back into its pool: the lock is held
until the pool closes that connection (`CloseConnection`), which it need never do.
`LocksAreReturned` has that as its one exception. What others read on such a connection in
the meantime is not modelled. `Crash` is the death of the process, `NewViewFinder` its start.

### Store

What users do to packages and watched services, and the two commands, statement by
statement. `rows` is the list a user last saw: a row is deleted by the id it shows.
`NextId` is SQLite's rowid without AUTOINCREMENT: one above the largest in use, so that
the id of a deleted last row is used again. An import adds or skips each row, goes on
after an error, and may die; `clean` is the history of one that met no error but rows
that were there. The code logs `err`, which is nil, for the errors it collected
(`main.go:196`): wording only. An import into the database of a running server changes
the settings under it without a `reload`; the clients keep the old ones until the next
save, which no text of the repository rules out. Nor does an import parse the timeouts it
stores (`main.go:183`): `StoredTimeoutsParse` of `Settings` speaks of saves only, and a file
that was edited by hand may bring one that keeps the server from starting.

`exportData` reads its lists one after the other without a transaction, and truncates its
file first. The lack of a transaction does no harm to a single row: `lasting` and `passing`
are the rows of each table that were there all the while and at any moment, and what is
written lies between the two (`LastingRowsAreExported`). The lists need not be of one
moment, though. The truncation means that an export that fails leaves an empty file where the former
export was (`ExportEnds`).

That ids are handed out again makes a click on an old page delete another package than its
row shows: `DeletesTheRowShown`, which the run `stale_row` violates.

### RegistryPage

`GetRegistry` asks for the catalog, for the tags of each repository and for the manifest of
each tag, one request after the other, each through `v.registry`, which a save may replace
in between (`Reload`). No status is looked at, so the manifest of a deleted tag decodes to
one without a digest and the template fails on it (`broken`). Two things are assumed of a
registry: that one answer holds a whole list, although the code asks for the catalog and for tags
once and reads no `Link` to the rest (`registry.go:81`), and that every manifest has a config
digest, which a list of manifests has not. A page during which a save changes the
client may mix two registries: `ListedWasThere` bounds what it can show and
`LastingImagesAreListed` leaves it out.

### DevicePolicy, Metrics

Pure computations, made state machines of one or a few steps so that all inputs of a small
set are checked. A destination of a rule is a tag with a port, found by its beginning:
`Prefix` says which tags begin which. `RulesAreShown` counts the rules that name a tag of the
device: a rule for all destinations (`*:*`) names none, and the page does not show it. In `Metrics` a `uint64` is a number below `W`,
subtraction is modulo `W`, and a gauge is the fraction the code computes; a failed sample
is the nil pointer, with which the next is not compared. The gauge is right when both the
busy time and the whole time of the interval fit into a `uint64`. The first condition is
needed besides the second, because the kernel's idle counter may step back: a busy time
of just 2^w with an idle time of -1 adds up to something that fits.

## Runs

| Run | Instance | Shows |
|---|---|---|
| `broker_any_client` | 2 channels of capacity 2, 3 messages, callers free to unsubscribe at any time, `Stop` at any time | order, loss only with a full channel, and that the broker implements `ReleaseFeed`: these do not depend on what callers do |
| `update_server_running` | 2 streams (one host in the baseline only, one with a package of its own), 2 releases, channels of capacity 2, no signal | no panic, exact count, the right releases, and the liveness of requests, broadcasts and dead streams |
| `update_server_shutdown` | the whole server process with 2 streams, a signal at any time from `NewServer` on, either server failing | the process ends; a stop is no error; every registered stream is released unless the process ends first; only a subscription still in `subC` hangs |
| `services_stream` | streams `s1`, `s2` of one host and `s3` of another, two services, messages of one or two of them | whose rows a handler writes and what they show, under every failure |
| `services_converge` | streams `s1`, `s2` of one host, one service, two statuses, the empty message | the table ends up with a status that goes on being reported |
| `agent` | 3 releases, one not for the host, installations of 2 steps, a queue of 2, one lost connection, restart, or call that fails or is refused | order of installation, catching up, reporting again, ending |
| `parts` | settings: 2 saves, one of the address of watchtower, the other of its token or of a timeout that does not parse, with one outage. Store: one user, 2 packages, a service, a setting, 4 edits or commands. Registry page: 2 repositories of up to 2 tags at 2 registries, of which one repository of each changes. Index: all topologies with at most one baseline package and two host entries of one package, or one entry of two, ids and hosts repeating. Metrics: counters near 2^w for w = 4 over three intervals, each of one of five advances. Policy: all policies of two rules over three tags | settings, store and registry page under every interleaving, failure and crash; the loops of the index against the file; the CPU gauge; the rules of a device |
| `stop_panics` | 2 streams, one release, a stop at any time | finding: a stop can panic |
| `dead_agent_counted` | 1 stream, 1 release | finding: a lost agent is counted for ever |
| `stale_row` | `MCStore`: 2 users, 2 packages, 3 edits | finding: a click deletes another package than its row shows |
| `skipped_is_sent` | the topologies of `parts` | finding: skipping a package subscribes to it |
| `package_key` | the topologies of `parts` | finding: the map is not keyed as its comment says |

Bounds. Two streams are enough for two handlers to compete for the request channels
(capacity one, as in the code), for one to be visited by a fan-out before the other, and
for one to leave while the other stays. The subscriber channels are shortened from five
to one or two so that three messages overflow them. `MaxNil` bounds only the nil
registrations a closed `subC` produces: one, in `update_server_shutdown`, is enough for the
nil channel to be in the map, and `broker_any_client` has none to keep its three messages
affordable.
The shutdown run has no release: the nils of the closed `broadcastC` exercise its
fan-out, and `broker_any_client` has messages and a stop together. The two streams of
`broker_any_client` are interchangeable, and so are its messages, hence the symmetry. In `services_stream` two
streams race for a row, a third one's row of the same name must stay untouched, and a
message of two services can fail at either; `s1` and `s2` are interchangeable.
`services_converge` has one service so that the liveness check stays small: the handling
of one service does not depend on another's row.

`update_server_running` has two releases and channels for two, so that a stream may have both
due, and get them in the wrong order or one of them twice.

In `agent` one failure is enough for a second `Run` beside the reporter of the first;
`MaxFaults` bounds failures of the connection, of the server and of calls to a server that
runs, and with them the number of `Run`s. In `parts` the two saves contend for the lock and for
the clients, and differ in what they post, since a client made of both would otherwise look like
one of either; `MaxOutages` bounds the outages of the database, one of which makes any
number of reads in a row fail. `MaxTurns` bounds edits and commands: an import,
its failure, an edit and the second import fit into four, an added, deleted and added package
and a click on the old page into the three of `stale_row`; `MaxId` bounds ids, two being enough
to hand one out again.
The registries' images change only while a page is made, since what was there before is
in `Held`. `MaxTicks` is three so that a sample that fails has one before and one after it.
`Unreliable` names the streams that may be lost: none in the shutdown run, both in the
others.

Deadlock is not checked in these runs: a server without events rests, and a stopped or
panicked one is at an end. That nobody waits for ever is stated as liveness instead.

Fairness. Each goroutine that can take a step takes it in the end (weak fairness per
action, the Go scheduler). `SelectStop` is strongly fair: a select chooses uniformly
among its ready cases, so a closed `stopC` is taken although the closed `broadcastC` is ready
each time as well. No fairness is given to agents, events, signals, or a listener that
fails. That `stream.Send` returns, with the release taken or with an error, is an
assumption about the transport: releases are small and its flow-control window is not.
In `ServicesStream` a handler with a message goes on, and a statement that is tried for
ever succeeds in the end (strong fairness per service): errors of the database are
transient. Nothing makes an agent send; `TableConverges` has that as its premise.

`ProcessFairness` gives the goroutines of the server process the same, but `MainReturns`
none: the streams must be released by `Stop` however slow main is, and `ProcessEnds` has
that fairness as its own premise. `AgentFairness` lets the agent's goroutines run and an
installation that does not hang go on; the server need not start again, and `ReportsResume`
has that it does as a premise. That a call to a running server may
fail is a fault, of which there are finitely many: the agent gets through in the end.
`SettingsFairness` lets a handler go on to its end, `database/sql` roll back and a server
start; nobody has to post, to leave or to crash, and no connection need be closed.

Every property of a passing run has a mutant in `PROJECT.json`: a plausible bug, written
next to the definition it replaces, that makes TLC find the property violated.

## Proofs

`tlapm` proves every safety property of the passing runs, invariants and action
properties, for all values of the constants. The assumptions on the constants are few, and
TLC evaluates each in the runs: channels are finitely many and capacities positive
(`BrokerAssumption`, `AgentAssumption`), what is listed in a topology, a policy or a
device's tags is a finite sequence (`UpdateServerAssumption`, `TopologyIndexAssumption`,
`DevicePolicyAssumption`), a database and an export file hold what the program can have
written (`StoreAssumption`), numbers of `/proc` fit into a `uint64` (`MetricsAssumption`),
and what requests post and registries hold has its type (`SettingsAssumption`,
`RegistryAssumption`).

### The release path

* `BrokerTypeCorrect`: `BrokerSpec => []TypeOK`. The strengthening is that the worklist
  of the inner loops is empty wherever a select may take a subscriber out of the map.
* `SubscribersSeeOrder`, `LossIsBacklog`, from one invariant, `FeedInv`. What a channel
  was given (received, or buffered before the nils of a closed `broadcastC`: `Real`) is a
  subsequence of the log between the channel's registration and the last message whose
  fan-out has visited it (`Visited`), and a message missing from it had `SubCap` others
  before it. To keep that, the invariant says that each message is sent and each channel
  registered once, that an unregistered channel is empty, that nils come only after
  `broadcastC` is closed and empty, and that a fan-out under way is of the log's last
  message.
* `BrokerImplementsFeed`: `BrokerSpec => FeedSpec`. Each action of the broker is mapped to
  one of the feed or to a stutter: `SelectSub` to a join, taking from `unsubC` to a leave,
  the receive of a broadcast to a publication, each step of the fan-out to an offer, which
  a full channel loses, and a receive to a read. The nils of a stopped broker are no
  entries. `ServerImplementsBroker` (`Spec => BrokerSpec`) carries all of this into the
  server: what holds of the broker with arbitrary callers holds with those it has;
  `ServerImplementsFeed` says so of the feed.
* `ServerTypeCorrect`: `Spec => []ServerTypeOK`; a handler in `Send` has a release in
  hand that its host wants: it filters before it sends.
* `NoFaultBeforeStop` and `CountExactBeforeStop`: until `Stop` sets the broker's flag
  nothing panics and the count is exact. Neither is inductive. The invariant `Running`
  says where each stream's channel can be (`Placed`): nowhere before it is subscribed;
  then in exactly one of `subC`, the map, and the closed channels; in `unsubC` only
  while it is in the map; and a channel that is not in the map or closed is empty and its
  handler is waiting. The last part carries the argument: a handler can leave only
  after it has received, only a channel in the map is sent to, so its subscription was
  taken before its unsubscription is sent, although the loop reads the two channels in
  any order. With that, the head of `unsubC` is in the map and open, the head of `subC` is
  in neither, and the queues hold no channel twice.
* `UpToDateHolds`: a stream that is up to date was sent exactly what the topology lists
  for its host. `SentInv` relates a handler's `sent` to what it received: the releases its
  host wants, in order, but for the one in hand. `FeedInv` gives what it received, and a
  channel that was never offered more than it holds has no backlog to lose to; that
  the host wants what is listed is `RoutesAsListed` of `TopologyProofs`, for any topology.
* `OnlyUntakenHang`: of the streams that subscribed, each is in `subC`, in the map or
  closed (`Accounted`), and once the loop closes channels the map holds only closed ones
  and those it has still to close.
* `StopNotReportedAsError`: `Stop` sets `isClosed` before it closes the listener, so the
  listener of a serving `Start` is open or the flag is set.
* `ProcessOnlyUntakenHang`, `ProcessStopIsNoError`: the last two again for the whole
  process, the specification of their run. A step of the process is one of the update
  server, or leaves it alone, or ends it (`ProcessSteps`), and the invariants survive
  that end.
* `AgentTypesHold`, `OrderHolds`, `CaughtUpHolds`, for any number of faults, `Run`s and
  releases. What the agent has begun, what is on the wire and what the handler of its
  stream still has are parts of the feed, one behind the other, and nothing of the three
  is twice (`Begun`, `OnTheWire`, `Queued`). The handler of a new `Run` has been given nothing
  (`FreshHasNothing`) and joins at the end of the feed, behind all that was begun: hence
  no release is begun twice. For `CaughtUpHolds` what the feed has offered this stream is
  begun, on the wire, queued or unwanted, as long as no more was published since it joined
  than its queue holds (`CaughtInv`).

### The topology

`RoutesHold` and `LastHolds` are about folds over sequences of any length, for which
there is no induction theorem the provers can instantiate. `SeqFold` therefore proves, with
the step of the fold as a constant, that the function by which a fold is defined exists
(`FoldExists`) and what holds of its result (`FoldFacts`): if each element adds some facts
and removes others, a fact holds in the end if some element added it, or it held at the
start, and no later element removed it. Both by the least number for which that would
fail (`LeastNat`, from the well-foundedness of the numbers). `TopologyProofs` instantiates
the module for each loop of `NewUpdateServer`: a baseline entry replaces the hosts of an
id, a host entry adds to them, and a package with a repository replaces the one kept for
its id.

### Service reports

`StreamTypeCorrect`, `IdsOfOwnRows`, `StatusOfItsHost`, `SecondReportStored`, for any
number of hosts, streams and services: from one invariant, `IInv`. It adds that a handler
past the lookup holds its own host's device, that it looks up or adds a row only for a
name it holds no id of, that the services it has yet to handle were reported, and that
a service with a report handled without error has an id whose row, after the second,
shows the last of them. `SecondReportIsStored` speaks of handlers between messages; the
invariant needs no such restriction.

### The tables

* `SettingsTypeCorrect`, `ClientsAlwaysOfOneTable`, `TimeoutsAlwaysParse`, for any set of saves,
  values and forms and any number of outages, from `IInv`. A request past its UPDATE that can
  still use its transaction holds the lock, so there is one at most, and the table does not
  change under it (`Placed`): all it has read is empty or of the table it saw then
  (`ReadIsSeen`), and so are the clients it builds (`ClientSeen`), which therefore need no
  premise about what becomes of it. For the second part, that a saved builder's table is
  the stored one (`SavedSeen`), a client a request has built must be its own still when it
  commits, or have been replaced by a request that is doomed (`Holds`): one whose context has
  ended keeps building clients but never commits. The lock that a busy COMMIT leaves behind
  only keeps others from their UPDATE.
* `StoreTypeCorrect`: names and ids stay unique, since `NextId` is above every id in use
  (`NextIdIsFree`).
* `LastingRowsExported`, whatever users do meanwhile. What has been read of a table has all of
  `lasting` and nothing outside `passing`; a table that is still to be read holds what lies
  between them too, since an edit takes from the one and adds to the other exactly what it
  changes (`ExportInv`).
* `ImportAlwaysRestores`, from `ImportInv`: of the names no user has touched since the file
  was first imported, the table has the rows it had then and others with a command the
  file lists (`Kept`), and an import that met no error has reached all that is not in its
  list of things to do (`Reached`). An import that dies leaves only such rows, so the
  next starts from the same.

### What is shown of other systems

* `PageTypeCorrect`, `ListedWasAlwaysThere`, `LastingAlwaysListed`, for any registries,
  repositories and tags. `ListedWasThere` holds because a tag still to ask for was once in
  the registry it was read from (`Followed`). `LastingImagesAreListed` speaks of finished
  pages only; the invariant `Listing` says of an unfinished one that each image that has
  lasted so far is listed, or its repository is still to be asked for, or its tag is
  (`Reached`). A push or a delete changes none of these, and a client for another address
  ends the obligation: `addresses` then has two members.
* `RulesAlwaysShown`: the nested loops over rules and tags, a `FlattenSeq` of sequences, show
  the rules that match some tag (`LoopsShow`).
* `CpuGaugeHolds`: the digits of a number parse to that number in the arithmetic of
  `uint64` (`ParseDigits`, over the recursion of the digits and the fold of the parser),
  and a difference of wrapped counters is the difference of the counters whenever that
  fits (`BusyDifference`, `IdleDifference`). `MetricsInv` says that a sample that is
  there is of the present counters.

What the recursion of the library's `FlattenSeq` and `FoldRight` and of `Digits` computes is
shown as for the topology: there is a function with these values, by the least number up
to which there would be none, so the one that is CHOOSEn has them.

Liveness and fairness are beyond the provers here, so `BroadcastIsTaken`,
`RequestsAreServed`, `DeadStreamLeavesAtNextRelease`, `StopReleasesStreams`, `ProcessEnds`,
`TableConverges`, `LocksAreReturned`, `ReportsResume` and `InterruptCloses` are
model-checked only, and so is that the five findings are reached.

## Plan

What the models cover is complete but for the parts below, and all their safety properties
are proved. Left to prove:

1. that the feed an agent is served from is that of its server: a refinement of `Agent`'s
   feed by the streams of several agents, across restarts;
2. the remaining properties of the whole process besides the two of its run: that of its
   types, and that nothing panics before the signal.

## Not modelled, and why

* The pages of containers and of watchtower, and the status at the head of each page, pass
  single requests through and keep nothing; the one thing of theirs that can go wrong over
  time, the watchtower client's settings and its lost timeout, is in `Settings`.
* Templates and routes render and dispatch. `HandleGithubWebHook` decodes an event and
  drops it at this commit.
* Configuration and telemetry run once at start, before there is anything to interleave
  with.
* `update_service.pb.go` is generated; the outcomes of its calls are those of `Agent` and
  `UpdateServer`. Of the generated queries, those nothing calls (assets, `UpdatePackage`,
  `UpdateDevice`, `ListTrackedServices` and the deletes of devices and tracked services,
  among others) have no behaviour to model.
* Container ids, images and times of reports: no code reads them back.
