---------------------------- MODULE ServicesStream ----------------------------
(***************************************************************************)
(* ServicesStream of pkg/mahogany/sources/update_server.go: the handlers   *)
(* that store what agents report of their services.  Each stream is a      *)
(* goroutine; they share the database, where every statement is atomic and *)
(* may fail, because the file is locked or the stream's context has ended. *)
(*                                                                         *)
(* tracked is the table tracked_services in the order of its ids, which    *)
(* INTEGER PRIMARY KEY hands out from 1 on; nothing deletes a row.  A host *)
(* name is UNIQUE in the table of devices and stands for the device's id.  *)
(***************************************************************************)
EXTENDS Integers, Sequences

CONSTANTS Host, Service, Status,
          Stream,     \* the calls of ServicesStream
          Hostname,   \* the host whose agent opened each stream
          Report,     \* what the agent of each host may send: a name and a
                      \*   status per service
          NoDevice    \* the deviceID -1 of a handler that has looked up none

Item == [name : Service, status : Status]
Row  == [device : Host, name : Service, status : Status]

ASSUME ServicesStreamAssumption ==
  /\ Hostname \in [Stream -> Host]
  /\ Report \in [Host -> SUBSET Seq(Item)]
  /\ NoDevice \notin Host
  /\ Status # {}

VARIABLES
  devices,          \* the hosts that have a row in devices
  tracked,          \* the rows of tracked_services
  at,               \* where each handler is
  services,         \* the services of its message it has not handled yet
  deviceID,         \* its local variables: the device, and the ids of the
  trackedServices,  \*   rows by name, 0 for a name the map does not hold
  reported,         \* history: what each host reported of its services
  last,             \* history: the last status each handler handled
  stored            \* history: how many reports of a service in a row were
                    \*   handled without an error (up to 2); back to 1 when
                    \*   another stream writes the row

handler == <<at, services, deviceID, trackedServices>>
history == <<reported, last, stored>>
vars    == <<devices, tracked, handler, history>>

\* The types of the tables and of every handler's variables.
TypeOK ==
  /\ devices \subseteq Host
  /\ tracked \in Seq(Row)
  /\ at \in [Stream -> {"recv", "device", "get", "add", "update", "done"}]
  /\ services \in [Stream -> Seq(Item)]
  /\ \A s \in Stream :
       services[s] = <<>> <=> at[s] \in {"recv", "done"}
  /\ deviceID \in [Stream -> Host \cup {NoDevice}]
  /\ trackedServices \in [Stream -> [Service -> Nat]]
  /\ reported \subseteq Host \X Service \X Status
  /\ last \in [Stream -> [Service -> Status]]
  /\ stored \in [Stream -> [Service -> 0..2]]

Init ==
  /\ devices \in SUBSET Host
  /\ tracked = <<>>
  /\ at = [s \in Stream |-> "recv"]
  /\ services = [s \in Stream |-> <<>>]
  /\ deviceID = [s \in Stream |-> NoDevice]
  /\ trackedServices = [s \in Stream |-> [n \in Service |-> 0]]
  /\ reported = {}
  /\ last = [s \in Stream |-> [n \in Service |-> CHOOSE v \in Status : TRUE]]
  /\ stored = [s \in Stream |-> [n \in Service |-> 0]]

-----------------------------------------------------------------------------
\* The row of a device and a name: at most one, by UNIQUE(device_id, name).
RowIds(d, n) == {i \in DOMAIN tracked : tracked[i].device = d /\ tracked[i].name = n}

\* What a handler does next with device d and the ids it holds.
NextStep(rest, d, ids) ==
  IF rest = <<>> THEN "recv"
  ELSE IF d = NoDevice THEN "device"
  ELSE IF ids[Head(rest).name] # 0 THEN "update" ELSE "get"

Svc(s) == Head(services[s])

\* The next turn of the loop over msg.Services, with the ids as they are now.
Continue(s, ids) ==
  /\ trackedServices' = [trackedServices EXCEPT ![s] = ids]
  /\ services' = [services EXCEPT ![s] = Tail(@)]
  /\ at' = [at EXCEPT ![s] = NextStep(Tail(services[s]), deviceID[s], ids)]
  /\ UNCHANGED <<devices, deviceID, reported>>

Remember(s, id) == [trackedServices[s] EXCEPT ![Svc(s).name] = id]

Overtaken(s) ==
  [t \in Stream |->
     IF t # s /\ Hostname[t] = Hostname[s] /\ stored[t][Svc(s).name] = 2
     THEN [stored[t] EXCEPT ![Svc(s).name] = 1]
     ELSE stored[t]]

Count(st, s) ==
  [st EXCEPT ![s][Svc(s).name] = IF @ = 2 THEN 2 ELSE @ + 1]

\* The history of a report that went well, with the row written or only read.
Wrote(s) ==
  /\ stored' = Count(Overtaken(s), s)
  /\ last' = [last EXCEPT ![s][Svc(s).name] = Svc(s).status]

Read(s) ==
  /\ stored' = Count(stored, s)
  /\ last' = [last EXCEPT ![s][Svc(s).name] = Svc(s).status]

Failed(s) ==
  /\ stored' = [stored EXCEPT ![s][Svc(s).name] = 0]
  /\ UNCHANGED last

\* The row was written, and the handler was told of an error.
WroteAndFailed(s) ==
  /\ stored' = [Overtaken(s) EXCEPT ![s][Svc(s).name] = 0]
  /\ UNCHANGED last

-----------------------------------------------------------------------------
\* syncDevices, for a page of devices, adds the hosts that are not there.
AddDevice(h) ==
  /\ h \notin devices
  /\ devices' = devices \cup {h}
  /\ UNCHANGED <<tracked, handler, history>>

Recv(s) ==
  /\ at[s] = "recv"
  /\ \E r \in Report[Hostname[s]] :
       /\ services' = [services EXCEPT ![s] = r]
       /\ at' = [at EXCEPT ![s] = NextStep(r, deviceID[s], trackedServices[s])]
       /\ reported' = reported \cup
            {<<Hostname[s], r[i].name, r[i].status>> : i \in DOMAIN r}
  /\ UNCHANGED <<devices, tracked, deviceID, trackedServices, last, stored>>

RecvError(s) ==
  /\ at[s] = "recv"
  /\ at' = [at EXCEPT ![s] = "done"]
  /\ UNCHANGED <<devices, tracked, services, deviceID, trackedServices, history>>

\* getDeviceID; the loop then goes on with the same service.
DeviceFound(s) ==
  /\ at[s] = "device"
  /\ Hostname[s] \in devices
  /\ deviceID' = [deviceID EXCEPT ![s] = Hostname[s]]
  /\ at' = [at EXCEPT ![s] = NextStep(services[s], Hostname[s], trackedServices[s])]
  /\ UNCHANGED <<devices, tracked, services, trackedServices, history>>

\* No such device, or an error: the rest of the message is dropped.
DeviceNotFound(s) ==
  /\ at[s] = "device"
  /\ services' = [services EXCEPT ![s] = <<>>]
  /\ at' = [at EXCEPT ![s] = "recv"]
  /\ UNCHANGED <<devices, tracked, deviceID, trackedServices, history>>

\* Mutant: the row is looked up by its name alone.
RowFoundByName(s) ==
  /\ at[s] = "get"
  /\ \E i \in DOMAIN tracked : /\ tracked[i].name = Svc(s).name
                               /\ Continue(s, Remember(s, i))
  /\ Read(s)
  /\ UNCHANGED tracked

\* Mutant: only the id of a row the handler itself added is kept.
RowFoundNotKept(s) ==
  /\ at[s] = "get"
  /\ RowIds(deviceID[s], Svc(s).name) # {}
  /\ Continue(s, trackedServices[s])
  /\ Read(s)
  /\ UNCHANGED tracked

\* GetTrackedServiceID finds the row.  Its status is left as it is.
RowFound(s) ==
  /\ at[s] = "get"
  /\ \E i \in RowIds(deviceID[s], Svc(s).name) : Continue(s, Remember(s, i))
  /\ Read(s)
  /\ UNCHANGED tracked

\* There is no row, or an error.
RowNotFound(s) ==
  /\ at[s] = "get"
  /\ at' = [at EXCEPT ![s] = "add"]
  /\ UNCHANGED <<devices, tracked, services, deviceID, trackedServices, history>>

\* The INSERT of addTrackedService; it fails when there is such a row.
Insert(s) ==
  /\ RowIds(deviceID[s], Svc(s).name) = {}
  /\ tracked' = Append(tracked, [device |-> deviceID[s],
                                 name |-> Svc(s).name,
                                 status |-> Svc(s).status])

RowAdded(s) ==
  /\ at[s] = "add"
  /\ Insert(s)
  /\ Continue(s, Remember(s, Len(tracked) + 1))
  /\ Wrote(s)

\* Mutant: the handler keeps the id -1 of a row that was not added.
RowNotAddedKept(s) ==
  /\ at[s] = "add"
  /\ Continue(s, Remember(s, -1))
  /\ Failed(s)
  /\ UNCHANGED tracked

\* An error; one from the context may come after the row was inserted.
RowNotAdded(s) ==
  /\ at[s] = "add"
  /\ Insert(s) \/ UNCHANGED tracked
  /\ Continue(s, trackedServices[s])
  /\ Failed(s)

\* The UPDATE of updateTrackedService, by the id the handler keeps.
Update(s) ==
  tracked' = [tracked EXCEPT ![trackedServices[s][Svc(s).name]].status =
                Svc(s).status]

RowUpdated(s) ==
  /\ at[s] = "update"
  /\ Update(s)
  /\ Continue(s, trackedServices[s])
  /\ Wrote(s)

\* Here too an error may come after the row was written.
RowNotUpdated(s) ==
  /\ at[s] = "update"
  /\ Continue(s, trackedServices[s])
  /\ \/ UNCHANGED tracked /\ Failed(s)
     \/ Update(s) /\ WroteAndFailed(s)

-----------------------------------------------------------------------------
Handle(s) ==
  \/ DeviceFound(s) \/ DeviceNotFound(s)
  \/ RowFound(s)    \/ RowNotFound(s)
  \/ RowAdded(s)    \/ RowNotAdded(s)
  \/ RowUpdated(s)  \/ RowNotUpdated(s)

Next ==
  \/ \E h \in Host : AddDevice(h)
  \/ \E s \in Stream : Recv(s) \/ RecvError(s) \/ Handle(s)

Spec == Init /\ [][Next]_vars

(* A handler that has a message goes on with it.  The database does not    *)
(* fail for ever: a statement tried again and again succeeds in the end,   *)
(* for each service.  Nothing makes an agent send.                         *)
At(s, n) == services[s] # <<>> /\ Svc(s).name = n

Fairness ==
  \A s \in Stream :
    /\ WF_vars(Handle(s))
    /\ SF_vars(DeviceFound(s))
    /\ \A n \in Service : /\ SF_vars(At(s, n) /\ RowFound(s))
                          /\ SF_vars(At(s, n) /\ RowAdded(s))
                          /\ SF_vars(At(s, n) /\ RowUpdated(s))

FairSpec == Spec /\ Fairness

-----------------------------------------------------------------------------
(* An id a handler keeps is that of the row of its own host and of the     *)
(* name it is kept under, whichever stream added the row.                  *)
IdsAreOwnRows ==
  \A s \in Stream, n \in Service :
    trackedServices[s][n] # 0 =>
      RowIds(Hostname[s], n) = {trackedServices[s][n]}

(* The table never shows of a host's service a status that this host did   *)
(* not report of this service.                                             *)
StatusIsItsHosts ==
  \A i \in DOMAIN tracked :
    <<tracked[i].device, tracked[i].name, tracked[i].status>> \in reported

(* A report is in the table once two in a row were handled without an      *)
(* error, unless another stream of the host wrote since: the first may     *)
(* only find the row, the second writes it.                                *)
SecondReportIsStored ==
  \A s \in Stream, n \in Service :
    at[s] = "recv" /\ stored[s][n] = 2 =>
      \E i \in RowIds(Hostname[s], n) : tracked[i].status = last[s][n]

Reports(s, n, v) ==
  \E i \in DOMAIN services[s] : services[s][i] = [name |-> n, status |-> v]

ReportsElse(s, n, v) ==
  \E t \in Stream, w \in Status \ {v} :
    Hostname[t] = Hostname[s] /\ Reports(t, n, w)

(* A host that is registered at some time, before or after its streams     *)
(* were opened, and goes on reporting one status of a service, has it in   *)
(* the table for good, whatever errors and other streams there were.       *)
TableConverges ==
  \A s \in Stream, n \in Service, v \in Status :
    /\ <>(Hostname[s] \in devices)
    /\ []<>Reports(s, n, v)
    /\ <>[]~ReportsElse(s, n, v)
    => <>[](\E i \in RowIds(Hostname[s], n) : tracked[i].status = v)
=============================================================================
