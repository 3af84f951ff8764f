------------------------- MODULE ServicesStreamProofs -------------------------
(***************************************************************************)
(* Proofs about the handlers of service reports and the table they share.  *)
(***************************************************************************)
EXTENDS ServicesStream, SequenceTheorems, TLAPS

IsRow(i, d, n) ==
  i \in DOMAIN tracked /\ tracked[i].device = d /\ tracked[i].name = n

\* The table: one row per device and name, with a status reported for it.
TableInv ==
  /\ \A i, j \in DOMAIN tracked :
       tracked[i].device = tracked[j].device /\ tracked[i].name = tracked[j].name
         => i = j
  /\ StatusIsItsHosts

\* Where a handler is agrees with the device and the ids it holds.
Positioned(s) ==
  /\ deviceID[s] \in {NoDevice, Hostname[s]}
  /\ at[s] \in {"get", "add", "update"} => deviceID[s] = Hostname[s]
  /\ at[s] \in {"get", "add"} => trackedServices[s][Svc(s).name] = 0
  /\ at[s] = "update" => trackedServices[s][Svc(s).name] # 0

\* What it has yet to handle was reported by its host.
Heard(s) ==
  \A i \in DOMAIN services[s] :
    <<Hostname[s], services[s][i].name, services[s][i].status>> \in reported

\* An id is that of the handler's own row; a service with a report handled
\* without error has one; with two, the row holds the last of them.
Kept(s, n) ==
  /\ trackedServices[s][n] # 0 => IsRow(trackedServices[s][n], Hostname[s], n)
  /\ stored[s][n] # 0 => trackedServices[s][n] # 0
  /\ stored[s][n] = 2 => tracked[trackedServices[s][n]].status = last[s][n]

IInv ==
  /\ TypeOK
  /\ TableInv
  /\ \A s \in Stream : Positioned(s) /\ Heard(s)
  /\ \A s \in Stream, n \in Service : Kept(s, n)

-----------------------------------------------------------------------------
(* No handler holds anything before its first message.                     *)
LEMMA InitIInv == Init => IInv
<1> SUFFICES ASSUME Init PROVE IInv
  OBVIOUS
<1> USE ServicesStreamAssumption DEF ServicesStreamAssumption
<1>1. TypeOK
  <2>1. (CHOOSE v \in Status : TRUE) \in Status
    OBVIOUS
  <2>2. QED
    BY <2>1 DEF Init, TypeOK
<1>2. TableInv
  BY DEF Init, TableInv, StatusIsItsHosts
<1>3. ASSUME NEW s \in Stream PROVE Positioned(s) /\ Heard(s)
  BY DEF Init, Positioned, Heard
<1>4. ASSUME NEW s \in Stream, NEW n \in Service PROVE Kept(s, n)
  BY DEF Init, Kept
<1>5. QED
  BY <1>1, <1>2, <1>3, <1>4 DEF IInv

(* The service a handler is at, and what is left of the message after it.  *)
LEMMA Splitting ==
  ASSUME TypeOK, NEW s \in Stream, services[s] # <<>>
  PROVE  /\ Svc(s) \in Item
         /\ Svc(s) = services[s][1] /\ 1 \in DOMAIN services[s]
         /\ Tail(services[s]) \in Seq(Item)
         /\ \A i \in DOMAIN Tail(services[s]) :
              i + 1 \in DOMAIN services[s] /\ Tail(services[s])[i] = services[s][i + 1]
<1>1. services[s] \in Seq(Item)
  BY DEF TypeOK
<1>2. /\ Svc(s) \in Item /\ Svc(s) = services[s][1]
      /\ Tail(services[s]) \in Seq(Item)
      /\ Len(Tail(services[s])) = Len(services[s]) - 1
      /\ \A i \in 1 .. Len(Tail(services[s])) : Tail(services[s])[i] = services[s][i + 1]
  BY <1>1, HeadTailProperties, EmptySeq DEF Svc
<1>3. Len(services[s]) \in Nat /\ Len(services[s]) # 0
  BY <1>1, EmptySeq
<1>4. /\ DOMAIN services[s] = 1 .. Len(services[s])
      /\ DOMAIN Tail(services[s]) = 1 .. Len(Tail(services[s]))
  BY <1>1, <1>2, LenProperties
<1>5. QED
  BY <1>2, <1>3, <1>4

(* Where NextStep sends a handler, whatever is left of its message.        *)
LEMMA NextStepPositions ==
  ASSUME NEW rest \in Seq(Item), NEW d, NEW ids \in [Service -> Nat]
  PROVE  LET a == NextStep(rest, d, ids)
         IN  /\ a \in {"recv", "device", "get", "update"}
             /\ rest = <<>> <=> a = "recv"
             /\ a \in {"get", "update"} => d # NoDevice
             /\ a = "get" => ids[Head(rest).name] = 0
             /\ a = "update" => ids[Head(rest).name] # 0
BY DEF NextStep

(* Going on with the next service keeps the handler's variables typed and  *)
(* where it is in agreement with them, and touches no other handler.       *)
LEMMA ContinuePositions ==
  ASSUME IInv, NEW s \in Stream, at[s] \in {"get", "add", "update"},
         NEW ids \in [Service -> Nat], Continue(s, ids)
  PROVE  /\ at' \in [Stream -> {"recv", "device", "get", "add", "update", "done"}]
         /\ services' \in [Stream -> Seq(Item)]
         /\ trackedServices' \in [Stream -> [Service -> Nat]]
         /\ trackedServices'[s] = ids
         /\ \A t \in Stream : services'[t] = <<>> <=> at'[t] \in {"recv", "done"}
         /\ \A t \in Stream \ {s} : trackedServices'[t] = trackedServices[t]
         /\ \A t \in Stream : Positioned(t)' /\ Heard(t)'
<1> USE DEF IInv
<1>1. services[s] # <<>> /\ deviceID[s] = Hostname[s]
  BY DEF TypeOK, Positioned
<1>2. Tail(services[s]) \in Seq(Item)
  BY <1>1, Splitting
<1> DEFINE a == NextStep(Tail(services[s]), deviceID[s], ids)
<1>3. /\ a \in {"recv", "device", "get", "update"}
      /\ Tail(services[s]) = <<>> <=> a = "recv"
      /\ a = "get" => ids[Head(Tail(services[s])).name] = 0
      /\ a = "update" => ids[Head(Tail(services[s])).name] # 0
  BY <1>2, NextStepPositions
<1>4. /\ at' = [at EXCEPT ![s] = a]
      /\ services' = [services EXCEPT ![s] = Tail(services[s])]
      /\ trackedServices' = [trackedServices EXCEPT ![s] = ids]
      /\ UNCHANGED <<deviceID, reported>>
  BY DEF Continue
<1>5. /\ at'[s] = a /\ services'[s] = Tail(services[s]) /\ trackedServices'[s] = ids
      /\ \A t \in Stream \ {s} : /\ at'[t] = at[t] /\ services'[t] = services[t]
                                 /\ trackedServices'[t] = trackedServices[t]
  BY <1>4 DEF TypeOK
<1> HIDE DEF a
<1>6. /\ at' \in [Stream -> {"recv", "device", "get", "add", "update", "done"}]
      /\ services' \in [Stream -> Seq(Item)]
      /\ trackedServices' \in [Stream -> [Service -> Nat]]
  BY <1>2, <1>3, <1>4 DEF TypeOK
<1>7. \A t \in Stream : services'[t] = <<>> <=> at'[t] \in {"recv", "done"}
  BY <1>3, <1>5 DEF TypeOK
<1>8. Positioned(s)'
  BY <1>1, <1>3, <1>4, <1>5 DEF Positioned, Svc
<1>9. Heard(s)'
  <2> SUFFICES ASSUME NEW i \in DOMAIN Tail(services[s])
               PROVE  <<Hostname[s], Tail(services[s])[i].name,
                        Tail(services[s])[i].status>> \in reported
    BY <1>4, <1>5 DEF Heard
  <2>1. /\ i + 1 \in DOMAIN services[s]
        /\ Tail(services[s])[i] = services[s][i + 1]
    BY <1>1, Splitting
  <2>2. QED
    BY <2>1 DEF Heard
<1>10. ASSUME NEW t \in Stream \ {s} PROVE Positioned(t)' /\ Heard(t)'
  BY <1>4, <1>5 DEF Positioned, Heard, Svc
<1>11. QED
  BY <1>5, <1>6, <1>7, <1>8, <1>9, <1>10

-----------------------------------------------------------------------------
(* The steps that touch neither the table nor the ids.                     *)
LEMMA QuietStep ==
  ASSUME IInv, UNCHANGED <<tracked, trackedServices, last, stored>>,
         reported \subseteq reported'
  PROVE  TableInv' /\ \A s \in Stream, n \in Service : Kept(s, n)'
<1>1. TableInv'
  BY DEF IInv, TableInv, StatusIsItsHosts
<1>2. ASSUME NEW s \in Stream, NEW n \in Service PROVE Kept(s, n)'
  BY DEF IInv, Kept, IsRow
<1>3. QED
  BY <1>1, <1>2

(* A new device changes nothing a handler relies on.                       *)
LEMMA AddDeviceIInv ==
  ASSUME IInv, NEW h \in Host, AddDevice(h) PROVE IInv'
<1> USE DEF IInv, AddDevice, handler, history
<1>1. TypeOK'
  BY DEF TypeOK
<1>2. ASSUME NEW s \in Stream PROVE Positioned(s)' /\ Heard(s)'
  BY DEF Positioned, Heard, Svc
<1>3. QED
  BY <1>1, <1>2, QuietStep

(* A message just received was reported by the host of its stream.         *)
LEMMA RecvIInv ==
  ASSUME IInv, NEW s \in Stream, Recv(s) PROVE IInv'
<1> USE DEF IInv
<1>1. PICK r \in Report[Hostname[s]] :
        /\ services' = [services EXCEPT ![s] = r]
        /\ at' = [at EXCEPT ![s] = NextStep(r, deviceID[s], trackedServices[s])]
        /\ reported' = reported \cup
             {<<Hostname[s], r[i].name, r[i].status>> : i \in DOMAIN r}
  BY DEF Recv
<1>2. r \in Seq(Item) /\ Hostname[s] \in Host
  BY ServicesStreamAssumption DEF ServicesStreamAssumption
<1> DEFINE a == NextStep(r, deviceID[s], trackedServices[s])
<1>3. /\ a \in {"recv", "device", "get", "update"}
      /\ r = <<>> <=> a = "recv"
      /\ a \in {"get", "update"} => deviceID[s] # NoDevice
      /\ a = "get" => trackedServices[s][Head(r).name] = 0
      /\ a = "update" => trackedServices[s][Head(r).name] # 0
  <2>1. trackedServices[s] \in [Service -> Nat]
    BY DEF TypeOK
  <2>2. QED
    BY <1>2, <2>1, NextStepPositions
<1>4. /\ at' = [at EXCEPT ![s] = a]
      /\ UNCHANGED <<devices, tracked, deviceID, trackedServices, last, stored>>
  BY <1>1 DEF Recv
<1> HIDE DEF a
<1>5. /\ at'[s] = a /\ services'[s] = r
      /\ \A t \in Stream \ {s} : at'[t] = at[t] /\ services'[t] = services[t]
  BY <1>1, <1>4 DEF TypeOK
<1>6. ASSUME NEW i \in DOMAIN r
      PROVE  <<Hostname[s], r[i].name, r[i].status>> \in Host \X Service \X Status
  <2>1. r[i] \in Item
    BY <1>2, ElementOfSeq, LenProperties
  <2>2. QED
    BY <1>2, <2>1 DEF Item
<1>7. TypeOK'
  <2>1. reported' \subseteq Host \X Service \X Status
    BY <1>1, <1>6 DEF TypeOK
  <2>2. services' \in [Stream -> Seq(Item)]
    BY <1>1, <1>2 DEF TypeOK
  <2>3. at' \in [Stream -> {"recv", "device", "get", "add", "update", "done"}]
    BY <1>3, <1>4 DEF TypeOK
  <2>4. \A t \in Stream : services'[t] = <<>> <=> at'[t] \in {"recv", "done"}
    BY <1>3, <1>5 DEF TypeOK
  <2>5. QED
    BY <1>4, <2>1, <2>2, <2>3, <2>4 DEF TypeOK
<1>8. Positioned(s)'
  BY <1>3, <1>4, <1>5 DEF Positioned, Svc
<1>9. Heard(s)'
  BY <1>1, <1>5 DEF Heard
<1>10. ASSUME NEW t \in Stream \ {s} PROVE Positioned(t)' /\ Heard(t)'
  BY <1>1, <1>4, <1>5 DEF Positioned, Heard, Svc
<1>11. QED
  BY <1>1, <1>4, <1>7, <1>8, <1>9, <1>10, QuietStep

(* A stream that ends leaves its rows as they are.                         *)
LEMMA RecvErrorIInv ==
  ASSUME IInv, NEW s \in Stream, RecvError(s) PROVE IInv'
<1> USE DEF IInv, RecvError, history
<1>1. /\ at'[s] = "done" /\ at[s] = "recv"
      /\ \A t \in Stream \ {s} : at'[t] = at[t]
  BY DEF TypeOK
<1>2. TypeOK'
  BY <1>1 DEF TypeOK
<1>3. ASSUME NEW t \in Stream PROVE Positioned(t)' /\ Heard(t)'
  BY <1>1 DEF Positioned, Heard, Svc
<1>4. QED
  BY <1>2, <1>3, QuietStep

(* The device a handler finds is its own host.                             *)
LEMMA DeviceFoundIInv ==
  ASSUME IInv, NEW s \in Stream, DeviceFound(s) PROVE IInv'
<1> USE DEF IInv, DeviceFound, history
<1> DEFINE a == NextStep(services[s], Hostname[s], trackedServices[s])
<1>1. Hostname[s] \in Host /\ Hostname[s] # NoDevice
  BY ServicesStreamAssumption DEF ServicesStreamAssumption
<1>2. /\ a \in {"recv", "device", "get", "update"}
      /\ services[s] = <<>> <=> a = "recv"
      /\ a = "get" => trackedServices[s][Svc(s).name] = 0
      /\ a = "update" => trackedServices[s][Svc(s).name] # 0
  <2>1. services[s] \in Seq(Item) /\ trackedServices[s] \in [Service -> Nat]
    BY DEF TypeOK
  <2>2. QED
    BY <2>1, NextStepPositions DEF Svc
<1>3. at' = [at EXCEPT ![s] = a]
  OBVIOUS
<1> HIDE DEF a
<1>4. /\ at'[s] = a /\ deviceID'[s] = Hostname[s]
      /\ \A t \in Stream \ {s} : at'[t] = at[t] /\ deviceID'[t] = deviceID[t]
  BY <1>3 DEF TypeOK
<1>5. TypeOK'
  <2>1. \A t \in Stream : services'[t] = <<>> <=> at'[t] \in {"recv", "done"}
    BY <1>2, <1>4 DEF TypeOK
  <2>2. at' \in [Stream -> {"recv", "device", "get", "add", "update", "done"}]
    BY <1>2, <1>3 DEF TypeOK
  <2>3. QED
    BY <1>1, <2>1, <2>2 DEF TypeOK
<1>6. ASSUME NEW t \in Stream PROVE Positioned(t)' /\ Heard(t)'
  BY <1>2, <1>4 DEF Positioned, Heard, Svc
<1>7. QED
  BY <1>5, <1>6, QuietStep

(* A handler without a device drops its message.                           *)
LEMMA DeviceNotFoundIInv ==
  ASSUME IInv, NEW s \in Stream, DeviceNotFound(s) PROVE IInv'
<1> USE DEF IInv, DeviceNotFound, history
<1>1. /\ at'[s] = "recv" /\ services'[s] = <<>>
      /\ \A t \in Stream \ {s} : at'[t] = at[t] /\ services'[t] = services[t]
  BY DEF TypeOK
<1>2. TypeOK'
  <2>1. \A t \in Stream : services'[t] = <<>> <=> at'[t] \in {"recv", "done"}
    BY <1>1 DEF TypeOK
  <2>2. services' \in [Stream -> Seq(Item)]
    BY EmptySeq DEF TypeOK
  <2>3. QED
    BY <2>1, <2>2 DEF TypeOK
<1>3. Positioned(s)' /\ Heard(s)'
  <2>1. DOMAIN services'[s] = {}
    BY <1>1
  <2>2. QED
    BY <1>1, <2>1 DEF Positioned, Heard
<1>4. ASSUME NEW t \in Stream \ {s} PROVE Positioned(t)' /\ Heard(t)'
  BY <1>1 DEF Positioned, Heard, Svc
<1>5. QED
  BY <1>2, <1>3, <1>4, QuietStep

(* A handler about to add a row holds no id for it.                        *)
LEMMA RowNotFoundIInv ==
  ASSUME IInv, NEW s \in Stream, RowNotFound(s) PROVE IInv'
<1> USE DEF IInv, RowNotFound, history
<1>1. /\ at[s] = "get" /\ at'[s] = "add"
      /\ \A t \in Stream \ {s} : at'[t] = at[t]
  BY DEF TypeOK
<1>2. TypeOK'
  BY <1>1 DEF TypeOK
<1>3. ASSUME NEW t \in Stream PROVE Positioned(t)' /\ Heard(t)'
  BY <1>1 DEF Positioned, Heard, Svc
<1>4. QED
  BY <1>2, <1>3, QuietStep

-----------------------------------------------------------------------------
(* The steps that end the handling of a service.                           *)

\* What the histories of a handled report become.
LEMMA HistoryTypes ==
  ASSUME IInv, NEW s \in Stream, services[s] # <<>>,
         Read(s) \/ Wrote(s) \/ Failed(s) \/ WroteAndFailed(s)
  PROVE  /\ last' \in [Stream -> [Service -> Status]]
         /\ stored' \in [Stream -> [Service -> 0..2]]
<1> USE DEF IInv
<1> DEFINE n == Svc(s).name
           v == Svc(s).status
<1>1. n \in Service /\ v \in Status
  BY Splitting DEF Item
<1>2. /\ last \in [Stream -> [Service -> Status]]
      /\ stored \in [Stream -> [Service -> 0..2]]
  BY DEF TypeOK
<1>3. ASSUME NEW st \in [Stream -> [Service -> 0..2]]
      PROVE  Count(st, s) \in [Stream -> [Service -> 0..2]]
  <2>1. st[s][n] = 2 \/ st[s][n] + 1 \in 0..2
    BY <1>1
  <2>2. QED
    BY <1>1, <2>1 DEF Count
<1>4. Overtaken(s) \in [Stream -> [Service -> 0..2]]
  BY <1>1, <1>2 DEF Overtaken
<1>5. last' \in [Stream -> [Service -> Status]]
  <2>1. last' = last \/ last' = [last EXCEPT ![s][n] = v]
    BY DEF Read, Wrote, Failed, WroteAndFailed
  <2> HIDE DEF n, v
  <2>2. [last[s] EXCEPT ![n] = v] \in [Service -> Status]
    BY <1>1, <1>2
  <2>3. last' = last \/ last' = [last EXCEPT ![s] = [last[s] EXCEPT ![n] = v]]
    BY <1>2, <2>1
  <2>4. QED
    BY <1>2, <2>2, <2>3
<1>6. stored' \in [Stream -> [Service -> 0..2]]
  <2>1. CASE Read(s)
    BY <1>2, <1>3, <2>1 DEF Read
  <2>2. CASE Wrote(s)
    BY <1>3, <1>4, <2>2 DEF Wrote
  <2>3. CASE Failed(s)
    BY <1>1, <1>2, <2>3 DEF Failed
  <2>4. CASE WroteAndFailed(s)
    BY <1>1, <1>4, <2>4 DEF WroteAndFailed
  <2>5. QED
    BY <2>1, <2>2, <2>3, <2>4
<1>7. QED
  BY <1>5, <1>6

\* A report of another service, or of another handler, does not change what
\* is known of a service, except that a write takes back a second report of
\* the same service of the same host.
LEMMA OtherHistory ==
  ASSUME IInv, NEW s \in Stream, services[s] # <<>>,
         Read(s) \/ Wrote(s) \/ Failed(s) \/ WroteAndFailed(s),
         NEW t \in Stream, NEW n \in Service, t # s \/ n # Svc(s).name
  PROVE  /\ last'[t][n] = last[t][n]
         /\ stored'[t][n] # 0 => stored[t][n] # 0
         /\ stored'[t][n] = 2 => stored[t][n] = 2
         /\ /\ Wrote(s) \/ WroteAndFailed(s)
            /\ Hostname[t] = Hostname[s] /\ n = Svc(s).name
            => stored'[t][n] # 2
<1>1. /\ last \in [Stream -> [Service -> Status]]
      /\ stored \in [Stream -> [Service -> 0..2]]
      /\ Svc(s).name \in Service
  BY Splitting DEF IInv, TypeOK, Item
<1>2. CASE Wrote(s)
  <2>1. /\ stored' = Count(Overtaken(s), s)
        /\ last' = [last EXCEPT ![s][Svc(s).name] = Svc(s).status]
    BY <1>2 DEF Wrote
  <2>2. Overtaken(s) \in [Stream -> [Service -> 0..2]]
    BY <1>1 DEF Overtaken
  <2>3. QED
    BY <1>1, <2>1, <2>2 DEF Overtaken, Count
<1>3. CASE WroteAndFailed(s)
  <2>1. /\ stored' = [Overtaken(s) EXCEPT ![s][Svc(s).name] = 0]
        /\ UNCHANGED last
    BY <1>3 DEF WroteAndFailed
  <2>2. Overtaken(s) \in [Stream -> [Service -> 0..2]]
    BY <1>1 DEF Overtaken
  <2>3. QED
    BY <1>1, <2>1, <2>2 DEF Overtaken
<1>4. CASE ~Wrote(s) /\ ~WroteAndFailed(s)
  BY <1>1, <1>4 DEF Read, Failed, Count
<1>5. QED
  BY <1>2, <1>3, <1>4

\* What becomes known of the service that was handled.
LEMMA OwnHistory ==
  ASSUME IInv, NEW s \in Stream, services[s] # <<>>
  PROVE  LET n == Svc(s).name
         IN  /\ Read(s) => (stored'[s][n] = 2 => stored[s][n] # 0)
             /\ Wrote(s) => last'[s][n] = Svc(s).status
             /\ Failed(s) \/ WroteAndFailed(s) => stored'[s][n] = 0
<1>1. /\ last \in [Stream -> [Service -> Status]]
      /\ stored \in [Stream -> [Service -> 0..2]]
      /\ Svc(s).name \in Service
  BY Splitting DEF IInv, TypeOK, Item
<1>2. Overtaken(s) \in [Stream -> [Service -> 0..2]]
  BY <1>1 DEF Overtaken
<1>3. WroteAndFailed(s) => stored'[s][Svc(s).name] = 0
  BY <1>1, <1>2 DEF WroteAndFailed
<1>4. QED
  BY <1>1, <1>3 DEF Read, Wrote, Failed, Count

(* The id of a row that is found is kept under its own name.               *)
LEMMA RowFoundIInv ==
  ASSUME IInv, NEW s \in Stream, RowFound(s) PROVE IInv'
<1> USE DEF IInv
<1> DEFINE n == Svc(s).name
<1>1. PICK i \in RowIds(deviceID[s], n) : Continue(s, Remember(s, i))
  BY DEF RowFound
<1>2. /\ at[s] = "get" /\ services[s] # <<>> /\ n \in Service
      /\ IsRow(i, Hostname[s], n) /\ i \in Nat \ {0}
      /\ trackedServices[s][n] = 0 /\ stored[s][n] = 0
      /\ Read(s) /\ UNCHANGED tracked
  <2>1. at[s] = "get" /\ services[s] # <<>> /\ Read(s) /\ UNCHANGED tracked
    BY DEF RowFound, TypeOK
  <2>2. n \in Service
    BY <2>1, Splitting DEF Item
  <2>3. deviceID[s] = Hostname[s] /\ trackedServices[s][n] = 0 /\ stored[s][n] = 0
    BY <2>1, <2>2 DEF Positioned, Kept
  <2>4. DOMAIN tracked = 1 .. Len(tracked)
    BY LenProperties DEF TypeOK
  <2>5. QED
    BY <2>1, <2>2, <2>3, <2>4 DEF RowIds, IsRow
<1>3. Remember(s, i) \in [Service -> Nat]
  BY <1>2 DEF Remember, TypeOK
<1>4. /\ at' \in [Stream -> {"recv", "device", "get", "add", "update", "done"}]
      /\ services' \in [Stream -> Seq(Item)]
      /\ trackedServices' \in [Stream -> [Service -> Nat]]
      /\ trackedServices'[s] = Remember(s, i)
      /\ \A t \in Stream : services'[t] = <<>> <=> at'[t] \in {"recv", "done"}
      /\ \A t \in Stream \ {s} : trackedServices'[t] = trackedServices[t]
      /\ \A t \in Stream : Positioned(t)' /\ Heard(t)'
  BY <1>1, <1>2, <1>3, ContinuePositions
<1>5. TypeOK' /\ TableInv'
  <2>1. /\ last' \in [Stream -> [Service -> Status]]
        /\ stored' \in [Stream -> [Service -> 0..2]]
    BY <1>2, HistoryTypes
  <2>2. UNCHANGED <<devices, tracked, deviceID, reported>>
    BY <1>1, <1>2 DEF Continue
  <2>3. QED
    BY <1>4, <2>1, <2>2 DEF TypeOK, TableInv, StatusIsItsHosts
<1>6. ASSUME NEW t \in Stream, NEW k \in Service PROVE Kept(t, k)'
  <2>1. CASE t = s /\ k = n
    <3>1. trackedServices'[t][k] = i
      BY <1>2, <1>4, <2>1 DEF Remember, TypeOK
    <3>2. stored'[t][k] # 2
      BY <1>2, <2>1, OwnHistory
    <3>3. QED
      BY <1>2, <2>1, <3>1, <3>2 DEF Kept, IsRow
  <2>2. CASE t # s \/ k # n
    <3>1. trackedServices'[t][k] = trackedServices[t][k]
      BY <1>4, <2>2 DEF Remember, TypeOK
    <3>2. QED
      BY <1>2, <2>2, <3>1, OtherHistory DEF Kept, IsRow
  <2>3. QED
    BY <2>1, <2>2
<1>7. QED
  BY <1>4, <1>5, <1>6

\* An insert adds the row of the service at hand and leaves the others alone.
LEMMA Insertion ==
  ASSUME IInv, NEW s \in Stream, at[s] = "add", Insert(s), UNCHANGED reported
  PROVE  LET i == Len(tracked) + 1
             n == Svc(s).name
         IN  /\ tracked' \in Seq(Row)
             /\ TableInv'
             /\ i \in Nat \ {0}
             /\ i \in DOMAIN tracked'
             /\ tracked'[i] = [device |-> Hostname[s], name |-> n,
                              status |-> Svc(s).status]
             /\ \A j \in DOMAIN tracked :
                  j \in DOMAIN tracked' /\ tracked'[j] = tracked[j]
<1> USE DEF IInv
<1> DEFINE i == Len(tracked) + 1
           n == Svc(s).name
           row == [device |-> Hostname[s], name |-> n, status |-> Svc(s).status]
<1>1. services[s] # <<>> /\ deviceID[s] = Hostname[s] /\ Hostname[s] \in Host
  BY ServicesStreamAssumption DEF ServicesStreamAssumption, TypeOK, Positioned
<1>2. Svc(s) \in Item /\ Svc(s) = services[s][1] /\ 1 \in DOMAIN services[s]
  BY <1>1, Splitting
<1>3. row \in Row /\ tracked \in Seq(Row) /\ tracked' = Append(tracked, row)
  BY <1>1, <1>2 DEF Insert, TypeOK, Item, Row
<1> HIDE DEF row
<1>4. /\ tracked' \in Seq(Row) /\ Len(tracked) \in Nat
      /\ DOMAIN tracked = 1 .. Len(tracked) /\ DOMAIN tracked' = 1 .. i
      /\ tracked'[i] = row
      /\ \A j \in 1 .. Len(tracked) : tracked'[j] = tracked[j]
  BY <1>3, AppendProperties, LenProperties
<1>5. /\ i \in Nat \ {0} /\ i \in DOMAIN tracked'
      /\ \A j \in DOMAIN tracked' : j = i \/ j \in DOMAIN tracked
      /\ \A j \in DOMAIN tracked : j \in DOMAIN tracked' /\ j # i
  BY <1>4
<1>6. \A j \in DOMAIN tracked : ~(tracked[j].device = Hostname[s] /\ tracked[j].name = n)
  BY <1>1 DEF Insert, RowIds
<1>7. <<Hostname[s], n, Svc(s).status>> \in reported
  BY <1>2 DEF Heard
<1>8. row.device = Hostname[s] /\ row.name = n /\ row.status = Svc(s).status
  BY DEF row
<1> HIDE DEF i, n
<1>9. \A j, l \in DOMAIN tracked' :
        tracked'[j].device = tracked'[l].device /\ tracked'[j].name = tracked'[l].name
          => j = l
  BY <1>4, <1>5, <1>6, <1>8 DEF TableInv
<1>10. \A j \in DOMAIN tracked' :
         <<tracked'[j].device, tracked'[j].name, tracked'[j].status>> \in reported
  BY <1>4, <1>5, <1>7, <1>8 DEF TableInv, StatusIsItsHosts
<1>11. TableInv'
  BY <1>9, <1>10 DEF TableInv, StatusIsItsHosts
<1>12. QED
  BY <1>4, <1>5, <1>11 DEF i, n, row

(* A row that is added shows the report and its id is kept.                *)
LEMMA RowAddedIInv ==
  ASSUME IInv, NEW s \in Stream, RowAdded(s) PROVE IInv'
<1> USE DEF IInv
<1> DEFINE n == Svc(s).name
           i == Len(tracked) + 1
<1>1. /\ at[s] = "add" /\ services[s] # <<>> /\ n \in Service
      /\ Insert(s) /\ Continue(s, Remember(s, i)) /\ Wrote(s)
      /\ UNCHANGED <<devices, deviceID, reported>>
  <2>1. at[s] = "add" /\ services[s] # <<>>
    BY DEF RowAdded, TypeOK
  <2>2. n \in Service
    BY <2>1, Splitting DEF Item
  <2>3. QED
    BY <2>1, <2>2 DEF RowAdded, Continue
<1>2. /\ tracked' \in Seq(Row) /\ TableInv' /\ i \in Nat \ {0}
      /\ i \in DOMAIN tracked'
      /\ tracked'[i] = [device |-> Hostname[s], name |-> n, status |-> Svc(s).status]
      /\ \A j \in DOMAIN tracked : j \in DOMAIN tracked' /\ tracked'[j] = tracked[j]
  BY <1>1, Insertion
<1>3. Remember(s, i) \in [Service -> Nat]
  BY <1>1, <1>2 DEF Remember, TypeOK
<1>4. /\ at' \in [Stream -> {"recv", "device", "get", "add", "update", "done"}]
      /\ services' \in [Stream -> Seq(Item)]
      /\ trackedServices' \in [Stream -> [Service -> Nat]]
      /\ trackedServices'[s] = Remember(s, i)
      /\ \A t \in Stream : services'[t] = <<>> <=> at'[t] \in {"recv", "done"}
      /\ \A t \in Stream \ {s} : trackedServices'[t] = trackedServices[t]
      /\ \A t \in Stream : Positioned(t)' /\ Heard(t)'
  BY <1>1, <1>3, ContinuePositions
<1>5. TypeOK'
  <2>1. /\ last' \in [Stream -> [Service -> Status]]
        /\ stored' \in [Stream -> [Service -> 0..2]]
    BY <1>1, HistoryTypes
  <2>2. QED
    BY <1>1, <1>2, <1>4, <2>1 DEF TypeOK
<1> HIDE DEF i
<1>6. ASSUME NEW t \in Stream, NEW k \in Service PROVE Kept(t, k)'
  <2>1. CASE t = s /\ k = n
    <3>1. trackedServices'[t][k] = i
      BY <1>1, <1>4, <2>1 DEF Remember, TypeOK
    <3>2. last'[t][k] = Svc(s).status
      BY <1>1, <2>1, OwnHistory
    <3>3. QED
      BY <1>2, <2>1, <3>1, <3>2 DEF Kept, IsRow
  <2>2. CASE t # s \/ k # n
    <3>1. trackedServices'[t][k] = trackedServices[t][k]
      BY <1>4, <2>2 DEF Remember, TypeOK
    <3>2. QED
      BY <1>1, <1>2, <2>2, <3>1, OtherHistory DEF Kept, IsRow
  <2>3. QED
    BY <2>1, <2>2
<1>7. QED
  BY <1>2, <1>4, <1>5, <1>6

(* No id is kept after an error, whether or not the row was added.         *)
LEMMA RowNotAddedIInv ==
  ASSUME IInv, NEW s \in Stream, RowNotAdded(s) PROVE IInv'
<1> USE DEF IInv
<1> DEFINE n == Svc(s).name
<1>1. /\ at[s] = "add" /\ services[s] # <<>>
      /\ Continue(s, trackedServices[s]) /\ Failed(s)
      /\ UNCHANGED <<devices, deviceID, reported>>
  BY DEF RowNotAdded, TypeOK, Continue
<1>2. /\ tracked' \in Seq(Row) /\ TableInv'
      /\ \A j \in DOMAIN tracked : j \in DOMAIN tracked' /\ tracked'[j] = tracked[j]
  <2>1. CASE Insert(s)
    BY <1>1, <2>1, Insertion
  <2>2. CASE UNCHANGED tracked
    BY <1>1, <2>2 DEF TypeOK, TableInv, StatusIsItsHosts
  <2>3. QED
    BY <2>1, <2>2 DEF RowNotAdded
<1>3. trackedServices[s] \in [Service -> Nat]
  BY DEF TypeOK
<1>4. /\ at' \in [Stream -> {"recv", "device", "get", "add", "update", "done"}]
      /\ services' \in [Stream -> Seq(Item)]
      /\ trackedServices' \in [Stream -> [Service -> Nat]]
      /\ \A t \in Stream : trackedServices'[t] = trackedServices[t]
      /\ \A t \in Stream : services'[t] = <<>> <=> at'[t] \in {"recv", "done"}
      /\ \A t \in Stream : Positioned(t)' /\ Heard(t)'
  BY <1>1, <1>3, ContinuePositions
<1>5. TypeOK'
  <2>1. /\ last' \in [Stream -> [Service -> Status]]
        /\ stored' \in [Stream -> [Service -> 0..2]]
    BY <1>1, HistoryTypes
  <2>2. QED
    BY <1>1, <1>2, <1>4, <2>1 DEF TypeOK
<1>6. ASSUME NEW t \in Stream, NEW k \in Service PROVE Kept(t, k)'
  <2>1. CASE t = s /\ k = n
    BY <1>1, <1>2, <1>4, <2>1, OwnHistory DEF Kept, IsRow
  <2>2. CASE t # s \/ k # n
    <3>1. /\ last'[t][k] = last[t][k]
          /\ stored'[t][k] # 0 => stored[t][k] # 0
          /\ stored'[t][k] = 2 => stored[t][k] = 2
      BY <1>1, <2>2, OtherHistory
    <3>2. Kept(t, k) /\ trackedServices'[t][k] = trackedServices[t][k]
      BY <1>4
    <3>3. QED
      BY <1>2, <3>1, <3>2 DEF Kept, IsRow
  <2>3. QED
    BY <2>1, <2>2
<1>7. QED
  BY <1>2, <1>4, <1>5, <1>6

(* An update writes the handler's own row and takes back what other        *)
(* streams knew of it, whether or not the handler is told of an error.     *)
LEMMA UpdateIInv ==
  ASSUME IInv, NEW s \in Stream, at[s] = "update", Update(s),
         Continue(s, trackedServices[s]), Wrote(s) \/ WroteAndFailed(s)
  PROVE  IInv'
<1> USE DEF IInv
<1> DEFINE n == Svc(s).name
           u == trackedServices[s][n]
<1>1. /\ at[s] = "update" /\ services[s] # <<>> /\ Svc(s) \in Item
      /\ tracked' = [tracked EXCEPT ![u].status = Svc(s).status]
      /\ UNCHANGED <<devices, deviceID, reported>>
  <2>1. services[s] # <<>>
    BY DEF TypeOK
  <2>2. QED
    BY <2>1, Splitting DEF Update, Continue
<1>2. IsRow(u, Hostname[s], n)
  BY <1>1 DEF Positioned, Kept, Item
<1>3. /\ tracked' \in Seq(Row) /\ DOMAIN tracked' = DOMAIN tracked
      /\ \A j \in DOMAIN tracked : /\ tracked'[j].device = tracked[j].device
                                   /\ tracked'[j].name = tracked[j].name
                                   /\ j # u => tracked'[j] = tracked[j]
      /\ tracked'[u].status = Svc(s).status
  <2>1. tracked \in Seq(Row) /\ u \in DOMAIN tracked /\ tracked[u] \in Row
    BY <1>2, ElementOfSeq, LenProperties DEF IsRow, TypeOK
  <2> DEFINE row == [tracked[u] EXCEPT !.status = Svc(s).status]
  <2>2. /\ row \in Row /\ row.status = Svc(s).status
        /\ row.device = tracked[u].device /\ row.name = tracked[u].name
    BY <1>1, <2>1 DEF Row, Item
  <2>3. tracked' = [tracked EXCEPT ![u] = row]
    BY <1>1
  <2> HIDE DEF row, u
  <2>4. tracked' \in Seq(Row)
    BY <2>1, <2>2, <2>3, ExceptSeq, LenProperties
  <2>5. QED
    BY <2>1, <2>2, <2>3, <2>4
<1>4. TableInv'
  <2>1. <<Hostname[s], n, Svc(s).status>> \in reported
    BY <1>1, Splitting DEF Heard
  <2>2. u \in DOMAIN tracked /\ tracked[u].device = Hostname[s] /\ tracked[u].name = n
    BY <1>2 DEF IsRow
  <2> HIDE DEF u, n
  <2>3. ASSUME NEW i \in DOMAIN tracked, NEW j \in DOMAIN tracked,
               tracked'[i].device = tracked'[j].device,
               tracked'[i].name = tracked'[j].name
        PROVE  i = j
    <3>1. tracked[i].device = tracked[j].device /\ tracked[i].name = tracked[j].name
      BY <1>3, <2>3
    <3>2. QED
      BY <3>1 DEF TableInv
  <2>4. ASSUME NEW i \in DOMAIN tracked
        PROVE  <<tracked'[i].device, tracked'[i].name, tracked'[i].status>> \in reported
    <3>1. CASE i = u
      BY <1>3, <2>1, <2>2, <3>1
    <3>2. CASE i # u
      <4>1. tracked'[i] = tracked[i]
        BY <1>3, <3>2
      <4>2. QED
        BY <4>1 DEF TableInv, StatusIsItsHosts
    <3>3. QED
      BY <3>1, <3>2
  <2>5. QED
    BY <1>1, <1>3, <2>3, <2>4 DEF TableInv, StatusIsItsHosts
<1>5. trackedServices[s] \in [Service -> Nat]
  BY DEF TypeOK
<1>6. /\ at' \in [Stream -> {"recv", "device", "get", "add", "update", "done"}]
      /\ services' \in [Stream -> Seq(Item)]
      /\ trackedServices' \in [Stream -> [Service -> Nat]]
      /\ \A t \in Stream : trackedServices'[t] = trackedServices[t]
      /\ \A t \in Stream : services'[t] = <<>> <=> at'[t] \in {"recv", "done"}
      /\ \A t \in Stream : Positioned(t)' /\ Heard(t)'
  BY <1>1, <1>5, ContinuePositions
<1>7. TypeOK'
  <2>1. /\ last' \in [Stream -> [Service -> Status]]
        /\ stored' \in [Stream -> [Service -> 0..2]]
    BY <1>1, HistoryTypes
  <2>2. QED
    BY <1>1, <1>3, <1>6, <2>1 DEF TypeOK
<1>8. ASSUME NEW t \in Stream, NEW k \in Service PROVE Kept(t, k)'
  <2>1. CASE t = s /\ k = n
    <3>1. /\ trackedServices'[t][k] = u /\ u # 0
          /\ last'[t][k] = Svc(s).status \/ stored'[t][k] = 0
      BY <1>1, <1>6, <2>1, OwnHistory DEF Positioned
    <3>2. u \in DOMAIN tracked /\ tracked[u].device = Hostname[s] /\ tracked[u].name = n
      BY <1>2 DEF IsRow
    <3> HIDE DEF u, n
    <3>3. QED
      BY <1>3, <2>1, <3>1, <3>2 DEF Kept, IsRow
  <2>2. CASE t # s \/ k # n
    <3>1. trackedServices'[t][k] = u /\ u # 0 =>
            Hostname[t] = Hostname[s] /\ k = n
      BY <1>2, <1>6 DEF Kept, IsRow
    <3>2. /\ last'[t][k] = last[t][k]
          /\ stored'[t][k] # 0 => stored[t][k] # 0
          /\ stored'[t][k] = 2 => stored[t][k] = 2
          /\ Hostname[t] = Hostname[s] /\ k = n => stored'[t][k] # 2
      BY <1>1, <2>2, OtherHistory
    <3>3. Kept(t, k) /\ trackedServices'[t][k] = trackedServices[t][k]
      BY <1>6
    <3>4. u # 0
      BY <1>1 DEF Positioned
    <3> HIDE DEF u, n
    <3>5. QED
      BY <1>3, <3>1, <3>2, <3>3, <3>4 DEF Kept, IsRow
  <2>3. QED
    BY <2>1, <2>2
<1>9. QED
  BY <1>4, <1>6, <1>7, <1>8

(* A failed update that leaves the row forgets earlier successes.          *)
LEMMA NoUpdateIInv ==
  ASSUME IInv, NEW s \in Stream, at[s] = "update", UNCHANGED tracked,
         Continue(s, trackedServices[s]), Failed(s)
  PROVE  IInv'
<1> USE DEF IInv
<1> DEFINE n == Svc(s).name
<1>1. services[s] # <<>> /\ UNCHANGED <<devices, deviceID, reported>>
  BY DEF TypeOK, Continue
<1>2. trackedServices[s] \in [Service -> Nat]
  BY DEF TypeOK
<1>3. /\ at' \in [Stream -> {"recv", "device", "get", "add", "update", "done"}]
      /\ services' \in [Stream -> Seq(Item)]
      /\ trackedServices' \in [Stream -> [Service -> Nat]]
      /\ \A t \in Stream : trackedServices'[t] = trackedServices[t]
      /\ \A t \in Stream : services'[t] = <<>> <=> at'[t] \in {"recv", "done"}
      /\ \A t \in Stream : Positioned(t)' /\ Heard(t)'
  BY <1>1, <1>2, ContinuePositions
<1>4. TypeOK' /\ TableInv'
  <2>1. /\ last' \in [Stream -> [Service -> Status]]
        /\ stored' \in [Stream -> [Service -> 0..2]]
    BY <1>1, HistoryTypes
  <2>2. QED
    BY <1>1, <1>3, <2>1 DEF TypeOK, TableInv, StatusIsItsHosts
<1>5. ASSUME NEW t \in Stream, NEW k \in Service PROVE Kept(t, k)'
  <2>1. CASE t = s /\ k = n
    BY <1>1, <1>3, <2>1, OwnHistory DEF Kept, IsRow
  <2>2. CASE t # s \/ k # n
    <3>1. /\ last'[t][k] = last[t][k]
          /\ stored'[t][k] # 0 => stored[t][k] # 0
          /\ stored'[t][k] = 2 => stored[t][k] = 2
      BY <1>1, <2>2, OtherHistory
    <3>2. Kept(t, k) /\ trackedServices'[t][k] = trackedServices[t][k]
      BY <1>3
    <3>3. QED
      BY <1>1, <3>1, <3>2 DEF Kept, IsRow
  <2>3. QED
    BY <2>1, <2>2
<1>6. QED
  BY <1>3, <1>4, <1>5

-----------------------------------------------------------------------------
(* Every step preserves the invariant.                                     *)
LEMMA StepIInv == IInv /\ [Next]_vars => IInv'
<1> SUFFICES ASSUME IInv, [Next]_vars PROVE IInv'
  OBVIOUS
<1>1. CASE UNCHANGED vars
  <2>1. TypeOK'
    BY <1>1 DEF IInv, TypeOK, vars, handler, history
  <2>2. ASSUME NEW s \in Stream PROVE Positioned(s)' /\ Heard(s)'
    BY <1>1 DEF IInv, Positioned, Heard, Svc, vars, handler, history
  <2>3. QED
    BY <1>1, <2>1, <2>2, QuietStep DEF IInv, vars, handler, history
<1>2. ASSUME NEW h \in Host, AddDevice(h) PROVE IInv'
  BY <1>2, AddDeviceIInv
<1>3. ASSUME NEW s \in Stream, Recv(s) \/ RecvError(s) PROVE IInv'
  BY <1>3, RecvIInv, RecvErrorIInv
<1>4. ASSUME NEW s \in Stream, Handle(s) PROVE IInv'
  <2>1. CASE RowUpdated(s) \/ RowNotUpdated(s)
    BY <2>1, UpdateIInv, NoUpdateIInv DEF RowUpdated, RowNotUpdated
  <2>2. QED
    BY <1>4, <2>1, DeviceFoundIInv, DeviceNotFoundIInv, RowFoundIInv,
       RowNotFoundIInv, RowAddedIInv, RowNotAddedIInv DEF Handle
<1>5. QED
  BY <1>1, <1>2, <1>3, <1>4 DEF Next

(* So it holds always.                                                     *)
LEMMA Invariance == Spec => []IInv
BY InitIInv, StepIInv, PTL DEF Spec

(* The tables and the handlers' variables keep their types, and a handler  *)
(* has services to handle exactly when it is not waiting for a message.    *)
THEOREM StreamTypeCorrect == Spec => []TypeOK
<1>1. IInv => TypeOK
  BY DEF IInv
<1>2. QED
  BY <1>1, Invariance, PTL

(* Handlers of any number of streams, whichever of them add the rows, keep *)
(* under each name the id of the one row of their own host and this name.  *)
THEOREM IdsOfOwnRows == Spec => []IdsAreOwnRows
<1>1. IInv => IdsAreOwnRows
  BY DEF IInv, IdsAreOwnRows, Kept, TableInv, IsRow, RowIds
<1>2. QED
  BY <1>1, Invariance, PTL

(* No row shows a status that its host did not report of its service.      *)
THEOREM StatusOfItsHost == Spec => []StatusIsItsHosts
<1>1. IInv => StatusIsItsHosts
  BY DEF IInv, TableInv
<1>2. QED
  BY <1>1, Invariance, PTL

(* Two reports in a row without an error, and no other stream's write in   *)
(* between, put the last of them into the table.                           *)
THEOREM SecondReportStored == Spec => []SecondReportIsStored
<1>1. IInv => SecondReportIsStored
  BY DEF IInv, SecondReportIsStored, Kept, IsRow, RowIds
<1>2. QED
  BY <1>1, Invariance, PTL
=============================================================================
