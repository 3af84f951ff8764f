--------------------------- MODULE TablesProofs -----------------------------
(***************************************************************************)
(* Proofs about the tables of the database: what a save of the settings    *)
(* leaves in them and in the clients of the server, and the packages,      *)
(* watched services, exports and imports of the rest of the pages.         *)
(***************************************************************************)
EXTENDS Settings, Store, SequenceTheorems, WellFoundedInduction, TLAPS

-----------------------------------------------------------------------------
(***************************************************************************)
(* The settings: saves and the clients they replace.                       *)
(***************************************************************************)

\* Between its UPDATE and its end.
Past(s) == at[s] \in {"read", "swap", "commit"}

\* It can read and write no more, and will not be saved.
Doomed(s) == ~Usable(s) /\ at[s] \notin {"idle", "saved"}

\* The settings reload has read when it builds a client.
Needs(c) == CASE c = "registry"     -> 3
              [] c = "watchtower"   -> 5
              [] c = "deviceFinder" -> 7

Swapped(s, c) ==
  /\ Past(s)
  /\ Len(read[s]) >= Needs(c)
  /\ at[s] = "swap" => Len(read[s]) # Needs(c)

\* Where a request is agrees with what it has read, with the lock, with the
\* table it saw and with whether the server runs.
Placed(s) ==
  /\ at[s] = "idle" => tx[s] = "none" /\ ~left[s]
  /\ at[s] \in {"idle", "update"} => read[s] = <<>>
  /\ at[s] = "commit" => Len(read[s]) = 7
  /\ ~up => ~Past(s) /\ at[s] # "update"
  /\ Past(s) /\ Usable(s) => writer = s /\ saw[s] = View(s)

\* Each setting read is empty or that of a table, and the timeouts parse.
ReadOf(values, table) ==
  \A i \in 1..Len(values) :
    /\ values[i] \in {Blank, table[ReadOrder[i]]}
    /\ i <= 2 => values[i] \in Duration

\* A request has read the table it saw; so has a server that starts.
ReadIsSeen(s) == Past(s) => ReadOf(read[s], saw[s])
BootIsSeen == ReadOf(boot, stored) /\ (up => boot = <<>>)

\* A client it has built is still there, or was replaced by a request that
\* will not be saved.
Holds(s, c) ==
  Swapped(s, c) /\ Usable(s) =>
    builder[c] = s \/ (builder[c] \in Save /\ Doomed(builder[c]))

\* The first part of ClientsAreOfOneTable, for one client, and who can have
\* built it.
ClientSeen(c) ==
  /\ \A i \in DOMAIN live[c] :
       live[c][i] \in {Blank, Built(c, AllOf(saw[builder[c]]))[i]}
  /\ builder[c] \in Save => at[builder[c]] \notin {"idle", "update"}
  /\ ~up => builder[c] = NoSave

\* The second.
SavedSeen ==
  up => \A c \in Client :
    builder[c] = NoSave \/ at[builder[c]] = "saved" => saw[builder[c]] = stored

IInv ==
  /\ SettingsTypeOK
  /\ StoredTimeoutsParse
  /\ BootIsSeen
  /\ SavedSeen
  /\ \A s \in Save : Placed(s) /\ ReadIsSeen(s)
  /\ \A c \in Client : ClientSeen(c)
  /\ \A s \in Save, c \in Client : Holds(s, c)

-----------------------------------------------------------------------------
(* The order of the settings, and the clients built of them.               *)
LEMMA OrderFacts ==
  /\ \A i \in 1..7 : ReadOrder[i] \in Name
  /\ Timeouts = {ReadOrder[1], ReadOrder[2]}
BY DEF ReadOrder, Name, Timeouts

LEMMA ViewType ==
  ASSUME SettingsTypeOK, NEW s \in Save
  PROVE  View(s) \in [Name -> Value]
<1>1. form[s].value \in Value
  BY SettingsAssumption DEF SettingsTypeOK, SettingsAssumption
<1>2. QED
  BY <1>1 DEF SettingsTypeOK, View, UpdateSetting

LEMMA AllOfType ==
  ASSUME NEW t \in [Name -> Value]
  PROVE  AllOf(t) \in Seq(Value) /\ Len(AllOf(t)) = 7
         /\ \A i \in 1..7 : AllOf(t)[i] = t[ReadOrder[i]]
<1>1. AllOf(t) \in [1..7 -> Value]
  BY OrderFacts DEF AllOf
<1>2. QED
  BY <1>1 DEF AllOf

LEMMA NeedsFacts == \A c \in Client : Needs(c) \in {3, 5, 7}
<1>1. Needs("registry") = 3 /\ Needs("watchtower") = 5 /\ Needs("deviceFinder") = 7
  BY DEF Needs
<1>2. QED
  BY <1>1 DEF Client

\* A client of what was read of a table is one of that table, but for blanks.
LEMMA BuiltOfTable ==
  ASSUME NEW c \in Client, NEW v \in Seq(Value), Len(v) >= Needs(c),
         NEW t \in [Name -> Value], ReadOf(v, t)
  PROVE  /\ Built(c, v) \in Seq(Value \cup {ZeroTime})
         /\ \A i \in DOMAIN Built(c, v) :
              Built(c, v)[i] \in {Blank, Built(c, AllOf(t))[i]}
<1>1. \A i \in 1..Needs(c) : v[i] \in Value /\ v[i] \in {Blank, AllOf(t)[i]}
  <2>1. SUFFICES ASSUME NEW i \in 1..Needs(c)
                 PROVE  v[i] \in Value /\ v[i] \in {Blank, AllOf(t)[i]}
    OBVIOUS
  <2>2. Needs(c) \in {3, 5, 7} /\ Len(v) \in Nat
    BY NeedsFacts
  <2>3. i \in 1..Len(v) /\ i \in 1..7
    BY <2>2
  <2>4. v[i] \in Value
    BY <2>3
  <2>5. v[i] \in {Blank, t[ReadOrder[i]]}
    BY <2>3 DEF ReadOf
  <2>6. QED
    BY <2>3, <2>4, <2>5, AllOfType
<1>2. CASE c = "registry"
  <2>1. /\ v[3] \in Value /\ v[3] \in {Blank, AllOf(t)[3]}
        /\ v[1] \in Value /\ v[1] \in {Blank, AllOf(t)[1]}
    BY <1>1, <1>2 DEF Needs
  <2>2. /\ Built(c, v) = <<v[3], v[1]>>
        /\ Built(c, AllOf(t)) = <<AllOf(t)[3], AllOf(t)[1]>>
    BY <1>2 DEF Built, NewRegistry
  <2>3. QED
    BY <2>1, <2>2
<1>3. CASE c = "watchtower"
  <2>1. /\ v[4] \in Value /\ v[4] \in {Blank, AllOf(t)[4]}
        /\ v[5] \in Value /\ v[5] \in {Blank, AllOf(t)[5]}
    BY <1>1, <1>3 DEF Needs
  <2>2. /\ Built(c, v) = <<v[4], v[5], ZeroTime>>
        /\ Built(c, AllOf(t)) = <<AllOf(t)[4], AllOf(t)[5], ZeroTime>>
    BY <1>3 DEF Built, NewWatchtower
  <2>3. QED
    BY <2>1, <2>2
<1>4. CASE c = "deviceFinder"
  <2>1. /\ v[6] \in Value /\ v[6] \in {Blank, AllOf(t)[6]}
        /\ v[7] \in Value /\ v[7] \in {Blank, AllOf(t)[7]}
    BY <1>1, <1>4 DEF Needs
  <2>2. /\ Built(c, v) = <<v[6], v[7]>>
        /\ Built(c, AllOf(t)) = <<AllOf(t)[6], AllOf(t)[7]>>
    BY <1>4 DEF Built, NewClient
  <2>3. QED
    BY <2>1, <2>2
<1>5. QED
  BY <1>2, <1>3, <1>4 DEF Client

\* One more setting is read of the table, or it fails.
LEMMA ReadOneMore ==
  ASSUME NEW v \in Seq(Value), Len(v) < 7, NEW t \in [Name -> Value], ReadOf(v, t),
         NEW new, new = Blank \/ new = t[ReadOrder[Len(v) + 1]]
  PROVE  /\ Append(v, new) \in Seq(Value)
         /\ Len(Append(v, new)) = Len(v) + 1
         /\ Parsed(Append(v, new)) => ReadOf(Append(v, new), t)
<1>1. Len(v) \in Nat /\ Len(v) + 1 \in 1..7
  OBVIOUS
<1>2. ReadOrder[Len(v) + 1] \in Name
  BY <1>1, OrderFacts
<1>3. new \in Value
  BY <1>2, SettingsAssumption DEF SettingsAssumption
<1> DEFINE w == Append(v, new)
<1>4. /\ w \in Seq(Value) /\ Len(w) = Len(v) + 1
      /\ \A i \in 1..Len(v) : w[i] = v[i]
      /\ w[Len(v) + 1] = new
  BY <1>3, AppendProperties
<1> HIDE DEF w
<1>5. ASSUME Parsed(w), NEW i \in 1..Len(w)
      PROVE  /\ w[i] \in {Blank, t[ReadOrder[i]]}
             /\ i <= 2 => w[i] \in Duration
  <2>1. CASE i \in 1..Len(v)
    BY <1>4, <2>1 DEF ReadOf
  <2>2. CASE i = Len(v) + 1
    BY <1>4, <1>5, <2>2 DEF Parsed
  <2>3. QED
    BY <1>1, <1>4, <2>1, <2>2
<1>6. Parsed(w) => ReadOf(w, t)
  BY <1>5 DEF ReadOf
<1>7. QED
  BY <1>4, <1>6 DEF w

LEMMA EmptyIsRead ==
  ASSUME NEW t
  PROVE  ReadOf(<<>>, t) /\ Len(<<>>) = 0 /\ <<>> \in Seq(Value)
BY EmptySeq DEF ReadOf

-----------------------------------------------------------------------------
(* What the steps of a request leave to the others.                        *)
Frame(s) ==
  /\ form' = form
  /\ up' = up /\ boot' = boot
  /\ \A t \in Save \ {s} :
       /\ at'[t] = at[t]
       /\ left'[t] = left[t]
       /\ tx'[t] = tx[t]
       /\ read'[t] = read[t]
       /\ writer = t => writer' = t
  /\ \A t \in Save \cup {NoSave} : saw'[t] = saw[t] \/ (t = s /\ at[s] = "update")
  /\ stored' = stored \/ (writer = s /\ up)
  /\ Doomed(s) => Doomed(s)'
  /\ at'[s] \in {"idle", "update"} => at[s] \in {"idle", "update"}
  /\ \A c \in Client : \/ live'[c] = live[c] /\ builder'[c] = builder[c]
                       \/ builder'[c] = s /\ (writer = s \/ Doomed(s)')

\* A request that holds the lock is the only one past its UPDATE that is not
\* doomed, so that nothing is claimed of the others.
LEMMA FrameOthers ==
  ASSUME IInv, NEW s \in Save, Frame(s), NEW t \in Save \ {s}
  PROVE  Placed(t)' /\ ReadIsSeen(t)' /\ \A c \in Client : Holds(t, c)'
<1>1. Usable(t)' = Usable(t) /\ Past(t)' = Past(t) /\ saw'[t] = saw[t]
  BY DEF Frame, Usable, Past
<1>2. Past(t) /\ Usable(t) => writer = t /\ View(t)' = View(t)
  BY DEF IInv, Placed, Frame, View
<1>3. Placed(t)'
  BY <1>1, <1>2 DEF IInv, Placed, Frame, Past
<1>4. ReadIsSeen(t)'
  BY <1>1 DEF IInv, ReadIsSeen, ReadOf, Frame
<1>5. ASSUME NEW c \in Client, Swapped(t, c)', Usable(t)' PROVE Holds(t, c)'
  <2>1. Swapped(t, c) /\ Usable(t) /\ Past(t)
    BY <1>1, <1>5 DEF Swapped, Frame
  <2>2. writer = t
    BY <1>2, <2>1
  <2>3. \A r \in Save : Doomed(r) => Doomed(r)'
    BY DEF Frame, Doomed, Usable
  <2>4. CASE live'[c] = live[c] /\ builder'[c] = builder[c]
    BY <2>1, <2>3, <2>4 DEF IInv, Holds
  <2>5. CASE builder'[c] = s /\ (writer = s \/ Doomed(s)')
    BY <2>2, <2>5 DEF Holds
  <2>6. QED
    BY <2>4, <2>5 DEF Frame
<1>6. QED
  BY <1>3, <1>4, <1>5 DEF Holds

\* Nor does it lose a client by a step that builds none.
LEMMA HoldsStays ==
  ASSUME IInv, NEW s \in Save, Frame(s), NEW c \in Client,
         Swapped(s, c)' => Swapped(s, c), Usable(s)' => Usable(s),
         builder'[c] = builder[c]
  PROVE  Holds(s, c)'
<1>1. \A r \in Save : Doomed(r) => Doomed(r)'
  BY DEF Frame, Doomed, Usable
<1>2. QED
  BY <1>1 DEF IInv, Holds

\* A client that is not replaced stays one of the table its builder saw.
LEMMA ClientStays ==
  ASSUME IInv, NEW s \in Save, Frame(s), NEW c \in Client,
         live'[c] = live[c], builder'[c] = builder[c]
  PROVE  ClientSeen(c)'
<1>1. ClientSeen(c) /\ builder[c] \in Save \cup {NoSave}
  BY DEF IInv, SettingsTypeOK
<1>2. builder[c] = s => at[s] \notin {"idle", "update"}
  BY <1>1 DEF ClientSeen
<1>3. saw'[builder[c]] = saw[builder[c]]
  BY <1>1, <1>2 DEF Frame
<1>4. Built(c, AllOf(saw[builder[c]]))' = Built(c, AllOf(saw[builder[c]]))
  BY <1>3 DEF Built, AllOf, NewRegistry, NewWatchtower, NewClient
<1>5. builder'[c] \in Save => at'[builder'[c]] \notin {"idle", "update"}
  BY <1>1, <1>2 DEF ClientSeen, Frame
<1>6. QED
  BY <1>1, <1>4, <1>5 DEF ClientSeen, Frame

\* Without a commit no client comes to be of a request that was saved.
LEMMA FrameSaved ==
  ASSUME IInv, NEW s \in Save, Frame(s), stored' = stored,
         at'[s] = "saved" => at'[s] = at[s] /\ live' = live /\ builder' = builder
  PROVE  SavedSeen' /\ StoredTimeoutsParse' /\ BootIsSeen'
<1>1. StoredTimeoutsParse'
  BY DEF IInv, StoredTimeoutsParse, Parse
<1>2. BootIsSeen'
  BY DEF IInv, BootIsSeen, ReadOf, Frame
<1>3. ASSUME NEW c \in Client, up', builder'[c] = NoSave \/ at'[builder'[c]] = "saved"
      PROVE  saw'[builder'[c]] = stored'
  <2>1. live'[c] = live[c] /\ builder'[c] = builder[c]
    BY <1>3, SettingsAssumption DEF Frame, SettingsAssumption
  <2>2. builder[c] \in Save \cup {NoSave} /\ ClientSeen(c)
    BY DEF IInv, SettingsTypeOK
  <2>3. builder[c] = NoSave \/ at[builder[c]] = "saved"
    BY <1>3, <2>1, <2>2, SettingsAssumption DEF Frame, SettingsAssumption
  <2>4. saw[builder[c]] = stored
    BY <1>3, <2>3 DEF IInv, SavedSeen, Frame
  <2>5. builder[c] = s => at[s] \notin {"idle", "update"}
    BY <2>2 DEF ClientSeen
  <2>6. QED
    BY <2>1, <2>2, <2>4, <2>5 DEF Frame
<1>4. QED
  BY <1>1, <1>2, <1>3 DEF SavedSeen

\* What is left to show of a step of one request.
LEMMA FrameIInv ==
  ASSUME IInv, NEW s \in Save, Frame(s),
         SettingsTypeOK', StoredTimeoutsParse', BootIsSeen', SavedSeen',
         Placed(s)', ReadIsSeen(s)',
         \A c \in Client : Holds(s, c)',
         \A c \in Client : \/ live'[c] = live[c] /\ builder'[c] = builder[c]
                          \/ ClientSeen(c)'
  PROVE  IInv'
<1>1. \A c \in Client : ClientSeen(c)'
  BY ClientStays
<1>2. QED
  BY <1>1, FrameOthers DEF IInv

-----------------------------------------------------------------------------
(* At first there are no clients.                                          *)
LEMMA InitIInv == SettingsInit => IInv
<1> SUFFICES ASSUME SettingsInit PROVE IInv
  OBVIOUS
<1>1. stored \in [Name -> Value]
  BY SettingsAssumption DEF SettingsInit, SettingsAssumption
<1>2. /\ <<>> \in Seq(Value) /\ <<>> \in Seq(Value \cup {ZeroTime})
      /\ Len(<<>>) = 0 /\ DOMAIN <<>> = {}
  BY EmptySeq
<1>3. SettingsTypeOK
  <2>1. live \in [Client -> Seq(Value \cup {ZeroTime})]
    BY <1>2 DEF SettingsInit, NoClients
  <2>2. outages \in 0..MaxOutages
    BY SettingsAssumption DEF SettingsInit, SettingsAssumption
  <2>3. saw \in [Save \cup {NoSave} -> [Name -> Value]]
    BY <1>1 DEF SettingsInit
  <2>4. \A s \in Save : read[s] = <<>> /\ Len(read[s]) = 0 /\ at[s] = "idle"
    BY <1>2 DEF SettingsInit
  <2>5. /\ read \in [Save -> Seq(Value)]
        /\ boot \in Seq(Value) /\ Len(boot) < 7
    BY <1>2 DEF SettingsInit
  <2>6. /\ writer \in Save \cup {NoSave}
        /\ up \in BOOLEAN
        /\ at \in [Save -> {"idle", "update", "read", "swap", "commit"} \cup Settled]
        /\ form \in [Save -> Form]
        /\ left \in [Save -> BOOLEAN]
        /\ tx \in [Save -> {"none", "open", "done"}]
        /\ builder \in [Client -> Save \cup {NoSave}]
    BY DEF SettingsInit
  <2>7. \A s \in Save : /\ Len(read[s]) <= 7
                        /\ at[s] # "read" /\ at[s] # "swap"
    BY <2>4
  <2>8. QED
    BY <1>1, <2>1, <2>2, <2>3, <2>5, <2>6, <2>7 DEF SettingsTypeOK
<1>4. StoredTimeoutsParse /\ BootIsSeen /\ SavedSeen
  BY EmptyIsRead DEF SettingsInit, StoredTimeoutsParse, BootIsSeen, SavedSeen
<1>5. ASSUME NEW s \in Save PROVE Placed(s) /\ ReadIsSeen(s) /\ ~Past(s)
  BY DEF SettingsInit, Placed, ReadIsSeen, Past
<1>6. ASSUME NEW c \in Client PROVE ClientSeen(c)
  BY <1>2, SettingsAssumption DEF SettingsInit, NoClients, ClientSeen, SettingsAssumption
<1>7. QED
  BY <1>3, <1>4, <1>5, <1>6 DEF IInv, Holds, Swapped

(* BeginTx.                                                                *)
LEMMA BeginTxIInv ==
  ASSUME IInv, NEW s \in Save, BeginTx(s)
  PROVE  IInv'
<1> USE DEF BeginTx, process, clients
<1>1. Frame(s)
  BY DEF Frame, Doomed, Usable, IInv, SettingsTypeOK
<1>2. SettingsTypeOK'
  BY DEF IInv, SettingsTypeOK, Settled
<1>3. SavedSeen' /\ StoredTimeoutsParse' /\ BootIsSeen'
  <2>1. at'[s] # "saved"
    BY DEF IInv, SettingsTypeOK
  <2>2. QED
    BY <1>1, <2>1, FrameSaved
<1>4. Placed(s)' /\ ~Past(s)'
  BY DEF IInv, SettingsTypeOK, Placed, Past
<1>5. QED
  BY <1>1, <1>2, <1>3, <1>4, FrameIInv DEF ReadIsSeen, Holds, Swapped

(* The client leaves.                                                      *)
LEMMA ClientLeavesIInv ==
  ASSUME IInv, NEW s \in Save, ClientLeaves(s)
  PROVE  IInv'
<1> USE DEF ClientLeaves, process, clients
<1>1. Frame(s)
  BY DEF Frame, Doomed, Usable, IInv, SettingsTypeOK
<1>2. SettingsTypeOK'
  BY DEF IInv, SettingsTypeOK
<1>3. SavedSeen' /\ StoredTimeoutsParse' /\ BootIsSeen'
  BY <1>1, FrameSaved
<1>4. ~Usable(s)' /\ at'[s] # "idle"
  BY DEF IInv, SettingsTypeOK, Usable
<1>5. Placed(s)' /\ ReadIsSeen(s)'
  BY <1>4 DEF IInv, Placed, ReadIsSeen, ReadOf, Past
<1>6. QED
  BY <1>1, <1>2, <1>3, <1>4, <1>5, FrameIInv DEF Holds

(* database/sql rolls back.                                                *)
LEMMA AwaitDoneIInv ==
  ASSUME IInv, NEW s \in Save, AwaitDone(s)
  PROVE  IInv'
<1> USE DEF AwaitDone, Release, process, clients
<1>1. Frame(s)
  BY DEF Frame, Doomed, Usable, IInv, SettingsTypeOK
<1>2. SettingsTypeOK'
  BY SettingsAssumption DEF IInv, SettingsTypeOK
<1>3. SavedSeen' /\ StoredTimeoutsParse' /\ BootIsSeen'
  BY <1>1, FrameSaved
<1>4. ~Usable(s)' /\ at'[s] # "idle"
  BY DEF IInv, SettingsTypeOK, Usable, Placed, Settled
<1>5. Placed(s)' /\ ReadIsSeen(s)'
  BY <1>4 DEF IInv, Placed, ReadIsSeen, ReadOf, Past
<1>6. QED
  BY <1>1, <1>2, <1>3, <1>4, <1>5, FrameIInv DEF Holds

(* The pool closes a connection that still has the lock.                   *)
LEMMA CloseConnectionIInv ==
  ASSUME IInv, NEW s \in Save, CloseConnection(s)
  PROVE  IInv'
<1> USE DEF CloseConnection, process, clients, request
<1>1. Frame(s)
  BY DEF Frame, Doomed, Usable, IInv, SettingsTypeOK
<1>2. SettingsTypeOK'
  BY DEF IInv, SettingsTypeOK
<1>3. SavedSeen' /\ StoredTimeoutsParse' /\ BootIsSeen'
  BY <1>1, FrameSaved
<1>4. ~Usable(s)'
  BY DEF Usable
<1>5. Placed(s)' /\ ReadIsSeen(s)'
  BY <1>4 DEF IInv, Placed, ReadIsSeen, ReadOf, Past
<1>6. QED
  BY <1>1, <1>2, <1>3, <1>4, <1>5, FrameIInv DEF Holds

(* The UPDATE takes a free lock, or fails; its table is then the one the   *)
(* request sees.                                                           *)
LEMMA UpdateIInv ==
  ASSUME IInv, NEW s \in Save, Update(s)
  PROVE  IInv'
<1> USE DEF Update, process, clients
<1>1. SettingsTypeOK /\ at[s] = "update" /\ Placed(s) /\ s # NoSave
  BY SettingsAssumption DEF IInv, SettingsAssumption
<1>2. read'[s] = <<>> /\ at'[s] \in {"read", "failed"} /\ Len(read'[s]) = 0
  BY <1>1, EmptySeq DEF SettingsTypeOK, Placed
<1>3. at'[s] = "read" => saw'[s] = View(s) /\ writer' = s
  BY <1>1 DEF SettingsTypeOK
<1>4. Frame(s)
  <2>1. Doomed(s) => Doomed(s)'
    BY <1>1, <1>2 DEF Doomed, Usable, SettingsTypeOK
  <2>2. \A t \in Save \cup {NoSave} : saw'[t] = saw[t] \/ (t = s /\ at[s] = "update")
    BY <1>1 DEF SettingsTypeOK
  <2>3. \A t \in Save \ {s} : at'[t] = at[t] /\ (writer = t => writer' = t)
    BY <1>1, SettingsAssumption DEF SettingsTypeOK, SettingsAssumption
  <2>4. QED
    BY <1>1, <1>2, <2>1, <2>2, <2>3 DEF Frame
<1>5. SettingsTypeOK'
  <2>1. /\ at' \in [Save -> {"idle", "update", "read", "swap", "commit"} \cup Settled]
        /\ writer' \in Save \cup {NoSave}
    BY <1>1 DEF SettingsTypeOK, Settled
  <2>2. saw' \in [Save \cup {NoSave} -> [Name -> Value]]
    <3>1. View(s) \in [Name -> Value]
      BY <1>1, ViewType
    <3>2. saw' = saw \/ saw' = [saw EXCEPT ![s] = View(s)]
      OBVIOUS
    <3>3. saw \in [Save \cup {NoSave} -> [Name -> Value]]
      BY <1>1 DEF SettingsTypeOK
    <3>4. QED
      BY <3>1, <3>2, <3>3
  <2>3. ASSUME NEW t \in Save
        PROVE  /\ Len(read'[t]) <= 7
               /\ at'[t] = "read" => Len(read'[t]) < 7
               /\ at'[t] = "swap" => Len(read'[t]) \in {3, 5, 7}
    BY <1>1, <1>2 DEF SettingsTypeOK
  <2>4. QED
    BY <1>1, <2>1, <2>2, <2>3 DEF SettingsTypeOK
<1>6. SavedSeen' /\ StoredTimeoutsParse' /\ BootIsSeen'
  BY <1>2, <1>4, FrameSaved
<1>7. ReadIsSeen(s)'
  BY <1>2 DEF ReadIsSeen, ReadOf
<1>8. Placed(s)'
  <2>1. View(s)' = View(s)
    BY DEF View
  <2>2. Past(s)' => at'[s] = "read"
    BY <1>2 DEF Past
  <2>3. ~up => at[s] # "update"
    BY <1>1 DEF Placed
  <2>4. QED
    BY <1>1, <1>2, <1>3, <2>1, <2>2, <2>3 DEF Placed
<1>9. ASSUME NEW c \in Client PROVE ~Swapped(s, c)'
  <2>1. Needs(c) \in {3, 5, 7} /\ Len(read'[s]) = 0
    BY <1>2, NeedsFacts
  <2>2. QED
    BY <2>1 DEF Swapped
<1>10. QED
  BY <1>4, <1>5, <1>6, <1>7, <1>8, <1>9, FrameIInv DEF Holds

\* A value that was read, or not, is the one of the table or empty.
LEMMA ReadValueFacts ==
  ASSUME IInv, NEW s \in Save, at[s] = "read", NEW n \in Name
  PROVE  ReadValue(s, n) = Blank \/ ReadValue(s, n) = saw[s][n]
<1>1. CASE Usable(s)
  <2>1. saw[s] = View(s) /\ View(s) \in [Name -> Value]
    BY <1>1, ViewType DEF IInv, Placed, Past
  <2>2. QED
    BY <1>1, <2>1 DEF ReadValue, GetSetting
<1>2. CASE ~Usable(s)
  BY <1>2 DEF ReadValue
<1>3. QED
  BY <1>1, <1>2

(* A setting of the table, or an empty one, is appended to those read, or  *)
(* the request ends.                                                       *)
LEMMA GoOnIInv ==
  ASSUME IInv, NEW s \in Save, at[s] = "read",
         NEW new, new = Blank \/ new = saw[s][ReadOrder[Len(read[s]) + 1]],
         GoOn(s, Append(read[s], new)),
         outages' \in 0..MaxOutages,
         UNCHANGED <<stored, process, clients, form, left, saw>>
  PROVE  IInv'
<1> USE DEF process, clients
<1>1. SettingsTypeOK /\ Placed(s) /\ ReadIsSeen(s) /\ Past(s)
  BY DEF IInv, Past
<1>2. /\ read[s] \in Seq(Value) /\ Len(read[s]) \in Nat /\ Len(read[s]) < 7
      /\ saw[s] \in [Name -> Value]
  BY <1>1 DEF SettingsTypeOK
<1> DEFINE values == Append(read[s], new)
<1>3. ReadOf(read[s], saw[s])
  BY <1>1 DEF ReadIsSeen
<1>4. /\ values \in Seq(Value)
      /\ Len(values) = Len(read[s]) + 1
      /\ Parsed(values) => ReadOf(values, saw[s])
  BY <1>2, <1>3, ReadOneMore
<1>5. GoOn(s, values)
  OBVIOUS
<1> HIDE DEF values
<1>6. \/ /\ Parsed(values)
         /\ read' = [read EXCEPT ![s] = values]
         /\ at' = [at EXCEPT ![s] = IF Len(values) \in {3, 5, 7} THEN "swap" ELSE "read"]
         /\ UNCHANGED <<tx, writer>>
      \/ /\ read' = [read EXCEPT ![s] = <<>>]
         /\ at' = [at EXCEPT ![s] = "failed"]
         /\ tx' = [tx EXCEPT ![s] = "done"]
         /\ writer' = IF writer = s THEN NoSave ELSE writer
  BY <1>5 DEF GoOn, Release
<1>7. \/ at'[s] = "failed" /\ read'[s] = <<>>
      \/ /\ at'[s] \in {"read", "swap"} /\ read'[s] = values /\ Parsed(values)
         /\ at'[s] = "swap" <=> Len(values) \in {3, 5, 7}
         /\ UNCHANGED <<tx, writer>>
  <2>1. at \in [Save -> {"idle", "update", "read", "swap", "commit"} \cup Settled]
        /\ read \in [Save -> Seq(Value)]
    BY <1>1 DEF SettingsTypeOK
  <2>2. QED
    BY <1>6, <2>1
<1>8. Frame(s)
  <2>1. Doomed(s) => Doomed(s)'
    BY <1>1, <1>6, <1>7 DEF Doomed, Usable, SettingsTypeOK
  <2>2. QED
    BY <1>1, <1>6, <1>7, <2>1 DEF Frame, SettingsTypeOK
<1>9. SettingsTypeOK'
  <2>1. /\ at' \in [Save -> {"idle", "update", "read", "swap", "commit"} \cup Settled]
        /\ tx' \in [Save -> {"none", "open", "done"}]
        /\ writer' \in Save \cup {NoSave}
    BY <1>1, <1>6 DEF SettingsTypeOK, Settled
  <2>2. read' \in [Save -> Seq(Value)]
    <3>1. read \in [Save -> Seq(Value)] /\ <<>> \in Seq(Value)
      BY <1>1, EmptySeq DEF SettingsTypeOK
    <3>2. QED
      BY <1>4, <1>6, <3>1
  <2>3. /\ Len(read'[s]) <= 7
        /\ at'[s] = "read" => Len(read'[s]) < 7
        /\ at'[s] = "swap" => Len(read'[s]) \in {3, 5, 7}
    <3>1. CASE at'[s] = "failed" /\ read'[s] = <<>>
      BY <3>1
    <3>2. CASE /\ at'[s] \in {"read", "swap"} /\ read'[s] = values
               /\ at'[s] = "swap" <=> Len(values) \in {3, 5, 7}
      <4>1. Len(values) \in Nat /\ Len(values) <= 7
        BY <1>2, <1>4
      <4>2. \A k \in Nat : k <= 7 /\ k \notin {3, 5, 7} => k < 7
        OBVIOUS
      <4>3. QED
        BY <3>2, <4>1, <4>2
    <3>3. QED
      BY <1>7, <3>1, <3>2
  <2>4. ASSUME NEW t \in Save \ {s}
        PROVE  /\ Len(read'[t]) <= 7
               /\ at'[t] = "read" => Len(read'[t]) < 7
               /\ at'[t] = "swap" => Len(read'[t]) \in {3, 5, 7}
    BY <1>1, <1>8 DEF SettingsTypeOK, Frame
  <2>5. QED
    BY <1>1, <2>1, <2>2, <2>3, <2>4 DEF SettingsTypeOK
<1>10. SavedSeen' /\ StoredTimeoutsParse' /\ BootIsSeen'
  BY <1>7, <1>8, FrameSaved
<1>11. /\ Past(s)' => Parsed(values) /\ UNCHANGED writer /\ read'[s] = values
       /\ Usable(s)' => Usable(s)
  BY <1>1, <1>6, <1>7 DEF Past, Usable, SettingsTypeOK
<1>12. Placed(s)'
  <2>1. View(s)' = View(s)
    BY DEF View
  <2>2. at'[s] \notin {"idle", "update", "commit"} /\ up
    BY <1>1, <1>7 DEF Placed
  <2>3. QED
    BY <1>1, <1>11, <2>1, <2>2 DEF Placed
<1>13. ReadIsSeen(s)'
  BY <1>4, <1>11 DEF ReadIsSeen, ReadOf
<1>14. ASSUME NEW c \in Client PROVE Holds(s, c)'
  <2>1. Swapped(s, c)' => Swapped(s, c)
    <3>1. Needs(c) \in {3, 5, 7}
      BY NeedsFacts
    <3>2. SUFFICES ASSUME Past(s)', Len(values) >= Needs(c),
                          at'[s] = "swap" => Len(values) # Needs(c)
                   PROVE  Len(read[s]) >= Needs(c)
      BY <1>1, <1>11 DEF Swapped
    <3>3. Len(values) # Needs(c)
      BY <1>7, <3>1, <3>2 DEF Past
    <3>4. QED
      BY <1>2, <1>4, <3>1, <3>2, <3>3
  <2>2. QED
    BY <1>8, <1>11, <2>1, HoldsStays
<1>15. QED
  BY <1>8, <1>9, <1>10, <1>12, <1>13, <1>14, FrameIInv

(* A read takes a setting of the table, or fails.                          *)
LEMMA ReadSettingIInv ==
  ASSUME IInv, NEW s \in Save, ReadSetting(s)
  PROVE  IInv'
<1>1. SettingsTypeOK /\ at[s] = "read"
  BY DEF IInv, ReadSetting
<1>2. read[s] \in Seq(Value) /\ Len(read[s]) \in Nat /\ Len(read[s]) < 7
  BY <1>1 DEF SettingsTypeOK
<1> DEFINE n == ReadOrder[Len(read[s]) + 1]
<1>3. n \in Name
  <2>1. \A k \in Nat : k < 7 => k + 1 \in 1..7
    OBVIOUS
  <2>2. QED
    BY <1>2, <2>1, OrderFacts
<1>4. outages' \in 0..MaxOutages
  BY <1>1, SettingsAssumption DEF ReadSetting, ReadFails, SettingsTypeOK, SettingsAssumption
<1>5. UNCHANGED <<stored, process, clients, form, left, saw>>
  BY DEF ReadSetting
<1>6. CASE GoOn(s, Append(read[s], ReadValue(s, n)))
  <2>1. ReadValue(s, n) = Blank \/ ReadValue(s, n) = saw[s][n]
    BY <1>1, <1>3, ReadValueFacts
  <2>2. QED
    BY <1>1, <1>4, <1>5, <1>6, <2>1, GoOnIInv
<1>7. CASE GoOn(s, Append(read[s], Blank))
  BY <1>1, <1>4, <1>5, <1>7, GoOnIInv
<1>8. QED
  BY <1>6, <1>7 DEF ReadSetting

LEMMA ReadyFacts ==
  ASSUME NEW s, Len(read[s]) \in {3, 5, 7}
  PROVE  /\ Ready(s) \in Client
         /\ Needs(Ready(s)) = Len(read[s])
         /\ \A c \in Client : Needs(c) = Len(read[s]) => c = Ready(s)
<1>1. Needs("registry") = 3 /\ Needs("watchtower") = 5 /\ Needs("deviceFinder") = 7
  BY DEF Needs
<1>2. /\ Len(read[s]) = 3 => Ready(s) = "registry"
      /\ Len(read[s]) = 5 => Ready(s) = "watchtower"
      /\ Len(read[s]) = 7 => Ready(s) = "deviceFinder"
  BY DEF Ready
<1>3. QED
  BY <1>1, <1>2 DEF Client

(* A client is built of what was read of the table the request saw.        *)
LEMMA SwapIInv ==
  ASSUME IInv, NEW s \in Save, Swap(s)
  PROVE  IInv'
<1>1. /\ SettingsTypeOK /\ at[s] = "swap" /\ Placed(s) /\ ReadIsSeen(s) /\ Past(s)
      /\ s # NoSave
  BY SettingsAssumption DEF IInv, Swap, Past, SettingsAssumption
<1>2. read[s] \in Seq(Value) /\ Len(read[s]) \in {3, 5, 7}
  BY <1>1 DEF SettingsTypeOK
<1> DEFINE c0 == Ready(s)
<1>3. /\ c0 \in Client
      /\ Needs(c0) = Len(read[s])
      /\ \A c \in Client : Needs(c) = Len(read[s]) => c = c0
  BY <1>2, ReadyFacts
<1>4. /\ live' = [live EXCEPT ![c0] = Built(c0, read[s])]
      /\ builder' = [builder EXCEPT ![c0] = s]
      /\ at' = [at EXCEPT ![s] = IF Len(read[s]) = 7 THEN "commit" ELSE "read"]
      /\ UNCHANGED <<stored, writer, up, boot, outages, form, left, tx, read, saw>>
  BY DEF Swap, process
<1> HIDE DEF c0
<1>5. /\ at'[s] \in {"read", "commit"}
      /\ at'[s] = "commit" <=> Len(read[s]) = 7
  BY <1>1, <1>4 DEF SettingsTypeOK
<1>6. Usable(s)' = Usable(s) /\ (Usable(s) => writer = s)
  BY <1>1, <1>4 DEF Usable, Placed
<1>7. Frame(s)
  <2>1. Doomed(s) => Doomed(s)'
    BY <1>1, <1>4, <1>5, <1>6 DEF Doomed
  <2>2. writer = s \/ Doomed(s)'
    BY <1>5, <1>6 DEF Doomed
  <2>3. ASSUME NEW c \in Client
        PROVE  (live'[c] = live[c] /\ builder'[c] = builder[c]) \/ builder'[c] = s
    BY <1>1, <1>3, <1>4 DEF SettingsTypeOK
  <2>4. QED
    BY <1>1, <1>4, <1>5, <2>1, <2>2, <2>3 DEF Frame, SettingsTypeOK
<1>8. /\ Built(c0, read[s]) \in Seq(Value \cup {ZeroTime})
      /\ \A i \in DOMAIN Built(c0, read[s]) :
           Built(c0, read[s])[i] \in {Blank, Built(c0, AllOf(saw[s]))[i]}
  <2>1. saw[s] \in [Name -> Value] /\ ReadOf(read[s], saw[s])
    BY <1>1 DEF SettingsTypeOK, ReadIsSeen
  <2>2. Len(read[s]) >= Needs(c0)
    BY <1>2, <1>3
  <2>3. QED
    BY <1>2, <1>3, <2>1, <2>2, BuiltOfTable
<1>9. SettingsTypeOK'
  <2>1. live' \in [Client -> Seq(Value \cup {ZeroTime})]
    BY <1>1, <1>4, <1>8 DEF SettingsTypeOK
  <2>2. /\ builder' \in [Client -> Save \cup {NoSave}]
        /\ at' \in [Save -> {"idle", "update", "read", "swap", "commit"} \cup Settled]
    BY <1>1, <1>4 DEF SettingsTypeOK, Settled
  <2>3. ASSUME NEW t \in Save
        PROVE  /\ Len(read'[t]) <= 7
               /\ at'[t] = "read" => Len(read'[t]) < 7
               /\ at'[t] = "swap" => Len(read'[t]) \in {3, 5, 7}
    <3>1. CASE t = s
      <4>1. \A k \in {3, 5, 7} : k <= 7 /\ (k # 7 => k < 7)
        OBVIOUS
      <4>2. QED
        BY <1>2, <1>4, <1>5, <3>1, <4>1
    <3>2. CASE t # s
      BY <1>1, <1>4, <3>2 DEF SettingsTypeOK
    <3>3. QED
      BY <3>1, <3>2
  <2>4. QED
    BY <1>1, <1>4, <2>1, <2>2, <2>3 DEF SettingsTypeOK
<1>10. SavedSeen' /\ StoredTimeoutsParse' /\ BootIsSeen'
  <2>1. stored' = stored /\ at'[s] # "saved"
    BY <1>4, <1>5
  <2>2. QED
    BY <1>7, <2>1, FrameSaved
<1>11. Placed(s)'
  <2>1. View(s)' = View(s)
    BY <1>4 DEF View
  <2>2. QED
    BY <1>1, <1>4, <1>5, <1>6, <2>1 DEF Placed, Past
<1>12. ReadIsSeen(s)'
  BY <1>1, <1>4 DEF ReadIsSeen, ReadOf
<1>13. ASSUME NEW c \in Client, c = c0
       PROVE  builder'[c] = s /\ live'[c] = Built(c, read[s])
  BY <1>1, <1>3, <1>4, <1>13 DEF SettingsTypeOK
<1>14. ASSUME NEW c \in Client, c = c0 PROVE ClientSeen(c)'
  <2>1. builder'[c] = s /\ live'[c] = Built(c, read[s]) /\ saw' = saw
    BY <1>4, <1>13, <1>14
  <2>2. Built(c, AllOf(saw[builder[c]]))' = Built(c, AllOf(saw[s]))
    BY <2>1 DEF Built, AllOf, NewRegistry, NewWatchtower, NewClient
  <2>3. \A i \in DOMAIN live'[c] :
          live'[c][i] \in {Blank, Built(c, AllOf(saw[s]))[i]}
    BY <1>8, <1>14, <2>1
  <2>4. up /\ up' = up
    BY <1>1, <1>4 DEF Placed
  <2>5. QED
    BY <1>5, <2>1, <2>2, <2>3, <2>4 DEF ClientSeen
<1>15. ASSUME NEW c \in Client, Usable(s)', Swapped(s, c)' PROVE Holds(s, c)'
  <2>1. CASE c = c0
    BY <1>13, <2>1 DEF Holds
  <2>2. CASE c # c0
    <3>1. Swapped(s, c)' => Swapped(s, c)
      BY <1>1, <1>3, <1>4, <2>2 DEF Swapped
    <3>2. builder'[c] = builder[c]
      BY <1>1, <1>4, <2>2 DEF SettingsTypeOK
    <3>3. QED
      BY <1>6, <1>7, <3>1, <3>2, HoldsStays
  <2>3. QED
    BY <2>1, <2>2
<1>16. ASSUME NEW c \in Client
       PROVE  (live'[c] = live[c] /\ builder'[c] = builder[c]) \/ ClientSeen(c)'
  <2>1. CASE c = c0
    BY <1>14, <2>1
  <2>2. CASE c # c0
    BY <1>1, <1>4, <2>2 DEF SettingsTypeOK
  <2>3. QED
    BY <2>1, <2>2
<1>17. QED
  BY <1>7, <1>9, <1>10, <1>11, <1>12, <1>15, <1>16, FrameIInv DEF Holds

(* The commit stores the table the request saw, of which every client was  *)
(* built that nobody has replaced.                                         *)
LEMMA CommitIInv ==
  ASSUME IInv, NEW s \in Save, Commit(s)
  PROVE  IInv'
<1>1. SettingsTypeOK /\ at[s] = "commit" /\ Placed(s) /\ ReadIsSeen(s) /\ Past(s) /\ up
  BY DEF IInv, Commit, Placed, Past
<1>2. /\ read' = [read EXCEPT ![s] = <<>>]
      /\ UNCHANGED <<up, boot, outages, live, form, left, builder, saw>>
      /\ \/ /\ Usable(s)
            /\ stored' = View(s)
            /\ at' = [at EXCEPT ![s] = "saved"]
            /\ tx' = [tx EXCEPT ![s] = "done"]
            /\ writer' = IF writer = s THEN NoSave ELSE writer
         \/ /\ at' \in {[at EXCEPT ![s] = "failed"], [at EXCEPT ![s] = "busy"]}
            /\ tx' = [tx EXCEPT ![s] = "done"]
            /\ writer' \in {writer, IF writer = s THEN NoSave ELSE writer}
            /\ UNCHANGED stored
         \/ /\ ~Usable(s)
            /\ at' = [at EXCEPT ![s] = "failed"]
            /\ UNCHANGED <<stored, tx, writer>>
  BY DEF Commit, Release, process, clients
<1>3. at'[s] \in Settled /\ ~Usable(s)' /\ ~Past(s)'
  BY <1>1, <1>2 DEF SettingsTypeOK, Settled, Usable, Past
<1>4. at'[s] = "saved" => Usable(s) /\ stored' = View(s)
  BY <1>1, <1>2 DEF SettingsTypeOK
<1>5. Frame(s)
  <2>1. stored' = stored \/ writer = s
    BY <1>1, <1>2 DEF Placed
  <2>2. Doomed(s) => Doomed(s)'
    BY <1>1, <1>3, <1>4 DEF Doomed, Settled
  <2>3. QED
    BY <1>1, <1>2, <1>3, <2>1, <2>2 DEF Frame, SettingsTypeOK, Settled
<1>6. SettingsTypeOK'
  <2>1. stored' \in [Name -> Value]
    BY <1>1, <1>2, ViewType DEF SettingsTypeOK
  <2>2. /\ at' \in [Save -> {"idle", "update", "read", "swap", "commit"} \cup Settled]
        /\ tx' \in [Save -> {"none", "open", "done"}]
        /\ writer' \in Save \cup {NoSave}
    BY <1>1, <1>2 DEF SettingsTypeOK, Settled
  <2>3. read' \in [Save -> Seq(Value)]
    BY <1>1, <1>2, EmptySeq DEF SettingsTypeOK
  <2>4. ASSUME NEW t \in Save
        PROVE  /\ Len(read'[t]) <= 7
               /\ at'[t] = "read" => Len(read'[t]) < 7
               /\ at'[t] = "swap" => Len(read'[t]) \in {3, 5, 7}
    <3>1. CASE t = s
      <4>1. read'[s] = <<>> /\ at'[s] # "read" /\ at'[s] # "swap"
        BY <1>1, <1>2, <1>3 DEF SettingsTypeOK, Settled
      <4>2. QED
        BY <3>1, <4>1
    <3>2. CASE t # s
      BY <1>1, <1>5, <3>2 DEF SettingsTypeOK, Frame
    <3>3. QED
      BY <3>1, <3>2
  <2>5. QED
    BY <1>1, <1>2, <2>1, <2>2, <2>3, <2>4 DEF SettingsTypeOK
<1>7. Placed(s)' /\ ReadIsSeen(s)' /\ \A c \in Client : Holds(s, c)'
  BY <1>3 DEF Placed, ReadIsSeen, Holds, Settled
<1>8. CASE at'[s] # "saved"
  <2>1. stored' = stored
    BY <1>1, <1>2, <1>8 DEF SettingsTypeOK
  <2>2. SavedSeen' /\ StoredTimeoutsParse' /\ BootIsSeen'
    BY <1>5, <1>8, <2>1, FrameSaved
  <2>3. QED
    BY <1>2, <1>5, <1>6, <1>7, <2>2, FrameIInv
<1>9. CASE at'[s] = "saved"
  <2>1. /\ Usable(s) /\ stored' = View(s) /\ Len(read[s]) = 7
        /\ saw[s] = View(s) /\ ReadOf(read[s], saw[s])
    BY <1>1, <1>4, <1>9 DEF Placed, ReadIsSeen
  <2>2. StoredTimeoutsParse'
    <3>1. ASSUME NEW i \in {1, 2} PROVE View(s)[ReadOrder[i]] \in Duration
      <4>1. i \in 1..Len(read[s]) /\ i <= 2
        BY <2>1
      <4>2. read[s][i] \in Duration /\ read[s][i] \in {Blank, View(s)[ReadOrder[i]]}
        BY <2>1, <4>1 DEF ReadOf
      <4>3. QED
        BY <4>2, SettingsAssumption DEF SettingsAssumption
    <3>2. QED
      BY <2>1, <3>1, OrderFacts DEF StoredTimeoutsParse, Parse
  <2>3. BootIsSeen'
    BY <1>1, <1>2 DEF IInv, BootIsSeen, ReadOf
  <2>4. ASSUME NEW c \in Client, builder[c] = NoSave \/ at'[builder[c]] = "saved"
        PROVE  saw[builder[c]] = stored'
    <3>1. Swapped(s, c)
      BY <1>1, <2>1, NeedsFacts DEF Swapped
    <3>2. ASSUME NEW t \in Save, builder[c] = t, Doomed(t) PROVE FALSE
      <4>1. t # s /\ t # NoSave /\ at[t] # "saved"
        BY <2>1, <3>2, SettingsAssumption DEF Doomed, SettingsAssumption
      <4>2. at'[t] = at[t]
        BY <1>5, <4>1 DEF Frame
      <4>3. QED
        BY <2>4, <3>2, <4>1, <4>2
    <3>3. builder[c] = s
      BY <2>1, <3>1, <3>2 DEF IInv, Holds
    <3>4. QED
      BY <2>1, <3>3
  <2>5. SavedSeen'
    BY <1>2, <2>4 DEF SavedSeen
  <2>6. QED
    BY <1>2, <1>5, <1>6, <1>7, <2>2, <2>3, <2>5, FrameIInv
<1>10. QED
  BY <1>8, <1>9

(* The process dies.                                                       *)
LEMMA CrashIInv ==
  ASSUME IInv, Crash
  PROVE  IInv'
<1>1. SettingsTypeOK
  BY DEF IInv
<1>2. /\ <<>> \in Seq(Value) /\ <<>> \in Seq(Value \cup {ZeroTime})
      /\ Len(<<>>) = 0 /\ DOMAIN <<>> = {}
  BY EmptySeq
<1>3. ASSUME NEW s \in Save
      PROVE  /\ ~Past(s)' /\ Placed(s)'
             /\ at'[s] \in {at[s], "failed"}
             /\ at'[s] \notin {"update", "read", "swap", "commit"}
             /\ read'[s] = <<>>
  <2>1. /\ at'[s] \in {"idle"} \cup Settled
        /\ at'[s] \in {at[s], "failed"}
        /\ at'[s] = "idle" => at[s] = "idle"
        /\ read'[s] = <<>> /\ left' = left
        /\ tx[s] = "none" => tx'[s] = "none"
    BY <1>1 DEF SettingsTypeOK, Crash, Settled
  <2>2. QED
    BY <2>1 DEF IInv, Past, Placed, Settled
<1>4. SettingsTypeOK'
  <2>1. /\ live' \in [Client -> Seq(Value \cup {ZeroTime})]
        /\ builder' \in [Client -> Save \cup {NoSave}]
        /\ boot' \in Seq(Value) /\ Len(boot') < 7
        /\ read' \in [Save -> Seq(Value)]
    BY <1>2 DEF Crash, NoClients
  <2>2. /\ at' \in [Save -> {"idle", "update", "read", "swap", "commit"} \cup Settled]
        /\ tx' \in [Save -> {"none", "open", "done"}]
        /\ writer' \in Save \cup {NoSave}
        /\ up' \in BOOLEAN
    BY <1>1 DEF SettingsTypeOK, Crash, Settled
  <2>3. \A t \in Save : Len(read'[t]) = 0 /\ at'[t] # "read" /\ at'[t] # "swap"
    BY <1>2, <1>3
  <2>4. UNCHANGED <<stored, outages, form, left, saw>>
    BY DEF Crash
  <2>5. QED
    BY <1>1, <2>1, <2>2, <2>3, <2>4 DEF SettingsTypeOK
<1>5. StoredTimeoutsParse' /\ SavedSeen' /\ BootIsSeen'
  BY EmptyIsRead DEF IInv, Crash, StoredTimeoutsParse, Parse, SavedSeen, BootIsSeen, ReadOf
<1>6. ASSUME NEW c \in Client PROVE ClientSeen(c)'
  BY <1>2, SettingsAssumption DEF Crash, NoClients, ClientSeen, SettingsAssumption
<1>7. QED
  BY <1>3, <1>4, <1>5, <1>6 DEF IInv, ReadIsSeen, Holds, Swapped

(* A start has read one more setting; with the last the clients are those  *)
(* of the table.                                                           *)
LEMMA StartIInv ==
  ASSUME IInv, ~up,
         NEW new, new = Blank \/ new = stored[ReadOrder[Len(boot) + 1]],
         Start(Append(boot, new)),
         outages' \in 0..MaxOutages,
         UNCHANGED <<stored, writer, builder, request>>
  PROVE  IInv'
<1> USE DEF request
<1>1. SettingsTypeOK /\ BootIsSeen
  BY DEF IInv
<1>2. /\ boot \in Seq(Value) /\ Len(boot) \in Nat /\ Len(boot) < 7
      /\ stored \in [Name -> Value] /\ ReadOf(boot, stored)
  BY <1>1 DEF SettingsTypeOK, BootIsSeen
<1> DEFINE values == Append(boot, new)
<1>3. /\ values \in Seq(Value)
      /\ Len(values) = Len(boot) + 1
      /\ Parsed(values) => ReadOf(values, stored)
  BY <1>2, ReadOneMore
<1>4. Start(values)
  OBVIOUS
<1> HIDE DEF values
<1>5. ASSUME NEW s \in Save
      PROVE  /\ ~Past(s)' /\ Placed(s)' /\ ReadIsSeen(s)'
             /\ \A c \in Client : Holds(s, c)'
  <2>1. ~Past(s) /\ at[s] # "update" /\ Placed(s)
    BY DEF IInv, Placed
  <2>2. ~Past(s)'
    BY <2>1 DEF Past
  <2>3. Placed(s)'
    BY <2>1, <2>2 DEF Placed
  <2>4. QED
    BY <2>2, <2>3 DEF ReadIsSeen, Holds, Swapped
<1>6. StoredTimeoutsParse'
  BY DEF IInv, StoredTimeoutsParse, Parse
<1>7. \A c \in Client : builder[c] = NoSave
  BY DEF IInv, ClientSeen
<1>8. CASE ~Parsed(values) \/ Len(values) < 7
  <2>1. /\ boot' = IF Parsed(values) THEN values ELSE <<>>
        /\ UNCHANGED <<up, live, saw>>
    BY <1>4, <1>8 DEF Start
  <2>2. boot' \in Seq(Value) /\ Len(boot') < 7 /\ ReadOf(boot', stored)
    BY <1>3, <1>8, <2>1, EmptyIsRead
  <2>3. SettingsTypeOK'
    BY <1>1, <2>1, <2>2 DEF SettingsTypeOK
  <2>4. BootIsSeen' /\ SavedSeen'
    BY <2>1, <2>2 DEF BootIsSeen, SavedSeen, ReadOf
  <2>5. ASSUME NEW c \in Client PROVE ClientSeen(c)'
    <3>1. ClientSeen(c)
      BY DEF IInv
    <3>2. Built(c, AllOf(saw[builder[c]]))' = Built(c, AllOf(saw[builder[c]]))
      BY <2>1 DEF Built, AllOf, NewRegistry, NewWatchtower, NewClient
    <3>3. QED
      BY <2>1, <3>1, <3>2 DEF ClientSeen
  <2>6. QED
    BY <1>5, <1>6, <2>3, <2>4, <2>5 DEF IInv
<1>9. CASE Parsed(values) /\ Len(values) >= 7
  <2>1. /\ up' = TRUE /\ boot' = <<>>
        /\ live' = [c \in Client |-> Built(c, values)]
        /\ saw' = [saw EXCEPT ![NoSave] = stored]
    BY <1>2, <1>3, <1>4, <1>9 DEF Start
  <2>2. saw'[NoSave] = stored
    BY <1>1, <2>1 DEF SettingsTypeOK
  <2>3. ASSUME NEW c \in Client
        PROVE  /\ Built(c, values) \in Seq(Value \cup {ZeroTime})
               /\ \A i \in DOMAIN Built(c, values) :
                    Built(c, values)[i] \in {Blank, Built(c, AllOf(stored))[i]}
    <3>1. Len(values) >= Needs(c)
      BY <1>2, <1>3, <1>9, NeedsFacts
    <3>2. QED
      BY <1>2, <1>3, <1>9, <3>1, BuiltOfTable
  <2>4. SettingsTypeOK'
    <3>1. live' \in [Client -> Seq(Value \cup {ZeroTime})]
      BY <2>1, <2>3
    <3>2. saw' \in [Save \cup {NoSave} -> [Name -> Value]]
      BY <1>1, <1>2, <2>1 DEF SettingsTypeOK
    <3>3. boot' \in Seq(Value) /\ Len(boot') < 7
      BY <2>1, EmptyIsRead
    <3>4. QED
      BY <1>1, <2>1, <3>1, <3>2, <3>3 DEF SettingsTypeOK
  <2>5. BootIsSeen' /\ SavedSeen'
    BY <1>7, <2>1, <2>2 DEF BootIsSeen, SavedSeen, ReadOf
  <2>6. ASSUME NEW c \in Client PROVE ClientSeen(c)'
    <3>1. builder'[c] = NoSave /\ live'[c] = Built(c, values)
      BY <1>7, <2>1
    <3>2. Built(c, AllOf(saw[builder[c]]))' = Built(c, AllOf(stored))
      BY <2>2, <3>1 DEF Built, AllOf, NewRegistry, NewWatchtower, NewClient
    <3>3. \A i \in DOMAIN live'[c] :
            live'[c][i] \in {Blank, Built(c, AllOf(stored))[i]}
      BY <2>3, <3>1
    <3>4. up' /\ NoSave \notin Save
      BY <2>1, SettingsAssumption DEF SettingsAssumption
    <3>5. QED
      BY <3>1, <3>2, <3>3, <3>4 DEF ClientSeen
  <2>7. QED
    BY <1>5, <1>6, <2>4, <2>5, <2>6 DEF IInv
<1>10. QED
  BY <1>2, <1>3, <1>8, <1>9

LEMMA NewViewFinderIInv ==
  ASSUME IInv, NewViewFinder
  PROVE  IInv'
<1>1. SettingsTypeOK
  BY DEF IInv
<1>2. boot \in Seq(Value) /\ Len(boot) \in Nat /\ Len(boot) < 7
      /\ stored \in [Name -> Value]
  BY <1>1 DEF SettingsTypeOK
<1> DEFINE n == ReadOrder[Len(boot) + 1]
<1>3. n \in Name
  <2>1. \A k \in Nat : k < 7 => k + 1 \in 1..7
    OBVIOUS
  <2>2. QED
    BY <1>2, <2>1, OrderFacts
<1>4. GetSetting(stored, n) = stored[n]
  BY <1>2, <1>3 DEF GetSetting
<1>5. outages' \in 0..MaxOutages
  BY <1>1, SettingsAssumption DEF NewViewFinder, ReadFails, SettingsTypeOK, SettingsAssumption
<1>6. ~up /\ UNCHANGED <<stored, writer, builder, request>>
  BY DEF NewViewFinder
<1>7. CASE Start(Append(boot, GetSetting(stored, n)))
  BY <1>4, <1>5, <1>6, <1>7, StartIInv
<1>8. CASE Start(Append(boot, Blank))
  BY <1>5, <1>6, <1>8, StartIInv
<1>9. QED
  BY <1>7, <1>8 DEF NewViewFinder

-----------------------------------------------------------------------------
(* The invariant holds at the start and every step keeps it.               *)
LEMMA SettingsInv == SettingsSpec => []IInv
<1>1. SettingsInit => IInv
  BY InitIInv
<1>2. IInv /\ [SettingsNext]_settingsVars => IInv'
  <2> SUFFICES ASSUME IInv, [SettingsNext]_settingsVars PROVE IInv'
    OBVIOUS
  <2>1. CASE Crash
    BY <2>1, CrashIInv
  <2>2. CASE NewViewFinder
    BY <2>2, NewViewFinderIInv
  <2>3. ASSUME NEW s \in Save,
               Step(s) \/ ClientLeaves(s) \/ AwaitDone(s) \/ CloseConnection(s)
        PROVE  IInv'
    BY <2>3, BeginTxIInv, UpdateIInv, ReadSettingIInv, SwapIInv, CommitIInv,
       ClientLeavesIInv, AwaitDoneIInv, CloseConnectionIInv DEF Step
  <2>4. CASE UNCHANGED settingsVars
    <3> USE <2>4 DEF settingsVars, request, process, clients
    <3>1. SettingsTypeOK' /\ StoredTimeoutsParse' /\ SavedSeen' /\ BootIsSeen'
      BY DEF IInv, SettingsTypeOK, StoredTimeoutsParse, Parse, SavedSeen, BootIsSeen, ReadOf
    <3>2. ASSUME NEW s \in Save PROVE Placed(s)' /\ ReadIsSeen(s)'
      BY DEF IInv, Placed, ReadIsSeen, ReadOf, Past, Usable, View
    <3>3. ASSUME NEW s \in Save, NEW c \in Client PROVE Holds(s, c)'
      BY DEF IInv, Holds, Swapped, Doomed, Past, Usable
    <3>4. ASSUME NEW c \in Client PROVE ClientSeen(c)'
      BY DEF IInv, ClientSeen, Built, AllOf, NewRegistry, NewWatchtower, NewClient
    <3>5. QED
      BY <3>1, <3>2, <3>3, <3>4 DEF IInv
  <2>5. QED
    BY <2>1, <2>2, <2>3, <2>4 DEF SettingsNext
<1>3. QED
  BY <1>1, <1>2, PTL DEF SettingsSpec

(* The table, the requests and the clients keep their types.               *)
THEOREM SettingsTypeCorrect == SettingsSpec => []SettingsTypeOK
<1>1. IInv => SettingsTypeOK
  BY DEF IInv
<1>2. QED
  BY <1>1, SettingsInv, PTL

(* However many saves there are and however they interleave, fail at any   *)
(* read or statement, are abandoned or cut off by a crash: each client in  *)
(* use is of one table, the one its request saw, but for values that could *)
(* not be read, and if that request was saved it is the stored table.      *)
THEOREM ClientsAlwaysOfOneTable == SettingsSpec => []ClientsAreOfOneTable
<1>1. IInv => ClientsAreOfOneTable
  BY DEF IInv, ClientSeen, SavedSeen, ClientsAreOfOneTable
<1>2. QED
  BY <1>1, SettingsInv, PTL

(* Nor do they ever store a timeout with which the server could not start. *)
THEOREM TimeoutsAlwaysParse == SettingsSpec => []StoredTimeoutsParse
<1>1. IInv => StoredTimeoutsParse
  BY DEF IInv
<1>2. QED
  BY <1>1, SettingsInv, PTL

-----------------------------------------------------------------------------
(***************************************************************************)
(* The store: packages, watched services, export and import.               *)
(***************************************************************************)

-----------------------------------------------------------------------------
(* The tables of packages.                                                 *)

\* The id of a new row is not in use.
LEMMA NextIdIsFree ==
  ASSUME NEW listed, listed \subseteq Row
  PROVE  /\ NextId(listed) \in Nat \ {0}
         /\ \A p \in listed : p.id # NextId(listed)
<1> DEFINE I == {0} \cup {p.id : p \in listed}
           T == {b \in 0..MaxId : \A i \in I : i <= b}
<1>1. MaxId \in Nat /\ I \subseteq 0..MaxId /\ 0 \in I
  BY StoreAssumption DEF StoreAssumption, Row
<1>2. \A i \in I : i \in Nat /\ i <= MaxId
  BY <1>1
<1> HIDE DEF I
<1>3. PICK b \in T : \A x \in T : b <= x
  <2>1. T \subseteq Nat /\ T # {}
    BY <1>1
  <2> HIDE DEF T
  <2>2. IsWellFoundedOn(OpToRel(<, Nat), Nat)
    BY NatLessThanWellFounded
  <2>3. PICK b \in T : \A y \in T : <<y, b>> \notin OpToRel(<, Nat)
    BY <2>1, <2>2, WFMin
  <2>4. \A y \in T : ~(y < b)
    BY <2>1, <2>3 DEF OpToRel
  <2>5. QED
    BY <2>1, <2>4
<1>4. b \in I /\ \A i \in I : i <= b
  <2>1. SUFFICES ASSUME b \notin I PROVE FALSE
    OBVIOUS
  <2>2. b - 1 \in 0..MaxId /\ \A i \in I : i <= b - 1
    BY <1>1, <1>2, <2>1
  <2>3. QED
    BY <1>3, <2>2
<1> HIDE DEF T
<1>5. Max(I) \in I /\ \A i \in I : Max(I) >= i
  <2>1. \E x \in I : \A i \in I : x >= i
    BY <1>2, <1>4
  <2>2. QED
    BY <2>1 DEF Max
<1>6. NextId(listed) = 1 + Max(I)
  BY DEF NextId, I
<1>7. Max(I) \in Nat
  BY <1>2, <1>5
<1>8. ASSUME NEW p \in listed PROVE p.id # 1 + Max(I)
  <2>1. p.id \in I
    BY DEF I
  <2>2. p.id <= Max(I) /\ p.id \in Nat
    BY <2>1, <1>2, <1>5
  <2>3. QED
    BY <2>2, <1>7
<1>9. QED
  BY <1>6, <1>7, <1>8

\* A row is its three columns.
LEMMA RowIs ==
  ASSUME NEW p \in Row
  PROVE  /\ p = [id |-> p.id, name |-> p.name, cmd |-> p.cmd]
         /\ p.id \in 1..MaxId /\ p.name \in PackageName /\ p.cmd \in Command
BY DEF Row

LEMMA AddedIsPackages ==
  ASSUME NEW listed, IsPackages(listed), NEW name \in PackageName, NEW cmd \in Command,
         NamedPackage(listed, name) = {}, NextId(listed) <= MaxId
  PROVE  IsPackages(AddPackage(listed, name, cmd))
<1> DEFINE new == [id |-> NextId(listed), name |-> name, cmd |-> cmd]
<1>1. NextId(listed) \in Nat \ {0} /\ \A p \in listed : p.id # NextId(listed)
  BY NextIdIsFree DEF IsPackages
<1>2. new \in Row
  BY <1>1, StoreAssumption DEF Row, StoreAssumption
<1>3. \A p \in listed : p.name # name
  BY DEF NamedPackage
<1>4. QED
  BY <1>1, <1>2, <1>3 DEF IsPackages, AddPackage

LEMMA FewerIsPackages ==
  ASSUME NEW listed, IsPackages(listed), NEW fewer \in SUBSET listed
  PROVE  IsPackages(fewer)
BY DEF IsPackages

LEMMA UpdatedSettings ==
  ASSUME NEW f \in [Setting -> SettingValue], NEW n \in Setting, NEW v \in SettingValue
  PROVE  /\ UpdateSetting(f, n, v) \in [Setting -> SettingValue]
         /\ UpdateSetting(f, n, v)[n] = v
         /\ \A m \in Setting \ {n} : UpdateSetting(f, n, v)[m] = f[m]
BY DEF UpdateSetting

-----------------------------------------------------------------------------
(* Types.  An export has read what one table held after another, and what  *)
(* an import reads is a file as it was when the import began.              *)
ExportTypes ==
  /\ exporting \in Seq([Setting -> SettingValue] \cup (SUBSET Row) \cup (SUBSET Service))
  /\ Len(exporting) >= 1 => exporting[1] \in [Setting -> SettingValue]
  /\ Len(exporting) >= 2 => IsPackages(exporting[2])
  /\ Len(exporting) >= 3 => exporting[3] \subseteq Service

StoreTypes ==
  /\ StoreTypeOK
  /\ ExportTypes
  /\ loaded # Blank => IsDatabase(loaded)
  /\ loaded = Blank => importing = Nothing

\* The tables, taken apart.
LEMMA TablesAre ==
  /\ Tables.packages = packages /\ Tables.services = services
  /\ Tables.settings = settings
BY DEF Tables

LEMMA DatabaseIs ==
  IsDatabase(Tables) <=> /\ IsPackages(packages)
                         /\ services \subseteq Service
                         /\ settings \in [Setting -> SettingValue]
BY TablesAre DEF IsDatabase

LEMMA StoreTypesInit == StoreInit => StoreTypes
<1> SUFFICES ASSUME StoreInit PROVE StoreTypes
  OBVIOUS
<1>1. IsDatabase(Tables)
  BY DatabaseIs, StoreAssumption DEF StoreInit, StoreAssumption, IsDatabase
<1>2. file # Blank => IsDatabase(file)
  BY StoreAssumption DEF StoreInit, StoreAssumption
<1>3. ExportTypes /\ Len(exporting) <= 3
  BY EmptySeq DEF StoreInit, ExportTypes
<1>4. importing \in Todo
  BY DEF StoreInit, Nothing, Todo
<1>5. turns \in 0..MaxTurns
  BY StoreAssumption DEF StoreInit, StoreAssumption
<1>6. QED
  BY <1>1, <1>2, <1>3, <1>4, <1>5 DEF StoreInit, StoreTypes, StoreTypeOK

\* A step that leaves export, import and file alone.
LEMMA ExportTypesFrame ==
  ASSUME ExportTypes, exporting' = exporting PROVE ExportTypes'
BY DEF ExportTypes

LEMMA UserTypes ==
  ASSUME StoreTypes, NEW u \in User,
         \/ ListPackages(u)
         \/ \E new \in Post : PostPackage(u, new)
         \/ InsertPackage(u)
         \/ \E p \in rows[u] : DeleteShown(u, p)
  PROVE  StoreTypes'
<1>1. /\ StoreTypeOK /\ IsPackages(packages) /\ packages \subseteq Row
      /\ services \subseteq Service /\ settings \in [Setting -> SettingValue]
  BY DatabaseIs DEF StoreTypes, StoreTypeOK, IsPackages
<1>2. /\ file' = file /\ exporting' = exporting /\ importing' = importing
      /\ loaded' = loaded /\ services' = services /\ settings' = settings
  BY DEF ListPackages, PostPackage, InsertPackage, DeleteShown, Edited, Changed, tables, facts
<1>3. ExportTypes'
  BY <1>2, ExportTypesFrame DEF StoreTypes
<1>4. turns' \in 0..MaxTurns
  <2>1. turns' = turns \/ (turns < MaxTurns /\ turns' = turns + 1)
    BY DEF ListPackages, PostPackage, InsertPackage, DeleteShown, Edited
  <2>2. QED
    BY <1>1, <2>1, StoreAssumption DEF StoreAssumption, StoreTypeOK
<1>5. IsPackages(packages')
      /\ rows' \in [User -> SUBSET Row]
      /\ adding' \in [User -> SUBSET [name : PackageName, cmd : Command]]
  <2>1. CASE ListPackages(u)
    BY <1>1, <2>1 DEF ListPackages, StoreTypeOK, tables
  <2>2. ASSUME NEW new \in Post, PostPackage(u, new) PROVE <1>5!:
    <3>1. new \in [name : PackageName, cmd : Command]
      BY StoreAssumption DEF StoreAssumption
    <3>2. QED
      BY <1>1, <2>2, <3>1 DEF PostPackage, StoreTypeOK, tables
  <2>3. CASE InsertPackage(u)
    <3>1. PICK new \in adding[u] :
            /\ adding' = [adding EXCEPT ![u] = {}]
            /\ \/ /\ NamedPackage(packages, new.name) = {}
                  /\ NextId(packages) <= MaxId
                  /\ packages' = AddPackage(packages, new.name, new.cmd)
                  /\ rows' = [rows EXCEPT ![u] = @ \cup (packages' \ packages)]
               \/ /\ rows' = [rows EXCEPT ![u] = {}]
                  /\ packages' = packages
      BY <2>3 DEF InsertPackage, tables
    <3>2. new.name \in PackageName /\ new.cmd \in Command
      BY <1>1 DEF StoreTypeOK
    <3>3. IsPackages(packages') /\ packages' \subseteq Row
      BY <1>1, <3>1, <3>2, AddedIsPackages DEF IsPackages
    <3>4. QED
      BY <1>1, <3>1, <3>3 DEF StoreTypeOK
  <2>4. ASSUME NEW p \in rows[u], DeleteShown(u, p) PROVE <1>5!:
    <3>1. packages' \subseteq packages /\ packages' \subseteq Row
      BY <1>1, <2>4 DEF DeleteShown, DeletePackage
    <3>2. IsPackages(packages')
      BY <1>1, <3>1, FewerIsPackages
    <3>3. QED
      BY <1>1, <2>4, <3>1, <3>2 DEF DeleteShown, StoreTypeOK
  <2>5. QED
    BY <2>1, <2>2, <2>3, <2>4
<1>6. IsDatabase(Tables)'
  BY <1>1, <1>2, <1>5 DEF IsDatabase, Tables
<1>7. QED
  BY <1>1, <1>2, <1>3, <1>4, <1>5, <1>6 DEF StoreTypes, StoreTypeOK

LEMMA EditTypes ==
  ASSUME StoreTypes,
         \/ \E v \in Service : EditServices(v)
         \/ \E n \in Setting, value \in SettingValue : SaveSetting(n, value)
  PROVE  StoreTypes'
<1>1. /\ StoreTypeOK /\ IsPackages(packages)
      /\ services \subseteq Service /\ settings \in [Setting -> SettingValue]
  BY DatabaseIs DEF StoreTypes, StoreTypeOK
<1>2. /\ file' = file /\ exporting' = exporting /\ importing' = importing
      /\ loaded' = loaded /\ packages' = packages /\ rows' = rows /\ adding' = adding
      /\ turns < MaxTurns /\ turns' = turns + 1
  BY DEF EditServices, SaveSetting, Edited, Changed, shown
<1>3. ExportTypes'
  BY <1>2, ExportTypesFrame DEF StoreTypes
<1>4. turns' \in 0..MaxTurns
  BY <1>1, <1>2, StoreAssumption DEF StoreAssumption, StoreTypeOK
<1>5. services' \subseteq Service /\ settings' \in [Setting -> SettingValue]
  <2>1. ASSUME NEW v \in Service, EditServices(v) PROVE <1>5!:
    BY <1>1, <2>1 DEF EditServices, AddWatchedService, DeleteWatchedService
  <2>2. ASSUME NEW n \in Setting, NEW value \in SettingValue, SaveSetting(n, value)
        PROVE  <1>5!:
    BY <1>1, <2>2, UpdatedSettings DEF SaveSetting
  <2>3. QED
    BY <2>1, <2>2
<1>6. IsDatabase(Tables)'
  BY <1>1, <1>2, <1>5 DEF IsDatabase, Tables
<1>7. QED
  BY <1>1, <1>2, <1>3, <1>4, <1>6 DEF StoreTypes, StoreTypeOK

\* What an export reads next, it has then read.
LEMMA ReadNext ==
  ASSUME NEW S, NEW q \in Seq(S), NEW e \in S
  PROVE  /\ Append(q, e) \in Seq(S) /\ Len(Append(q, e)) = Len(q) + 1
         /\ Len(q) \in Nat
         /\ \A i \in 1..Len(q) : Append(q, e)[i] = q[i]
         /\ Append(q, e)[Len(q) + 1] = e
BY AppendProperties, LenProperties

LEMMA ExportStepTypes ==
  ASSUME StoreTypes, StartExport \/ ExportNext \/ WriteExport \/ ExportEnds
  PROVE  StoreTypes'
<1> DEFINE Part == [Setting -> SettingValue] \cup (SUBSET Row) \cup (SUBSET Service)
<1>1. /\ StoreTypeOK /\ IsPackages(packages) /\ packages \subseteq Row
      /\ services \subseteq Service /\ settings \in [Setting -> SettingValue]
      /\ packages \in Part /\ services \in Part /\ settings \in Part
  BY DatabaseIs DEF StoreTypes, StoreTypeOK, IsPackages
<1>2. /\ exporting \in Seq(Part) /\ Len(exporting) \in Nat /\ Len(exporting) <= 3
      /\ Len(exporting) >= 1 => exporting[1] \in [Setting -> SettingValue]
      /\ Len(exporting) >= 2 => IsPackages(exporting[2])
      /\ Len(exporting) >= 3 => exporting[3] \subseteq Service
  BY LenProperties DEF StoreTypes, StoreTypeOK, ExportTypes
<1>3. /\ packages' = packages /\ services' = services /\ settings' = settings
      /\ rows' = rows /\ adding' = adding /\ importing' = importing /\ loaded' = loaded
      /\ turns' = turns \/ (turns < MaxTurns /\ turns' = turns + 1)
  BY DEF StartExport, ExportNext, WriteExport, ExportEnds, Exported, tables, shown, facts
<1>4. turns' \in 0..MaxTurns
  BY <1>1, <1>3, StoreAssumption DEF StoreAssumption, StoreTypeOK
<1>5. IsDatabase(Tables)'
  BY <1>1, <1>3 DEF IsDatabase, Tables
<1>6. ExportTypes' /\ Len(exporting') <= 3
  <2> HIDE DEF Part
  <2>1. CASE StartExport
    <3>1. exporting' = <<settings>>
      BY <2>1 DEF StartExport
    <3>2. exporting' \in Seq(Part) /\ Len(exporting') = 1 /\ exporting'[1] = settings
      BY <1>1, <3>1
    <3>3. QED
      BY <1>1, <3>2 DEF ExportTypes, Part
  <2>2. CASE ExportNext
    <3> DEFINE e == IF Len(exporting) = 1 THEN packages ELSE services
    <3>1. Len(exporting) \in 1..2 /\ exporting' = Append(exporting, e) /\ e \in Part
      BY <1>1, <2>2 DEF ExportNext
    <3> HIDE DEF e
    <3>2. /\ exporting' \in Seq(Part) /\ Len(exporting') = Len(exporting) + 1
          /\ \A i \in 1..Len(exporting) : exporting'[i] = exporting[i]
          /\ exporting'[Len(exporting) + 1] = e
      BY <1>2, <3>1, ReadNext
    <3>3. exporting'[1] \in [Setting -> SettingValue]
      BY <1>2, <3>1, <3>2
    <3>4. IsPackages(exporting'[2])
      <4>1. CASE Len(exporting) = 1
        BY <1>1, <3>2, <4>1 DEF e
      <4>2. CASE Len(exporting) = 2
        BY <1>2, <3>2, <4>2
      <4>3. QED
        BY <1>2, <3>1, <4>1, <4>2
    <3>5. Len(exporting') >= 3 => exporting'[3] \subseteq Service
      BY <1>1, <1>2, <3>1, <3>2 DEF e
    <3>6. Len(exporting') <= 3
      BY <1>2, <3>1, <3>2
    <3>7. QED
      BY <3>2, <3>3, <3>4, <3>5, <3>6 DEF ExportTypes, Part
  <2>3. CASE WriteExport \/ ExportEnds
    <3>1. exporting' = <<>>
      BY <2>3 DEF WriteExport, ExportEnds, Exported
    <3>2. exporting' \in Seq(Part) /\ Len(exporting') = 0
      BY <3>1
    <3>3. QED
      BY <3>2 DEF ExportTypes, Part
  <2>4. QED
    BY <2>1, <2>2, <2>3
<1>7. file' # Blank => IsDatabase(file')
  <2>1. CASE WriteExport
    <3>1. Len(exporting) = 3 /\ file' = [settings |-> exporting[1], packages |-> exporting[2],
                                         services |-> exporting[3]]
      BY <2>1 DEF WriteExport
    <3>2. QED
      BY <1>2, <3>1 DEF IsDatabase
  <2>2. CASE ~WriteExport
    BY <1>1, <2>2 DEF StartExport, ExportNext, ExportEnds, StoreTypeOK
  <2>3. QED
    BY <2>1, <2>2
<1>8. QED
  BY <1>1, <1>3, <1>4, <1>5, <1>6, <1>7 DEF StoreTypes, StoreTypeOK

\* What an import has to do at first is what is in the file.
LEMMA ContentsAre ==
  ASSUME NEW listed, IsPackages(listed)
  PROVE  /\ Contents(listed) \subseteq [name : PackageName, cmd : Command]
         /\ \A p, q \in Contents(listed) : p.name = q.name => p = q
BY RowIs DEF Contents, IsPackages

LEMMA ImportStepTypes ==
  ASSUME StoreTypes,
         \/ StartImport \/ ImportFails
         \/ \E p \in importing.packages : ImportPackage(p)
         \/ \E n \in importing.settings : ImportSetting(n)
         \/ \E v \in importing.services : ImportService(v)
  PROVE  StoreTypes'
<1>1. /\ StoreTypeOK /\ IsPackages(packages) /\ packages \subseteq Row
      /\ services \subseteq Service /\ settings \in [Setting -> SettingValue]
      /\ importing \in Todo
  BY DatabaseIs DEF StoreTypes, StoreTypeOK, IsPackages
<1>2. /\ file' = file /\ exporting' = exporting /\ rows' = rows /\ adding' = adding
      /\ turns' = turns \/ (turns < MaxTurns /\ turns' = turns + 1)
  BY DEF StartImport, ImportFails, ImportPackage, ImportSetting, ImportService, Imported,
         Changed, tables, shown
<1>3. turns' \in 0..MaxTurns
  BY <1>1, <1>2, StoreAssumption DEF StoreAssumption, StoreTypeOK
<1>4. ExportTypes'
  BY <1>2, ExportTypesFrame DEF StoreTypes
<1>5. /\ importing' \in Todo
      /\ loaded' # Blank => IsDatabase(loaded')
      /\ loaded' = Blank => importing' = Nothing
      /\ IsPackages(packages') /\ services' \subseteq Service
      /\ settings' \in [Setting -> SettingValue]
  <2>1. CASE StartImport
    <3>1. IsDatabase(file) /\ file # Blank /\ loaded' = file
      BY <1>1, <2>1 DEF StartImport, StoreTypeOK
    <3>2. Contents(file.packages) \subseteq [name : PackageName, cmd : Command]
      BY <3>1, ContentsAre DEF IsDatabase
    <3>3. importing' \in Todo
      BY <2>1, <3>1, <3>2 DEF StartImport, Todo, IsDatabase
    <3>4. QED
      BY <1>1, <2>1, <3>1, <3>3 DEF StartImport, tables
  <2>2. importing.packages \subseteq [name : PackageName, cmd : Command]
        /\ importing.settings \subseteq Setting /\ importing.services \subseteq Service
    BY <1>1 DEF Todo
  <2>3. importing # Nothing => loaded # Blank /\ IsDatabase(loaded)
    BY DEF StoreTypes
  <2>4. CASE ImportFails
    BY <1>1, <2>2, <2>3, <2>4 DEF ImportFails, Todo, Nothing, tables
  <2>5. ASSUME NEW p \in importing.packages, ImportPackage(p) PROVE <1>5!:
    <3>1. loaded' = loaded /\ services' = services /\ settings' = settings
          /\ importing' = [importing EXCEPT !.packages = @ \ {p}]
      BY <2>5 DEF ImportPackage, Imported, Changed
    <3>2. importing # Nothing
      BY DEF Nothing
    <3>3. p.name \in PackageName /\ p.cmd \in Command
      BY <2>2
    <3>4. IsPackages(packages')
      BY <1>1, <2>5, <3>3, AddedIsPackages DEF ImportPackage
    <3>5. importing' \in Todo
      BY <1>1, <3>1 DEF Todo
    <3>6. QED
      BY <1>1, <2>3, <3>1, <3>2, <3>4, <3>5
  <2>6. ASSUME NEW n \in importing.settings, ImportSetting(n) PROVE <1>5!:
    <3>1. loaded' = loaded /\ services' = services /\ packages' = packages
          /\ importing' = [importing EXCEPT !.settings = @ \ {n}]
          /\ settings' = UpdateSetting(settings, n, loaded.settings[n])
      BY <2>6 DEF ImportSetting, Imported, Changed
    <3>2. importing # Nothing
      BY DEF Nothing
    <3>3. n \in Setting /\ loaded.settings[n] \in SettingValue
      BY <2>2, <2>3, <3>2 DEF IsDatabase
    <3>4. settings' \in [Setting -> SettingValue]
      BY <1>1, <3>1, <3>3, UpdatedSettings
    <3>5. importing' \in Todo
      BY <1>1, <3>1 DEF Todo
    <3>6. QED
      BY <1>1, <2>3, <3>1, <3>2, <3>4, <3>5
  <2>7. ASSUME NEW v \in importing.services, ImportService(v) PROVE <1>5!:
    <3>1. loaded' = loaded /\ settings' = settings /\ packages' = packages
          /\ importing' = [importing EXCEPT !.services = @ \ {v}]
          /\ services' = services \cup {v}
      BY <2>7 DEF ImportService, Imported, Changed, AddWatchedService
    <3>2. importing # Nothing
      BY DEF Nothing
    <3>3. importing' \in Todo
      BY <1>1, <3>1 DEF Todo
    <3>4. QED
      BY <1>1, <2>2, <2>3, <3>1, <3>2, <3>3
  <2>8. QED
    BY <2>1, <2>4, <2>5, <2>6, <2>7
<1>6. IsDatabase(Tables)'
  BY <1>5 DEF IsDatabase, Tables
<1>7. QED
  BY <1>1, <1>2, <1>3, <1>4, <1>5, <1>6 DEF StoreTypes, StoreTypeOK

LEMMA AlwaysStoreTypes == StoreSpec => []StoreTypes
<1>1. StoreTypes /\ [StoreNext]_storeVars => StoreTypes'
  <2>1. ASSUME StoreTypes, UNCHANGED storeVars PROVE StoreTypes'
    BY <2>1 DEF storeVars, tables, shown, facts, StoreTypes, StoreTypeOK, ExportTypes,
                IsDatabase, Tables
  <2>2. QED
    BY <2>1, UserTypes, EditTypes, ExportStepTypes, ImportStepTypes DEF StoreNext
<1>2. QED
  BY <1>1, StoreTypesInit, PTL DEF StoreSpec

(* In every state the columns have their types, names and ids of packages  *)
(* are unique, and the export file is empty or holds such tables, whatever *)
(* users, exports and imports do at the same time.                         *)
THEOREM StoreTypeCorrect == StoreSpec => []StoreTypeOK
<1>1. StoreTypes => StoreTypeOK
  BY DEF StoreTypes
<1>2. QED
  BY <1>1, AlwaysStoreTypes, PTL

-----------------------------------------------------------------------------
(* What an export has read of a table has all rows that have lasted and    *)
(* none but those that have been there; so have the tables themselves.     *)
HasRead(t) == Len(exporting) >= IF t = "settings" THEN 1
                                ELSE IF t = "packages" THEN 2 ELSE 3

ReadRows(t) == IF t = "settings" THEN {<<n, exporting[1][n]>> : n \in Setting}
               ELSE IF t = "packages" THEN exporting[2] ELSE exporting[3]

ExportInv ==
  exporting # <<>> =>
    /\ DOMAIN lasting = Table /\ DOMAIN passing = Table
    /\ \A t \in Table :
         /\ lasting[t] \subseteq RowsOf(Tables)[t]
         /\ RowsOf(Tables)[t] \subseteq passing[t]
         /\ HasRead(t) => /\ lasting[t] \subseteq ReadRows(t)
                          /\ ReadRows(t) \subseteq passing[t]

LEMMA ExportInvInit == StoreInit => ExportInv
BY DEF StoreInit, ExportInv

\* Rows that come are noted, as are those that go.
LEMMA ChangedKeepsExport ==
  ASSUME ExportInv, NEW names, Changed(names), exporting' = exporting
  PROVE  ExportInv'
<1> DEFINE now == RowsOf(Tables)'
<1>1. /\ lasting' = [t \in DOMAIN lasting |-> lasting[t] \cap now[t]]
      /\ passing' = [t \in DOMAIN passing |-> passing[t] \cup now[t]]
  BY DEF Changed
<1>2. ASSUME NEW t \in Table
      PROVE  (HasRead(t)' <=> HasRead(t)) /\ ReadRows(t)' = ReadRows(t)
  BY DEF HasRead, ReadRows
<1> HIDE DEF now
<1>3. SUFFICES ASSUME exporting # <<>>
               PROVE  /\ DOMAIN lasting' = Table /\ DOMAIN passing' = Table
                      /\ \A t \in Table :
                           /\ lasting'[t] \subseteq now[t]
                           /\ now[t] \subseteq passing'[t]
                           /\ HasRead(t)' => /\ lasting'[t] \subseteq ReadRows(t)'
                                             /\ ReadRows(t)' \subseteq passing'[t]
  BY DEF ExportInv, now
<1>4. DOMAIN lasting = Table /\ DOMAIN passing = Table
  BY <1>3 DEF ExportInv
<1>5. ASSUME NEW t \in Table
      PROVE  /\ lasting'[t] = lasting[t] \cap now[t]
             /\ passing'[t] = passing[t] \cup now[t]
             /\ HasRead(t) => /\ lasting[t] \subseteq ReadRows(t)
                              /\ ReadRows(t) \subseteq passing[t]
  BY <1>1, <1>3, <1>4 DEF ExportInv
<1>6. DOMAIN lasting' = Table /\ DOMAIN passing' = Table
  BY <1>1, <1>4
<1>7. QED
  BY <1>2, <1>5, <1>6

LEMMA UnchangedKeepsExport ==
  ASSUME ExportInv, UNCHANGED <<tables, exporting, lasting, passing>>
  PROVE  ExportInv'
<1>1. RowsOf(Tables)' = RowsOf(Tables)
  BY DEF RowsOf, Tables, tables
<1>2. ASSUME NEW t \in Table
      PROVE  (HasRead(t)' <=> HasRead(t)) /\ ReadRows(t)' = ReadRows(t)
  BY DEF HasRead, ReadRows
<1>3. QED
  BY <1>1, <1>2 DEF ExportInv

\* What is read next is what the table holds.
LEMMA ExportNextKeepsExport ==
  ASSUME StoreTypes, ExportInv, ExportNext
  PROVE  ExportInv'
<1> DEFINE Part == [Setting -> SettingValue] \cup (SUBSET Row) \cup (SUBSET Service)
           e == IF Len(exporting) = 1 THEN packages ELSE services
<1>1. /\ exporting \in Seq(Part) /\ Len(exporting) \in 1..2 /\ e \in Part
      /\ exporting' = Append(exporting, e) /\ exporting # <<>>
      /\ UNCHANGED <<tables, lasting, passing>>
  BY DatabaseIs, EmptySeq
     DEF ExportNext, facts, StoreTypes, StoreTypeOK, ExportTypes, IsPackages
<1>2. /\ Len(exporting) = 1 => e = packages
      /\ Len(exporting) = 2 => e = services
  OBVIOUS
<1> HIDE DEF e, Part
<1>3. /\ Len(exporting') = Len(exporting) + 1
      /\ \A i \in 1..Len(exporting) : exporting'[i] = exporting[i]
      /\ exporting'[Len(exporting) + 1] = e
  BY <1>1, ReadNext
<1>4. RowsOf(Tables)' = RowsOf(Tables)
  BY <1>1 DEF RowsOf, Tables, tables
<1>5. RowsOf(Tables)["packages"] = packages /\ RowsOf(Tables)["services"] = services
  BY DEF RowsOf, Tables, Table
<1>6. ASSUME NEW t \in Table, HasRead(t)'
      PROVE  \/ HasRead(t) /\ ReadRows(t)' = ReadRows(t)
             \/ ReadRows(t)' = RowsOf(Tables)[t]
  <2>1. CASE t = "settings"
    <3>1. HasRead(t)
      BY <1>1, <2>1 DEF HasRead
    <3>2. exporting'[1] = exporting[1]
      BY <1>1, <1>3
    <3>3. QED
      BY <2>1, <3>1, <3>2 DEF ReadRows
  <2>2. CASE t = "packages"
    <3>1. CASE Len(exporting) = 1
      BY <1>2, <1>3, <1>5, <2>2, <3>1 DEF ReadRows
    <3>2. CASE Len(exporting) = 2
      <4>1. exporting'[2] = exporting[2]
        BY <1>3, <3>2
      <4>2. QED
        BY <2>2, <3>2, <4>1 DEF HasRead, ReadRows
    <3>3. QED
      BY <1>1, <3>1, <3>2
  <2>3. CASE t = "services"
    <3>1. Len(exporting') >= 3
      BY <1>6, <2>3 DEF HasRead
    <3>2. Len(exporting) = 2
      BY <1>1, <1>3, <3>1
    <3>3. QED
      BY <1>2, <1>3, <1>5, <2>3, <3>2 DEF ReadRows
  <2>4. QED
    BY <2>1, <2>2, <2>3 DEF Table
<1>7. QED
  BY <1>1, <1>4, <1>6 DEF ExportInv

LEMMA ExportInvStep == StoreTypes /\ ExportInv /\ [StoreNext]_storeVars => ExportInv'
<1> SUFFICES ASSUME StoreTypes, ExportInv, [StoreNext]_storeVars PROVE ExportInv'
  OBVIOUS
<1>1. CASE StartExport
  <2>1. /\ exporting' = <<settings>> /\ UNCHANGED tables
        /\ lasting' = RowsOf(Tables) /\ passing' = RowsOf(Tables)
    BY <1>1 DEF StartExport
  <2>2. Len(exporting') = 1 /\ exporting'[1] = settings
    BY <2>1
  <2>3. RowsOf(Tables)' = RowsOf(Tables) /\ DOMAIN RowsOf(Tables) = Table
    BY <2>1 DEF RowsOf, Tables, tables
  <2>4. ASSUME NEW t \in Table, HasRead(t)' PROVE ReadRows(t)' = RowsOf(Tables)[t]
    <3>1. t = "settings"
      BY <2>2, <2>4 DEF HasRead, Table
    <3>2. QED
      BY <2>2, <3>1 DEF ReadRows, RowsOf, Tables, Table
  <2>5. QED
    BY <2>1, <2>3, <2>4 DEF ExportInv
<1>2. CASE ExportNext
  BY <1>2, ExportNextKeepsExport
<1>3. CASE WriteExport \/ ExportEnds
  BY <1>3 DEF WriteExport, ExportEnds, Exported, ExportInv
<1>4. CASE UNCHANGED storeVars
  BY <1>4, UnchangedKeepsExport DEF storeVars, facts
<1>5. ASSUME NEW u \in User,
             \/ ListPackages(u)
             \/ \E new \in Post : PostPackage(u, new)
             \/ InsertPackage(u)
             \/ \E p \in rows[u] : DeleteShown(u, p)
      PROVE  ExportInv'
  <2>1. CASE ListPackages(u) \/ \E new \in Post : PostPackage(u, new)
    BY <2>1, UnchangedKeepsExport DEF ListPackages, PostPackage, facts
  <2>2. CASE InsertPackage(u)
    <3>1. PICK new \in adding[u] :
            /\ Changed({new.name}) \/ UNCHANGED <<tables, turns, facts>>
            /\ exporting' = exporting
      BY <2>2 DEF InsertPackage, Edited
    <3>2. QED
      BY <3>1, ChangedKeepsExport, UnchangedKeepsExport DEF facts
  <2>3. ASSUME NEW p \in rows[u], DeleteShown(u, p) PROVE ExportInv'
    BY <2>3, ChangedKeepsExport DEF DeleteShown, Edited
  <2>4. QED
    BY <1>5, <2>1, <2>2, <2>3
<1>6. ASSUME NEW v \in Service, EditServices(v) PROVE ExportInv'
  BY <1>6, ChangedKeepsExport DEF EditServices, Edited
<1>7. ASSUME NEW n \in Setting, NEW value \in SettingValue, SaveSetting(n, value)
      PROVE  ExportInv'
  BY <1>7, ChangedKeepsExport DEF SaveSetting, Edited
<1>8. CASE StartImport \/ ImportFails
  BY <1>8, UnchangedKeepsExport DEF StartImport, ImportFails
<1>9. ASSUME NEW x, ImportPackage(x) \/ ImportSetting(x) \/ ImportService(x)
      PROVE  ExportInv'
  <2>1. Changed({}) /\ exporting' = exporting
    BY <1>9 DEF ImportPackage, ImportSetting, ImportService, Imported
  <2>2. QED
    BY <2>1, ChangedKeepsExport
<1>10. QED
  BY <1>1, <1>2, <1>3, <1>4, <1>5, <1>6, <1>7, <1>8, <1>9 DEF StoreNext

(* However the reads of an export interleave with everything else: each    *)
(* table of the file has every row that was there from the export's first  *)
(* read to its write, and no row that was there at no moment of it.        *)
THEOREM LastingRowsExported == StoreSpec => LastingRowsAreExported
<1>1. ASSUME StoreTypes, ExportInv, WriteExport, NEW t \in Table
      PROVE  /\ lasting[t] \subseteq RowsOf(file')[t]
             /\ RowsOf(file')[t] \subseteq passing[t]
  <2>1. /\ Len(exporting) = 3
        /\ file' = [settings |-> exporting[1], packages |-> exporting[2],
                    services |-> exporting[3]]
    BY <1>1 DEF WriteExport
  <2>2. exporting # <<>> /\ HasRead(t)
    BY <2>1, EmptySeq DEF HasRead, Table
  <2>3. RowsOf(file')[t] = ReadRows(t)
    BY <2>1 DEF RowsOf, ReadRows, Table
  <2>4. QED
    BY <1>1, <2>2, <2>3 DEF ExportInv
<1>2. StoreTypes /\ ExportInv /\ [StoreNext]_storeVars
        => [WriteExport => \A t \in Table :
              /\ lasting[t] \subseteq RowsOf(file')[t]
              /\ RowsOf(file')[t] \subseteq passing[t]]_storeVars
  BY <1>1
<1>3. QED
  BY <1>2, ExportInvInit, ExportInvStep, AlwaysStoreTypes, PTL
     DEF StoreSpec, LastingRowsAreExported

-----------------------------------------------------------------------------
(* Of the names no user touched since the file was first imported, the     *)
(* table of packages has the rows it had, and others the file lists.       *)
Ours(q) ==
  /\ [name |-> q.name, cmd |-> q.cmd] \in Contents(loaded.packages)
  /\ NamedPackage(before, q.name) = {}

Kept ==
  loaded # Blank =>
    /\ importing.packages \subseteq Contents(loaded.packages)
    /\ \A q \in packages : q.name \in touched \/ q \in before \/ Ours(q)
    /\ \A q \in before : q.name \in touched \/ q \in packages

(* What a clean import has done with is in the tables, unless a user       *)
(* touched it.                                                             *)
Reached ==
  clean =>
    /\ loaded # Blank
    /\ \A p \in Contents(loaded.packages) \ importing.packages :
         p.name \in touched \/ \E q \in packages : q.name = p.name
    /\ loaded.services \subseteq importing.services \cup services \cup touched
    /\ \A n \in Setting \ importing.settings :
         n \in touched \/ settings[n] = loaded.settings[n]

ImportInv == StoreTypes /\ Kept /\ Reached

\* What users change, they touch.
LEMMA TouchedHolds ==
  ASSUME Kept, Reached, NEW N,
         loaded' = loaded, importing' = importing, before' = before, clean' = clean,
         touched' = IF loaded = Blank THEN {} ELSE touched \cup N,
         \A q \in packages : q \in packages' \/ q.name \in N,
         \A q \in packages' : q \in packages \/ q.name \in N,
         \A v \in services : v \in services' \/ v \in N,
         \A n \in Setting : settings'[n] = settings[n] \/ n \in N
  PROVE  Kept' /\ Reached'
<1>1. loaded # Blank => touched' = touched \cup N
  OBVIOUS
<1>2. \A q : Ours(q)' <=> Ours(q)
  BY DEF Ours, Contents, NamedPackage
<1>3. Kept'
  BY <1>1, <1>2 DEF Kept, Contents
<1>4. Reached'
  <2>1. SUFFICES ASSUME clean PROVE Reached'
    BY DEF Reached
  <2>2. loaded # Blank /\ touched' = touched \cup N
    BY <1>1, <2>1 DEF Reached
  <2>3. ASSUME NEW p \in Contents(loaded.packages) \ importing.packages
        PROVE  p.name \in touched' \/ \E q \in packages' : q.name = p.name
    BY <2>1, <2>2 DEF Reached
  <2>4. loaded.services \subseteq importing.services \cup services' \cup touched'
    BY <2>1, <2>2 DEF Reached
  <2>5. ASSUME NEW n \in Setting \ importing.settings
        PROVE  n \in touched' \/ settings'[n] = loaded.settings[n]
    BY <2>1, <2>2 DEF Reached
  <2>6. QED
    BY <2>1, <2>2, <2>3, <2>4, <2>5 DEF Reached, Contents
<1>5. QED
  BY <1>3, <1>4

\* Nor does a step matter that changes neither the tables nor an import.
LEMMA UntouchedHolds ==
  ASSUME Kept, Reached, UNCHANGED tables,
         loaded' = loaded, importing' = importing, before' = before, clean' = clean,
         touched' = touched
  PROVE  Kept' /\ Reached'
BY DEF Kept, Reached, Ours, Contents, NamedPackage, tables

LEMMA ImportInvInit == StoreInit => ImportInv
BY StoreTypesInit DEF StoreInit, ImportInv, Kept, Reached

LEMMA UserHolds ==
  ASSUME ImportInv, NEW u \in User,
         \/ ListPackages(u)
         \/ \E new \in Post : PostPackage(u, new)
         \/ InsertPackage(u)
         \/ \E p \in rows[u] : DeleteShown(u, p)
  PROVE  Kept' /\ Reached'
<1>1. Kept /\ Reached
  BY DEF ImportInv
<1>2. CASE ListPackages(u)
  BY <1>1, <1>2, UntouchedHolds DEF ListPackages, facts
<1>3. ASSUME NEW new \in Post, PostPackage(u, new) PROVE Kept' /\ Reached'
  BY <1>1, <1>3, UntouchedHolds DEF PostPackage, facts
<1>4. CASE InsertPackage(u)
  <2>1. PICK new \in adding[u] :
          /\ \/ /\ packages' = AddPackage(packages, new.name, new.cmd)
                /\ UNCHANGED <<services, settings>>
                /\ Changed({new.name})
             \/ UNCHANGED <<tables, facts>>
          /\ importing' = importing
    BY <1>4 DEF InsertPackage, Edited
  <2>2. CASE UNCHANGED <<tables, facts>>
    BY <1>1, <2>1, <2>2, UntouchedHolds DEF facts
  <2>3. CASE /\ packages' = AddPackage(packages, new.name, new.cmd)
             /\ UNCHANGED <<services, settings>>
             /\ Changed({new.name})
    <3>1. /\ \A q \in packages : q \in packages'
          /\ \A q \in packages' : q \in packages \/ q.name = new.name
      BY <2>3 DEF AddPackage
    <3>2. QED
      BY <1>1, <2>1, <2>3, <3>1, TouchedHolds DEF Changed
  <2>4. QED
    BY <2>1, <2>2, <2>3
<1>5. ASSUME NEW p \in rows[u], DeleteShown(u, p) PROVE Kept' /\ Reached'
  <2> DEFINE N == {q.name : q \in packages \ packages'}
  <2>1. /\ packages' \subseteq packages /\ UNCHANGED <<services, settings>>
        /\ Changed(N) /\ importing' = importing
    BY <1>5 DEF DeleteShown, DeletePackage, Edited
  <2>2. \A q \in packages : q \in packages' \/ q.name \in N
    OBVIOUS
  <2> HIDE DEF N
  <2>3. QED
    BY <1>1, <2>1, <2>2, TouchedHolds DEF Changed
<1>6. QED
  BY <1>2, <1>3, <1>4, <1>5

LEMMA EditHolds ==
  ASSUME ImportInv,
         \/ \E v \in Service : EditServices(v)
         \/ \E n \in Setting, value \in SettingValue : SaveSetting(n, value)
  PROVE  Kept' /\ Reached'
<1>1. Kept /\ Reached /\ settings \in [Setting -> SettingValue]
  BY DatabaseIs DEF ImportInv, StoreTypes, StoreTypeOK
<1>2. ASSUME NEW v \in Service, EditServices(v) PROVE Kept' /\ Reached'
  <2>1. /\ UNCHANGED <<packages, settings>> /\ importing' = importing /\ Changed({v})
        /\ \A w \in services : w \in services' \/ w \in {v}
    BY <1>2 DEF EditServices, AddWatchedService, DeleteWatchedService, Edited
  <2>2. QED
    BY <1>1, <2>1, TouchedHolds DEF Changed
<1>3. ASSUME NEW n \in Setting, NEW value \in SettingValue, SaveSetting(n, value)
      PROVE  Kept' /\ Reached'
  <2>1. /\ UNCHANGED <<packages, services>> /\ importing' = importing /\ Changed({n})
        /\ \A m \in Setting : settings'[m] = settings[m] \/ m \in {n}
    BY <1>1, <1>3, UpdatedSettings DEF SaveSetting, Edited
  <2>2. QED
    BY <1>1, <2>1, TouchedHolds DEF Changed
<1>4. QED
  BY <1>2, <1>3

\* An import begins with all that the file lists.
LEMMA StartImportHolds ==
  ASSUME ImportInv, StartImport PROVE Kept' /\ Reached'
<1>1. /\ file # Blank /\ loaded' = file /\ UNCHANGED tables
      /\ importing' = [packages |-> Contents(file.packages), services |-> file.services,
                       settings |-> DOMAIN file.settings]
      /\ \/ loaded = file /\ UNCHANGED <<before, touched>>
         \/ before' = packages /\ touched' = {}
  BY DEF StartImport
<1>2. DOMAIN file.settings = Setting
  BY <1>1 DEF ImportInv, StoreTypes, StoreTypeOK, IsDatabase
<1>3. Contents(loaded.packages)' = Contents(file.packages)
  BY <1>1 DEF Contents
<1>4. importing'.packages = Contents(file.packages) /\ importing'.services = file.services
      /\ importing'.settings = Setting
  BY <1>1, <1>2
<1>5. Reached'
  BY <1>1, <1>3, <1>4 DEF Reached
<1>6. CASE before' = packages /\ touched' = {}
  BY <1>1, <1>3, <1>4, <1>5, <1>6 DEF Kept, tables
<1>7. CASE loaded = file /\ UNCHANGED <<before, touched>>
  <2>1. \A q : Ours(q)' <=> Ours(q)
    BY <1>1, <1>7 DEF Ours, Contents, NamedPackage
  <2>2. QED
    BY <1>1, <1>3, <1>4, <1>5, <1>7, <2>1 DEF Kept, tables, ImportInv
<1>8. QED
  BY <1>1, <1>6, <1>7

LEMMA ImportFailsHolds ==
  ASSUME ImportInv, ImportFails PROVE Kept' /\ Reached'
<1>1. /\ UNCHANGED tables /\ loaded' = loaded /\ before' = before /\ touched' = touched
      /\ clean' = FALSE
  BY DEF ImportFails
<1>2. importing'.packages \subseteq importing.packages
  <2>1. importing \in Todo
    BY DEF ImportInv, StoreTypes, StoreTypeOK
  <2>2. QED
    BY <2>1 DEF ImportFails, Nothing, Todo
<1>3. QED
  BY <1>1, <1>2 DEF ImportInv, Kept, Reached, Ours, Contents, NamedPackage, tables

\* What the steps of an import have in common.
LEMMA ImportedFacts ==
  ASSUME ImportInv, importing # Nothing, Imported
  PROVE  /\ loaded # Blank /\ loaded' = loaded /\ before' = before /\ clean' = clean
         /\ touched' = touched /\ importing \in Todo
         /\ Contents(loaded.packages)' = Contents(loaded.packages)
         /\ \A q : Ours(q)' <=> Ours(q)
<1>1. loaded # Blank /\ importing \in Todo
  BY DEF ImportInv, StoreTypes, StoreTypeOK
<1>2. loaded' = loaded /\ before' = before /\ clean' = clean /\ touched' = touched
  BY <1>1 DEF Imported, Changed
<1>3. QED
  BY <1>1, <1>2 DEF Ours, Contents, NamedPackage

LEMMA ImportPackageHolds ==
  ASSUME ImportInv, NEW p \in importing.packages, ImportPackage(p)
  PROVE  Kept' /\ Reached'
<1>1. importing # Nothing
  BY DEF Nothing
<1>2. /\ importing' = [importing EXCEPT !.packages = @ \ {p}]
      /\ UNCHANGED <<services, settings>> /\ Imported
      /\ IF NamedPackage(packages, p.name) = {}
         THEN packages' = AddPackage(packages, p.name, p.cmd)
         ELSE UNCHANGED packages
  BY DEF ImportPackage
<1>3. /\ loaded # Blank /\ loaded' = loaded /\ before' = before /\ clean' = clean
      /\ touched' = touched /\ importing \in Todo
      /\ Contents(loaded.packages)' = Contents(loaded.packages)
      /\ \A q : Ours(q)' <=> Ours(q)
  BY <1>1, <1>2, ImportedFacts
<1>4. /\ importing'.packages = importing.packages \ {p}
      /\ importing'.services = importing.services
      /\ importing'.settings = importing.settings
  BY <1>2, <1>3 DEF Todo
<1>5. /\ p \in [name : PackageName, cmd : Command]
      /\ p \in Contents(loaded.packages) /\ Kept /\ Reached
  BY <1>3 DEF Todo, ImportInv, Kept
<1>6. packages \subseteq packages' /\ \E q \in packages' : q.name = p.name
  <2>1. CASE NamedPackage(packages, p.name) = {}
    <3> DEFINE new == [id |-> NextId(packages), name |-> p.name, cmd |-> p.cmd]
    <3>1. packages' = packages \cup {new} /\ new.name = p.name
      BY <1>2, <2>1 DEF AddPackage
    <3> HIDE DEF new
    <3>2. QED
      BY <3>1
  <2>2. CASE NamedPackage(packages, p.name) # {}
    BY <1>2, <2>2 DEF NamedPackage
  <2>3. QED
    BY <2>1, <2>2
<1>7. Kept'
  <2>1. ASSUME NEW q \in packages', q \notin packages
        PROVE  q.name \in touched \/ Ours(q)
    <3>1. NamedPackage(packages, p.name) = {} /\ q.name = p.name /\ q.cmd = p.cmd
      BY <1>2, <2>1 DEF AddPackage
    <3>2. [name |-> q.name, cmd |-> q.cmd] \in Contents(loaded.packages)
      BY <1>5, <3>1
    <3>3. ASSUME NEW r \in before, r.name = q.name PROVE q.name \in touched
      BY <1>3, <1>5, <3>1, <3>3 DEF Kept, NamedPackage
    <3>4. QED
      BY <3>2, <3>3 DEF Ours, NamedPackage
  <2>2. QED
    BY <1>3, <1>4, <1>5, <1>6, <2>1 DEF Kept
<1>8. Reached'
  BY <1>2, <1>3, <1>4, <1>5, <1>6 DEF Reached
<1>9. QED
  BY <1>7, <1>8

LEMMA ImportRestHolds ==
  ASSUME ImportInv, NEW x, \/ x \in importing.settings /\ ImportSetting(x)
                           \/ x \in importing.services /\ ImportService(x)
  PROVE  Kept' /\ Reached'
<1>1. importing # Nothing /\ Imported
  BY DEF Nothing, ImportSetting, ImportService
<1>2. /\ loaded # Blank /\ loaded' = loaded /\ before' = before /\ clean' = clean
      /\ touched' = touched /\ importing \in Todo
      /\ Contents(loaded.packages)' = Contents(loaded.packages)
      /\ \A q : Ours(q)' <=> Ours(q)
  BY <1>1, ImportedFacts
<1>3. packages' = packages /\ importing'.packages = importing.packages
  BY <1>2 DEF ImportSetting, ImportService, Todo
<1>4. Kept /\ Reached /\ settings \in [Setting -> SettingValue] /\ IsDatabase(loaded)
  BY <1>2, DatabaseIs DEF ImportInv, StoreTypes, StoreTypeOK
<1>5. Kept'
  BY <1>2, <1>3, <1>4 DEF Kept
<1>6. CASE x \in importing.settings /\ ImportSetting(x)
  <2>1. /\ importing'.settings = importing.settings \ {x}
        /\ importing'.services = importing.services /\ services' = services
    BY <1>2, <1>6 DEF ImportSetting, Todo
  <2>2. x \in Setting /\ loaded.settings[x] \in SettingValue
    BY <1>2, <1>4, <1>6 DEF Todo, IsDatabase
  <2>3. settings'[x] = loaded.settings[x] /\ \A m \in Setting \ {x} : settings'[m] = settings[m]
    BY <1>4, <1>6, <2>2, UpdatedSettings DEF ImportSetting
  <2>4. Reached'
    BY <1>2, <1>3, <1>4, <2>1, <2>3 DEF Reached
  <2>5. QED
    BY <1>5, <2>4
<1>7. CASE x \in importing.services /\ ImportService(x)
  <2>1. /\ importing'.services = importing.services \ {x}
        /\ importing'.settings = importing.settings /\ settings' = settings
        /\ services' = services \cup {x}
    BY <1>2, <1>7 DEF ImportService, Todo, AddWatchedService
  <2>2. Reached'
    BY <1>2, <1>3, <1>4, <2>1 DEF Reached
  <2>3. QED
    BY <1>5, <2>2
<1>8. QED
  BY <1>6, <1>7

LEMMA AlwaysImportInv == StoreSpec => []ImportInv
<1>1. ASSUME ImportInv, [StoreNext]_storeVars PROVE Kept' /\ Reached'
  <2>1. CASE UNCHANGED storeVars
    BY <1>1, <2>1, UntouchedHolds DEF storeVars, facts, ImportInv
  <2>2. CASE StartExport \/ ExportNext \/ WriteExport \/ ExportEnds
    BY <1>1, <2>2, UntouchedHolds
       DEF StartExport, ExportNext, WriteExport, ExportEnds, Exported, facts, ImportInv
  <2>3. QED
    BY <1>1, <2>1, <2>2, UserHolds, EditHolds, StartImportHolds, ImportFailsHolds,
       ImportPackageHolds, ImportRestHolds
       DEF StoreNext
<1>2. ImportInv /\ [StoreNext]_storeVars => Kept' /\ Reached'
  BY <1>1
<1>3. StoreTypes /\ Kept /\ Reached <=> ImportInv
  BY DEF ImportInv
<1>4. QED
  BY <1>2, <1>3, ImportInvInit, AlwaysStoreTypes, PTL DEF StoreSpec

(* An import that met no error leaves all that the file lists, known       *)
(* packages with the commands they had and new ones with those of the      *)
(* file, also after imports of the same file that died or failed halfway   *)
(* and with users and exports at work meanwhile.                           *)
THEOREM ImportAlwaysRestores == StoreSpec => []ImportRestores
<1>1. ASSUME ImportInv, clean, importing = Nothing PROVE ImportRestores
  <2>1. /\ Kept /\ Reached /\ loaded # Blank
        /\ importing.packages = {} /\ importing.services = {} /\ importing.settings = {}
    BY <1>1 DEF ImportInv, Reached, Nothing
  <2>2. IsPackages(loaded.packages)
    BY <1>1, <2>1 DEF ImportInv, StoreTypes, IsDatabase
  <2>3. ASSUME NEW p \in Contents(loaded.packages), p.name \notin touched
        PROVE  \E q \in packages :
                 /\ q.name = p.name
                 /\ IF NamedPackage(before, p.name) = {} THEN q.cmd = p.cmd
                                                         ELSE q \in before
    <3>1. PICK q \in packages : q.name = p.name
      BY <1>1, <2>1, <2>3 DEF Reached
    <3>2. CASE NamedPackage(before, p.name) = {}
      <4>1. q \notin before
        BY <3>1, <3>2 DEF NamedPackage
      <4>2. [name |-> q.name, cmd |-> q.cmd] \in Contents(loaded.packages)
        BY <2>1, <2>3, <3>1, <4>1 DEF Kept, Ours
      <4>3. [name |-> q.name, cmd |-> q.cmd] = p
        BY <2>2, <3>1, <4>2, ContentsAre
      <4>4. q.cmd = p.cmd
        BY <4>3
      <4>5. QED
        BY <3>1, <3>2, <4>4
    <3>3. CASE NamedPackage(before, p.name) # {}
      <4>1. PICK r \in before : r.name = p.name
        BY <3>3 DEF NamedPackage
      <4>2. r \in packages
        BY <2>1, <2>3, <4>1 DEF Kept
      <4>3. QED
        BY <3>3, <4>1, <4>2
    <3>4. QED
      BY <3>2, <3>3
  <2>4. QED
    BY <1>1, <2>1, <2>3 DEF ImportRestores, Reached
<1>2. ImportInv => ImportRestores
  BY <1>1 DEF ImportRestores
<1>3. QED
  BY <1>2, AlwaysImportInv, PTL
=============================================================================
