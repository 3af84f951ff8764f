------------------------------ MODULE MCParts ------------------------------
(***************************************************************************)
(* The parts of the program that share no state, side by side: an initial  *)
(* state chooses which of them runs.                                       *)
(***************************************************************************)
EXTENDS Settings, MCStore, RegistryPage, MCTopologyIndex, Metrics, DevicePolicy

CONSTANTS p1, p2, sec, junk, a1, a2,  \* requests and values of settings
          r1, r2, x, y,               \* repositories and tags
          web, admin, db              \* tags of devices

VARIABLE part

-----------------------------------------------------------------------------
\* Two requests, of which one saves the address of watchtower and the other
\* its token, or a timeout that does not parse.
MCInitial == {[n \in Name |-> IF n \in Timeouts THEN sec ELSE a1]}

MCForm == {[name |-> "WatchtowerTimeout", value |-> junk],
           [name |-> "WatchtowerAddr", value |-> a2],
           [name |-> "WatchtowerToken", value |-> a2]}

MCForms == {<<"WatchtowerAddr", "WatchtowerToken">>,
            <<"WatchtowerAddr", "WatchtowerTimeout">>}

MCHeld == {(a1 :> ((r1 :> {x, y}) @@ (r2 :> {x}))) @@ (a2 :> (r1 :> {x}))}

MCImage == {<<a1, r1, x>>, <<a1, r1, y>>, <<a2, r1, x>>}

\* Counters that are about to wrap, and some that are not.
MCCpuInit == {[user |-> 15, nice |-> 3, system |-> 14, idle |-> i] : i \in {2, 13}}

\* Idle may step back by one, and nothing at all may happen.
MCAdvance == {[user |-> n[1], nice |-> 0, system |-> n[2], idle |-> n[3]] :
                n \in {<<0, 0, 0>>, <<2, 0, 5>>, <<0, 3, -1>>, <<2, 3, 0>>, <<0, 0, -1>>}}

\* An older kernel does not show what is available.
MCMemory == {[MemTotal |-> 15, MemFree |-> 5, MemAvailable |-> 11],
             [MemTotal |-> 15, MemFree |-> 5]}

MCDisk == {[Blocks |-> 12, Bavail |-> 11]}

\* A policy of two rules; a device has two tags, db begins no other.
MCDevice == {<<t>> : t \in {web, admin, db}} \cup {<<web, admin>>, <<db, web>>}

MCRule == [src : SUBSET {web, admin, db} \ {{}}, dst : SUBSET {web, admin, db} \ {{}}]

MCPrefix == {<<web, admin>>}

MCPolicy == MCRule \X MCRule

-----------------------------------------------------------------------------
\* What the variables of a part are while another one runs.
NoSettings ==
  /\ SettingsInit
  /\ \A s \in Save : form[s].name = "WatchtowerAddr"

NoStore == StoreInit /\ packages = {} /\ file = Blank

NoPage == PageInit /\ registry = a1 /\ repo = r1

NoIndex == decoded = [baseline |-> <<>>, hosts |-> <<>>] /\ maps = EmptyIndex

NoMetrics ==
  /\ cpu = [n \in Counter |-> 0]
  /\ last = NoStat
  /\ gauges = [g \in {"cpu", "mem", "disk"} |-> NoRecord]
  /\ passed = cpu
  /\ ticks = 0

NoPolicy ==
  /\ device = <<>> /\ policy = <<>>
  /\ sourcePolicy = <<>> /\ destPolicy = <<>>
  /\ shownDevice = "no"

PartsInit ==
  /\ part \in {"settings", "store", "registry", "topology", "metrics", "policy"}
  /\ IF part = "settings"
     THEN SettingsInit /\ <<form[p1].name, form[p2].name>> \in MCForms
     ELSE NoSettings
  /\ IF part = "store" THEN StoreInit /\ (file # Blank => file.packages # {})
                       ELSE NoStore
  /\ IF part = "registry" THEN PageInit ELSE NoPage
  /\ IF part = "topology" THEN IndexInit ELSE NoIndex
  /\ IF part = "metrics" THEN MetricsInit ELSE NoMetrics
  /\ IF part = "policy" THEN PolicyInit ELSE NoPolicy

PartsNext ==
  /\ part' = part
  /\ IF part = "settings" THEN SettingsNext ELSE UNCHANGED settingsVars
  /\ IF part = "store" THEN StoreNext ELSE UNCHANGED storeVars
  /\ IF part = "registry" THEN PageNext ELSE UNCHANGED registryVars
  /\ IF part = "topology" THEN IndexNext ELSE UNCHANGED indexVars
  /\ IF part = "metrics" THEN MetricsNext ELSE UNCHANGED metricsVars
  /\ IF part = "policy" THEN PolicyNext ELSE UNCHANGED policyVars

PartsSpec ==
  /\ PartsInit
  /\ [][PartsNext]_<<settingsVars, storeVars, registryVars,
                     indexVars, metricsVars, policyVars, part>>
  /\ SettingsFairness
=============================================================================
