CONSTANTS
  p1 = p1
  p2 = p2
  sec = sec
  junk = junk
  a1 = a1
  a2 = a2
  Blank = Blank
  ZeroTime = ZeroTime
  NoSave = NoSave
  MaxOutages = 1
  Save = {p1, p2}
  Value = {sec, junk, a1, a2, Blank}
  Duration = {sec}
  Form <- MCForm
  Initial <- MCInitial
  a = a
  b = b
  c = c
  d = d
  svc = svc
  set = set
  u1 = u1
  u2 = u2
  r1 = r1
  r2 = r2
  x = x
  y = y
  User = {u1}
  PackageName = {a, b}
  Command = {c, d}
  Service = {svc}
  Setting = {set}
  SettingValue = {c, d}
  Post <- MCPost
  Database <- MCDatabase
  MaxId = 2
  MaxTurns = 4
  Elsewhere = Elsewhere
  Address = {a1, a2}
  Repo = {r1, r2}
  Tag = {x, y}
  Held <- MCHeld
  Image <- MCImage
  NoRepo = NoRepo
  ALL_HOSTS = ALL_HOSTS
  app = app
  tool = tool
  owner_app = owner_app
  h1 = h1
  h2 = h2
  old = old
  new = new
  Topologies <- MCTopologies
  Hosts <- MCHosts
  web = web
  admin = admin
  db = db
  NoStat = NoStat
  NoRecord = NoRecord
  W = 16
  MaxTicks = 3
  CpuInit <- MCCpuInit
  Advance <- MCAdvance
  Memory <- MCMemory
  Disk <- MCDisk
  Device <- MCDevice
  Policy <- MCPolicy
  Prefix <- MCPrefix
SPECIFICATION PartsSpec
INVARIANTS
  SettingsTypeOK
  ClientsAreOfOneTable
  StoredTimeoutsParse
  StoreTypeOK
  ImportRestores
  PageTypeOK
  LastingImagesAreListed
  ListedWasThere
  RoutedAsListed
  LastDefinitionWins
  CpuGaugeIsLastInterval
  RulesAreShown
PROPERTIES
  LocksAreReturned
  LastingRowsAreExported
CHECK_DEADLOCK FALSE
