CONSTANTS
  s1 = s1
  s2 = s2
  base = base
  extra = extra
  h1 = h1
  h2 = h2
  repo = repo
  Channel = {s1, s2}
  Message = {base, extra}
  Nil = Nil
  NoRepo = NoRepo
  ALL_HOSTS = ALL_HOSTS
  SubCap = 2
  ReqCap = 1
  MaxNil = 0
  Unreliable = {s1, s2}
  StopRequested = FALSE
  topology <- MCtopology
  Hostname <- MCHostname
  Event <- MCEvent
SPECIFICATION FairSpec
INVARIANTS
  ServerTypeOK
  NoFaultWhileRunning
  CountIsExact
  UpToDateStreamMissedNothing
PROPERTIES
  BroadcastIsTaken
  RequestsAreServed
  DeadStreamLeavesAtNextRelease
CHECK_DEADLOCK FALSE
