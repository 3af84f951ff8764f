CONSTANTS
  s1 = s1
  s2 = s2
  base = base
  extra = extra
  h1 = h1
  h2 = h2
  repo = repo
  Channel = {s1}
  Message = {base}
  Nil = Nil
  NoRepo = NoRepo
  ALL_HOSTS = ALL_HOSTS
  SubCap = 1
  ReqCap = 1
  MaxNil = 0
  Unreliable = {s1, s2}
  StopRequested = FALSE
  topology <- MCtopology
  Hostname <- MCHostname
  Event <- MCEvent
SPECIFICATION FairSpec
PROPERTY DisconnectedIsForgotten
CHECK_DEADLOCK FALSE
