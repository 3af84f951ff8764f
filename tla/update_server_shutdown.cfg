CONSTANTS
  s1 = s1
  s2 = s2
  base = base
  extra = extra
  h1 = h1
  h2 = h2
  repo = repo
  Channel = {s1, s2}
  Message = {}
  Nil = Nil
  NoRepo = NoRepo
  ALL_HOSTS = ALL_HOSTS
  SubCap = 1
  ReqCap = 1
  MaxNil = 1
  Unreliable = {}
  StopRequested = TRUE
  topology <- MCtopology
  Hostname <- MCHostname
  Event <- MCEvent
SPECIFICATION ProcessSpec
INVARIANT
  OnlyUntakenStreamsHang
PROPERTIES
  StopIsNotAnError
  StopReleasesStreams
  ProcessEnds
CHECK_DEADLOCK FALSE
