CONSTANTS
  NoRepo = NoRepo
  ALL_HOSTS = ALL_HOSTS
  app = app
  tool = tool
  owner_app = owner_app
  h1 = h1
  h2 = h2
  old = old
  new = new
  Topologies <- MCTopologies
  Hosts <- MCHosts
SPECIFICATION IndexSpec
INVARIANT SkippedIsNotSent
CHECK_DEADLOCK FALSE
