CONSTANTS
  m1 = m1
  m2 = m2
  m3 = m3
  Release = {m1, m2, m3}
  Wanted = {m1, m2}
  Steps = 2
  Capacity = 2
  MaxFaults = 1
SPECIFICATION AgentFairSpec
INVARIANTS
  AgentTypeOK
  InstallsInOrder
  AgentCaughtUp
PROPERTIES
  ReportsResume
  InterruptCloses
CHECK_DEADLOCK FALSE
