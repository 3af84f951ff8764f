CONSTANTS
  h1 = h1
  h2 = h2
  s1 = s1
  s2 = s2
  s3 = s3
  n1 = n1
  n2 = n2
  up = up
  down = down
  NoDevice = NoDevice
  Host = {h1, h2}
  Stream = {s1, s2, s3}
  Service = {n1, n2}
  Status = {up, down}
  Hostname <- MCHostname
  Report <- MCReport
SPECIFICATION Spec
INVARIANTS
  TypeOK
  IdsAreOwnRows
  StatusIsItsHosts
  SecondReportIsStored
SYMMETRY Symmetry
CHECK_DEADLOCK FALSE
