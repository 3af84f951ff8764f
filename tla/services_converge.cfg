CONSTANTS
  h1 = h1
  h2 = h2
  s1 = s1
  s2 = s2
  s3 = s3
  n1 = n1
  n2 = n2
  up = up
  down = down
  NoDevice = NoDevice
  Host = {h1}
  Stream = {s1, s2}
  Service = {n1}
  Status = {up, down}
  Hostname <- MCHostname
  Report <- MCReportOne
SPECIFICATION FairSpec
PROPERTY TableConverges
CHECK_DEADLOCK FALSE
