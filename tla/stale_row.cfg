CONSTANTS
  u1 = u1
  u2 = u2
  a = a
  b = b
  c = c
  d = d
  svc = svc
  set = set
  Blank = Blank
  User = {u1, u2}
  PackageName = {a, b}
  Command = {c, d}
  Service = {svc}
  Setting = {set}
  SettingValue = {c, d}
  Post <- MCPost
  Database <- MCDatabase
  MaxId = 2
  MaxTurns = 3
SPECIFICATION StoreSpec
PROPERTIES
  DeletesTheRowShown
CHECK_DEADLOCK FALSE
