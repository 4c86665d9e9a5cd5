SPECIFICATION Spec
CONSTANTS
  a = a  b = b  c = c  web = web  db = db  mysql = mysql
  v0 = v0  v1 = v1  v2 = v2  None = None
  Params = {b}
  Values = {v0, v1, v2}
  Profiles = {web, db}
  Setting <- OneParam
  Classes = {mysql}
  ProfileType <- MCProfileType
  Clients = {1, 2}
  Monitor = Monitor
  Serial = FALSE
  MaxCommands = 2
  MaxCrashes = 1
  Faults = {"get", "apply", "resume", "db", "path"}
PROPERTIES RowKept
