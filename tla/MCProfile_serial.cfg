SPECIFICATION Spec
CONSTANTS
  a = a  b = b  c = c  web = web  db = db  mysql = mysql
  v0 = v0  v1 = v1  v2 = v2  None = None
  Params = {a, b, c}
  Values = {v0, v1, v2}
  Profiles = {web, db}
  Setting <- MCSetting
  Classes = {mysql}
  ProfileType <- MCProfileType
  Clients = {1}
  Monitor = Monitor
  Serial = TRUE
  MaxCommands = 3
  MaxCrashes = 2
  Faults = {}
INVARIANTS TypeOK Undoable ActivationExact
PROPERTIES BootKeepsProfile
