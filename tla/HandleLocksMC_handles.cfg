SPECIFICATION Spec
CONSTANTS
  env1 = env1
  conn1 = conn1
  stmt1 = stmt1
  stmt2 = stmt2
  desc1 = desc1
  Thread = {t1, t2}
  Env = {env1}
  Conn = {conn1}
  Stmt = {stmt1, stmt2}
  Desc = {desc1}
  Parent <- MCParent
  Global = Global
  Implicit = Implicit
  Nobody = Nobody
  NoMutex = NoMutex
INVARIANTS
  TypeOK
  FamiliesGuarded
  NoUseAfterFree
  DisconnectedIsEmpty
  NoOrphans
