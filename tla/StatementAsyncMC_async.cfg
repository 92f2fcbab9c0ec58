SPECIFICATION Spec
CONSTANTS
  sel = sel
  dml = dml
  script = script
  t1 = t1
  t2 = t2
  Query = {sel}
  StatementType <- MCStatementType
  ScriptJobs <- MCScriptJobs
  MaxChildren = 0
  Task = {t1, t2}
  Caller = caller
  NoQuery = NoQuery
  NoTask = NoTask
  Moved = Moved
  Api <- LifetimeApi
  AsyncModes <- On
  DriverManager = FALSE
INVARIANT
  NoOrphanWorker
PROPERTY
  ImplementsWorkerLifetime
SYMMETRY TaskSymmetry
VIEW LifetimeView
