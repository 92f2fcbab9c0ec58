SPECIFICATION Spec
CONSTANTS
  MaxParams = 2
  MaxSets = 2
  Bindings <- MCBindings
  Texts <- MCTexts
  Servers <- MCServers
  Column = 2
  ServerColumn = 2
  PutKinds = {"data", "null", "nts"}
  MaxPuts = 2
  MaxRounds = 2
CONSTRAINTS
  UntilLastResult
  BoundInSomeWays
ACTION_CONSTRAINTS
  TroubleFirst
  CancelsWhenBusy
  OnePutOnTraces
INVARIANTS
  TypeOK
  FirstDialogueSentAsGiven
  SetsRunOnce
  SetsReported
  DialogueContinues
CHECK_DEADLOCK FALSE
