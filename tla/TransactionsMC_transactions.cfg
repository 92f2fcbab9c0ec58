SPECIFICATION Spec
CONSTANTS
  Stmt = {t1, t2}
  Session = {s1, s2}
  NewSession = NewSession
  NoSession = NoSession
  Work = {w1}
  Dsns <- MCDsns
  ReExecute = FALSE
  ParallelFirst = FALSE
INVARIANTS
  TypeOK
  CommitKeeps
  RollbackUndoes
  DisconnectSettled
SYMMETRY Symmetry
VIEW View
