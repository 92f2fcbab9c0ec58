SPECIFICATION Spec
CONSTANTS
  Stmt = {t1}
  Session = {s1}
  NewSession = NewSession
  NoSession = NoSession
  Work = {w1}
  Dsns <- MCDsns
  ReExecute = TRUE
  ParallelFirst = FALSE
INVARIANTS
  RollbackUndoes
SYMMETRY Symmetry
