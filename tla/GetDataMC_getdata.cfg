SPECIFICATION Spec
CONSTANTS
  WireWcharSize = 2
  CastSaturates = FALSE
  Rows <- MCRows
  Buffers <- MCBuffers
  Asked <- MCAsked
  Bindable <- MCBindable
  Bindings <- MCBindings
INVARIANTS
  PiecesInOrder
  WholeCharText
  
  IntegersExact
  BoundRow
CONSTRAINT
  Followed
