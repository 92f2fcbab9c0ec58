SPECIFICATION FetchingSpec
CONSTANTS
  pages = pages
  single = single
  empty = empty
  child = child
  catalog = catalog
  NoSource = NoSource
  Source = {pages, single, empty, child, catalog}
  Kind <- MCKind
  Upto <- MCUpto
  Api <- AllApi
  BatchesFail = TRUE
  RowsetSizes = {1, 2, 3, 4}
  MaxRowsValues = {0, 1}
INVARIANTS
  TypeOK
  RowsInOrder
  NoDataMeansAll
  CursorOnLastRow
PROPERTY
  FetchingEnds
