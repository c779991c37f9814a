SPECIFICATION ApplySpec
CONSTANTS
  Tasks = {t1}
  Cells = {c1, c2}
  c1 = c1
  c2 = c2
  Rows <- MCRows
  NoRow = NoRow
  NoEntry = NoEntry
  Parts = 2
  CompleteNum = 99
  CompleteDen = 100
  Times = {1, 2}
  MaxPasses = 2
SYMMETRY CellSymmetry
INVARIANT CoverageFromOriginal
INVARIANT StaleWhenNewer
