CONSTANTS
  Request = {r1, r2}
  Worker = {w1, w2}
  Key = {bare, v1}
  Bare = bare
  Warm = TRUE
  CallsFail = TRUE
  LayoutMoves = FALSE
  Announced = TRUE
  MaxVersion = 2
  MaxDeploys = 1
SPECIFICATION StaticSpec
SYMMETRY Symmetry
INVARIANT StaticTypeOK
PROPERTY RowNeverRegresses
