CONSTANTS
  Request = {r1, r2}
  Worker = {w1}
  Key = {bare, v1}
  Bare = bare
  Warm = FALSE
  CallsFail = TRUE
  LayoutMoves = TRUE
  Announced = FALSE
  MaxVersion = 2
  MaxDeploys = 1
SPECIFICATION StaticFairSpec
PROPERTY Converges
