CONSTANTS
  Request = {r1}
  Worker = {w1}
  Poller = {p1}
  Tag = tag
  Id = id
  Nobody = nobody
  Scenes <- BothSpellings
  MaxVersion = 2
SPECIFICATION Spec
INVARIANT MatchIsCurrent
