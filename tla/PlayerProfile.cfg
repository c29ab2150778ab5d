CONSTANTS
  Request = {r1}
  Worker = {w1}
  Poller = {p1}
  Tag = tag
  Id = id
  Nobody = nobody
  Scenes <- AllScenes
  MaxVersion = 2
SPECIFICATION FairSpec
INVARIANTS TypeOK MatchTrusted
PROPERTY Converges
