CONSTANTS
  Player = {p1}
  Tag = {}
  Owner <- MCOwner
  Device = {d1, d2}
  Run = {n1}
  Reader = {q1}
  Nobody = nobody
  MaxRank = 2
  MaxStamp = 3
  MaxFaults = 1
SPECIFICATION FairSpec
INVARIANTS TypeOK ToldOnce
PROPERTY MoveIsAnnounced
