CONSTANTS
  Player = {p1}
  Tag = {t1}
  Owner <- MCOwner
  Device = {d1}
  Run = {n1}
  Reader = {q1}
  Nobody = nobody
  MaxRank = 2
  MaxStamp = 2
  MaxFaults = 1
SPECIFICATION FairSpec
PROPERTY MoveIsAnnounced
