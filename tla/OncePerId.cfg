CONSTANTS
  Proc = {p1, p2, p3}
  Key = {k1, k2}
  LockId = {l1, l2, l3}
  NoLock = NoLock
  NoProc = NoProc
  Job = {j1, j2}
  Cron = {c1}
  Client = {a1, a2}
  Slots = 2
  Faulty = TRUE
  None = None
  MaxBacklog = 1
  MaxOverdue = 1
SPECIFICATION OnceSpec
INVARIANTS TypeOK MutualExclusion LockIsShared NoLostWakeup QueueTypeOK OneLivePerClaim
PROPERTIES ImplementsLine LineKeepsMoving ImplementsSlots Served
