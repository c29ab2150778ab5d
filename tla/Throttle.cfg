CONSTANTS
  MinDelay = 1
  StartDelay = 2
  PenaltyDelay = 3
  MaxDelay = 4
  AimdDelta = 1
  SlowStartN = 2
  AimdN = 2
  PenaltyDuration = 3
  TicksPerSecond = 2
  app = app
  worker = worker
  a1 = a1
  a2 = a2
  w1 = w1
  Process <- MCProcess
  Task = {a1, a2}
  ProcessOf <- MCProcessOf
  NoTask = NoTask
  Settings <- MCSettings
SPECIFICATION FairSpec
INVARIANTS TypeOK PacedPerProcess
PROPERTIES NoRecoveryAlone ImplementsController Recovers RequestSettles
