CONSTANTS
  MinDelay = 1
  StartDelay = 2
  PenaltyDelay = 4
  MaxDelay = 8
  AimdDelta = 1
  SlowStartN = 2
  AimdN = 3
  PenaltyDuration = 6
  TicksPerSecond = 2
  app = app
  worker = worker
  a1 = a1
  a2 = a2
  w1 = w1
  Process <- MCProcess
  Task = {a1, a2}
  ProcessOf <- MCProcessOf
  NoTask = NoTask
  Settings <- MCSteady
SPECIFICATION Spec
PROPERTY NoRecoveryInPenalty
