CONSTANTS
  None = None
  Missing = Missing
  DivisionOrder <- MCDivisionOrder
  SessionGap = 1
  Request = {q1, q2}
  Section = {"quickplay", "competitive"}
  PlayedHero = {"ana", "mei"}
  Game <- MCGame
  MaxAge = 2
  MaxNow = 3
  Device = {d1}
  Registration <- MCRegistration
  ThePlayer = "id"
  PatchEntries <- MCPatchEntries
  PatchMaxAge = 0
  RecapWindow = 2
  MaxChanges = 3
  MaxGames = 3
  FewGames = 1
SPECIFICATION Spec
INVARIANTS TypeOK SessionsAddUp NoGamesInvented AlertedOnce
CHECK_DEADLOCK FALSE
