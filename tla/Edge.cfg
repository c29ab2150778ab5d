CONSTANTS
  None = None
  Missing = Missing
  Key = {"id", "tag"}
  Tag = "tag"
  Client = {c1, c2}
  InitialRetry = 1
  RetryMultiplier = 3
  MaxRetry = 2
  MinRetention = 2
  MaxCount = 2
  MaxRaces = 1
  KnownRateHero = {"ana"}
  RatesOf <- MCRatesOf
  Slices <- MCSlices
  MaxDay = 2
  MaxRenamings = 2
SPECIFICATION Spec
INVARIANTS TypeOK RatesAreCompetitive RolloutServesTheNew
PROPERTIES UnknownIsFoundAgain
CHECK_DEADLOCK FALSE
