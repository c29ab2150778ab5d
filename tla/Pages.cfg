CONSTANTS
  None = None
  Missing = Missing
  Hero <- MCHero
  RoleOfHero <- MCRoleOfHero
  HeroRole <- MCHeroRole
  KnownComparison <- MCComparison
  CategoryId <- MCCategoryId
  StatCategory <- MCStatCategory
  Localized <- MCLocalized
  PluralCategory <- MCPluralCategory
  PluralStat <- MCPluralStat
  Block <- MCBlock
  Bar <- MCBar
  StatCard <- MCStatCard
  Row <- MCRow
  Wrapper <- MCWrapper
  Frame <- MCFrame
  MaxEdits = 3
  English = "en"
  Locale = {"en", "fr"}
  NameIn <- MCNameIn
  HeroOrder <- MCHeroOrder
  FirstHeroes = 2
  Entry <- MCEntry
  Video <- MCVideo
  Player <- MCPlayer
  MaxSiteEdits = 4
SPECIFICATION PagesSpec
INVARIANTS PagesTypeOK EveryAnswerIsServable RoutesAgree NotesNameTheRightHero VideosStayWithTheirAbility SearchPagesPartition
PROPERTIES StrangersCostTheirRow
CHECK_DEADLOCK FALSE
