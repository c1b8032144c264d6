SPECIFICATION CommissionSpec
CONSTANTS
  N = 4
  PageSize = 1
  Budget = 3
  MaxDepth = 2
  MaxTier = 2
  Window = 2
  Searches = {{1, 2, 4}}
  MaxClock = 2
  Whole = 10
  Offers <- MCOffers
  Bonuses <- MCBonuses
  Tiers <- MCTiers
  Ranks = {1}
  Earnings = {0, 5}
  Amounts = {9}
  Dates = {0, 2}
  MaxVersions = 2
  None = None
INVARIANTS
  ContextIsComplete
  NobodyShownTwice
  NobodyMissing
  ShownInScope
  EveryLevelToItsHeir
  ReviewCoversBonuses
PROPERTIES
  OnlyTierEditsRefuse
  PlanStaysFrozen
CHECK_DEADLOCK FALSE
