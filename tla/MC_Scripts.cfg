SPECIFICATION ScriptsSpec
CONSTANTS
  Plans <- MCPlans
  OwnTags = TRUE
  OtherTags <- MCOtherTags
  MaxMishaps = 2
  Defective = TRUE
  Upgradable = {"L2CrossDomainMessenger"}
  MaxUpgrades = 1
  MaxEdits = 1
  MaxKills = 1
INVARIANTS
  InstalledIsRecorded
  NothingOverlooked
  DocsAreCurrent
PROPERTIES
  PlanCompletes
CHECK_DEADLOCK FALSE
