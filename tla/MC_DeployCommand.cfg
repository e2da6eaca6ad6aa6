SPECIFICATION DeploySpec
CONSTANTS
  Plans <- AllAtOnce
  OwnTags = FALSE
  OtherTags = {}
  MaxMishaps = 1
PROPERTIES
  DeployCommandCompletes
CHECK_DEADLOCK FALSE
