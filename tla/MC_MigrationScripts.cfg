SPECIFICATION MigrationSpec
CONSTANTS
  deployer1 = deployer1
  multisig = multisig
  finalOwner = finalOwner
  People = {deployer1, multisig, finalOwner}
  DICTATOR = dictator
  PROXY_ADMIN = proxyAdmin
  MaxEther = 2
  Procedure = "phases"
  MaxKills = 1
INVARIANTS
  NothingStranded
  OneSystemAtATime
  NeverWaitsInVain
PROPERTIES
  MigrationEnds
CHECK_DEADLOCK FALSE
