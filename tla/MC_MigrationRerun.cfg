SPECIFICATION MigrationSpec
CONSTANTS
  deployer1 = deployer1
  multisig = multisig
  finalOwner = finalOwner
  People = {deployer1, multisig, finalOwner}
  DICTATOR = dictator
  PROXY_ADMIN = proxyAdmin
  MaxEther = 2
  Procedure = "SystemDictatorSteps"
  MaxKills = 1
INVARIANTS
  NeverWaitsInVain
CHECK_DEADLOCK FALSE
