SPECIFICATION LedgersSpec
CONSTANTS
  Accounts = {alice, bob}
  InitialPrice = 2
  Spenders = {bob}
  Approvals <- MCApprovals
  Unlimited = unlimited
  MaxSupply = 7
  InitialEther = 4
  MaxEther = 5
  Contracts = {dapp, factory}
  Nobody = nobody
  NotSet = notSet
  BIPS = 4
  Governors = {}
  Rates <- MCRateChoices
  InitialRates <- MCInitialRates
  MaxCredit = 2
  MaxTime = 2
  Configs <- MCConfigs
  InitialConfig <- MCInitialConfig
  GasLimits <- MCGasLimits
  Amounts <- MCAmounts
  InitialGasLimit = 7
  InitialBaseFee = 12
  MaxBlock = 5
  art = art
  land = land
  artOnL2 = artOnL2
  otherArtOnL2 = otherArtOnL2
  MaxMessages = 4
  Users = {alice, vault}
  Rejecting = {vault}
  BRIDGE = bridge
  NOBODY = nobody
  L1Tokens = {art, land}
  L2Tokens = {artOnL2, otherArtOnL2, foreign}
  Compliant = {artOnL2, otherArtOnL2}
  remoteToken <- MCRemoteToken
  TokenIds = {1}
CHECK_DEADLOCK FALSE
SYMMETRY MCSymmetry
INVARIANTS
  AccountsAdd
  SupplyIsCovered
  GasCovered
  BlocksFit
  DecayIsStepping
  EscrowHeld
  TokensHaveOneClaim
PROPERTIES
  YieldReachesHolders
