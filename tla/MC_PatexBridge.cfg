SPECIFICATION BridgeSpec
CONSTANTS
  alice = alice
  zero = zero
  messenger = messenger
  usdt = usdt
  dsr = dsr
  Recipients = {alice, zero, messenger}
  Amounts <- MCAmounts
  Transfers <- MCTransfers
  SharePrices <- MCSharePrices
  E27_PRECISION_BASE = 3
  MaxRequests = 2
  Balances <- MCBalances
  Providers = {dsr}
  Delayed = {}
  BASIS_POINTS = 1
  InsuranceTerms <- MCInsuranceTerms
  InsuranceFunds = 0
  NoInsurance = noInsurance
  CLAIM_BATCH = 1
  MaxUnstakes = 0
  MaxSupply = 2
  MaxMessages = 3
  UsdTokens = {dai, usdt}
  DAI = dai
  Supported = {usdt}
  RefusedOnL1 = {messenger}
  RefusedOnL2 = {zero}
INVARIANTS
  USDBAccounted
PROPERTIES
  QueueImplemented
