SPECIFICATION ManagerSpec
CONSTANTS
  Recipients = {alice}
  Amounts <- MCAmounts
  Transfers <- MCTransfers
  SharePrices <- MCSharePrices
  E27_PRECISION_BASE = 8
  MaxRequests = 2
  Balances <- MCBalances
  Providers = {lido}
  Delayed = {lido}
  BASIS_POINTS = 2
  InsuranceTerms <- MCInsuranceTerms
  InsuranceFunds = 1
  NoInsurance = noInsurance
  CLAIM_BATCH = 2
  MaxUnstakes = 2
  MaxSupply = 4
INVARIANTS
  Backed
  HeldOrRequested
PROPERTIES
  NoAdvantageInBeingEarly
