SPECIFICATION QueueSpec
CONSTANTS
  Recipients = {alice}
  Amounts <- MCAmounts
  Transfers <- MCTransfers
  SharePrices <- MCSharePrices
  E27_PRECISION_BASE = 4
  MaxRequests = 4
  Balances <- MCBalances
INVARIANTS
  QueueInv
  HintSearchCorrect
  LockedBalanceCoversClaims
PROPERTIES
  HintsNeverGoStale
  PaidOnce
