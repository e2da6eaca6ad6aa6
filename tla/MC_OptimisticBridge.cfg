SPECIFICATION BridgeSpec
CONSTANTS
  w1 = w1
  alice = alice
  bob = bob
  Withdrawals <- MCWithdrawals
  OutputRoots <- MCOutputRoots
  Value <- MCValue
  Sender <- MCSender
  Target <- MCTarget
  Accounts <- MCAccounts
  PORTAL = portal
  YIELD_MANAGER = yieldManager
  DEFAULT_L2_SENDER = noSender
  NoWithdrawal = noWithdrawal
  MaxDeposits = 0
  Recipients <- MCRecipients
  Amounts <- MCAmounts
  Transfers <- MCTransfers
  SharePrices <- MCSharePrices
  E27_PRECISION_BASE = 2
  MaxRequests = 2
  Balances <- MCBalances
  SUBMISSION_INTERVAL = 2
  L2_BLOCK_TIME = 1
  FINALIZATION_PERIOD_SECONDS = 2
  StartingBlockNumbers <- MCStartingBlockNumbers
  StartingTimestamps <- MCStartingTimestamps
  DeployTime = 2
  MaxTime = 9
  MaxOutputs = 3
INVARIANTS
  OracleInv
  IndexAfterIsFirst
  OnlySentFinalized

PROPERTIES
  FinalizedOutputsImplemented
  WithdrawalsDelivered
