-------------------------- MODULE MC_WithdrawalQueue -------------------------
EXTENDS WithdrawalQueue

MCAmounts == {1, 3}
MCTransfers == {1, 3}
MCBalances == 0 .. 6
MCSharePrices == {2, 3, 4, 5}
=============================================================================
