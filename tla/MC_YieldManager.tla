--------------------------- MODULE MC_YieldManager ---------------------------
EXTENDS YieldManager

MCAmounts == {2}
MCTransfers == 0 .. 2 * MaxSupply
MCBalances == 0 .. 100
MCSharePrices == 0 .. E27_PRECISION_BASE
MCInsuranceTerms == {[feeBips |-> 1, buffer |-> 0]}
=============================================================================
