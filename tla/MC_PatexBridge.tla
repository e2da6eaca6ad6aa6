---------------------------- MODULE MC_PatexBridge ----------------------------
EXTENDS PatexBridge

CONSTANTS alice, zero, messenger, usdt, dsr

MCAmounts == {1, 2}
MCTransfers == 0 .. 2 * MaxSupply
MCBalances == 0 .. 100
MCSharePrices == 0 .. E27_PRECISION_BASE
MCInsuranceTerms == {}
=============================================================================
