--------------------------- MODULE MC_PatexPortal ---------------------------
EXTENDS PatexPortal

CONSTANTS w1, w2, alice, bob

MCWithdrawals == {w1, w2}
MCOutputRoots == {{w1}, {w1, w2}}
MCValue == [w \in MCWithdrawals |-> IF w = w1 THEN 1 ELSE 2]
MCSender == [w \in MCWithdrawals |-> IF w = w1 THEN alice ELSE bob]
MCTarget == [w \in MCWithdrawals |-> bob]
MCAccounts == {alice, bob}
MCRecipients == {PORTAL}
MCAmounts == {2}
MCTransfers == {2}
MCBalances == 0 .. 4
MCSharePrices == {1, 2, 3}
MCStartingBlockNumbers == {0}
MCStartingTimestamps == {0, 2}
=============================================================================
