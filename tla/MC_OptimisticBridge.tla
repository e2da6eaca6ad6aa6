------------------------- MODULE MC_OptimisticBridge -------------------------
EXTENDS OptimisticBridge

CONSTANTS w1, alice, bob

MCWithdrawals == {w1}
MCOutputRoots == {{}, {w1}}
MCValue == [w \in MCWithdrawals |-> 0]
MCSender == [w \in MCWithdrawals |-> alice]
MCTarget == [w \in MCWithdrawals |-> bob]
MCAccounts == {alice, bob}
MCRecipients == {PORTAL}
MCAmounts == {}
MCTransfers == {}
MCBalances == 0 .. 4
MCSharePrices == {1}
MCStartingBlockNumbers == {0, 5}
MCStartingTimestamps == {0, 2}
=============================================================================
