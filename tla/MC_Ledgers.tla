------------------------------ MODULE MC_Ledgers ------------------------------
(***************************************************************************)
(* Five systems that keep books: the two rebasing tokens, Gas,              *)
(* ResourceMetering and the pair of ERC721 bridges.  They share no state,   *)
(* so a behaviour is of one of them, as ledger says; the variables of the   *)
(* others keep a value.                                                     *)
(***************************************************************************)
EXTENDS USDB, WETHRebasing, Gas, ResourceMetering, ERC721Bridge, TLC

CONSTANTS art, land, artOnL2, otherArtOnL2

VARIABLE ledger

usdbOwnVars == <<pending, supplied>>
ledgerVars == <<ledger, wethVars, usdbOwnVars, gasVars, meteringVars, erc721Vars>>

-----------------------------------------------------------------------------
(* Values of constants *)

MCApprovals == {1}

MCRates(zero, base, ceil, baseSeconds, ceilSeconds) ==
  [zeroClaimRate |-> zero, baseGasSeconds |-> baseSeconds, baseClaimRate |-> base,
   ceilGasSeconds |-> ceilSeconds, ceilClaimRate |-> ceil]

MCInitialRates == MCRates(1, 2, 4, 1, 4)
MCRateChoices == {MCRates(0, 1, 3, 2, 3)}

\* The contracts that earn gas are alike, and no property names one.
MCSymmetry == Permutations(Contracts)

MCConfig(max, elasticity, denom, minFee, maxFee) ==
  [maxResourceLimit |-> max, elasticityMultiplier |-> elasticity,
   baseFeeMaxChangeDenominator |-> denom, minimumBaseFee |-> minFee,
   maximumBaseFee |-> maxFee, systemTxMaxGas |-> 1]

MCInitialConfig == MCConfig(4, 2, 4, 3, 40)
MCConfigs == {MCInitialConfig, MCConfig(6, 3, 2, 5, 30), MCConfig(2, 2, 3, 8, 10)}
MCGasLimits == {4, 6, 7}
MCAmounts == {0, 1, 3}

MCRemoteToken == [t \in {artOnL2, otherArtOnL2} |-> art]

-----------------------------------------------------------------------------
NoWETH == etherPrice = InitialPrice /\ etherPending = 0
            /\ weth = [shares |-> 0, remainder |-> 0] /\ world = weth

LedgersInit ==
  /\ GasInit /\ MeteringInit /\ ERC721Init
  /\ \/ ledger = "USDB" /\ USDBInit /\ NoWETH
     \/ /\ ledger \in {"WETH", "Gas", "ResourceMetering", "ERC721"}
        /\ WETHInit /\ pending = 0 /\ supplied = 0
  /\ ledger # "ERC721" => l1Owner = [t \in L1Tokens \X TokenIds |-> CHOOSE u \in Users : TRUE]

LedgersNext ==
  /\ UNCHANGED ledger
  /\ \/ /\ ledger = "USDB"
        /\ USDBNext
        /\ UNCHANGED <<nativeVars, gasVars, meteringVars, erc721Vars>>
     \/ /\ ledger = "WETH"
        /\ WETHNext
        /\ UNCHANGED <<usdbOwnVars, gasVars, meteringVars, erc721Vars>>
     \/ /\ ledger = "Gas"
        /\ GasNext
        /\ UNCHANGED <<wethVars, usdbOwnVars, meteringVars, erc721Vars>>
     \/ /\ ledger = "ResourceMetering"
        /\ MeteringNext
        /\ UNCHANGED <<wethVars, usdbOwnVars, gasVars, erc721Vars>>
     \/ /\ ledger = "ERC721"
        /\ ERC721Next
        /\ UNCHANGED <<wethVars, usdbOwnVars, gasVars, meteringVars>>

LedgersSpec == LedgersInit /\ [][LedgersNext]_ledgerVars

-----------------------------------------------------------------------------
(* Properties *)

\* The totals of both rebasing tokens are those of the accounts, and what an
\* account may claim is what it earned.
AccountsAdd == ledger \in {"USDB", "WETH"} => TotalsMatchAccounts /\ ClaimableIsEarned

\* Of USDB: nothing is created or lost by rounding, modes, claims or reports.  Of
\* WETH: it never owes more ether than it holds, though balances and supply are
\* rounded at prices of their own.
SupplyIsCovered ==
  /\ ledger = "USDB" => SupplyIsBacked
  /\ ledger = "WETH" => WETHSolvent

\* Gas holds the ether of all contracts, an ether-second pays for a rate once, and
\* a minimum rate that was asked for is met.
GasCovered == ledger = "Gas" => GasBacked /\ SecondsRedeemedOnce /\ MinClaimRateMet

\* However its owner changes limits and configuration, SystemConfig never lets an
\* L2 block be too small for the deposits of an L1 block, and these never exceed a
\* limit that was in force during the block.
BlocksFit == ledger = "ResourceMetering" => DepositsFit

\* The decay of the base fee over skipped blocks is what stepping through them
\* would give, but for the rounding.
DecayIsStepping == ledger = "ResourceMetering" => SkippingIsStepping

\* For each token in the escrow of the L1 bridge there is one claim, and for no other.
TokensHaveOneClaim == ledger = "ERC721" => OneClaimPerToken
=============================================================================
