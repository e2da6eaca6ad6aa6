--------------------------- MODULE ResourceMetering ---------------------------
(***************************************************************************)
(* contracts/L1/ResourceMetering.sol, the market for the gas of deposits,   *)
(* with the configuration L1/SystemConfig.sol lets its owner set.  The      *)
(* base fee follows the gas bought in the last block that had a deposit,    *)
(* and decays over the blocks that had none.  The price itself is burnt as  *)
(* gas and left out.                                                        *)
(***************************************************************************)
EXTENDS Integers, FiniteSetsExt

CONSTANTS
  Configs,               \* configurations the owner may try to set
  InitialConfig, InitialGasLimit, InitialBaseFee,
  GasLimits,             \* gas limits the owner may try to set
  Amounts,               \* of gas to buy
  MaxBlock

VARIABLES
  config,                \* SystemConfig: the resource configuration
  gasLimit,              \*   and the gas limit of an L2 block
  params,
  blockNumber,
  bought,                \* history: gas bought in this block
  limit                  \* history: the largest maxResourceLimit in this block

meteringVars == <<config, gasLimit, params, blockNumber, bought, limit>>

Config ==
  [maxResourceLimit : Nat, elasticityMultiplier : Nat, baseFeeMaxChangeDenominator : Nat,
   minimumBaseFee : Nat, maximumBaseFee : Nat, systemTxMaxGas : Nat]

ResourceParams == [prevBaseFee : Nat, prevBoughtGas : Nat, prevBlockNum : Nat]

-----------------------------------------------------------------------------
(* SystemConfig *)

\* The L2 gas limit has to leave room for the deposits of a block.
minimumGasLimit(c) == c.maxResourceLimit + c.systemTxMaxGas

\* The checks of _setResourceConfig.
Sane(c, gas) ==
  /\ c.minimumBaseFee <= c.maximumBaseFee
  /\ c.baseFeeMaxChangeDenominator > 0
  /\ minimumGasLimit(c) <= gas
  /\ c.elasticityMultiplier > 0
  /\ c.maxResourceLimit % c.elasticityMultiplier = 0

ASSUME MeteringAssumption ==
  /\ Configs \subseteq Config /\ InitialConfig \in Config
  /\ InitialGasLimit \in Nat /\ GasLimits \subseteq Nat
  /\ InitialBaseFee \in Nat
  /\ Amounts \subseteq Nat
  /\ MaxBlock \in Nat
  /\ Sane(InitialConfig, InitialGasLimit)

setResourceConfig(c) ==
  /\ Sane(c, gasLimit)
  /\ config' = c
  /\ limit' = Max({limit, c.maxResourceLimit})
  /\ UNCHANGED <<gasLimit, params, blockNumber, bought>>

GasLimitAllowed(gas) == gas >= minimumGasLimit(config)

setGasLimit(gas) ==
  /\ GasLimitAllowed(gas)
  /\ gasLimit' = gas
  /\ UNCHANGED <<config, params, blockNumber, bought, limit>>

-----------------------------------------------------------------------------
(* The base fee *)

target == config.maxResourceLimit \div config.elasticityMultiplier

denominator == config.baseFeeMaxChangeDenominator

\* Division of signed integers truncates towards zero.
SDiv(a, b) == IF a >= 0 THEN a \div b ELSE -((-a) \div b)

Clamp(fee) ==
  LET atLeast == Max({fee, config.minimumBaseFee}) IN Min({atLeast, config.maximumBaseFee})

\* The base fee of the block after one in which gas was bought.
NextBaseFee(fee, gas) ==
  Clamp(fee + SDiv(fee * (gas - target), target * denominator))

\* The powers of x.
Power(x) == LET power[n \in Nat] == IF n = 0 THEN 1 ELSE x * power[n - 1] IN power

\* Arithmetic.cdexp: fee * (1 - 1/denominator)^blocks, in fixed point arithmetic
\* that may fall short of a whole number.
cdexp(fee, blocks) ==
  LET numerator == fee * Power(denominator - 1)[blocks]
      divisor   == Power(denominator)[blocks]
      exact     == numerator \div divisor
  IN  IF numerator % divisor = 0 /\ exact > 0 THEN {exact - 1, exact} ELSE {exact}

\* Bug: the block with the deposits is counted among the empty ones.
EmptyBlocks_OneMore(blockDiff) == blockDiff

EmptyBlocks(blockDiff) == blockDiff - 1

Decayed(fee, blockDiff) ==
  IF blockDiff > 1 THEN {Clamp(f) : f \in cdexp(fee, EmptyBlocks(blockDiff))} ELSE {fee}

\* The base fees that blockDiff blocks later may have.
BaseFees(blockDiff) ==
  IF blockDiff = 0 THEN {params.prevBaseFee}
  ELSE Decayed(NextBaseFee(params.prevBaseFee, params.prevBoughtGas), blockDiff)

\* No division by a target of zero, and no logarithm of zero in the fixed point
\* library when blocks were skipped.
Computable(blockDiff) ==
  /\ blockDiff > 0 => target > 0
  /\ blockDiff > 1 => denominator > 1

\* Bug: the block number is not updated.
ParamsAfter_KeepBlock(fee, gas) ==
  [prevBaseFee |-> fee, prevBoughtGas |-> gas, prevBlockNum |-> params.prevBlockNum]

ParamsAfter(fee, gas) ==
  [prevBaseFee |-> fee, prevBoughtGas |-> gas, prevBlockNum |-> blockNumber]

\* A deposit.
metered(amount) ==
  LET blockDiff == blockNumber - params.prevBlockNum
      gas == (IF blockDiff > 0 THEN 0 ELSE params.prevBoughtGas) + amount
  IN  /\ Computable(blockDiff)
      /\ gas <= config.maxResourceLimit
      /\ \E fee \in BaseFees(blockDiff) : params' = ParamsAfter(fee, gas)
      /\ bought' = bought + amount
      /\ UNCHANGED <<config, gasLimit, blockNumber, limit>>

NextBlock ==
  /\ blockNumber < MaxBlock
  /\ blockNumber' = blockNumber + 1
  /\ bought' = 0
  /\ limit' = config.maxResourceLimit
  /\ UNCHANGED <<config, gasLimit, params>>

MeteringInit ==
  /\ config = InitialConfig
  /\ gasLimit = InitialGasLimit
  /\ params = [prevBaseFee |-> InitialBaseFee, prevBoughtGas |-> 0, prevBlockNum |-> 0]
  /\ blockNumber = 0
  /\ bought = 0
  /\ limit = InitialConfig.maxResourceLimit

MeteringNext ==
  \/ \E amount \in Amounts : metered(amount)
  \/ \E c \in Configs : setResourceConfig(c)
  \/ \E gas \in GasLimits : setGasLimit(gas)
  \/ NextBlock

MeteringSpec == MeteringInit /\ [][MeteringNext]_meteringVars
-----------------------------------------------------------------------------
(* Properties *)

\* Types; a block is never before the last update, whose number is subtracted.
MeteringTypeOK ==
  /\ config \in Config
  /\ gasLimit \in Nat
  /\ params \in ResourceParams /\ params.prevBlockNum <= blockNumber
  /\ blockNumber \in Nat
  /\ bought \in Nat
  /\ limit \in Nat

\* However its owner changes limits and configuration, SystemConfig never lets an
\* L2 block be too small for the deposits an L1 block may hold.  All the deposits
\* of a block together buy no more than a limit in force during that block, though
\* the counter is only reset by the next deposit, whenever that is.
DepositsFit ==
  /\ MeteringTypeOK
  /\ minimumGasLimit(config) <= gasLimit
  /\ bought <= limit

\* The base fee after a number of blocks, were there a deposit of no gas in each.
StepwiseBaseFee[blockDiff \in Nat] ==
  IF blockDiff = 0 THEN params.prevBaseFee
  ELSE NextBaseFee(StepwiseBaseFee[blockDiff - 1],
                   IF blockDiff = 1 THEN params.prevBoughtGas ELSE 0)

\* The closed form that stands for skipped blocks gives the fee that updating it
\* block by block would give, but for the rounding, which is at most one a block.
SkippingIsStepping ==
  \A blockDiff \in 1 .. MaxBlock :
    Computable(blockDiff) =>
      \A fee \in BaseFees(blockDiff) :
        StepwiseBaseFee[blockDiff] - fee \in 0 .. blockDiff - 1

=============================================================================
