--------------------------------- MODULE Gas ---------------------------------
(***************************************************************************)
(* contracts/L2/Gas.sol and the access to it, contracts/L2/Patex.sol.       *)
(*                                                                          *)
(* The L2 client credits a contract in mode CLAIMABLE with the fees spent   *)
(* on calling it.  The longer the ether has matured, the larger the share   *)
(* its governor may claim: a claim redeems ether-seconds.                   *)
(*                                                                          *)
(* Claims send ether after all changes of state and are one step.  The      *)
(* packing of the parameters into one word is left out: all ether, over all *)
(* of the 32-bit time, makes less than the 2^120 ether-seconds it allows.   *)
(***************************************************************************)
EXTENDS Integers, FiniteSetsExt, Functions

CONSTANTS
  Contracts, Governors,
  Nobody,                \* 0xdead, which the predeploys take for governor
  NotSet,                \* address(0)
  BIPS,                  \* 10000
  Rates,                 \* parameters the admin may try to set
  InitialRates,
  MaxCredit, MaxTime

GasVoid == "VOID"
GasClaimable == "CLAIMABLE"
GasMode == {GasVoid, GasClaimable}

VARIABLES
  rates,                 \* zeroClaimRate, baseGasSeconds, ...
  gasParams,             \* per contract, as last written
  governorMap,
  balance,               \* ether of the Gas contract
  now,
  credited,              \* history: all ether credited
  matured,               \* history: ether-seconds of each contract
  redeemed               \* history: the part of them that paid for claim rates

gasVars == <<rates, gasParams, governorMap, balance, now, credited, matured, redeemed>>

ClaimRates ==
  [zeroClaimRate : Nat, baseGasSeconds : Nat, baseClaimRate : Nat,
   ceilGasSeconds : Nat, ceilClaimRate : Nat]

GasParams == [etherSeconds : Nat, etherBalance : Nat, lastUpdated : Nat, mode : GasMode]

ValidRates(r) ==
  /\ r.zeroClaimRate < r.baseClaimRate
  /\ r.baseClaimRate < r.ceilClaimRate
  /\ r.baseGasSeconds < r.ceilGasSeconds
  /\ r.baseGasSeconds > 0
  /\ r.ceilClaimRate <= BIPS

ASSUME GasAssumption ==
  /\ IsFiniteSet(Contracts)
  /\ BIPS \in Nat \ {0} /\ MaxCredit \in Nat /\ MaxTime \in Nat
  /\ Rates \subseteq ClaimRates
  /\ InitialRates \in ClaimRates /\ ValidRates(InitialRates)
  /\ {Nobody, NotSet} \cap (Contracts \cup Governors) = {}

GasInit ==
  /\ rates = InitialRates
  /\ gasParams = [c \in Contracts |-> [etherSeconds |-> 0, etherBalance |-> 0,
                                       lastUpdated |-> 0, mode |-> GasVoid]]
  /\ governorMap = [c \in Contracts |-> NotSet]
  /\ balance = 0
  /\ now = 0
  /\ credited = 0
  /\ matured = [c \in Contracts |-> 0]
  /\ redeemed = [c \in Contracts |-> 0]

-----------------------------------------------------------------------------
(* Parameters of a contract *)

EtherBalance(c) == gasParams[c].etherBalance

\* readGasParams brings the ether-seconds up to date.
EtherSeconds(c) ==
  gasParams[c].etherSeconds + EtherBalance(c) * (now - gasParams[c].lastUpdated)

UpdateGasParams(c, etherSeconds, etherBalance, mode) ==
  gasParams' = [gasParams EXCEPT ![c] =
    [etherSeconds |-> etherSeconds, etherBalance |-> etherBalance,
     lastUpdated |-> now, mode |-> mode]]

-----------------------------------------------------------------------------
(* The rate of a claim *)

\* Bug: a claim below the ceiling keeps its ether-seconds.
ClaimRate_Free(seconds, gasToClaim) ==
  IF seconds \div gasToClaim >= rates.ceilGasSeconds
  THEN [rate |-> rates.ceilClaimRate, seconds |-> gasToClaim * rates.ceilGasSeconds]
  ELSE [rate |-> rates.baseClaimRate, seconds |-> 0]

\* The rate, and the ether-seconds it takes.
ClaimRate(seconds, gasToClaim) ==
  LET staked     == seconds \div gasToClaim
      additional == ((rates.ceilClaimRate - rates.baseClaimRate)
                       * (staked - rates.baseGasSeconds))
                    \div (rates.ceilGasSeconds - rates.baseGasSeconds)
  IN  CASE staked < rates.baseGasSeconds ->
             [rate |-> rates.zeroClaimRate, seconds |-> 0]
        [] staked >= rates.ceilGasSeconds ->
             [rate |-> rates.ceilClaimRate, seconds |-> gasToClaim * rates.ceilGasSeconds]
        [] OTHER ->
             [rate |-> rates.baseClaimRate + additional, seconds |-> seconds]

CeilDiv(a, b) == IF a = 0 THEN 0 ELSE (a - 1) \div b + 1

\* The time ether has to mature for a rate.
SecondsFor(rate) ==
  rates.baseGasSeconds
    + CeilDiv((rate - rates.baseClaimRate) * (rates.ceilGasSeconds - rates.baseGasSeconds),
              rates.ceilClaimRate - rates.baseClaimRate)

AtMinClaimRate(c, minRate) ==
  LET seconds == SecondsFor(Max({minRate, rates.baseClaimRate}))
      gas     == Min({EtherSeconds(c) \div seconds, EtherBalance(c)})
  IN  [gas |-> gas, seconds |-> gas * seconds]

-----------------------------------------------------------------------------
(* Claims *)

Claimable(c, gasToClaim, seconds) ==
  /\ gasToClaim > 0
  /\ gasToClaim <= EtherBalance(c)
  /\ seconds <= EtherSeconds(c)

UserEther(gasToClaim, rate) == (gasToClaim * rate) \div BIPS

BalanceAfter(c, gasToClaim, rate) == EtherBalance(c) - gasToClaim

\* The ether leaves for the recipient and, as far as it is a penalty, for the
\* fee vault.
claimGas(c, gasToClaim, seconds) ==
  LET r == ClaimRate(seconds, gasToClaim) IN
  /\ Claimable(c, gasToClaim, seconds)
  /\ balance >= gasToClaim
  /\ UpdateGasParams(c, EtherSeconds(c) - r.seconds,
                     BalanceAfter(c, gasToClaim, r.rate), gasParams[c].mode)
  /\ balance' = balance - gasToClaim
  /\ redeemed' = [redeemed EXCEPT ![c] =
       @ + IF r.rate = rates.zeroClaimRate THEN 0
           ELSE gasToClaim * Min({seconds \div gasToClaim, rates.ceilGasSeconds})]
  /\ UNCHANGED <<rates, governorMap, now, credited, matured>>

claimAll(c) == claimGas(c, EtherBalance(c), EtherSeconds(c))

claimGasAtMinClaimRate(c, minRate) ==
  /\ minRate <= rates.ceilClaimRate
  /\ \/ minRate <= rates.zeroClaimRate /\ claimAll(c)
     \/ /\ minRate > rates.zeroClaimRate
        /\ claimGas(c, AtMinClaimRate(c, minRate).gas, AtMinClaimRate(c, minRate).seconds)

claimMax(c) == claimGasAtMinClaimRate(c, rates.ceilClaimRate)

-----------------------------------------------------------------------------
(* Configuration through Patex.  The yield modes are kept by the L2 client.  *)

Authorized(caller, c) ==
  caller = governorMap[c] \/ (governorMap[c] = NotSet /\ caller = c)

Governor == Contracts \cup Governors \cup {Nobody, NotSet}

setGasMode(c, mode) ==
  /\ UpdateGasParams(c, EtherSeconds(c), EtherBalance(c), mode)
  /\ UNCHANGED <<rates, balance, now, credited, matured, redeemed>>

setGovernor(c, governor) == governorMap' = [governorMap EXCEPT ![c] = governor]

configureContract(c, mode, governor) == setGasMode(c, mode) /\ setGovernor(c, governor)

configureGas(c, mode) == setGasMode(c, mode) /\ UNCHANGED governorMap

configureGovernor(c, governor) ==
  /\ setGovernor(c, governor)
  /\ UNCHANGED <<rates, gasParams, balance, now, credited, matured, redeemed>>

\* Every operation of Patex on the gas of a contract.
ByAuthorized(c) ==
  \/ \E mode \in GasMode, governor \in Governor : configureContract(c, mode, governor)
  \/ \E mode \in GasMode : configureGas(c, mode)
  \/ \E governor \in Governor : configureGovernor(c, governor)
  \/ claimAll(c)
  \/ \E minRate \in 0 .. BIPS : claimGasAtMinClaimRate(c, minRate)
  \/ claimMax(c)
  \/ \E gas \in 0 .. MaxCredit, seconds \in 0 .. MaxCredit * MaxTime : claimGas(c, gas, seconds)

-----------------------------------------------------------------------------
(* The admin of Gas, and the L2 client *)

updateAdminParameters(r) ==
  /\ ValidRates(r)
  /\ rates' = r
  /\ UNCHANGED <<gasParams, governorMap, balance, now, credited, matured, redeemed>>

adminClaimGas(c) ==
  /\ UpdateGasParams(c, 0, 0, GasVoid)
  /\ balance >= EtherBalance(c)
  /\ balance' = balance - EtherBalance(c)
  /\ UNCHANGED <<rates, governorMap, now, credited, matured, redeemed>>

\* Fees of a transaction that called c.
Credit(c, fees) ==
  /\ gasParams[c].mode = GasClaimable
  /\ credited + fees <= MaxCredit
  /\ UpdateGasParams(c, EtherSeconds(c), EtherBalance(c) + fees, GasClaimable)
  /\ balance' = balance + fees
  /\ credited' = credited + fees
  /\ UNCHANGED <<rates, governorMap, now, matured, redeemed>>

NextSecond ==
  /\ now < MaxTime
  /\ now' = now + 1
  /\ matured' = [c \in Contracts |-> matured[c] + EtherBalance(c)]
  /\ UNCHANGED <<rates, gasParams, governorMap, balance, credited, redeemed>>

GasNext ==
  \/ \E c \in Contracts, caller \in Contracts \cup Governors :
       Authorized(caller, c) /\ ByAuthorized(c)
  \/ \E c \in Contracts : adminClaimGas(c)
  \/ \E c \in Contracts, fees \in 1 .. MaxCredit : Credit(c, fees)
  \/ \E r \in Rates : updateAdminParameters(r)
  \/ NextSecond

GasSpec == GasInit /\ [][GasNext]_gasVars
-----------------------------------------------------------------------------
(* Properties *)

GasTypeOK ==
  /\ rates \in ClaimRates
  /\ gasParams \in [Contracts -> GasParams]
  /\ governorMap \in [Contracts -> Governor]
  /\ balance \in Nat /\ now \in Nat /\ credited \in Nat
  /\ matured \in [Contracts -> Nat]
  /\ redeemed \in [Contracts -> Nat]

\* The Gas contract holds exactly the ether of all contracts: no claim, with its
\* penalty, is paid from another's, none fails for lack of it, and no part of the
\* sum falls below zero.
GasBacked == GasTypeOK /\ balance = SumFunctionOnSet([c \in Contracts |-> EtherBalance(c)], Contracts)

\* An ether-second pays for a claim rate once: those left and those redeemed never
\* exceed those that matured, through claims at every rate, changes of mode and of
\* the rates, and updates at any time.
SecondsRedeemedOnce == \A c \in Contracts : EtherSeconds(c) + redeemed[c] <= matured[c]

\* Who asks for a minimum rate gets at least that rate, in spite of the rounding
\* to whole seconds and back to a rate.
MinClaimRateMet ==
  \A c \in Contracts, minRate \in rates.zeroClaimRate + 1 .. rates.ceilClaimRate :
    LET want == AtMinClaimRate(c, minRate) IN
    want.gas > 0 => ClaimRate(want.seconds, want.gas).rate >= minRate
=============================================================================
