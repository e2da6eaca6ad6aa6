---------------------------- MODULE YieldManager ----------------------------
(***************************************************************************)
(* contracts/mainnet-bridge/YieldManager.sol with its yield providers       *)
(* (yield-providers/*.sol) and the insurance module (Insurance.sol).        *)
(*                                                                          *)
(* The manager holds what was bridged to L2, stakes part of it with the     *)
(* providers, reports the yield to L2 and pays the withdrawals.  A loss     *)
(* that no yield or insurance covers accumulates and is charged to the      *)
(* withdrawals as a share price below one.                                  *)
(*                                                                          *)
(* Two kinds of provider: a delayed one (Lido) unstakes through requests    *)
(* that its protocol finalizes later, possibly below the asked amount, and  *)
(* its insurance pays in the staked token; an immediate one (DSR) unstakes  *)
(* at once and its insurance pays in the manager's token.                   *)
(*                                                                          *)
(* l2Supply is what users hold on L2 and may still withdraw, deposits and   *)
(* reports under way included.  Calls are those the roles (owner, admin,    *)
(* patexBridge, portal) let in; token transfers succeed.  The testnet       *)
(* providers and the conversions between USD tokens are left out.           *)
(***************************************************************************)
EXTENDS WithdrawalQueue, FiniteSetsExt

CONSTANTS
  Providers,             \* provider contracts made for this manager
  Delayed,               \* those that unstake with a delay
  BASIS_POINTS,
  InsuranceTerms,        \* [feeBips, buffer] pairs the owner may set
  InsuranceFunds,        \* what the insurance holds for each provider
  NoInsurance,
  CLAIM_BATCH,           \* unstake requests claimed in one report
  MaxUnstakes,           \* bound: unstake requests of a provider
  MaxSupply              \* bound: tokens held, staked and insured, and l2Supply

ASSUME ManagerAssumption ==
  /\ IsFiniteSet(Providers)
  /\ Delayed \subseteq Providers
  /\ BASIS_POINTS \in Nat \ {0}
  /\ \A t \in InsuranceTerms : t.feeBips \in 0 .. BASIS_POINTS /\ t.buffer \in Nat
  /\ InsuranceFunds \in Nat
  /\ CLAIM_BATCH \in Nat \ {0}

VARIABLES
  providers,                  \* _providers
  stakedBalance,              \* external: value of the stake of each provider
  stakedPrincipal,
  pendingBalance,
  unstakeRequests,            \* of delayed providers, with the protocol's answer
  lastClaimedIndex,
  accumulatedNegativeYields,
  insurance,
  insuranceBalance,           \* external: the insurance's tokens, per provider
  l2Supply

providerVars == <<stakedBalance, stakedPrincipal, pendingBalance, unstakeRequests,
                  lastClaimedIndex>>
insuranceVars == <<insurance, insuranceBalance>>
managerVars == <<queueVars, tokenBalance, providers, providerVars,
                 accumulatedNegativeYields, insuranceVars, l2Supply>>

UNFINALIZED == -1

UnstakeRequest == [amount : Nat, payout : Nat \cup {UNFINALIZED}]

ManagerTypeOK ==
  /\ QueueTypeOK
  /\ availableBalance \in Nat
  /\ providers \subseteq Providers
  /\ stakedBalance \in [Providers -> Nat]
  /\ stakedPrincipal \in [Providers -> Nat]
  /\ pendingBalance \in [Providers -> Nat]
  /\ unstakeRequests \in [Providers -> Seq(UnstakeRequest)]
  /\ \A p \in Providers : lastClaimedIndex[p] \in 0 .. Len(unstakeRequests[p])
  /\ accumulatedNegativeYields \in Nat
  /\ insurance \in InsuranceTerms \cup {NoInsurance}
  /\ insuranceBalance \in [Providers -> Nat]
  /\ l2Supply \in Nat

ManagerInit ==
  /\ QueueInit
  /\ tokenBalance = 0
  /\ providers = {}
  /\ stakedBalance = [p \in Providers |-> 0]
  /\ stakedPrincipal = [p \in Providers |-> 0]
  /\ pendingBalance = [p \in Providers |-> 0]
  /\ unstakeRequests = [p \in Providers |-> <<>>]
  /\ lastClaimedIndex = [p \in Providers |-> 0]
  /\ accumulatedNegativeYields = 0
  /\ insurance = NoInsurance
  /\ insuranceBalance = [p \in Providers |-> InsuranceFunds]
  /\ l2Supply = 0

-----------------------------------------------------------------------------
(* Views *)

totalProviderValue ==
  SumFunctionOnSet([p \in providers |-> stakedBalance[p] + pendingBalance[p]], providers)

totalValue == availableBalance + totalProviderValue

\* Bug: the losses are taken off the value instead of added to the shares.
sharePrice_Subtracts ==
  ((totalValue - accumulatedNegativeYields) * E27_PRECISION_BASE) \div totalValue

\* The callers state that it reverts when the total value is zero.
sharePrice ==
  (totalValue * E27_PRECISION_BASE) \div (totalValue + accumulatedNegativeYields)

-----------------------------------------------------------------------------
(* Bridging in and out *)

\* The bound on new value coming in.
Room(amount) ==
  /\ l2Supply + amount <= MaxSupply
  /\ LET held == [p \in Providers |-> stakedBalance[p] + insuranceBalance[p]]
     IN  tokenBalance + SumFunctionOnSet(held, Providers) + amount <= MaxSupply

\* Ether through the portal, or the token through the bridge.
deposit(amount) ==
  /\ Room(amount)
  /\ tokenBalance' = tokenBalance + amount
  /\ l2Supply' = l2Supply + amount
  /\ UNCHANGED <<queueVars, providers, providerVars, accumulatedNegativeYields, insuranceVars>>

recordStakedDeposit(p, amount) ==
  stakedPrincipal' = [stakedPrincipal EXCEPT ![p] = @ + amount]

\* The bridge hands over tokens that are staked already (stETH), and reports them
\* as the owner set reportStakedBalance for such a token.  The ether
\* for them is minted on L2 by a deposit of its own, without a messenger.
bridgeStakedToken(p, amount) ==
  /\ p \in providers
  /\ Room(amount)
  /\ stakedBalance' = [stakedBalance EXCEPT ![p] = @ + amount]
  /\ recordStakedDeposit(p, amount)
  /\ l2Supply' = l2Supply + amount
  /\ UNCHANGED <<queueVars, tokenBalance, providers, pendingBalance, unstakeRequests,
                 lastClaimedIndex, accumulatedNegativeYields, insuranceVars>>

\* A withdrawal burned on L2 reaches the queue.
requestFromL2(recipient, amount) ==
  /\ amount <= l2Supply
  /\ l2Supply' = l2Supply - amount
  /\ requestWithdrawal(recipient, amount)
  /\ UNCHANGED <<tokenBalance, providers, providerVars, accumulatedNegativeYields, insuranceVars>>

claim(id, hint, caller) ==
  /\ claimWithdrawal(id, hint, caller)
  /\ UNCHANGED <<providers, providerVars, accumulatedNegativeYields, insuranceVars, l2Supply>>

\* Bug: the losses paid for by the batch are not taken off the books.
LossesAfter_Kept(nominalAmount, realAmount) == accumulatedNegativeYields

LossesAfter(nominalAmount, realAmount) ==
  LET charged == nominalAmount - realAmount IN
  IF accumulatedNegativeYields > charged THEN accumulatedNegativeYields - charged ELSE 0

finalize(requestId) ==
  /\ totalValue > 0
  /\ finalizeQueue(requestId, availableBalance, sharePrice)
  /\ accumulatedNegativeYields' =
       LossesAfter(NominalToFinalize(requestId), RealToFinalize(requestId, sharePrice))
  /\ UNCHANGED <<tokenBalance, providers, providerVars, insuranceVars, l2Supply>>

-----------------------------------------------------------------------------
(* Staking *)

Stakable == availableBalance

\* What both kinds of provider do with the manager's funds.
delegatedStake(p, amount) ==
  /\ amount <= Stakable
  /\ tokenBalance' = tokenBalance - amount
  /\ stakedBalance' = [stakedBalance EXCEPT ![p] = @ + amount]

stake(p, amount) ==
  /\ p \in providers
  /\ delegatedStake(p, amount)
  /\ recordStakedDeposit(p, amount)
  /\ UNCHANGED <<queueVars, providers, pendingBalance, unstakeRequests, lastClaimedIndex,
                 accumulatedNegativeYields, insuranceVars, l2Supply>>

\* A delayed provider queues a request with its protocol ...
unstakeDelayed(p, amount) ==
  /\ p \in Delayed
  /\ Len(unstakeRequests[p]) < MaxUnstakes
  /\ unstakeRequests' = [unstakeRequests EXCEPT ![p] =
                           Append(@, [amount |-> amount, payout |-> UNFINALIZED])]
  /\ UNCHANGED tokenBalance

\* ... an immediate one exits.
unstakeImmediate(p, amount) ==
  /\ p \notin Delayed
  /\ tokenBalance' = tokenBalance + amount
  /\ UNCHANGED unstakeRequests

recordUnstaked(p, pending, expected) ==
  /\ expected <= stakedPrincipal[p]
  /\ stakedPrincipal' = [stakedPrincipal EXCEPT ![p] = @ - expected]
  /\ pendingBalance' = [pendingBalance EXCEPT ![p] = @ + pending]

unstake(p, amount) ==
  /\ p \in providers
  /\ amount <= stakedBalance[p]
  /\ stakedBalance' = [stakedBalance EXCEPT ![p] = @ - amount]
  /\ unstakeDelayed(p, amount) \/ unstakeImmediate(p, amount)
  /\ recordUnstaked(p, IF p \in Delayed THEN amount ELSE 0, amount)
  /\ UNCHANGED <<queueVars, providers, lastClaimedIndex, accumulatedNegativeYields,
                 insuranceVars, l2Supply>>

-----------------------------------------------------------------------------
(* The yield report *)

\* The last request of the batch that the hook of a provider claims: it stops
\* at the first one that the protocol has not finalized.
LastClaimable(p) ==
  LET first == lastClaimedIndex[p] + 1
      last  == Min({Len(unstakeRequests[p]), lastClaimedIndex[p] + CLAIM_BATCH})
  IN  IF p \notin Delayed \cap providers THEN lastClaimedIndex[p]
      ELSE Max({k \in lastClaimedIndex[p] .. last :
                  \A i \in first .. k : unstakeRequests[p][i].payout # UNFINALIZED})

ClaimBatch(p) == lastClaimedIndex[p] + 1 .. LastClaimable(p)

\* What was asked for by the unstake requests of ids, and what the protocol answered.
AskedFor(p, ids) == SumFunctionOnSet([i \in ids |-> unstakeRequests[p][i].amount], ids)
PaidOut(p, ids) == SumFunctionOnSet([i \in ids |-> unstakeRequests[p][i].payout], ids)

Expected(p) == AskedFor(p, ClaimBatch(p))
Claimed(p) == PaidOut(p, ClaimBatch(p))

\* Bug: the pending balance falls by what arrived, not by what was asked.
PendingAfterClaim_ByClaimed(p) == pendingBalance[p] - Claimed(p)

PendingAfterClaim(p) == pendingBalance[p] - Expected(p)

Insured(p, enableInsurance) ==
  enableInsurance /\ insurance # NoInsurance /\ p \in providers

\* The premium on a gain, and the payment that covers a loss, of a yield y.
Premium(p, y, enableInsurance) ==
  IF Insured(p, enableInsurance) /\ y > 0
  THEN (y * insurance.feeBips) \div BASIS_POINTS ELSE 0
Cover(p, y, enableInsurance) ==
  IF Insured(p, enableInsurance) /\ y < 0 THEN insurance.buffer - y ELSE 0

\* topUp is what the insurance transfers before the report.  Payments to a
\* delayed provider raise its stake, those to an immediate one the manager's
\* balance.
Yield(p, topUp) ==
  stakedBalance[p] - stakedPrincipal[p] + IF p \in Delayed THEN topUp[p] ELSE 0

StakeAfter(p, enableInsurance, topUp) ==
  LET y == Yield(p, topUp) IN
  stakedPrincipal[p] + y - Premium(p, y, enableInsurance)
    + IF p \in Delayed THEN Cover(p, y, enableInsurance) ELSE 0

ToManager(p, enableInsurance, topUp) ==
  Claimed(p) + IF p \in Delayed THEN 0
               ELSE topUp[p] + Cover(p, Yield(p, topUp), enableInsurance)

coverLoss(p, amount) == insuranceBalance[p] >= amount

commitYield(p, enableInsurance, topUp) ==
  StakeAfter(p, enableInsurance, topUp) - stakedPrincipal[p]

\* Realized by unstaking below the asked amount.
recordNegativeYield(p) == Expected(p) - Claimed(p)

\* Bug: the gain pays for new losses but not for the accumulated ones.
NetYield_ForgetsLosses(committed, losses) == committed

NetYield(committed, losses) == committed - losses

\* What every provider commits and realizes, together.
TotalYield(enableInsurance, topUp) ==
  LET committed == [p \in providers |-> commitYield(p, enableInsurance, topUp)]
      losses    == [p \in providers |-> recordNegativeYield(p)]
  IN  NetYield(SumFunctionOnSet(committed, providers),
               accumulatedNegativeYields + SumFunctionOnSet(losses, providers))

CommitYieldReport(enableInsurance, topUp) ==
  LET cover(p)   == Cover(p, Yield(p, topUp), enableInsurance)
      premium(p) == Premium(p, Yield(p, topUp), enableInsurance)
      toManager  == [p \in Providers |-> ToManager(p, enableInsurance, topUp)]
      totalYield == TotalYield(enableInsurance, topUp)
  IN
  /\ \A p \in Providers : coverLoss(p, topUp[p] + cover(p))
  /\ \A p \in providers :
       Insured(p, enableInsurance) => commitYield(p, enableInsurance, topUp) >= 0
  /\ tokenBalance' = tokenBalance + SumFunctionOnSet(toManager, Providers)
  /\ stakedBalance' = [p \in Providers |-> StakeAfter(p, enableInsurance, topUp)]
  /\ stakedPrincipal' = [p \in Providers |-> IF p \in providers THEN stakedBalance'[p]
                                             ELSE stakedPrincipal[p]]
  /\ pendingBalance' = [p \in Providers |-> PendingAfterClaim(p)]
  /\ lastClaimedIndex' = [p \in Providers |-> LastClaimable(p)]
  /\ insuranceBalance' = [p \in Providers |->
                            insuranceBalance[p] + premium(p) - topUp[p] - cover(p)]
  /\ accumulatedNegativeYields' = IF totalYield < 0 THEN -totalYield ELSE 0
  /\ l2Supply' = l2Supply + IF totalYield > 0 THEN totalYield ELSE 0
  /\ enableInsurance => accumulatedNegativeYields' <= accumulatedNegativeYields
  /\ UNCHANGED <<queueVars, providers, unstakeRequests, insurance>>

commitYieldReport(enableInsurance) ==
  CommitYieldReport(enableInsurance, [p \in Providers |-> 0])

\* The token of the payment is the one the insurance holds for p.
commitYieldReportAfterInsuranceWithdrawal(p, amount) ==
  /\ insurance # NoInsurance
  /\ CommitYieldReport(TRUE, [q \in Providers |-> IF q = p THEN amount ELSE 0])

-----------------------------------------------------------------------------
(* Owner *)

addProvider(p) ==
  /\ providers' = providers \cup {p}
  /\ UNCHANGED <<queueVars, tokenBalance, providerVars, accumulatedNegativeYields,
                 insuranceVars, l2Supply>>

removeProvider(p) ==
  /\ providers' = providers \ {p}
  /\ UNCHANGED <<queueVars, tokenBalance, providerVars, accumulatedNegativeYields,
                 insuranceVars, l2Supply>>

setInsurance(terms) ==
  /\ insurance' = terms
  /\ UNCHANGED <<queueVars, tokenBalance, providers, providerVars,
                 accumulatedNegativeYields, insuranceBalance, l2Supply>>

-----------------------------------------------------------------------------
(* The protocols the providers stake with *)

\* The stake gains or loses value.
Rebase(p) ==
  /\ stakedBalance[p] > 0
  /\ \/ Room(1) /\ stakedBalance' = [stakedBalance EXCEPT ![p] = @ + 1]
     \/ stakedBalance' = [stakedBalance EXCEPT ![p] = @ - 1]
  /\ UNCHANGED <<queueVars, tokenBalance, providers, stakedPrincipal, pendingBalance,
                 unstakeRequests, lastClaimedIndex, accumulatedNegativeYields,
                 insuranceVars, l2Supply>>

\* The protocol finalizes its oldest open unstake request.
FinalizeUnstake(p) ==
  \E i \in 1 .. Len(unstakeRequests[p]) :
    /\ unstakeRequests[p][i].payout = UNFINALIZED
    /\ \A j \in 1 .. i - 1 : unstakeRequests[p][j].payout # UNFINALIZED
    /\ \E payout \in 0 .. unstakeRequests[p][i].amount :
         unstakeRequests' = [unstakeRequests EXCEPT ![p][i].payout = payout]
    /\ UNCHANGED <<queueVars, tokenBalance, providers, stakedBalance, stakedPrincipal,
                   pendingBalance, lastClaimedIndex, accumulatedNegativeYields,
                   insuranceVars, l2Supply>>

-----------------------------------------------------------------------------

ManagerNext ==
  \/ \E a \in Amounts : deposit(a)
  \/ \E p \in Delayed, a \in Amounts : bridgeStakedToken(p, a)
  \/ \E r \in Recipients, a \in Amounts : requestFromL2(r, a)
  \/ \E id \in 1 .. lastRequestId : finalize(id)
  \/ \E id \in 1 .. lastFinalizedRequestId, h \in 1 .. lastCheckpointId, c \in Recipients :
       claim(id, h, c)
  \/ \E p \in Providers, a \in Amounts : stake(p, a)
  \/ \E p \in Providers, a \in Amounts : unstake(p, a)
  \/ \E e \in BOOLEAN : commitYieldReport(e)
  \/ \E p \in Providers, a \in Amounts : commitYieldReportAfterInsuranceWithdrawal(p, a)
  \/ \E p \in Providers : addProvider(p)
  \/ \E p \in Providers : removeProvider(p)
  \/ \E t \in InsuranceTerms : setInsurance(t)
  \/ \E p \in Providers : Rebase(p)
  \/ \E p \in Providers : FinalizeUnstake(p)

ManagerSpec == ManagerInit /\ [][ManagerNext]_managerVars

-----------------------------------------------------------------------------
(* Properties *)

\* Nominal amounts requested and not yet finalized.
Unfinalized == Cumulative(lastRequestId) - Cumulative(lastFinalizedRequestId)

\* The books balance: what is available, staked or on its way back, at the
\* recorded values, plus the losses still to be charged, is at least what L2
\* users hold plus what waits in the queue.  No deposit, report, discount,
\* insurance payment or claim opens a gap that no withdrawal will ever be
\* charged for.
Backed ==
  LET recorded == [p \in Providers |-> stakedPrincipal[p] + pendingBalance[p]]
  IN  availableBalance + SumFunctionOnSet(recorded, Providers) + accumulatedNegativeYields
        >= l2Supply + Unfinalized

\* Money that has been finalized is never staked, paid as a premium or lent: the
\* manager holds what it locked.  What it has out with a provider is the sum of
\* the unstake requests that have not been claimed, so that recording a claim
\* never underflows and no request is claimed twice or skipped.
HeldOrRequested ==
  /\ ManagerTypeOK
  /\ lockedBalance <= tokenBalance
  /\ \A p \in Providers :
       pendingBalance[p] =
         AskedFor(p, lastClaimedIndex[p] + 1 .. Len(unstakeRequests[p]))

\* Finalizing a batch never makes the requests behind it worse off: whatever
\* rounding does, the price of the next batch is not lower (unless nothing of
\* value is left), so there is nothing to gain from being early once a loss
\* has been reported.
NoAdvantageInBeingEarly ==
  [][lastFinalizedRequestId' # lastFinalizedRequestId =>
       (totalValue' = 0 \/ sharePrice' >= sharePrice)]_managerVars

\* Seen as a queue, the manager does nothing but what WithdrawalQueue allows a
\* contract that inherits it: it keeps the queue's promises.
QueueImplemented == QueueSpec
=============================================================================
