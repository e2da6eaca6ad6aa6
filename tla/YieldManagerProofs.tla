-------------------------- MODULE YieldManagerProofs --------------------------
(***************************************************************************)
(* Proofs about YieldManager and PatexBridge, for every value of their      *)
(* constants: any providers of both kinds, amounts, losses, insurance terms *)
(* and orders of the protocols' answers.                                    *)
(*                                                                          *)
(* ManagerInv is inductive.  CoverInv is the queue's, and HeldOrRequested   *)
(* says what is out with each provider, so that recording a claim does not  *)
(* underflow.  The books stay balanced because a report distributes what it *)
(* nets: the yields it commits, less the losses it realizes and those       *)
(* before it, become either supply on L2 or losses to be charged.           *)
(***************************************************************************)
EXTENDS PatexBridge, WithdrawalQueueProofs, SequenceTheorems

\* What is out with the providers is what their open unstake requests ask for.
RequestsAddUp ==
  \A p \in Providers :
    pendingBalance[p] = AskedFor(p, lastClaimedIndex[p] + 1 .. Len(unstakeRequests[p]))

ManagerInv ==
  /\ CoverInv
  /\ ManagerTypeOK
  /\ RequestsAddUp
  /\ Backed

-----------------------------------------------------------------------------
(* Unstake requests *)

\* The requests of a provider have the types of their fields.
LEMMA RequestFields ==
  ASSUME ManagerTypeOK, NEW p \in Providers
  PROVE  /\ unstakeRequests[p] \in Seq(UnstakeRequest) /\ Len(unstakeRequests[p]) \in Nat
         /\ lastClaimedIndex[p] \in Nat /\ lastClaimedIndex[p] <= Len(unstakeRequests[p])
         /\ \A i \in 1 .. Len(unstakeRequests[p]) :
              /\ unstakeRequests[p][i].amount \in Nat
              /\ unstakeRequests[p][i].payout \in Nat \cup {UNFINALIZED}
<1>1. unstakeRequests[p] \in Seq(UnstakeRequest)
      /\ lastClaimedIndex[p] \in 0 .. Len(unstakeRequests[p])
  BY DEF ManagerTypeOK
<1>2. \A r \in UnstakeRequest : r.amount \in Nat /\ r.payout \in Nat \cup {UNFINALIZED}
  BY DEF UnstakeRequest
<1>3. \A i \in 1 .. Len(unstakeRequests[p]) : unstakeRequests[p][i] \in UnstakeRequest
  BY <1>1
<1> QED BY <1>1, <1>2, <1>3

\* A report claims requests in order, up to one that the protocol has not answered.
LEMMA ClaimBatchAnswered ==
  ASSUME ManagerTypeOK, NEW p \in Providers
  PROVE  /\ LastClaimable(p) \in lastClaimedIndex[p] .. Len(unstakeRequests[p])
         /\ \A i \in ClaimBatch(p) : unstakeRequests[p][i].payout # UNFINALIZED
         /\ p \notin providers => LastClaimable(p) = lastClaimedIndex[p]
<1> DEFINE first == lastClaimedIndex[p] + 1
           n == Len(unstakeRequests[p])
           last == Min({n, lastClaimedIndex[p] + CLAIM_BATCH})
           T == {k \in lastClaimedIndex[p] .. last :
                   \A i \in first .. k : unstakeRequests[p][i].payout # UNFINALIZED}
<1>1. n \in Nat /\ lastClaimedIndex[p] \in Nat /\ lastClaimedIndex[p] <= n
  BY RequestFields
<1>2. CLAIM_BATCH \in Nat \ {0}
  BY ManagerAssumption
<1>3. last \in Nat /\ lastClaimedIndex[p] <= last /\ last <= n
  <2>1. n \in Int /\ lastClaimedIndex[p] + CLAIM_BATCH \in Int
    BY <1>1, <1>2
  <2>2. last = IF n <= lastClaimedIndex[p] + CLAIM_BATCH THEN n ELSE lastClaimedIndex[p] + CLAIM_BATCH
    BY <2>1, MaxMinOfTwo
  <2> QED BY <1>1, <1>2, <2>2
<1> HIDE DEF last
<1>4. T \subseteq Nat /\ lastClaimedIndex[p] \in T /\ \A t \in T : t <= n
  BY <1>1, <1>3
<1>5. Max(T) \in T
  <2> HIDE DEF T
  <2>1. T # {}
    BY <1>4
  <2> QED BY <1>1, <1>4, <2>1, MaxOfBounded
<1>6. LastClaimable(p) = IF p \notin Delayed \cap providers THEN lastClaimedIndex[p] ELSE Max(T)
  BY DEF LastClaimable, last
<1>7. lastClaimedIndex[p] \in lastClaimedIndex[p] .. n /\ lastClaimedIndex[p] + 1 .. lastClaimedIndex[p] = {}
  BY <1>1
<1>8. CASE p \notin Delayed \cap providers
  <2>1. LastClaimable(p) = lastClaimedIndex[p]
    BY <1>6, <1>8
  <2> QED BY <1>7, <2>1 DEF ClaimBatch
<1>9. CASE p \in Delayed \cap providers
  <2> DEFINE m == Max(T)
  <2>1. LastClaimable(p) = m /\ m \in T
    BY <1>5, <1>6, <1>9
  <2> HIDE DEF m
  <2>2. m \in lastClaimedIndex[p] .. n
    BY <1>1, <1>3, <2>1
  <2>3. \A i \in first .. m : unstakeRequests[p][i].payout # UNFINALIZED
    BY <2>1
  <2> QED BY <1>9, <2>1, <2>2, <2>3 DEF ClaimBatch
<1> QED BY <1>8, <1>9

\* Sums over the requests of a provider are sums of one function.
LEMMA RequestSums ==
  ASSUME ManagerTypeOK, NEW p \in Providers, NEW ids \in SUBSET (1 .. Len(unstakeRequests[p]))
  PROVE  /\ IsFiniteSet(ids) /\ AskedFor(p, ids) \in Nat
         /\ (\A i \in ids : unstakeRequests[p][i].payout # UNFINALIZED) => PaidOut(p, ids) \in Nat
         /\ AskedFor(p, ids)
              = SumFunctionOnSet([i \in 1 .. Len(unstakeRequests[p]) |-> unstakeRequests[p][i].amount], ids)
<1> DEFINE n == Len(unstakeRequests[p])
           f == [i \in ids |-> unstakeRequests[p][i].amount]
           g == [i \in 1 .. n |-> unstakeRequests[p][i].amount]
           h == [i \in ids |-> unstakeRequests[p][i].payout]
<1>1. /\ n \in Nat
      /\ \A i \in 1 .. n : /\ unstakeRequests[p][i].amount \in Nat
                           /\ unstakeRequests[p][i].payout \in Nat \cup {UNFINALIZED}
  BY RequestFields
<1>2. IsFiniteSet(ids)
  <2>1. IsFiniteSet(1 .. n)
    BY <1>1, FS_Interval
  <2> QED BY <2>1, FS_Subset
<1>3. \A i \in ids : f[i] \in Nat /\ g[i] = f[i]
  BY <1>1
<1>4. AskedFor(p, ids) = SumFunctionOnSet(f, ids)
  BY DEF AskedFor
<1>5. PaidOut(p, ids) = SumFunctionOnSet(h, ids)
  BY DEF PaidOut
<1>6. ASSUME \A i \in ids : unstakeRequests[p][i].payout # UNFINALIZED
      PROVE  \A i \in ids : h[i] \in Nat
  BY <1>1, <1>6
<1> HIDE DEF f, h, g
<1>7. SumFunctionOnSet(f, ids) \in Nat
  BY <1>2, <1>3, SumNat
<1>8. SumFunctionOnSet(g, ids) = SumFunctionOnSet(f, ids)
  BY <1>2, <1>3, SumSame
<1>9. ASSUME \A i \in ids : unstakeRequests[p][i].payout # UNFINALIZED
      PROVE  SumFunctionOnSet(h, ids) \in Nat
  BY <1>2, <1>6, <1>9, SumNat
<1> QED BY <1>2, <1>4, <1>5, <1>7, <1>8, <1>9 DEF g

\* What a report claims of a provider was pending, and the rest stays so.
LEMMA BatchOfPending ==
  ASSUME ManagerTypeOK, RequestsAddUp, NEW p \in Providers
  PROVE  /\ Expected(p) \in Nat /\ Claimed(p) \in Nat
         /\ pendingBalance[p] - Expected(p) \in Nat
         /\ pendingBalance[p] - Expected(p)
              = AskedFor(p, LastClaimable(p) + 1 .. Len(unstakeRequests[p]))
         /\ p \notin providers => Expected(p) = 0 /\ Claimed(p) = 0
<1> DEFINE n == Len(unstakeRequests[p])
           k == lastClaimedIndex[p]
           m == LastClaimable(p)
           g == [i \in 1 .. n |-> unstakeRequests[p][i].amount]
<1>1. n \in Nat /\ k \in Nat /\ k <= n /\ m \in k .. n
      /\ \A i \in 1 .. n : unstakeRequests[p][i].amount \in Nat
  BY RequestFields, ClaimBatchAnswered
<1>2. \A i \in 1 .. n : g[i] \in Nat
  BY <1>1
<1>3. /\ k + 1 .. m \in SUBSET (1 .. n) /\ m + 1 .. n \in SUBSET (1 .. n) /\ k + 1 .. n \in SUBSET (1 .. n)
      /\ (k + 1 .. m) \cap (m + 1 .. n) = {} /\ (k + 1 .. m) \cup (m + 1 .. n) = k + 1 .. n
  BY <1>1
<1> DEFINE batch == k + 1 .. m
           rest == m + 1 .. n
           open == k + 1 .. n
<1>4. ClaimBatch(p) = batch /\ \A i \in batch : unstakeRequests[p][i].payout # UNFINALIZED
  BY ClaimBatchAnswered DEF ClaimBatch
<1>5. batch \in SUBSET (1 .. n) /\ rest \in SUBSET (1 .. n) /\ open \in SUBSET (1 .. n)
      /\ batch \cap rest = {} /\ batch \cup rest = open
  BY <1>3
<1>6. p \notin providers => batch = {}
  BY <1>1, ClaimBatchAnswered
<1>7. pendingBalance[p] = AskedFor(p, open) /\ Expected(p) = AskedFor(p, batch) /\ Claimed(p) = PaidOut(p, batch)
  BY <1>4 DEF RequestsAddUp, Expected, Claimed
<1> HIDE DEF batch, rest, open
<1>8. /\ IsFiniteSet(batch) /\ AskedFor(p, batch) \in Nat /\ AskedFor(p, batch) = SumFunctionOnSet(g, batch)
      /\ IsFiniteSet(rest) /\ AskedFor(p, rest) \in Nat /\ AskedFor(p, rest) = SumFunctionOnSet(g, rest)
      /\ AskedFor(p, open) = SumFunctionOnSet(g, open) /\ PaidOut(p, batch) \in Nat
  BY <1>4, <1>5, RequestSums
<1>9. SumFunctionOnSet(g, open) = SumFunctionOnSet(g, batch) + SumFunctionOnSet(g, rest)
  <2> HIDE DEF g
  <2>1. \A x \in batch \cup rest : g[x] \in Int
    BY <1>2, <1>5
  <2> QED BY <1>5, <1>8, <2>1, SumUnion
<1>10. AskedFor(p, {}) = 0 /\ PaidOut(p, {}) = 0
  BY SumEmpty DEF AskedFor, PaidOut
<1> HIDE DEF g
<1>11. pendingBalance[p] - Expected(p) = AskedFor(p, rest)
  BY <1>7, <1>8, <1>9
<1>12. p \notin providers => Expected(p) = 0 /\ Claimed(p) = 0
  BY <1>6, <1>7, <1>10
<1> QED BY <1>7, <1>8, <1>11, <1>12 DEF rest

-----------------------------------------------------------------------------
(* The books *)

\* What is recorded as staked or on its way back, of all providers.
Recorded == SumFunctionOnSet([p \in Providers |-> stakedPrincipal[p] + pendingBalance[p]], Providers)

\* It is a sum of natural numbers.
LEMMA RecordedType ==
  ASSUME ManagerTypeOK
  PROVE  Recorded \in Nat
<1> DEFINE f == [p \in Providers |-> stakedPrincipal[p] + pendingBalance[p]]
<1>1. \A p \in Providers : f[p] \in Nat
  BY DEF ManagerTypeOK
<1> HIDE DEF f
<1>2. SumFunctionOnSet(f, Providers) \in Nat
  BY <1>1, ManagerAssumption, SumNat
<1> QED BY <1>2 DEF Recorded, f

\* A step that touches the records of one provider.
LEMMA RecordedChange ==
  ASSUME ManagerTypeOK, NEW e \in Providers,
         stakedPrincipal'[e] + pendingBalance'[e] \in Int,
         \A p \in Providers : p # e =>
           stakedPrincipal'[p] = stakedPrincipal[p] /\ pendingBalance'[p] = pendingBalance[p]
  PROVE  Recorded' = Recorded - (stakedPrincipal[e] + pendingBalance[e])
                       + (stakedPrincipal'[e] + pendingBalance'[e])
<1> DEFINE f == [p \in Providers |-> stakedPrincipal[p] + pendingBalance[p]]
           g == [p \in Providers |-> stakedPrincipal'[p] + pendingBalance'[p]]
<1>1. \A p \in Providers : f[p] \in Int /\ p # e => g[p] = f[p]
  OBVIOUS
<1>2. \A p \in Providers : f[p] \in Int
  BY DEF ManagerTypeOK
<1>3. g[e] \in Int
  OBVIOUS
<1>4. f[e] = stakedPrincipal[e] + pendingBalance[e] /\ g[e] = stakedPrincipal'[e] + pendingBalance'[e]
  OBVIOUS
<1>5. Recorded = SumFunctionOnSet(f, Providers) /\ Recorded' = SumFunctionOnSet(g, Providers)
  BY DEF Recorded
<1> HIDE DEF f, g
<1>6. SumFunctionOnSet(g, Providers) = SumFunctionOnSet(f, Providers) - f[e] + g[e]
  <2>1. \A p \in Providers : p # e => g[p] = f[p]
    BY <1>1, <1>2
  <2> QED BY <1>2, <1>3, <2>1, ManagerAssumption, SumChange
<1> QED BY <1>4, <1>5, <1>6

\* The numbers of the books, and what it says that they balance.
BooksOK ==
  /\ tokenBalance \in Nat /\ lockedBalance \in Nat /\ lockedBalance <= tokenBalance
  /\ availableBalance \in Nat /\ availableBalance = tokenBalance - lockedBalance
  /\ accumulatedNegativeYields \in Nat /\ l2Supply \in Nat /\ Recorded \in Nat
  /\ Unfinalized \in Int
  /\ Backed <=> availableBalance + Recorded + accumulatedNegativeYields >= l2Supply + Unfinalized

\* The invariants say what the numbers of the books are.
LEMMA BooksAre == CoverInv /\ ManagerTypeOK => BooksOK
<1> SUFFICES ASSUME CoverInv, ManagerTypeOK PROVE BooksOK
  OBVIOUS
<1>1. tokenBalance \in Nat /\ lockedBalance \in Nat /\ lockedBalance <= tokenBalance
  BY DEF CoverInv, QueueInv, QueueTypeOK, LockedBalanceCoversClaims
<1>2. accumulatedNegativeYields \in Nat /\ l2Supply \in Nat /\ availableBalance \in Nat
  BY DEF ManagerTypeOK
<1>3. Unfinalized \in Int
  <2>1. lastRequestId \in 0 .. lastRequestId /\ lastFinalizedRequestId \in 0 .. lastRequestId
        /\ \A i \in 0 .. lastRequestId : Cumulative(i) \in Nat
    BY QueueFields DEF CoverInv, QueueInv, QueueTypeOK, lastRequestId
  <2> QED BY <2>1 DEF Unfinalized
<1> QED BY <1>1, <1>2, <1>3, RecordedType DEF Backed, Recorded, availableBalance, BooksOK

\* What the invariant adds to the queue's, in the parts that steps disturb.
ProvidersOK ==
  /\ providers \subseteq Providers
  /\ stakedBalance \in [Providers -> Nat]
  /\ stakedPrincipal \in [Providers -> Nat]
  /\ pendingBalance \in [Providers -> Nat]
  /\ unstakeRequests \in [Providers -> Seq(UnstakeRequest)]
  /\ \A p \in Providers : lastClaimedIndex[p] \in 0 .. Len(unstakeRequests[p])

InsuranceOK ==
  /\ insurance \in InsuranceTerms \cup {NoInsurance}
  /\ insuranceBalance \in [Providers -> Nat]

BalancesOK == accumulatedNegativeYields \in Nat /\ l2Supply \in Nat

\* The parts make up the type invariant.
LEMMA TypeParts == CoverInv /\ ProvidersOK /\ InsuranceOK /\ BalancesOK => ManagerTypeOK
<1> SUFFICES ASSUME CoverInv, ProvidersOK, InsuranceOK, BalancesOK PROVE ManagerTypeOK
  OBVIOUS
<1>1. QueueTypeOK /\ availableBalance \in Nat
  BY DEF CoverInv, QueueInv, QueueTypeOK, LockedBalanceCoversClaims, availableBalance
<1> QED BY <1>1 DEF ManagerTypeOK, ProvidersOK, InsuranceOK, BalancesOK

\* The same of the next state: what a step has to show.
LEMMA NextTypes ==
  ASSUME CoverInv', ProvidersOK', InsuranceOK', BalancesOK'
  PROVE  ManagerTypeOK' /\ BooksOK'
<1>1. CoverInv' /\ ProvidersOK' /\ InsuranceOK' /\ BalancesOK' => ManagerTypeOK'
  BY TypeParts, PTL
<1>2. CoverInv' /\ ManagerTypeOK' => BooksOK'
  BY BooksAre, PTL
<1> QED BY <1>1, <1>2

\* What the invariant says in every state, in parts.
LEMMA ManagerParts ==
  ASSUME ManagerInv
  PROVE  /\ CoverInv /\ QueueInv /\ ManagerTypeOK /\ BooksOK /\ RequestsAddUp /\ Backed
         /\ ProvidersOK /\ InsuranceOK /\ BalancesOK
BY BooksAre DEF ManagerInv, CoverInv, ManagerTypeOK, ProvidersOK, InsuranceOK, BalancesOK

\* Steps that leave the providers alone.
LEMMA ProvidersKept ==
  ASSUME ProvidersOK, RequestsAddUp, UNCHANGED providerVars, providers' \subseteq Providers
  PROVE  ProvidersOK' /\ RequestsAddUp' /\ Recorded' = Recorded
BY DEF ProvidersOK, RequestsAddUp, AskedFor, Recorded, providerVars

\* Steps that leave the insurance alone.
LEMMA InsuranceKept ==
  ASSUME InsuranceOK, UNCHANGED insuranceVars
  PROVE  InsuranceOK'
BY DEF InsuranceOK, insuranceVars

\* What waits in the queue: a request adds to it, a batch takes from it.
LEMMA UnfinalizedRequest ==
  ASSUME QueueInv, NEW r \in Recipients, NEW a \in Nat, requestWithdrawal(r, a)
  PROVE  Unfinalized' = Unfinalized + a
<1> DEFINE n == Len(requests)
           new == [cumulativeAmount |-> Cumulative(lastRequestId) + a,
                   recipient |-> r, claimed |-> FALSE]
<1>1. /\ requests \in Seq(WithdrawalRequest) /\ n \in Nat /\ lastFinalizedRequestId \in 0 .. n
      /\ \A i \in 0 .. n : Cumulative(i) \in Nat
  BY QueueFields DEF QueueInv, QueueTypeOK, lastRequestId
<1>2. requests' = Append(requests, new) /\ UNCHANGED lastFinalizedRequestId
  BY DEF requestWithdrawal
<1>3. new.cumulativeAmount = Cumulative(n) + a
  BY DEF lastRequestId
<1> HIDE DEF new
<1>4. /\ Len(requests') = n + 1 /\ requests'[n + 1] = new
      /\ \A i \in 1 .. n : requests'[i] = requests[i]
  BY <1>1, <1>2
<1>5. \A i \in 0 .. n + 1 : i = n + 1 => Cumulative(i)' = Cumulative(n) + a
  BY <1>1, <1>3, <1>4 DEF Cumulative
<1>6. \A i \in 0 .. n : Cumulative(i)' = Cumulative(i)
  BY <1>1, <1>4 DEF Cumulative
<1>7. \A i, j \in 0 .. n + 1 :
        i = n + 1 /\ j = lastFinalizedRequestId => Unfinalized' = Cumulative(i)' - Cumulative(j)'
  BY <1>2, <1>4 DEF Unfinalized, lastRequestId
<1>8. Unfinalized = Cumulative(n) - Cumulative(lastFinalizedRequestId)
  BY DEF Unfinalized, lastRequestId
<1>9. /\ Cumulative(n) \in Nat /\ Cumulative(lastFinalizedRequestId) \in Nat
      /\ n + 1 \in 0 .. n + 1 /\ lastFinalizedRequestId \in 0 .. n
      /\ lastFinalizedRequestId \in 0 .. n + 1
  BY <1>1
<1> QED BY <1>5, <1>6, <1>7, <1>8, <1>9

\* A batch takes out its nominal amount.
LEMMA UnfinalizedFinalize ==
  ASSUME QueueInv, NEW id \in Nat, NEW available, NEW price, finalizeQueue(id, available, price)
  PROVE  Unfinalized' = Unfinalized - NominalToFinalize(id)
<1>1. UNCHANGED requests /\ lastFinalizedRequestId' = id
  BY DEF finalizeQueue
<1>2. /\ id \in 0 .. lastRequestId /\ lastFinalizedRequestId \in 0 .. lastRequestId
      /\ lastRequestId \in 0 .. lastRequestId
      /\ \A i \in 0 .. lastRequestId : Cumulative(i) \in Nat
  BY QueueFields DEF QueueInv, QueueTypeOK, lastRequestId, finalizeQueue
<1>3. Unfinalized' = Cumulative(lastRequestId) - Cumulative(id)
  BY <1>1 DEF Unfinalized, Cumulative, lastRequestId
<1>4. /\ Unfinalized = Cumulative(lastRequestId) - Cumulative(lastFinalizedRequestId)
      /\ NominalToFinalize(id) = Cumulative(id) - Cumulative(lastFinalizedRequestId)
  BY DEF Unfinalized, NominalToFinalize
<1>5. Cumulative(lastRequestId) \in Nat /\ Cumulative(id) \in Nat
      /\ Cumulative(lastFinalizedRequestId) \in Nat
  BY <1>2
<1> QED BY <1>3, <1>4, <1>5

\* Claims are of requests that no longer wait.
LEMMA UnfinalizedClaim ==
  ASSUME QueueInv, NEW id, NEW hint, NEW caller, claimWithdrawal(id, hint, caller)
  PROVE  Unfinalized' = Unfinalized
<1>1. /\ requests' = [requests EXCEPT ![id].claimed = TRUE] /\ UNCHANGED lastFinalizedRequestId
      /\ requests \in Seq(WithdrawalRequest) /\ lastFinalizedRequestId \in 0 .. Len(requests)
  BY DEF claimWithdrawal, QueueInv, QueueTypeOK
<1>2. Len(requests') = Len(requests)
      /\ \A i \in 1 .. Len(requests) : requests'[i].cumulativeAmount = requests[i].cumulativeAmount
  BY <1>1
<1>3. \A i \in 0 .. Len(requests) : Cumulative(i)' = Cumulative(i)
  BY <1>2 DEF Cumulative
<1>4. Len(requests) \in 0 .. Len(requests)
  BY <1>1
<1> QED BY <1>1, <1>2, <1>3, <1>4 DEF Unfinalized, lastRequestId

\* Nothing else moves the queue.
LEMMA UnfinalizedKept ==
  ASSUME UNCHANGED queueVars
  PROVE  Unfinalized' = Unfinalized
BY DEF Unfinalized, Cumulative, lastRequestId, queueVars

-----------------------------------------------------------------------------
(* Bridging in and out *)

\* A deposit comes with as much as it adds to the supply.
LEMMA DepositStep ==
  ASSUME ManagerInv, NEW a \in Nat, deposit(a)
  PROVE  ManagerInv'
<1>1. /\ CoverInv /\ BooksOK /\ RequestsAddUp /\ Backed
      /\ ProvidersOK /\ InsuranceOK /\ BalancesOK
  BY ManagerParts
<1>2. /\ tokenBalance' = tokenBalance + a /\ l2Supply' = l2Supply + a
      /\ UNCHANGED <<queueVars, lockedBalance, providers, providerVars, insuranceVars>>
      /\ UNCHANGED accumulatedNegativeYields
  BY DEF deposit, queueVars
<1>3. CoverInv'
  BY <1>1, <1>2, CoverTokens DEF BooksOK
<1>4. ProvidersOK' /\ RequestsAddUp' /\ Recorded' = Recorded /\ InsuranceOK' /\ BalancesOK'
  BY <1>1, <1>2, ProvidersKept, InsuranceKept DEF ProvidersOK, BalancesOK
<1>5. ManagerTypeOK' /\ BooksOK'
  BY <1>3, <1>4, NextTypes
<1>6. Unfinalized' = Unfinalized
  BY <1>2, UnfinalizedKept
<1>7. Backed'
  BY <1>1, <1>2, <1>4, <1>5, <1>6 DEF BooksOK
<1> QED BY <1>3, <1>4, <1>5, <1>7 DEF ManagerInv

\* Staked tokens are recorded at what they are worth.
LEMMA StakedDepositStep ==
  ASSUME ManagerInv, NEW p \in Providers, NEW a \in Nat, bridgeStakedToken(p, a)
  PROVE  ManagerInv'
<1>1. /\ CoverInv /\ BooksOK /\ RequestsAddUp /\ Backed /\ ManagerTypeOK
      /\ ProvidersOK /\ InsuranceOK /\ BalancesOK
  BY ManagerParts
<1>2. /\ l2Supply' = l2Supply + a
      /\ stakedBalance' = [stakedBalance EXCEPT ![p] = @ + a]
      /\ stakedPrincipal' = [stakedPrincipal EXCEPT ![p] = @ + a]
      /\ UNCHANGED <<queueVars, tokenBalance, lockedBalance, providers, pendingBalance,
                     unstakeRequests, lastClaimedIndex, insuranceVars>>
      /\ UNCHANGED accumulatedNegativeYields
  BY DEF bridgeStakedToken, recordStakedDeposit, queueVars
<1>3. CoverInv'
  BY <1>1, <1>2, CoverTokens DEF BooksOK
<1>4. ProvidersOK'
  BY <1>1, <1>2 DEF ProvidersOK
<1>5. RequestsAddUp' /\ InsuranceOK' /\ BalancesOK'
  BY <1>1, <1>2, InsuranceKept DEF RequestsAddUp, AskedFor, BalancesOK
<1>6. Recorded' = Recorded + a
  <2>1. /\ stakedPrincipal[p] \in Nat /\ pendingBalance[p] \in Nat
        /\ stakedPrincipal'[p] = stakedPrincipal[p] + a /\ pendingBalance'[p] = pendingBalance[p]
        /\ \A q \in Providers : q # p =>
             stakedPrincipal'[q] = stakedPrincipal[q] /\ pendingBalance'[q] = pendingBalance[q]
    BY <1>1, <1>2 DEF ProvidersOK
  <2>2. stakedPrincipal'[p] + pendingBalance'[p] \in Int
    BY <2>1
  <2>3. Recorded' = Recorded - (stakedPrincipal[p] + pendingBalance[p])
                      + (stakedPrincipal'[p] + pendingBalance'[p])
    BY <1>1, <2>1, <2>2, RecordedChange
  <2> QED BY <1>1, <2>1, <2>3 DEF BooksOK
<1>7. ManagerTypeOK' /\ BooksOK'
  BY <1>3, <1>4, <1>5, NextTypes
<1>8. Unfinalized' = Unfinalized
  BY <1>2, UnfinalizedKept
<1>9. Backed'
  <2>1. availableBalance' = availableBalance
    BY <1>2 DEF availableBalance
  <2> QED BY <1>1, <1>2, <1>6, <1>7, <1>8, <2>1 DEF BooksOK
<1> QED BY <1>3, <1>5, <1>7, <1>9 DEF ManagerInv

\* What leaves the supply waits in the queue.
LEMMA RequestStep ==
  ASSUME ManagerInv, NEW r \in Recipients, NEW a \in Nat, requestFromL2(r, a)
  PROVE  ManagerInv'
<1>1. /\ CoverInv /\ QueueInv /\ BooksOK /\ RequestsAddUp /\ Backed
      /\ ProvidersOK /\ InsuranceOK /\ BalancesOK
  BY ManagerParts
<1>2. /\ a <= l2Supply /\ l2Supply' = l2Supply - a /\ requestWithdrawal(r, a)
      /\ UNCHANGED <<tokenBalance, lockedBalance, providers, providerVars, insuranceVars>>
      /\ UNCHANGED accumulatedNegativeYields
  BY DEF requestFromL2, requestWithdrawal
<1>3. CoverInv'
  BY <1>1, <1>2, CoverRequest
<1>4. ProvidersOK' /\ RequestsAddUp' /\ Recorded' = Recorded /\ InsuranceOK' /\ BalancesOK'
  BY <1>1, <1>2, ProvidersKept, InsuranceKept DEF ProvidersOK, BalancesOK
<1>5. ManagerTypeOK' /\ BooksOK'
  BY <1>3, <1>4, NextTypes
<1>6. Unfinalized' = Unfinalized + a
  BY <1>1, <1>2, UnfinalizedRequest
<1>7. availableBalance' = availableBalance
  BY <1>2 DEF availableBalance
<1>8. Backed'
  BY <1>1, <1>2, <1>4, <1>5, <1>6, <1>7 DEF BooksOK
<1> QED BY <1>3, <1>4, <1>5, <1>8 DEF ManagerInv

\* A claim is paid from what is locked.
LEMMA ClaimStep ==
  ASSUME ManagerInv, NEW id \in Nat, NEW hint \in Nat, NEW caller, claim(id, hint, caller)
  PROVE  ManagerInv'
<1>1. /\ CoverInv /\ QueueInv /\ BooksOK /\ RequestsAddUp /\ Backed
      /\ ProvidersOK /\ InsuranceOK /\ BalancesOK
  BY ManagerParts
<1>2. /\ claimWithdrawal(id, hint, caller)
      /\ UNCHANGED <<providers, providerVars, insuranceVars>>
      /\ UNCHANGED <<accumulatedNegativeYields, l2Supply>>
  BY DEF claim
<1>3. CoverInv'
  BY <1>1, <1>2, CoverClaim
<1>4. ProvidersOK' /\ RequestsAddUp' /\ Recorded' = Recorded /\ InsuranceOK' /\ BalancesOK'
  BY <1>1, <1>2, ProvidersKept, InsuranceKept DEF ProvidersOK, BalancesOK
<1>5. ManagerTypeOK' /\ BooksOK'
  BY <1>3, <1>4, NextTypes
<1>6. Unfinalized' = Unfinalized
  BY <1>1, <1>2, UnfinalizedClaim
<1>7. availableBalance' = availableBalance
  <2> DEFINE paid == calculateClaimableEther(id, hint)
  <2>1. lockedBalance' = lockedBalance - paid /\ tokenBalance' = tokenBalance - paid /\ paid <= lockedBalance
    BY <1>2 DEF claimWithdrawal
  <2>2. paid \in Int
    <3>1. id \in 1 .. lastFinalizedRequestId /\ hint \in 1 .. lastCheckpointId
      BY <1>2 DEF claimWithdrawal, Claimable, ValidHint
    <3>2. id \in 1 .. lastRequestId /\ checkpoints[hint].sharePrice \in Nat
      BY <1>1, <3>1, QueueFields DEF QueueInv, QueueTypeOK, lastRequestId
    <3>3. NominalAmount(id) \in Nat
      BY <1>1, <3>2, NominalType DEF QueueInv
    <3>4. paid \in Nat
      BY <3>2, <3>3, AtPriceType DEF calculateClaimableEther
    <3> HIDE DEF paid
    <3> QED BY <3>4
  <2> HIDE DEF paid
  <2> QED BY <1>1, <2>1, <2>2 DEF availableBalance, BooksOK
<1>8. Backed'
  BY <1>1, <1>2, <1>4, <1>5, <1>6, <1>7 DEF BooksOK
<1> QED BY <1>3, <1>4, <1>5, <1>8 DEF ManagerInv

-----------------------------------------------------------------------------
(* Batches *)

\* What is staked or on its way back, of the providers in use, at its present value.
LEMMA ProviderValueType ==
  ASSUME ProvidersOK
  PROVE  totalProviderValue \in Nat
<1> DEFINE f == [p \in providers |-> stakedBalance[p] + pendingBalance[p]]
<1>1. IsFiniteSet(providers)
  BY ManagerAssumption, FS_Subset DEF ProvidersOK
<1>2. \A p \in providers : f[p] \in Nat
  BY DEF ProvidersOK
<1> HIDE DEF f
<1>3. SumFunctionOnSet(f, providers) \in Nat
  BY <1>1, <1>2, SumNat
<1> QED BY <1>3 DEF totalProviderValue, f

\* The price of a batch is at most one, and is what the value covers.
LEMMA PriceIs ==
  ASSUME ManagerInv, totalValue > 0
  PROVE  /\ totalValue \in Nat /\ sharePrice \in Nat /\ sharePrice <= E27_PRECISION_BASE
         /\ sharePrice * (totalValue + accumulatedNegativeYields) <= totalValue * E27_PRECISION_BASE
<1> DEFINE v == totalValue
           losses == accumulatedNegativeYields
           e == E27_PRECISION_BASE
           q == (v * e) \div (v + losses)
<1>1. v \in Nat /\ v > 0 /\ losses \in Nat /\ e \in Nat \ {0}
  BY ManagerParts, ProviderValueType, QueueAssumption DEF BooksOK, totalValue
<1>2. sharePrice = q
  BY DEF sharePrice
<1> HIDE DEF v, losses, e
<1> DEFINE x == v * e
           d == v + losses
<1>3. x \in Nat /\ d \in Nat \ {0} /\ q = x \div d
  BY <1>1
<1> HIDE DEF x, d, q
<1>4. q \in Nat /\ q * d <= x
  BY <1>3
<1>5. q <= e
  <2> SUFFICES ASSUME q >= e + 1 PROVE FALSE
    BY <1>1, <1>4
  <2>1. \A a, b, c \in Nat : a >= b => a * c >= b * c
    OBVIOUS
  <2>2. q * d >= (e + 1) * d /\ (e + 1) * d = e * d + d /\ e * d = e * v + e * losses
        /\ e * losses \in Nat /\ e * v = x /\ e * d \in Nat
    <3>1. e + 1 \in Nat /\ d \in Nat
      BY <1>1, <1>3
    <3>2. q * d >= (e + 1) * d
      BY <1>4, <2>1, <3>1
    <3>3. (e + 1) * d = e * d + d
      BY <1>1, <3>1
    <3>4. e * d = e * v + e * losses /\ e * losses \in Nat /\ e * v = x
      BY <1>1 DEF d, x
    <3>5. e * d \in Nat
      BY <1>1, <3>1
    <3> QED BY <3>2, <3>3, <3>4, <3>5
  <2> QED BY <1>3, <1>4, <2>2
<1> QED BY <1>1, <1>2, <1>4, <1>5 DEF v, e, d, x, losses

\* What a batch pays, and what it charges of the losses.
LEMMA BatchAmounts ==
  ASSUME ManagerInv, totalValue > 0, NEW id \in Nat,
         finalizeQueue(id, availableBalance, sharePrice)
  PROVE  /\ NominalToFinalize(id) \in Nat /\ RealToFinalize(id, sharePrice) \in Nat
         /\ RealToFinalize(id, sharePrice) <= NominalToFinalize(id)
         /\ RealToFinalize(id, sharePrice) * E27_PRECISION_BASE <= NominalToFinalize(id) * sharePrice
<1>1. QueueInv /\ lastFinalizedRequestId \in Nat /\ lastRequestId \in Nat
  BY ManagerParts, QueueFields DEF QueueInv, QueueTypeOK, lastRequestId
<1>2. id \in 1 .. lastRequestId /\ id > lastFinalizedRequestId
  BY <1>1 DEF finalizeQueue
<1>3. sharePrice \in Nat /\ sharePrice <= E27_PRECISION_BASE
  BY PriceIs
<1>4. NominalToFinalize(id) \in Nat
  BY <1>1, <1>2, NominalType DEF QueueInv
<1> DEFINE n == NominalToFinalize(id)
           pr == sharePrice
<1>5. RealToFinalize(id, sharePrice) = AtPrice(n, pr)
  BY DEF RealToFinalize
<1>6. n \in Nat /\ pr \in Nat /\ pr <= E27_PRECISION_BASE
  BY <1>3, <1>4
<1> HIDE DEF n, pr
<1>7. AtPrice(n, pr) \in Nat /\ AtPrice(n, pr) <= n
  BY <1>6, AtPriceType, AtPriceBound
<1>8. AtPrice(n, pr) * E27_PRECISION_BASE <= n * pr
  <2> DEFINE x == n * pr
             e == E27_PRECISION_BASE
  <2>1. x \in Nat /\ e \in Nat \ {0} /\ AtPrice(n, pr) = x \div e
    BY <1>6, QueueAssumption DEF AtPrice
  <2> HIDE DEF x, e
  <2>2. (x \div e) * e <= x
    BY <2>1
  <2> QED BY <2>1, <2>2 DEF x, e
<1> QED BY <1>5, <1>6, <1>7, <1>8 DEF n, pr

\* A batch takes its nominal amount out of the queue, pays the real one, and charges
\* the difference to the losses as far as there are any.
LEMMA FinalizeStep ==
  ASSUME ManagerInv, NEW id \in Nat, finalize(id)
  PROVE  ManagerInv'
<1> DEFINE nominal == NominalToFinalize(id)
           real == RealToFinalize(id, sharePrice)
<1>1. /\ CoverInv /\ QueueInv /\ BooksOK /\ RequestsAddUp /\ Backed
      /\ ProvidersOK /\ InsuranceOK /\ BalancesOK
  BY ManagerParts
<1>2. /\ totalValue > 0 /\ finalizeQueue(id, availableBalance, sharePrice)
      /\ accumulatedNegativeYields' = LossesAfter(nominal, real)
      /\ UNCHANGED <<tokenBalance, providers, providerVars, insuranceVars>>
      /\ UNCHANGED l2Supply
  BY DEF finalize
<1>3. CoverInv'
  BY <1>1, <1>2, PriceIs, CoverFinalize
<1>4. nominal \in Nat /\ real \in Nat /\ real <= nominal
  BY <1>2, BatchAmounts
<1>5. lockedBalance' = lockedBalance + real
  BY <1>2 DEF finalizeQueue
<1>6. Unfinalized' = Unfinalized - nominal
  BY <1>1, <1>2, UnfinalizedFinalize
<1> HIDE DEF nominal, real
<1>7. /\ accumulatedNegativeYields' \in Nat
      /\ accumulatedNegativeYields' >= accumulatedNegativeYields - (nominal - real)
  BY <1>1, <1>2, <1>4 DEF LossesAfter, BooksOK
<1>8. ProvidersOK' /\ RequestsAddUp' /\ Recorded' = Recorded /\ InsuranceOK' /\ BalancesOK'
  BY <1>1, <1>2, <1>7, ProvidersKept, InsuranceKept DEF ProvidersOK, BalancesOK
<1>9. ManagerTypeOK' /\ BooksOK'
  BY <1>3, <1>8, NextTypes
<1>10. availableBalance' = availableBalance - real
  BY <1>1, <1>2, <1>4, <1>5 DEF availableBalance, BooksOK
<1>11. Backed'
  <2>1. UNCHANGED l2Supply /\ Recorded' = Recorded /\ BooksOK /\ Backed /\ BooksOK'
    BY <1>1, <1>2, <1>8, <1>9
  <2>2. availableBalance + Recorded + accumulatedNegativeYields >= l2Supply + Unfinalized
    BY <2>1 DEF BooksOK
  <2>3. availableBalance' + Recorded' + accumulatedNegativeYields' >= l2Supply' + Unfinalized'
    <3>1. /\ availableBalance \in Int /\ Recorded \in Int /\ accumulatedNegativeYields \in Int
          /\ l2Supply \in Int /\ Unfinalized \in Int
      BY <2>1 DEF BooksOK
    <3>2. accumulatedNegativeYields' \in Int
      BY <1>7
    <3>3. l2Supply' = l2Supply /\ Recorded' = Recorded
      BY <2>1
    <3>4. nominal \in Int /\ real \in Int
      BY <1>4
    <3>5. \A a, w, l, m, s, u, n, r \in Int :
            a + w + l >= s + u /\ m >= l - (n - r) => (a - r) + w + m >= s + (u - n)
      OBVIOUS
    <3>6. (availableBalance - real) + Recorded + accumulatedNegativeYields' >= l2Supply + (Unfinalized - nominal)
      BY <1>7, <2>2, <3>1, <3>2, <3>4, <3>5
    <3> QED BY <1>6, <1>10, <3>3, <3>6
  <2> QED BY <2>1, <2>3 DEF BooksOK
<1> QED BY <1>3, <1>8, <1>9, <1>11 DEF ManagerInv

-----------------------------------------------------------------------------
(* Staking *)

\* Only what is not locked is staked.
LEMMA StakeStep ==
  ASSUME ManagerInv, NEW p \in Providers, NEW a \in Nat, stake(p, a)
  PROVE  ManagerInv'
<1>1. /\ CoverInv /\ BooksOK /\ RequestsAddUp /\ Backed /\ ManagerTypeOK
      /\ ProvidersOK /\ InsuranceOK /\ BalancesOK
  BY ManagerParts
<1>2. /\ a <= availableBalance /\ tokenBalance' = tokenBalance - a
      /\ stakedBalance' = [stakedBalance EXCEPT ![p] = @ + a]
      /\ stakedPrincipal' = [stakedPrincipal EXCEPT ![p] = @ + a]
      /\ UNCHANGED <<queueVars, lockedBalance, providers, pendingBalance,
                     unstakeRequests, lastClaimedIndex, insuranceVars>>
      /\ UNCHANGED <<accumulatedNegativeYields, l2Supply>>
  BY DEF stake, delegatedStake, Stakable, recordStakedDeposit, queueVars
<1>3. CoverInv'
  <2>1. tokenBalance' \in Nat /\ lockedBalance <= tokenBalance'
    BY <1>1, <1>2 DEF BooksOK
  <2> QED BY <1>1, <1>2, <2>1, CoverTokens
<1>4. ProvidersOK'
  BY <1>1, <1>2 DEF ProvidersOK
<1>5. RequestsAddUp' /\ InsuranceOK' /\ BalancesOK'
  BY <1>1, <1>2, InsuranceKept DEF RequestsAddUp, AskedFor, BalancesOK
<1>6. Recorded' = Recorded + a
  <2>1. /\ stakedPrincipal[p] \in Nat /\ pendingBalance[p] \in Nat
        /\ stakedPrincipal'[p] = stakedPrincipal[p] + a /\ pendingBalance'[p] = pendingBalance[p]
        /\ \A q \in Providers : q # p =>
             stakedPrincipal'[q] = stakedPrincipal[q] /\ pendingBalance'[q] = pendingBalance[q]
    BY <1>1, <1>2 DEF ProvidersOK
  <2>2. stakedPrincipal'[p] + pendingBalance'[p] \in Int
    BY <2>1
  <2>3. Recorded' = Recorded - (stakedPrincipal[p] + pendingBalance[p])
                      + (stakedPrincipal'[p] + pendingBalance'[p])
    BY <1>1, <2>1, <2>2, RecordedChange
  <2> QED BY <1>1, <2>1, <2>3 DEF BooksOK
<1>7. ManagerTypeOK' /\ BooksOK'
  BY <1>3, <1>4, <1>5, NextTypes
<1>8. Unfinalized' = Unfinalized
  BY <1>2, UnfinalizedKept
<1>9. Backed'
  <2>1. availableBalance' = availableBalance - a
    BY <1>1, <1>2 DEF availableBalance, BooksOK
  <2> QED BY <1>1, <1>2, <1>6, <1>7, <1>8, <2>1 DEF BooksOK
<1> QED BY <1>3, <1>5, <1>7, <1>9 DEF ManagerInv

\* A new request asks for what it adds to the pending balance.
LEMMA AskedForMore ==
  ASSUME ManagerTypeOK, RequestsAddUp, NEW p \in Providers, NEW a \in Nat,
         unstakeRequests' = [unstakeRequests EXCEPT ![p] =
                               Append(@, [amount |-> a, payout |-> UNFINALIZED])],
         pendingBalance' = [pendingBalance EXCEPT ![p] = @ + a],
         UNCHANGED lastClaimedIndex
  PROVE  /\ unstakeRequests' \in [Providers -> Seq(UnstakeRequest)]
         /\ \A q \in Providers : lastClaimedIndex'[q] \in 0 .. Len(unstakeRequests'[q])
         /\ RequestsAddUp'
<1> DEFINE n == Len(unstakeRequests[p])
           k == lastClaimedIndex[p]
           new == [amount |-> a, payout |-> UNFINALIZED]
           old == unstakeRequests[p]
           ids == k + 1 .. n
           f == [i \in ids |-> old[i].amount]
           g == [i \in k + 1 .. n + 1 |-> unstakeRequests'[p][i].amount]
<1>1. /\ old \in Seq(UnstakeRequest) /\ n \in Nat /\ k \in Nat /\ k <= n
      /\ \A i \in 1 .. n : old[i].amount \in Nat
  BY RequestFields
<1>2. new \in UnstakeRequest /\ new.amount = a
  BY DEF UnstakeRequest, UNFINALIZED
<1> HIDE DEF new
<1>3. unstakeRequests \in [Providers -> Seq(UnstakeRequest)]
      /\ \A q \in Providers : lastClaimedIndex[q] \in 0 .. Len(unstakeRequests[q])
      /\ pendingBalance \in [Providers -> Nat]
  BY DEF ManagerTypeOK
<1>4. unstakeRequests'[p] = Append(old, new)
      /\ \A q \in Providers : q # p => unstakeRequests'[q] = unstakeRequests[q]
  BY <1>3 DEF new
<1>5. /\ Append(old, new) \in Seq(UnstakeRequest) /\ Len(Append(old, new)) = n + 1
      /\ \A i \in 1 .. n : Append(old, new)[i] = old[i]
      /\ Append(old, new)[n + 1] = new
  BY <1>1, <1>2
<1>6. unstakeRequests' \in [Providers -> Seq(UnstakeRequest)]
  BY <1>3, <1>5 DEF new
<1>7. \A q \in Providers : lastClaimedIndex'[q] \in 0 .. Len(unstakeRequests'[q])
  <2> SUFFICES ASSUME NEW q \in Providers PROVE lastClaimedIndex'[q] \in 0 .. Len(unstakeRequests'[q])
    OBVIOUS
  <2>1. CASE q = p
    BY <1>1, <1>4, <1>5, <2>1
  <2>2. CASE q # p
    BY <1>3, <1>4, <2>2
  <2> QED BY <2>1, <2>2
<1>8. ASSUME NEW q \in Providers, q # p
      PROVE  pendingBalance'[q] = AskedFor(q, lastClaimedIndex[q] + 1 .. Len(unstakeRequests[q]))'
  <2>1. unstakeRequests'[q] = unstakeRequests[q] /\ pendingBalance'[q] = pendingBalance[q]
    BY <1>3, <1>4, <1>8
  <2> QED BY <2>1 DEF RequestsAddUp, AskedFor
<1>9. pendingBalance'[p] = AskedFor(p, lastClaimedIndex[p] + 1 .. Len(unstakeRequests[p]))'
  <2> DEFINE Asked(i, j) ==
               SumFunctionOnSet([x \in i + 1 .. j |-> unstakeRequests'[p][x].amount], i + 1 .. j)
  <2>1. AskedFor(p, lastClaimedIndex[p] + 1 .. Len(unstakeRequests[p]))'
          = Asked(lastClaimedIndex'[p], Len(unstakeRequests'[p]))
    BY DEF AskedFor
  <2>2. lastClaimedIndex'[p] = k /\ Len(unstakeRequests'[p]) = n + 1
    BY <1>4, <1>5
  <2>3. Asked(k, n + 1) = SumFunctionOnSet(g, k + 1 .. n + 1)
    OBVIOUS
  <2> HIDE DEF Asked
  <2>4. AskedFor(p, lastClaimedIndex[p] + 1 .. Len(unstakeRequests[p]))' = Asked(k, n + 1)
    BY <2>1, <2>2
  <2>5. pendingBalance'[p] = pendingBalance[p] + a /\ pendingBalance[p] = SumFunctionOnSet(f, ids)
    BY <1>3 DEF RequestsAddUp, AskedFor
  <2>6. \A i \in ids : f[i] \in Nat /\ g[i] = f[i]
    BY <1>1, <1>4, <1>5
  <2>7. g[n + 1] = a
    BY <1>1, <1>2, <1>4, <1>5
  <2>8. IsFiniteSet(ids) /\ n + 1 \notin ids /\ ids \cup {n + 1} = k + 1 .. n + 1
    <3>1. k + 1 \in Int /\ n \in Int
      BY <1>1
    <3>2. IsFiniteSet(k + 1 .. n)
      BY <3>1, FS_Interval
    <3> QED BY <1>1, <3>2
  <2> HIDE DEF f, g, ids, n, k
  <2>9. SumFunctionOnSet(f, ids) = SumFunctionOnSet(g, ids)
    BY <2>6, <2>8, SumSame
  <2>10. SumFunctionOnSet(g, ids \cup {n + 1}) = g[n + 1] + SumFunctionOnSet(g, ids)
    <3>1. \A x \in ids \cup {n + 1} : g[x] \in Int
      BY <2>6, <2>7
    <3> QED BY <2>8, <3>1, SumAdd
  <2>11. pendingBalance[p] \in Nat
    BY <1>3
  <2>12. SumFunctionOnSet(g, k + 1 .. n + 1) = a + pendingBalance[p]
    BY <2>5, <2>7, <2>8, <2>9, <2>10
  <2> QED BY <2>3, <2>4, <2>5, <2>11, <2>12
<1>10. RequestsAddUp'
  BY <1>8, <1>9 DEF RequestsAddUp
<1> QED BY <1>6, <1>7, <1>10

\* What is unstaked moves from the stake to what is pending, or to the manager.
LEMMA UnstakeStep ==
  ASSUME ManagerInv, NEW p \in Providers, NEW a \in Nat, unstake(p, a)
  PROVE  ManagerInv'
<1> DEFINE back == IF p \in Delayed THEN 0 ELSE a
           pending == IF p \in Delayed THEN a ELSE 0
<1>1. /\ CoverInv /\ BooksOK /\ RequestsAddUp /\ Backed /\ ManagerTypeOK
      /\ ProvidersOK /\ InsuranceOK /\ BalancesOK
  BY ManagerParts
<1>2. /\ a <= stakedBalance[p] /\ a <= stakedPrincipal[p]
      /\ tokenBalance' = tokenBalance + back
      /\ stakedBalance' = [stakedBalance EXCEPT ![p] = @ - a]
      /\ stakedPrincipal' = [stakedPrincipal EXCEPT ![p] = @ - a]
      /\ pendingBalance' = [pendingBalance EXCEPT ![p] = @ + pending]
      /\ UNCHANGED <<queueVars, lockedBalance, providers, lastClaimedIndex, insuranceVars>>
      /\ UNCHANGED <<accumulatedNegativeYields, l2Supply>>
  BY <1>1 DEF unstake, recordUnstaked, unstakeDelayed, unstakeImmediate, queueVars, BooksOK
<1>3. back \in Nat /\ pending \in Nat /\ back + pending = a
  OBVIOUS
<1>4. /\ stakedBalance' \in [Providers -> Nat] /\ stakedPrincipal' \in [Providers -> Nat]
      /\ pendingBalance' \in [Providers -> Nat]
  BY <1>1, <1>2, <1>3 DEF ProvidersOK
<1>5. /\ unstakeRequests' \in [Providers -> Seq(UnstakeRequest)]
      /\ \A q \in Providers : lastClaimedIndex'[q] \in 0 .. Len(unstakeRequests'[q])
      /\ RequestsAddUp'
  <2>1. CASE p \in Delayed
    <3>1. unstakeRequests' = [unstakeRequests EXCEPT ![p] =
                               Append(@, [amount |-> a, payout |-> UNFINALIZED])]
      BY <2>1 DEF unstake, unstakeDelayed, unstakeImmediate
    <3>2. pendingBalance' = [pendingBalance EXCEPT ![p] = @ + a]
      BY <1>2, <2>1
    <3> QED BY <1>1, <1>2, <3>1, <3>2, AskedForMore
  <2>2. CASE p \notin Delayed
    <3>1. UNCHANGED <<unstakeRequests, lastClaimedIndex>>
      BY <1>2, <2>2 DEF unstake, unstakeDelayed, unstakeImmediate
    <3>2. pendingBalance' = pendingBalance
      BY <1>1, <1>2, <2>2 DEF ProvidersOK
    <3> QED BY <1>1, <3>1, <3>2 DEF ProvidersOK, RequestsAddUp, AskedFor
  <2> QED BY <2>1, <2>2
<1> HIDE DEF back, pending
<1>6. CoverInv'
  <2>1. tokenBalance' \in Nat /\ lockedBalance <= tokenBalance'
    BY <1>1, <1>2, <1>3 DEF BooksOK
  <2> QED BY <1>1, <1>2, <2>1, CoverTokens
<1>7. ProvidersOK' /\ InsuranceOK' /\ BalancesOK'
  BY <1>1, <1>2, <1>4, <1>5, InsuranceKept DEF ProvidersOK, BalancesOK
<1>8. Recorded' = Recorded - back
  <2>1. /\ stakedPrincipal[p] \in Nat /\ pendingBalance[p] \in Nat
        /\ stakedPrincipal'[p] = stakedPrincipal[p] - a /\ pendingBalance'[p] = pendingBalance[p] + pending
        /\ \A q \in Providers : q # p =>
             stakedPrincipal'[q] = stakedPrincipal[q] /\ pendingBalance'[q] = pendingBalance[q]
    BY <1>1, <1>2 DEF ProvidersOK
  <2>2. stakedPrincipal'[p] + pendingBalance'[p] \in Int
    BY <1>3, <2>1
  <2>3. Recorded' = Recorded - (stakedPrincipal[p] + pendingBalance[p])
                      + (stakedPrincipal'[p] + pendingBalance'[p])
    BY <1>1, <2>1, <2>2, RecordedChange
  <2> QED BY <1>1, <1>3, <2>1, <2>3 DEF BooksOK
<1>9. ManagerTypeOK' /\ BooksOK'
  BY <1>6, <1>7, NextTypes
<1>10. Unfinalized' = Unfinalized
  BY <1>2, UnfinalizedKept
<1>11. Backed'
  <2>1. availableBalance' = availableBalance + back
    BY <1>1, <1>2, <1>3 DEF availableBalance, BooksOK
  <2> QED BY <1>1, <1>2, <1>3, <1>8, <1>9, <1>10, <2>1 DEF BooksOK
<1> QED BY <1>5, <1>6, <1>9, <1>11 DEF ManagerInv

-----------------------------------------------------------------------------
(* Steps that the books do not see *)

\* Nothing of what Backed adds up changes.
BooksKept ==
  UNCHANGED <<queueVars, tokenBalance, stakedPrincipal, pendingBalance,
              accumulatedNegativeYields, l2Supply>>

\* Such a step keeps the invariant when it keeps the types and the open requests.
LEMMA KeptStep ==
  ASSUME ManagerInv, BooksKept, ProvidersOK', InsuranceOK', RequestsAddUp'
  PROVE  ManagerInv'
<1>1. CoverInv /\ BooksOK /\ Backed /\ BalancesOK
  BY ManagerParts
<1>2. /\ UNCHANGED <<queueVars, tokenBalance, lockedBalance>> /\ Recorded' = Recorded
      /\ UNCHANGED <<accumulatedNegativeYields, l2Supply>>
  BY DEF BooksKept, queueVars, Recorded
<1>3. CoverInv'
  BY <1>1, <1>2, CoverTokens DEF BooksOK
<1>4. BalancesOK' /\ availableBalance' = availableBalance
  BY <1>1, <1>2 DEF BalancesOK, availableBalance
<1>5. ManagerTypeOK' /\ BooksOK'
  BY <1>3, <1>4, NextTypes
<1>6. Unfinalized' = Unfinalized
  BY <1>2, UnfinalizedKept
<1>7. Backed'
  BY <1>1, <1>2, <1>4, <1>5, <1>6 DEF BooksOK
<1> QED BY <1>3, <1>5, <1>7 DEF ManagerInv

\* The owner chooses providers and terms.
LEMMA OwnerStep ==
  ASSUME ManagerInv,
         \/ \E p \in Providers : addProvider(p) \/ removeProvider(p)
         \/ \E t \in InsuranceTerms : setInsurance(t)
  PROVE  ManagerInv'
<1>1. RequestsAddUp /\ ProvidersOK /\ InsuranceOK
  BY ManagerParts
<1>2. /\ BooksKept /\ UNCHANGED providerVars /\ providers' \subseteq Providers
      /\ insurance' \in InsuranceTerms \cup {NoInsurance} /\ UNCHANGED insuranceBalance
  BY <1>1 DEF addProvider, removeProvider, setInsurance, BooksKept, providerVars, insuranceVars,
              ProvidersOK, InsuranceOK
<1>3. ProvidersOK' /\ RequestsAddUp' /\ InsuranceOK'
  BY <1>1, <1>2, ProvidersKept DEF InsuranceOK
<1> QED BY <1>2, <1>3, KeptStep

\* The value of a stake moves; what is recorded of it does not.
LEMMA RebaseStep ==
  ASSUME ManagerInv, NEW p \in Providers, Rebase(p)
  PROVE  ManagerInv'
<1>1. RequestsAddUp /\ ProvidersOK /\ InsuranceOK
  BY ManagerParts
<1>2. /\ BooksKept /\ UNCHANGED <<providers, unstakeRequests, lastClaimedIndex, insuranceVars>>
      /\ stakedBalance[p] > 0
      /\ \/ stakedBalance' = [stakedBalance EXCEPT ![p] = @ + 1]
         \/ stakedBalance' = [stakedBalance EXCEPT ![p] = @ - 1]
  BY DEF Rebase, BooksKept
<1>3. stakedBalance' \in [Providers -> Nat]
  <2>1. stakedBalance \in [Providers -> Nat] /\ stakedBalance[p] + 1 \in Nat /\ stakedBalance[p] - 1 \in Nat
    BY <1>1, <1>2 DEF ProvidersOK
  <2>2. \A x \in Nat : [stakedBalance EXCEPT ![p] = x] \in [Providers -> Nat]
    BY <2>1
  <2> QED BY <1>2, <2>1, <2>2
<1>4. ProvidersOK' /\ RequestsAddUp' /\ InsuranceOK'
  BY <1>1, <1>2, <1>3, InsuranceKept DEF ProvidersOK, RequestsAddUp, AskedFor, BooksKept
<1> QED BY <1>2, <1>4, KeptStep

\* An answer of the protocol changes no amount that was asked for.
LEMMA FinalizeUnstakeStep ==
  ASSUME ManagerInv, NEW p \in Providers, FinalizeUnstake(p)
  PROVE  ManagerInv'
<1>1. RequestsAddUp /\ ProvidersOK /\ InsuranceOK /\ ManagerTypeOK
  BY ManagerParts
<1> DEFINE old == unstakeRequests[p]
<1>2. PICK i \in 1 .. Len(old) : \E payout \in 0 .. old[i].amount :
        unstakeRequests' = [unstakeRequests EXCEPT ![p][i].payout = payout]
  BY DEF FinalizeUnstake
<1>11. PICK payout \in 0 .. old[i].amount :
         unstakeRequests' = [unstakeRequests EXCEPT ![p][i].payout = payout]
  BY <1>2
<1>3. BooksKept /\ UNCHANGED <<providers, stakedBalance, lastClaimedIndex, insuranceVars>>
  BY DEF FinalizeUnstake, BooksKept
<1>4. old \in Seq(UnstakeRequest) /\ old[i] \in UnstakeRequest /\ old[i].amount \in Nat /\ payout \in Nat
  <2>1. old \in Seq(UnstakeRequest) /\ old[i].amount \in Nat
    BY <1>1, RequestFields
  <2> QED BY <2>1
<1> DEFINE new == [old EXCEPT ![i] = [old[i] EXCEPT !.payout = payout]]
<1>5. unstakeRequests' = [unstakeRequests EXCEPT ![p] = new]
  BY <1>11
<1>6. /\ new \in Seq(UnstakeRequest) /\ Len(new) = Len(old)
      /\ \A j \in 1 .. Len(old) : new[j].amount = old[j].amount
  <2>1. [old[i] EXCEPT !.payout = payout] \in UnstakeRequest
    BY <1>4 DEF UnstakeRequest
  <2>2. [old[i] EXCEPT !.payout = payout].amount = old[i].amount
    BY <1>4 DEF UnstakeRequest
  <2> QED BY <1>4, <2>1, <2>2
<1> HIDE DEF new
<1>7. /\ unstakeRequests' \in [Providers -> Seq(UnstakeRequest)]
      /\ \A q \in Providers :
           /\ Len(unstakeRequests'[q]) = Len(unstakeRequests[q])
           /\ \A j \in 1 .. Len(unstakeRequests[q]) :
                unstakeRequests'[q][j].amount = unstakeRequests[q][j].amount
  BY <1>1, <1>5, <1>6 DEF ProvidersOK
<1>8. ProvidersOK' /\ InsuranceOK'
  BY <1>1, <1>3, <1>7, InsuranceKept DEF ProvidersOK, BooksKept
<1>9. ASSUME NEW q \in Providers
      PROVE  pendingBalance'[q] = AskedFor(q, lastClaimedIndex[q] + 1 .. Len(unstakeRequests[q]))'
  <2> DEFINE ids == lastClaimedIndex[q] + 1 .. Len(unstakeRequests[q])
             f == [j \in ids |-> unstakeRequests[q][j].amount]
             g == [j \in ids |-> unstakeRequests'[q][j].amount]
  <2>1. lastClaimedIndex[q] \in Nat /\ Len(unstakeRequests[q]) \in Nat
    BY <1>1, RequestFields
  <2>2. f = g
    BY <1>7, <2>1
  <2>3. pendingBalance[q] = SumFunctionOnSet(f, ids)
    BY <1>1 DEF RequestsAddUp, AskedFor
  <2>4. AskedFor(q, lastClaimedIndex[q] + 1 .. Len(unstakeRequests[q]))' = SumFunctionOnSet(g, ids)
    BY <1>3, <1>7 DEF AskedFor
  <2> HIDE DEF f, g, ids
  <2> QED BY <1>3, <2>2, <2>3, <2>4 DEF BooksKept
<1>10. RequestsAddUp'
  BY <1>9 DEF RequestsAddUp
<1> QED BY <1>3, <1>8, <1>10, KeptStep

-----------------------------------------------------------------------------
(* The yield report *)

\* Premiums are a part of the gain, and covers are for losses.
LEMMA InsuranceAmounts ==
  ASSUME ManagerTypeOK, NEW p, NEW y \in Int, NEW e
  PROVE  /\ Premium(p, y, e) \in Nat /\ Cover(p, y, e) \in Nat
         /\ y > 0 => Premium(p, y, e) <= y
         /\ y <= 0 => Premium(p, y, e) = 0
<1>1. CASE ~ Insured(p, e)
  BY <1>1 DEF Premium, Cover
<1>2. CASE Insured(p, e)
  <2> DEFINE fee == insurance.feeBips
             buffer == insurance.buffer
  <2>1. insurance \in InsuranceTerms
    BY <1>2 DEF Insured, ManagerTypeOK
  <2>2. fee \in Nat /\ fee <= BASIS_POINTS /\ buffer \in Nat /\ BASIS_POINTS \in Nat \ {0}
    BY <2>1, ManagerAssumption
  <2>3. /\ Premium(p, y, e) = IF y > 0 THEN (y * fee) \div BASIS_POINTS ELSE 0
        /\ Cover(p, y, e) = IF y < 0 THEN buffer - y ELSE 0
    BY <1>2 DEF Premium, Cover
  <2> HIDE DEF fee, buffer
  <2>4. CASE y > 0
    <3>1. y \in Nat
      BY <2>4
    <3>2. (y * fee) \div BASIS_POINTS \in Nat /\ (y * fee) \div BASIS_POINTS <= y
      BY <2>2, <3>1, Fraction
    <3>3. Premium(p, y, e) = (y * fee) \div BASIS_POINTS /\ Cover(p, y, e) = 0
      BY <2>3, <2>4
    <3> QED BY <2>4, <3>2, <3>3
  <2>5. CASE y < 0
    <3>1. Premium(p, y, e) = 0 /\ Cover(p, y, e) = buffer - y
      BY <2>3, <2>5
    <3> QED BY <2>2, <2>5, <3>1
  <2>6. CASE y = 0
    BY <2>3, <2>6
  <2> QED BY <2>4, <2>5, <2>6
<1> QED BY <1>1, <1>2

\* What a report does to one provider.
LEMMA ReportAmounts ==
  ASSUME ManagerTypeOK, RequestsAddUp, NEW topUp \in [Providers -> Nat], NEW e,
         NEW p \in Providers, coverLoss(p, topUp[p] + Cover(p, Yield(p, topUp), e))
  PROVE  /\ StakeAfter(p, e, topUp) \in Nat
         /\ ToManager(p, e, topUp) \in Nat /\ ToManager(p, e, topUp) >= Claimed(p)
         /\ commitYield(p, e, topUp) \in Int
         /\ StakeAfter(p, e, topUp) = stakedPrincipal[p] + commitYield(p, e, topUp)
         /\ insuranceBalance[p] + Premium(p, Yield(p, topUp), e) - topUp[p]
              - Cover(p, Yield(p, topUp), e) \in Nat
<1> DEFINE y == Yield(p, topUp)
           premium == Premium(p, y, e)
           cover == Cover(p, y, e)
           s == stakedBalance[p]
           r == stakedPrincipal[p]
           t == topUp[p]
           after == StakeAfter(p, e, topUp)
           to == ToManager(p, e, topUp)
           b == insuranceBalance[p]
           c == Claimed(p)
<1>1. s \in Nat /\ r \in Nat /\ t \in Nat /\ b \in Nat
  BY DEF ManagerTypeOK
<1>2. c \in Nat
  BY BatchOfPending
<1>3. y = s - r + IF p \in Delayed THEN t ELSE 0
  BY DEF Yield
<1>4. after = r + y - premium + IF p \in Delayed THEN cover ELSE 0
  BY DEF StakeAfter
<1>5. to = c + IF p \in Delayed THEN 0 ELSE t + cover
  BY DEF ToManager
<1>6. b >= t + cover
  BY DEF coverLoss
<1>7. commitYield(p, e, topUp) = after - r
  BY DEF commitYield
<1> HIDE DEF y, s, r, t, b, c
<1>8. y \in Int
  BY <1>1, <1>3
<1>9. /\ premium \in Nat /\ cover \in Nat
      /\ y > 0 => premium <= y
      /\ y <= 0 => premium = 0
  BY <1>8, InsuranceAmounts
<1> HIDE DEF premium, cover, after, to
<1>10. after \in Nat
  <2>1. r + y \in Nat
    BY <1>1, <1>3
  <2>2. r + y - premium \in Nat
    BY <1>1, <1>8, <1>9, <2>1
  <2> QED BY <1>4, <1>9, <2>2
<1>11. to \in Nat /\ to >= c
  BY <1>1, <1>2, <1>5, <1>9
<1>12. b + premium - t - cover \in Nat
  BY <1>1, <1>6, <1>9
<1> QED BY <1>1, <1>7, <1>10, <1>11, <1>12 DEF y, premium, cover, s, r, t, after, to, b, c

\* What a report moves, provider by provider, over all of them: what is recorded and
\* the yields committed are covered by what is recorded afterwards, what came to the
\* manager, and the losses that claims realized.
LEMMA ReportBalances ==
  ASSUME ManagerTypeOK, RequestsAddUp, ProvidersOK, NEW topUp \in [Providers -> Nat], NEW e,
         CommitYieldReport(e, topUp),
         \A p \in Providers : coverLoss(p, topUp[p] + Cover(p, Yield(p, topUp), e))
  PROVE  LET M == SumFunctionOnSet([p \in Providers |-> ToManager(p, e, topUp)], Providers)
             C == SumFunctionOnSet([p \in providers |-> commitYield(p, e, topUp)], providers)
             X == SumFunctionOnSet([p \in providers |-> recordNegativeYield(p)], providers)
         IN  /\ M \in Nat /\ C \in Int /\ X \in Int /\ Recorded' \in Int
             /\ Recorded + C <= M + Recorded' + X
<1> DEFINE m == [p \in Providers |-> ToManager(p, e, topUp)]
           c0 == [p \in providers |-> commitYield(p, e, topUp)]
           x0 == [p \in providers |-> recordNegativeYield(p)]
           c == [p \in Providers |-> IF p \in providers THEN commitYield(p, e, topUp) ELSE 0]
           x == [p \in Providers |-> recordNegativeYield(p)]
           r == [p \in Providers |-> stakedPrincipal[p] + pendingBalance[p]]
           r1 == [p \in Providers |-> stakedPrincipal'[p] + pendingBalance'[p]]
           before == [p \in Providers |-> r[p] + c[p]]
           moved == [p \in Providers |-> m[p] + r1[p]]
           after == [p \in Providers |-> moved[p] + x[p]]
           Sum(f) == SumFunctionOnSet(f, Providers)
<1>1. /\ \A p \in Providers : stakedPrincipal'[p] = IF p \in providers THEN StakeAfter(p, e, topUp)
                                                    ELSE stakedPrincipal[p]
      /\ \A p \in Providers : pendingBalance'[p] = pendingBalance[p] - Expected(p)
  BY DEF CommitYieldReport, PendingAfterClaim
<1>2. IsFiniteSet(Providers) /\ IsFiniteSet(providers) /\ providers \in SUBSET Providers
  BY ManagerAssumption, FS_Subset DEF ProvidersOK
<1>3. ASSUME NEW p \in Providers
      PROVE  /\ m[p] \in Nat /\ c[p] \in Int /\ x[p] \in Int /\ r[p] \in Int /\ r1[p] \in Int
             /\ r[p] + c[p] <= m[p] + r1[p] + x[p]
             /\ p \notin providers => x[p] = 0
  <2>1. /\ StakeAfter(p, e, topUp) \in Nat /\ ToManager(p, e, topUp) \in Nat
        /\ ToManager(p, e, topUp) >= Claimed(p) /\ commitYield(p, e, topUp) \in Int
        /\ StakeAfter(p, e, topUp) = stakedPrincipal[p] + commitYield(p, e, topUp)
    BY ReportAmounts
  <2>2. Expected(p) \in Nat /\ Claimed(p) \in Nat /\ (p \notin providers => Expected(p) = 0 /\ Claimed(p) = 0)
    BY BatchOfPending
  <2>3. stakedPrincipal[p] \in Nat /\ pendingBalance[p] \in Nat
    BY DEF ManagerTypeOK
  <2>4. /\ m[p] = ToManager(p, e, topUp) /\ x[p] = Expected(p) - Claimed(p)
        /\ c[p] = IF p \in providers THEN commitYield(p, e, topUp) ELSE 0
        /\ r[p] = stakedPrincipal[p] + pendingBalance[p]
        /\ r1[p] = stakedPrincipal'[p] + pendingBalance'[p]
    BY DEF recordNegativeYield
  <2> HIDE DEF m, c, x, r, r1
  <2>5. r1[p] = stakedPrincipal[p] + c[p] + (pendingBalance[p] - Expected(p))
    BY <1>1, <2>1, <2>3, <2>4
  <2>6. c[p] \in Int
    BY <2>1, <2>4
  <2> QED BY <2>1, <2>2, <2>3, <2>4, <2>5, <2>6
<1>4. /\ \A p \in providers : c0[p] = c[p] /\ x0[p] = x[p]
      /\ \A p \in Providers \ providers : c[p] = 0
  BY <1>2
<1>5. Recorded = Sum(r) /\ Recorded' = Sum(r1)
  BY DEF Recorded
<1>6. /\ \A p \in Providers : before[p] = r[p] + c[p]
      /\ \A p \in Providers : moved[p] = m[p] + r1[p]
      /\ \A p \in Providers : after[p] = moved[p] + x[p]
  OBVIOUS
<1> HIDE DEF m, c0, x0, c, x, r, r1, before, moved, after, Sum
<1>7. /\ Sum(m) \in Nat /\ Sum(c) \in Int /\ Sum(x) \in Int /\ Sum(r) \in Int /\ Sum(r1) \in Int
  BY <1>2, <1>3, SumNat, SumInt DEF Sum
<1>8. Sum(before) = Sum(r) + Sum(c)
  BY <1>2, <1>3, <1>6, SumPlus DEF Sum
<1>9. Sum(moved) = Sum(m) + Sum(r1)
  BY <1>2, <1>3, <1>6, SumPlus DEF Sum
<1>10. Sum(after) = Sum(moved) + Sum(x)
  <2>1. \A p \in Providers : moved[p] \in Int
    BY <1>3, <1>6
  <2> QED BY <1>2, <1>3, <1>6, <2>1, SumPlus DEF Sum
<1>11. Sum(before) <= Sum(after)
  <2>1. \A p \in Providers : before[p] \in Int /\ after[p] \in Int /\ before[p] <= after[p]
    BY <1>3, <1>6
  <2> QED BY <1>2, <2>1, SumLeq DEF Sum
<1>12. Sum(c) = SumFunctionOnSet(c0, providers)
  <2>1. Sum(c) = SumFunctionOnSet(c, providers)
    BY <1>2, <1>3, <1>4, SumWithin DEF Sum
  <2>2. SumFunctionOnSet(c, providers) = SumFunctionOnSet(c0, providers)
    BY <1>2, <1>4, SumSame
  <2> QED BY <2>1, <2>2
<1>13. Sum(x) = SumFunctionOnSet(x0, providers)
  <2>1. Sum(x) = SumFunctionOnSet(x, providers)
    BY <1>2, <1>3, SumWithin DEF Sum
  <2>2. SumFunctionOnSet(x, providers) = SumFunctionOnSet(x0, providers)
    BY <1>2, <1>4, SumSame
  <2> QED BY <2>1, <2>2
<1>14. Sum(r) + Sum(c) <= Sum(m) + Sum(r1) + Sum(x)
  BY <1>7, <1>8, <1>9, <1>10, <1>11
<1> QED BY <1>5, <1>7, <1>12, <1>13, <1>14 DEF Sum, m, c0, x0

\* A report distributes what it nets, to L2 or to the losses.
LEMMA ReportStep ==
  ASSUME ManagerInv, NEW topUp \in [Providers -> Nat], NEW e, CommitYieldReport(e, topUp)
  PROVE  /\ ManagerInv' /\ l2Supply' >= l2Supply
         /\ UNCHANGED queueVars /\ tokenBalance' >= tokenBalance
<1> DEFINE M == SumFunctionOnSet([p \in Providers |-> ToManager(p, e, topUp)], Providers)
           C == SumFunctionOnSet([p \in providers |-> commitYield(p, e, topUp)], providers)
           X == SumFunctionOnSet([p \in providers |-> recordNegativeYield(p)], providers)
           y == TotalYield(e, topUp)
<1>1. /\ CoverInv /\ BooksOK /\ RequestsAddUp /\ Backed /\ ManagerTypeOK
      /\ ProvidersOK /\ InsuranceOK /\ BalancesOK
  BY ManagerParts
<1>2. /\ \A p \in Providers : coverLoss(p, topUp[p] + Cover(p, Yield(p, topUp), e))
      /\ tokenBalance' = tokenBalance + M
      /\ stakedBalance' = [p \in Providers |-> StakeAfter(p, e, topUp)]
      /\ stakedPrincipal' = [p \in Providers |-> IF p \in providers THEN stakedBalance'[p]
                                                 ELSE stakedPrincipal[p]]
      /\ pendingBalance' = [p \in Providers |-> pendingBalance[p] - Expected(p)]
      /\ lastClaimedIndex' = [p \in Providers |-> LastClaimable(p)]
      /\ insuranceBalance' = [p \in Providers |->
                                insuranceBalance[p] + Premium(p, Yield(p, topUp), e) - topUp[p]
                                  - Cover(p, Yield(p, topUp), e)]
      /\ accumulatedNegativeYields' = IF y < 0 THEN -y ELSE 0
      /\ l2Supply' = l2Supply + IF y > 0 THEN y ELSE 0
      /\ UNCHANGED <<queueVars, lockedBalance, providers, unstakeRequests, insurance>>
  BY DEF CommitYieldReport, PendingAfterClaim, queueVars
<1>3. /\ M \in Nat /\ C \in Int /\ X \in Int /\ Recorded' \in Int
      /\ Recorded + C <= M + Recorded' + X
  BY <1>1, <1>2, ReportBalances
<1>4. y = C - (accumulatedNegativeYields + X)
  BY DEF TotalYield, NetYield
<1> HIDE DEF M, C, X, y
<1>5. y \in Int
  BY <1>1, <1>3, <1>4 DEF BooksOK
<1>6. BalancesOK' /\ l2Supply' >= l2Supply
      /\ accumulatedNegativeYields' - l2Supply' = - y - l2Supply
  BY <1>1, <1>2, <1>5 DEF BalancesOK
<1>7. CoverInv'
  <2>1. tokenBalance' \in Nat /\ lockedBalance <= tokenBalance'
    BY <1>1, <1>2, <1>3 DEF BooksOK
  <2> QED BY <1>1, <1>2, <2>1, CoverTokens
<1>8. ProvidersOK'
  <2>1. /\ \A p \in Providers : StakeAfter(p, e, topUp) \in Nat
        /\ \A p \in Providers : stakedPrincipal[p] \in Nat
        /\ \A p \in Providers : pendingBalance[p] - Expected(p) \in Nat
        /\ \A p \in Providers : LastClaimable(p) \in 0 .. Len(unstakeRequests[p])
    <3> SUFFICES ASSUME NEW p \in Providers
                 PROVE  /\ StakeAfter(p, e, topUp) \in Nat /\ stakedPrincipal[p] \in Nat
                        /\ pendingBalance[p] - Expected(p) \in Nat
                        /\ LastClaimable(p) \in 0 .. Len(unstakeRequests[p])
      OBVIOUS
    <3>1. StakeAfter(p, e, topUp) \in Nat
      BY <1>1, <1>2, ReportAmounts
    <3>2. pendingBalance[p] - Expected(p) \in Nat
      BY <1>1, BatchOfPending
    <3>3. LastClaimable(p) \in 0 .. Len(unstakeRequests[p])
      BY <1>1, RequestFields, ClaimBatchAnswered
    <3> QED BY <1>1, <3>1, <3>2, <3>3 DEF ProvidersOK
  <2>2. stakedBalance' \in [Providers -> Nat] /\ stakedPrincipal' \in [Providers -> Nat]
    BY <1>2, <2>1
  <2>3. pendingBalance' \in [Providers -> Nat]
    BY <1>2, <2>1
  <2>4. \A p \in Providers : lastClaimedIndex'[p] \in 0 .. Len(unstakeRequests'[p])
    BY <1>2, <2>1
  <2> QED BY <1>1, <1>2, <2>2, <2>3, <2>4 DEF ProvidersOK
<1>9. InsuranceOK'
  <2>1. \A p \in Providers : insuranceBalance[p] + Premium(p, Yield(p, topUp), e) - topUp[p]
                               - Cover(p, Yield(p, topUp), e) \in Nat
    BY <1>1, <1>2, ReportAmounts
  <2> QED BY <1>1, <1>2, <2>1 DEF InsuranceOK
<1>10. RequestsAddUp'
  <2>1. ASSUME NEW p \in Providers
        PROVE  pendingBalance'[p] = AskedFor(p, lastClaimedIndex[p] + 1 .. Len(unstakeRequests[p]))'
    <3>1. pendingBalance'[p] = AskedFor(p, LastClaimable(p) + 1 .. Len(unstakeRequests[p]))
      BY <1>1, <1>2, BatchOfPending
    <3>2. lastClaimedIndex'[p] = LastClaimable(p) /\ unstakeRequests' = unstakeRequests
      BY <1>2
    <3> QED BY <3>1, <3>2 DEF AskedFor
  <2> QED BY <2>1 DEF RequestsAddUp
<1>11. ManagerTypeOK' /\ BooksOK'
  BY <1>6, <1>7, <1>8, <1>9, NextTypes
<1>12. Unfinalized' = Unfinalized
  BY <1>2, UnfinalizedKept
<1>13. Backed'
  <2>1. availableBalance' = availableBalance + M
    BY <1>1, <1>2, <1>3 DEF availableBalance, BooksOK
  <2>2. availableBalance + Recorded + accumulatedNegativeYields >= l2Supply + Unfinalized
    BY <1>1 DEF BooksOK
  <2>3. /\ availableBalance \in Int /\ Recorded \in Int /\ accumulatedNegativeYields \in Int
        /\ l2Supply \in Int /\ Unfinalized \in Int
    BY <1>1 DEF BooksOK
  <2>4. accumulatedNegativeYields' \in Int /\ l2Supply' \in Int
    BY <1>6 DEF BalancesOK
  <2>5. accumulatedNegativeYields' - l2Supply' = accumulatedNegativeYields + X - C - l2Supply
    <3>1. - y - l2Supply = accumulatedNegativeYields + X - C - l2Supply
      BY <1>3, <1>4, <2>3
    <3> QED BY <1>6, <3>1
  <2>6. (availableBalance + M) + Recorded' + accumulatedNegativeYields' >= l2Supply' + Unfinalized
    <3>1. M \in Int /\ C \in Int /\ X \in Int /\ Recorded' \in Int
      BY <1>3
    <3>2. \A r, l, s \in Int :
            Recorded + C <= M + r + X /\ l - s = accumulatedNegativeYields + X - C - l2Supply
              => (availableBalance + M) + r + l >= s + Unfinalized
      BY <2>2, <2>3, <3>1
    <3>3. Recorded + C <= M + Recorded' + X
          /\ accumulatedNegativeYields' - l2Supply' = accumulatedNegativeYields + X - C - l2Supply
            => (availableBalance + M) + Recorded' + accumulatedNegativeYields' >= l2Supply' + Unfinalized
      BY <2>4, <3>1, <3>2
    <3>4. Recorded + C <= M + Recorded' + X
      BY <1>3
    <3> QED BY <2>5, <3>3, <3>4
  <2> QED BY <1>11, <1>12, <2>1, <2>6 DEF BooksOK
<1>14. UNCHANGED queueVars /\ tokenBalance' >= tokenBalance
  BY <1>1, <1>2, <1>3 DEF BooksOK
<1> QED BY <1>6, <1>7, <1>10, <1>11, <1>13, <1>14 DEF ManagerInv
-----------------------------------------------------------------------------
(* The manager *)

\* It starts empty.
LEMMA ManagerStart ==
  ASSUME ManagerInit
  PROVE  ManagerInv
<1>1. CoverInv
  BY CoverInit DEF ManagerInit
<1>2. ProvidersOK
  <2>1. /\ providers = {} /\ stakedBalance = [p \in Providers |-> 0]
        /\ stakedPrincipal = [p \in Providers |-> 0] /\ pendingBalance = [p \in Providers |-> 0]
        /\ unstakeRequests = [p \in Providers |-> <<>>] /\ lastClaimedIndex = [p \in Providers |-> 0]
    BY DEF ManagerInit
  <2>2. <<>> \in Seq(UnstakeRequest) /\ Len(<<>>) = 0 /\ 0 \in 0 .. 0
    OBVIOUS
  <2> QED BY <2>1, <2>2 DEF ProvidersOK
<1>3. InsuranceOK /\ BalancesOK
  BY ManagerAssumption DEF ManagerInit, InsuranceOK, BalancesOK
<1>4. ManagerTypeOK /\ BooksOK
  BY <1>1, <1>2, <1>3, TypeParts, BooksAre
<1>5. RequestsAddUp
  <2> SUFFICES ASSUME NEW p \in Providers
               PROVE  pendingBalance[p] =
                        AskedFor(p, lastClaimedIndex[p] + 1 .. Len(unstakeRequests[p]))
    BY DEF RequestsAddUp
  <2>1. pendingBalance[p] = 0 /\ lastClaimedIndex[p] = 0 /\ Len(unstakeRequests[p]) = 0
    BY DEF ManagerInit
  <2>2. lastClaimedIndex[p] + 1 .. Len(unstakeRequests[p]) = {}
    BY <2>1
  <2> QED BY <2>1, <2>2, SumEmpty DEF AskedFor
<1>6. Backed
  <2>1. l2Supply = 0 /\ Unfinalized = 0
    BY DEF ManagerInit, QueueInit, Unfinalized, lastRequestId, Cumulative
  <2>2. availableBalance \in Nat /\ Recorded \in Nat /\ accumulatedNegativeYields \in Nat
    BY <1>4 DEF BooksOK
  <2> QED BY <1>4, <2>1, <2>2 DEF BooksOK
<1> QED BY <1>1, <1>4, <1>5, <1>6 DEF ManagerInv

\* The two kinds of report are reports with a payment of the insurance in advance.
LEMMA ReportIs ==
  ASSUME \/ \E e \in BOOLEAN : commitYieldReport(e)
         \/ \E p \in Providers, a \in Amounts : commitYieldReportAfterInsuranceWithdrawal(p, a)
  PROVE  \E topUp \in [Providers -> Nat], e \in BOOLEAN : CommitYieldReport(e, topUp)
<1>1. CASE \E e \in BOOLEAN : commitYieldReport(e)
  <2>1. [p \in Providers |-> 0] \in [Providers -> Nat]
    OBVIOUS
  <2> QED BY <1>1, <2>1 DEF commitYieldReport
<1>2. CASE \E p \in Providers, a \in Amounts : commitYieldReportAfterInsuranceWithdrawal(p, a)
  <2>1. PICK p \in Providers, a \in Amounts : commitYieldReportAfterInsuranceWithdrawal(p, a)
    BY <1>2
  <2>2. a \in Nat
    BY QueueAssumption
  <2>3. [q \in Providers |-> IF q = p THEN a ELSE 0] \in [Providers -> Nat]
    BY <2>2
  <2> QED BY <2>1, <2>3 DEF commitYieldReportAfterInsuranceWithdrawal
<1> QED BY <1>1, <1>2

\* Indices of requests and hints are natural numbers.
LEMMA IndexTypes ==
  ASSUME QueueInv
  PROVE  1 .. lastRequestId \subseteq Nat /\ 1 .. lastFinalizedRequestId \subseteq Nat
         /\ 1 .. lastCheckpointId \subseteq Nat
BY QueueFields DEF QueueInv, QueueTypeOK, lastRequestId

\* Every step of the manager keeps its invariant.
LEMMA ManagerStepInv ==
  ASSUME ManagerInv, [ManagerNext]_managerVars
  PROVE  ManagerInv'
<1>1. Amounts \subseteq Nat /\ Delayed \subseteq Providers
  BY QueueAssumption, ManagerAssumption
<1>2. 1 .. lastRequestId \subseteq Nat /\ 1 .. lastFinalizedRequestId \subseteq Nat
      /\ 1 .. lastCheckpointId \subseteq Nat
  BY ManagerParts, IndexTypes
<1>3. CASE \E a \in Amounts : deposit(a)
  BY <1>1, <1>3, DepositStep
<1>4. CASE \E p \in Delayed, a \in Amounts : bridgeStakedToken(p, a)
  BY <1>1, <1>4, StakedDepositStep
<1>5. CASE \E r \in Recipients, a \in Amounts : requestFromL2(r, a)
  BY <1>1, <1>5, RequestStep
<1>6. CASE \E id \in 1 .. lastRequestId : finalize(id)
  BY <1>2, <1>6, FinalizeStep
<1>7. CASE \E id \in 1 .. lastFinalizedRequestId, h \in 1 .. lastCheckpointId, c \in Recipients :
             claim(id, h, c)
  BY <1>2, <1>7, ClaimStep
<1>8. CASE \E p \in Providers, a \in Amounts : stake(p, a)
  BY <1>1, <1>8, StakeStep
<1>9. CASE \E p \in Providers, a \in Amounts : unstake(p, a)
  BY <1>1, <1>9, UnstakeStep
<1>10. CASE \/ \E e \in BOOLEAN : commitYieldReport(e)
            \/ \E p \in Providers, a \in Amounts : commitYieldReportAfterInsuranceWithdrawal(p, a)
  <2>1. \E topUp \in [Providers -> Nat], e \in BOOLEAN : CommitYieldReport(e, topUp)
    BY <1>10, ReportIs
  <2> QED BY <2>1, ReportStep
<1>11. CASE \/ \E p \in Providers : addProvider(p)
            \/ \E p \in Providers : removeProvider(p)
            \/ \E t \in InsuranceTerms : setInsurance(t)
  BY <1>11, OwnerStep
<1>12. CASE \E p \in Providers : Rebase(p)
  BY <1>12, RebaseStep
<1>13. CASE \E p \in Providers : FinalizeUnstake(p)
  BY <1>13, FinalizeUnstakeStep
<1>14. CASE UNCHANGED managerVars
  <2>1. RequestsAddUp /\ ProvidersOK /\ InsuranceOK
    BY ManagerParts
  <2>2. /\ BooksKept /\ UNCHANGED <<providers, stakedBalance, unstakeRequests, lastClaimedIndex>>
        /\ UNCHANGED insuranceVars
    BY <1>14 DEF managerVars, providerVars, insuranceVars, BooksKept
  <2>3. ProvidersOK' /\ RequestsAddUp' /\ InsuranceOK'
    BY <2>1, <2>2, InsuranceKept DEF ProvidersOK, RequestsAddUp, AskedFor, BooksKept
  <2> QED BY <2>2, <2>3, KeptStep
<1> QED BY <1>3, <1>4, <1>5, <1>6, <1>7, <1>8, <1>9, <1>10, <1>11, <1>12, <1>13, <1>14 DEF ManagerNext

\* The manager keeps its invariant.
THEOREM ManagerInvariant == ManagerSpec => []ManagerInv
<1>1. ManagerInit => ManagerInv
  BY ManagerStart
<1>2. ManagerInv /\ [ManagerNext]_managerVars => ManagerInv'
  BY ManagerStepInv
<1> QED BY <1>1, <1>2, PTL DEF ManagerSpec

\* The books balance: what is available, staked or on its way back, with the losses
\* still to be charged, covers the supply on L2 and the queue.
THEOREM BooksBalance == ManagerSpec => []Backed
<1>1. ManagerInv => Backed
  BY DEF ManagerInv
<1> QED BY <1>1, ManagerInvariant, PTL

\* Finalized money is held, and what is pending is what open unstake requests ask for.
THEOREM MoneyIsHeldOrRequested == ManagerSpec => []HeldOrRequested
<1>1. ManagerInv => HeldOrRequested
  BY DEF ManagerInv, CoverInv, LockedBalanceCoversClaims, RequestsAddUp, HeldOrRequested
<1> QED BY <1>1, ManagerInvariant, PTL
-----------------------------------------------------------------------------
(* The price of the next batch *)

\* A batch that is charged to the losses in full leaves a value that covers its own
\* price for all that remains.
LEMMA PriceAfterBatch ==
  ASSUME NEW v \in Nat, NEW l \in Nat, NEW n \in Nat, NEW r \in Nat, NEW p \in Nat, NEW e \in Nat,
         p * (v + l) <= v * e, r * e <= n * p
  PROVE  p * ((v - r) + (l - (n - r))) <= (v - r) * e
<1>1. (v - r) + (l - (n - r)) = (v + l) - n
  OBVIOUS
<1>2. p * ((v + l) - n) = p * (v + l) - n * p
  OBVIOUS
<1>3. (v - r) * e = v * e - r * e
  OBVIOUS
<1>4. p * (v + l) \in Int /\ v * e \in Int /\ r * e \in Int /\ n * p \in Int
  OBVIOUS
<1>5. p * (v + l) - n * p <= v * e - r * e
  <2> DEFINE a == p * (v + l)
             b == v * e
             c == r * e
             d == n * p
  <2>1. a \in Int /\ b \in Int /\ c \in Int /\ d \in Int /\ a <= b /\ c <= d
    BY <1>4
  <2> HIDE DEF a, b, c, d
  <2>2. a - d <= b - c
    BY <2>1
  <2> QED BY <2>2 DEF a, b, c, d
<1> QED BY <1>1, <1>2, <1>3, <1>5

\* The next batch has a price that is not lower, unless the value is used up.
LEMMA PriceNeverFalls ==
  ASSUME ManagerInv, NEW id \in Nat, finalize(id)
  PROVE  totalValue' = 0 \/ sharePrice' >= sharePrice
<1> DEFINE v == totalValue
           l == accumulatedNegativeYields
           n == NominalToFinalize(id)
           r == RealToFinalize(id, sharePrice)
           p == sharePrice
           e == E27_PRECISION_BASE
           v1 == totalValue'
           l1 == accumulatedNegativeYields'
<1>1. /\ totalValue > 0 /\ finalizeQueue(id, availableBalance, sharePrice)
      /\ accumulatedNegativeYields' = LossesAfter(n, r)
      /\ UNCHANGED <<tokenBalance, providers, providerVars>>
      /\ lockedBalance' = lockedBalance + r /\ r <= availableBalance
  BY DEF finalize, finalizeQueue
<1>2. BooksOK /\ ProvidersOK
  BY ManagerParts
<1>3. /\ v \in Nat /\ p \in Nat /\ p <= e /\ p * (v + l) <= v * e
  BY <1>1, PriceIs
<1>4. n \in Nat /\ r \in Nat /\ r <= n /\ r * e <= n * p
  BY <1>1, BatchAmounts
<1>5. l \in Nat /\ e \in Nat \ {0}
  BY <1>2, QueueAssumption DEF BooksOK
<1>6. totalProviderValue \in Nat /\ totalProviderValue' = totalProviderValue
  BY <1>1, <1>2, ProviderValueType DEF totalProviderValue, providerVars
<1>7. v1 = v - r /\ v1 \in Nat
  <2>1. availableBalance' = availableBalance - r /\ availableBalance \in Nat
    BY <1>1, <1>2, <1>4 DEF availableBalance, BooksOK
  <2>2. v = availableBalance + totalProviderValue /\ v1 = availableBalance' + totalProviderValue'
    BY DEF totalValue
  <2> HIDE DEF v, v1, r
  <2> QED BY <1>1, <1>4, <1>6, <2>1, <2>2 DEF r
<1>8. l1 = IF l > n - r THEN l - (n - r) ELSE 0
  BY <1>1 DEF LossesAfter
<1>9. sharePrice' = (v1 * e) \div (v1 + l1)
  BY DEF sharePrice
<1> HIDE DEF v, l, n, r, p, e, v1, l1
<1>10. l1 \in Nat
  BY <1>4, <1>5, <1>8
<1>11. p * (v1 + l1) <= v1 * e
  <2>1. CASE l > n - r
    <3>1. v1 + l1 = (v - r) + (l - (n - r))
      BY <1>7, <1>8, <2>1
    <3>2. p * ((v - r) + (l - (n - r))) <= (v - r) * e
      BY <1>3, <1>4, <1>5, PriceAfterBatch
    <3> QED BY <1>7, <3>1, <3>2
  <2>2. CASE ~ (l > n - r)
    <3>1. v1 + l1 = v1
      BY <1>7, <1>8, <2>2
    <3>2. \A a, b, c \in Nat : a <= b => a * c <= c * b
      OBVIOUS
    <3> QED BY <1>3, <1>5, <1>7, <3>1, <3>2
  <2> QED BY <2>1, <2>2
<1>12. CASE v1 = 0
  BY <1>12 DEF v1
<1>13. CASE v1 # 0
  <2>1. v1 * e \in Nat /\ v1 + l1 \in Nat \ {0}
    BY <1>5, <1>7, <1>10, <1>13
  <2>2. p <= (v1 * e) \div (v1 + l1) /\ (v1 * e) \div (v1 + l1) \in Int
    <3> DEFINE x == v1 * e
               d == v1 + l1
    <3>1. x \in Nat /\ d \in Nat \ {0} /\ p * d <= x
      BY <1>11, <2>1
    <3> HIDE DEF x, d
    <3>2. p <= x \div d /\ x \div d \in Int
      BY <1>3, <3>1, DivAtLeast
    <3> QED BY <3>2 DEF x, d
  <2>3. sharePrice' \in Int /\ p <= sharePrice'
    BY <1>9, <2>2
  <2>4. p \in Int
    BY <1>3
  <2>5. sharePrice' >= p
    BY <2>3, <2>4
  <2> QED BY <2>5 DEF p
<1> QED BY <1>12, <1>13

\* What finalizing a batch does to the price of the next.
PriceKept ==
  lastFinalizedRequestId' # lastFinalizedRequestId =>
    (totalValue' = 0 \/ sharePrice' >= sharePrice)

\* Only a batch moves the last finalized request.
LEMMA PriceKeptStep ==
  ASSUME ManagerInv, [ManagerNext]_managerVars
  PROVE  [PriceKept]_managerVars
<1>1. CASE \E id \in 1 .. lastRequestId : finalize(id)
  <2>1. PICK id \in 1 .. lastRequestId : finalize(id)
    BY <1>1
  <2>2. id \in Nat
    BY ManagerParts, IndexTypes
  <2> QED BY <2>1, <2>2, PriceNeverFalls DEF PriceKept
<1>2. CASE ~ \E id \in 1 .. lastRequestId : finalize(id)
  <2>1. lastFinalizedRequestId' = lastFinalizedRequestId
    BY <1>2 DEF ManagerNext, managerVars, queueVars, deposit, bridgeStakedToken, requestFromL2,
         requestWithdrawal, claim, claimWithdrawal, stake, unstake, commitYieldReport,
         commitYieldReportAfterInsuranceWithdrawal, CommitYieldReport, addProvider, removeProvider,
         setInsurance, Rebase, FinalizeUnstake
  <2> QED BY <2>1 DEF PriceKept
<1> QED BY <1>1, <1>2

\* There is nothing to gain from being early once a loss has been reported: the price
\* of the next batch is never lower, whatever rounding does.
THEOREM BeingEarlyGainsNothing == ManagerSpec => NoAdvantageInBeingEarly
<1>1. ManagerInv /\ [ManagerNext]_managerVars => [PriceKept]_managerVars
  BY PriceKeptStep
<1>2. ManagerSpec => [][PriceKept]_managerVars
  BY <1>1, ManagerInvariant, PTL DEF ManagerSpec
<1> QED BY <1>2 DEF NoAdvantageInBeingEarly, PriceKept
-----------------------------------------------------------------------------
(* The manager as a queue *)

\* The queue in a contract of any size: batches at any price up to one, transfers and
\* balances of any amount.
AnySize ==
  /\ 0 .. E27_PRECISION_BASE \subseteq SharePrices
  /\ Nat \subseteq Transfers
  /\ Nat \subseteq Balances

\* What comes in, the queue receives; what is spent is not locked.
LEMMA TokensMove ==
  ASSUME AnySize, ManagerInv, UNCHANGED queueVars, tokenBalance' \in Nat,
         \/ tokenBalance' >= tokenBalance
         \/ tokenBalance - tokenBalance' <= availableBalance
  PROVE  QueueNext
<1>1. tokenBalance \in Nat /\ tokenBalance' \in Nat
  BY ManagerParts DEF BooksOK
<1>4. \A x, y \in Nat : x >= y => x - y \in Nat /\ x = y + (x - y) /\ y = x - (x - y)
  OBVIOUS
<1>2. CASE tokenBalance' >= tokenBalance
  <2> DEFINE a == tokenBalance' - tokenBalance
  <2>1. a \in Nat /\ tokenBalance' = tokenBalance + a
    BY <1>1, <1>2, <1>4
  <2> HIDE DEF a
  <2>2. a \in Transfers /\ tokenBalance + a \in Balances
    BY <2>1 DEF AnySize
  <2> QED BY <2>1, <2>2 DEF QueueNext, Receive
<1>3. CASE ~ (tokenBalance' >= tokenBalance)
  <2> DEFINE a == tokenBalance - tokenBalance'
  <2>1. a \in Nat /\ tokenBalance' = tokenBalance - a /\ a <= availableBalance
    <3>1. tokenBalance >= tokenBalance' /\ tokenBalance - tokenBalance' <= availableBalance
      BY <1>1, <1>3
    <3> QED BY <1>1, <1>4, <3>1
  <2> HIDE DEF a
  <2>2. a \in Transfers
    BY <2>1 DEF AnySize
  <2> QED BY <2>1, <2>2 DEF QueueNext, Spend
<1> QED BY <1>2, <1>3

\* A batch of the manager is one at a price that the queue allows.
LEMMA FinalizeIsBatch ==
  ASSUME AnySize, ManagerInv, NEW id \in 1 .. lastRequestId, finalize(id)
  PROVE  Finalize
<1>1. finalizeQueue(id, availableBalance, sharePrice) /\ UNCHANGED tokenBalance /\ totalValue > 0
  BY DEF finalize
<1>2. sharePrice \in 0 .. E27_PRECISION_BASE
  <2>1. sharePrice \in Nat /\ sharePrice <= E27_PRECISION_BASE /\ E27_PRECISION_BASE \in Nat
    BY <1>1, PriceIs, QueueAssumption
  <2> HIDE DEF sharePrice
  <2> QED BY <2>1
<1>3. sharePrice \in SharePrices
  BY <1>2 DEF AnySize
<1> QED BY <1>1, <1>3 DEF Finalize

\* Steps that move no tokens and nothing of the queue are none of the queue's.
LEMMA NotOfQueue ==
  ASSUME UNCHANGED <<queueVars, tokenBalance>>
  PROVE  [QueueNext]_<<queueVars, tokenBalance>>
OBVIOUS

\* Every step of the manager is a step of the queue, or none.
LEMMA ManagerIsQueue ==
  ASSUME AnySize, ManagerInv, [ManagerNext]_managerVars
  PROVE  [QueueNext]_<<queueVars, tokenBalance>>
<1>1. ManagerInv' /\ BooksOK /\ ProvidersOK /\ Amounts \subseteq Nat /\ Delayed \subseteq Providers
  BY ManagerStepInv, ManagerParts, QueueAssumption, ManagerAssumption
<1>2. tokenBalance \in Nat /\ tokenBalance' \in Nat
  BY <1>1 DEF BooksOK, ManagerInv, ManagerTypeOK, QueueTypeOK
<1>3. CASE \E a \in Amounts : deposit(a)
  <2>1. PICK a \in Amounts : deposit(a)
    BY <1>3
  <2>2. a \in Nat /\ UNCHANGED queueVars /\ tokenBalance' = tokenBalance + a
    BY <1>1, <2>1 DEF deposit
  <2>3. tokenBalance' >= tokenBalance
    BY <1>2, <2>2
  <2> QED BY <1>2, <2>2, <2>3, TokensMove
<1>4. CASE \E p \in Delayed, a \in Amounts : bridgeStakedToken(p, a)
  BY <1>4, NotOfQueue DEF bridgeStakedToken, queueVars
<1>5. CASE \E r \in Recipients, a \in Amounts : requestFromL2(r, a)
  BY <1>5 DEF requestFromL2, QueueNext, Request
<1>6. CASE \E id \in 1 .. lastRequestId : finalize(id)
  BY <1>6, FinalizeIsBatch DEF QueueNext
<1>7. CASE \E id \in 1 .. lastFinalizedRequestId, h \in 1 .. lastCheckpointId, c \in Recipients :
             claim(id, h, c)
  BY <1>7 DEF claim, QueueNext, Claim
<1>8. CASE \E p \in Providers, a \in Amounts : stake(p, a)
  <2>1. PICK p \in Providers, a \in Amounts : stake(p, a)
    BY <1>8
  <2>2. /\ a \in Nat /\ UNCHANGED queueVars /\ tokenBalance' = tokenBalance - a
        /\ a <= availableBalance
    BY <1>1, <2>1 DEF stake, delegatedStake, Stakable
  <2>3. tokenBalance - tokenBalance' <= availableBalance
    BY <1>2, <2>2
  <2> QED BY <1>2, <2>2, <2>3, TokensMove
<1>9. CASE \E p \in Providers, a \in Amounts : unstake(p, a)
  <2>1. PICK p \in Providers, a \in Amounts : unstake(p, a)
    BY <1>9
  <2>2. /\ a \in Nat /\ UNCHANGED queueVars
        /\ tokenBalance' = tokenBalance \/ tokenBalance' = tokenBalance + a
    BY <1>1, <2>1 DEF unstake, unstakeDelayed, unstakeImmediate
  <2>3. tokenBalance' >= tokenBalance
    BY <1>2, <2>2
  <2> QED BY <1>2, <2>2, <2>3, TokensMove
<1>10. CASE \/ \E e \in BOOLEAN : commitYieldReport(e)
            \/ \E p \in Providers, a \in Amounts : commitYieldReportAfterInsuranceWithdrawal(p, a)
  <2>1. \E topUp \in [Providers -> Nat], e \in BOOLEAN : CommitYieldReport(e, topUp)
    BY <1>10, ReportIs
  <2>2. UNCHANGED queueVars /\ tokenBalance' >= tokenBalance
    BY <2>1, ReportStep
  <2> QED BY <1>2, <2>2, TokensMove
<1>11. CASE \/ \E p \in Providers : addProvider(p) \/ removeProvider(p)
            \/ \E t \in InsuranceTerms : setInsurance(t)
            \/ \E p \in Providers : Rebase(p) \/ FinalizeUnstake(p)
  <2>1. UNCHANGED <<queueVars, tokenBalance>>
    BY <1>11 DEF addProvider, removeProvider, setInsurance, Rebase, FinalizeUnstake
  <2> QED BY <2>1, NotOfQueue
<1>12. CASE UNCHANGED managerVars
  BY <1>12, NotOfQueue DEF managerVars
<1> QED BY <1>3, <1>4, <1>5, <1>6, <1>7, <1>8, <1>9, <1>10, <1>11, <1>12 DEF ManagerNext

\* The manager is a queue: of any size, it keeps what WithdrawalQueue promises.
THEOREM ManagerImplementsQueue ==
  ASSUME AnySize
  PROVE  ManagerSpec => QueueImplemented
<1>1. ManagerInit => EmptyQueue
  BY DEF ManagerInit, EmptyQueue
<1>2. ManagerInv /\ [ManagerNext]_managerVars => [QueueNext]_<<queueVars, tokenBalance>>
  BY ManagerIsQueue
<1> QED BY <1>1, <1>2, ManagerInvariant, PTL DEF ManagerSpec, QueueImplemented, QueueSpec
-----------------------------------------------------------------------------
(* The bridges of the USD tokens *)

Call == [chain : {L1, L2}, to : Recipients, amount : Amounts]

\* Messages are numbered in the order of their calls, and none is delivered before
\* it is sent.
MessagesOK ==
  /\ body \in Seq(Call)
  /\ sent = 1 .. Len(body)
  /\ sent \subseteq Messages
  /\ deliveries \in [Messages -> Nat]
  /\ \A m \in Messages \ sent : deliveries[m] = 0

\* USDB under way, in either direction.
UnderWay == SumFunctionOnSet([m \in Pending |-> body[m].amount], Pending)

BridgeInv ==
  /\ ManagerInv
  /\ MessagesOK
  /\ approved \subseteq UsdTokens
  /\ usdb \in Nat
  /\ reported \in Nat
  /\ l2Supply = usdb + reported + UnderWay

\* There are finitely many messages, and each carries an amount.
LEMMA PendingAmounts ==
  ASSUME MessagesOK
  PROVE  /\ IsFiniteSet(Pending) /\ UnderWay \in Nat /\ Len(body) \in Nat
         /\ \A m \in sent : body[m] \in Call /\ body[m].amount \in Nat /\ body[m].amount \in Amounts
<1>1. /\ body \in Seq(Call) /\ sent = 1 .. Len(body) /\ Len(body) \in Nat
  BY DEF MessagesOK
<1>2. \A m \in sent : body[m] \in Call
  BY <1>1
<1>3. \A c \in Call : c.amount \in Nat /\ c.amount \in Amounts
  BY QueueAssumption DEF Call
<1>4. IsFiniteSet(Pending)
  <2>1. IsFiniteSet(sent) /\ Pending \subseteq sent
    BY <1>1, FS_Interval DEF Pending
  <2> QED BY <2>1, FS_Subset
<1>5. UnderWay \in Nat
  <2> DEFINE f == [m \in Pending |-> body[m].amount]
  <2>1. \A m \in Pending : f[m] \in Nat
    BY <1>2, <1>3 DEF Pending
  <2> HIDE DEF f
  <2>2. SumFunctionOnSet(f, Pending) \in Nat
    BY <1>4, <2>1, SumNat
  <2> QED BY <2>2 DEF UnderWay, f
<1> QED BY <1>1, <1>2, <1>3, <1>4, <1>5

\* A message that is posted carries its amount.
LEMMA PostAdds ==
  ASSUME MessagesOK, NEW call \in Call, Post(call)
  PROVE  MessagesOK' /\ UnderWay' = UnderWay + call.amount
<1> DEFINE n == Len(body) + 1
           f == [m \in Pending |-> body[m].amount]
           g == [m \in Pending \cup {n} |-> body'[m].amount]
<1>1. /\ n \in Messages /\ n \notin sent /\ sent' = sent \cup {n} /\ deliveries' = deliveries
      /\ body' = Append(body, call)
  BY DEF Post, Delivery!Send
<1>2. /\ body \in Seq(Call) /\ sent = 1 .. Len(body) /\ sent \subseteq Messages
      /\ deliveries \in [Messages -> Nat] /\ \A m \in Messages \ sent : deliveries[m] = 0
      /\ Len(body) \in Nat
  BY PendingAmounts DEF MessagesOK
<1>3. /\ body' \in Seq(Call) /\ Len(body') = n /\ body'[n] = call
      /\ \A m \in 1 .. Len(body) : body'[m] = body[m]
  BY <1>1, <1>2
<1>4. MessagesOK'
  <2>1. sent' = 1 .. Len(body')
    BY <1>1, <1>2, <1>3
  <2> QED BY <1>1, <1>2, <1>3, <2>1 DEF MessagesOK
<1>5. Pending' = Pending \cup {n} /\ n \notin Pending /\ IsFiniteSet(Pending)
  BY <1>1, <1>2, PendingAmounts DEF Pending
<1>6. /\ \A m \in Pending : f[m] \in Nat /\ g[m] = f[m]
      /\ g[n] = call.amount /\ call.amount \in Nat
  <2>1. \A m \in Pending : m \in 1 .. Len(body) /\ body[m].amount \in Nat
    BY <1>2, PendingAmounts DEF Pending
  <2>2. call.amount \in Nat
    BY QueueAssumption DEF Call
  <2> QED BY <1>3, <2>1, <2>2
<1>7. UnderWay = SumFunctionOnSet(f, Pending) /\ UnderWay \in Nat
      /\ UnderWay' = SumFunctionOnSet(g, Pending \cup {n})
  BY <1>5, PendingAmounts DEF UnderWay
<1> HIDE DEF f, g, n
<1>8. SumFunctionOnSet(g, Pending \cup {n}) = g[n] + SumFunctionOnSet(g, Pending)
  <2>1. \A m \in Pending \cup {n} : g[m] \in Int
    BY <1>6
  <2> QED BY <1>5, <2>1, SumAdd
<1>9. SumFunctionOnSet(f, Pending) = SumFunctionOnSet(g, Pending)
  BY <1>5, <1>6, SumSame
<1> QED BY <1>4, <1>6, <1>7, <1>8, <1>9

\* One that is handed over does not any more.
LEMMA HandTakes ==
  ASSUME MessagesOK, NEW m \in Pending, Hand(m)
  PROVE  /\ MessagesOK' /\ UnderWay' = UnderWay - body[m].amount
         /\ body[m].amount \in Amounts /\ body[m].to \in Recipients
<1> DEFINE f == [k \in Pending |-> body[k].amount]
           g == [k \in Pending \ {m} |-> body[k].amount]
           R == Pending \ {m}
<1>1. /\ deliveries' = [deliveries EXCEPT ![m] = 1] /\ sent' = sent /\ body' = body
  BY DEF Hand, Delivery!Deliver
<1>2. /\ m \in sent /\ sent \subseteq Messages /\ deliveries \in [Messages -> Nat]
  BY DEF Pending, MessagesOK
<1>3. MessagesOK'
  BY <1>1, <1>2 DEF MessagesOK
<1>4. Pending' = R
  BY <1>1, <1>2 DEF Pending
<1>5. /\ IsFiniteSet(Pending) /\ UnderWay \in Nat
      /\ \A k \in Pending : body[k].amount \in Nat
      /\ body[m] \in Call /\ body[m].amount \in Amounts
  BY <1>2, PendingAmounts DEF Pending
<1>6. /\ \A k \in Pending : f[k] \in Int /\ f[m] = body[m].amount
      /\ \A k \in R : f[k] = g[k]
  BY <1>5
<1>7. UnderWay = SumFunctionOnSet(f, Pending) /\ UnderWay' = SumFunctionOnSet(g, R)
  BY <1>1, <1>4 DEF UnderWay
<1>8. body[m].to \in Recipients
  BY <1>5 DEF Call
<1> HIDE DEF f, g
<1>9. SumFunctionOnSet(f, Pending) = f[m] + SumFunctionOnSet(f, R)
  BY <1>5, <1>6, SumRemove
<1>10. SumFunctionOnSet(f, R) = SumFunctionOnSet(g, R) /\ SumFunctionOnSet(f, R) \in Int
  <2>1. IsFiniteSet(R)
    BY <1>5, FS_Subset
  <2> QED BY <1>6, <2>1, SumSame, SumInt
<1>11. UnderWay' = UnderWay - body[m].amount
  BY <1>5, <1>6, <1>7, <1>9, <1>10
<1> QED BY <1>3, <1>5, <1>8, <1>11

\* Otherwise nothing is under way that was not.
LEMMA MessagesKept ==
  ASSUME MessagesOK, UNCHANGED messageVars
  PROVE  MessagesOK' /\ UnderWay' = UnderWay
BY DEF MessagesOK, UnderWay, Pending, messageVars

\* What the bridge sends to L2 is what the manager received, whatever the exchange
\* made of the token.
LEMMA MintsWhatArrived ==
  ASSUME NEW token, NEW amount, NEW received, NEW min, MayConvert(token, amount, received, min)
  PROVE  Converted(token, amount, received) = received
BY BridgeAssumption DEF MayConvert, Converted

\* A message to L1 is handed over as a request of the manager's queue.
LEMMA BridgeIsManager ==
  ASSUME BridgeInv, [BridgeNext]_patexVars
  PROVE  [ManagerNext]_managerVars
<1>1. MessagesOK
  BY DEF BridgeInv
<1>2. CASE \E t \in UsdTokens, b \in BOOLEAN : setUSDYieldToken(t, b)
  BY <1>2 DEF setUSDYieldToken
<1>3. CASE \E t \in UsdTokens, to \in Recipients, a, out, min \in Amounts :
             bridgeToL2(t, to, a, out, min)
  BY <1>3 DEF bridgeToL2, ManagerNext
<1>4. CASE \E to \in Recipients, a \in Amounts : bridgeToL1(to, a)
  BY <1>4 DEF bridgeToL1
<1>5. CASE \E m \in Messages : finalizeOnL1(m)
  <2>1. PICK m \in Messages : finalizeOnL1(m)
    BY <1>5
  <2>2. m \in Pending /\ Hand(m) /\ requestFromL2(body[m].to, body[m].amount)
    BY <2>1 DEF finalizeOnL1
  <2>3. body[m].amount \in Amounts /\ body[m].to \in Recipients
    BY <1>1, <2>2, HandTakes
  <2> QED BY <2>2, <2>3 DEF ManagerNext
<1>6. CASE \E m \in Messages : finalizeOnL2(m)
  BY <1>6 DEF finalizeOnL2
<1>7. CASE \E e \in BOOLEAN : reportYield(e)
  BY <1>7 DEF reportYield, ManagerNext
<1>8. CASE addValue
  BY <1>8 DEF addValue
<1>9. CASE ManagerStep /\ UNCHANGED <<messageVars, bridgeVars>>
  BY <1>9 DEF ManagerStep, ManagerNext
<1>10. CASE UNCHANGED patexVars
  BY <1>10 DEF patexVars
<1> QED BY <1>2, <1>3, <1>4, <1>5, <1>6, <1>7, <1>8, <1>9, <1>10 DEF BridgeNext

\* The bridges start empty.
LEMMA BridgeStart ==
  ASSUME BridgeInit
  PROVE  BridgeInv
<1>1. ManagerInv
  BY ManagerStart DEF BridgeInit
<1>2. /\ body = <<>> /\ sent = {} /\ deliveries = [m \in Messages |-> IF m \in {} THEN 1 ELSE 0]
  BY DEF BridgeInit, MessagesInit, Delivery!Init, Already
<1>3. MessagesOK
  BY <1>2 DEF MessagesOK
<1>4. UnderWay = 0
  BY <1>2, SumEmpty DEF UnderWay, Pending
<1>5. approved = {} /\ usdb = 0 /\ reported = 0 /\ l2Supply = 0
  BY DEF BridgeInit, ManagerInit
<1> QED BY <1>1, <1>3, <1>4, <1>5 DEF BridgeInv

\* No step makes or loses USDB that the manager does not owe.
LEMMA BridgeStepInv ==
  ASSUME BridgeInv, [BridgeNext]_patexVars
  PROVE  BridgeInv'
<1>1. /\ ManagerInv /\ MessagesOK /\ approved \subseteq UsdTokens /\ usdb \in Nat /\ reported \in Nat
      /\ l2Supply = usdb + reported + UnderWay /\ UnderWay \in Nat /\ l2Supply \in Nat
  BY PendingAmounts, ManagerParts DEF BridgeInv, BooksOK
<1>2. ManagerInv'
  BY <1>1, BridgeIsManager, ManagerStepInv
<1>3. l2Supply' \in Nat
  BY <1>2 DEF ManagerInv, ManagerTypeOK
<1>4. Amounts \subseteq Nat
  BY QueueAssumption
<1>5. CASE \E t \in UsdTokens, b \in BOOLEAN : setUSDYieldToken(t, b)
  <2>1. /\ approved' \subseteq UsdTokens /\ UNCHANGED <<messageVars, usdb, reported>>
        /\ UNCHANGED l2Supply
    BY <1>1, <1>5 DEF setUSDYieldToken, managerVars
  <2> QED BY <1>1, <1>2, <2>1, MessagesKept DEF BridgeInv
<1>6. CASE \E t \in UsdTokens, to \in Recipients, a, out, min \in Amounts :
             bridgeToL2(t, to, a, out, min)
  <2>1. PICK t \in UsdTokens, to \in Recipients, a \in Amounts, out \in Amounts, min \in Amounts :
          bridgeToL2(t, to, a, out, min)
    BY <1>6
  <2>2. Converted(t, a, out) = out
    BY <2>1, MintsWhatArrived DEF bridgeToL2
  <2> DEFINE call == [chain |-> L2, to |-> to, amount |-> out]
  <2>3. /\ Post(call) /\ l2Supply' = l2Supply + out /\ UNCHANGED <<approved, usdb, reported>>
    BY <2>1, <2>2 DEF bridgeToL2, deposit, bridgeVars
  <2>4. call \in Call /\ call.amount = out
    BY DEF Call
  <2> HIDE DEF call
  <2>5. MessagesOK' /\ UnderWay' = UnderWay + out
    BY <1>1, <2>3, <2>4, PostAdds
  <2>6. l2Supply' = usdb' + reported' + UnderWay'
    BY <1>1, <1>4, <2>3, <2>5
  <2> QED BY <1>1, <1>2, <2>3, <2>5, <2>6 DEF BridgeInv
<1>7. CASE \E to \in Recipients, a \in Amounts : bridgeToL1(to, a)
  <2>1. PICK to \in Recipients, a \in Amounts : bridgeToL1(to, a)
    BY <1>7
  <2> DEFINE call == [chain |-> L1, to |-> to, amount |-> a]
  <2>2. /\ a <= usdb /\ usdb' = usdb - a /\ Post(call) /\ UNCHANGED <<approved, reported>>
        /\ UNCHANGED l2Supply
    BY <2>1 DEF bridgeToL1, managerVars
  <2>3. call \in Call /\ call.amount = a
    BY DEF Call
  <2> HIDE DEF call
  <2>4. MessagesOK' /\ UnderWay' = UnderWay + a
    BY <1>1, <2>2, <2>3, PostAdds
  <2>5. usdb' \in Nat /\ l2Supply' = usdb' + reported' + UnderWay'
    BY <1>1, <1>4, <2>2, <2>4
  <2> QED BY <1>1, <1>2, <2>2, <2>4, <2>5 DEF BridgeInv
<1>8. CASE \E m \in Messages : finalizeOnL1(m)
  <2>1. PICK m \in Messages : finalizeOnL1(m)
    BY <1>8
  <2>2. /\ m \in Pending /\ Hand(m) /\ l2Supply' = l2Supply - body[m].amount
        /\ UNCHANGED <<approved, usdb, reported>>
    BY <2>1 DEF finalizeOnL1, requestFromL2, bridgeVars
  <2>3. MessagesOK' /\ UnderWay' = UnderWay - body[m].amount /\ body[m].amount \in Nat
    BY <1>1, <1>4, <2>2, HandTakes
  <2>4. l2Supply' = usdb' + reported' + UnderWay'
    BY <1>1, <2>2, <2>3
  <2> QED BY <1>1, <1>2, <2>2, <2>3, <2>4 DEF BridgeInv
<1>9. CASE \E m \in Messages : finalizeOnL2(m)
  <2>1. PICK m \in Messages : finalizeOnL2(m)
    BY <1>9
  <2>2. /\ m \in Pending /\ Hand(m) /\ usdb' = usdb + body[m].amount
        /\ UNCHANGED <<approved, reported>>
        /\ UNCHANGED l2Supply
    BY <2>1 DEF finalizeOnL2, managerVars
  <2>3. MessagesOK' /\ UnderWay' = UnderWay - body[m].amount /\ body[m].amount \in Nat
    BY <1>1, <1>4, <2>2, HandTakes
  <2>4. usdb' \in Nat /\ l2Supply' = usdb' + reported' + UnderWay'
    BY <1>1, <2>2, <2>3
  <2> QED BY <1>1, <1>2, <2>2, <2>3, <2>4 DEF BridgeInv
<1>10. CASE \E e \in BOOLEAN : reportYield(e)
  <2>1. /\ \E e \in BOOLEAN : commitYieldReport(e)
        /\ reported' = reported + (l2Supply' - l2Supply) /\ UNCHANGED <<messageVars, approved, usdb>>
    BY <1>10 DEF reportYield
  <2>2. \E topUp \in [Providers -> Nat], e \in BOOLEAN : CommitYieldReport(e, topUp)
    BY <2>1, ReportIs
  <2>3. l2Supply' >= l2Supply
    BY <1>1, <2>2, ReportStep
  <2>4. MessagesOK' /\ UnderWay' = UnderWay
    BY <1>1, <2>1, MessagesKept
  <2>5. reported' \in Nat /\ l2Supply' = usdb' + reported' + UnderWay'
    <3> DEFINE more == l2Supply' - l2Supply
    <3>1. more \in Nat /\ l2Supply' = l2Supply + more
      <4>1. \A x, y \in Nat : y >= x => y - x \in Nat /\ y = x + (y - x)
        OBVIOUS
      <4> QED BY <1>1, <1>3, <2>3, <4>1
    <3> HIDE DEF more
    <3>2. reported + more \in Nat /\ l2Supply' = usdb + (reported + more) + UnderWay
      BY <1>1, <3>1
    <3>3. usdb' = usdb
      BY <2>1
    <3> QED BY <2>1, <2>4, <3>2, <3>3 DEF more
  <2> QED BY <1>1, <1>2, <2>1, <2>4, <2>5 DEF BridgeInv
<1>11. CASE addValue
  <2>1. /\ usdb' = usdb + reported /\ reported' = 0 /\ UNCHANGED <<messageVars, approved>>
        /\ UNCHANGED l2Supply
    BY <1>11 DEF addValue, managerVars
  <2>2. MessagesOK' /\ UnderWay' = UnderWay
    BY <1>1, <2>1, MessagesKept
  <2> QED BY <1>1, <1>2, <2>1, <2>2 DEF BridgeInv
<1>12. CASE ManagerStep /\ UNCHANGED <<messageVars, bridgeVars>>
  <2>1. UNCHANGED l2Supply
    BY <1>12 DEF ManagerStep, finalize, claim, stake, unstake, addProvider, removeProvider, Rebase
  <2>2. MessagesOK' /\ UnderWay' = UnderWay /\ UNCHANGED <<approved, usdb, reported>>
    BY <1>1, <1>12, MessagesKept DEF bridgeVars
  <2> QED BY <1>1, <1>2, <2>1, <2>2 DEF BridgeInv
<1>13. CASE UNCHANGED patexVars
  <2>1. UNCHANGED <<messageVars, approved, usdb, reported, l2Supply>>
    BY <1>13 DEF patexVars, managerVars, bridgeVars
  <2> QED BY <1>1, <1>2, <2>1, MessagesKept DEF BridgeInv
<1> QED BY <1>5, <1>6, <1>7, <1>8, <1>9, <1>10, <1>11, <1>12, <1>13 DEF BridgeNext

\* The bridges keep their invariant.
THEOREM BridgeInvariant == BridgeSpec => []BridgeInv
<1>1. BridgeInit => BridgeInv
  BY BridgeStart
<1>2. BridgeInv /\ [BridgeNext]_patexVars => BridgeInv'
  BY BridgeStepInv
<1> QED BY <1>1, <1>2, PTL DEF BridgeSpec

\* The manager under the bridges is the manager of YieldManager: the bridges do to it
\* nothing but what its own specification allows, and all that holds of it still does.
THEOREM BridgeKeepsManager == BridgeSpec => ManagerSpec
<1>1. BridgeInit => ManagerInit
  BY DEF BridgeInit
<1>2. BridgeInv /\ [BridgeNext]_patexVars => [ManagerNext]_managerVars
  BY BridgeIsManager
<1> QED BY <1>1, <1>2, BridgeInvariant, PTL DEF BridgeSpec, ManagerSpec

\* Every USDB is backed: what the manager owes to L2 is what there is of it and what is
\* under way, and the manager's books cover it.
THEOREM USDBIsAccountedFor == BridgeSpec => []USDBAccounted
<1>1. BridgeInv => USDBAccounted
  <2> SUFFICES ASSUME BridgeInv PROVE USDBAccounted
    OBVIOUS
  <2>1. body \in Seq([chain : {L1, L2}, to : Recipients, amount : Nat])
    <3>1. Call \subseteq [chain : {L1, L2}, to : Recipients, amount : Nat]
      BY QueueAssumption DEF Call
    <3>2. body \in Seq(Call)
      BY DEF BridgeInv, MessagesOK
    <3>3. Seq(Call) \subseteq Seq([chain : {L1, L2}, to : Recipients, amount : Nat])
      BY <3>1, SeqMonotonic
    <3> QED BY <3>2, <3>3
  <2> QED BY <2>1 DEF BridgeInv, ManagerInv, USDBAccounted, BridgeTypeOK, UnderWay
<1> QED BY <1>1, BridgeInvariant, PTL

\* The queue of USDB withdrawals keeps the promises of WithdrawalQueue.
THEOREM BridgeImplementsQueue ==
  ASSUME AnySize
  PROVE  BridgeSpec => QueueImplemented
BY BridgeKeepsManager, ManagerImplementsQueue
=============================================================================
