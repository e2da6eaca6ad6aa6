------------------------ MODULE WithdrawalQueueProofs ------------------------
(***************************************************************************)
(* Proofs about WithdrawalQueue, for every value of its constants.          *)
(*                                                                          *)
(* QueueInv is inductive.  CumulativeOrdered makes every nominal amount a   *)
(* natural number; CheckpointsOrdered and OneHint support each other: the   *)
(* new checkpoint of a batch starts right after the last finalized request, *)
(* so it covers the new ids and takes none from the checkpoint before it.   *)
(* The lemmas are about the operations, with amounts that need not come     *)
(* from Amounts, so that a contract that inherits the queue can use them.   *)
(*                                                                          *)
(* CoverInv adds the balances: rounding each request down keeps their sum   *)
(* within the batch's total rounded down.  The searches for hints are loops *)
(* that narrow a range, and the checkpoint they look for never leaves it.   *)
(***************************************************************************)
EXTENDS WithdrawalQueue, RecursionTheorems

\* A nominal amount at a price is a natural number.
LEMMA AtPriceType ==
  ASSUME NEW n \in Nat, NEW p \in Nat
  PROVE  AtPrice(n, p) \in Nat
<1>1. n * p \in Nat
  OBVIOUS
<1>2. \A x \in Nat, d \in Nat \ {0} : x \div d \in Nat
  OBVIOUS
<1> QED BY <1>1, <1>2, QueueAssumption DEF AtPrice

\* At a price of at most one, an amount shrinks.
LEMMA AtPriceBound ==
  ASSUME NEW n \in Nat, NEW p \in Nat, p <= E27_PRECISION_BASE
  PROVE  AtPrice(n, p) <= n
BY Fraction, QueueAssumption DEF AtPrice

\* The recorded requests and checkpoints have the types of their fields.
LEMMA QueueFields ==
  ASSUME QueueTypeOK
  PROVE  /\ lastRequestId \in Nat /\ lastCheckpointId \in Nat
         /\ \A i \in 0 .. lastRequestId : Cumulative(i) \in Nat
         /\ \A i \in 1 .. lastRequestId : requests[i] \in WithdrawalRequest
         /\ \A h \in 1 .. lastCheckpointId :
              /\ checkpoints[h] \in Checkpoint
              /\ checkpoints[h].fromRequestId \in Nat \ {0}
              /\ checkpoints[h].sharePrice \in Nat
              /\ checkpoints[h].sharePrice <= E27_PRECISION_BASE
<1>1. requests \in Seq(WithdrawalRequest) /\ checkpoints \in Seq(Checkpoint)
  BY DEF QueueTypeOK
<1>2. \A r \in WithdrawalRequest : r.cumulativeAmount \in Nat
  BY DEF WithdrawalRequest
<1>3. \A c \in Checkpoint : c.fromRequestId \in Nat \ {0} /\ c.sharePrice \in 0 .. E27_PRECISION_BASE
  BY DEF Checkpoint
<1>4. lastRequestId \in Nat /\ lastCheckpointId \in Nat
  BY <1>1 DEF lastRequestId, lastCheckpointId
<1>5. \A i \in 1 .. lastRequestId : requests[i] \in WithdrawalRequest
  BY <1>1 DEF lastRequestId
<1>6. \A h \in 1 .. lastCheckpointId : checkpoints[h] \in Checkpoint
  BY <1>1 DEF lastCheckpointId
<1>7. \A i \in 0 .. lastRequestId : Cumulative(i) \in Nat
  BY <1>2, <1>4, <1>5 DEF Cumulative
<1> QED BY <1>3, <1>4, <1>5, <1>6, <1>7, QueueAssumption

\* The nominal amounts of requests and batches are natural numbers.
LEMMA NominalType ==
  ASSUME QueueTypeOK, CumulativeOrdered
  PROVE  /\ \A id \in 1 .. lastRequestId : NominalAmount(id) \in Nat
         /\ \A id \in 1 .. lastRequestId :
              id > lastFinalizedRequestId => NominalToFinalize(id) \in Nat
<1>1. lastRequestId \in Nat /\ lastFinalizedRequestId \in 0 .. lastRequestId
      /\ \A i \in 0 .. lastRequestId : Cumulative(i) \in Nat
  BY QueueFields DEF QueueTypeOK, lastRequestId
<1>2. ASSUME NEW id \in 1 .. lastRequestId PROVE NominalAmount(id) \in Nat
  <2>1. id \in 0 .. lastRequestId /\ id - 1 \in 0 .. lastRequestId /\ id - 1 <= id
    BY <1>1
  <2> QED BY <1>1, <2>1 DEF NominalAmount, CumulativeOrdered
<1>3. ASSUME NEW id \in 1 .. lastRequestId, id > lastFinalizedRequestId
      PROVE  NominalToFinalize(id) \in Nat
  <2>1. id \in 0 .. lastRequestId /\ lastFinalizedRequestId <= id
    BY <1>1, <1>3
  <2> QED BY <1>1, <2>1 DEF NominalToFinalize, CumulativeOrdered
<1> QED BY <1>2, <1>3

\* A fresh queue satisfies the invariant.
LEMMA QueueInitInv ==
  ASSUME QueueInit, tokenBalance \in Nat
  PROVE  QueueInv
<1>1. /\ requests = <<>> /\ checkpoints = <<>> /\ lastFinalizedRequestId = 0
      /\ Len(requests) = 0 /\ Len(checkpoints) = 0
  BY DEF QueueInit
<1>2. QueueTypeOK
  BY <1>1 DEF QueueInit, QueueTypeOK
<1>3. CumulativeOrdered
  BY <1>1 DEF CumulativeOrdered, lastRequestId, Cumulative
<1>4. CheckpointsOrdered
  BY <1>1 DEF CheckpointsOrdered, lastCheckpointId
<1>5. OneHint
  BY <1>1 DEF OneHint, FinalizedIds
<1> QED BY <1>2, <1>3, <1>4, <1>5 DEF QueueInv

\* Only the queue's own state matters to the checkpoints and the hints.
LEMMA HintsKept ==
  ASSUME CheckpointsOrdered, OneHint, UNCHANGED <<checkpoints, lastFinalizedRequestId>>
  PROVE  CheckpointsOrdered' /\ OneHint'
BY DEF CheckpointsOrdered, OneHint, ValidHint, FinalizedIds, lastCheckpointId

\* A request of any amount keeps the invariant.
LEMMA RequestInv ==
  ASSUME QueueInv, NEW r \in Recipients, NEW a \in Nat, requestWithdrawal(r, a),
         tokenBalance' \in Nat
  PROVE  QueueInv'
<1> DEFINE n == Len(requests)
           new == [cumulativeAmount |-> Cumulative(lastRequestId) + a,
                   recipient |-> r, claimed |-> FALSE]
<1>1. /\ requests \in Seq(WithdrawalRequest) /\ n \in Nat
      /\ lastFinalizedRequestId \in 0 .. n
      /\ \A i \in 0 .. n : Cumulative(i) \in Nat
  BY QueueFields DEF QueueInv, QueueTypeOK, lastRequestId
<1>2. new \in WithdrawalRequest
  BY <1>1 DEF WithdrawalRequest, lastRequestId
<1>3. requests' = Append(requests, new) /\ UNCHANGED <<checkpoints, lastFinalizedRequestId, lockedBalance>>
  BY DEF requestWithdrawal
<1>4. new.cumulativeAmount = Cumulative(n) + a
  BY DEF lastRequestId
<1> HIDE DEF new
<1>5. /\ requests' \in Seq(WithdrawalRequest) /\ Len(requests') = n + 1
      /\ \A i \in 1 .. n : requests'[i] = requests[i]
      /\ requests'[n + 1] = new
  BY <1>1, <1>2, <1>3
<1>6. QueueTypeOK'
  BY <1>1, <1>3, <1>5 DEF QueueInv, QueueTypeOK
<1>7. CumulativeOrdered'
  <2>1. \A i \in 0 .. n : Cumulative(i)' = Cumulative(i)
    BY <1>1, <1>5 DEF Cumulative
  <2>2. \A j \in 0 .. n + 1 : j = n + 1 => Cumulative(j)' = Cumulative(n) + a
    BY <1>1, <1>4, <1>5 DEF Cumulative
  <2>3. \A i \in 0 .. n : Cumulative(i) <= Cumulative(n)
    BY <1>1 DEF QueueInv, CumulativeOrdered, lastRequestId
  <2> SUFFICES ASSUME NEW i \in 0 .. n + 1, NEW j \in 0 .. n + 1, i <= j
               PROVE  Cumulative(i)' <= Cumulative(j)'
    BY <1>5 DEF CumulativeOrdered, lastRequestId
  <2>4. CASE j \in 0 .. n
    <3>1. i \in 0 .. n
      BY <1>1, <2>4
    <3> QED BY <2>1, <2>4, <3>1 DEF QueueInv, CumulativeOrdered, lastRequestId
  <2>5. CASE j = n + 1
    <3>1. CASE i = n + 1
      BY <1>1, <2>2, <2>5, <3>1
    <3>2. CASE i \in 0 .. n
      BY <1>1, <2>1, <2>2, <2>3, <2>5, <3>2
    <3> QED BY <1>1, <3>1, <3>2
  <2> QED BY <1>1, <2>4, <2>5
<1>8. CheckpointsOrdered' /\ OneHint'
  BY <1>3, HintsKept DEF QueueInv
<1> QED BY <1>6, <1>7, <1>8 DEF QueueInv

\* A batch's checkpoint takes no id from the checkpoints before it, and covers
\* exactly the new ids.
LEMMA FinalizeHints ==
  ASSUME QueueInv, NEW id \in Nat, NEW available, NEW p, finalizeQueue(id, available, p)
  PROVE  /\ \A i \in FinalizedIds, h \in 1 .. lastCheckpointId + 1 :
              ValidHint(i, h)' <=> h \in 1 .. lastCheckpointId /\ ValidHint(i, h)
         /\ \A i \in FinalizedIds' \ FinalizedIds, h \in 1 .. lastCheckpointId + 1 :
              ValidHint(i, h)' <=> h = lastCheckpointId + 1
         /\ lastCheckpointId' = lastCheckpointId + 1
         /\ \A h \in 1 .. lastCheckpointId : checkpoints'[h] = checkpoints[h]
         /\ CheckpointsOrdered'
<1> DEFINE m == Len(checkpoints)
           l == lastFinalizedRequestId
           new == [fromRequestId |-> l + 1, sharePrice |-> p]
<1>1. /\ checkpoints \in Seq(Checkpoint) /\ m \in Nat /\ l \in Nat
      /\ \A h \in 1 .. m : checkpoints[h].fromRequestId \in Nat \ {0}
  BY QueueFields DEF QueueInv, QueueTypeOK, lastRequestId, lastCheckpointId
<1>2. checkpoints' = Append(checkpoints, new) /\ lastFinalizedRequestId' = id /\ id > l
  BY <1>1 DEF finalizeQueue, FirstRequestIdToFinalize
<1>3. new.fromRequestId = l + 1
  OBVIOUS
<1> HIDE DEF new
<1>4. /\ Len(checkpoints') = m + 1
      /\ \A h \in 1 .. m : checkpoints'[h] = checkpoints[h]
      /\ checkpoints'[m + 1] = new
  BY <1>1, <1>2
<1>5. /\ \A h \in 1 .. m : checkpoints[h].fromRequestId <= l
      /\ \A h \in 1 .. m : \A k \in 1 .. h - 1 :
           checkpoints[k].fromRequestId < checkpoints[h].fromRequestId
      /\ m > 0 => checkpoints[1].fromRequestId = 1
      /\ m = 0 => l = 0
  BY <1>1 DEF QueueInv, CheckpointsOrdered, lastCheckpointId
<1>6. \A i \in FinalizedIds, h \in 1 .. m : ValidHint(i, h)' <=> ValidHint(i, h)
  <2> SUFFICES ASSUME NEW i \in FinalizedIds, NEW h \in 1 .. m
               PROVE  ValidHint(i, h)' <=> ValidHint(i, h)
    OBVIOUS
  <2>1. i \in Nat /\ i <= l /\ h \in Nat
    BY <1>1 DEF FinalizedIds
  <2>2. CASE h < m
    <3>1. h + 1 \in 1 .. m
      BY <1>1, <2>1, <2>2
    <3> QED BY <1>1, <1>4, <2>1, <2>2, <3>1 DEF ValidHint, lastCheckpointId
  <2>3. CASE h = m
    BY <1>1, <1>3, <1>4, <2>1, <2>3 DEF ValidHint, lastCheckpointId
  <2> QED BY <1>1, <2>1, <2>2, <2>3
<1>7. \A i \in FinalizedIds, h \in 1 .. m + 1 : ValidHint(i, h)' => h # m + 1
  BY <1>1, <1>3, <1>4 DEF FinalizedIds, ValidHint
<1>8. \A i \in FinalizedIds' \ FinalizedIds, h \in 1 .. m + 1 :
        ValidHint(i, h)' <=> h = m + 1
  <2> SUFFICES ASSUME NEW i \in FinalizedIds' \ FinalizedIds, NEW h \in 1 .. m + 1
               PROVE  ValidHint(i, h)' <=> h = m + 1
    OBVIOUS
  <2>1. i \in Nat /\ i >= l + 1 /\ h \in Nat
    BY <1>1, <1>2 DEF FinalizedIds
  <2>2. CASE h = m + 1
    BY <1>1, <1>3, <1>4, <2>1, <2>2 DEF ValidHint, lastCheckpointId
  <2>3. CASE h \in 1 .. m
    <3>1. checkpoints'[h + 1].fromRequestId <= l + 1
      <4>1. CASE h = m
        BY <1>1, <1>3, <1>4, <4>1
      <4>2. CASE h < m
        <5>1. h + 1 \in 1 .. m
          BY <1>1, <2>1, <4>2
        <5> QED BY <1>1, <1>4, <1>5, <5>1
      <4> QED BY <1>1, <2>3, <4>1, <4>2
    <3>2. checkpoints'[h + 1].fromRequestId \in Nat
      <4>1. h + 1 \in 1 .. m \/ h + 1 = m + 1
        BY <1>1, <2>3
      <4> QED BY <1>1, <1>3, <1>4, <4>1
    <3> QED BY <1>1, <1>4, <2>1, <2>3, <3>1, <3>2 DEF ValidHint, lastCheckpointId
  <2> QED BY <1>1, <2>2, <2>3
<1>9. CheckpointsOrdered'
  <2>1. id > 0 /\ checkpoints' # <<>>
    BY <1>1, <1>2, <1>4
  <2>2. checkpoints'[1].fromRequestId = 1
    <3>1. CASE m = 0
      BY <1>1, <1>3, <1>4, <1>5, <3>1
    <3>2. CASE m > 0
      BY <1>1, <1>4, <1>5, <3>2
    <3> QED BY <1>1, <3>1, <3>2
  <2>3. ASSUME NEW h \in 1 .. m + 1
        PROVE  /\ checkpoints'[h].fromRequestId <= id
               /\ \A k \in 1 .. h - 1 :
                    checkpoints'[k].fromRequestId < checkpoints'[h].fromRequestId
    <3>1. CASE h \in 1 .. m
      <4>1. \A k \in 1 .. h - 1 : k \in 1 .. m
        BY <1>1, <3>1
      <4> QED BY <1>1, <1>2, <1>4, <1>5, <3>1, <4>1
    <3>2. CASE h = m + 1
      <4>1. \A k \in 1 .. h - 1 : k \in 1 .. m
        BY <1>1, <3>2
      <4> QED BY <1>1, <1>2, <1>3, <1>4, <1>5, <3>2, <4>1
    <3> QED BY <1>1, <3>1, <3>2
  <2> QED BY <1>2, <1>4, <2>1, <2>2, <2>3 DEF CheckpointsOrdered, lastCheckpointId
<1>10. \A i \in FinalizedIds, h \in 1 .. m + 1 :
         ValidHint(i, h)' <=> h \in 1 .. m /\ ValidHint(i, h)
  <2>1. \A h \in 1 .. m + 1 : h \in 1 .. m \/ h = m + 1
    BY <1>1
  <2> QED BY <1>6, <1>7, <2>1
<1> QED BY <1>4, <1>8, <1>9, <1>10 DEF lastCheckpointId

\* Finalizing a batch at any price keeps the invariant.
LEMMA FinalizeInv ==
  ASSUME QueueInv, NEW id \in Nat, NEW available, NEW p \in Nat,
         finalizeQueue(id, available, p), tokenBalance' \in Nat
  PROVE  QueueInv'
<1>1. /\ lastRequestId \in Nat /\ lastFinalizedRequestId \in Nat
      /\ id \in lastFinalizedRequestId + 1 .. lastRequestId
      /\ UNCHANGED requests /\ lastFinalizedRequestId' = id
  BY QueueFields DEF QueueInv, QueueTypeOK, lastRequestId, finalizeQueue
<1>2. RealToFinalize(id, p) \in Nat
  <2>1. id \in 1 .. lastRequestId /\ id > lastFinalizedRequestId
    BY <1>1
  <2>2. NominalToFinalize(id) \in Nat
    BY <2>1, NominalType DEF QueueInv
  <2> QED BY <2>2, AtPriceType DEF RealToFinalize
<1>3. QueueTypeOK'
  <2>1. lockedBalance' \in Nat
    BY <1>2 DEF finalizeQueue, QueueInv, QueueTypeOK
  <2>2. [fromRequestId |-> FirstRequestIdToFinalize, sharePrice |-> p] \in Checkpoint
    BY <1>1, QueueAssumption DEF FirstRequestIdToFinalize, Checkpoint, finalizeQueue, PriceAllowed
  <2>3. checkpoints' \in Seq(Checkpoint)
    BY <2>2 DEF finalizeQueue, QueueInv, QueueTypeOK
  <2> QED BY <1>1, <2>1, <2>3 DEF QueueInv, QueueTypeOK, lastRequestId
<1>4. CumulativeOrdered'
  BY <1>1 DEF QueueInv, CumulativeOrdered, Cumulative, lastRequestId
<1>5. CheckpointsOrdered'
  BY FinalizeHints
<1>6. OneHint'
  <2>1. lastCheckpointId \in Nat /\ lastCheckpointId' = lastCheckpointId + 1
    BY QueueFields, FinalizeHints DEF QueueInv
  <2> SUFFICES ASSUME NEW i \in FinalizedIds'
               PROVE  \E h \in 1 .. lastCheckpointId + 1 :
                        /\ ValidHint(i, h)'
                        /\ \A k \in 1 .. lastCheckpointId + 1 : ValidHint(i, k)' => k = h
    BY <2>1 DEF OneHint
  <2>2. CASE i \in FinalizedIds
    <3>1. PICK h \in 1 .. lastCheckpointId :
            ValidHint(i, h) /\ \A k \in 1 .. lastCheckpointId : ValidHint(i, k) => k = h
      BY <2>2 DEF QueueInv, OneHint
    <3>2. \A k \in 1 .. lastCheckpointId + 1 :
            ValidHint(i, k)' <=> k \in 1 .. lastCheckpointId /\ ValidHint(i, k)
      BY <2>2, FinalizeHints
    <3>3. h \in 1 .. lastCheckpointId + 1
      BY <2>1
    <3> QED BY <3>1, <3>2, <3>3
  <2>3. CASE i \in FinalizedIds' \ FinalizedIds
    <3>1. \A h \in 1 .. lastCheckpointId + 1 : ValidHint(i, h)' <=> h = lastCheckpointId + 1
      BY <2>3, FinalizeHints
    <3>2. lastCheckpointId + 1 \in 1 .. lastCheckpointId + 1
      BY <2>1
    <3> QED BY <3>1, <3>2
  <2> QED BY <2>2, <2>3
<1> QED BY <1>3, <1>4, <1>5, <1>6 DEF QueueInv

\* Claiming, with any hint, keeps the invariant.
LEMMA ClaimInv ==
  ASSUME QueueInv, NEW id \in Nat, NEW h \in Nat, NEW c, claimWithdrawal(id, h, c)
  PROVE  QueueInv'
<1> DEFINE n == Len(requests)
<1>1. /\ requests \in Seq(WithdrawalRequest) /\ n \in Nat /\ lastFinalizedRequestId \in 0 .. n
      /\ id \in 1 .. lastFinalizedRequestId /\ id \in 1 .. n /\ h \in 1 .. lastCheckpointId
  BY DEF QueueInv, QueueTypeOK, claimWithdrawal, Claimable, ValidHint
<1>2. calculateClaimableEther(id, h) \in Nat
  <2>1. NominalAmount(id) \in Nat /\ checkpoints[h].sharePrice \in Nat
    BY <1>1, NominalType, QueueFields DEF QueueInv, lastRequestId
  <2> QED BY <2>1, AtPriceType DEF calculateClaimableEther
<1>3. lockedBalance' \in Nat /\ tokenBalance' \in Nat
  BY <1>2 DEF claimWithdrawal, QueueInv, QueueTypeOK
<1>4. /\ requests' = [requests EXCEPT ![id].claimed = TRUE]
      /\ UNCHANGED <<checkpoints, lastFinalizedRequestId>>
  BY DEF claimWithdrawal
<1>5. /\ requests' \in Seq(WithdrawalRequest) /\ Len(requests') = n
      /\ \A i \in 1 .. n : requests'[i].cumulativeAmount = requests[i].cumulativeAmount
  <2>1. requests[id] \in WithdrawalRequest
    BY <1>1
  <2>2. [requests[id] EXCEPT !.claimed = TRUE] \in WithdrawalRequest
    BY <2>1 DEF WithdrawalRequest
  <2>3. requests' = [requests EXCEPT ![id] = [requests[id] EXCEPT !.claimed = TRUE]]
    BY <1>4
  <2>4. [requests[id] EXCEPT !.claimed = TRUE].cumulativeAmount = requests[id].cumulativeAmount
    BY <2>1 DEF WithdrawalRequest
  <2> QED BY <1>1, <2>2, <2>3, <2>4
<1>6. QueueTypeOK'
  BY <1>1, <1>3, <1>4, <1>5 DEF QueueInv, QueueTypeOK
<1>7. CumulativeOrdered'
  <2>1. \A i \in 0 .. n : Cumulative(i)' = Cumulative(i)
    BY <1>1, <1>5 DEF Cumulative
  <2> QED BY <1>5, <2>1 DEF QueueInv, CumulativeOrdered, lastRequestId
<1>8. CheckpointsOrdered' /\ OneHint'
  BY <1>4, HintsKept DEF QueueInv
<1> QED BY <1>6, <1>7, <1>8 DEF QueueInv

\* A step that leaves the queue alone keeps the invariant.
LEMMA QueueUnchangedInv ==
  ASSUME QueueInv, UNCHANGED queueVars, tokenBalance' \in Nat
  PROVE  QueueInv'
<1>1. QueueTypeOK' /\ CumulativeOrdered'
  BY DEF QueueInv, QueueTypeOK, CumulativeOrdered, Cumulative, lastRequestId, queueVars
<1>2. CheckpointsOrdered' /\ OneHint'
  BY HintsKept DEF QueueInv, queueVars
<1> QED BY <1>1, <1>2 DEF QueueInv

\* Every step of the queue in a contract that spends unlocked tokens does.
LEMMA QueueStepInv ==
  ASSUME QueueInv, [QueueNext]_<<queueVars, tokenBalance>>
  PROVE  QueueInv'
<1>1. tokenBalance \in Nat /\ lockedBalance \in Nat /\ lastRequestId \in Nat
      /\ lastFinalizedRequestId \in Nat /\ lastCheckpointId \in Nat
  BY QueueFields DEF QueueInv, QueueTypeOK, lastRequestId
<1>2. CASE Request
  BY <1>1, <1>2, RequestInv, QueueAssumption DEF Request
<1>3. CASE Finalize
  <2>1. PICK id \in 1 .. lastRequestId, p \in SharePrices :
          finalizeQueue(id, availableBalance, p) /\ UNCHANGED tokenBalance
    BY <1>3 DEF Finalize
  <2>2. id \in Nat /\ p \in Nat
    BY <1>1, QueueAssumption
  <2> QED BY <1>1, <2>1, <2>2, FinalizeInv
<1>4. CASE Claim
  <2>1. PICK id \in 1 .. lastFinalizedRequestId, h \in 1 .. lastCheckpointId, c \in Recipients :
          claimWithdrawal(id, h, c)
    BY <1>4 DEF Claim
  <2>2. id \in Nat /\ h \in Nat
    BY <1>1
  <2> QED BY <2>1, <2>2, ClaimInv
<1>5. CASE Receive \/ Spend \/ UNCHANGED <<queueVars, tokenBalance>>
  <2>1. UNCHANGED queueVars /\ tokenBalance' \in Nat
    BY <1>1, <1>5, QueueAssumption DEF Receive, Spend, availableBalance
  <2> QED BY <2>1, QueueUnchangedInv
<1> QED BY <1>2, <1>3, <1>4, <1>5 DEF QueueNext

\* The shapes of the state, the order of the checkpoints, and exactly one
\* valid hint for every finalized request, in every reachable state.
THEOREM QueueInvariant == QueueSpec => []QueueInv
<1>1. QueueInit /\ tokenBalance = 0 => QueueInv
  BY QueueInitInv
<1>2. QueueInv /\ [QueueNext]_<<queueVars, tokenBalance>> => QueueInv'
  BY QueueStepInv
<1> QED BY <1>1, <1>2, PTL DEF QueueSpec, EmptyQueue

-----------------------------------------------------------------------------
(* Hints do not go stale *)

\* A hint valid for a finalized request stays valid, at the same price.
StepKeepsHints ==
  \A id \in FinalizedIds, h \in 1 .. lastCheckpointId :
    ValidHint(id, h) =>
      /\ ValidHint(id, h)'
      /\ calculateClaimableEther(id, h)' = calculateClaimableEther(id, h)

\* The amount behind a hint depends on the cumulative amounts of the request
\* and on the price of the checkpoint only.
LEMMA SameAmount ==
  ASSUME QueueInv, NEW id \in FinalizedIds, NEW h \in 1 .. lastCheckpointId,
         \A i \in 1 .. lastRequestId : requests'[i].cumulativeAmount = requests[i].cumulativeAmount,
         checkpoints'[h] = checkpoints[h]
  PROVE  calculateClaimableEther(id, h)' = calculateClaimableEther(id, h)
<1>1. lastFinalizedRequestId \in 0 .. lastRequestId /\ lastRequestId \in Nat
  BY DEF QueueInv, QueueTypeOK, lastRequestId
<1>2. id \in 1 .. lastRequestId /\ (id - 1 = 0 \/ id - 1 \in 1 .. lastRequestId)
  BY <1>1 DEF FinalizedIds
<1>3. Cumulative(id)' = Cumulative(id) /\ Cumulative(id - 1)' = Cumulative(id - 1)
  BY <1>2 DEF Cumulative
<1> QED BY <1>3 DEF calculateClaimableEther, NominalAmount, AtPrice

\* No step of the queue changes what a valid hint says.
LEMMA StepKeepsHintsLemma ==
  ASSUME QueueInv, [QueueNext]_<<queueVars, tokenBalance>>
  PROVE  StepKeepsHints
<1> SUFFICES ASSUME NEW id \in FinalizedIds, NEW h \in 1 .. lastCheckpointId, ValidHint(id, h)
             PROVE  /\ ValidHint(id, h)'
                    /\ calculateClaimableEther(id, h)' = calculateClaimableEther(id, h)
  BY DEF StepKeepsHints
<1>1. /\ requests \in Seq(WithdrawalRequest)
      /\ lastRequestId \in Nat /\ lastCheckpointId \in Nat
      /\ lastFinalizedRequestId \in 0 .. lastRequestId
  BY QueueFields DEF QueueInv, QueueTypeOK, lastRequestId
<1>2. CASE Request
  <2>1. PICK r \in Recipients, a \in Amounts : requestWithdrawal(r, a)
    BY <1>2 DEF Request
  <2>2. UNCHANGED checkpoints
        /\ requests' = Append(requests, [cumulativeAmount |-> Cumulative(lastRequestId) + a,
                                         recipient |-> r, claimed |-> FALSE])
    BY <2>1 DEF requestWithdrawal
  <2>3. \A i \in 1 .. lastRequestId : requests'[i] = requests[i]
    BY <1>1, <2>2 DEF lastRequestId
  <2>4. ValidHint(id, h)'
    BY <2>2 DEF ValidHint, lastCheckpointId
  <2> QED BY <2>2, <2>3, <2>4, SameAmount
<1>3. CASE Finalize
  <2>1. PICK i \in 1 .. lastRequestId, p \in SharePrices : finalizeQueue(i, availableBalance, p)
    BY <1>3 DEF Finalize
  <2>2. i \in Nat /\ h \in 1 .. lastCheckpointId + 1
    BY <1>1
  <2>3. ValidHint(id, h)' /\ checkpoints'[h] = checkpoints[h]
    BY <2>1, <2>2, FinalizeHints
  <2>4. requests' = requests
    BY <2>1 DEF finalizeQueue
  <2> QED BY <2>3, <2>4, SameAmount
<1>4. CASE Claim
  <2>1. PICK i \in 1 .. lastFinalizedRequestId, k \in 1 .. lastCheckpointId, c \in Recipients :
          claimWithdrawal(i, k, c)
    BY <1>4 DEF Claim
  <2>2. requests' = [requests EXCEPT ![i].claimed = TRUE] /\ UNCHANGED checkpoints
    BY <2>1 DEF claimWithdrawal
  <2>3. \A j \in 1 .. lastRequestId : requests'[j].cumulativeAmount = requests[j].cumulativeAmount
    <3>1. \A j \in 1 .. lastRequestId : requests[j] \in WithdrawalRequest
      BY QueueFields DEF QueueInv
    <3> QED BY <1>1, <2>2, <3>1 DEF WithdrawalRequest, lastRequestId
  <2>4. ValidHint(id, h)'
    BY <2>2 DEF ValidHint, lastCheckpointId
  <2> QED BY <2>2, <2>3, <2>4, SameAmount
<1>5. CASE UNCHANGED queueVars
  BY <1>5 DEF queueVars, ValidHint, calculateClaimableEther, NominalAmount, Cumulative,
     AtPrice, lastCheckpointId
<1> QED BY <1>2, <1>3, <1>4, <1>5 DEF QueueNext, Receive, Spend

\* A hint looked up off-chain stays valid, at the same price.
THEOREM HintsStayValid == QueueSpec => HintsNeverGoStale
<1>1. QueueInit /\ tokenBalance = 0 => QueueInv
  BY QueueInitInv
<1>2. QueueInv /\ [QueueNext]_<<queueVars, tokenBalance>> => QueueInv'
  BY QueueStepInv
<1>3. QueueInv /\ [QueueNext]_<<queueVars, tokenBalance>> => [StepKeepsHints]_queueVars
  BY StepKeepsHintsLemma
<1>4. QueueSpec => [][StepKeepsHints]_queueVars
  BY <1>1, <1>2, <1>3, PTL DEF QueueSpec, EmptyQueue
<1> QED BY <1>4 DEF HintsNeverGoStale, StepKeepsHints

\* No operation but a claim lowers the locked balance or changes a recorded request.
LEMMA PaysOnceStep ==
  ASSUME QueueInv, [QueueNext]_<<queueVars, tokenBalance>>
  PROVE  [PaysOnce]_<<queueVars, tokenBalance>>
<1>1. /\ requests \in Seq(WithdrawalRequest) /\ lockedBalance \in Nat /\ tokenBalance \in Nat
      /\ lastRequestId = Len(requests) /\ lastRequestId \in Nat /\ lastCheckpointId \in Nat
      /\ lastFinalizedRequestId \in 0 .. lastRequestId
  BY QueueFields DEF QueueInv, QueueTypeOK, lastRequestId
<1>2. CASE Request
  <2>1. PICK r \in Recipients, a \in Amounts : requestWithdrawal(r, a)
    BY <1>2 DEF Request
  <2>2. \A id \in 1 .. lastRequestId : requests'[id] = requests[id]
    BY <1>1, <2>1 DEF requestWithdrawal
  <2>3. lockedBalance' = lockedBalance
    BY <2>1 DEF requestWithdrawal
  <2> QED BY <1>1, <2>2, <2>3 DEF PaysOnce
<1>3. CASE Finalize
  <2>1. PICK id \in 1 .. lastRequestId, p \in SharePrices :
          finalizeQueue(id, availableBalance, p)
    BY <1>3 DEF Finalize
  <2>2. /\ id \in 1 .. lastRequestId /\ id > lastFinalizedRequestId /\ p \in Nat
        /\ lockedBalance' = lockedBalance + RealToFinalize(id, p) /\ UNCHANGED requests
    BY <1>1, <2>1, QueueAssumption DEF finalizeQueue
  <2>3. RealToFinalize(id, p) \in Nat
    BY <2>2, NominalType, AtPriceType DEF RealToFinalize, QueueInv
  <2> QED BY <1>1, <2>2, <2>3 DEF PaysOnce
<1>4. CASE Claim
  <2>1. PICK id \in 1 .. lastFinalizedRequestId, h \in 1 .. lastCheckpointId, c \in Recipients :
          claimWithdrawal(id, h, c)
    BY <1>4 DEF Claim
  <2> DEFINE paid == calculateClaimableEther(id, h)
  <2>2. paid \in Nat
    <3>1. id \in 1 .. lastRequestId /\ checkpoints[h].sharePrice \in Nat
      BY <1>1, QueueFields DEF QueueInv
    <3>2. NominalAmount(id) \in Nat
      BY <3>1, NominalType DEF QueueInv
    <3> QED BY <3>1, <3>2, AtPriceType DEF calculateClaimableEther
  <2>3. /\ lockedBalance' = lockedBalance - paid /\ tokenBalance' = tokenBalance - paid
        /\ ~requests[id].claimed /\ requests' = [requests EXCEPT ![id].claimed = TRUE]
    BY <2>1 DEF claimWithdrawal, Claimable
  <2> HIDE DEF paid
  <2>4. lockedBalance - lockedBalance' = tokenBalance - tokenBalance'
    BY <1>1, <2>2, <2>3
  <2>5. \A i \in 1 .. lastRequestId : requests[i].claimed => requests'[i].claimed
    <3>1. \A i \in 1 .. lastRequestId : requests[i] \in WithdrawalRequest
      BY <1>1
    <3> QED BY <1>1, <2>3, <3>1 DEF WithdrawalRequest
  <2> QED BY <2>3, <2>4, <2>5 DEF PaysOnce, FinalizedIds
<1>5. CASE Receive \/ Spend \/ UNCHANGED <<queueVars, tokenBalance>>
  BY <1>1, <1>5 DEF Receive, Spend, queueVars, PaysOnce
<1> QED BY <1>2, <1>3, <1>4, <1>5 DEF QueueNext

\* Every finalized request is paid at most once, and what leaves the locked balance
\* leaves the contract.
THEOREM RequestsPaidOnce == QueueSpec => PaidOnce
<1>1. QueueInit /\ tokenBalance = 0 => QueueInv
  BY QueueInitInv
<1>2. QueueInv /\ [QueueNext]_<<queueVars, tokenBalance>> => QueueInv'
  BY QueueStepInv
<1>3. QueueInv /\ [QueueNext]_<<queueVars, tokenBalance>> => [PaysOnce]_<<queueVars, tokenBalance>>
  BY PaysOnceStep
<1> QED BY <1>1, <1>2, <1>3, PTL DEF QueueSpec, EmptyQueue, PaidOnce
-----------------------------------------------------------------------------
(* The locked balance covers the claims *)

\* Two amounts rounded down are worth at most their sum rounded down: paying the
\* requests of a batch one by one costs no more than the batch.
LEMMA AtPriceAdds ==
  ASSUME NEW a \in Nat, NEW b \in Nat, NEW p \in Nat
  PROVE  AtPrice(a, p) + AtPrice(b, p) <= AtPrice(a + b, p)
<1> DEFINE d == E27_PRECISION_BASE
           q == (a * p) \div d
           r == (b * p) \div d
<1>1. d \in Nat \ {0} /\ a * p \in Nat /\ b * p \in Nat
  BY QueueAssumption
<1>2. q \in Nat /\ q * d <= a * p /\ r \in Nat /\ r * d <= b * p
  BY <1>1
<1> HIDE DEF q, r, d
<1>3. (q + r) * d = q * d + r * d /\ (a + b) * p = a * p + b * p
  BY <1>1, <1>2
<1>4. q * d \in Nat /\ r * d \in Nat
  BY <1>1, <1>2
<1>5. (q + r) * d <= (a + b) * p /\ (a + b) * p \in Nat /\ q + r \in Nat
  BY <1>1, <1>2, <1>3, <1>4
<1>6. q + r <= ((a + b) * p) \div d
  BY <1>1, <1>5, DivAtLeast
<1> QED BY <1>6 DEF AtPrice, q, r, d

\* What a request is owed is what its hint gives, or nothing once it is claimed.
OwedByHint ==
  \A id \in FinalizedIds :
    /\ OwedFor(id) \in Nat
    /\ \A h \in 1 .. lastCheckpointId : ValidHint(id, h) =>
         OwedFor(id) = IF requests[id].claimed THEN 0 ELSE calculateClaimableEther(id, h)

\* It is so because only one hint is valid, whichever CHOOSE picks.
LEMMA OwedForIs == QueueInv => OwedByHint
<1> SUFFICES ASSUME QueueInv, NEW id \in FinalizedIds
             PROVE  /\ OwedFor(id) \in Nat
                    /\ \A h \in 1 .. lastCheckpointId : ValidHint(id, h) =>
                         OwedFor(id) = IF requests[id].claimed THEN 0
                                       ELSE calculateClaimableEther(id, h)
  BY DEF OwedByHint
<1> DEFINE hint == CHOOSE h \in HintsFor(id) : TRUE
<1>1. /\ lastFinalizedRequestId \in 0 .. lastRequestId /\ lastRequestId \in Nat
      /\ id \in 1 .. lastRequestId /\ id <= lastFinalizedRequestId
      /\ ~(id > lastFinalizedRequestId)
  BY QueueFields DEF QueueInv, QueueTypeOK, FinalizedIds, lastRequestId
<1>2. PICK h \in 1 .. lastCheckpointId :
        ValidHint(id, h) /\ \A k \in 1 .. lastCheckpointId : ValidHint(id, k) => k = h
  BY DEF QueueInv, OneHint
<1>3. HintsFor(id) = {h}
  BY <1>2 DEF HintsFor
<1>4. hint = h
  BY <1>3
<1>5. OwedFor(id) = getClaimableEther(id, hint)
  BY Zenon DEF OwedFor
<1> HIDE DEF hint
<1>6. OwedFor(id) = IF requests[id].claimed THEN 0 ELSE calculateClaimableEther(id, h)
  BY <1>1, <1>4, <1>5 DEF getClaimableEther
<1>7. calculateClaimableEther(id, h) \in Nat
  <2>1. NominalAmount(id) \in Nat /\ checkpoints[h].sharePrice \in Nat
    BY <1>1, NominalType, QueueFields DEF QueueInv
  <2> QED BY <2>1, AtPriceType DEF calculateClaimableEther
<1> QED BY <1>2, <1>6, <1>7

\* The same after a step.
LEMMA OwedForIsNext == QueueInv' => OwedByHint'
BY OwedForIs, PTL

\* The sum is over finitely many natural numbers.
LEMMA OwedType ==
  ASSUME QueueInv
  PROVE  /\ IsFiniteSet(FinalizedIds)
         /\ Owed \in Nat
         /\ \A id \in FinalizedIds : OwedFor(id) <= Owed
<1> DEFINE f == [id \in FinalizedIds |-> OwedFor(id)]
<1>1. lastFinalizedRequestId \in Nat /\ 1 \in Nat
  BY DEF QueueInv, QueueTypeOK
<1>2. IsFiniteSet(FinalizedIds)
  BY <1>1, FS_Interval DEF FinalizedIds
<1>3. \A id \in FinalizedIds : f[id] \in Nat
  BY OwedForIs DEF OwedByHint
<1> HIDE DEF f
<1>4. /\ SumFunctionOnSet(f, FinalizedIds) \in Nat
      /\ \A id \in FinalizedIds : f[id] <= SumFunctionOnSet(f, FinalizedIds)
  BY <1>2, <1>3, SumNat, SumMember
<1> QED BY <1>2, <1>4 DEF Owed, f

\* The same after a step.
LEMMA OwedTypeNext == QueueInv' => (Owed \in Nat)'
<1>1. QueueInv => Owed \in Nat
  BY OwedType
<1> QED BY <1>1, PTL

\* The inductive invariant: the order of the checkpoints gives every request its
\* price, and the price bounds what it is paid.
CoverInv == QueueInv /\ LockedBalanceCoversClaims

\* A request that turns up, or tokens that come and go, leave what is owed as it is.
LEMMA OwedKept ==
  ASSUME QueueInv, QueueInv', UNCHANGED <<checkpoints, lastFinalizedRequestId>>,
         \A i \in 1 .. lastRequestId : requests'[i] = requests[i]
  PROVE  Owed' = Owed
<1>1. ASSUME NEW id \in FinalizedIds PROVE OwedFor(id)' = OwedFor(id)
  <2>1. PICK h \in 1 .. lastCheckpointId : ValidHint(id, h)
    BY DEF QueueInv, OneHint
  <2>2. lastCheckpointId' = lastCheckpointId /\ ValidHint(id, h)' /\ id \in FinalizedIds'
    BY <2>1 DEF lastCheckpointId, ValidHint, FinalizedIds
  <2>3. id \in 1 .. lastRequestId
    BY QueueFields DEF QueueInv, QueueTypeOK, FinalizedIds, lastRequestId
  <2>4. calculateClaimableEther(id, h)' = calculateClaimableEther(id, h)
    BY SameAmount
  <2>5. OwedFor(id) = IF requests[id].claimed THEN 0 ELSE calculateClaimableEther(id, h)
    BY <2>1, OwedForIs DEF OwedByHint
  <2>6. OwedFor(id)' = (IF requests[id].claimed THEN 0 ELSE calculateClaimableEther(id, h))'
    BY <2>2, OwedForIsNext DEF OwedByHint
  <2> QED BY <2>3, <2>4, <2>5, <2>6
<1>2. FinalizedIds' = FinalizedIds
  BY DEF FinalizedIds
<1> QED BY <1>1, <1>2 DEF Owed

\* A batch locks at least what its requests will be paid, taken together.
LEMMA OwedFinalize ==
  ASSUME QueueInv, QueueInv', NEW n \in Nat, NEW available, NEW p \in Nat,
         finalizeQueue(n, available, p)
  PROVE  Owed' <= Owed + RealToFinalize(n, p)
<1> DEFINE l == lastFinalizedRequestId
           f == [id \in FinalizedIds |-> OwedFor(id)]
           g == [id \in FinalizedIds' |-> OwedFor(id)']
           Nominal(k) == Cumulative(k) - Cumulative(l)
           Bound(k) == Owed + AtPrice(Nominal(k), p)
           Fails == {k \in l .. n : ~(SumFunctionOnSet(g, 1 .. k) <= Bound(k))}
<1>1. /\ l \in Nat /\ n > l /\ n <= lastRequestId /\ lastRequestId \in Nat
      /\ UNCHANGED requests /\ lastFinalizedRequestId' = n
      /\ lastCheckpointId' = lastCheckpointId + 1 /\ lastCheckpointId \in Nat
      /\ \A h \in 1 .. lastCheckpointId : checkpoints'[h] = checkpoints[h]
  <2>1. /\ l \in Nat /\ lastRequestId \in Nat /\ lastCheckpointId \in Nat
    BY QueueFields DEF QueueInv, QueueTypeOK, lastRequestId
  <2>2. /\ n \in l + 1 .. lastRequestId /\ UNCHANGED requests /\ lastFinalizedRequestId' = n
    BY DEF finalizeQueue
  <2>3. /\ lastCheckpointId' = lastCheckpointId + 1
        /\ \A h \in 1 .. lastCheckpointId : checkpoints'[h] = checkpoints[h]
    BY FinalizeHints
  <2> QED BY <2>1, <2>2, <2>3
<1>2. FinalizedIds = 1 .. l /\ FinalizedIds' = 1 .. n
  BY <1>1 DEF FinalizedIds
<1>3. /\ \A k \in 0 .. lastRequestId : Cumulative(k) \in Nat
      /\ \A j, k \in 0 .. lastRequestId : j <= k => Cumulative(j) <= Cumulative(k)
  BY QueueFields DEF QueueInv, CumulativeOrdered
<1>4. \A k \in l .. n : Nominal(k) \in Nat /\ AtPrice(Nominal(k), p) \in Nat
  <2> TAKE k \in l .. n
  <2>1. k \in 0 .. lastRequestId /\ l \in 0 .. lastRequestId /\ l <= k
    BY <1>1
  <2>2. Nominal(k) \in Nat
    BY <1>3, <2>1
  <2> HIDE DEF Nominal
  <2> QED BY <2>2, AtPriceType
<1>5. \A id \in 1 .. l : g[id] = f[id]
  <2> SUFFICES ASSUME NEW id \in 1 .. l PROVE OwedFor(id)' = OwedFor(id)
    BY <1>1, <1>2
  <2>1. id \in FinalizedIds /\ id \in FinalizedIds'
    BY <1>1, <1>2
  <2>2. PICK h \in 1 .. lastCheckpointId : ValidHint(id, h)
    BY <2>1 DEF QueueInv, OneHint
  <2>3. ValidHint(id, h)' /\ h \in 1 .. lastCheckpointId'
    BY <1>1, <2>1, <2>2, FinalizeHints
  <2>4. calculateClaimableEther(id, h)' = calculateClaimableEther(id, h)
    BY <1>1, <2>1, SameAmount
  <2>5. OwedFor(id) = IF requests[id].claimed THEN 0 ELSE calculateClaimableEther(id, h)
    BY <2>1, <2>2, OwedForIs DEF OwedByHint
  <2>6. OwedFor(id)' = (IF requests[id].claimed THEN 0 ELSE calculateClaimableEther(id, h))'
    BY <2>1, <2>3, OwedForIsNext DEF OwedByHint
  <2> QED BY <1>1, <2>4, <2>5, <2>6
<1>6. \A id \in l + 1 .. n : g[id] <= AtPrice(NominalAmount(id), p)
  <2> SUFFICES ASSUME NEW id \in l + 1 .. n PROVE OwedFor(id)' <= AtPrice(NominalAmount(id), p)
    BY <1>1, <1>2
  <2>0. PICK h \in Nat : h = lastCheckpointId + 1
    BY <1>1
  <2>1. id \in FinalizedIds' \ FinalizedIds /\ id \in 1 .. lastRequestId
    BY <1>1, <1>2
  <2>2. ValidHint(id, h)' /\ h \in 1 .. lastCheckpointId'
    <3>1. \A k \in 1 .. lastCheckpointId + 1 : ValidHint(id, k)' <=> k = lastCheckpointId + 1
      BY <2>1, FinalizeHints
    <3> QED BY <1>1, <2>0, <3>1
  <2>3. checkpoints'[h].sharePrice = p
    <3>1. checkpoints \in Seq(Checkpoint)
          /\ checkpoints' = Append(checkpoints, [fromRequestId |-> FirstRequestIdToFinalize,
                                                 sharePrice |-> p])
      BY DEF QueueInv, QueueTypeOK, finalizeQueue
    <3> QED BY <2>0, <3>1 DEF lastCheckpointId
  <2>4. calculateClaimableEther(id, h)' = AtPrice(NominalAmount(id), p)
    <3>1. NominalAmount(id)' = NominalAmount(id)
      BY <1>1 DEF NominalAmount, Cumulative
    <3> QED BY <2>3, <3>1 DEF calculateClaimableEther, AtPrice
  <2>5. OwedFor(id)' = (IF requests[id].claimed THEN 0 ELSE calculateClaimableEther(id, h))'
    BY <2>1, <2>2, OwedForIsNext DEF OwedByHint
  <2>6. AtPrice(NominalAmount(id), p) \in Nat
    BY <2>1, NominalType, AtPriceType DEF QueueInv
  <2> QED BY <2>4, <2>5, <2>6
<1>7. \A id \in 1 .. n : g[id] \in Nat
  BY <1>2, OwedForIsNext DEF OwedByHint
<1>8. Owed \in Nat /\ Owed = SumFunctionOnSet(f, 1 .. l)
  BY <1>2, OwedType DEF Owed
<1>9. \A k \in 0 .. n : IsFiniteSet(1 .. k) /\ SumFunctionOnSet(g, 1 .. k) \in Nat
  <2> TAKE k \in 0 .. n
  <2>1. IsFiniteSet(1 .. k) /\ \A id \in 1 .. k : g[id] \in Nat
    <3>1. k \in Int /\ 1 \in Int
      BY <1>1
    <3>2. 1 .. k \subseteq 1 .. n
      BY <1>1
    <3> HIDE DEF g
    <3> QED BY <1>7, <3>1, <3>2, FS_Interval
  <2> HIDE DEF g
  <2> QED BY <2>1, SumNat
<1>10. SumFunctionOnSet(g, 1 .. l) = Owed
  <2>1. l \in 0 .. n
    BY <1>1
  <2>2. IsFiniteSet(1 .. l)
    BY <1>9, <2>1
  <2> HIDE DEF f, g
  <2> QED BY <1>5, <1>8, <2>2, SumSame
<1> HIDE DEF f, g, Nominal
<1>11. Fails = {}
  <2> SUFFICES ASSUME Fails # {} PROVE FALSE
    OBVIOUS
  <2>1. Fails \subseteq Nat
    BY <1>1
  <2>2. PICK k \in Fails : \A j \in Fails : k <= j
    BY <2>1, LeastNatural
  <2>3. k \in l .. n /\ ~(SumFunctionOnSet(g, 1 .. k) <= Bound(k))
    OBVIOUS
  <2>4. k # l
    BY <1>1, <1>4, <1>8, <1>10, <2>3
  <2>5. k - 1 \in l .. n /\ k \in Nat /\ k - 1 \in Nat
    BY <1>1, <2>3, <2>4
  <2>6. SumFunctionOnSet(g, 1 .. k - 1) <= Bound(k - 1)
    <3>1. k - 1 \notin Fails
      BY <2>2, <2>5
    <3> QED BY <2>5, <3>1
  <2>7. SumFunctionOnSet(g, 1 .. k) = g[k] + SumFunctionOnSet(g, 1 .. k - 1)
    <3>1. /\ (1 .. k) \ {k} = 1 .. k - 1 /\ k \in 1 .. k /\ IsFiniteSet(1 .. k)
          /\ \A id \in 1 .. k : g[id] \in Int
      BY <1>1, <1>7, <1>9, <2>3, <2>5
    <3> QED BY <3>1, SumRemove
  <2>8. NominalAmount(k) = Nominal(k) - Nominal(k - 1) /\ NominalAmount(k) \in Nat
    <3>1. k \in 0 .. lastRequestId /\ k - 1 \in 0 .. lastRequestId /\ l \in 0 .. lastRequestId
      BY <1>1, <2>3, <2>5
    <3>2. k \in 1 .. lastRequestId
      BY <1>1, <2>3, <2>5
    <3> QED BY <1>3, <3>1, <3>2, NominalType DEF NominalAmount, Nominal, QueueInv
  <2>9. AtPrice(Nominal(k - 1), p) + AtPrice(NominalAmount(k), p) <= AtPrice(Nominal(k), p)
    <3>1. Nominal(k - 1) \in Nat /\ Nominal(k) \in Nat
      BY <1>4, <2>3, <2>5
    <3>2. Nominal(k - 1) + NominalAmount(k) = Nominal(k)
      BY <2>8, <3>1
    <3> QED BY <2>8, <3>1, <3>2, AtPriceAdds
  <2>10. /\ g[k] <= AtPrice(NominalAmount(k), p) /\ g[k] \in Nat
         /\ AtPrice(NominalAmount(k), p) \in Nat
    <3>1. k \in l + 1 .. n /\ k \in 1 .. n
      BY <1>1, <2>3, <2>4
    <3> QED BY <1>6, <1>7, <2>8, <3>1, AtPriceType
  <2>11. /\ AtPrice(Nominal(k), p) \in Nat /\ AtPrice(Nominal(k - 1), p) \in Nat
         /\ SumFunctionOnSet(g, 1 .. k - 1) \in Nat
    <3>1. k - 1 \in 0 .. n
      BY <1>1, <2>3, <2>5
    <3> QED BY <1>4, <1>9, <2>3, <2>5, <3>1
  <2> QED BY <1>8, <2>3, <2>6, <2>7, <2>9, <2>10, <2>11
<1>12. SumFunctionOnSet(g, 1 .. n) <= Bound(n)
  <2>1. n \in l .. n /\ n \notin Fails
    BY <1>1, <1>11
  <2> QED BY <2>1
<1> QED BY <1>2, <1>12 DEF Owed, g, Nominal, RealToFinalize, NominalToFinalize

\* A claim takes off what is owed exactly what it takes off the locked balance.
LEMMA OwedClaim ==
  ASSUME QueueInv, QueueInv', NEW id \in Nat, NEW h \in Nat, NEW c, claimWithdrawal(id, h, c)
  PROVE  Owed' = Owed - calculateClaimableEther(id, h)
<1> DEFINE f == [i \in FinalizedIds |-> OwedFor(i)]
           g == [i \in FinalizedIds |-> OwedFor(i)']
<1>1. /\ id \in FinalizedIds /\ h \in 1 .. lastCheckpointId /\ ValidHint(id, h)
      /\ ~requests[id].claimed
      /\ requests' = [requests EXCEPT ![id].claimed = TRUE]
      /\ UNCHANGED <<checkpoints, lastFinalizedRequestId>>
  BY DEF claimWithdrawal, Claimable, ValidHint, FinalizedIds
<1>2. FinalizedIds' = FinalizedIds /\ lastCheckpointId' = lastCheckpointId
  BY <1>1 DEF FinalizedIds, lastCheckpointId
<1>3. /\ \A i \in FinalizedIds : i \in 1 .. lastRequestId
      /\ lastRequestId = Len(requests)
      /\ requests \in Seq(WithdrawalRequest)
  BY QueueFields DEF QueueInv, QueueTypeOK, FinalizedIds, lastRequestId
<1>4. /\ \A i \in 1 .. lastRequestId :
           /\ requests'[i].cumulativeAmount = requests[i].cumulativeAmount
           /\ i # id => requests'[i] = requests[i]
      /\ requests'[id].claimed = TRUE
  <2>1. \A i \in 1 .. lastRequestId : requests[i] \in WithdrawalRequest
    BY <1>3
  <2>2. \A r \in WithdrawalRequest :
          /\ [r EXCEPT !.claimed = TRUE].cumulativeAmount = r.cumulativeAmount
          /\ [r EXCEPT !.claimed = TRUE].claimed = TRUE
    BY DEF WithdrawalRequest
  <2>3. /\ \A i \in 1 .. lastRequestId : i # id => requests'[i] = requests[i]
        /\ requests'[id] = [requests[id] EXCEPT !.claimed = TRUE]
    <3> DEFINE r == [requests[id] EXCEPT !.claimed = TRUE]
    <3>1. requests' = [requests EXCEPT ![id] = r] /\ id \in 1 .. Len(requests)
      BY <1>1, <1>3
    <3> HIDE DEF r
    <3>2. requests'[id] = r /\ \A i \in 1 .. Len(requests) : i # id => requests'[i] = requests[i]
      BY <1>3, <3>1
    <3> QED BY <1>3, <3>2 DEF r
  <2> QED BY <1>1, <1>3, <2>1, <2>2, <2>3
<1>5. \A i \in FinalizedIds : f[i] \in Int
  BY OwedForIs DEF OwedByHint
<1>6. \A i \in FinalizedIds : i # id => g[i] = f[i]
  <2> SUFFICES ASSUME NEW i \in FinalizedIds, i # id PROVE OwedFor(i)' = OwedFor(i)
    OBVIOUS
  <2>1. PICK k \in 1 .. lastCheckpointId : ValidHint(i, k)
    BY DEF QueueInv, OneHint
  <2>2. ValidHint(i, k)' /\ k \in 1 .. lastCheckpointId' /\ i \in FinalizedIds'
    BY <1>1, <1>2, <2>1 DEF ValidHint, lastCheckpointId
  <2>3. calculateClaimableEther(i, k)' = calculateClaimableEther(i, k)
    BY <1>1, <1>4, SameAmount
  <2>4. OwedFor(i) = IF requests[i].claimed THEN 0 ELSE calculateClaimableEther(i, k)
    BY <2>1, OwedForIs DEF OwedByHint
  <2>5. OwedFor(i)' = (IF requests[i].claimed THEN 0 ELSE calculateClaimableEther(i, k))'
    BY <2>2, OwedForIsNext DEF OwedByHint
  <2> QED BY <1>3, <1>4, <2>3, <2>4, <2>5
<1>7. f[id] = calculateClaimableEther(id, h)
  BY <1>1, OwedForIs DEF OwedByHint
<1>8. g[id] = 0
  <2>1. ValidHint(id, h)' /\ h \in 1 .. lastCheckpointId' /\ id \in FinalizedIds'
    BY <1>1, <1>2 DEF ValidHint, lastCheckpointId
  <2>2. OwedFor(id)' = (IF requests[id].claimed THEN 0 ELSE calculateClaimableEther(id, h))'
    BY <2>1, OwedForIsNext DEF OwedByHint
  <2> QED BY <1>1, <1>4, <2>2
<1>9. IsFiniteSet(FinalizedIds) /\ Owed \in Nat
  BY OwedType
<1>10. Owed = SumFunctionOnSet(f, FinalizedIds) /\ Owed' = SumFunctionOnSet(g, FinalizedIds)
  BY <1>2 DEF Owed
<1> HIDE DEF f, g
<1>11. SumFunctionOnSet(g, FinalizedIds) = SumFunctionOnSet(f, FinalizedIds) - f[id] + g[id]
  <2>1. g[id] \in Int
    BY <1>8
  <2> QED BY <1>1, <1>5, <1>6, <1>9, <2>1, SumChange
<1>12. f[id] \in Int
  BY <1>1, <1>5
<1> QED BY <1>7, <1>8, <1>9, <1>10, <1>11, <1>12

\* The parts of the inductive invariant that are about money.
LEMMA CoverInit ==
  ASSUME QueueInit, tokenBalance \in Nat
  PROVE  CoverInv
<1>1. QueueInv
  BY QueueInitInv
<1>2. FinalizedIds = {}
  BY DEF QueueInit, FinalizedIds
<1>3. Owed = 0
  BY <1>2, SumEmpty DEF Owed
<1> QED BY <1>1, <1>3 DEF CoverInv, LockedBalanceCoversClaims, QueueInit

\* A request of any amount keeps the claims covered.
LEMMA CoverRequest ==
  ASSUME CoverInv, NEW r \in Recipients, NEW a \in Nat, requestWithdrawal(r, a),
         UNCHANGED tokenBalance
  PROVE  CoverInv'
<1>1. QueueInv /\ tokenBalance' \in Nat
  BY DEF CoverInv, QueueInv, QueueTypeOK
<1>2. QueueInv'
  BY <1>1, RequestInv
<1>3. \A i \in 1 .. lastRequestId : requests'[i] = requests[i]
  BY <1>1 DEF requestWithdrawal, lastRequestId, QueueInv, QueueTypeOK
<1>4. UNCHANGED <<checkpoints, lastFinalizedRequestId, lockedBalance>>
  BY DEF requestWithdrawal
<1>5. Owed' = Owed
  BY <1>1, <1>2, <1>3, <1>4, OwedKept
<1> QED BY <1>2, <1>4, <1>5 DEF CoverInv, LockedBalanceCoversClaims

\* So does a batch paid from what is not locked.
LEMMA CoverFinalize ==
  ASSUME CoverInv, NEW n \in Nat, NEW p \in Nat, finalizeQueue(n, availableBalance, p),
         UNCHANGED tokenBalance
  PROVE  CoverInv'
<1> DEFINE real == RealToFinalize(n, p)
<1>1. /\ QueueInv /\ tokenBalance \in Nat /\ tokenBalance' \in Nat /\ lockedBalance \in Nat
      /\ lastRequestId \in Nat /\ lastFinalizedRequestId \in Nat
  BY QueueFields DEF CoverInv, QueueInv, QueueTypeOK, lastRequestId
<1>2. QueueInv'
  BY <1>1, FinalizeInv
<1>3. real \in Nat
  <2>1. n \in 1 .. lastRequestId /\ n > lastFinalizedRequestId
    BY <1>1 DEF finalizeQueue
  <2> QED BY <1>1, <2>1, NominalType, AtPriceType DEF RealToFinalize, QueueInv
<1>4. Owed' <= Owed + real
  BY <1>1, <1>2, OwedFinalize
<1>5. Owed \in Nat /\ Owed' \in Nat
  <2>1. Owed \in Nat
    BY <1>1, OwedType
  <2>2. Owed' \in Nat
    BY <1>2, OwedTypeNext
  <2> QED BY <2>1, <2>2
<1>6. lockedBalance' = lockedBalance + real /\ real <= tokenBalance - lockedBalance
  BY DEF finalizeQueue, availableBalance
<1> HIDE DEF real
<1>7. Owed <= lockedBalance /\ lockedBalance <= tokenBalance
  BY DEF CoverInv, LockedBalanceCoversClaims
<1> QED BY <1>1, <1>2, <1>3, <1>4, <1>5, <1>6, <1>7 DEF CoverInv, LockedBalanceCoversClaims

\* And a claim.
LEMMA CoverClaim ==
  ASSUME CoverInv, NEW id \in Nat, NEW h \in Nat, NEW c, claimWithdrawal(id, h, c)
  PROVE  CoverInv'
<1> DEFINE paid == calculateClaimableEther(id, h)
<1>1. QueueInv /\ tokenBalance \in Nat /\ lockedBalance \in Nat
  BY DEF CoverInv, QueueInv, QueueTypeOK
<1>2. QueueInv'
  BY <1>1, ClaimInv
<1>3. Owed' = Owed - paid
  BY <1>1, <1>2, OwedClaim
<1>4. lockedBalance' = lockedBalance - paid /\ tokenBalance' = tokenBalance - paid
  BY DEF claimWithdrawal
<1>5. paid \in Nat
  <2>1. /\ id \in 1 .. lastRequestId /\ checkpoints[h].sharePrice \in Nat
    <3>1. id \in 1 .. lastFinalizedRequestId /\ h \in 1 .. lastCheckpointId
      BY DEF claimWithdrawal, Claimable, ValidHint
    <3> QED BY <1>1, <3>1, QueueFields DEF QueueInv, QueueTypeOK, lastRequestId
  <2> QED BY <1>1, <2>1, NominalType, AtPriceType DEF QueueInv, calculateClaimableEther
<1>6. Owed \in Nat
  BY <1>1, OwedType
<1> HIDE DEF paid
<1> QED BY <1>1, <1>2, <1>3, <1>4, <1>5, <1>6 DEF CoverInv, LockedBalanceCoversClaims

\* And tokens that come, or go without touching what is locked.
LEMMA CoverTokens ==
  ASSUME CoverInv, UNCHANGED queueVars, tokenBalance' \in Nat, lockedBalance <= tokenBalance'
  PROVE  CoverInv'
<1>1. QueueInv
  BY DEF CoverInv
<1>2. QueueInv'
  BY <1>1, QueueUnchangedInv
<1>3. Owed' = Owed
  BY <1>1, <1>2, OwedKept DEF queueVars
<1> QED BY <1>2, <1>3 DEF CoverInv, LockedBalanceCoversClaims, queueVars

\* Every step of the queue keeps the claims covered.
LEMMA CoverStep ==
  ASSUME CoverInv, [QueueNext]_<<queueVars, tokenBalance>>
  PROVE  CoverInv'
<1>1. /\ tokenBalance \in Nat /\ lockedBalance \in Nat /\ lockedBalance <= tokenBalance
      /\ lastRequestId \in Nat /\ lastFinalizedRequestId \in Nat /\ lastCheckpointId \in Nat
  BY QueueFields DEF CoverInv, LockedBalanceCoversClaims, QueueInv, QueueTypeOK, lastRequestId
<1>2. CASE Request
  BY <1>2, CoverRequest, QueueAssumption DEF Request
<1>3. CASE Finalize
  <2>1. PICK id \in 1 .. lastRequestId, p \in SharePrices :
          finalizeQueue(id, availableBalance, p) /\ UNCHANGED tokenBalance
    BY <1>3 DEF Finalize
  <2>2. id \in Nat /\ p \in Nat
    BY <1>1, QueueAssumption
  <2> QED BY <2>1, <2>2, CoverFinalize
<1>4. CASE Claim
  <2>1. PICK id \in 1 .. lastFinalizedRequestId, h \in 1 .. lastCheckpointId, c \in Recipients :
          claimWithdrawal(id, h, c)
    BY <1>4 DEF Claim
  <2>2. id \in Nat /\ h \in Nat
    BY <1>1
  <2> QED BY <2>1, <2>2, CoverClaim
<1>5. CASE Receive \/ Spend \/ UNCHANGED <<queueVars, tokenBalance>>
  <2>1. UNCHANGED queueVars /\ tokenBalance' \in Nat /\ lockedBalance <= tokenBalance'
    BY <1>1, <1>5, QueueAssumption DEF Receive, Spend, availableBalance
  <2> QED BY <2>1, CoverTokens
<1> QED BY <1>2, <1>3, <1>4, <1>5 DEF QueueNext

\* The locked balance pays every finalized request, in any order of the claims: the
\* subtraction in claimWithdrawal never reverts, for any amounts, prices and batches.
THEOREM ClaimsAreCovered == QueueSpec => []LockedBalanceCoversClaims
<1>1. QueueInit /\ tokenBalance = 0 => CoverInv
  BY CoverInit
<1>2. CoverInv /\ [QueueNext]_<<queueVars, tokenBalance>> => CoverInv'
  BY CoverStep
<1>3. CoverInv => LockedBalanceCoversClaims
  BY DEF CoverInv
<1> QED BY <1>1, <1>2, <1>3, PTL DEF QueueSpec, EmptyQueue
-----------------------------------------------------------------------------
(* The searches for hints *)

\* The loop of the binary search.
Ranges(s, e) == (s .. e) \X (s .. e)
Single(s, e) == {range \in Ranges(s, e) : range[2] <= range[1]}
Lower(s, e) == [range \in Ranges(s, e) |-> range[1]]
Half(id, s, e) ==
  [range \in Ranges(s, e) |->
     LET mid == (range[2] + range[1] + 1) \div 2
     IN  IF checkpoints[mid].fromRequestId <= id
         THEN <<mid, range[2]>> ELSE <<range[1], mid - 1>>]
Width(s, e) ==
  [range \in Ranges(s, e) |-> IF range[1] <= range[2] THEN range[2] - range[1] ELSE 0]

\* What the model's search solves.
IsSearch(f, id, s, e) ==
  f = [range \in (s .. e) \X (s .. e) |->
         IF range[2] <= range[1] THEN range[1]
         ELSE f[LET mid == (range[2] + range[1] + 1) \div 2
                IN  IF checkpoints[mid].fromRequestId <= id
                    THEN <<mid, range[2]>> ELSE <<range[1], mid - 1>>]]

\* The model's search is a solution, which is a loop.
LEMMA SearchIs ==
  ASSUME NEW id, NEW s, NEW e
  PROVE  /\ SearchCheckpoint(id, s, e) = (CHOOSE f : IsSearch(f, id, s, e))[<<s, e>>]
         /\ \A f : IsSearch(f, id, s, e) <=> IsLoop(f, Ranges(s, e), Single(s, e), Lower(s, e), Half(id, s, e))
<1>1. SearchCheckpoint(id, s, e) = (CHOOSE f : IsSearch(f, id, s, e))[<<s, e>>]
  BY Zenon DEF SearchCheckpoint, IsSearch
<1>2. ASSUME NEW f
      PROVE  IsSearch(f, id, s, e) <=> IsLoop(f, Ranges(s, e), Single(s, e), Lower(s, e), Half(id, s, e))
  BY DEF IsSearch, IsLoop, Ranges, Single, Lower, Half
<1> QED BY <1>1, <1>2

\* The midpoint of a range of two or more lies in it, and is not the first, so the
\* search narrows its range.
LEMMA SearchNarrows ==
  ASSUME NEW id, NEW s \in Int, NEW e \in Int, s <= e
  PROVE  /\ \A a, b \in s .. e : a < b => (b + a + 1) \div 2 \in a + 1 .. b
         /\ Narrows(Ranges(s, e), Single(s, e), Half(id, s, e), Width(s, e), e - s)
<1>1. \A a, b \in Int : a < b => (b + a + 1) \div 2 \in a + 1 .. b
  OBVIOUS
<1>2. \A a, b \in s .. e : a < b => (b + a + 1) \div 2 \in a + 1 .. b
  BY <1>1
<1>3. \A r \in Ranges(s, e) : r[1] \in s .. e /\ r[2] \in s .. e /\ Width(s, e)[r] \in 0 .. e - s
  BY DEF Ranges, Width
<1>4. ASSUME NEW r \in Ranges(s, e) \ Single(s, e)
      PROVE  Half(id, s, e)[r] \in Ranges(s, e) /\ Width(s, e)[Half(id, s, e)[r]] < Width(s, e)[r]
  <2> DEFINE mid == (r[2] + r[1] + 1) \div 2
  <2>1. r[1] < r[2] /\ r[1] \in s .. e /\ r[2] \in s .. e
    BY <1>3 DEF Single
  <2>2. mid \in r[1] + 1 .. r[2]
    BY <1>2, <2>1
  <2>3. Half(id, s, e)[r] = <<mid, r[2]>> \/ Half(id, s, e)[r] = <<r[1], mid - 1>>
    BY DEF Half
  <2> HIDE DEF mid
  <2>4. mid \in s .. e /\ mid - 1 \in s .. e
    BY <2>1, <2>2
  <2>5. \A x, y \in s .. e : <<x, y>> \in Ranges(s, e)
          /\ Width(s, e)[<<x, y>>] = IF x <= y THEN y - x ELSE 0
    BY DEF Ranges, Width
  <2>6. Width(s, e)[r] = r[2] - r[1]
    BY <2>1 DEF Width
  <2> QED BY <2>1, <2>2, <2>3, <2>4, <2>5, <2>6
<1> QED BY <1>2, <1>3, <1>4 DEF Narrows

\* In ordered checkpoints the search finds the last one of the range that does not
\* start after the id, if its first does not.
LEMMA SearchFinds ==
  ASSUME QueueInv, NEW id \in Nat, NEW s \in 1 .. lastCheckpointId, NEW e \in 1 .. lastCheckpointId,
         s <= e, checkpoints[s].fromRequestId <= id
  PROVE  LET h == SearchCheckpoint(id, s, e) IN
           /\ h \in s .. e
           /\ checkpoints[h].fromRequestId <= id
           /\ h < e => id < checkpoints[h + 1].fromRequestId
<1> DEFINE f == CHOOSE g : IsSearch(g, id, s, e)
           D == Ranges(s, e)
           stop == Single(s, e)
           out == Lower(s, e)
           next == Half(id, s, e)
           from(k) == checkpoints[k].fromRequestId
           Found(a, b, h) == /\ h \in a .. b
                             /\ from(h) <= id
                             /\ h < b => id < from(h + 1)
           Good == {p \in D \X Int :
                      p[1][1] <= p[1][2] /\ from(p[1][1]) <= id => Found(p[1][1], p[1][2], p[2])}
<1>1. /\ lastCheckpointId \in Nat /\ s \in Int /\ e \in Int /\ e - s \in Nat
      /\ \A h \in 1 .. lastCheckpointId : from(h) \in Nat
      /\ \A h, k \in 1 .. lastCheckpointId : k < h => from(k) < from(h)
      /\ \A k \in s .. e : k \in Int /\ k \in 1 .. lastCheckpointId
  BY QueueFields DEF QueueInv, CheckpointsOrdered
<1>2. Narrows(D, stop, next, Width(s, e), e - s)
  BY <1>1, SearchNarrows
<1>3. IsSearch(f, id, s, e)
  <2>1. \E g : IsSearch(g, id, s, e)
    BY <1>1, <1>2, LoopExists, SearchIs
  <2> QED BY <2>1, Zenon
<1>4. SearchCheckpoint(id, s, e) = f[<<s, e>>]
  BY SearchIs, Zenon
<1> HIDE DEF f, from
<1>5. IsLoop(f, D, stop, out, next)
  BY <1>3, SearchIs
<1>6. \A a, b \in s .. e, v \in Int :
        <<<<a, b>>, v>> \in Good <=> (a <= b /\ from(a) <= id => Found(a, b, v))
  BY DEF Ranges
<1>7. \A r \in D : r = <<r[1], r[2]>> /\ r[1] \in s .. e /\ r[2] \in s .. e
  BY DEF Ranges
<1>8. ASSUME NEW r \in D \cap stop PROVE <<r, out[r]>> \in Good
  <2>1. r[2] <= r[1] /\ out[r] = r[1] /\ r[1] \in Int /\ r[2] \in Int
    BY <1>1, <1>7 DEF Single, Lower
  <2>2. r[1] <= r[2] /\ from(r[1]) <= id => Found(r[1], r[2], r[1])
    BY <2>1
  <2> HIDE DEF Good, Found, D, out
  <2> QED BY <1>6, <1>7, <2>1, <2>2
<1>9. ASSUME NEW r \in D \ stop, NEW v, <<next[r], v>> \in Good PROVE <<r, v>> \in Good
  <2> DEFINE a == r[1]
             b == r[2]
             mid == (b + a + 1) \div 2
  <2>1. a \in s .. e /\ b \in s .. e /\ a < b /\ r = <<a, b>> /\ v \in Int
    BY <1>1, <1>7, <1>9 DEF Single
  <2>2. mid \in a + 1 .. b
    BY <1>1, <2>1, SearchNarrows
  <2>3. next[r] = IF from(mid) <= id THEN <<mid, b>> ELSE <<a, mid - 1>>
    BY DEF Half, from
  <2> HIDE DEF Good, D, next, a, b, mid
  <2>4. /\ mid \in s .. e /\ mid - 1 \in s .. e /\ mid \in Int /\ mid \in 1 .. lastCheckpointId
        /\ a \in Int /\ b \in Int /\ from(mid) \in Nat
    BY <1>1, <2>1, <2>2
  <2>5. ASSUME from(a) <= id PROVE Found(a, b, v)
    <3>1. CASE from(mid) <= id
      <4>1. Found(mid, b, v)
        BY <1>6, <1>9, <2>1, <2>2, <2>3, <2>4, <3>1
      <4> QED BY <2>1, <2>2, <2>4, <4>1
    <3>2. CASE ~(from(mid) <= id)
      <4>1. Found(a, mid - 1, v)
        <5>1. a <= mid - 1
          BY <2>2, <2>4
        <5> QED BY <1>6, <1>9, <2>1, <2>3, <2>4, <2>5, <3>2, <5>1
      <4>2. v < mid - 1 \/ v + 1 = mid
        BY <2>4, <4>1
      <4>3. id < from(mid)
        BY <2>4, <3>2
      <4> QED BY <2>1, <2>2, <2>4, <4>1, <4>2, <4>3
    <3> QED BY <3>1, <3>2
  <2> HIDE DEF Found
  <2> QED BY <1>6, <2>1, <2>5
<1>10. \A r \in D : <<r, f[r]>> \in Good
  <2> HIDE DEF D, stop, out, next, Good
  <2> QED BY <1>1, <1>2, <1>5, <1>8, <1>9, LoopResult
<1>11. <<s, e>> \in D
  BY <1>1 DEF Ranges
<1>12. Found(s, e, f[<<s, e>>])
  <2>1. <<<<s, e>>, f[<<s, e>>]>> \in Good
    BY <1>10, <1>11
  <2>2. f[<<s, e>>] \in Int
    BY <2>1
  <2>3. s \in s .. e /\ e \in s .. e /\ from(s) <= id
    BY <1>1 DEF from
  <2> HIDE DEF Good, Found
  <2> QED BY <1>6, <2>1, <2>2, <2>3
<1> QED BY <1>4, <1>12 DEF from

\* findCheckpointHint, on a queue in order.
LEMMA HintFound ==
  ASSUME QueueInv, NEW id \in 1 .. lastRequestId, NEW s \in 1 .. lastCheckpointId,
         NEW e \in 0 .. lastCheckpointId
  PROVE  LET h == findCheckpointHint(id, s, e)
             inRange == IF id <= lastFinalizedRequestId THEN HintsFor(id) \cap (s .. e) ELSE {}
         IN  IF inRange = {} THEN h = NOT_FOUND ELSE h \in inRange
<1> DEFINE h == findCheckpointHint(id, s, e)
           last == lastCheckpointId
           from(k) == checkpoints[k].fromRequestId
           In(k) == k \in s .. e /\ k \in 1 .. last /\ from(k) <= id /\ (k < last => id < from(k + 1))
<1>1. /\ last \in Nat /\ lastRequestId \in Nat /\ lastFinalizedRequestId \in Nat
      /\ \A k \in 1 .. last : from(k) \in Nat
      /\ \A j, k \in 1 .. last : k < j => from(k) < from(j)
  <2>1. /\ last \in Nat /\ lastRequestId \in Nat /\ lastFinalizedRequestId \in Nat
        /\ \A k \in 1 .. last : from(k) \in Nat
    BY QueueFields DEF QueueInv, QueueTypeOK, lastRequestId
  <2>2. \A j \in 1 .. last : \A k \in 1 .. j - 1 : from(k) < from(j)
    BY DEF QueueInv, CheckpointsOrdered
  <2> HIDE DEF from
  <2> QED BY <2>1, <2>2
<1>2. \A k : k \in HintsFor(id) \cap (s .. e) <=> In(k)
  BY <1>1 DEF HintsFor, ValidHint
<1>3. h = IF lastCheckpointId = 0 \/ id > lastFinalizedRequestId \/ s > e
          THEN NOT_FOUND
          ELSE IF id >= from(e)
               THEN IF \/ e = last
                       \/ id < from(e + 1)
                    THEN e ELSE NOT_FOUND
               ELSE IF id < from(s) THEN NOT_FOUND ELSE SearchCheckpoint(id, s, e - 1)
  BY Zenon DEF findCheckpointHint
<1> HIDE DEF h
<1>4. CASE id > lastFinalizedRequestId \/ s > e
  <2>1. h = NOT_FOUND
    BY <1>3, <1>4
  <2>2. (IF id <= lastFinalizedRequestId THEN HintsFor(id) \cap (s .. e) ELSE {}) = {}
    BY <1>1, <1>4
  <2> QED BY <2>1, <2>2 DEF h
<1>5. CASE id <= lastFinalizedRequestId /\ s <= e
  <2> SUFFICES IF HintsFor(id) \cap (s .. e) = {} THEN h = NOT_FOUND
               ELSE h \in HintsFor(id) \cap (s .. e)
    BY <1>5 DEF h
  <2>0. /\ s \in Int /\ e \in 1 .. last /\ last # 0
        /\ ~(id > lastFinalizedRequestId) /\ ~(s > e) /\ id \in Nat
    BY <1>1, <1>5
  <2>1. CASE id >= from(e)
    <3>1. CASE e = last \/ id < from(e + 1)
      <4>1. h = e /\ In(e)
        BY <1>1, <1>3, <1>5, <2>0, <2>1, <3>1
      <4> QED BY <1>2, <4>1
    <3>2. CASE ~(e = last \/ id < from(e + 1))
      <4>1. h = NOT_FOUND
        BY <1>3, <2>0, <2>1, <3>2
      <4>2. ASSUME NEW k, In(k) PROVE FALSE
        <5>1. e + 1 \in 1 .. last /\ k + 1 \in 1 .. last /\ k + 1 <= e + 1 /\ k < last
          BY <1>1, <2>0, <3>2, <4>2
        <5>2. from(k + 1) <= from(e + 1)
          BY <1>1, <5>1
        <5>3. from(e + 1) \in Nat /\ from(k + 1) \in Nat
          BY <1>1, <5>1
        <5> HIDE DEF from
        <5> QED BY <2>0, <3>2, <4>2, <5>1, <5>2, <5>3
      <4> QED BY <1>2, <4>1, <4>2
    <3> QED BY <3>1, <3>2
  <2>2. CASE ~(id >= from(e)) /\ id < from(s)
    <3>1. h = NOT_FOUND
      BY <1>3, <2>0, <2>2
    <3>2. ASSUME NEW k, In(k) PROVE FALSE
      BY <1>1, <2>0, <2>2, <3>2
    <3> QED BY <1>2, <3>1, <3>2
  <2>3. CASE ~(id >= from(e)) /\ ~(id < from(s))
    <3>1. from(s) \in Nat /\ from(e) \in Nat
      BY <1>1, <2>0
    <3>2. from(s) <= id /\ id < from(e)
      BY <2>0, <2>3, <3>1
    <3>3. s < e /\ e - 1 \in 1 .. last /\ s <= e - 1
      BY <1>1, <1>5, <2>0, <3>2
    <3>4. h = SearchCheckpoint(id, s, e - 1)
      BY <1>3, <2>0, <2>3
    <3>5. /\ h \in s .. e - 1
          /\ from(h) <= id
          /\ h < e - 1 => id < from(h + 1)
      BY <2>0, <3>2, <3>3, <3>4, SearchFinds
    <3>6. h < e - 1 \/ h + 1 = e
      BY <2>0, <3>5
    <3>7. In(h)
      BY <1>1, <2>0, <3>2, <3>5, <3>6
    <3> QED BY <1>2, <3>7
  <2> QED BY <2>1, <2>2, <2>3
<1>6. id <= lastFinalizedRequestId \/ id > lastFinalizedRequestId
  BY <1>1
<1>7. s <= e \/ s > e
  BY <1>1
<1> QED BY <1>4, <1>5, <1>6, <1>7

\* The hint in the whole queue is the one valid hint of a finalized request, and
\* does not fall when the id rises.
LEMMA HintInQueue ==
  ASSUME QueueInv, NEW id \in 1 .. lastRequestId, lastCheckpointId > 0
  PROVE  LET h == findCheckpointHint(id, 1, lastCheckpointId) IN
         /\ id > lastFinalizedRequestId => h = NOT_FOUND
         /\ id <= lastFinalizedRequestId => HintsFor(id) = {h} /\ h \in 1 .. lastCheckpointId
<1> DEFINE h == findCheckpointHint(id, 1, lastCheckpointId)
<1>1. /\ lastCheckpointId \in Nat /\ lastRequestId \in Nat /\ lastFinalizedRequestId \in Nat
      /\ id \in Nat /\ 1 \in 1 .. lastCheckpointId /\ lastCheckpointId \in 0 .. lastCheckpointId
  BY QueueFields DEF QueueInv, QueueTypeOK, lastRequestId
<1>2. IF (IF id <= lastFinalizedRequestId THEN HintsFor(id) \cap (1 .. lastCheckpointId) ELSE {}) = {}
      THEN h = NOT_FOUND
      ELSE h \in IF id <= lastFinalizedRequestId THEN HintsFor(id) \cap (1 .. lastCheckpointId) ELSE {}
  BY <1>1, HintFound
<1> HIDE DEF h
<1>3. CASE id > lastFinalizedRequestId
  <2>1. ~(id <= lastFinalizedRequestId)
    BY <1>1, <1>3
  <2> QED BY <1>2, <2>1 DEF h
<1>4. CASE id <= lastFinalizedRequestId
  <2>1. id \in FinalizedIds
    BY <1>1, <1>4 DEF FinalizedIds
  <2>2. PICK k \in 1 .. lastCheckpointId :
          ValidHint(id, k) /\ \A j \in 1 .. lastCheckpointId : ValidHint(id, j) => j = k
    BY <2>1 DEF QueueInv, OneHint
  <2>3. HintsFor(id) = {k} /\ HintsFor(id) \cap (1 .. lastCheckpointId) = {k}
    BY <2>2 DEF HintsFor
  <2>4. h = k
    BY <1>2, <1>4, <2>3
  <2>5. ~(id > lastFinalizedRequestId)
    BY <1>1, <1>4
  <2> QED BY <2>2, <2>3, <2>4, <2>5 DEF h
<1>5. id <= lastFinalizedRequestId \/ id > lastFinalizedRequestId
  BY <1>1
<1> QED BY <1>3, <1>4, <1>5

\* The hints of a list of two, unfolded.
LEMMA HintsOfTwo ==
  ASSUME NEW first, NEW second, NEW s, NEW e
  PROVE  LET one == IF ~AcceptsRange(first, s, e) THEN REVERTS ELSE findCheckpointHint(first, s, e)
             two == IF second < first \/ ~AcceptsRange(second, one, e) THEN REVERTS
                    ELSE findCheckpointHint(second, one, e)
         IN  findCheckpointHints(<<first, second>>, s, e) = <<one, two>>
<1> DEFINE ids == <<first, second>>
           one == IF ~AcceptsRange(first, s, e) THEN REVERTS ELSE findCheckpointHint(first, s, e)
           two == IF second < first \/ ~AcceptsRange(second, one, e) THEN REVERTS
                  ELSE findCheckpointHint(second, one, e)
           Next2(f, i) == IF i = 0 THEN s
                          ELSE IF \/ i > 1 /\ ids[i] < ids[i - 1]
                                  \/ ~AcceptsRange(ids[i], f[i - 1], e)
                               THEN REVERTS
                               ELSE findCheckpointHint(ids[i], f[i - 1], e)
           Is(f) == f = [i \in 0 .. Len(ids) |-> Next2(f, i)]
           hint == CHOOSE f : Is(f)
           g == [i \in 0 .. 2 |-> IF i = 0 THEN s ELSE IF i = 1 THEN one ELSE two]
<1>1. findCheckpointHints(ids, s, e) = [i \in 1 .. Len(ids) |-> hint[i]]
  BY Zenon DEF findCheckpointHints
<1>2. Len(ids) = 2 /\ ids[1] = first /\ ids[2] = second
  OBVIOUS
<1>3. 0 .. 2 = {0, 1, 2} /\ 1 .. 2 = {1, 2}
  OBVIOUS
<1> HIDE DEF ids, one, two, Is, hint
<1>4. \A f : /\ Next2(f, 0) = s
             /\ Next2(f, 1) = IF ~AcceptsRange(first, f[0], e) THEN REVERTS
                              ELSE findCheckpointHint(first, f[0], e)
             /\ Next2(f, 2) = IF second < first \/ ~AcceptsRange(second, f[1], e) THEN REVERTS
                              ELSE findCheckpointHint(second, f[1], e)
  BY <1>2
<1>5. \A f : Is(f) <=> f = [i \in 0 .. 2 |-> Next2(f, i)]
  BY <1>2 DEF Is
<1> HIDE DEF Next2
<1>6. Is(g)
  <2>1. g[0] = s /\ g[1] = one /\ g[2] = two
    BY <1>3
  <2>2. Next2(g, 0) = s /\ Next2(g, 1) = one /\ Next2(g, 2) = two
    <3> HIDE DEF g
    <3> QED BY <1>4, <2>1 DEF one, two
  <2>3. \A i \in 0 .. 2 : g[i] = Next2(g, i)
    BY <1>3, <2>1, <2>2
  <2>4. g = [i \in 0 .. 2 |-> g[i]]
    OBVIOUS
  <2> HIDE DEF g
  <2> QED BY <1>5, <2>3, <2>4
<1>7. Is(hint)
  <2>1. \E f : Is(f)
    BY <1>6
  <2> QED BY <2>1, Zenon DEF hint
<1>8. hint = [i \in 0 .. 2 |-> Next2(hint, i)]
  BY <1>5, <1>7
<1>9. hint[0] = s /\ hint[1] = Next2(hint, 1) /\ hint[2] = Next2(hint, 2)
  <2>1. \A i \in 0 .. 2 : hint[i] = Next2(hint, i)
    BY <1>8
  <2> QED BY <1>3, <1>4, <2>1
<1>10. hint[1] = one
  BY <1>4, <1>9 DEF one
<1>11. hint[2] = two
  BY <1>4, <1>9, <1>10 DEF two
<1>12. [i \in 1 .. Len(ids) |-> hint[i]] = <<one, two>>
  BY <1>2, <1>3, <1>10, <1>11
<1> QED BY <1>1, <1>12 DEF ids, one, two
\* Both searches return the hint that claimWithdrawal accepts.
LEMMA HintSearches ==
  ASSUME QueueInv
  PROVE  HintSearchCorrect
<1>1. SearchCorrect
  BY HintFound DEF SearchCorrect
<1>2. ASSUME NEW first \in 1 .. lastRequestId, NEW second \in 1 .. lastRequestId,
             lastCheckpointId > 0
      PROVE  LET Hint(id) == findCheckpointHint(id, 1, lastCheckpointId)
                 listed   == first <= second /\ first <= lastFinalizedRequestId
             IN  findCheckpointHints(<<first, second>>, 1, lastCheckpointId)
                   = <<Hint(first), IF listed THEN Hint(second) ELSE REVERTS>>
  <2> DEFINE last == lastCheckpointId
             from(k) == checkpoints[k].fromRequestId
             one == findCheckpointHint(first, 1, last)
             other == findCheckpointHint(second, 1, last)
             two == IF second < first \/ ~AcceptsRange(second, one, last) THEN REVERTS
                    ELSE findCheckpointHint(second, one, last)
  <2>1. /\ last \in Nat /\ lastRequestId \in Nat /\ lastFinalizedRequestId \in Nat
        /\ first \in Nat /\ second \in Nat
        /\ last > 0 /\ 1 \in 1 .. last /\ last \in 0 .. last
        /\ \A k \in 1 .. last : from(k) \in Nat
        /\ \A j, k \in 1 .. last : k < j => from(k) < from(j)
    <3>1. /\ last \in Nat /\ lastRequestId \in Nat /\ lastFinalizedRequestId \in Nat
          /\ \A k \in 1 .. last : from(k) \in Nat
      BY QueueFields DEF QueueInv, QueueTypeOK, lastRequestId
    <3>2. \A j \in 1 .. last : \A k \in 1 .. j - 1 : from(k) < from(j)
      BY DEF QueueInv, CheckpointsOrdered
    <3> HIDE DEF from
    <3> QED BY <1>2, <3>1, <3>2
  <2>2. AcceptsRange(first, 1, last)
    BY <2>1 DEF AcceptsRange
  <2>3. findCheckpointHints(<<first, second>>, 1, last) = <<one, two>>
    BY <2>2, HintsOfTwo
  <2>4. /\ first > lastFinalizedRequestId => one = NOT_FOUND
        /\ first <= lastFinalizedRequestId => HintsFor(first) = {one} /\ one \in 1 .. last
        /\ second > lastFinalizedRequestId => other = NOT_FOUND
        /\ second <= lastFinalizedRequestId => HintsFor(second) = {other} /\ other \in 1 .. last
    BY <1>2, HintInQueue
  <2> HIDE DEF one, other
  <2>5. CASE ~(first <= second /\ first <= lastFinalizedRequestId)
    <3>1. CASE ~(first <= second)
      <4>1. second < first
        BY <2>1, <3>1
      <4> QED BY <2>3, <2>5, <4>1 DEF one
    <3>2. CASE ~(first <= lastFinalizedRequestId)
      <4>1. one = NOT_FOUND
        BY <2>1, <2>4, <3>2
      <4>2. ~AcceptsRange(second, one, last)
        BY <4>1 DEF AcceptsRange, NOT_FOUND
      <4> QED BY <2>3, <2>5, <4>2 DEF one
    <3> QED BY <2>5, <3>1, <3>2
  <2>6. CASE first <= second /\ first <= lastFinalizedRequestId
    <3>1. /\ one \in 1 .. last /\ one \in Nat /\ from(one) <= first
      BY <2>1, <2>4, <2>6 DEF HintsFor, ValidHint
    <3>2. ~(second < first) /\ AcceptsRange(second, one, last)
      BY <2>1, <2>6, <3>1 DEF AcceptsRange
    <3>3. two = findCheckpointHint(second, one, last)
      BY <3>2
    <3> DEFINE inRange == IF second <= lastFinalizedRequestId
                          THEN HintsFor(second) \cap (one .. last) ELSE {}
    <3>4. IF inRange = {} THEN two = NOT_FOUND ELSE two \in inRange
      BY <2>1, <3>1, <3>3, HintFound
    <3> HIDE DEF two
    <3>5. two = other
      <4>1. CASE second > lastFinalizedRequestId
        <5>1. inRange = {} /\ other = NOT_FOUND
          BY <2>1, <2>4, <4>1
        <5> QED BY <3>4, <5>1
      <4>2. CASE second <= lastFinalizedRequestId
        <5>1. /\ other \in 1 .. last /\ HintsFor(second) = {other}
              /\ other < last => second < from(other + 1)
          BY <2>4, <4>2 DEF HintsFor, ValidHint
        <5>2. ASSUME other < one PROVE FALSE
          <6>1. other + 1 \in 1 .. last /\ other + 1 <= one /\ other < last
            BY <2>1, <3>1, <5>1, <5>2
          <6>2. from(other + 1) <= from(one) /\ from(other + 1) \in Nat /\ from(one) \in Nat
            BY <2>1, <3>1, <6>1
          <6>3. second < from(other + 1)
            BY <5>1, <6>1
          <6> HIDE DEF from
          <6> QED BY <2>1, <2>6, <3>1, <6>2, <6>3
        <5>3. inRange = {other}
          <6>1. other \in one .. last
            BY <2>1, <3>1, <5>1, <5>2
          <6> QED BY <4>2, <5>1, <6>1
        <5> QED BY <3>4, <5>3
      <4> QED BY <2>1, <4>1, <4>2
    <3> QED BY <2>3, <2>6, <3>5 DEF one, other
  <2> QED BY <2>5, <2>6
<1>3. ListSearchCorrect
  BY <1>2 DEF ListSearchCorrect
<1> QED BY <1>1, <1>3 DEF HintSearchCorrect

\* findCheckpointHint and findCheckpointHints return the hints that claimWithdrawal
\* accepts, for any checkpoints the queue can have and any range searched.
THEOREM HintsAreFound == QueueSpec => []HintSearchCorrect
<1>1. QueueInit /\ tokenBalance = 0 => QueueInv
  BY QueueInitInv
<1>2. QueueInv /\ [QueueNext]_<<queueVars, tokenBalance>> => QueueInv'
  BY QueueStepInv
<1>3. QueueInv => HintSearchCorrect
  BY HintSearches
<1> QED BY <1>1, <1>2, <1>3, PTL DEF QueueSpec, EmptyQueue
=============================================================================
