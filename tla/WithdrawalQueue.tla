--------------------------- MODULE WithdrawalQueue ---------------------------
(***************************************************************************)
(* contracts/mainnet-bridge/withdrawal-queue/WithdrawalQueue.sol.           *)
(*                                                                          *)
(* Requests are numbered from 1 and finalized in order, in batches; a batch *)
(* records one checkpoint, the share price at which its requests are paid.  *)
(* A finalized request is claimed once, by its recipient, who names the     *)
(* checkpoint (the hint) that covers it.                                    *)
(*                                                                          *)
(* The dummy request and checkpoint at index 0 are not stored: Cumulative   *)
(* gives the dummy's amount, and id 0 is refused by every operation.  The   *)
(* request timestamps and the index by owner are only read by views and are *)
(* left out.  The 128-bit casts cannot fail for amounts of ether or USDB.   *)
(*                                                                          *)
(* The contract is abstract; the last section closes it with the least an   *)
(* inheriting contract does: it receives tokens and spends tokens that are  *)
(* not locked.                                                              *)
(***************************************************************************)
EXTENDS Integers, Sequences, Functions

CONSTANTS
  Recipients,
  Amounts,               \* nominal amounts of requests
  Transfers,             \* amounts the contract receives or spends at once
  SharePrices,           \* prices at which batches are finalized
  E27_PRECISION_BASE,    \* share price of an undiscounted withdrawal
  MaxRequests,           \* bound: requests in the queue
  Balances               \* bound: what the contract may come to hold

ASSUME QueueAssumption ==
  /\ Amounts \subseteq Nat
  /\ Transfers \subseteq Nat
  /\ SharePrices \subseteq Nat
  /\ E27_PRECISION_BASE \in Nat \ {0}
  /\ Balances \subseteq Nat

VARIABLES
  requests,                  \* _requests[1..]
  checkpoints,               \* _checkpoints[1..]
  lastFinalizedRequestId,
  lockedBalance,
  tokenBalance               \* TOKEN (or ether) held by the contract

queueVars == <<requests, checkpoints, lastFinalizedRequestId, lockedBalance>>

WithdrawalRequest == [cumulativeAmount : Nat, recipient : Recipients, claimed : BOOLEAN]
Checkpoint == [fromRequestId : Nat \ {0}, sharePrice : 0 .. E27_PRECISION_BASE]

QueueTypeOK ==
  /\ requests \in Seq(WithdrawalRequest)
  /\ checkpoints \in Seq(Checkpoint)
  /\ lastFinalizedRequestId \in 0 .. Len(requests)
  /\ lockedBalance \in Nat
  /\ tokenBalance \in Nat

QueueInit ==
  /\ requests = <<>>
  /\ checkpoints = <<>>
  /\ lastFinalizedRequestId = 0
  /\ lockedBalance = 0

-----------------------------------------------------------------------------
(* Views *)

lastRequestId == Len(requests)
lastCheckpointId == Len(checkpoints)

Cumulative(id) == IF id = 0 THEN 0 ELSE requests[id].cumulativeAmount
NominalAmount(id) == Cumulative(id) - Cumulative(id - 1)

availableBalance == tokenBalance - lockedBalance

AtPrice(nominal, sharePrice) == (nominal * sharePrice) \div E27_PRECISION_BASE

\* Bug: the check against the next checkpoint is off by one.
ValidHint_OffByOne(requestId, hintId) ==
  /\ hintId \in 1 .. lastCheckpointId
  /\ requestId >= checkpoints[hintId].fromRequestId
  /\ hintId < lastCheckpointId => requestId <= checkpoints[hintId + 1].fromRequestId

\* _calculateClaimableEther reverts with InvalidHint otherwise.
ValidHint(requestId, hintId) ==
  /\ hintId \in 1 .. lastCheckpointId
  /\ requestId >= checkpoints[hintId].fromRequestId
  /\ hintId < lastCheckpointId => requestId < checkpoints[hintId + 1].fromRequestId

calculateClaimableEther(requestId, hintId) ==
  AtPrice(NominalAmount(requestId), checkpoints[hintId].sharePrice)

getClaimableEther(requestId, hintId) ==
  IF requestId > lastFinalizedRequestId \/ requests[requestId].claimed THEN 0
  ELSE calculateClaimableEther(requestId, hintId)

NOT_FOUND == 0

\* Bug: the midpoint rounds down, so the search can stop one checkpoint early.
SearchCheckpoint_RoundsDown(requestId, start, end) ==
  LET search[range \in (start .. end) \X (start .. end)] ==
        LET min == range[1]
            max == range[2]
            mid == (max + min) \div 2
        IN  IF max <= min + 1 THEN min
            ELSE search[IF checkpoints[mid].fromRequestId <= requestId
                        THEN <<mid, max>> ELSE <<min, mid - 1>>]
  IN  search[<<start, end>>]

\* The binary search of findCheckpointHint, over [start, end].
SearchCheckpoint(requestId, start, end) ==
  LET search[range \in (start .. end) \X (start .. end)] ==
        LET min == range[1]
            max == range[2]
            mid == (max + min + 1) \div 2
        IN  IF max <= min THEN min
            ELSE search[IF checkpoints[mid].fromRequestId <= requestId
                        THEN <<mid, max>> ELSE <<min, mid - 1>>]
  IN  search[<<start, end>>]

\* The ranges findCheckpointHint accepts; it reverts on the others.
AcceptsRange(requestId, start, end) ==
  /\ requestId \in 1 .. lastRequestId
  /\ start > 0 /\ end <= lastCheckpointId

findCheckpointHint(requestId, start, end) ==
  IF lastCheckpointId = 0 \/ requestId > lastFinalizedRequestId \/ start > end
  THEN NOT_FOUND
  ELSE IF requestId >= checkpoints[end].fromRequestId
       THEN IF \/ end = lastCheckpointId
               \/ requestId < checkpoints[end + 1].fromRequestId
            THEN end ELSE NOT_FOUND
       ELSE IF requestId < checkpoints[start].fromRequestId
            THEN NOT_FOUND
            ELSE SearchCheckpoint(requestId, start, end - 1)

REVERTS == -1

\* Hints for a list of ids; each search starts at the hint found before it.
findCheckpointHints(requestIds, first, last) ==
  LET hint[i \in 0 .. Len(requestIds)] ==
        IF i = 0 THEN first
        ELSE IF \/ i > 1 /\ requestIds[i] < requestIds[i - 1]
                \/ ~AcceptsRange(requestIds[i], hint[i - 1], last)
             THEN REVERTS
             ELSE findCheckpointHint(requestIds[i], hint[i - 1], last)
  IN  [i \in 1 .. Len(requestIds) |-> hint[i]]

-----------------------------------------------------------------------------
(* Operations of the contract, on the queue's own state *)

requestWithdrawal(recipient, amount) ==
  /\ Len(requests) < MaxRequests
  /\ requests' = Append(requests,
                   [cumulativeAmount |-> Cumulative(lastRequestId) + amount,
                    recipient        |-> recipient,
                    claimed          |-> FALSE])
  /\ UNCHANGED <<checkpoints, lastFinalizedRequestId, lockedBalance>>

\* What finalizing up to requestId costs at the nominal amounts.
NominalToFinalize(requestId) ==
  Cumulative(requestId) - Cumulative(lastFinalizedRequestId)

\* Bug: the new checkpoint starts at the last request of the previous batch.
FirstRequestIdToFinalize_OffByOne == IF lastFinalizedRequestId = 0 THEN 1
                                     ELSE lastFinalizedRequestId

FirstRequestIdToFinalize == lastFinalizedRequestId + 1

\* Bug: the batch locks what its last request alone is worth.
RealToFinalize_LastOnly(requestId, sharePrice) ==
  AtPrice(NominalAmount(requestId), sharePrice)

RealToFinalize(requestId, sharePrice) == AtPrice(NominalToFinalize(requestId), sharePrice)

PriceAllowed(sharePrice) == sharePrice <= E27_PRECISION_BASE

finalizeQueue(requestId, available, sharePrice) ==
  /\ PriceAllowed(sharePrice)
  /\ requestId \in lastFinalizedRequestId + 1 .. lastRequestId
  /\ RealToFinalize(requestId, sharePrice) <= available
  /\ lockedBalance' = lockedBalance + RealToFinalize(requestId, sharePrice)
  /\ lastFinalizedRequestId' = requestId
  /\ checkpoints' = Append(checkpoints, [fromRequestId |-> FirstRequestIdToFinalize,
                                         sharePrice    |-> sharePrice])
  /\ UNCHANGED requests

\* Bug: nothing remembers that a request was paid.
Claimable_NoFlag(requestId, caller) ==
  /\ requestId \in 1 .. lastFinalizedRequestId
  /\ requests[requestId].recipient = caller

Claimable(requestId, caller) ==
  /\ requestId \in 1 .. lastFinalizedRequestId
  /\ ~requests[requestId].claimed
  /\ requests[requestId].recipient = caller

\* Pays the caller; a failed transfer reverts the whole call.
claimWithdrawal(requestId, hintId, caller) ==
  /\ Claimable(requestId, caller)
  /\ ValidHint(requestId, hintId)
  /\ LET realAmount == calculateClaimableEther(requestId, hintId) IN
       /\ realAmount <= lockedBalance
       /\ realAmount <= tokenBalance
       /\ lockedBalance' = lockedBalance - realAmount
       /\ tokenBalance' = tokenBalance - realAmount
  /\ requests' = [requests EXCEPT ![requestId].claimed = TRUE]
  /\ UNCHANGED <<checkpoints, lastFinalizedRequestId>>

-----------------------------------------------------------------------------
(* The queue inside any contract that only spends what is not locked *)

Request ==
  \E r \in Recipients, a \in Amounts :
    requestWithdrawal(r, a) /\ UNCHANGED tokenBalance

Finalize ==
  \E id \in 1 .. lastRequestId, p \in SharePrices :
    finalizeQueue(id, availableBalance, p) /\ UNCHANGED tokenBalance

Claim ==
  \E id \in 1 .. lastFinalizedRequestId, h \in 1 .. lastCheckpointId, c \in Recipients :
    claimWithdrawal(id, h, c)

Receive ==
  \E a \in Transfers :
    /\ tokenBalance + a \in Balances
    /\ tokenBalance' = tokenBalance + a
    /\ UNCHANGED queueVars

Spend ==
  \E a \in Transfers :
    /\ a <= availableBalance
    /\ tokenBalance' = tokenBalance - a
    /\ UNCHANGED queueVars

QueueNext == Request \/ Finalize \/ Claim \/ Receive \/ Spend

\* The contract is deployed without tokens.
EmptyQueue == QueueInit /\ tokenBalance = 0

QueueSpec == EmptyQueue /\ [][QueueNext]_<<queueVars, tokenBalance>>

-----------------------------------------------------------------------------
(* Properties *)

FinalizedIds == 1 .. lastFinalizedRequestId

HintsFor(id) == {h \in 1 .. lastCheckpointId : ValidHint(id, h)}

\* Checkpoints start at strictly increasing ids, the first at 1 and none past
\* the last finalized request.
CheckpointsOrdered ==
  /\ lastFinalizedRequestId > 0 <=> checkpoints # <<>>
  /\ checkpoints # <<>> => checkpoints[1].fromRequestId = 1
  /\ \A h \in 1 .. lastCheckpointId :
       /\ checkpoints[h].fromRequestId <= lastFinalizedRequestId
       /\ \A k \in 1 .. h - 1 :
            checkpoints[k].fromRequestId < checkpoints[h].fromRequestId

\* Every finalized request is covered by exactly one checkpoint: the claimer
\* can always name a hint, and can choose neither between two prices nor a
\* better one.
OneHint ==
  \A id \in FinalizedIds :
    \E h \in 1 .. lastCheckpointId :
      /\ ValidHint(id, h)
      /\ \A k \in 1 .. lastCheckpointId : ValidHint(id, k) => k = h

\* The running totals never fall.
CumulativeOrdered ==
  \A i, j \in 0 .. lastRequestId : i <= j => Cumulative(i) <= Cumulative(j)

\* The inductive invariant of the queue: it is well formed, and a finalized
\* request has one hint.
QueueInv ==
  /\ QueueTypeOK
  /\ CumulativeOrdered
  /\ CheckpointsOrdered
  /\ OneHint

\* findCheckpointHint returns the hint that claimWithdrawal accepts when it
\* lies in the searched range and NOT_FOUND otherwise, for every range it does
\* not revert on.
SearchCorrect ==
  \A id \in 1 .. lastRequestId, s \in 1 .. lastCheckpointId, e \in 0 .. lastCheckpointId :
    AcceptsRange(id, s, e) =>
      LET h == findCheckpointHint(id, s, e)
          inRange == IF id <= lastFinalizedRequestId THEN HintsFor(id) \cap (s .. e) ELSE {}
      IN  IF inRange = {} THEN h = NOT_FOUND ELSE h \in inRange

\* In a list each hint narrows the search for the next.  The hints are the same, but
\* after an id that has none, or one that is greater than the next, it reverts.
ListSearchCorrect ==
  \A first, second \in 1 .. lastRequestId :
    LET Hint(id) == findCheckpointHint(id, 1, lastCheckpointId)
        listed   == first <= second /\ first <= lastFinalizedRequestId
    IN  lastCheckpointId > 0 =>
          findCheckpointHints(<<first, second>>, 1, lastCheckpointId)
            = <<Hint(first), IF listed THEN Hint(second) ELSE REVERTS>>

\* Both searches for hints, of one request and of several.
HintSearchCorrect == SearchCorrect /\ ListSearchCorrect

\* A hint looked up off-chain stays valid, at the same price, whatever batches
\* are finalized and claims made before it is used.
HintsNeverGoStale ==
  [][\A id \in FinalizedIds, h \in 1 .. lastCheckpointId :
       ValidHint(id, h) =>
         /\ ValidHint(id, h)'
         /\ calculateClaimableEther(id, h)' = calculateClaimableEther(id, h)]_queueVars

\* What is still to be paid for a finalized request, at the price of its batch.
OwedFor(id) == getClaimableEther(id, CHOOSE h \in HintsFor(id) : TRUE)

Owed == SumFunctionOnSet([id \in FinalizedIds |-> OwedFor(id)], FinalizedIds)

\* Rounding is always in the queue's favour: the balance locked for finalized
\* requests pays every one of them, whatever the order of the claims (the
\* subtraction in claimWithdrawal never reverts), and the contract holds it.
LockedBalanceCoversClaims ==
  Owed <= lockedBalance /\ lockedBalance <= tokenBalance

\* What a step may do to the locked balance and the marks of paid requests.
PaysOnce ==
  /\ lockedBalance' < lockedBalance =>
       \E id \in FinalizedIds :
         /\ ~requests[id].claimed
         /\ requests' = [requests EXCEPT ![id].claimed = TRUE]
         /\ lockedBalance - lockedBalance' = tokenBalance - tokenBalance'
  /\ \A id \in 1 .. lastRequestId : requests[id].claimed => requests'[id].claimed

\* A request is paid once and exactly: the locked balance only falls when one
\* finalized request turns from unclaimed to claimed, by what leaves the
\* contract, and no request is ever un-claimed.
PaidOnce == [][PaysOnce]_<<queueVars, tokenBalance>>
=============================================================================
