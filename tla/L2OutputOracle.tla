--------------------------- MODULE L2OutputOracle ---------------------------
(***************************************************************************)
(* contracts/L1/L2OutputOracle.sol.                                         *)
(*                                                                          *)
(* The proposer appends output roots of the L2 chain, the challenger can    *)
(* truncate the list while the outputs it drops are younger than the        *)
(* finalization period, and can move the starting block number and          *)
(* timestamp.  One step is one call; several calls may share a block, so    *)
(* time advances in a step of its own.                                      *)
(*                                                                          *)
(* Index i of l2Outputs stands for Solidity's index i - 1.  The calls are   *)
(* the ones the role checks (msg.sender == PROPOSER, CHALLENGER) let in.    *)
(* The optional L1 block hash check only rejects calls, and every call may  *)
(* fail to be made, so it adds no behaviour and is left out.                *)
(***************************************************************************)
EXTENDS Integers, Sequences

CONSTANTS
  OutputRoots,                  \* non-zero roots the proposer may submit
  SUBMISSION_INTERVAL,
  L2_BLOCK_TIME,
  FINALIZATION_PERIOD_SECONDS,
  StartingBlockNumbers,         \* arguments of initialize and the setters
  StartingTimestamps,
  DeployTime,                   \* block.timestamp of the deployment
  MaxTime,                      \* bound: time stops here
  MaxOutputs                    \* bound: outputs in the list at once

ASSUME OracleAssumption ==
  /\ L2_BLOCK_TIME \in Nat \ {0}
  /\ SUBMISSION_INTERVAL \in Nat /\ SUBMISSION_INTERVAL > L2_BLOCK_TIME
  /\ FINALIZATION_PERIOD_SECONDS \in Nat
  /\ StartingBlockNumbers \subseteq Nat
  /\ StartingTimestamps \subseteq Nat
  /\ DeployTime \in Nat \ {0}

VARIABLES
  now,                  \* block.timestamp
  l2Outputs,
  startingBlockNumber,
  startingTimestamp

oracleVars == <<l2Outputs, startingBlockNumber, startingTimestamp>>

OutputProposal ==
  [outputRoot    : OutputRoots,
   timestamp     : {t \in Nat : t >= DeployTime},
   l2BlockNumber : Nat]

\* Shapes of the state; no output is dated before the contract existed.
OracleTypeOK ==
  /\ now \in Nat /\ now >= DeployTime
  /\ l2Outputs \in Seq(OutputProposal)
  /\ startingBlockNumber \in Nat
  /\ startingTimestamp \in Nat

OracleInit ==
  /\ now = DeployTime
  /\ l2Outputs = <<>>
  /\ startingBlockNumber \in StartingBlockNumbers
  /\ startingTimestamp \in {t \in StartingTimestamps : t <= DeployTime}

-----------------------------------------------------------------------------
(* Views *)

\* Bug: the block number is counted from the start, not from the last output.
latestBlockNumber_Restarts == startingBlockNumber

latestBlockNumber ==
  IF l2Outputs = <<>> THEN startingBlockNumber
                      ELSE l2Outputs[Len(l2Outputs)].l2BlockNumber

nextBlockNumber == latestBlockNumber + SUBMISSION_INTERVAL

\* The subtraction reverts when the block precedes the starting block, which
\* the callers state as a guard.
computeL2Timestamp(l2BlockNumber) ==
  startingTimestamp + (l2BlockNumber - startingBlockNumber) * L2_BLOCK_TIME

\* Bug: strict comparison swapped, the search overshoots an exact match.
getL2OutputIndexAfter_Overshoots(l2BlockNumber) ==
  LET bounds == 1 .. Len(l2Outputs) + 1
      search[range \in bounds \X bounds] ==
        LET lo  == range[1]
            hi  == range[2]
            mid == (lo + hi) \div 2
        IN  IF lo >= hi THEN lo
            ELSE search[IF l2Outputs[mid].l2BlockNumber <= l2BlockNumber
                        THEN <<mid + 1, hi>> ELSE <<lo, mid>>]
  IN  search[<<1, Len(l2Outputs) + 1>>]

\* Binary search for the first output at or after a block; the code reverts
\* when the block has not been covered yet or there is no output.
getL2OutputIndexAfter(l2BlockNumber) ==
  LET bounds == 1 .. Len(l2Outputs) + 1
      search[range \in bounds \X bounds] ==
        LET lo  == range[1]
            hi  == range[2]
            mid == (lo + hi) \div 2
        IN  IF lo >= hi THEN lo
            ELSE search[IF l2Outputs[mid].l2BlockNumber < l2BlockNumber
                        THEN <<mid + 1, hi>> ELSE <<lo, mid>>]
  IN  search[<<1, Len(l2Outputs) + 1>>]

-----------------------------------------------------------------------------
(* Calls *)

NewOutput(outputRoot) ==
  [outputRoot |-> outputRoot, timestamp |-> now, l2BlockNumber |-> nextBlockNumber]

proposeL2Output(outputRoot) ==
  /\ Len(l2Outputs) < MaxOutputs
  /\ nextBlockNumber >= startingBlockNumber
  /\ computeL2Timestamp(nextBlockNumber) < now
  /\ l2Outputs' = Append(l2Outputs, NewOutput(outputRoot))
  /\ UNCHANGED <<now, startingBlockNumber, startingTimestamp>>

\* Bug: the age of the latest output is checked, not of the first one dropped.
NotFinalized_ChecksLatest(l2OutputIndex) ==
  now - l2Outputs[Len(l2Outputs)].timestamp < FINALIZATION_PERIOD_SECONDS

NotFinalized(l2OutputIndex) ==
  now - l2Outputs[l2OutputIndex].timestamp < FINALIZATION_PERIOD_SECONDS

\* Truncates the array in front of l2OutputIndex.
deleteL2Outputs(l2OutputIndex) ==
  /\ NotFinalized(l2OutputIndex)
  /\ l2Outputs' = SubSeq(l2Outputs, 1, l2OutputIndex - 1)
  /\ UNCHANGED <<now, startingBlockNumber, startingTimestamp>>

setStartingBlockNumber(blockNumber) ==
  /\ startingBlockNumber' = blockNumber
  /\ UNCHANGED <<now, l2Outputs, startingTimestamp>>

setStartingTimestamp(timestamp) ==
  /\ startingTimestamp' = timestamp
  /\ UNCHANGED <<now, l2Outputs, startingBlockNumber>>

\* The L1 chain moves on to a later block.
NextBlock ==
  /\ now < MaxTime
  /\ now' = now + 1
  /\ UNCHANGED oracleVars

OracleCall ==
  \/ \E root \in OutputRoots : proposeL2Output(root)
  \/ \E i \in 1 .. Len(l2Outputs) : deleteL2Outputs(i)
  \/ \E b \in StartingBlockNumbers : setStartingBlockNumber(b)
  \/ \E t \in StartingTimestamps : setStartingTimestamp(t)

OracleNext == OracleCall \/ NextBlock

OracleSpec == OracleInit /\ [][OracleNext]_<<now, oracleVars>>

-----------------------------------------------------------------------------
(* Properties *)

\* Outputs are recorded in the order of their proposal times, none from the
\* future: what lets deleteL2Outputs look only at the first output it drops.
TimestampsOrdered ==
  \A i \in 1 .. Len(l2Outputs) :
    /\ l2Outputs[i].timestamp <= now
    /\ \A j \in i .. Len(l2Outputs) :
         l2Outputs[i].timestamp <= l2Outputs[j].timestamp

\* Consecutive outputs are exactly one submission interval apart, also after
\* truncations and after the challenger moved the starting block, which is
\* what invariant-docs/L2OutputOracle.md asks of proposals ("The block number
\* of the output root proposals should monotonically increase") and what the
\* binary search of getL2OutputIndexAfter relies on.
BlockNumbersIncrease ==
  \A i \in 2 .. Len(l2Outputs) :
    l2Outputs[i].l2BlockNumber = l2Outputs[i - 1].l2BlockNumber + SUBMISSION_INTERVAL

\* The inductive invariant of the oracle.
OracleInv ==
  /\ OracleTypeOK
  /\ TimestampsOrdered
  /\ BlockNumbersIncrease

\* getL2OutputIndexAfter finds the first output that covers the block, for
\* every block it accepts.
IndexAfterIsFirst ==
  l2Outputs # <<>> =>
    \A b \in 0 .. latestBlockNumber :
      LET k == getL2OutputIndexAfter(b) IN
        /\ k \in 1 .. Len(l2Outputs)
        /\ l2Outputs[k].l2BlockNumber >= b
        /\ \A j \in 1 .. k - 1 : l2Outputs[j].l2BlockNumber < b

\* The outputs that have waited out the period.
FinalizedIndices ==
  {i \in 1 .. Len(l2Outputs) :
     now - l2Outputs[i].timestamp >= FINALIZATION_PERIOD_SECONDS}

finalizedLog == [i \in FinalizedIndices |-> l2Outputs[i]]

FinalizedLog == INSTANCE FinalizedOutputs
  WITH Interval <- SUBMISSION_INTERVAL, Period <- FINALIZATION_PERIOD_SECONDS,
       clock <- now, log <- finalizedLog

\* The oracle implements the append-only log of finalized outputs: whatever
\* the proposer and the challenger do, an output that has waited out the
\* period is never deleted or replaced by deleteL2Outputs/proposeL2Output.
FinalizedOutputsImplemented == FinalizedLog!Spec
=============================================================================
