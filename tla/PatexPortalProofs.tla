-------------------------- MODULE PatexPortalProofs --------------------------
(***************************************************************************)
(* Proofs about L2OutputOracle, PatexPortal and OptimisticBridge, for every *)
(* value of their constants: any outputs, withdrawals, calls made by        *)
(* targets, and bounds.                                                     *)
(*                                                                          *)
(* OracleInv is inductive.  TimestampsOrdered is what a delete needs: when  *)
(* the first output it drops is too young to be final, so are the others.   *)
(* BlockNumbersIncrease is what the log of finalized outputs promises.  The *)
(* lookup of the output after a block is a loop that narrows a range, and   *)
(* the first output at or above the block never leaves it.                  *)
(*                                                                          *)
(* CommitInv is inductive.  A finalized withdrawal cannot be proven again,  *)
(* since its output is in place with its root; and its output cannot be     *)
(* deleted, since the portal waits strictly longer than the period within   *)
(* which the oracle lets the challenger delete.  The second fact is the     *)
(* oracle's (FinalizedIndexKept).                                           *)
(*                                                                          *)
(* PayInv adds the payments: requests in the queue and proven withdrawals   *)
(* with ether match one to one.  With the queue's CoverInv, that its locked *)
(* balance covers what its finalized requests are owed, it shows that       *)
(* nothing stands in the way of a claim.                                    *)
(*                                                                          *)
(* Of the optimistic bridge: while the challenger keeps up, an output that  *)
(* commits to a withdrawal that was not sent never gets older than the      *)
(* period (BogusStayYoung), and a finalized withdrawal rests on one that    *)
(* did (FinalizedStayCommitted): so that one is not bogus.                  *)
(***************************************************************************)
EXTENDS OptimisticBridge, WithdrawalQueueProofs

-----------------------------------------------------------------------------
(* The oracle *)

\* The fields of a recorded output are natural numbers.
LEMMA OutputFields ==
  ASSUME OracleTypeOK, NEW i \in 1 .. Len(l2Outputs)
  PROVE  l2Outputs[i].timestamp \in Nat /\ l2Outputs[i].l2BlockNumber \in Nat
<1>1. l2Outputs[i] \in OutputProposal
  BY DEF OracleTypeOK
<1>2. \A o \in OutputProposal : o.timestamp \in Nat /\ o.l2BlockNumber \in Nat
  BY DEF OutputProposal
<1> QED BY <1>1, <1>2

\* A block number and a new output have the types of their fields.
LEMMA NextBlockNumberType ==
  ASSUME OracleTypeOK
  PROVE  latestBlockNumber \in Nat /\ nextBlockNumber \in Nat
<1>1. latestBlockNumber \in Nat
  <2>1. CASE l2Outputs = <<>>
    BY <2>1 DEF latestBlockNumber, OracleTypeOK
  <2>2. CASE l2Outputs # <<>>
    <3>1. Len(l2Outputs) \in 1 .. Len(l2Outputs)
      BY <2>2 DEF OracleTypeOK
    <3>2. l2Outputs[Len(l2Outputs)] \in OutputProposal
      BY <3>1 DEF OracleTypeOK
    <3> QED BY <2>2, <3>2 DEF latestBlockNumber, OutputProposal
  <2> QED BY <2>1, <2>2
<1> QED BY <1>1, OracleAssumption DEF nextBlockNumber

\* The invariant holds of a freshly initialized oracle.
LEMMA OracleInitInv == OracleInit => OracleInv
<1> SUFFICES ASSUME OracleInit PROVE OracleInv
  OBVIOUS
<1>1. l2Outputs = <<>> /\ Len(l2Outputs) = 0 /\ now = DeployTime
  BY DEF OracleInit
<1>2. OracleTypeOK
  BY <1>1, OracleAssumption DEF OracleInit, OracleTypeOK
<1> QED BY <1>1, <1>2 DEF OracleInv, TimestampsOrdered, BlockNumbersIncrease

\* Proposing keeps the invariant: the new output is dated now and follows the
\* latest one by an interval.
LEMMA ProposeInv ==
  ASSUME OracleInv, NEW root \in OutputRoots, proposeL2Output(root)
  PROVE  OracleInv'
<1> DEFINE new == NewOutput(root)
           n == Len(l2Outputs)
<1> USE DEF OracleInv
<1>1. l2Outputs \in Seq(OutputProposal) /\ n \in Nat /\ now \in Nat
  BY DEF OracleTypeOK
<1>2. new \in OutputProposal
  BY NextBlockNumberType, <1>1 DEF NewOutput, OutputProposal, OracleTypeOK
<1>3. /\ l2Outputs' = Append(l2Outputs, new)
      /\ now' = now /\ startingBlockNumber' = startingBlockNumber
      /\ startingTimestamp' = startingTimestamp
  BY DEF proposeL2Output
<1>4. /\ Len(l2Outputs') = n + 1
      /\ \A i \in 1 .. n : l2Outputs'[i] = l2Outputs[i]
      /\ l2Outputs'[n + 1] = new
  BY <1>1, <1>2, <1>3
<1>5. OracleTypeOK'
  BY <1>1, <1>2, <1>3 DEF OracleTypeOK
<1>6. TimestampsOrdered'
  <2>1. \A i \in 1 .. n : l2Outputs[i].timestamp \in Nat
    BY OutputFields
  <2>2. new.timestamp = now
    BY DEF NewOutput
  <2> HIDE DEF new
  <2> SUFFICES ASSUME NEW i \in 1 .. n + 1
               PROVE  /\ l2Outputs'[i].timestamp <= now
                      /\ \A j \in i .. n + 1 :
                           l2Outputs'[i].timestamp <= l2Outputs'[j].timestamp
    BY <1>3, <1>4 DEF TimestampsOrdered
  <2>3. CASE i \in 1 .. n
    <3>1. \A j \in i .. n + 1 : j = n + 1 \/ j \in i .. n
      BY <1>1
    <3> QED BY <1>1, <1>4, <2>1, <2>2, <2>3, <3>1 DEF TimestampsOrdered
  <2>4. CASE i = n + 1
    BY <1>1, <1>4, <2>2, <2>4
  <2> QED BY <1>1, <2>3, <2>4
<1>7. BlockNumbersIncrease'
  <2> SUFFICES ASSUME NEW i \in 2 .. n + 1
               PROVE  l2Outputs'[i].l2BlockNumber
                        = l2Outputs'[i - 1].l2BlockNumber + SUBMISSION_INTERVAL
    BY <1>4 DEF BlockNumbersIncrease
  <2>1. CASE i \in 2 .. n
    BY <1>1, <1>4, <2>1 DEF BlockNumbersIncrease
  <2>2. CASE i = n + 1
    <3>1. n \in 1 .. n /\ l2Outputs # <<>>
      BY <1>1, <2>2
    <3>2. new.l2BlockNumber = l2Outputs[n].l2BlockNumber + SUBMISSION_INTERVAL
      BY <3>1 DEF NewOutput, nextBlockNumber, latestBlockNumber
    <3> HIDE DEF new
    <3> QED BY <1>1, <1>4, <2>2, <3>1, <3>2
  <2> QED BY <1>1, <2>1, <2>2
<1> QED BY <1>5, <1>6, <1>7

\* Truncating keeps the invariant.
LEMMA DeleteInv ==
  ASSUME OracleInv, NEW k \in 1 .. Len(l2Outputs), deleteL2Outputs(k)
  PROVE  OracleInv'
<1> USE DEF OracleInv
<1>1. l2Outputs \in Seq(OutputProposal) /\ k \in Nat /\ Len(l2Outputs) \in Nat
  BY DEF OracleTypeOK
<1>2. l2Outputs' = SubSeq(l2Outputs, 1, k - 1) /\ now' = now
      /\ startingBlockNumber' = startingBlockNumber /\ startingTimestamp' = startingTimestamp
  BY DEF deleteL2Outputs
<1>3. /\ l2Outputs' \in Seq(OutputProposal)
      /\ Len(l2Outputs') = k - 1
      /\ \A i \in 1 .. k - 1 : l2Outputs'[i] = l2Outputs[i]
  BY <1>1, <1>2
<1>4. OracleTypeOK'
  BY <1>2, <1>3 DEF OracleTypeOK
<1>5. TimestampsOrdered'
  <2>1. \A i \in 1 .. k - 1 : i \in 1 .. Len(l2Outputs)
                              /\ \A j \in i .. k - 1 : j \in 1 .. k - 1 /\ j \in i .. Len(l2Outputs)
    BY <1>1
  <2> QED BY <1>2, <1>3, <2>1 DEF TimestampsOrdered
<1>6. BlockNumbersIncrease'
  <2>1. \A i \in 2 .. k - 1 : i \in 2 .. Len(l2Outputs) /\ i \in 1 .. k - 1 /\ i - 1 \in 1 .. k - 1
    BY <1>1
  <2> QED BY <1>3, <2>1 DEF BlockNumbersIncrease
<1> QED BY <1>4, <1>5, <1>6

\* The other steps do not touch the outputs, and time only moves forward.
LEMMA SetterInv ==
  ASSUME OracleInv,
         \/ \E b \in StartingBlockNumbers : setStartingBlockNumber(b)
         \/ \E t \in StartingTimestamps : setStartingTimestamp(t)
         \/ NextBlock
         \/ UNCHANGED <<now, oracleVars>>
  PROVE  OracleInv'
<1>1. l2Outputs' = l2Outputs /\ now' \in Nat /\ now' >= now
      /\ startingBlockNumber' \in Nat /\ startingTimestamp' \in Nat
  BY OracleAssumption DEF OracleInv, OracleTypeOK, setStartingBlockNumber,
     setStartingTimestamp, NextBlock, oracleVars
<1>2. OracleTypeOK'
  BY <1>1, OracleAssumption DEF OracleInv, OracleTypeOK
<1>3. TimestampsOrdered'
  <2>1. \A i \in 1 .. Len(l2Outputs) : l2Outputs[i].timestamp \in Nat
    BY OutputFields DEF OracleInv
  <2> QED BY <1>1, <2>1 DEF OracleInv, OracleTypeOK, TimestampsOrdered
<1>4. BlockNumbersIncrease'
  BY <1>1 DEF OracleInv, BlockNumbersIncrease
<1> QED BY <1>2, <1>3, <1>4 DEF OracleInv

\* Every step keeps the invariant.
LEMMA OracleStepInv ==
  ASSUME OracleInv, [OracleNext]_<<now, oracleVars>>
  PROVE  OracleInv'
BY ProposeInv, DeleteInv, SetterInv DEF OracleNext, OracleCall

\* The shapes of the state, the order of the timestamps and the spacing of the
\* outputs hold in every reachable state.
THEOREM OracleInvariant == OracleSpec => []OracleInv
<1>1. OracleInit => OracleInv
  BY OracleInitInv
<1>2. OracleInv /\ [OracleNext]_<<now, oracleVars>> => OracleInv'
  BY OracleStepInv
<1> QED BY <1>1, <1>2, PTL DEF OracleSpec

-----------------------------------------------------------------------------
(* The oracle implements the log of finalized outputs *)

\* A finalized index stays finalized with the same output: the output a delete
\* is asked to drop first is not final, so no later one is, and an earlier one
\* is kept; nothing else removes outputs.
LEMMA FinalizedIndexKept ==
  ASSUME OracleInv, [OracleNext]_<<now, oracleVars>>, NEW i \in FinalizedIndices
  PROVE  i \in FinalizedIndices' /\ l2Outputs'[i] = l2Outputs[i]
<1> USE DEF OracleInv
<1>1. /\ l2Outputs \in Seq(OutputProposal) /\ Len(l2Outputs) \in Nat /\ now \in Nat
      /\ i \in 1 .. Len(l2Outputs) /\ now - l2Outputs[i].timestamp >= FINALIZATION_PERIOD_SECONDS
      /\ l2Outputs[i].timestamp \in Nat
  BY OutputFields DEF OracleTypeOK, FinalizedIndices
<1> SUFFICES now' \in Nat /\ now' >= now /\ i \in 1 .. Len(l2Outputs')
             /\ l2Outputs'[i] = l2Outputs[i]
  BY <1>1, OracleAssumption DEF FinalizedIndices
<1>2. CASE \E root \in OutputRoots : proposeL2Output(root)
  <2>1. PICK root \in OutputRoots : proposeL2Output(root)
    BY <1>2
  <2> QED BY <1>1, <2>1 DEF proposeL2Output
<1>3. CASE \E k \in 1 .. Len(l2Outputs) : deleteL2Outputs(k)
  <2>1. PICK k \in 1 .. Len(l2Outputs) : deleteL2Outputs(k)
    BY <1>3
  <2>2. l2Outputs[k].timestamp \in Nat
    BY OutputFields
  <2>3. i < k
    <3> SUFFICES ASSUME i >= k PROVE FALSE
      BY <1>1
    <3>1. l2Outputs[k].timestamp <= l2Outputs[i].timestamp
      BY <1>1 DEF TimestampsOrdered
    <3>2. now - l2Outputs[k].timestamp < FINALIZATION_PERIOD_SECONDS
      BY <2>1 DEF deleteL2Outputs, NotFinalized
    <3> QED BY <1>1, <2>2, <3>1, <3>2, OracleAssumption
  <2>4. l2Outputs' = SubSeq(l2Outputs, 1, k - 1) /\ now' = now
    BY <2>1 DEF deleteL2Outputs
  <2> QED BY <1>1, <2>3, <2>4
<1>4. CASE l2Outputs' = l2Outputs /\ now' \in Nat /\ now' >= now
  BY <1>1, <1>4
<1>5. \/ \E root \in OutputRoots : proposeL2Output(root)
      \/ \E k \in 1 .. Len(l2Outputs) : deleteL2Outputs(k)
      \/ l2Outputs' = l2Outputs /\ now' \in Nat /\ now' >= now
  BY <1>1 DEF OracleNext, OracleCall, NextBlock, setStartingBlockNumber,
     setStartingTimestamp, oracleVars
<1> QED BY <1>2, <1>3, <1>4, <1>5

\* The finalized outputs form a well-formed log: those before a finalized one
\* are older, hence finalized too.
LEMMA FinalizedLogWellFormed ==
  ASSUME OracleInv
  PROVE  FinalizedLog!WellFormed(finalizedLog, now)
<1> USE DEF OracleInv
<1>1. /\ l2Outputs \in Seq(OutputProposal) /\ Len(l2Outputs) \in Nat /\ now \in Nat
      /\ \A i \in 1 .. Len(l2Outputs) : l2Outputs[i].timestamp \in Nat
  BY OutputFields DEF OracleTypeOK
<1>2. DOMAIN finalizedLog = FinalizedIndices
      /\ \A i \in FinalizedIndices : finalizedLog[i] = l2Outputs[i]
  BY DEF finalizedLog
<1> SUFFICES ASSUME NEW i \in FinalizedIndices
             PROVE  /\ i \in Nat \ {0}
                    /\ \A j \in 1 .. i : j \in FinalizedIndices
                    /\ now - finalizedLog[i].timestamp >= FINALIZATION_PERIOD_SECONDS
                    /\ i > 1 => finalizedLog[i].l2BlockNumber
                                  = finalizedLog[i - 1].l2BlockNumber + SUBMISSION_INTERVAL
  BY <1>2 DEF FinalizedLog!WellFormed
<1>3. i \in 1 .. Len(l2Outputs) /\ i \in Nat \ {0}
      /\ now - l2Outputs[i].timestamp >= FINALIZATION_PERIOD_SECONDS
  BY <1>1 DEF FinalizedIndices
<1>4. ASSUME NEW j \in 1 .. i PROVE j \in FinalizedIndices
  <2>1. j \in 1 .. Len(l2Outputs) /\ i \in j .. Len(l2Outputs)
    BY <1>1, <1>3
  <2>2. l2Outputs[j].timestamp <= l2Outputs[i].timestamp
    BY <2>1 DEF TimestampsOrdered
  <2> QED BY <1>1, <1>3, <2>1, <2>2, OracleAssumption DEF FinalizedIndices
<1>5. ASSUME i > 1
      PROVE  finalizedLog[i].l2BlockNumber
               = finalizedLog[i - 1].l2BlockNumber + SUBMISSION_INTERVAL
  <2>1. i \in 2 .. Len(l2Outputs) /\ i - 1 \in 1 .. i
    BY <1>1, <1>3, <1>5
  <2>2. i - 1 \in FinalizedIndices
    BY <1>4, <2>1
  <2> QED BY <1>2, <2>1, <2>2 DEF BlockNumbersIncrease
<1> QED BY <1>2, <1>3, <1>4, <1>5

\* Whatever the proposer and the challenger do, outputs that have waited out
\* the finalization period are never deleted or rewritten.
THEOREM OracleImplementsFinalizedLog == OracleSpec => FinalizedOutputsImplemented
<1>1. OracleInit => FinalizedLog!Init
  BY OracleAssumption DEF OracleInit, FinalizedLog!Init, finalizedLog, FinalizedIndices
<1>2. OracleInv /\ [OracleNext]_<<now, oracleVars>> => [FinalizedLog!Extend]_FinalizedLog!logVars
  <2> SUFFICES ASSUME OracleInv, [OracleNext]_<<now, oracleVars>>
               PROVE  FinalizedLog!Extend
    OBVIOUS
  <2>1. now' >= now
    BY DEF OracleInv, OracleTypeOK, OracleNext, OracleCall, NextBlock, proposeL2Output,
       deleteL2Outputs, setStartingBlockNumber, setStartingTimestamp, oracleVars
  <2>2. OracleInv'
    BY OracleStepInv
  <2>3. FinalizedLog!WellFormed(finalizedLog, now)'
    BY <2>2, FinalizedLogWellFormed, PTL
  <2>4. \A i \in DOMAIN finalizedLog :
          i \in DOMAIN finalizedLog' /\ finalizedLog'[i] = finalizedLog[i]
    BY FinalizedIndexKept DEF finalizedLog
  <2> QED BY <2>1, <2>3, <2>4 DEF FinalizedLog!Extend
<1>3. OracleInit => OracleInv
  BY OracleInitInv
<1>4. OracleInv /\ [OracleNext]_<<now, oracleVars>> => OracleInv'
  BY OracleStepInv
<1> QED BY <1>1, <1>2, <1>3, <1>4, PTL DEF OracleSpec, FinalizedOutputsImplemented, FinalizedLog!Spec

-----------------------------------------------------------------------------
(* The search for the output that covers a block *)

\* Block numbers follow the indices, however far apart these are.
LEMMA BlockNumbersOrdered ==
  ASSUME OracleInv
  PROVE  \A i, j \in 1 .. Len(l2Outputs) :
           i <= j => l2Outputs[i].l2BlockNumber <= l2Outputs[j].l2BlockNumber
<1> DEFINE n == Len(l2Outputs)
           B(i) == l2Outputs[i].l2BlockNumber
<1> SUFFICES ASSUME NEW i \in 1 .. n, NEW z \in 1 .. n, i <= z, ~(B(i) <= B(z)) PROVE FALSE
  OBVIOUS
<1> DEFINE Wrong == {j \in i .. n : ~(B(i) <= B(j))}
<1>1. n \in Nat /\ SUBMISSION_INTERVAL \in Nat /\ \A j \in 1 .. n : B(j) \in Nat
  BY OutputFields, OracleAssumption DEF OracleInv, OracleTypeOK
<1>2. \A j \in 2 .. n : B(j) = B(j - 1) + SUBMISSION_INTERVAL
  BY DEF OracleInv, BlockNumbersIncrease
<1> HIDE DEF B
<1>3. Wrong \subseteq Nat /\ Wrong # {}
  <2>1. z \in Wrong
    BY <1>1
  <2> QED BY <1>1, <2>1
<1>4. PICK j \in Wrong : \A k \in Wrong : j <= k
  <2> HIDE DEF Wrong
  <2> QED BY <1>3, LeastNatural
<1>5. j \in i .. n /\ ~(B(i) <= B(j)) /\ j # i
  BY <1>1
<1>6. j - 1 \in i .. n /\ j - 1 \in 1 .. n /\ j \in 2 .. n
  BY <1>1, <1>5
<1>7. j - 1 \notin Wrong
  <2> HIDE DEF Wrong
  <2> QED BY <1>4, <1>6
<1>8. B(i) <= B(j - 1)
  BY <1>6, <1>7
<1> HIDE DEF Wrong
<1> QED BY <1>1, <1>2, <1>5, <1>6, <1>8

\* The loop of the binary search, over the ranges of the indices 1 to n + 1.
Bounds == 1 .. Len(l2Outputs) + 1
IndexRanges == Bounds \X Bounds
Met == {range \in IndexRanges : range[1] >= range[2]}
LowEnd == [range \in IndexRanges |-> range[1]]
HalfAfter(b) ==
  [range \in IndexRanges |->
     LET mid == (range[1] + range[2]) \div 2
     IN  IF l2Outputs[mid].l2BlockNumber < b THEN <<mid + 1, range[2]>> ELSE <<range[1], mid>>]
Breadth == [range \in IndexRanges |-> IF range[1] <= range[2] THEN range[2] - range[1] ELSE 0]

\* What the model's search solves.
IsSearchAfter(f, b) ==
  f = [range \in (1 .. Len(l2Outputs) + 1) \X (1 .. Len(l2Outputs) + 1) |->
         IF range[1] >= range[2] THEN range[1]
         ELSE f[LET mid == (range[1] + range[2]) \div 2
                IN  IF l2Outputs[mid].l2BlockNumber < b
                    THEN <<mid + 1, range[2]>> ELSE <<range[1], mid>>]]

\* The model's search is a solution, which is a loop.
LEMMA SearchAfterIs ==
  ASSUME NEW b
  PROVE  /\ getL2OutputIndexAfter(b) = (CHOOSE f : IsSearchAfter(f, b))[<<1, Len(l2Outputs) + 1>>]
         /\ \A f : IsSearchAfter(f, b) <=> IsLoop(f, IndexRanges, Met, LowEnd, HalfAfter(b))
<1>1. getL2OutputIndexAfter(b) = (CHOOSE f : IsSearchAfter(f, b))[<<1, Len(l2Outputs) + 1>>]
  BY Zenon DEF getL2OutputIndexAfter, IsSearchAfter
<1>2. ASSUME NEW f
      PROVE  IsSearchAfter(f, b) <=> IsLoop(f, IndexRanges, Met, LowEnd, HalfAfter(b))
  BY DEF IsSearchAfter, IsLoop, IndexRanges, Bounds, Met, LowEnd, HalfAfter
<1> QED BY <1>1, <1>2

\* The midpoint of a range of two or more is not its last: the search narrows its
\* range.
LEMMA SearchAfterNarrows ==
  ASSUME NEW b, Len(l2Outputs) \in Nat
  PROVE  /\ \A lo, hi \in Bounds : lo < hi => (lo + hi) \div 2 \in lo .. hi - 1
         /\ Narrows(IndexRanges, Met, HalfAfter(b), Breadth, Len(l2Outputs))
<1>1. \A lo, hi \in Int : lo < hi => (lo + hi) \div 2 \in lo .. hi - 1
  OBVIOUS
<1>2. \A lo, hi \in Bounds : lo < hi => (lo + hi) \div 2 \in lo .. hi - 1
  BY <1>1 DEF Bounds
<1>3. \A r \in IndexRanges : r[1] \in Bounds /\ r[2] \in Bounds /\ Breadth[r] \in 0 .. Len(l2Outputs)
  BY DEF IndexRanges, Bounds, Breadth
<1>4. ASSUME NEW r \in IndexRanges \ Met
      PROVE  HalfAfter(b)[r] \in IndexRanges /\ Breadth[HalfAfter(b)[r]] < Breadth[r]
  <2> DEFINE mid == (r[1] + r[2]) \div 2
  <2>1. r[1] < r[2] /\ r[1] \in Bounds /\ r[2] \in Bounds
    BY <1>3 DEF Met, Bounds
  <2>2. mid \in r[1] .. r[2] - 1
    BY <1>2, <2>1
  <2>3. HalfAfter(b)[r] = <<mid + 1, r[2]>> \/ HalfAfter(b)[r] = <<r[1], mid>>
    BY DEF HalfAfter
  <2> HIDE DEF mid
  <2>4. mid \in Bounds /\ mid + 1 \in Bounds /\ mid \in Int /\ r[1] \in Int /\ r[2] \in Int
    BY <2>1, <2>2 DEF Bounds
  <2>5. \A x, y \in Bounds : <<x, y>> \in IndexRanges
          /\ Breadth[<<x, y>>] = IF x <= y THEN y - x ELSE 0
    BY DEF IndexRanges, Breadth
  <2>6. Breadth[r] = r[2] - r[1]
    BY <2>1 DEF Breadth, Bounds
  <2>7. Breadth[<<mid + 1, r[2]>>] = r[2] - (mid + 1) /\ Breadth[<<r[1], mid>>] = mid - r[1]
    BY <2>1, <2>2, <2>4, <2>5
  <2>8. <<mid + 1, r[2]>> \in IndexRanges /\ <<r[1], mid>> \in IndexRanges
    BY <2>1, <2>4, <2>5
  <2>9. r[2] - (mid + 1) < r[2] - r[1] /\ mid - r[1] < r[2] - r[1]
    BY <2>2, <2>4
  <2>10. CASE HalfAfter(b)[r] = <<mid + 1, r[2]>>
    BY <2>6, <2>7, <2>8, <2>9, <2>10
  <2>11. CASE HalfAfter(b)[r] = <<r[1], mid>>
    BY <2>6, <2>7, <2>8, <2>9, <2>11
  <2> QED BY <2>3, <2>10, <2>11
<1> QED BY <1>2, <1>3, <1>4 DEF Narrows

\* In ordered outputs the search finds the first one that covers the block.
LEMMA SearchAfterFinds ==
  ASSUME OracleInv, NEW b \in Nat
  PROVE  LET k == getL2OutputIndexAfter(b) IN
           /\ k \in Bounds
           /\ k <= Len(l2Outputs) => l2Outputs[k].l2BlockNumber >= b
           /\ \A j \in 1 .. k - 1 : l2Outputs[j].l2BlockNumber < b
<1> DEFINE n == Len(l2Outputs)
           f == CHOOSE g : IsSearchAfter(g, b)
           next == HalfAfter(b)
           B(k) == l2Outputs[k].l2BlockNumber
           \* Before lo all are too early, from hi on none is.
           Brackets(lo, hi) == /\ \A j \in 1 .. lo - 1 : B(j) < b
                               /\ \A j \in hi .. n : B(j) >= b
           First(k) == k \in Bounds /\ Brackets(k, k)
           Good == {p \in IndexRanges \X Int :
                      p[1][1] <= p[1][2] /\ Brackets(p[1][1], p[1][2]) => First(p[2])}
<1>1. /\ n \in Nat
      /\ \A i \in 1 .. n : B(i) \in Nat
      /\ \A i, j \in 1 .. n : i <= j => B(i) <= B(j)
      /\ \A k \in Bounds : k \in Int
  BY OutputFields, BlockNumbersOrdered DEF OracleInv, OracleTypeOK, Bounds
<1>2. Narrows(IndexRanges, Met, next, Breadth, n)
  BY <1>1, SearchAfterNarrows
<1>3. IsSearchAfter(f, b)
  <2>1. \E g : IsSearchAfter(g, b)
    BY <1>1, <1>2, LoopExists, SearchAfterIs
  <2> QED BY <2>1, Zenon
<1>4. getL2OutputIndexAfter(b) = f[<<1, n + 1>>]
  BY SearchAfterIs, Zenon
<1> HIDE DEF f, B
<1>5. IsLoop(f, IndexRanges, Met, LowEnd, next)
  BY <1>3, SearchAfterIs
<1>6. \A lo, hi \in Bounds, v \in Int :
        <<<<lo, hi>>, v>> \in Good <=> (lo <= hi /\ Brackets(lo, hi) => First(v))
  <2> HIDE DEF Brackets, First
  <2> QED BY DEF IndexRanges
<1>7. \A r \in IndexRanges : r = <<r[1], r[2]>> /\ r[1] \in Bounds /\ r[2] \in Bounds
  BY DEF IndexRanges
<1>8. ASSUME NEW r \in IndexRanges \cap Met PROVE <<r, LowEnd[r]>> \in Good
  <2>1. r[2] <= r[1] /\ LowEnd[r] = r[1] /\ r[1] \in Int /\ r[2] \in Int
    BY <1>1, <1>7 DEF Met, LowEnd
  <2>2. r[1] <= r[2] /\ Brackets(r[1], r[2]) => First(r[1])
    <3>1. r[1] <= r[2] => r[1] = r[2]
      BY <2>1
    <3> HIDE DEF Brackets
    <3> QED BY <1>7, <3>1
  <2> HIDE DEF Good, First, Brackets
  <2> QED BY <1>6, <1>7, <2>1, <2>2
<1>9. ASSUME NEW r \in IndexRanges \ Met, NEW v, <<next[r], v>> \in Good PROVE <<r, v>> \in Good
  <2> DEFINE lo == r[1]
             hi == r[2]
             mid == (lo + hi) \div 2
  <2>1. lo \in Bounds /\ hi \in Bounds /\ lo < hi /\ r = <<lo, hi>> /\ v \in Int
    BY <1>1, <1>7, <1>9 DEF Met
  <2>2. mid \in lo .. hi - 1
    BY <1>1, <2>1, SearchAfterNarrows
  <2>3. next[r] = IF B(mid) < b THEN <<mid + 1, hi>> ELSE <<lo, mid>>
    BY DEF HalfAfter, B
  <2> HIDE DEF Good, next, lo, hi, mid, First
  <2>4. /\ mid \in Bounds /\ mid + 1 \in Bounds /\ mid \in Int /\ mid \in 1 .. n
        /\ lo \in Int /\ hi \in Int /\ B(mid) \in Nat
    BY <1>1, <2>1, <2>2 DEF Bounds
  <2>5. ASSUME Brackets(lo, hi) PROVE First(v)
    <3>1. CASE B(mid) < b
      <4>1. \A j \in 1 .. mid : B(j) < b
        <5> TAKE j \in 1 .. mid
        <5>1. j \in 1 .. n /\ B(j) <= B(mid) /\ B(j) \in Nat
          BY <1>1, <2>4
        <5> QED BY <2>4, <3>1, <5>1
      <4>2. Brackets(mid + 1, hi) /\ mid + 1 <= hi
        BY <2>2, <2>4, <2>5, <4>1
      <4> HIDE DEF Brackets
      <4> QED BY <1>6, <1>9, <2>1, <2>3, <2>4, <3>1, <4>2
    <3>2. CASE ~(B(mid) < b)
      <4>1. \A j \in mid .. n : B(j) >= b
        <5> TAKE j \in mid .. n
        <5>1. j \in 1 .. n /\ B(mid) <= B(j) /\ B(j) \in Nat
          BY <1>1, <2>4
        <5> QED BY <2>4, <3>2, <5>1
      <4>2. Brackets(lo, mid) /\ lo <= mid
        BY <2>2, <2>4, <2>5, <4>1
      <4> HIDE DEF Brackets
      <4> QED BY <1>6, <1>9, <2>1, <2>3, <2>4, <3>2, <4>2
    <3> QED BY <3>1, <3>2
  <2> HIDE DEF Brackets
  <2> QED BY <1>6, <2>1, <2>5
<1>10. \A r \in IndexRanges : <<r, f[r]>> \in Good
  <2>1. n \in Nat
    BY <1>1
  <2> HIDE DEF n, next, Good
  <2> QED BY <1>2, <1>5, <1>8, <1>9, <2>1, LoopResult
<1>11. 1 \in Bounds /\ n + 1 \in Bounds /\ 1 <= n + 1 /\ Brackets(1, n + 1)
  BY <1>1 DEF Bounds
<1>12. First(f[<<1, n + 1>>])
  <2>1. <<1, n + 1>> \in IndexRanges
    BY <1>11 DEF IndexRanges
  <2>2. <<<<1, n + 1>>, f[<<1, n + 1>>]>> \in Good
    BY <1>10, <2>1
  <2>3. f[<<1, n + 1>>] \in Int
    BY <2>2
  <2> HIDE DEF Good, First, Brackets
  <2> QED BY <1>6, <1>11, <2>2, <2>3
<1>13. f[<<1, n + 1>>] <= n => B(f[<<1, n + 1>>]) >= b
  BY <1>1, <1>12 DEF Bounds
<1> QED BY <1>4, <1>12, <1>13 DEF B

\* getL2OutputIndexAfter finds the first output that covers a block, after any
\* proposals and deletions.
THEOREM IndexAfterFindsFirst == OracleSpec => []IndexAfterIsFirst
<1>1. OracleInit => OracleInv
  BY OracleInitInv
<1>2. OracleInv /\ [OracleNext]_<<now, oracleVars>> => OracleInv'
  BY OracleStepInv
<1>3. OracleInv => IndexAfterIsFirst
  <2> SUFFICES ASSUME OracleInv, l2Outputs # <<>>, NEW b \in 0 .. latestBlockNumber
               PROVE  LET k == getL2OutputIndexAfter(b) IN
                        /\ k \in 1 .. Len(l2Outputs)
                        /\ l2Outputs[k].l2BlockNumber >= b
                        /\ \A j \in 1 .. k - 1 : l2Outputs[j].l2BlockNumber < b
    BY DEF IndexAfterIsFirst
  <2> DEFINE n == Len(l2Outputs)
             k == getL2OutputIndexAfter(b)
  <2>1. /\ n \in Nat \ {0} /\ latestBlockNumber = l2Outputs[n].l2BlockNumber
        /\ latestBlockNumber \in Nat /\ b \in Nat /\ b <= latestBlockNumber
    BY NextBlockNumberType DEF OracleInv, OracleTypeOK, latestBlockNumber
  <2>2. /\ k \in Bounds
        /\ k <= n => l2Outputs[k].l2BlockNumber >= b
        /\ \A j \in 1 .. k - 1 : l2Outputs[j].l2BlockNumber < b
    BY <2>1, SearchAfterFinds
  <2> HIDE DEF k
  <2>3. k # n + 1
    <3> SUFFICES ASSUME k = n + 1 PROVE FALSE
      OBVIOUS
    <3>1. n \in 1 .. k - 1
      BY <2>1
    <3>2. l2Outputs[n].l2BlockNumber < b
      BY <2>2, <3>1
    <3> QED BY <2>1, <3>2
  <2>4. k \in 1 .. n
    BY <2>1, <2>2, <2>3 DEF Bounds
  <2> QED BY <2>1, <2>2, <2>4 DEF k
<1> QED BY <1>1, <1>2, <1>3, PTL DEF OracleSpec

-----------------------------------------------------------------------------
(* The portal *)

\* What the portal remembers of a proof is an output that commits to it.
ProvenCommitted == \A w \in Proven : w \in provenWithdrawals[w].outputRoot

\* The shapes of the portal's own records.
RecordsOK ==
  /\ provenWithdrawals \in [Withdrawals -> ProvenWithdrawal]
  /\ finalizedWithdrawals \subseteq Withdrawals
  /\ frame \in Withdrawals \cup {NoWithdrawal}
  /\ callsTo \in [Withdrawals -> Nat]

CommitInv ==
  /\ OracleInv
  /\ RecordsOK
  /\ ProvenCommitted
  /\ FinalizedStayCommitted
  /\ CalledOnce
  /\ SenderMatchesFrame

\* The initial states satisfy the invariant.
LEMMA CommitInit == PortalInit => CommitInv
<1> SUFFICES ASSUME PortalInit PROVE CommitInv
  OBVIOUS
<1>1. OracleInv
  BY OracleInitInv DEF PortalInit
<1>2. RecordsOK
  BY DEF PortalInit, RecordsOK, ProvenWithdrawal, NotProven
<1>3. Proven = {}
  BY DEF PortalInit, Proven, NotProven
<1>4. ProvenCommitted /\ FinalizedStayCommitted
  BY <1>3 DEF PortalInit, ProvenCommitted, FinalizedStayCommitted
<1>5. CalledOnce /\ SenderMatchesFrame
  BY DEF PortalInit, CalledOnce, SenderMatchesFrame
<1> QED BY <1>1, <1>2, <1>4, <1>5 DEF CommitInv

\* For the oracle, a step of the portal is a step of its own or a stutter.
LEMMA OracleStep ==
  ASSUME [PortalNext]_allVars
  PROVE  [OracleNext]_<<now, oracleVars>>
<1>1. CASE PortalCall \/ ManagerCall
  BY <1>1 DEF PortalCall, ManagerCall, setPaused, proveWithdrawalTransaction, enterTarget,
     leaveTarget, failTarget, depositTransaction, donateETH
<1>2. CASE OracleCall \/ NextBlock
  BY <1>2 DEF OracleNext
<1>3. CASE UNCHANGED allVars
  BY <1>3 DEF allVars
<1> QED BY <1>1, <1>2, <1>3 DEF PortalNext, Call, EndOfBlock

\* The output that justified a finalization survives every step.
LEMMA OutputKept ==
  ASSUME CommitInv, [OracleNext]_<<now, oracleVars>>, NEW w \in finalizedWithdrawals
  PROVE  LET i == provenWithdrawals[w].l2OutputIndex IN
         /\ i \in 1 .. Len(l2Outputs')
         /\ l2Outputs'[i] = l2Outputs[i]
         /\ now' > provenWithdrawals[w].timestamp + FINALIZATION_PERIOD_SECONDS
         /\ now' > l2Outputs[i].timestamp + FINALIZATION_PERIOD_SECONDS
<1> DEFINE i == provenWithdrawals[w].l2OutputIndex
<1>1. /\ i \in 1 .. Len(l2Outputs) /\ now \in Nat
      /\ now > provenWithdrawals[w].timestamp + FINALIZATION_PERIOD_SECONDS
      /\ now > l2Outputs[i].timestamp + FINALIZATION_PERIOD_SECONDS
  BY DEF CommitInv, FinalizedStayCommitted, OutputExists, OracleInv, OracleTypeOK
<1>2. l2Outputs[i].timestamp \in Nat /\ provenWithdrawals[w].timestamp \in Nat
  <2>1. provenWithdrawals[w] \in ProvenWithdrawal
    BY DEF CommitInv, RecordsOK
  <2> QED BY <1>1, <2>1, OutputFields DEF CommitInv, OracleInv, ProvenWithdrawal
<1>3. now' \in Nat /\ now' >= now
  BY <1>1 DEF OracleNext, OracleCall, NextBlock, proposeL2Output, deleteL2Outputs,
     setStartingBlockNumber, setStartingTimestamp
<1> HIDE DEF i
<1>4. i \in FinalizedIndices
  BY <1>1, <1>2, OracleAssumption DEF FinalizedIndices
<1>5. i \in FinalizedIndices' /\ l2Outputs'[i] = l2Outputs[i]
  BY <1>4, FinalizedIndexKept DEF CommitInv
<1>6. i \in 1 .. Len(l2Outputs')
  BY <1>5 DEF FinalizedIndices
<1> QED BY <1>1, <1>2, <1>3, <1>5, <1>6, OracleAssumption DEF i

\* A step that finalizes nothing and re-proves nothing finalized keeps what
\* justified the finalizations.
LEMMA JustificationKept ==
  ASSUME CommitInv, [OracleNext]_<<now, oracleVars>>,
         NEW w \in finalizedWithdrawals, provenWithdrawals'[w] = provenWithdrawals[w]
  PROVE  LET proven == provenWithdrawals'[w] IN
         /\ proven.timestamp # 0
         /\ proven.l2OutputIndex \in 1 .. Len(l2Outputs')
         /\ l2Outputs'[proven.l2OutputIndex].outputRoot = proven.outputRoot
         /\ w \in proven.outputRoot
         /\ now' > proven.timestamp + FINALIZATION_PERIOD_SECONDS
         /\ now' > l2Outputs'[proven.l2OutputIndex].timestamp + FINALIZATION_PERIOD_SECONDS
<1>1. /\ provenWithdrawals[w].timestamp # 0
      /\ l2Outputs[provenWithdrawals[w].l2OutputIndex].outputRoot = provenWithdrawals[w].outputRoot
      /\ w \in provenWithdrawals[w].outputRoot
  BY DEF CommitInv, FinalizedStayCommitted, Proven
<1> QED BY <1>1, OutputKept

\* Proving keeps the invariant: it never touches a finalized withdrawal.
LEMMA ProveCommit ==
  ASSUME CommitInv, NEW w \in Withdrawals, NEW k \in 1 .. Len(l2Outputs),
         proveWithdrawalTransaction(w, k)
  PROVE  CommitInv'
<1> DEFINE new == [outputRoot    |-> l2Outputs[k].outputRoot,
                   timestamp     |-> now,
                   l2OutputIndex |-> k,
                   requestId     |-> IF NeedsRequest(w) THEN lastRequestId + 1
                                     ELSE provenWithdrawals[w].requestId]
<1>1. /\ OracleInv /\ RecordsOK
      /\ UNCHANGED <<now, oracleVars, finalizedWithdrawals, l2Sender, frame, callsTo>>
      /\ provenWithdrawals' = [provenWithdrawals EXCEPT ![w] = new]
      /\ w \in l2Outputs[k].outputRoot
      /\ MayProve(w)
  BY DEF CommitInv, proveWithdrawalTransaction
<1>2. OracleInv'
  BY <1>1, OracleStepInv
<1>3. now \in Nat /\ now # 0
  BY <1>1, OracleAssumption DEF OracleInv, OracleTypeOK
<1>4. new \in ProvenWithdrawal
  <2>1. l2Outputs[k] \in OutputProposal /\ Len(l2Outputs) \in Nat
    BY <1>1 DEF OracleInv, OracleTypeOK
  <2>2. l2Outputs[k].outputRoot \in OutputRoots /\ k \in Nat
    BY <2>1 DEF OutputProposal
  <2>3. provenWithdrawals[w] \in ProvenWithdrawal
    BY <1>1 DEF RecordsOK
  <2>4. provenWithdrawals[w].requestId \in Nat
    BY <2>3 DEF ProvenWithdrawal
  <2>5. (IF NeedsRequest(w) THEN lastRequestId + 1 ELSE provenWithdrawals[w].requestId) \in Nat
    <3>1. CASE NeedsRequest(w)
      <4>1. lastRequestId \in Nat
        BY <1>1 DEF lastRequestId
      <4> QED BY <3>1, <4>1
    <3>2. CASE ~NeedsRequest(w)
      BY <2>4, <3>2
    <3> QED BY <3>1, <3>2
  <2> QED BY <1>3, <2>2, <2>5 DEF ProvenWithdrawal
<1>5. w \in new.outputRoot /\ new.timestamp # 0
  BY <1>1, <1>3
<1> HIDE DEF new
<1>6. RecordsOK'
  BY <1>1, <1>4 DEF RecordsOK
<1>7. ProvenCommitted'
  BY <1>1, <1>5 DEF CommitInv, RecordsOK, ProvenCommitted, Proven
<1>8. w \notin finalizedWithdrawals
  BY <1>1 DEF CommitInv, FinalizedStayCommitted, Proven, MayProve
<1>9. FinalizedStayCommitted'
  <2> SUFFICES ASSUME NEW v \in finalizedWithdrawals
               PROVE  LET proven == provenWithdrawals'[v] IN
                      /\ v \in Proven'
                      /\ proven.l2OutputIndex \in 1 .. Len(l2Outputs')
                      /\ l2Outputs'[proven.l2OutputIndex].outputRoot = proven.outputRoot
                      /\ v \in proven.outputRoot
                      /\ now' > proven.timestamp + FINALIZATION_PERIOD_SECONDS
                      /\ now' > l2Outputs'[proven.l2OutputIndex].timestamp
                                  + FINALIZATION_PERIOD_SECONDS
    BY <1>1 DEF FinalizedStayCommitted, OutputExists
  <2>1. provenWithdrawals'[v] = provenWithdrawals[v] /\ v \in Withdrawals
    BY <1>1, <1>8 DEF RecordsOK
  <2>2. [OracleNext]_<<now, oracleVars>>
    BY <1>1
  <2> QED BY <2>1, <2>2, JustificationKept DEF Proven
<1>10. CalledOnce' /\ SenderMatchesFrame'
  BY <1>1 DEF CommitInv, CalledOnce, SenderMatchesFrame
<1> QED BY <1>2, <1>6, <1>7, <1>9, <1>10 DEF CommitInv

\* Both ways a finalization can go keep the invariant.
LEMMA FinalizeCommit ==
  ASSUME CommitInv, NEW w \in Withdrawals, NEW h, enterTarget(w, h) \/ failTarget(w, h)
  PROVE  CommitInv'
<1>1. /\ OracleInv /\ RecordsOK /\ NotInsideCall /\ WaitedOut(w) /\ NotReplayed(w)
      /\ UNCHANGED <<now, oracleVars, provenWithdrawals>>
      /\ finalizedWithdrawals' = finalizedWithdrawals \cup {w}
      /\ callsTo' = [callsTo EXCEPT ![w] = @ + 1]
  BY DEF CommitInv, enterTarget, failTarget, Finalizing
<1>2. OracleInv'
  BY <1>1, OracleStepInv
<1>3. frame = NoWithdrawal
  <2>1. \A v \in Withdrawals : Sender[v] # DEFAULT_L2_SENDER
    BY PortalAssumption
  <2> QED BY <1>1, <2>1 DEF CommitInv, SenderMatchesFrame, NotInsideCall, RecordsOK
<1>4. \/ frame' = w /\ l2Sender' = Sender[w]
      \/ frame' = frame /\ l2Sender' = DEFAULT_L2_SENDER
  BY DEF enterTarget, failTarget
<1>5. RecordsOK'
  BY <1>1, <1>4 DEF RecordsOK
<1>6. ProvenCommitted'
  BY <1>1 DEF CommitInv, ProvenCommitted, Proven
<1>7. FinalizedStayCommitted'
  <2>1. /\ w \in Proven /\ w \in provenWithdrawals[w].outputRoot
        /\ OutputExists(provenWithdrawals[w].l2OutputIndex)
        /\ l2Outputs[provenWithdrawals[w].l2OutputIndex].outputRoot = provenWithdrawals[w].outputRoot
        /\ now > provenWithdrawals[w].timestamp + FINALIZATION_PERIOD_SECONDS
        /\ now > l2Outputs[provenWithdrawals[w].l2OutputIndex].timestamp
                   + FINALIZATION_PERIOD_SECONDS
    BY <1>1 DEF CommitInv, WaitedOut, OutputStillThere, isFinalizationPeriodElapsed,
       ProvenCommitted, Proven
  <2> QED BY <1>1, <2>1 DEF CommitInv, FinalizedStayCommitted, OutputExists, Proven, oracleVars
<1>8. CalledOnce'
  BY <1>1 DEF CommitInv, CalledOnce, NotReplayed, RecordsOK
<1>9. SenderMatchesFrame'
  BY <1>3, <1>4, PortalAssumption DEF SenderMatchesFrame
<1> QED BY <1>2, <1>5, <1>6, <1>7, <1>8, <1>9 DEF CommitInv

\* The return of a target, and every call that leaves the records alone.
LEMMA OtherCommit ==
  ASSUME CommitInv, [OracleNext]_<<now, oracleVars>>,
         UNCHANGED <<provenWithdrawals, finalizedWithdrawals, callsTo>>,
         \/ UNCHANGED <<l2Sender, frame>>
         \/ frame' = NoWithdrawal /\ l2Sender' = DEFAULT_L2_SENDER
  PROVE  CommitInv'
<1>1. OracleInv'
  BY OracleStepInv DEF CommitInv
<1>2. RecordsOK' /\ ProvenCommitted'
  BY DEF CommitInv, RecordsOK, ProvenCommitted, Proven
<1>3. FinalizedStayCommitted'
  BY JustificationKept DEF CommitInv, RecordsOK, FinalizedStayCommitted, Proven, OutputExists
<1>4. CalledOnce' /\ SenderMatchesFrame'
  BY DEF CommitInv, CalledOnce, SenderMatchesFrame
<1> QED BY <1>1, <1>2, <1>3, <1>4 DEF CommitInv

\* Every step keeps the invariant.
LEMMA CommitStep ==
  ASSUME CommitInv, [PortalNext]_allVars
  PROVE  CommitInv'
<1>1. [OracleNext]_<<now, oracleVars>>
  BY OracleStep
<1>2. CASE \E w \in Withdrawals, k \in 1 .. Len(l2Outputs) : proveWithdrawalTransaction(w, k)
  BY <1>2, ProveCommit
<1>3. CASE \E w \in Withdrawals, h \in 0 .. lastCheckpointId : enterTarget(w, h) \/ failTarget(w, h)
  BY <1>3, FinalizeCommit
<1>4. CASE leaveTarget
  BY <1>1, <1>4, OtherCommit DEF leaveTarget
<1>5. CASE \/ \E p \in BOOLEAN : setPaused(p)
           \/ \E v \in Amounts : depositTransaction(v) \/ donateETH(v)
  BY <1>1, <1>5, OtherCommit DEF setPaused, depositTransaction, donateETH
<1>6. CASE UNCHANGED portalVars
  BY <1>1, <1>6, OtherCommit DEF portalVars
<1> QED
  BY <1>2, <1>3, <1>4, <1>5, <1>6 DEF PortalNext, Call, PortalCall, ManagerCall, EndOfBlock, allVars

\* A finalized withdrawal keeps the output that justified it, in every
\* reachable state, whatever the challenger deletes and users prove again.
THEOREM FinalizedWithdrawalsStayCommitted == PortalSpec => []FinalizedStayCommitted
<1>1. CommitInv /\ [PortalNext]_allVars => CommitInv'
  BY CommitStep
<1>2. CommitInv => FinalizedStayCommitted
  BY DEF CommitInv
<1> QED BY CommitInit, <1>1, <1>2, PTL DEF PortalSpec

\* The target of a withdrawal is called once, when it is finalized, whatever it calls.
THEOREM TargetsCalledOnce == PortalSpec => []CalledOnce
<1>1. CommitInv => CalledOnce
  BY DEF CommitInv
<1> QED BY CommitInit, CommitStep, <1>1, PTL DEF PortalSpec

\* While a target is called the portal names the withdrawal's sender on L2, and at no
\* other time anybody.
THEOREM SenderIsNamed == PortalSpec => []SenderMatchesFrame
<1>1. CommitInv => SenderMatchesFrame
  BY DEF CommitInv
<1> QED BY CommitInit, CommitStep, <1>1, PTL DEF PortalSpec

-----------------------------------------------------------------------------
(* The money: records, requests and payments agree *)

\* Ether and payments: only a finalized withdrawal has been paid for.
PaymentsOK ==
  /\ portalBalance \in Nat
  /\ paidTo \in [Withdrawals -> Nat]
  /\ NeverOverpaid
  /\ \A w \in Withdrawals : w \notin finalizedWithdrawals => paidTo[w] = 0

PayInv ==
  /\ CommitInv
  /\ QueueInv
  /\ RequestsMatchWithdrawals
  /\ PaymentsOK

\* The parts of a match, for a withdrawal that carries ether.
Matched(w) ==
  /\ RequestOf(w) \in 1 .. lastRequestId
  /\ NominalAmount(RequestOf(w)) = Value[w]
  /\ requests[RequestOf(w)].recipient = PORTAL
  /\ requests[RequestOf(w)].claimed <=> w \in finalizedWithdrawals

\* RequestsMatchWithdrawals, part by part.
LEMMA MatchParts ==
  RequestsMatchWithdrawals <=>
    /\ \A w \in Proven : Value[w] > 0 => Matched(w)
    /\ \A v, w \in Proven : Value[v] > 0 /\ Value[w] > 0 /\ RequestOf(v) = RequestOf(w) => v = w
    /\ \A id \in 1 .. lastRequestId : \E w \in Proven : Value[w] > 0 /\ RequestOf(w) = id
BY DEF RequestsMatchWithdrawals, Matched

\* The initial states satisfy the invariant.
LEMMA PayInit == PortalInit => PayInv
<1> SUFFICES ASSUME PortalInit PROVE PayInv
  OBVIOUS
<1>1. CommitInv
  BY CommitInit
<1>2. QueueInv
  BY QueueInitInv DEF PortalInit
<1>3. Proven = {} /\ lastRequestId = 0
  BY DEF PortalInit, Proven, NotProven, QueueInit, lastRequestId
<1>4. RequestsMatchWithdrawals
  BY <1>3, MatchParts
<1>5. PaymentsOK
  BY PortalAssumption DEF PortalInit, PaymentsOK, NeverOverpaid
<1> QED BY <1>1, <1>2, <1>4, <1>5 DEF PayInv

\* A step that changes neither requests nor proofs nor finalizations keeps the
\* correspondence.
LEMMA MatchKept ==
  ASSUME RequestsMatchWithdrawals,
         UNCHANGED <<requests, provenWithdrawals, finalizedWithdrawals>>
  PROVE  RequestsMatchWithdrawals'
BY DEF RequestsMatchWithdrawals, Proven, RequestOf, NominalAmount, Cumulative, lastRequestId

\* Asking the queue for a withdrawal's ether appends the request that matches.
LEMMA FirstProofMatch ==
  ASSUME PayInv, NEW w \in Withdrawals, NEW k \in 1 .. Len(l2Outputs),
         proveWithdrawalTransaction(w, k), NeedsRequest(w)
  PROVE  RequestsMatchWithdrawals'
<1> DEFINE n == lastRequestId
           new == [cumulativeAmount |-> Cumulative(lastRequestId) + Value[w],
                   recipient |-> PORTAL, claimed |-> FALSE]
<1>1. /\ requests \in Seq(WithdrawalRequest) /\ n \in Nat /\ n = Len(requests)
      /\ \A i \in 0 .. n : Cumulative(i) \in Nat
      /\ Value[w] \in Nat /\ Value[w] > 0 /\ now \in Nat /\ now # 0
      /\ provenWithdrawals \in [Withdrawals -> ProvenWithdrawal]
  BY QueueFields, PortalAssumption, OracleAssumption
  DEF PayInv, QueueInv, QueueTypeOK, lastRequestId, NeedsRequest, CommitInv, OracleInv,
      OracleTypeOK, RecordsOK
<1>2. requests' = Append(requests, new)
  BY DEF proveWithdrawalTransaction, requestWithdrawal
<1>3. /\ Len(requests') = n + 1
      /\ \A i \in 1 .. n : requests'[i] = requests[i]
      /\ requests'[n + 1] = new
  BY <1>1, <1>2
<1>4. \A i \in 0 .. n : Cumulative(i)' = Cumulative(i)
  BY <1>1, <1>3 DEF Cumulative
<1>5. \A i \in 1 .. n : NominalAmount(i)' = NominalAmount(i)
  <2>1. \A i \in 1 .. n : i \in 0 .. n /\ i - 1 \in 0 .. n
    BY <1>1
  <2> QED BY <1>4, <2>1 DEF NominalAmount
<1>6. \A i \in 1 .. n + 1 : i = n + 1 => NominalAmount(i)' = Value[w]
  <2> SUFFICES ASSUME NEW i \in 1 .. n + 1, i = n + 1 PROVE NominalAmount(i)' = Value[w]
    OBVIOUS
  <2>1. Cumulative(i)' = Cumulative(n) + Value[w]
    BY <1>1, <1>3 DEF Cumulative
  <2>2. i - 1 = n /\ \A j \in 0 .. n : j = n => Cumulative(j)' = Cumulative(n)
    BY <1>1, <1>4
  <2>3. Cumulative(i - 1)' = Cumulative(n)
    BY <1>1, <1>3, <2>2 DEF Cumulative
  <2> QED BY <1>1, <2>1, <2>3 DEF NominalAmount
<1>7. w \notin Proven /\ w \notin finalizedWithdrawals /\ UNCHANGED finalizedWithdrawals
  BY DEF NeedsRequest, Proven, proveWithdrawalTransaction, PayInv, CommitInv, FinalizedStayCommitted
<1>8. /\ Proven' = Proven \cup {w}
      /\ \A i \in 0 .. n + 1 : i = n + 1 => provenWithdrawals'[w].requestId = i
      /\ \A v \in Withdrawals : v # w => provenWithdrawals'[v] = provenWithdrawals[v]
  BY <1>1 DEF proveWithdrawalTransaction, Proven
<1>9. /\ \A v \in Proven : Value[v] > 0 => Matched(v)
      /\ \A v, x \in Proven : Value[v] > 0 /\ Value[x] > 0 /\ RequestOf(v) = RequestOf(x) => v = x
      /\ \A id \in 1 .. n : \E v \in Proven : Value[v] > 0 /\ RequestOf(v) = id
      /\ Proven \subseteq Withdrawals
  BY MatchParts DEF PayInv, Proven
<1>10. provenWithdrawals'[w].requestId = n + 1
  BY <1>1, <1>8
<1>11. ASSUME NEW v \in Proven', Value[v] > 0 PROVE Matched(v)'
  <2>1. CASE v = w
    <3>1. RequestOf(v)' = n + 1 /\ n + 1 \in 1 .. n + 1
      BY <1>1, <1>10, <2>1 DEF RequestOf
    <3>2. NominalAmount(RequestOf(v))' = Value[w]
      BY <1>6, <3>1 DEF NominalAmount
    <3> QED BY <1>3, <1>7, <2>1, <3>1, <3>2 DEF Matched, lastRequestId
  <2>2. CASE v # w
    <3>1. v \in Proven /\ RequestOf(v)' = RequestOf(v) /\ Matched(v)
      BY <1>8, <1>9, <1>11, <2>2 DEF RequestOf
    <3>2. RequestOf(v) \in 1 .. n
      BY <3>1 DEF Matched
    <3>3. NominalAmount(RequestOf(v))' = NominalAmount(RequestOf(v))
      BY <1>5, <3>1, <3>2 DEF NominalAmount
    <3> QED BY <1>1, <1>3, <1>7, <2>2, <3>1, <3>2, <3>3 DEF Matched, lastRequestId
  <2> QED BY <2>1, <2>2
<1>12. ASSUME NEW v \in Proven', NEW x \in Proven', Value[v] > 0, Value[x] > 0,
              RequestOf(v)' = RequestOf(x)'
       PROVE  v = x
  <2>1. \A y \in Proven : Value[y] > 0 => provenWithdrawals'[y].requestId \in 1 .. n
    BY <1>7, <1>8, <1>9 DEF Matched, RequestOf
  <2>2. n + 1 \notin 1 .. n
    BY <1>1
  <2> QED BY <1>7, <1>8, <1>9, <1>10, <1>12, <2>1, <2>2 DEF RequestOf
<1>13. ASSUME NEW id \in 1 .. n + 1 PROVE \E v \in Proven' : Value[v] > 0 /\ RequestOf(v)' = id
  <2>1. CASE id = n + 1
    BY <1>1, <1>8, <1>10, <2>1 DEF RequestOf
  <2>2. CASE id \in 1 .. n
    BY <1>7, <1>8, <1>9, <2>2 DEF RequestOf
  <2> QED BY <1>1, <2>1, <2>2
<1>14. lastRequestId' = n + 1
  BY <1>3 DEF lastRequestId
<1> QED
  BY <1>11, <1>12, <1>13, <1>14 DEF RequestsMatchWithdrawals, Matched

\* Proving again, or proving a withdrawal without ether, asks for nothing and
\* keeps the request.
LEMMA OtherProofMatch ==
  ASSUME PayInv, NEW w \in Withdrawals, NEW k \in 1 .. Len(l2Outputs),
         proveWithdrawalTransaction(w, k), ~NeedsRequest(w)
  PROVE  RequestsMatchWithdrawals'
<1>1. /\ UNCHANGED <<requests, finalizedWithdrawals>>
      /\ provenWithdrawals \in [Withdrawals -> ProvenWithdrawal]
      /\ now # 0 /\ Value[w] \in Nat
  <2>1. UNCHANGED <<queueVars, finalizedWithdrawals>>
    BY DEF proveWithdrawalTransaction
  <2>2. provenWithdrawals \in [Withdrawals -> ProvenWithdrawal]
    BY DEF PayInv, CommitInv, RecordsOK
  <2>3. now \in Nat /\ now # 0
    BY OracleAssumption DEF PayInv, CommitInv, OracleInv, OracleTypeOK
  <2>4. Value[w] \in Nat
    BY PortalAssumption
  <2> QED BY <2>1, <2>2, <2>3, <2>4 DEF queueVars
<1>2. /\ provenWithdrawals'[w].requestId = provenWithdrawals[w].requestId
      /\ \A v \in Withdrawals : v # w => provenWithdrawals'[v] = provenWithdrawals[v]
      /\ Proven' = Proven \cup {w}
  BY <1>1 DEF proveWithdrawalTransaction, Proven
<1>3. \A v \in Proven' : Value[v] > 0 => v \in Proven
  BY <1>1, <1>2 DEF NeedsRequest, Proven
<1>4. \A v \in Withdrawals : RequestOf(v)' = RequestOf(v)
  BY <1>2 DEF RequestOf
<1>5. \A i \in Nat : NominalAmount(i)' = NominalAmount(i)
  BY <1>1 DEF NominalAmount, Cumulative
<1>6. /\ \A v \in Proven : Value[v] > 0 => Matched(v)
      /\ \A v, x \in Proven : Value[v] > 0 /\ Value[x] > 0 /\ RequestOf(v) = RequestOf(x) => v = x
      /\ \A id \in 1 .. lastRequestId : \E v \in Proven : Value[v] > 0 /\ RequestOf(v) = id
      /\ Proven \subseteq Withdrawals
  BY MatchParts DEF PayInv, Proven
<1>7. ASSUME NEW v \in Proven, Matched(v) PROVE Matched(v)'
  <2>1. RequestOf(v)' = RequestOf(v) /\ RequestOf(v) \in 1 .. lastRequestId
    BY <1>4, <1>6, <1>7 DEF Matched
  <2>2. NominalAmount(RequestOf(v))' = NominalAmount(RequestOf(v))
    BY <1>1, <2>1 DEF NominalAmount, Cumulative
  <2> QED BY <1>1, <1>7, <2>1, <2>2 DEF Matched, lastRequestId
<1>8. lastRequestId' = lastRequestId
  BY <1>1 DEF lastRequestId
<1>9. \A v \in Proven' : Value[v] > 0 => Matched(v)'
  BY <1>3, <1>6, <1>7
<1> QED BY <1>2, <1>3, <1>4, <1>6, <1>8, <1>9 DEF RequestsMatchWithdrawals, Matched

\* Finalizing marks the request of that withdrawal, and of no other, claimed.
LEMMA FinalizeMatch ==
  ASSUME PayInv, NEW w \in Withdrawals, NEW h \in Nat, enterTarget(w, h) \/ failTarget(w, h)
  PROVE  RequestsMatchWithdrawals'
<1>1. /\ ClaimEther(w, h) /\ w \in Proven /\ Value[w] \in Nat
      /\ UNCHANGED provenWithdrawals
      /\ finalizedWithdrawals' = finalizedWithdrawals \cup {w}
      /\ requests \in Seq(WithdrawalRequest) /\ lastRequestId = Len(requests)
  BY PortalAssumption DEF enterTarget, failTarget, Finalizing, WaitedOut, Proven, PayInv,
     QueueInv, QueueTypeOK, lastRequestId
<1>2. /\ \A v \in Proven : Value[v] > 0 => Matched(v)
      /\ \A v, x \in Proven : Value[v] > 0 /\ Value[x] > 0 /\ RequestOf(v) = RequestOf(x) => v = x
      /\ \A id \in 1 .. lastRequestId : \E v \in Proven : Value[v] > 0 /\ RequestOf(v) = id
  BY MatchParts DEF PayInv
<1>3. Proven' = Proven /\ \A v \in Withdrawals : RequestOf(v)' = RequestOf(v)
  BY <1>1 DEF Proven, RequestOf
<1>4. CASE Value[w] = 0
  <2>1. UNCHANGED requests
    BY <1>1, <1>4 DEF ClaimEther, managerVars, queueVars
  <2>2. ASSUME NEW v \in Proven, Value[v] > 0 PROVE Matched(v)'
    <3>1. v # w /\ Matched(v) /\ RequestOf(v)' = RequestOf(v)
      BY <1>2, <1>3, <1>4, <2>2 DEF Proven
    <3> QED BY <1>1, <2>1, <3>1 DEF Matched, NominalAmount, Cumulative, lastRequestId
  <2>3. lastRequestId' = lastRequestId
    BY <2>1 DEF lastRequestId
  <2>4. Proven \subseteq Withdrawals
    BY DEF Proven
  <2>5. \A id \in 1 .. lastRequestId : \E v \in Proven : Value[v] > 0 /\ RequestOf(v)' = id
    BY <1>2, <1>3, <2>4
  <2>6. \A v, x \in Proven : Value[v] > 0 /\ Value[x] > 0 /\ RequestOf(v)' = RequestOf(x)' => v = x
    BY <1>2, <1>3, <2>4
  <2> QED BY <1>3, <2>2, <2>3, <2>5, <2>6 DEF RequestsMatchWithdrawals, Matched
<1>5. CASE Value[w] > 0
  <2>1. requests' = [requests EXCEPT ![RequestOf(w)].claimed = TRUE]
    BY <1>1, <1>5 DEF ClaimEther, claimWithdrawal, RequestOf
  <2>2. \A i \in 1 .. lastRequestId : requests[i] \in WithdrawalRequest
    BY <1>1
  <2>3. /\ Len(requests') = Len(requests)
        /\ \A i \in 1 .. lastRequestId :
             /\ requests'[i].cumulativeAmount = requests[i].cumulativeAmount
             /\ requests'[i].recipient = requests[i].recipient
             /\ i # RequestOf(w) => requests'[i].claimed = requests[i].claimed
             /\ i = RequestOf(w) => requests'[i].claimed = TRUE
    <3>1. RequestOf(w) \in 1 .. lastRequestId
      BY <1>1, <1>2, <1>5 DEF Matched
    <3> DEFINE r == requests[RequestOf(w)]
               c == [r EXCEPT !.claimed = TRUE]
    <3>2. requests' = [requests EXCEPT ![RequestOf(w)] = c]
      BY <1>1, <2>1
    <3>3. /\ c.cumulativeAmount = r.cumulativeAmount
          /\ c.recipient = r.recipient
          /\ c.claimed = TRUE
      <4>1. r \in WithdrawalRequest
        BY <2>2, <3>1
      <4> HIDE DEF r
      <4> QED BY <4>1 DEF WithdrawalRequest
    <3> HIDE DEF c
    <3>4. /\ Len(requests') = Len(requests)
          /\ \A i \in 1 .. lastRequestId :
               /\ i # RequestOf(w) => requests'[i] = requests[i]
               /\ i = RequestOf(w) => requests'[i] = c
      BY <1>1, <3>1, <3>2
    <3> QED BY <3>3, <3>4
  <2>4. lastRequestId' = lastRequestId /\ lastRequestId \in Nat
    BY <1>1, <2>3 DEF lastRequestId
  <2>5. ASSUME NEW v \in Proven, Value[v] > 0 PROVE Matched(v)'
    <3>1. /\ Matched(v) /\ RequestOf(v)' = RequestOf(v) /\ RequestOf(v) \in 1 .. lastRequestId
      BY <1>2, <1>3, <2>5 DEF Matched, Proven
    <3>2. NominalAmount(RequestOf(v))' = NominalAmount(RequestOf(v))
      <4>1. RequestOf(v) - 1 = 0 \/ RequestOf(v) - 1 \in 1 .. lastRequestId
        BY <2>4, <3>1
      <4> QED BY <2>3, <3>1, <4>1 DEF NominalAmount, Cumulative
    <3>3. requests'[RequestOf(v)].claimed <=> v \in finalizedWithdrawals'
      <4>1. CASE v = w
        BY <1>1, <2>3, <3>1, <4>1
      <4>2. CASE v # w
        <5>1. RequestOf(v) # RequestOf(w)
          BY <1>1, <1>2, <1>5, <2>5, <4>2
        <5> QED BY <1>1, <2>3, <3>1, <4>2, <5>1 DEF Matched
      <4> QED BY <4>1, <4>2
    <3> QED BY <2>3, <2>4, <3>1, <3>2, <3>3 DEF Matched
  <2> QED BY <1>2, <1>3, <2>4, <2>5 DEF RequestsMatchWithdrawals, Matched, Proven
<1> QED BY <1>1, <1>4, <1>5

\* What the queue pays for a withdrawal is at most its value.
LEMMA PaidForWithdrawal ==
  ASSUME PayInv, NEW w \in Withdrawals, NEW h \in Nat, Finalizing(w, h)
  PROVE  tokenBalance - tokenBalance' \in 0 .. Value[w]
<1>1. tokenBalance \in Nat /\ Value[w] \in Nat /\ w \in Proven
  BY PortalAssumption DEF PayInv, QueueInv, QueueTypeOK, Finalizing, WaitedOut, Proven
<1>2. CASE Value[w] = 0
  BY <1>1, <1>2 DEF Finalizing, ClaimEther, managerVars
<1>3. CASE Value[w] > 0
  <2>1. claimWithdrawal(RequestOf(w), h, PORTAL) /\ Matched(w)
    BY <1>1, <1>3, MatchParts DEF Finalizing, ClaimEther, RequestOf, PayInv
  <2> DEFINE paid == calculateClaimableEther(RequestOf(w), h)
  <2>2. checkpoints[h].sharePrice \in Nat /\ checkpoints[h].sharePrice <= E27_PRECISION_BASE
    BY <2>1, QueueFields DEF PayInv, QueueInv, claimWithdrawal, ValidHint
  <2>3. paid = AtPrice(Value[w], checkpoints[h].sharePrice)
    BY <2>1 DEF Matched, calculateClaimableEther
  <2>4. paid \in Nat /\ paid <= Value[w]
    <3> DEFINE price == checkpoints[h].sharePrice
    <3>1. price \in Nat /\ price <= E27_PRECISION_BASE /\ paid = AtPrice(Value[w], price)
      BY <2>2, <2>3
    <3> HIDE DEF paid, price
    <3>2. AtPrice(Value[w], price) \in Nat
      BY <1>1, <3>1, AtPriceType
    <3>3. AtPrice(Value[w], price) <= Value[w]
      BY <1>1, <3>1, AtPriceBound
    <3> QED BY <3>1, <3>2, <3>3
  <2>5. tokenBalance' = tokenBalance - paid
    BY <2>1 DEF claimWithdrawal
  <2> HIDE DEF paid
  <2> QED BY <1>1, <2>4, <2>5
<1> QED BY <1>1, <1>2, <1>3

\* The payments stay within bounds.
LEMMA PaymentsStep ==
  ASSUME PayInv, [PortalNext]_allVars
  PROVE  PaymentsOK'
<1>1. PaymentsOK /\ tokenBalance \in Nat /\ lastCheckpointId \in Nat
  BY QueueFields DEF PayInv, QueueInv, QueueTypeOK
<1>2. CASE \E w \in Withdrawals, h \in 0 .. lastCheckpointId : enterTarget(w, h) \/ failTarget(w, h)
  <2>1. PICK w \in Withdrawals, h \in 0 .. lastCheckpointId : enterTarget(w, h) \/ failTarget(w, h)
    BY <1>2
  <2>2. h \in Nat /\ Finalizing(w, h)
    BY <1>1, <2>1 DEF enterTarget, failTarget
  <2>3. tokenBalance - tokenBalance' \in 0 .. Value[w]
    BY <2>2, PaidForWithdrawal
  <2>4. paidTo[w] = 0 /\ finalizedWithdrawals' = finalizedWithdrawals \cup {w}
        /\ Value[w] \in Nat
    BY <1>1, <2>2, PortalAssumption DEF Finalizing, NotReplayed, PaymentsOK
  <2> DEFINE paid == tokenBalance - tokenBalance'
  <2>5. paid \in Nat /\ paid <= Value[w]
    BY <2>3, <2>4
  <2>6. CASE enterTarget(w, h)
    <3>1. paidTo' = [paidTo EXCEPT ![w] = @ + paid] /\ portalBalance' = portalBalance + paid - paid
      BY <2>6 DEF enterTarget, ValueWithDiscount
    <3> HIDE DEF paid
    <3> QED BY <1>1, <2>4, <2>5, <3>1 DEF PaymentsOK, NeverOverpaid
  <2>7. CASE failTarget(w, h)
    <3>1. paidTo' = paidTo /\ portalBalance' = portalBalance + paid
      BY <2>7 DEF failTarget
    <3> HIDE DEF paid
    <3> QED BY <1>1, <2>4, <2>5, <3>1 DEF PaymentsOK, NeverOverpaid
  <2> QED BY <2>1, <2>6, <2>7
<1>3. CASE \E v \in Amounts : donateETH(v)
  BY <1>1, <1>3, QueueAssumption DEF donateETH, PaymentsOK, NeverOverpaid
<1>4. CASE UNCHANGED <<portalBalance, paidTo, finalizedWithdrawals>>
  BY <1>1, <1>4 DEF PaymentsOK, NeverOverpaid
<1>5. CASE \/ \E p \in BOOLEAN : setPaused(p)
           \/ \E w \in Withdrawals, i \in 1 .. Len(l2Outputs) : proveWithdrawalTransaction(w, i)
           \/ leaveTarget
           \/ \E v \in Amounts : depositTransaction(v)
  BY <1>4, <1>5 DEF setPaused, proveWithdrawalTransaction, leaveTarget, depositTransaction
<1>6. CASE UNCHANGED portalVars
  BY <1>4, <1>6 DEF portalVars
<1> QED
  BY <1>2, <1>3, <1>5, <1>6 DEF PortalNext, Call, PortalCall, ManagerCall, EndOfBlock, allVars

\* The queue's invariant survives the steps of the portal.
LEMMA PortalQueueStep ==
  ASSUME PayInv, [PortalNext]_allVars
  PROVE  QueueInv'
<1>1. /\ QueueInv /\ tokenBalance \in Nat /\ lastCheckpointId \in Nat
      /\ provenWithdrawals \in [Withdrawals -> ProvenWithdrawal]
  BY QueueFields DEF PayInv, QueueInv, QueueTypeOK, CommitInv, RecordsOK
<1>2. CASE \E w \in Withdrawals, k \in 1 .. Len(l2Outputs) : proveWithdrawalTransaction(w, k)
  <2>1. PICK w \in Withdrawals, k \in 1 .. Len(l2Outputs) : proveWithdrawalTransaction(w, k)
    BY <1>2
  <2>2. tokenBalance' \in Nat /\ (requestWithdrawal(PORTAL, Value[w]) \/ UNCHANGED queueVars)
    BY <1>1, <2>1 DEF proveWithdrawalTransaction
  <2> QED BY <1>1, <2>2, RequestInv, QueueUnchangedInv, PortalAssumption
<1>3. CASE \E w \in Withdrawals, h \in 0 .. lastCheckpointId : enterTarget(w, h) \/ failTarget(w, h)
  <2>1. PICK w \in Withdrawals, h \in 0 .. lastCheckpointId : enterTarget(w, h) \/ failTarget(w, h)
    BY <1>3
  <2>2. ClaimEther(w, h)
    BY <2>1 DEF enterTarget, failTarget, Finalizing
  <2>3. provenWithdrawals[w].requestId \in Nat /\ h \in Nat
    <3>1. provenWithdrawals[w] \in ProvenWithdrawal
      BY <1>1
    <3> QED BY <1>1, <3>1 DEF ProvenWithdrawal
  <2>4. \/ claimWithdrawal(provenWithdrawals[w].requestId, h, PORTAL)
        \/ UNCHANGED <<queueVars, tokenBalance>>
    BY <2>2 DEF ClaimEther, managerVars
  <2> QED BY <1>1, <2>3, <2>4, ClaimInv, QueueUnchangedInv
<1>4. CASE \E v \in Amounts : depositTransaction(v)
  BY <1>1, <1>4, QueueUnchangedInv, QueueAssumption DEF depositTransaction
<1>5. CASE ManagerCall
  BY <1>1, <1>5, QueueStepInv DEF ManagerCall, QueueNext
<1>6. CASE UNCHANGED managerVars
  BY <1>1, <1>6, QueueUnchangedInv DEF managerVars
<1>7. CASE \/ \E p \in BOOLEAN : setPaused(p)
           \/ leaveTarget
           \/ \E v \in Amounts : donateETH(v)
  BY <1>6, <1>7 DEF setPaused, leaveTarget, donateETH
<1> QED
  BY <1>2, <1>3, <1>4, <1>5, <1>6, <1>7 DEF PortalNext, Call, PortalCall, EndOfBlock, allVars

\* The correspondence of requests and withdrawals survives every step.
LEMMA MatchStep ==
  ASSUME PayInv, [PortalNext]_allVars
  PROVE  RequestsMatchWithdrawals'
<1>1. RequestsMatchWithdrawals /\ lastCheckpointId \in Nat
  BY QueueFields DEF PayInv, QueueInv
<1>2. CASE \E w \in Withdrawals, k \in 1 .. Len(l2Outputs) : proveWithdrawalTransaction(w, k)
  BY <1>2, FirstProofMatch, OtherProofMatch
<1>3. CASE \E w \in Withdrawals, h \in 0 .. lastCheckpointId : enterTarget(w, h) \/ failTarget(w, h)
  BY <1>1, <1>3, FinalizeMatch
<1>4. CASE UNCHANGED <<requests, provenWithdrawals, finalizedWithdrawals>>
  BY <1>1, <1>4, MatchKept
<1>5. CASE \/ \E p \in BOOLEAN : setPaused(p)
           \/ leaveTarget
           \/ \E v \in Amounts : depositTransaction(v) \/ donateETH(v)
  BY <1>4, <1>5 DEF setPaused, leaveTarget, depositTransaction, donateETH, managerVars, queueVars
<1>6. CASE ManagerCall
  BY <1>4, <1>6 DEF ManagerCall, Finalize, Spend, Receive, finalizeQueue, queueVars, portalVars
<1>7. CASE UNCHANGED <<managerVars, portalVars>>
  BY <1>4, <1>7 DEF managerVars, queueVars, portalVars
<1> QED
  BY <1>2, <1>3, <1>5, <1>6, <1>7 DEF PortalNext, Call, PortalCall, EndOfBlock, allVars

\* The two variables no other proof speaks of.
Switches == paused \in BOOLEAN /\ deposits \in Nat

\* They stay a Boolean and a number.
LEMMA SwitchesStep ==
  ASSUME Switches, [PortalNext]_allVars
  PROVE  Switches'
<1>1. CASE \E p \in BOOLEAN : setPaused(p)
  BY <1>1 DEF setPaused, Switches
<1>2. CASE \E v \in Amounts : depositTransaction(v) \/ donateETH(v)
  BY <1>2 DEF depositTransaction, donateETH, Switches
<1>3. CASE UNCHANGED <<paused, deposits>>
  BY <1>3 DEF Switches
<1>4. CASE \/ \E w \in Withdrawals, i \in 1 .. Len(l2Outputs) : proveWithdrawalTransaction(w, i)
           \/ \E w \in Withdrawals, h \in 0 .. lastCheckpointId : enterTarget(w, h) \/ failTarget(w, h)
           \/ leaveTarget
  BY <1>3, <1>4 DEF proveWithdrawalTransaction, enterTarget, failTarget, leaveTarget
<1>5. CASE UNCHANGED portalVars
  BY <1>3, <1>5 DEF portalVars
<1> QED
  BY <1>1, <1>2, <1>4, <1>5 DEF PortalNext, Call, PortalCall, ManagerCall, EndOfBlock, allVars

\* In every reachable state the variables have their types, the portal's records
\* and the queue's requests agree, and no target has been paid more than the
\* value of its withdrawal.
THEOREM PortalInvariant == PortalSpec => []PortalInv
<1>1. PortalInit => Switches
  BY DEF PortalInit, Switches
<1>2. PayInv /\ [PortalNext]_allVars => PayInv'
  BY CommitStep, PortalQueueStep, MatchStep, PaymentsStep DEF PayInv
<1>3. PayInv /\ Switches => PortalInv
  <2> SUFFICES ASSUME PayInv, Switches PROVE PortalInv
    OBVIOUS
  <2>1. l2Sender \in Accounts \cup {DEFAULT_L2_SENDER}
    BY PortalAssumption DEF PayInv, CommitInv, RecordsOK, SenderMatchesFrame
  <2>2. PortalTypeOK
    BY <2>1 DEF PayInv, CommitInv, OracleInv, QueueInv, RecordsOK, PaymentsOK, Switches, PortalTypeOK
  <2> QED
    BY <2>2 DEF PayInv, PaymentsOK, PortalInv
<1> QED BY PayInit, SwitchesStep, <1>1, <1>2, <1>3, PTL DEF PortalSpec

\* A target is called with what its withdrawal brought, so nothing else is paid out.
LEMMA PortalKeepsEther ==
  ASSUME PayInv, [PortalNext]_allVars
  PROVE  portalBalance' >= portalBalance
<1>1. portalBalance \in Nat /\ lastCheckpointId \in Nat
  BY QueueFields DEF PayInv, PaymentsOK, QueueInv
<1>2. CASE \E w \in Withdrawals, h \in 0 .. lastCheckpointId : enterTarget(w, h) \/ failTarget(w, h)
  <2>1. PICK w \in Withdrawals, h \in 0 .. lastCheckpointId : enterTarget(w, h) \/ failTarget(w, h)
    BY <1>2
  <2> DEFINE paid == tokenBalance - tokenBalance'
  <2>2. paid \in 0 .. Value[w] /\ Value[w] \in Nat
    BY <1>1, <2>1, PaidForWithdrawal, PortalAssumption DEF enterTarget, failTarget
  <2>3. portalBalance' = portalBalance + paid - paid \/ portalBalance' = portalBalance + paid
    BY <2>1 DEF enterTarget, failTarget, ValueWithDiscount
  <2> HIDE DEF paid
  <2> QED BY <1>1, <2>2, <2>3
<1>3. CASE \E v \in Amounts : donateETH(v)
  BY <1>1, <1>3, QueueAssumption DEF donateETH
<1>4. CASE UNCHANGED portalBalance
  BY <1>1, <1>4
<1>5. CASE \/ \E p \in BOOLEAN : setPaused(p)
           \/ \E w \in Withdrawals, i \in 1 .. Len(l2Outputs) : proveWithdrawalTransaction(w, i)
           \/ leaveTarget
           \/ \E v \in Amounts : depositTransaction(v)
  BY <1>4, <1>5 DEF setPaused, proveWithdrawalTransaction, leaveTarget, depositTransaction
<1>6. CASE UNCHANGED portalVars
  BY <1>4, <1>6 DEF portalVars
<1> QED
  BY <1>2, <1>3, <1>5, <1>6 DEF PortalNext, Call, PortalCall, ManagerCall, EndOfBlock, allVars

\* Ether stranded in the portal or donated to it never leaves with a withdrawal.
THEOREM StrandedEtherStays == PortalSpec => PortalEtherUntouched
<1>1. PayInv /\ [PortalNext]_allVars => PayInv'
  BY CommitStep, PortalQueueStep, MatchStep, PaymentsStep DEF PayInv
<1>2. PayInv /\ [PortalNext]_allVars => [portalBalance' >= portalBalance]_allVars
  BY PortalKeepsEther
<1> QED BY PayInit, <1>1, <1>2, PTL DEF PortalSpec, PortalEtherUntouched

\* What covers the claims in the queue covers them in the portal.
LEMMA PortalCoverStep ==
  ASSUME PayInv, CoverInv, [PortalNext]_allVars
  PROVE  CoverInv'
<1>1. /\ tokenBalance \in Nat /\ lockedBalance <= tokenBalance /\ lockedBalance \in Nat
      /\ lastCheckpointId \in Nat
      /\ provenWithdrawals \in [Withdrawals -> ProvenWithdrawal]
  BY QueueFields DEF CoverInv, LockedBalanceCoversClaims, PayInv, QueueInv, QueueTypeOK,
     CommitInv, RecordsOK
<1>2. CASE \E w \in Withdrawals, k \in 1 .. Len(l2Outputs) : proveWithdrawalTransaction(w, k)
  <2>1. PICK w \in Withdrawals, k \in 1 .. Len(l2Outputs) : proveWithdrawalTransaction(w, k)
    BY <1>2
  <2>2. /\ UNCHANGED tokenBalance /\ Value[w] \in Nat /\ PORTAL \in Recipients
        /\ requestWithdrawal(PORTAL, Value[w]) \/ UNCHANGED queueVars
    BY <2>1, PortalAssumption DEF proveWithdrawalTransaction
  <2> QED BY <1>1, <2>2, CoverRequest, CoverTokens
<1>3. CASE \E w \in Withdrawals, h \in 0 .. lastCheckpointId : enterTarget(w, h) \/ failTarget(w, h)
  <2>1. PICK w \in Withdrawals, h \in 0 .. lastCheckpointId : enterTarget(w, h) \/ failTarget(w, h)
    BY <1>3
  <2>2. ClaimEther(w, h)
    BY <2>1 DEF enterTarget, failTarget, Finalizing
  <2>3. provenWithdrawals[w].requestId \in Nat /\ h \in Nat
    <3>1. provenWithdrawals[w] \in ProvenWithdrawal
      BY <1>1
    <3> QED BY <1>1, <3>1 DEF ProvenWithdrawal
  <2>4. \/ claimWithdrawal(provenWithdrawals[w].requestId, h, PORTAL)
        \/ UNCHANGED <<queueVars, tokenBalance>>
    BY <2>2 DEF ClaimEther, managerVars
  <2> QED BY <1>1, <2>3, <2>4, CoverClaim, CoverTokens
<1>4. CASE \E v \in Amounts : depositTransaction(v)
  <2>1. PICK v \in Nat : depositTransaction(v)
    BY <1>4, QueueAssumption
  <2>2. UNCHANGED queueVars /\ tokenBalance' = tokenBalance + v
    BY <2>1 DEF depositTransaction
  <2> QED BY <1>1, <2>2, CoverTokens
<1>5. CASE ManagerCall
  BY <1>5, CoverStep DEF ManagerCall, QueueNext
<1>6. CASE UNCHANGED managerVars
  BY <1>1, <1>6, CoverTokens DEF managerVars
<1>7. CASE \/ \E p \in BOOLEAN : setPaused(p)
           \/ leaveTarget
           \/ \E v \in Amounts : donateETH(v)
  BY <1>6, <1>7 DEF setPaused, leaveTarget, donateETH
<1> QED
  BY <1>2, <1>3, <1>4, <1>5, <1>6, <1>7 DEF PortalNext, Call, PortalCall, EndOfBlock, allVars

\* Once its waits are over and its batch is finalized, nothing can stand in the way
\* of a withdrawal: its claim is open, has a hint, and the ether for it is there.
THEOREM NothingBlocksClaims == PortalSpec => []ClaimNeverBlocked
<1>1. PayInv /\ [PortalNext]_allVars => PayInv'
  BY CommitStep, PortalQueueStep, MatchStep, PaymentsStep DEF PayInv
<1>2. PortalInit => CoverInv
  BY CoverInit DEF PortalInit
<1>3. PayInv /\ CoverInv => ClaimNeverBlocked
  <2> SUFFICES ASSUME PayInv, CoverInv, NEW w \in Proven \ finalizedWithdrawals, Value[w] > 0,
                      RequestOf(w) <= lastFinalizedRequestId
               PROVE  /\ Claimable(RequestOf(w), PORTAL)
                      /\ \E h \in 1 .. lastCheckpointId :
                           /\ ValidHint(RequestOf(w), h)
                           /\ calculateClaimableEther(RequestOf(w), h) <= lockedBalance
                      /\ lockedBalance <= tokenBalance
    BY DEF ClaimNeverBlocked
  <2> DEFINE id == RequestOf(w)
  <2>1. Matched(w)
    BY MatchParts DEF PayInv
  <2>2. /\ lastRequestId \in Nat /\ lastFinalizedRequestId \in Nat
        /\ lockedBalance \in Nat /\ QueueInv
        /\ Owed <= lockedBalance /\ lockedBalance <= tokenBalance
    BY QueueFields DEF PayInv, QueueInv, QueueTypeOK, lastRequestId, CoverInv,
       LockedBalanceCoversClaims
  <2>3. Claimable(id, PORTAL)
    BY <2>1, <2>2 DEF Claimable, Matched
  <2>4. id \in FinalizedIds
    BY <2>3 DEF Claimable, FinalizedIds
  <2>5. PICK h \in 1 .. lastCheckpointId : ValidHint(id, h)
    BY <2>2, <2>4 DEF QueueInv, OneHint
  <2>6. OwedFor(id) = calculateClaimableEther(id, h) /\ OwedFor(id) \in Nat
    BY <2>2, <2>3, <2>4, <2>5, OwedForIs DEF OwedByHint, Claimable
  <2>7. OwedFor(id) <= Owed /\ Owed \in Nat
    BY <2>2, <2>4, OwedType
  <2> HIDE DEF id
  <2>8. calculateClaimableEther(id, h) <= lockedBalance
    BY <2>2, <2>6, <2>7
  <2> QED BY <2>2, <2>3, <2>5, <2>8 DEF id
<1> QED BY PayInit, PortalCoverStep, <1>1, <1>2, <1>3, PTL DEF PortalSpec

-----------------------------------------------------------------------------
(* One diligent challenger is enough *)

BogusStayYoung ==
  \A i \in 1 .. Len(l2Outputs) :
    Bogus(i) => now <= l2Outputs[i].timestamp + FINALIZATION_PERIOD_SECONDS

BridgeInv == CommitInv /\ BogusStayYoung

\* Whatever is called within a block, an output is kept, or is new and dated
\* now.
LEMMA OutputsWithinBlock ==
  ASSUME OracleInv, OracleCall \/ UNCHANGED <<now, oracleVars>>
  PROVE  /\ now' = now
         /\ \A i \in 1 .. Len(l2Outputs') :
              \/ i \in 1 .. Len(l2Outputs) /\ l2Outputs'[i] = l2Outputs[i]
              \/ l2Outputs'[i].timestamp = now
<1>1. l2Outputs \in Seq(OutputProposal) /\ Len(l2Outputs) \in Nat
  BY DEF OracleInv, OracleTypeOK
<1>2. CASE \E root \in OutputRoots : proposeL2Output(root)
  <2>1. PICK root \in OutputRoots : proposeL2Output(root)
    BY <1>2
  <2>2. l2Outputs' = Append(l2Outputs, NewOutput(root)) /\ now' = now
    BY <2>1 DEF proposeL2Output
  <2>3. NewOutput(root).timestamp = now
    BY DEF NewOutput
  <2>4. \A i \in 1 .. Len(l2Outputs) + 1 : i \in 1 .. Len(l2Outputs) \/ i = Len(l2Outputs) + 1
    BY <1>1
  <2> QED BY <1>1, <2>2, <2>3, <2>4
<1>3. CASE \E k \in 1 .. Len(l2Outputs) : deleteL2Outputs(k)
  <2>1. PICK k \in 1 .. Len(l2Outputs) : deleteL2Outputs(k)
    BY <1>3
  <2>2. l2Outputs' = SubSeq(l2Outputs, 1, k - 1) /\ now' = now
    BY <2>1 DEF deleteL2Outputs
  <2>3. Len(l2Outputs') = k - 1 /\ \A i \in 1 .. k - 1 : l2Outputs'[i] = l2Outputs[i]
    BY <1>1, <2>2
  <2> QED BY <1>1, <2>2, <2>3
<1>4. CASE l2Outputs' = l2Outputs /\ now' = now
  BY <1>4
<1> QED BY <1>2, <1>3, <1>4 DEF OracleCall, setStartingBlockNumber, setStartingTimestamp, oracleVars

\* Bogus outputs stay young: within a block outputs do not age, and the
\* challenger deletes the bogus ones before a block would make them too old.
LEMMA BogusStep ==
  ASSUME BridgeInv, [BridgeNext]_bridgeVars
  PROVE  BogusStayYoung'
<1>1. /\ OracleInv /\ now \in Nat
      /\ \A i \in 1 .. Len(l2Outputs) : l2Outputs[i].timestamp \in Nat
  BY OutputFields DEF BridgeInv, CommitInv, OracleInv, OracleTypeOK
<1>2. CASE \E w \in Withdrawals : initiateWithdrawal(w)
  BY <1>2 DEF initiateWithdrawal, allVars, oracleVars, BridgeInv, BogusStayYoung, Bogus
<1>3. CASE UNCHANGED sentMessages /\ (OracleCall \/ UNCHANGED <<now, oracleVars>>)
  <2>1. /\ now' = now
        /\ \A i \in 1 .. Len(l2Outputs') :
             \/ i \in 1 .. Len(l2Outputs) /\ l2Outputs'[i] = l2Outputs[i]
             \/ l2Outputs'[i].timestamp = now
    BY <1>1, <1>3, OutputsWithinBlock
  <2> QED BY <1>1, <1>3, <2>1, OracleAssumption DEF BridgeInv, BogusStayYoung, Bogus
<1>4. CASE ChallengerInTime /\ EndOfBlock /\ UNCHANGED sentMessages
  BY <1>1, <1>4, OracleAssumption DEF ChallengerInTime, EndOfBlock, NextBlock, oracleVars,
     BogusStayYoung, Bogus
<1>5. CASE Call /\ UNCHANGED sentMessages
  <2>1. OracleCall \/ UNCHANGED <<now, oracleVars>>
    BY <1>5 DEF Call, PortalCall, ManagerCall, setPaused, proveWithdrawalTransaction, enterTarget,
       leaveTarget, failTarget, depositTransaction, donateETH
  <2> QED BY <1>3, <1>5, <2>1
<1>6. CASE UNCHANGED bridgeVars
  BY <1>3, <1>6 DEF bridgeVars, allVars
<1> QED BY <1>2, <1>4, <1>5, <1>6 DEF BridgeNext

\* A step of the bridge is a step of the portal or leaves it alone.
LEMMA BridgeStepsPortal == [BridgeNext]_bridgeVars => [PortalNext]_allVars
BY DEF BridgeNext, bridgeVars, initiateWithdrawal, PortalNext

\* A finalized withdrawal rests on an output too old to be bogus.
LEMMA FinalizedWereSent == BridgeInv => OnlySentFinalized
<1> SUFFICES ASSUME BridgeInv, NEW w \in finalizedWithdrawals PROVE w \in sentMessages
  BY DEF OnlySentFinalized
<1> DEFINE i == provenWithdrawals[w].l2OutputIndex
<1>1. /\ i \in 1 .. Len(l2Outputs)
      /\ w \in l2Outputs[i].outputRoot
      /\ now > l2Outputs[i].timestamp + FINALIZATION_PERIOD_SECONDS
  BY DEF BridgeInv, CommitInv, FinalizedStayCommitted, OutputExists
<1>2. now \in Nat /\ l2Outputs[i].timestamp \in Nat
  BY <1>1, OutputFields DEF BridgeInv, CommitInv, OracleInv, OracleTypeOK
<1> HIDE DEF i
<1>3. ~Bogus(i)
  BY <1>1, <1>2, OracleAssumption DEF BridgeInv, BogusStayYoung
<1> QED BY <1>1, <1>3 DEF Bogus

\* It holds of the bridge before any output is proposed.
LEMMA BridgeInitInv == BridgeInit => BridgeInv
BY CommitInit DEF BridgeInit, BridgeInv, BogusStayYoung, PortalInit, OracleInit

\* Every step of the bridge keeps it.
LEMMA BridgeStepInv == BridgeInv /\ [BridgeNext]_bridgeVars => BridgeInv'
BY CommitStep, BogusStep, BridgeStepsPortal DEF BridgeInv

\* With one diligent challenger nobody can finalize a withdrawal that was not
\* sent on L2, whatever the proposer posts.
THEOREM OnlySentWithdrawalsFinalized == BridgeSpec => []OnlySentFinalized
BY BridgeInitInv, BridgeStepInv, FinalizedWereSent, PTL DEF BridgeSpec

-----------------------------------------------------------------------------
(* The withdrawal path implements the delivery of messages *)

\* The only step that calls a target is the finalization of its withdrawal, once.
LEMMA CallsCounted ==
  ASSUME CommitInv, [PortalNext]_allVars
  PROVE  \/ UNCHANGED callsTo
         \/ \E w \in Withdrawals :
              /\ w \in finalizedWithdrawals' \ finalizedWithdrawals
              /\ callsTo' = [callsTo EXCEPT ![w] = @ + 1]
<1>1. ASSUME NEW w \in Withdrawals, NEW h, Finalizing(w, h)
      PROVE  /\ w \in finalizedWithdrawals' \ finalizedWithdrawals
             /\ callsTo' = [callsTo EXCEPT ![w] = @ + 1]
  BY <1>1 DEF Finalizing, NotReplayed
<1>2. CASE \E w \in Withdrawals, h \in 0 .. lastCheckpointId : enterTarget(w, h) \/ failTarget(w, h)
  BY <1>1, <1>2 DEF enterTarget, failTarget
<1>3. CASE \E w \in Withdrawals, i \in 1 .. Len(l2Outputs) : proveWithdrawalTransaction(w, i)
  BY <1>3 DEF proveWithdrawalTransaction
<1> QED
  BY <1>2, <1>3 DEF PortalNext, Call, PortalCall, ManagerCall, EndOfBlock, allVars, portalVars,
     setPaused, leaveTarget, depositTransaction, donateETH

\* A step of the bridge sends a withdrawal, delivers one that was sent, or neither.
LEMMA WithdrawalStep ==
  ASSUME BridgeInv, BridgeInv', [BridgeNext]_bridgeVars
  PROVE  [Delivery!Next]_(Delivery!vars)
<1>1. CASE \E w \in Withdrawals : initiateWithdrawal(w)
  <2>1. PICK w \in Withdrawals : initiateWithdrawal(w)
    BY <1>1
  <2>2. Delivery!Send(w)
    BY <2>1 DEF initiateWithdrawal, allVars, portalVars, Delivery!Send
  <2> QED BY <2>2 DEF Delivery!Next
<1>2. CASE UNCHANGED <<sentMessages, callsTo>>
  BY <1>2 DEF Delivery!vars
<1>3. ASSUME UNCHANGED sentMessages, NEW w \in Withdrawals,
             w \in finalizedWithdrawals' \ finalizedWithdrawals,
             callsTo' = [callsTo EXCEPT ![w] = @ + 1]
      PROVE  Delivery!Next
  <2>1. OnlySentFinalized'
    BY FinalizedWereSent, PTL
  <2>2. w \in sentMessages
    BY <1>3, <2>1 DEF OnlySentFinalized
  <2>3. callsTo[w] = 0 /\ callsTo' = [callsTo EXCEPT ![w] = 1]
    BY <1>3 DEF BridgeInv, CommitInv, CalledOnce
  <2>4. Delivery!Deliver(w)
    BY <1>3, <2>2, <2>3 DEF Delivery!Deliver
  <2> QED BY <2>4 DEF Delivery!Next
<1>4. CASE UNCHANGED sentMessages /\ [PortalNext]_allVars
  <2>1. CommitInv
    BY DEF BridgeInv
  <2> QED BY <1>2, <1>3, <1>4, <2>1, CallsCounted
<1> QED BY <1>1, <1>4, BridgeStepsPortal DEF BridgeNext, bridgeVars

\* End to end, the withdrawal path is a channel: whatever the proposer posts and
\* the targets do, each withdrawal sent on L2 is delivered at most once, and
\* nothing else is.
THEOREM WithdrawalsAreDelivered == BridgeSpec => WithdrawalsDelivered
<1>1. BridgeInit => BridgeInv
  BY BridgeInitInv
<1>2. BridgeInit => Delivery!Init
  BY DEF BridgeInit, PortalInit, Delivery!Init
<1>3. BridgeInv /\ [BridgeNext]_bridgeVars => BridgeInv'
  BY BridgeStepInv
<1>4. BridgeInv /\ BridgeInv' /\ [BridgeNext]_bridgeVars => [Delivery!Next]_(Delivery!vars)
  BY WithdrawalStep
<1> QED BY <1>1, <1>2, <1>3, <1>4, PTL DEF BridgeSpec, WithdrawalsDelivered, Delivery!Spec
=============================================================================
