----------------------------- MODULE PatexPortal -----------------------------
(***************************************************************************)
(* contracts/L1/PatexPortal.sol, composed with the L2OutputOracle it reads  *)
(* and the withdrawal queue of the ETHYieldManager it is paid from.         *)
(*                                                                          *)
(* A withdrawal sent on L2 is proven against an output root (which requests *)
(* its ether from the queue), waits, and is finalized: the queue pays the   *)
(* portal, at the share price of its batch, and the portal calls the        *)
(* target.  The target may call back, so a successful finalization is two   *)
(* steps, with any calls but no new block between them; a failing target    *)
(* undoes what it did, so that case is one step.                            *)
(*                                                                          *)
(* An output root is the set of withdrawals it commits to: the root proof   *)
(* and the trie proof together say that a withdrawal is a member.  Gas,     *)
(* calldata limits and the deposit metering only reject calls and are left  *)
(* out, and so is the revert for gas estimation.                            *)
(***************************************************************************)
EXTENDS L2OutputOracle, WithdrawalQueue

CONSTANTS
  Withdrawals,           \* withdrawal hashes
  Value, Sender, Target, \* fields of a withdrawal, as functions of it
  Accounts,
  PORTAL, YIELD_MANAGER, \* addresses of the two contracts
  DEFAULT_L2_SENDER,
  NoWithdrawal,          \* no target call is in progress
  MaxDeposits            \* bound: deposits and donations made

ASSUME PortalAssumption ==
  /\ OutputRoots \subseteq SUBSET Withdrawals
  /\ Value \in [Withdrawals -> Nat]
  /\ Sender \in [Withdrawals -> Accounts]
  /\ Target \in [Withdrawals -> Accounts]
  /\ DEFAULT_L2_SENDER \notin Accounts
  /\ NoWithdrawal \notin Withdrawals
  /\ PORTAL \in Recipients

VARIABLES
  provenWithdrawals,
  finalizedWithdrawals,
  l2Sender,
  paused,
  portalBalance,   \* ether held by the portal
  frame,           \* the withdrawal whose target is being called
  paidTo,          \* history: ether sent to the target of each withdrawal
  callsTo,         \* history: calls made to the target of each withdrawal
  deposits         \* number of TransactionDeposited events and donations

portalVars == <<provenWithdrawals, finalizedWithdrawals, l2Sender, paused,
                portalBalance, frame, paidTo, callsTo, deposits>>
managerVars == <<queueVars, tokenBalance>>
allVars == <<now, oracleVars, managerVars, portalVars>>

ProvenWithdrawal ==
  [outputRoot : OutputRoots \cup {{}}, timestamp : Nat, l2OutputIndex : Nat, requestId : Nat]

NotProven == [outputRoot |-> {}, timestamp |-> 0, l2OutputIndex |-> 0, requestId |-> 0]

PortalTypeOK ==
  /\ OracleTypeOK
  /\ QueueTypeOK
  /\ provenWithdrawals \in [Withdrawals -> ProvenWithdrawal]
  /\ finalizedWithdrawals \subseteq Withdrawals
  /\ l2Sender \in Accounts \cup {DEFAULT_L2_SENDER}
  /\ paused \in BOOLEAN
  /\ portalBalance \in Nat
  /\ frame \in Withdrawals \cup {NoWithdrawal}
  /\ paidTo \in [Withdrawals -> Nat]
  /\ callsTo \in [Withdrawals -> Nat]
  /\ deposits \in Nat

PortalInit ==
  /\ OracleInit
  /\ QueueInit
  /\ tokenBalance = 0
  /\ provenWithdrawals = [w \in Withdrawals |-> NotProven]
  /\ finalizedWithdrawals = {}
  /\ l2Sender = DEFAULT_L2_SENDER
  /\ paused \in BOOLEAN
  /\ portalBalance = 0
  /\ frame = NoWithdrawal
  /\ paidTo = [w \in Withdrawals |-> 0]
  /\ callsTo = [w \in Withdrawals |-> 0]
  /\ deposits = 0

-----------------------------------------------------------------------------
(* Guardian *)

setPaused(p) ==
  /\ paused' = p
  /\ UNCHANGED <<now, oracleVars, managerVars, provenWithdrawals, finalizedWithdrawals,
                 l2Sender, portalBalance, frame, paidTo, callsTo, deposits>>

-----------------------------------------------------------------------------
(* Proving *)

OutputExists(i) == i \in 1 .. Len(l2Outputs)

\* Proven for the first time, or the root it was proven against was replaced.
\* getL2Output reverts while that index is not proposed again.
MayProve(w) ==
  LET proven == provenWithdrawals[w] IN
  \/ proven.timestamp = 0
  \/ /\ OutputExists(proven.l2OutputIndex)
     /\ l2Outputs[proven.l2OutputIndex].outputRoot # proven.outputRoot

\* Bug: proving again asks the queue for the ether again.
NeedsRequest_EveryProof(w) == Value[w] > 0

NeedsRequest(w) == Value[w] > 0 /\ provenWithdrawals[w].timestamp = 0

proveWithdrawalTransaction(w, l2OutputIndex) ==
  /\ ~paused
  /\ Target[w] \notin {PORTAL, YIELD_MANAGER}
  /\ OutputExists(l2OutputIndex)
  /\ w \in l2Outputs[l2OutputIndex].outputRoot
  /\ MayProve(w)
  /\ IF NeedsRequest(w) THEN requestWithdrawal(PORTAL, Value[w]) ELSE UNCHANGED queueVars
  /\ provenWithdrawals' =
       [provenWithdrawals EXCEPT ![w] =
          [outputRoot    |-> l2Outputs[l2OutputIndex].outputRoot,
           timestamp     |-> now,
           l2OutputIndex |-> l2OutputIndex,
           requestId     |-> IF NeedsRequest(w) THEN lastRequestId + 1
                             ELSE provenWithdrawals[w].requestId]]
  /\ UNCHANGED <<now, oracleVars, tokenBalance, finalizedWithdrawals, l2Sender, paused,
                 portalBalance, frame, paidTo, callsTo, deposits>>

-----------------------------------------------------------------------------
(* Finalizing *)

\* Bug: the boundary second counts as elapsed.
IsFinalizationPeriodElapsed_Early(timestamp) ==
  now >= timestamp + FINALIZATION_PERIOD_SECONDS - 1

isFinalizationPeriodElapsed(timestamp) == now > timestamp + FINALIZATION_PERIOD_SECONDS

\* Bug: the output is looked up but its root is not compared.
OutputStillThere_AnyRoot(w) == OutputExists(provenWithdrawals[w].l2OutputIndex)

\* The output it was proven against is at its index, with the same root.
OutputStillThere(w) ==
  LET i == provenWithdrawals[w].l2OutputIndex IN
  /\ OutputExists(i)
  /\ l2Outputs[i].outputRoot = provenWithdrawals[w].outputRoot

\* Every wait the portal imposes is over.
WaitedOut(w) ==
  LET proven == provenWithdrawals[w] IN
  /\ proven.timestamp # 0
  /\ proven.timestamp >= startingTimestamp
  /\ isFinalizationPeriodElapsed(proven.timestamp)
  /\ OutputStillThere(w)
  /\ isFinalizationPeriodElapsed(l2Outputs[proven.l2OutputIndex].timestamp)

\* Bug: nothing stops a finalization inside a finalization.
NotInsideCall_Unguarded == TRUE

NotInsideCall == l2Sender = DEFAULT_L2_SENDER

\* Bug: replay protection is missing.
NotReplayed_Unguarded(w) == TRUE

NotReplayed(w) == w \notin finalizedWithdrawals

\* The portal claims the ether of a withdrawal that carries any; what arrives
\* is what is passed on.
ClaimEther(w, hintId) ==
  IF Value[w] > 0 THEN claimWithdrawal(provenWithdrawals[w].requestId, hintId, PORTAL)
                  ELSE UNCHANGED managerVars

\* Bug: the nominal value is passed on, whatever the queue paid.
ValueWithDiscount_Nominal(w) == Value[w]

ValueWithDiscount(w) == tokenBalance - tokenBalance'

\* What finalizeWithdrawalTransaction does before it calls the target.
Finalizing(w, hintId) ==
  /\ ~paused
  /\ NotInsideCall
  /\ WaitedOut(w)
  /\ NotReplayed(w)
  /\ finalizedWithdrawals' = finalizedWithdrawals \cup {w}
  /\ ClaimEther(w, hintId)
  /\ callsTo' = [callsTo EXCEPT ![w] = @ + 1]

\* The target is called and will succeed: its calls follow.
enterTarget(w, hintId) ==
  /\ Finalizing(w, hintId)
  /\ l2Sender' = Sender[w]
  /\ frame' = w
  /\ portalBalance + (tokenBalance - tokenBalance') - ValueWithDiscount(w) >= 0
  /\ portalBalance' = portalBalance + (tokenBalance - tokenBalance') - ValueWithDiscount(w)
  /\ paidTo' = [paidTo EXCEPT ![w] = @ + ValueWithDiscount(w)]
  /\ UNCHANGED <<now, oracleVars, provenWithdrawals, paused, deposits>>

\* The target returns.
leaveTarget ==
  /\ frame # NoWithdrawal
  /\ frame' = NoWithdrawal
  /\ l2Sender' = DEFAULT_L2_SENDER
  /\ UNCHANGED <<now, oracleVars, managerVars, provenWithdrawals, finalizedWithdrawals,
                 paused, portalBalance, paidTo, callsTo, deposits>>

\* The target's call fails: the withdrawal is spent and its ether stays here.
failTarget(w, hintId) ==
  /\ Finalizing(w, hintId)
  /\ portalBalance' = portalBalance + (tokenBalance - tokenBalance')
  /\ l2Sender' = DEFAULT_L2_SENDER
  /\ UNCHANGED <<now, oracleVars, provenWithdrawals, paused, frame, paidTo, deposits>>

-----------------------------------------------------------------------------
(* Deposits *)

\* The ether goes on to the yield manager; minting on L2 follows the event.
depositTransaction(value) ==
  /\ deposits < MaxDeposits
  /\ tokenBalance + value \in Balances
  /\ deposits' = deposits + 1
  /\ tokenBalance' = tokenBalance + value
  /\ UNCHANGED <<now, oracleVars, queueVars, provenWithdrawals, finalizedWithdrawals,
                 l2Sender, paused, portalBalance, frame, paidTo, callsTo>>

donateETH(value) ==
  /\ deposits < MaxDeposits
  /\ deposits' = deposits + 1
  /\ portalBalance' = portalBalance + value
  /\ UNCHANGED <<now, oracleVars, managerVars, provenWithdrawals, finalizedWithdrawals,
                 l2Sender, paused, frame, paidTo, callsTo>>

-----------------------------------------------------------------------------

\* The yield manager's admin finalizes a batch of requests, stakes unlocked
\* ether and gets it back (YieldManager.tla has the details).
ManagerCall == (Finalize \/ Spend \/ Receive) /\ UNCHANGED <<now, oracleVars, portalVars>>

PortalCall ==
  \/ \E p \in BOOLEAN : setPaused(p)
  \/ \E w \in Withdrawals, i \in 1 .. Len(l2Outputs) : proveWithdrawalTransaction(w, i)
  \/ \E w \in Withdrawals, h \in 0 .. lastCheckpointId : enterTarget(w, h)
  \/ \E w \in Withdrawals, h \in 0 .. lastCheckpointId : failTarget(w, h)
  \/ leaveTarget
  \/ \E v \in Amounts : depositTransaction(v)
  \/ \E v \in Amounts : donateETH(v)

Call ==
  \/ PortalCall
  \/ ManagerCall
  \/ OracleCall /\ UNCHANGED <<managerVars, portalVars>>

\* No block ends while a target is being called.
EndOfBlock == frame = NoWithdrawal /\ NextBlock /\ UNCHANGED <<managerVars, portalVars>>

PortalNext == Call \/ EndOfBlock

PortalSpec == PortalInit /\ [][PortalNext]_allVars

-----------------------------------------------------------------------------
(* Properties *)

Proven == {w \in Withdrawals : provenWithdrawals[w].timestamp # 0}

\* A finalized withdrawal is one its recorded output commits to, and that
\* output is still in the oracle with that root, past the finalization period,
\* and stays there: no truncation by the challenger, no re-proof and no move
\* of the clock ever leaves a finalized withdrawal without the output that
\* justified it.
FinalizedStayCommitted ==
  \A w \in finalizedWithdrawals :
    LET proven == provenWithdrawals[w] IN
    /\ w \in Proven
    /\ OutputExists(proven.l2OutputIndex)
    /\ l2Outputs[proven.l2OutputIndex].outputRoot = proven.outputRoot
    /\ w \in proven.outputRoot
    /\ now > proven.timestamp + FINALIZATION_PERIOD_SECONDS
    /\ now > l2Outputs[proven.l2OutputIndex].timestamp + FINALIZATION_PERIOD_SECONDS

\* invariant-docs/PatexPortal.md: no chain of calls, those of the target
\* included, finalizes a withdrawal twice.  The target of a withdrawal is
\* called exactly once, when it becomes finalized.
CalledOnce ==
  \A w \in Withdrawals : callsTo[w] = IF w \in finalizedWithdrawals THEN 1 ELSE 0

\* Inside the call to a target, and only there, the portal names the L2 sender
\* of that withdrawal: a nested call can neither change nor reset it.
SenderMatchesFrame ==
  l2Sender = IF frame = NoWithdrawal THEN DEFAULT_L2_SENDER ELSE Sender[frame]

\* The queue and the portal agree: requests and proven withdrawals that carry
\* ether correspond one to one, with the same amount, the portal as recipient,
\* and claimed exactly when the withdrawal is finalized.
RequestOf(w) == provenWithdrawals[w].requestId

RequestsMatchWithdrawals ==
  /\ \A w \in Proven : Value[w] > 0 =>
       /\ RequestOf(w) \in 1 .. lastRequestId
       /\ NominalAmount(RequestOf(w)) = Value[w]
       /\ requests[RequestOf(w)].recipient = PORTAL
       /\ requests[RequestOf(w)].claimed <=> w \in finalizedWithdrawals
       /\ \A v \in Proven : Value[v] > 0 /\ RequestOf(v) = RequestOf(w) => v = w
  /\ \A id \in 1 .. lastRequestId : \E w \in Proven : Value[w] > 0 /\ RequestOf(w) = id

\* A target is paid what the queue paid for its withdrawal, never more than
\* its value, and never from ether stranded in the portal by failed calls or
\* donated to it.
PortalEtherUntouched ==
  [][portalBalance' >= portalBalance]_allVars

NeverOverpaid == \A w \in Withdrawals : paidTo[w] <= Value[w]

\* The portal's records, the queue's requests and the payments agree.
PortalInv ==
  /\ PortalTypeOK
  /\ RequestsMatchWithdrawals
  /\ NeverOverpaid

\* Once the waits are over and the batch of its request is finalized, nothing
\* else can stand in the way of a withdrawal: its claim is still open, some
\* hint is valid, and the locked balance and the tokens are there to pay it.
ClaimNeverBlocked ==
  \A w \in Proven \ finalizedWithdrawals :
    Value[w] > 0 /\ RequestOf(w) <= lastFinalizedRequestId =>
      /\ Claimable(RequestOf(w), PORTAL)
      /\ \E h \in 1 .. lastCheckpointId :
           /\ ValidHint(RequestOf(w), h)
           /\ calculateClaimableEther(RequestOf(w), h) <= lockedBalance
      /\ lockedBalance <= tokenBalance
=============================================================================
