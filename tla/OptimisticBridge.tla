--------------------------- MODULE OptimisticBridge ---------------------------
(***************************************************************************)
(* The withdrawal path end to end: the L2ToL1MessagePasser in which a       *)
(* withdrawal is recorded (contracts/L2/L2ToL1MessagePasser.sol), any       *)
(* proposer, and a challenger who deletes every output that commits to a    *)
(* withdrawal that was not sent, before the finalization period is over.    *)
(* The challenger's program is not in the repository; what the contracts    *)
(* make of its diligence is the question here.                              *)
(***************************************************************************)
EXTENDS PatexPortal

VARIABLE sentMessages   \* the message passer's mapping, as a set

bridgeVars == <<allVars, sentMessages>>

\* The nonce makes the hash of every withdrawal new.
initiateWithdrawal(w) ==
  /\ w \notin sentMessages
  /\ sentMessages' = sentMessages \cup {w}
  /\ UNCHANGED allVars

Bogus(i) == ~(l2Outputs[i].outputRoot \subseteq sentMessages)

\* The challenger has until the output could no longer be deleted.
ChallengerInTime ==
  \A i \in 1 .. Len(l2Outputs) : Bogus(i) =>
    now + 1 - l2Outputs[i].timestamp < FINALIZATION_PERIOD_SECONDS

BridgeInit == PortalInit /\ sentMessages = {}

BridgeNext ==
  \/ \E w \in Withdrawals : initiateWithdrawal(w)
  \/ Call /\ UNCHANGED sentMessages
  \/ ChallengerInTime /\ EndOfBlock /\ UNCHANGED sentMessages

BridgeSpec == BridgeInit /\ [][BridgeNext]_bridgeVars

\* With one diligent challenger nobody can finalize a withdrawal that was not
\* sent on L2, whatever outputs the proposer posts and in whatever order
\* withdrawals are proven, outputs deleted and replaced, and proven again.
OnlySentFinalized == finalizedWithdrawals \subseteq sentMessages

\* The withdrawal path is such a channel as the pair of messengers promises to
\* be, one layer below it: the target of a withdrawal is called at most once,
\* whether the call succeeds or fails, and only after the message passer
\* recorded it, through whatever proofs, truncations and nested calls.
Delivery ==
  INSTANCE MessageDelivery WITH
    Messages <- Withdrawals, Already <- {}, sent <- sentMessages, deliveries <- callsTo

WithdrawalsDelivered == Delivery!Spec
=============================================================================
