------------------------ MODULE CrossDomainMessenger ------------------------
(***************************************************************************)
(* contracts/universal/CrossDomainMessenger.sol and its two ends,           *)
(* L1/L1CrossDomainMessenger.sol and L2/L2CrossDomainMessenger.sol.         *)
(*                                                                          *)
(* A message sent on L1 travels as a deposit, which L2 executes once and in *)
(* order; one sent on L2 travels as a withdrawal, which the portal hands    *)
(* over once, at any time, with its ether less a discount (PatexPortal.tla  *)
(* has the details).  A message whose target fails is kept, and anybody may *)
(* replay it.                                                               *)
(*                                                                          *)
(* The target of a message may call the messengers again, so relaying one   *)
(* successfully is two steps; a target that fails undoes what it did.  The  *)
(* two ends differ: L1 lets no second message run inside a first and keeps  *)
(* it for a replay, L2 only locks the message itself.                       *)
(*                                                                          *)
(* A message stands for its hash; its nonce makes it unique.  The gas sent  *)
(* along (baseGas) is taken to suffice for a first delivery on L2; on L1 a  *)
(* shortage of gas fails the message.  The revert that serves gas           *)
(* estimation is left out.                                                  *)
(***************************************************************************)
EXTENDS Integers, Sequences, FiniteSetsExt, SequencesExt

CONSTANTS
  Messages,
  To,                    \* the chain a message is for
  Value, Sender,         \* fields of a message
  UnsafeTarget,          \* messages for the messenger, the portal, ...
  RelayedLegacy,         \* migrated withdrawals that were relayed long ago
  Senders, DEFAULT_L2_SENDER

L1 == "L1"
L2 == "L2"
Chains == {L1, L2}

ASSUME MessengerAssumption ==
  /\ To \in [Messages -> Chains]
  /\ Value \in [Messages -> Nat]
  /\ Sender \in [Messages -> Senders]
  /\ DEFAULT_L2_SENDER \notin Senders
  /\ UnsafeTarget \subseteq Messages
  /\ RelayedLegacy \subseteq {m \in Messages : To[m] = L1}

VARIABLES
  sent,                  \* messages sent, on either chain
  deposits,              \* those on their way to L2
  finalized,             \* those the portal has handed over on L1
  successfulMessages,    \* on the chain the message is for, as are the next two
  failedMessages,
  reentrancyLocks,
  xDomainMsgSender,      \* per chain
  discountedValues,
  balance,               \* ether held by the messenger of each chain
  executing,             \* per chain: the messages whose targets are being called
  portalBusy,            \* the message executing on L1 came through the portal
  received,              \* history: the ether that arrived with a message
  paid,                  \* history: the ether its target got
  calls                  \* history: successful calls of its target

relayVars == <<successfulMessages, failedMessages, reentrancyLocks, xDomainMsgSender,
               discountedValues, balance, executing, portalBusy, paid, calls>>
messengerVars == <<sent, deposits, finalized, received, relayVars>>

MessengerTypeOK ==
  /\ sent \subseteq Messages
  /\ deposits \in Seq({m \in Messages : To[m] = L2})
  /\ finalized \subseteq {m \in Messages : To[m] = L1}
  /\ successfulMessages \subseteq Messages
  /\ failedMessages \subseteq Messages
  /\ reentrancyLocks \subseteq {m \in Messages : To[m] = L2}
  /\ xDomainMsgSender \in [Chains -> Senders \cup {DEFAULT_L2_SENDER}]
  /\ discountedValues \in [Messages -> Nat]
  /\ balance \in [Chains -> Nat]
  /\ executing \in [Chains -> Seq(Messages)]
  /\ portalBusy \in BOOLEAN
  /\ received \in [Messages -> Nat]
  /\ paid \in [Messages -> Nat]
  /\ calls \in [Messages -> Nat]

MessengerInit ==
  /\ sent = RelayedLegacy
  /\ deposits = <<>>
  /\ finalized = {}
  /\ successfulMessages = {}
  /\ failedMessages = {}
  /\ reentrancyLocks = {}
  /\ xDomainMsgSender = [c \in Chains |-> DEFAULT_L2_SENDER]
  /\ discountedValues = [m \in Messages |-> 0]
  /\ balance = [c \in Chains |-> 0]
  /\ executing = [c \in Chains |-> <<>>]
  /\ portalBusy = FALSE
  /\ received = [m \in Messages |-> 0]
  /\ paid = [m \in Messages |-> 0]
  /\ calls = [m \in Messages |-> 0]

Idle(c) == executing[c] = <<>>

-----------------------------------------------------------------------------
(* Sending *)

DepositsWith(m) == IF To[m] = L2 THEN Append(deposits, m) ELSE deposits

sendMessage(m) ==
  /\ m \notin sent
  /\ sent' = sent \cup {m}
  /\ deposits' = DepositsWith(m)
  /\ UNCHANGED <<finalized, received, relayVars>>

-----------------------------------------------------------------------------
(* Relaying *)

\* What both ends ask of a message, new or replayed.
MayRelay(m) ==
  /\ m \notin RelayedLegacy
  /\ m \notin UnsafeTarget
  /\ m \notin successfulMessages

\* Bug: a message that was not even tried is not marked as failed.
FailedWith_OnlyCalled(m) == IF Idle(To[m]) THEN failedMessages \cup {m} ELSE failedMessages

FailedWith(m) == failedMessages \cup {m}

\* The call fails, or is not made; arrived is the ether that came along.
KeepForReplay(m, arrived) ==
  /\ failedMessages' = FailedWith(m)
  /\ balance' = [balance EXCEPT ![To[m]] = @ + arrived]
  /\ UNCHANGED <<successfulMessages, reentrancyLocks, executing, portalBusy, paid, calls>>

\* The target is called, with value, and will succeed.
Enter(m, arrived, value) ==
  /\ balance[To[m]] + arrived >= value
  /\ balance' = [balance EXCEPT ![To[m]] = @ + arrived - value]
  /\ paid' = [paid EXCEPT ![m] = @ + value]
  /\ xDomainMsgSender' = [xDomainMsgSender EXCEPT ![To[m]] = Sender[m]]
  /\ executing' = [executing EXCEPT ![To[m]] = Append(@, m)]
  /\ UNCHANGED <<successfulMessages, failedMessages, discountedValues, calls>>

\* Bug: a message may run inside another on L1 as well.
MayEnterL1_Nested == TRUE

MayEnterL1 == xDomainMsgSender[L1] = DEFAULT_L2_SENDER

\* Relaying on L1: a message inside another is kept for a replay.
relayMessageL1(m, arrived, value, fromPortal) ==
  /\ MayRelay(m)
  /\ \/ /\ KeepForReplay(m, arrived)
        /\ discountedValues' = [discountedValues EXCEPT ![m] = value]
        /\ UNCHANGED xDomainMsgSender
     \/ /\ MayEnterL1
        /\ Enter(m, arrived, value)
        /\ portalBusy' = fromPortal
        /\ UNCHANGED reentrancyLocks

\* Bug: the lock on the message is missing.
Unlocked_Always(m) == TRUE

Unlocked(m) == m \notin reentrancyLocks

\* Relaying on L2: other messages may run inside this one, and reset
\* xDomainMsgSender when they are done.
relayMessageL2(m, arrived) ==
  /\ MayRelay(m)
  /\ Unlocked(m)
  /\ \/ /\ KeepForReplay(m, arrived)
        /\ xDomainMsgSender' = [xDomainMsgSender EXCEPT ![L2] = DEFAULT_L2_SENDER]
        /\ UNCHANGED discountedValues
     \/ /\ Enter(m, arrived, Value[m])
        /\ reentrancyLocks' = reentrancyLocks \cup {m}
        /\ UNCHANGED portalBusy

\* The target returns.
leave(c) ==
  /\ ~Idle(c)
  /\ LET m == Last(executing[c]) IN
       /\ successfulMessages' = successfulMessages \cup {m}
       /\ calls' = [calls EXCEPT ![m] = @ + 1]
       /\ reentrancyLocks' = reentrancyLocks \ {m}
  /\ executing' = [executing EXCEPT ![c] = Front(@)]
  /\ xDomainMsgSender' = [xDomainMsgSender EXCEPT ![c] = DEFAULT_L2_SENDER]
  /\ portalBusy' = (portalBusy /\ c = L2)
  /\ UNCHANGED <<sent, deposits, finalized, received, failedMessages, discountedValues,
                 balance, paid>>

-----------------------------------------------------------------------------
(* First deliveries *)

\* The assertion on msg.value on L1.
ValueAccepted(m, value) == value <= Value[m] /\ (Value[m] = 0 \/ value > 0)

\* The portal finalizes the withdrawal that carries m, with the ether the queue
\* paid.  If the messenger reverts, the ether stays with the portal.
deliverOnL1(m, value) ==
  /\ To[m] = L1
  /\ m \in sent \ finalized
  /\ ~portalBusy
  /\ value <= Value[m]
  /\ finalized' = finalized \cup {m}
  /\ \/ /\ ValueAccepted(m, value)
        /\ m \notin failedMessages
        /\ relayMessageL1(m, value, value, TRUE)
        /\ received' = [received EXCEPT ![m] = value]
     \/ /\ ~(ValueAccepted(m, value) /\ m \notin failedMessages /\ MayRelay(m))
        /\ UNCHANGED <<received, relayVars>>
  /\ UNCHANGED <<sent, deposits>>

\* The deposit that carries m is executed on L2.  If the messenger reverts, the
\* minted ether stays with the sender's alias.
deliverOnL2 ==
  /\ deposits # <<>>
  /\ Idle(L2)
  /\ deposits' = Tail(deposits)
  /\ LET m == Head(deposits)
         accepted == m \notin failedMessages /\ MayRelay(m) /\ Unlocked(m)
     IN  \/ /\ accepted
            /\ relayMessageL2(m, Value[m])
            /\ received' = [received EXCEPT ![m] = Value[m]]
         \/ ~accepted /\ UNCHANGED <<received, relayVars>>
  /\ UNCHANGED <<sent, finalized>>

-----------------------------------------------------------------------------
(* Replays, by anyone, also from the target of another message *)

\* Bug: a replay on L1 sends the nominal value.
ReplayValue_Nominal(m) == Value[m]

ReplayValue(m) == discountedValues[m]

replay(m) ==
  /\ m \in failedMessages
  /\ \/ To[m] = L1 /\ relayMessageL1(m, 0, ReplayValue(m), FALSE)
     \/ To[m] = L2 /\ relayMessageL2(m, 0)
  /\ UNCHANGED <<sent, deposits, finalized, received>>

MessengerNext ==
  \/ \E m \in Messages : sendMessage(m)
  \/ \E m \in Messages : \E value \in 0 .. Value[m] : deliverOnL1(m, value)
  \/ deliverOnL2
  \/ \E m \in Messages : replay(m)
  \/ \E c \in Chains : leave(c)

MessengerSpec == MessengerInit /\ [][MessengerNext]_messengerVars
-----------------------------------------------------------------------------
(* Properties *)

\* The target of a message is successfully called at most once, in spite of
\* replays, replays inside the call and new deliveries; and only if the message
\* was sent on the other chain.  A migrated message is not delivered again.
Delivery ==
  INSTANCE MessageDelivery WITH
    Already    <- RelayedLegacy,
    deliveries <- [m \in Messages |-> calls[m] + IF m \in RelayedLegacy THEN 1 ELSE 0]

DeliveryImplemented == Delivery!Spec

Executing(c) == ToSet(executing[c])

\* The messenger of a chain holds exactly the ether of the messages that failed
\* and are still to be replayed: each of them can be, and none is paid for with
\* the ether of another, which would take a balance below zero.  Replayed however
\* often, a message pays its target what arrived with it: the discount of the
\* first delivery applies, once.
Waiting(c) == {m \in failedMessages \ successfulMessages : To[m] = c} \ Executing(c)

EtherAccountedFor ==
  /\ MessengerTypeOK
  /\ \A c \in Chains : balance[c] = SumFunctionOnSet(received, Waiting(c))
  /\ \A m \in Messages :
       paid[m] = IF m \in successfulMessages \cup Executing(To[m]) THEN received[m] ELSE 0

\* A target that asks for the sender of the message it executes is never told
\* another one's: the innermost message counts, and on L1, where messages do not
\* nest, there always is an answer.
SenderOfExecuting ==
  /\ \A c \in Chains : xDomainMsgSender[c] # DEFAULT_L2_SENDER =>
       ~Idle(c) /\ xDomainMsgSender[c] = Sender[Last(executing[c])]
  /\ ~Idle(L1) => xDomainMsgSender[L1] # DEFAULT_L2_SENDER

\* A message that was handed to the messenger of its chain is delivered, being
\* delivered, or can be replayed.
HandedOver == finalized \cup {m \in sent : To[m] = L2 /\ m \notin ToSet(deposits)}

Kept(m) == m \in failedMessages \cup successfulMessages \cup Executing(To[m])

\* Only unsafe targets, migrated messages and messages whose ether was
\* discounted to nothing are turned away for good.
NothingElseLost ==
  \A m \in HandedOver \ (UnsafeTarget \cup RelayedLegacy) :
    Kept(m) \/ (To[m] = L1 /\ Value[m] > 0 /\ received[m] = 0)

-----------------------------------------------------------------------------
(* What the repository's documents say and the code does not do *)

\* invariant-docs/CrossDomainMessenger.md: "A call to relayMessage should never
\* revert if at least the proper minimum gas limits are supplied."
RelayNeverReverts ==
  \A m \in HandedOver \ (UnsafeTarget \cup RelayedLegacy) : Kept(m)
=============================================================================
