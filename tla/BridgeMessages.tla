---------------------------- MODULE BridgeMessages ----------------------------
(***************************************************************************)
(* What the token bridges use of the cross-domain messengers: a message     *)
(* carries a call to the other bridge, and that call succeeds at most once. *)
(* MessageDelivery says so, and CrossDomainMessenger.tla implements it.  A  *)
(* call that reverts leaves its message to be replayed, at any time.  Only  *)
(* the other bridge can have sent it (onlyOtherBridge), since a bridge      *)
(* names its counterpart and the messenger names the sender.                *)
(***************************************************************************)
EXTENDS Naturals, Sequences, FiniteSets

CONSTANT MaxMessages     \* bound: messages between the bridges

ASSUME MessagesAssumption == MaxMessages \in Nat

VARIABLES
  sent, deliveries,      \* of MessageDelivery
  body                   \* body[m]: the call that message m carries

messageVars == <<sent, deliveries, body>>

Messages == 1 .. MaxMessages
Already == {}

Delivery == INSTANCE MessageDelivery

MessagesInit == Delivery!Init /\ body = <<>>

\* messenger.sendMessage to the other bridge; messageNonce numbers the messages.
Post(call) ==
  LET m == Len(body) + 1 IN
  /\ m \in Messages
  /\ Delivery!Send(m)
  /\ body' = Append(body, call)

\* The messenger makes the call, and it succeeds.
Hand(m) == Delivery!Deliver(m) /\ UNCHANGED body

\* Messages whose call has not succeeded yet.
Pending == {m \in sent : deliveries[m] = 0}
=============================================================================
