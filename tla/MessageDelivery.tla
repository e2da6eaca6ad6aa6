--------------------------- MODULE MessageDelivery ---------------------------
(***************************************************************************)
(* What a channel between the two chains promises: the target of a message  *)
(* is called at most once, and only if the message was sent on the other    *)
(* chain.  For the pair of cross-domain messengers the calls that count are *)
(* the successful ones; for the withdrawals below them, every call.         *)
(***************************************************************************)
EXTENDS Naturals

CONSTANTS
  Messages,
  Already                \* sent and delivered before the system was upgraded

VARIABLES
  sent,
  deliveries             \* calls to the target of each message

vars == <<sent, deliveries>>

Init ==
  /\ sent = Already
  /\ deliveries = [m \in Messages |-> IF m \in Already THEN 1 ELSE 0]

Send(m) ==
  /\ m \notin sent
  /\ sent' = sent \cup {m}
  /\ UNCHANGED deliveries

Deliver(m) ==
  /\ m \in sent
  /\ deliveries[m] = 0
  /\ deliveries' = [deliveries EXCEPT ![m] = 1]
  /\ UNCHANGED sent

Next == \E m \in Messages : Send(m) \/ Deliver(m)

Spec == Init /\ [][Next]_vars
=============================================================================
