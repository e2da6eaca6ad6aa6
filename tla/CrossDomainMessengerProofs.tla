---------------------- MODULE CrossDomainMessengerProofs ----------------------
(***************************************************************************)
(* Theorems about CrossDomainMessenger.tla, for any messages: each is       *)
(* delivered at most once, a target is told its own sender, none is lost    *)
(* but for three reasons, and the ether of each is there until it is paid.  *)
(***************************************************************************)
EXTENDS CrossDomainMessenger, RecursionTheorems

Distinct(s) == \A i, j \in DOMAIN s : s[i] = s[j] => i = j

\* What is being executed: on L1 one message at most, on L2 what is locked, each
\* message once, and nothing that has been delivered.
RunningOK ==
  /\ Len(executing[L1]) <= 1
  /\ reentrancyLocks = Executing(L2)
  /\ Distinct(executing[L2])
  /\ \A c \in Chains : \A m \in Executing(c) :
       To[m] = c /\ m \in sent \ (successfulMessages \cup RelayedLegacy)

\* What the maps record.
RecordsOK ==
  /\ RelayedLegacy \subseteq sent
  /\ ToSet(deposits) \subseteq sent
  /\ failedMessages \subseteq sent
  /\ successfulMessages \cap RelayedLegacy = {}
  /\ \A m \in Messages : calls[m] = IF m \in successfulMessages THEN 1 ELSE 0
  /\ \A m \in Messages : To[m] = L1 /\ m \notin finalized => received[m] = 0

MessengerInv ==
  /\ MessengerTypeOK
  /\ RunningOK
  /\ RecordsOK
  /\ SenderOfExecuting
  /\ NothingElseLost

-----------------------------------------------------------------------------
(* Sequences without repetitions, at both ends *)

\* A sequence with one more element, at the end.
LEMMA Pushed ==
  ASSUME NEW S, NEW s \in Seq(S), NEW x \in S
  PROVE  /\ Append(s, x) \in Seq(S)
         /\ Append(s, x) # <<>>
         /\ Len(Append(s, x)) = Len(s) + 1
         /\ Last(Append(s, x)) = x
         /\ ToSet(Append(s, x)) = ToSet(s) \cup {x}
         /\ Distinct(s) /\ x \notin ToSet(s) => Distinct(Append(s, x))
<1> DEFINE t == Append(s, x)
<1>1. /\ t \in Seq(S) /\ Len(t) = Len(s) + 1 /\ Len(s) \in Nat
      /\ DOMAIN s = 1 .. Len(s) /\ DOMAIN t = 1 .. Len(s) + 1
      /\ t[Len(s) + 1] = x /\ \A i \in 1 .. Len(s) : t[i] = s[i]
  OBVIOUS
<1> HIDE DEF t
<1>2. t # <<>>
  BY <1>1
<1>3. Last(t) = x
  BY <1>1 DEF Last
<1>4. ToSet(t) = ToSet(s) \cup {x}
  <2>1. ASSUME NEW y \in ToSet(t) PROVE y \in ToSet(s) \cup {x}
    BY <1>1, <2>1 DEF ToSet
  <2>2. ASSUME NEW y \in ToSet(s) PROVE y \in ToSet(t)
    <3>1. PICK i \in DOMAIN s : y = s[i]
      BY DEF ToSet
    <3>2. i \in DOMAIN t /\ t[i] = y
      BY <1>1, <3>1
    <3> QED BY <3>2 DEF ToSet
  <2>3. x \in ToSet(t)
    <3>1. Len(s) + 1 \in DOMAIN t
      BY <1>1
    <3> QED BY <1>1, <3>1 DEF ToSet
  <2> QED BY <2>1, <2>2, <2>3
<1>5. ASSUME Distinct(s), x \notin ToSet(s) PROVE Distinct(t)
  <2>1. \A i \in 1 .. Len(s) : s[i] # x
    BY <1>1, <1>5 DEF ToSet
  <2>2. ASSUME NEW i \in DOMAIN t, NEW j \in DOMAIN t, t[i] = t[j] PROVE i = j
    <3>1. CASE i \in 1 .. Len(s) /\ j \in 1 .. Len(s)
      BY <1>1, <1>5, <2>2, <3>1 DEF Distinct
    <3>2. CASE i = Len(s) + 1 \/ j = Len(s) + 1
      BY <1>1, <2>1, <2>2, <3>2
    <3> QED BY <1>1, <3>1, <3>2
  <2> QED BY <2>2 DEF Distinct
<1> QED BY <1>1, <1>2, <1>3, <1>4, <1>5 DEF t

\* A sequence is what it was without its last element, and that element; where
\* none occurs twice, it is not among the others.
LEMMA Popped ==
  ASSUME NEW S, NEW s \in Seq(S), s # <<>>
  PROVE  /\ Front(s) \in Seq(S)
         /\ Len(Front(s)) = Len(s) - 1
         /\ Last(s) \in S
         /\ ToSet(s) = ToSet(Front(s)) \cup {Last(s)}
         /\ Distinct(s) => Distinct(Front(s)) /\ Last(s) \notin ToSet(Front(s))
<1> DEFINE t == SubSeq(s, 1, Len(s) - 1)
<1>1. Len(s) \in Nat /\ Len(s) > 0 /\ DOMAIN s = 1 .. Len(s) /\ Len(s) \in DOMAIN s
  OBVIOUS
<1>2. /\ t \in Seq(S) /\ Len(t) = Len(s) - 1 /\ DOMAIN t = 1 .. Len(s) - 1
      /\ \A i \in 1 .. Len(s) - 1 : t[i] = s[i]
  BY <1>1
<1> HIDE DEF t
<1>3. s[Len(s)] \in S
  BY <1>1
<1>4. ToSet(s) = ToSet(t) \cup {s[Len(s)]}
  <2>1. ASSUME NEW y \in ToSet(s) PROVE y \in ToSet(t) \cup {s[Len(s)]}
    <3>1. PICK i \in DOMAIN s : y = s[i]
      BY DEF ToSet
    <3>2. i = Len(s) \/ i \in DOMAIN t
      BY <1>1, <1>2, <3>1
    <3> QED BY <1>2, <3>1, <3>2 DEF ToSet
  <2>2. ASSUME NEW y \in ToSet(t) PROVE y \in ToSet(s)
    BY <1>1, <1>2, <2>2 DEF ToSet
  <2>3. s[Len(s)] \in ToSet(s)
    BY <1>1 DEF ToSet
  <2> QED BY <2>1, <2>2, <2>3
<1>5. ASSUME Distinct(s) PROVE Distinct(t) /\ s[Len(s)] \notin ToSet(t)
  <2>1. Distinct(t)
    BY <1>1, <1>2, <1>5 DEF Distinct
  <2>2. ASSUME NEW i \in DOMAIN t PROVE t[i] # s[Len(s)]
    <3>1. i \in DOMAIN s /\ i # Len(s) /\ t[i] = s[i]
      BY <1>1, <1>2
    <3> QED BY <1>1, <1>5, <3>1 DEF Distinct
  <2> QED BY <2>1, <2>2 DEF ToSet
<1> QED BY <1>2, <1>3, <1>4, <1>5 DEF t, Front, Last

\* A sequence is its first element and the rest.
LEMMA Shifted ==
  ASSUME NEW S, NEW s \in Seq(S), s # <<>>
  PROVE  /\ Tail(s) \in Seq(S)
         /\ Head(s) \in S
         /\ ToSet(s) = ToSet(Tail(s)) \cup {Head(s)}
<1> DEFINE t == Tail(s)
<1>1. /\ Len(s) \in Nat /\ Len(s) > 0 /\ DOMAIN s = 1 .. Len(s) /\ Head(s) = s[1]
      /\ t \in Seq(S) /\ DOMAIN t = 1 .. Len(s) - 1
      /\ \A i \in 1 .. Len(s) - 1 : t[i] = s[i + 1]
  OBVIOUS
<1> HIDE DEF t
<1>2. Head(s) \in S /\ Head(s) \in ToSet(s)
  BY <1>1 DEF ToSet
<1>3. ASSUME NEW y \in ToSet(s) PROVE y \in ToSet(t) \cup {Head(s)}
  <2>1. PICK i \in DOMAIN s : y = s[i]
    BY DEF ToSet
  <2>2. CASE i = 1
    BY <1>1, <2>1, <2>2
  <2>3. CASE i # 1
    <3>1. i - 1 \in DOMAIN t /\ t[i - 1] = y
      BY <1>1, <2>1, <2>3
    <3> QED BY <3>1 DEF ToSet
  <2> QED BY <2>2, <2>3
<1>4. ASSUME NEW y \in ToSet(t) PROVE y \in ToSet(s)
  <2>1. PICK i \in DOMAIN t : y = t[i]
    BY DEF ToSet
  <2>2. i + 1 \in DOMAIN s /\ s[i + 1] = y
    BY <1>1, <2>1
  <2> QED BY <2>2 DEF ToSet
<1> QED BY <1>1, <1>2, <1>3, <1>4 DEF t

-----------------------------------------------------------------------------
(* Relaying, whether for the first time or again, on either chain *)

Keeps(m, arrived) ==
  /\ KeepForReplay(m, arrived)
  /\ \/ /\ To[m] = L1
        /\ UNCHANGED xDomainMsgSender
        /\ discountedValues' \in [Messages -> Nat]
     \/ /\ To[m] = L2
        /\ xDomainMsgSender' = [xDomainMsgSender EXCEPT ![L2] = DEFAULT_L2_SENDER]
        /\ UNCHANGED discountedValues

Enters(m, arrived, value) ==
  /\ Enter(m, arrived, value)
  /\ \/ To[m] = L1 /\ MayEnterL1 /\ portalBusy' \in BOOLEAN /\ UNCHANGED reentrancyLocks
     \/ To[m] = L2 /\ Unlocked(m) /\ reentrancyLocks' = reentrancyLocks \cup {m}
        /\ UNCHANGED portalBusy

Relays(m, arrived) ==
  /\ m \in sent
  /\ MayRelay(m)
  /\ UNCHANGED sent
  /\ Keeps(m, arrived) \/ \E value \in Nat : Enters(m, arrived, value)

RelayTypeOK ==
  /\ successfulMessages \subseteq Messages
  /\ failedMessages \subseteq Messages
  /\ reentrancyLocks \subseteq {m \in Messages : To[m] = L2}
  /\ xDomainMsgSender \in [Chains -> Senders \cup {DEFAULT_L2_SENDER}]
  /\ discountedValues \in [Messages -> Nat]
  /\ balance \in [Chains -> Nat]
  /\ executing \in [Chains -> Seq(Messages)]
  /\ portalBusy \in BOOLEAN
  /\ paid \in [Messages -> Nat]
  /\ calls \in [Messages -> Nat]

\* Whatever a relayed message comes to, the variables it writes keep their types.
LEMMA RelayKeepsTypes ==
  ASSUME MessengerInv, NEW m \in Messages, NEW arrived \in Nat, Relays(m, arrived)
  PROVE  RelayTypeOK'
<1> USE MessengerAssumption DEF MessengerInv, MessengerTypeOK, RelayTypeOK, Chains
<1>1. To[m] \in Chains /\ balance[To[m]] \in Nat
  OBVIOUS
<1>2. CASE Keeps(m, arrived)
  <2>1. failedMessages' \subseteq Messages /\ balance' \in [Chains -> Nat]
    <3>1. failedMessages' = FailedWith(m) /\ balance' = [balance EXCEPT ![To[m]] = @ + arrived]
      BY <1>2 DEF Keeps, KeepForReplay
    <3>2. /\ failedMessages \subseteq Messages /\ balance \in [Chains -> Nat]
          /\ balance[To[m]] + arrived \in Nat
      BY <1>1
    <3>3. failedMessages' \subseteq Messages
      BY ONLY <3>1, <3>2, m \in Messages DEF FailedWith
    <3>4. balance' \in [Chains -> Nat]
      BY ONLY <3>1, <3>2
    <3> QED BY ONLY <3>3, <3>4
  <2>2. /\ xDomainMsgSender' \in [Chains -> Senders \cup {DEFAULT_L2_SENDER}]
        /\ discountedValues' \in [Messages -> Nat]
    BY <1>2 DEF Keeps
  <2> QED BY <1>2, <2>1, <2>2 DEF Keeps, KeepForReplay
<1>3. CASE \E value \in Nat : Enters(m, arrived, value)
  <2>1. PICK value \in Nat : Enters(m, arrived, value)
    BY <1>3
  <2>2. balance' \in [Chains -> Nat] /\ paid' \in [Messages -> Nat]
    <3>1. balance[To[m]] + arrived - value \in Nat /\ paid[m] + value \in Nat
      <4>1. balance[To[m]] + arrived >= value
        BY <2>1 DEF Enters, Enter
      <4>2. paid[m] \in Nat
        OBVIOUS
      <4> DEFINE b == balance[To[m]]
      <4>3. b \in Nat /\ b + arrived >= value
        BY <1>1, <4>1
      <4> HIDE DEF b
      <4>4. b + arrived - value \in Nat
        BY <4>3
      <4>5. paid[m] + value \in Nat
        BY <4>2
      <4> QED BY ONLY <4>4, <4>5 DEF b
    <3>2. /\ balance' = [balance EXCEPT ![To[m]] = balance[To[m]] + arrived - value]
          /\ paid' = [paid EXCEPT ![m] = paid[m] + value]
      BY <2>1 DEF Enters, Enter
    <3> QED BY <3>1, <3>2
  <2>3. xDomainMsgSender' \in [Chains -> Senders \cup {DEFAULT_L2_SENDER}]
    BY <2>1 DEF Enters, Enter
  <2>4. executing' \in [Chains -> Seq(Messages)]
    <3>1. Append(executing[To[m]], m) \in Seq(Messages)
      BY <1>1, Pushed
    <3> QED BY <2>1, <3>1 DEF Enters, Enter
  <2>5. portalBusy' \in BOOLEAN /\ reentrancyLocks' \subseteq {n \in Messages : To[n] = L2}
    BY <2>1 DEF Enters
  <2> QED BY <2>1, <2>2, <2>3, <2>4, <2>5 DEF Enters, Enter
<1> QED BY <1>2, <1>3 DEF Relays

\* A message is entered on L1 only when nothing runs there, and on L2 only when it
\* does not run itself.
LEMMA RelayKeepsRunning ==
  ASSUME MessengerInv, NEW m \in Messages, NEW arrived \in Nat, Relays(m, arrived)
  PROVE  RunningOK' /\ SenderOfExecuting'
<1>1. /\ executing \in [Chains -> Seq(Messages)] /\ To[m] \in Chains /\ Sender[m] \in Senders
      /\ xDomainMsgSender \in [Chains -> Senders \cup {DEFAULT_L2_SENDER}]
      /\ RunningOK /\ SenderOfExecuting
      /\ Chains = {L1, L2} /\ L1 # L2
  BY MessengerAssumption DEF MessengerInv, MessengerTypeOK, Chains, L1, L2
<1>2. CASE Keeps(m, arrived)
  <2>1. UNCHANGED <<executing, reentrancyLocks, successfulMessages, sent>>
    BY <1>2 DEF Keeps, KeepForReplay, Relays
  <2>2. \/ UNCHANGED xDomainMsgSender
        \/ xDomainMsgSender' = [xDomainMsgSender EXCEPT ![L2] = DEFAULT_L2_SENDER]
    BY <1>2 DEF Keeps
  <2>3. RunningOK'
    BY <1>1, <2>1 DEF RunningOK, Executing
  <2>4. SenderOfExecuting'
    BY <1>1, <2>1, <2>2 DEF SenderOfExecuting, Idle
  <2> QED BY <2>3, <2>4
<1>3. CASE \E value \in Nat : Enters(m, arrived, value)
  <2> DEFINE c == To[m]
             s == executing[c]
  <2>1. PICK value \in Nat : Enters(m, arrived, value)
    BY <1>3
  <2>2. /\ executing' = [executing EXCEPT ![c] = Append(s, m)]
        /\ xDomainMsgSender' = [xDomainMsgSender EXCEPT ![c] = Sender[m]]
        /\ UNCHANGED <<sent, successfulMessages>>
    BY <2>1 DEF Enters, Enter, Relays
  <2>3. m \in sent \ (successfulMessages \cup RelayedLegacy)
    BY DEF Relays, MayRelay
  <2>4. s \in Seq(Messages) /\ c \in Chains
    BY <1>1
  <2>5. /\ Append(s, m) # <<>> /\ Last(Append(s, m)) = m
        /\ ToSet(Append(s, m)) = ToSet(s) \cup {m}
        /\ Len(Append(s, m)) = Len(s) + 1
        /\ Distinct(s) /\ m \notin ToSet(s) => Distinct(Append(s, m))
    BY <2>4, Pushed
  <2>6. /\ executing'[c] = Append(s, m) /\ xDomainMsgSender'[c] = Sender[m]
        /\ \A d \in Chains : d # c => /\ executing'[d] = executing[d]
                                      /\ xDomainMsgSender'[d] = xDomainMsgSender[d]
    BY <1>1, <2>2, <2>4
  <2>7. To[m] = c
    OBVIOUS
  <2> HIDE DEF c, s
  <2>8. SenderOfExecuting'
    <3>1. ASSUME NEW d \in Chains, xDomainMsgSender'[d] # DEFAULT_L2_SENDER
          PROVE  executing'[d] # <<>> /\ xDomainMsgSender'[d] = Sender[Last(executing'[d])]
      BY <1>1, <2>5, <2>6, <3>1 DEF SenderOfExecuting, Idle
    <3>2. executing'[L1] # <<>> => xDomainMsgSender'[L1] # DEFAULT_L2_SENDER
      BY <1>1, <2>6, MessengerAssumption DEF SenderOfExecuting, Idle
    <3> QED BY <3>1, <3>2 DEF SenderOfExecuting, Idle
  <2>9. \A d \in Chains : \A n \in ToSet(executing'[d]) :
          To[n] = d /\ n \in sent' \ (successfulMessages' \cup RelayedLegacy)
    <3>1. ASSUME NEW d \in Chains, NEW n \in ToSet(executing'[d])
          PROVE  (n \in Executing(d)) \/ (n = m /\ d = c)
      BY <2>5, <2>6 DEF Executing, s
    <3> QED BY <1>1, <2>2, <2>3, <2>7, <3>1 DEF RunningOK
  <2>10. CASE c = L1
    <3>1. executing[L1] = <<>> /\ UNCHANGED reentrancyLocks
      BY <1>1, <2>1, <2>7, <2>10 DEF Enters, MayEnterL1, SenderOfExecuting, Idle
    <3>2. Len(executing'[L1]) <= 1
      <4>1. s = <<>>
        BY <2>10, <3>1 DEF s
      <4>2. Len(s) = 0
        BY <4>1
      <4>3. executing'[L1] = Append(s, m)
        BY <2>6, <2>10
      <4>4. Len(Append(s, m)) = 1
        BY <2>5, <4>2
      <4> QED BY <4>3, <4>4
    <3>3. executing'[L2] = executing[L2]
      BY <1>1, <2>6, <2>10
    <3> QED BY <1>1, <2>8, <2>9, <3>1, <3>2, <3>3 DEF RunningOK, Executing
  <2>11. CASE c = L2
    <3>1. m \notin reentrancyLocks /\ reentrancyLocks' = reentrancyLocks \cup {m}
      BY <1>1, <2>1, <2>7, <2>11 DEF Enters, Unlocked
    <3>2. reentrancyLocks = ToSet(executing[L2]) /\ Distinct(executing[L2])
      BY <1>1 DEF RunningOK, Executing
    <3>3. Distinct(executing'[L2]) /\ ToSet(executing'[L2]) = reentrancyLocks'
      BY <2>5, <2>6, <2>11, <3>1, <3>2 DEF s
    <3>4. executing'[L1] = executing[L1]
      BY <1>1, <2>6, <2>11
    <3> QED BY <1>1, <2>8, <2>9, <3>3, <3>4 DEF RunningOK, Executing
  <2> QED BY <1>1, <2>4, <2>10, <2>11
<1> QED BY <1>2, <1>3 DEF Relays

\* What is relayed is not lost, nor is anything else.
LEMMA RelayKeepsMessages ==
  ASSUME MessengerInv, NEW m \in Messages, NEW arrived \in Nat, Relays(m, arrived)
  PROVE  /\ failedMessages' \subseteq sent' /\ UNCHANGED <<successfulMessages, calls>>
         /\ Kept(m)'
         /\ \A n \in Messages : Kept(n) => Kept(n)'
<1>1. /\ executing \in [Chains -> Seq(Messages)] /\ To \in [Messages -> Chains]
      /\ failedMessages \subseteq sent
  BY MessengerAssumption DEF MessengerInv, MessengerTypeOK, RecordsOK
<1>2. CASE Keeps(m, arrived)
  BY <1>1, <1>2 DEF Keeps, KeepForReplay, FailedWith, Relays, Kept, Executing
<1>3. CASE \E value \in Nat : Enters(m, arrived, value)
  <2>1. PICK value \in Nat : Enters(m, arrived, value)
    BY <1>3
  <2>2. /\ UNCHANGED <<failedMessages, successfulMessages, calls, sent>>
        /\ executing' = [executing EXCEPT ![To[m]] = Append(executing[To[m]], m)]
    BY <2>1 DEF Enters, Enter, Relays
  <2>3. ToSet(Append(executing[To[m]], m)) = ToSet(executing[To[m]]) \cup {m}
    BY <1>1, Pushed
  <2>4. /\ m \in ToSet(executing'[To[m]])
        /\ \A d \in Chains : ToSet(executing[d]) \subseteq ToSet(executing'[d])
    BY <1>1, <2>2, <2>3
  <2> QED BY <1>1, <2>2, <2>4 DEF Kept, Executing
<1> QED BY <1>2, <1>3 DEF Relays

\* Steps that relay a message, and may take it from its channel.
LEMMA RelayInv ==
  ASSUME MessengerInv, NEW m \in Messages, NEW arrived \in Nat, Relays(m, arrived),
         deposits' \in Seq({n \in Messages : To[n] = L2}),
         ToSet(deposits) \subseteq ToSet(deposits') \cup {m},
         ToSet(deposits') \subseteq ToSet(deposits),
         finalized \subseteq finalized',
         finalized' \subseteq finalized \cup {n \in {m} : To[n] = L1},
         received' \in [Messages -> Nat],
         \A n \in Messages : received'[n] = received[n] \/ (n = m /\ (To[m] = L1 => m \in finalized'))
  PROVE  MessengerInv'
<1>1. RelayTypeOK' /\ RunningOK' /\ SenderOfExecuting'
  BY RelayKeepsTypes, RelayKeepsRunning
<1>2. /\ failedMessages' \subseteq sent' /\ UNCHANGED <<successfulMessages, calls, sent>>
      /\ Kept(m)' /\ \A n \in Messages : Kept(n) => Kept(n)'
  BY RelayKeepsMessages DEF Relays
<1>3. MessengerTypeOK'
  BY <1>1, <1>2 DEF MessengerInv, MessengerTypeOK, RelayTypeOK
<1>4. RecordsOK'
  BY <1>2 DEF MessengerInv, RecordsOK
<1>5. HandedOver' \subseteq HandedOver \cup {m} /\ HandedOver' \subseteq Messages
  BY <1>2, <1>3 DEF HandedOver, MessengerTypeOK
<1>6. NothingElseLost'
  <2> SUFFICES ASSUME NEW n \in HandedOver' \ (UnsafeTarget \cup RelayedLegacy)
               PROVE  Kept(n)' \/ (To[n] = L1 /\ Value[n] > 0 /\ received'[n] = 0)
    BY DEF NothingElseLost
  <2>1. CASE n = m
    BY <1>2, <2>1
  <2>2. CASE n # m
    <3>1. n \in HandedOver /\ n \in Messages /\ received'[n] = received[n]
      BY <1>5, <2>2
    <3>2. Kept(n) \/ (To[n] = L1 /\ Value[n] > 0 /\ received[n] = 0)
      BY <3>1 DEF MessengerInv, NothingElseLost
    <3> QED BY <1>2, <3>1, <3>2
  <2> QED BY <2>1, <2>2
<1> QED BY <1>1, <1>3, <1>4, <1>6 DEF MessengerInv

\* Steps that only send a message or turn one away.
LEMMA ChannelInv ==
  ASSUME MessengerInv, UNCHANGED <<relayVars, received>>,
         sent \subseteq sent', sent' \subseteq Messages,
         deposits' \in Seq({n \in Messages : To[n] = L2}), ToSet(deposits') \subseteq sent',
         finalized \subseteq finalized', finalized' \subseteq {n \in Messages : To[n] = L1},
         \A n \in HandedOver' \ HandedOver :
           \/ n \in UnsafeTarget \cup RelayedLegacy
           \/ Kept(n)
           \/ To[n] = L1 /\ Value[n] > 0 /\ received[n] = 0
  PROVE  MessengerInv'
<1>1. UNCHANGED <<successfulMessages, failedMessages, reentrancyLocks, xDomainMsgSender,
                  discountedValues, balance, executing, portalBusy, received, paid, calls>>
  BY DEF relayVars
<1>2. MessengerTypeOK'
  BY <1>1 DEF MessengerInv, MessengerTypeOK
<1>3. RunningOK'
  BY <1>1 DEF MessengerInv, RunningOK, Executing
<1>4. RecordsOK'
  BY <1>1 DEF MessengerInv, RecordsOK
<1>5. SenderOfExecuting'
  BY <1>1 DEF MessengerInv, SenderOfExecuting, Idle
<1>6. \A n : Kept(n) <=> Kept(n)'
  BY <1>1 DEF Kept, Executing
<1>7. NothingElseLost'
  BY <1>1, <1>6 DEF MessengerInv, NothingElseLost
<1> QED BY <1>2, <1>3, <1>4, <1>5, <1>7 DEF MessengerInv

\* The invariant is kept by sending a message (sendMessage),
LEMMA SendInv ==
  ASSUME MessengerInv, NEW m \in Messages, sendMessage(m)
  PROVE  MessengerInv'
<1>1. /\ deposits \in Seq({n \in Messages : To[n] = L2}) /\ To[m] \in Chains
      /\ sent \subseteq Messages /\ finalized \subseteq {n \in Messages : To[n] = L1}
      /\ ToSet(deposits) \subseteq sent
  BY MessengerAssumption DEF MessengerInv, MessengerTypeOK, RecordsOK
<1>2. /\ sent' = sent \cup {m} /\ deposits' = DepositsWith(m)
      /\ UNCHANGED <<finalized, received, relayVars>>
  BY DEF sendMessage
<1>3. /\ deposits' \in Seq({n \in Messages : To[n] = L2})
      /\ ToSet(deposits') = ToSet(deposits) \cup {n \in {m} : To[n] = L2}
  <2>1. CASE To[m] = L2
    BY <1>1, <1>2, <2>1, Pushed DEF DepositsWith
  <2>2. CASE To[m] # L2
    BY <1>1, <1>2, <2>2 DEF DepositsWith
  <2> QED BY <2>1, <2>2
<1>4. HandedOver' \subseteq HandedOver
  BY <1>1, <1>2, <1>3 DEF HandedOver
<1> QED BY <1>1, <1>2, <1>3, <1>4, ChannelInv

\* by sending a failed one in again (relayMessage without a value),
LEMMA ReplayInv ==
  ASSUME MessengerInv, NEW m \in Messages, replay(m)
  PROVE  MessengerInv'
<1>1. /\ discountedValues[m] \in Nat /\ discountedValues \in [Messages -> Nat] /\ Value[m] \in Nat
      /\ m \in sent
  BY MessengerAssumption DEF MessengerInv, MessengerTypeOK, RecordsOK, replay
<1>2. UNCHANGED <<sent, deposits, finalized, received>>
  BY DEF replay
<1>3. Relays(m, 0)
  <2>1. CASE To[m] = L1 /\ relayMessageL1(m, 0, ReplayValue(m), FALSE)
    BY <1>1, <1>2, <2>1
       DEF relayMessageL1, ReplayValue, Relays, Keeps, Enters
  <2>2. CASE To[m] = L2 /\ relayMessageL2(m, 0)
    BY <1>1, <1>2, <2>2 DEF relayMessageL2, Relays, Keeps, Enters
  <2> QED BY <2>1, <2>2 DEF replay
<1> QED BY <1>2, <1>3, RelayInv DEF MessengerInv, MessengerTypeOK

\* by the portal's call on L1,
LEMMA DeliverL1Inv ==
  ASSUME MessengerInv, NEW m \in Messages, NEW value \in 0 .. Value[m], deliverOnL1(m, value)
  PROVE  MessengerInv'
<1>1. /\ To[m] = L1 /\ m \in sent /\ m \notin finalized /\ value \in Nat
      /\ finalized' = finalized \cup {m} /\ UNCHANGED <<sent, deposits>>
      /\ Value[m] \in Nat
  BY MessengerAssumption DEF deliverOnL1
<1>2. CASE relayMessageL1(m, value, value, TRUE) /\ received' = [received EXCEPT ![m] = value]
  <2>1. Relays(m, value)
    <3>1. discountedValues \in [Messages -> Nat]
      BY DEF MessengerInv, MessengerTypeOK
    <3> QED BY <1>1, <1>2, <3>1 DEF relayMessageL1, Relays, Keeps, Enters
  <2> QED BY <1>1, <1>2, <2>1, RelayInv DEF MessengerInv, MessengerTypeOK
<1>3. CASE /\ ~(ValueAccepted(m, value) /\ m \notin failedMessages /\ MayRelay(m))
           /\ UNCHANGED <<received, relayVars>>
  <2>1. HandedOver' \subseteq HandedOver \cup {m}
    BY <1>1 DEF HandedOver
  <2>2. received[m] = 0
    BY <1>1 DEF MessengerInv, RecordsOK
  <2>3. \/ m \in UnsafeTarget \cup RelayedLegacy
        \/ Kept(m)
        \/ Value[m] > 0
    BY <1>1, <1>3 DEF ValueAccepted, MayRelay, Kept
  <2> QED
    BY <1>1, <1>3, <2>1, <2>2, <2>3, ChannelInv DEF MessengerInv, MessengerTypeOK, RecordsOK
<1> QED BY <1>2, <1>3 DEF deliverOnL1

\* and by the execution of the oldest deposit on L2.
LEMMA DeliverL2Inv ==
  ASSUME MessengerInv, deliverOnL2
  PROVE  MessengerInv'
<1> DEFINE m == Head(deposits)
<1>1. /\ deposits \in Seq({n \in Messages : To[n] = L2}) /\ deposits # <<>>
      /\ deposits' = Tail(deposits) /\ UNCHANGED <<sent, finalized>>
      /\ sent \subseteq Messages /\ finalized \subseteq {n \in Messages : To[n] = L1}
      /\ ToSet(deposits) \subseteq sent /\ received \in [Messages -> Nat]
  BY DEF MessengerInv, MessengerTypeOK, RecordsOK, deliverOnL2
<1>2. /\ deposits' \in Seq({n \in Messages : To[n] = L2})
      /\ m \in Messages /\ To[m] = L2
      /\ ToSet(deposits) = ToSet(deposits') \cup {m}
  BY <1>1, Shifted
<1>3. m \in sent /\ Value[m] \in Nat
  BY <1>1, <1>2, MessengerAssumption
<1>4. \/ relayMessageL2(m, Value[m]) /\ received' = [received EXCEPT ![m] = Value[m]]
      \/ /\ ~(m \notin failedMessages /\ MayRelay(m) /\ Unlocked(m))
         /\ UNCHANGED <<received, relayVars>>
  BY DEF deliverOnL2
<1> HIDE DEF m
<1>5. L1 # L2
  BY DEF L1, L2
<1>6. CASE relayMessageL2(m, Value[m]) /\ received' = [received EXCEPT ![m] = Value[m]]
  <2>1. Relays(m, Value[m])
    BY <1>1, <1>2, <1>3, <1>6 DEF relayMessageL2, Relays, Keeps, Enters
  <2> QED BY <1>1, <1>2, <1>3, <1>5, <1>6, <2>1, RelayInv
<1>7. CASE /\ ~(m \notin failedMessages /\ MayRelay(m) /\ Unlocked(m))
           /\ UNCHANGED <<received, relayVars>>
  <2>1. HandedOver' \subseteq HandedOver \cup {m}
    BY <1>1, <1>2 DEF HandedOver
  <2>2. m \in UnsafeTarget \cup RelayedLegacy \/ Kept(m)
    BY <1>2, <1>7 DEF MayRelay, Unlocked, Kept, MessengerInv, RunningOK
  <2> QED BY <1>1, <1>2, <1>7, <2>1, <2>2, ChannelInv
<1> QED BY <1>4, <1>6, <1>7

\* The message whose target returns was running, once, and had not been delivered.
LEMMA LeaveInv ==
  ASSUME MessengerInv, NEW c \in Chains, leave(c)
  PROVE  /\ MessengerInv'
         /\ \E m \in sent \ (successfulMessages \cup RelayedLegacy) :
              successfulMessages' = successfulMessages \cup {m} /\ calls' = [calls EXCEPT ![m] = 1]
<1> DEFINE s == executing[c]
           m == Last(s)
<1>1. /\ s \in Seq(Messages) /\ s # <<>>
      /\ executing \in [Chains -> Seq(Messages)] /\ calls \in [Messages -> Nat]
      /\ xDomainMsgSender \in [Chains -> Senders \cup {DEFAULT_L2_SENDER}]
      /\ Chains = {L1, L2} /\ L1 # L2
  BY DEF MessengerInv, MessengerTypeOK, leave, Idle, Chains, L1, L2
<1>2. /\ Front(s) \in Seq(Messages) /\ m \in Messages /\ Len(Front(s)) = Len(s) - 1
      /\ ToSet(s) = ToSet(Front(s)) \cup {m}
      /\ Distinct(s) => Distinct(Front(s)) /\ m \notin ToSet(Front(s))
  BY <1>1, Popped
<1>3. /\ successfulMessages' = successfulMessages \cup {m}
      /\ calls' = [calls EXCEPT ![m] = calls[m] + 1]
      /\ reentrancyLocks' = reentrancyLocks \ {m}
      /\ executing' = [executing EXCEPT ![c] = Front(s)]
      /\ xDomainMsgSender' = [xDomainMsgSender EXCEPT ![c] = DEFAULT_L2_SENDER]
      /\ portalBusy' = (portalBusy /\ c = L2)
      /\ UNCHANGED <<sent, deposits, finalized, received, failedMessages, discountedValues,
                     balance, paid>>
  BY DEF leave
<1>4. /\ m \in sent \ (successfulMessages \cup RelayedLegacy) /\ To[m] = c
  BY <1>2 DEF MessengerInv, RunningOK, Executing
<1>5. /\ executing'[c] = Front(s) /\ xDomainMsgSender'[c] = DEFAULT_L2_SENDER
      /\ \A d \in Chains : d # c => /\ executing'[d] = executing[d]
                                    /\ xDomainMsgSender'[d] = xDomainMsgSender[d]
  BY <1>1, <1>3
<1>6. executing[c] = s
  OBVIOUS
<1> HIDE DEF s, m
<1>7. calls[m] = 0
  BY <1>2, <1>4 DEF MessengerInv, RecordsOK
<1>8. calls' = [calls EXCEPT ![m] = 1]
  BY <1>1, <1>2, <1>3, <1>7
<1>9. MessengerTypeOK'
  <2>1. executing' \in [Chains -> Seq(Messages)] /\ calls' \in [Messages -> Nat]
    BY <1>1, <1>2, <1>3, <1>8
  <2>2. xDomainMsgSender' \in [Chains -> Senders \cup {DEFAULT_L2_SENDER}]
    BY <1>1, <1>3
  <2>3. portalBusy' \in BOOLEAN
    BY <1>3 DEF MessengerInv, MessengerTypeOK
  <2> QED BY <1>2, <1>3, <2>1, <2>2, <2>3 DEF MessengerInv, MessengerTypeOK
<1>10. RecordsOK'
  <2>1. \A n \in Messages : calls'[n] = IF n \in successfulMessages' THEN 1 ELSE 0
    BY <1>1, <1>2, <1>3, <1>8 DEF MessengerInv, RecordsOK
  <2> QED BY <1>3, <1>4, <2>1 DEF MessengerInv, RecordsOK
<1>11. \A d \in Chains : \A n \in ToSet(executing'[d]) :
         To[n] = d /\ n \in sent' \ (successfulMessages' \cup RelayedLegacy)
  <2> SUFFICES ASSUME NEW d \in Chains, NEW n \in ToSet(executing'[d])
               PROVE  To[n] = d /\ n \in sent' \ (successfulMessages' \cup RelayedLegacy)
    OBVIOUS
  <2>1. n \in Executing(d)
    BY <1>2, <1>5, <1>6 DEF Executing
  <2>2. To[n] = d /\ n \in sent \ (successfulMessages \cup RelayedLegacy)
    BY <2>1 DEF MessengerInv, RunningOK
  <2>3. n # m
    <3>1. CASE d = c /\ c = L2
      BY <1>2, <1>5, <1>6, <3>1 DEF MessengerInv, RunningOK
    <3>2. CASE d = c /\ c = L1
      <4>1. Len(s) <= 1 /\ Len(Front(s)) \in Nat
        BY <1>2, <1>6, <3>2 DEF MessengerInv, RunningOK
      <4>2. Len(s) \in Nat
        BY <1>1
      <4>3. Len(Front(s)) = 0
        BY <1>2, <4>1, <4>2
      <4>4. ToSet(Front(s)) = {}
        BY <1>2, <4>3 DEF ToSet
      <4> QED BY <1>5, <3>2, <4>4
    <3>3. CASE d # c
      BY <1>4, <2>2, <3>3
    <3> QED BY <1>1, <3>1, <3>2, <3>3
  <2> QED BY <1>3, <2>2, <2>3
<1>12. RunningOK'
  <2>1. CASE c = L1
    <3>1. m \notin reentrancyLocks /\ executing'[L2] = executing[L2] /\ reentrancyLocks' = reentrancyLocks
      BY <1>1, <1>3, <1>4, <1>5, <2>1 DEF MessengerInv, MessengerTypeOK
    <3>2. Len(executing'[L1]) <= 1
      <4>1. Len(s) <= 1 /\ Len(s) \in Nat
        BY <1>1, <1>6, <2>1 DEF MessengerInv, RunningOK
      <4>2. executing'[L1] = Front(s)
        BY <1>5, <2>1
      <4> QED BY <1>2, <4>1, <4>2
    <3> QED BY <1>11, <3>1, <3>2 DEF MessengerInv, RunningOK, Executing
  <2>2. CASE c = L2
    <3>1. executing'[L1] = executing[L1] /\ executing'[L2] = Front(s)
      BY <1>1, <1>5, <2>2
    <3>2. Distinct(s) /\ reentrancyLocks = ToSet(s)
      BY <1>6, <2>2 DEF MessengerInv, RunningOK, Executing
    <3>3. Distinct(Front(s)) /\ reentrancyLocks' = ToSet(Front(s))
      BY <1>2, <1>3, <3>2
    <3> QED BY <1>11, <3>1, <3>3 DEF MessengerInv, RunningOK, Executing
  <2> QED BY <1>1, <2>1, <2>2
<1>13. SenderOfExecuting'
  <2>1. \A d \in Chains : xDomainMsgSender'[d] # DEFAULT_L2_SENDER =>
          executing'[d] # <<>> /\ xDomainMsgSender'[d] = Sender[Last(executing'[d])]
    BY <1>5 DEF MessengerInv, SenderOfExecuting, Idle
  <2>2. executing'[L1] # <<>> => xDomainMsgSender'[L1] # DEFAULT_L2_SENDER
    <3>1. CASE c = L1
      <4>1. Len(s) <= 1 /\ Len(s) \in Nat
        BY <1>1, <1>6, <3>1 DEF MessengerInv, RunningOK
      <4>2. Front(s) = <<>>
        BY <1>2, <4>1
      <4> QED BY <1>5, <3>1, <4>2
    <3>2. CASE c # L1
      BY <1>1, <1>5, <3>2 DEF MessengerInv, SenderOfExecuting, Idle
    <3> QED BY <3>1, <3>2
  <2> QED BY <2>1, <2>2 DEF SenderOfExecuting, Idle
<1>14. NothingElseLost'
  <2>1. HandedOver' = HandedOver /\ HandedOver \subseteq Messages
    BY <1>3 DEF HandedOver, MessengerInv, MessengerTypeOK
  <2>2. ASSUME NEW n \in Messages, Kept(n) PROVE Kept(n)'
    <3>1. To[n] \in Chains
      BY MessengerAssumption
    <3>2. CASE n \in Executing(To[n])
      <4>1. n \in Executing(To[n])' \/ n = m
        BY <1>2, <1>5, <1>6, <3>1, <3>2 DEF Executing
      <4> QED BY <1>3, <4>1 DEF Kept
    <3>3. CASE n \in failedMessages \cup successfulMessages
      BY <1>3, <3>3 DEF Kept
    <3> QED BY <2>2, <3>2, <3>3 DEF Kept
  <2> QED BY <1>3, <2>1, <2>2 DEF MessengerInv, NothingElseLost
<1> QED BY <1>4, <1>3, <1>8, <1>9, <1>10, <1>12, <1>13, <1>14 DEF MessengerInv

-----------------------------------------------------------------------------

\* The initial states satisfy it,
LEMMA MessengerStart == MessengerInit => MessengerInv
<1> SUFFICES ASSUME MessengerInit PROVE MessengerInv
    OBVIOUS
<1> USE MessengerAssumption DEF MessengerInit, Chains
<1>1. MessengerTypeOK
  <2>1. deposits \in Seq({m \in Messages : To[m] = L2}) /\ executing \in [Chains -> Seq(Messages)]
    OBVIOUS
  <2> QED BY <2>1 DEF MessengerTypeOK
<1>2. \A c \in Chains : Executing(c) = {} /\ executing[c] = <<>>
  BY DEF Executing, ToSet
<1>3. ToSet(deposits) = {}
  BY DEF ToSet
<1>4. RunningOK
  BY <1>2 DEF RunningOK, Distinct
<1>5. RecordsOK
  BY <1>3 DEF RecordsOK
<1>6. SenderOfExecuting
  BY <1>2 DEF SenderOfExecuting, Idle
<1>7. NothingElseLost
  BY DEF NothingElseLost, HandedOver
<1> QED BY <1>1, <1>4, <1>5, <1>6, <1>7 DEF MessengerInv

\* and every step keeps it.
LEMMA MessengerStep == MessengerInv /\ [MessengerNext]_messengerVars => MessengerInv'
<1> SUFFICES ASSUME MessengerInv, [MessengerNext]_messengerVars PROVE MessengerInv'
    OBVIOUS
<1>1. CASE UNCHANGED messengerVars
  <2>1. UNCHANGED <<sent, deposits, finalized, received, relayVars>>
    BY <1>1 DEF messengerVars
  <2>2. HandedOver' = HandedOver
    BY <2>1 DEF HandedOver
  <2> QED BY <2>1, <2>2, ChannelInv DEF MessengerInv, MessengerTypeOK, RecordsOK
<1> QED
  BY <1>1, SendInv, ReplayInv, DeliverL1Inv, DeliverL2Inv, LeaveInv DEF MessengerNext

\* Targets are told the sender of the innermost message that runs, whatever they call.
THEOREM SenderIsInnermost == MessengerSpec => []SenderOfExecuting
<1>1. MessengerInv => SenderOfExecuting
  BY DEF MessengerInv
<1> QED BY <1>1, MessengerStart, MessengerStep, PTL DEF MessengerSpec

\* A message that reached the messenger of its chain is delivered, runs, or can be
\* replayed, but for three kinds that are turned away.
THEOREM MessagesAreKept == MessengerSpec => []NothingElseLost
<1>1. MessengerInv => NothingElseLost
  BY DEF MessengerInv
<1> QED BY <1>1, MessengerStart, MessengerStep, PTL DEF MessengerSpec

\* Only leaving a target counts as a delivery.
LEMMA CallsKept ==
  ASSUME MessengerInv
  PROVE  /\ \A m \in Messages : sendMessage(m) \/ replay(m) => UNCHANGED calls
         /\ \A m \in Messages : \A value \in 0 .. Value[m] :
              deliverOnL1(m, value) => UNCHANGED <<calls, sent>>
         /\ deliverOnL2 => UNCHANGED <<calls, sent>>
         /\ \A m \in Messages : replay(m) => UNCHANGED sent
         /\ \A c \in Chains : leave(c) => UNCHANGED sent
BY DEF sendMessage, replay, deliverOnL1, deliverOnL2, leave, relayMessageL1, relayMessageL2,
       KeepForReplay, Enter, relayVars

\* A step of the messengers is a step of the abstract channel or a stutter: a
\* message is delivered where its target is called and returns.
LEMMA DeliveryStep ==
  ASSUME MessengerInv, [MessengerNext]_messengerVars
  PROVE  [Delivery!Next]_(Delivery!vars)
<1> DEFINE d == [m \in Messages |-> calls[m] + IF m \in RelayedLegacy THEN 1 ELSE 0]
<1>1. calls \in [Messages -> Nat] /\ RelayedLegacy \subseteq Messages /\ sent \subseteq Messages
  BY MessengerAssumption DEF MessengerInv, MessengerTypeOK
<1>2. CASE UNCHANGED <<sent, calls>>
  BY <1>2 DEF Delivery!vars
<1>3. ASSUME NEW m \in Messages, sendMessage(m) PROVE Delivery!Next
  <2>1. m \notin sent /\ sent' = sent \cup {m} /\ UNCHANGED calls
    BY <1>3, CallsKept DEF sendMessage
  <2>2. Delivery!Send(m)
    BY <2>1 DEF Delivery!Send
  <2> QED BY <2>2 DEF Delivery!Next
<1>4. ASSUME NEW c \in Chains, leave(c) PROVE Delivery!Next
  <2>1. PICK m \in sent \ (successfulMessages \cup RelayedLegacy) :
          calls' = [calls EXCEPT ![m] = 1]
    BY <1>4, LeaveInv
  <2>2. m \in Messages /\ m \in sent /\ UNCHANGED sent /\ calls[m] = 0
    BY <1>1, <1>4, <2>1, CallsKept DEF MessengerInv, RecordsOK
  <2>3. d[m] = 0 /\ d' = [d EXCEPT ![m] = 1]
    <3>1. m \notin RelayedLegacy
      BY <2>1
    <3>2. d[m] = 0
      BY <2>2, <3>1
    <3>3. \A n \in Messages : calls'[n] = IF n = m THEN 1 ELSE calls[n]
      BY <1>1, <2>1, <2>2
    <3>4. \A n \in Messages : d'[n] = IF n = m THEN 1 ELSE d[n]
      BY <3>1, <3>3
    <3> QED BY <2>2, <3>2, <3>4
  <2>4. Delivery!Deliver(m)
    BY <2>2, <2>3 DEF Delivery!Deliver
  <2> QED BY <2>2, <2>4 DEF Delivery!Next
<1>5. CASE UNCHANGED messengerVars
  BY <1>2, <1>5 DEF messengerVars, relayVars
<1> QED
  BY <1>2, <1>3, <1>4, <1>5, CallsKept DEF MessengerNext

\* The two messengers deliver every message at most once, and only what was sent:
\* they implement MessageDelivery.
THEOREM MessengersDeliver == MessengerSpec => DeliveryImplemented
<1>1. MessengerInit => Delivery!Init
  <2> SUFFICES ASSUME MessengerInit PROVE Delivery!Init
    OBVIOUS
  <2>1. \A m \in Messages : calls[m] + (IF m \in RelayedLegacy THEN 1 ELSE 0)
                              = IF m \in RelayedLegacy THEN 1 ELSE 0
    BY DEF MessengerInit
  <2> QED BY <2>1 DEF MessengerInit, Delivery!Init
<1>2. MessengerInv /\ [MessengerNext]_messengerVars => [Delivery!Next]_(Delivery!vars)
  BY DeliveryStep
<1> QED
  BY <1>1, <1>2, MessengerStart, MessengerStep, PTL DEF MessengerSpec, DeliveryImplemented, Delivery!Spec

-----------------------------------------------------------------------------
(* The ether of the messengers *)

\* What arrived with the messages that wait on a chain is what its messenger holds.
Backing == \A c \in Chains : balance[c] = SumFunctionOnSet(received, Waiting(c))

\* A target that was called, or is being called, got what arrived with its message.
Payments ==
  \A m \in Messages :
    paid[m] = IF m \in successfulMessages \cup Executing(To[m]) THEN received[m] ELSE 0

\* A message is handed over on L1 before it fails or runs there, and a replay sends
\* what arrived.
ReplaysOK ==
  /\ IsFiniteSet(failedMessages)
  /\ \A m \in Messages :
       To[m] = L1 /\ m \in failedMessages \cup Executing(L1) => m \in finalized
  /\ \A m \in failedMessages :
       received[m] = IF To[m] = L1 THEN discountedValues[m] ELSE Value[m]

EtherInv == Backing /\ Payments /\ ReplaysOK

\* A message that is relayed for the first time, with the ether that arrives.
Arrives(m, arrived) ==
  /\ m \notin failedMessages \cup successfulMessages \cup Executing(To[m])
  /\ received' = [received EXCEPT ![m] = arrived]

\* One that is replayed: it waits, and nothing arrives.
WaitsAgain(m, arrived) ==
  /\ m \in failedMessages \ successfulMessages
  /\ arrived = 0
  /\ UNCHANGED received

\* The sets the sums run over are finite, and what they add up are numbers.
LEMMA WaitingIs ==
  ASSUME MessengerInv, EtherInv, NEW c \in Chains
  PROVE  /\ IsFiniteSet(Waiting(c)) /\ Waiting(c) \subseteq Messages
         /\ \A m \in Waiting(c) : received[m] \in Nat /\ received[m] \in Int
<1>1. Waiting(c) \subseteq failedMessages
  BY DEF Waiting
<1>2. IsFiniteSet(Waiting(c))
  BY <1>1, FS_Subset DEF EtherInv, ReplaysOK
<1>3. failedMessages \subseteq Messages /\ received \in [Messages -> Nat]
  BY DEF MessengerInv, MessengerTypeOK
<1> QED BY <1>1, <1>2, <1>3

\* What fails on its first try is kept with its ether; a replay that fails again
\* changes nothing.
LEMMA KeepBacking ==
  ASSUME MessengerInv, EtherInv, NEW m \in Messages, NEW arrived \in Nat,
         KeepForReplay(m, arrived), m \notin successfulMessages,
         Arrives(m, arrived) \/ WaitsAgain(m, arrived)
  PROVE  Backing' /\ Payments'
<1> DEFINE c == To[m]
<1>1. /\ c \in Chains /\ balance \in [Chains -> Nat] /\ received \in [Messages -> Nat]
      /\ failedMessages \subseteq Messages
  BY MessengerAssumption DEF MessengerInv, MessengerTypeOK
<1>2. /\ failedMessages' = failedMessages \cup {m}
      /\ balance' = [balance EXCEPT ![c] = @ + arrived]
      /\ UNCHANGED <<successfulMessages, executing, paid>>
  BY DEF KeepForReplay, FailedWith
<1>3. \A d : Executing(d)' = Executing(d)
  BY <1>2 DEF Executing
<1>4. CASE Arrives(m, arrived)
  <2>1. /\ \A n \in Messages : received'[n] = IF n = m THEN arrived ELSE received[n]
        /\ m \notin successfulMessages \cup Executing(c) /\ m \notin failedMessages
    BY <1>1, <1>4 DEF Arrives
  <2>2. Payments'
    <3> SUFFICES ASSUME NEW n \in Messages
                 PROVE  paid'[n] = IF n \in successfulMessages' \cup Executing(To[n])'
                                   THEN received'[n] ELSE 0
      BY DEF Payments
    <3>1. paid[n] = IF n \in successfulMessages \cup Executing(To[n]) THEN received[n] ELSE 0
      BY DEF EtherInv, Payments
    <3> QED BY <1>2, <1>3, <2>1, <3>1
  <2>3. ASSUME NEW d \in Chains PROVE balance'[d] = SumFunctionOnSet(received', Waiting(d)')
    <3> DEFINE W == Waiting(d)
    <3>1. /\ balance[d] = SumFunctionOnSet(received, W) /\ balance[d] \in Nat
          /\ IsFiniteSet(W) /\ m \notin W
          /\ \A n \in W : received[n] \in Int /\ received'[n] = received[n]
      BY <1>1, <2>1, WaitingIs DEF EtherInv, Backing, Waiting
    <3>2. Waiting(d)' = IF d = c THEN W \cup {m} ELSE W
      BY <1>2, <1>3, <2>1 DEF Waiting
    <3>3. balance'[d] = IF d = c THEN balance[d] + arrived ELSE balance[d]
      BY <1>1, <1>2
    <3> HIDE DEF W, c
    <3>4. SumFunctionOnSet(received', W) = SumFunctionOnSet(received, W)
      BY <3>1, SumSame
    <3>5. SumFunctionOnSet(received', W \cup {m}) = arrived + SumFunctionOnSet(received', W)
      <4>1. received'[m] = arrived /\ \A n \in W \cup {m} : received'[n] \in Int
        BY <2>1, <3>1
      <4>2. SumFunctionOnSet(received', W \cup {m}) = received'[m] + SumFunctionOnSet(received', W)
        BY <3>1, <4>1, SumAdd
      <4> QED BY <4>1, <4>2
    <3> QED BY <3>1, <3>2, <3>3, <3>4, <3>5
  <2> QED BY <2>2, <2>3 DEF Backing
<1>5. CASE WaitsAgain(m, arrived)
  <2>1. failedMessages' = failedMessages /\ UNCHANGED received
    BY <1>2, <1>5 DEF WaitsAgain
  <2>2. \A d : Waiting(d)' = Waiting(d)
    BY <1>2, <1>3, <2>1 DEF Waiting
  <2>3. \A d \in Chains : balance'[d] = balance[d]
    BY <1>1, <1>2, <1>5 DEF WaitsAgain
  <2> QED BY <1>2, <1>3, <2>1, <2>2, <2>3 DEF EtherInv, Backing, Payments
<1> QED BY <1>4, <1>5

\* A target that is called gets what just arrived, or what was kept for it.
LEMMA EnterBacking ==
  ASSUME MessengerInv, EtherInv, NEW m \in Messages, NEW arrived \in Nat, NEW value \in Nat,
         Enter(m, arrived, value), m \notin successfulMessages \cup Executing(To[m]),
         \/ Arrives(m, arrived) /\ value = arrived
         \/ WaitsAgain(m, arrived) /\ value = received[m]
  PROVE  Backing' /\ Payments'
<1> DEFINE c == To[m]
<1>1. /\ c \in Chains /\ balance \in [Chains -> Nat] /\ received \in [Messages -> Nat]
      /\ failedMessages \subseteq Messages /\ executing \in [Chains -> Seq(Messages)]
      /\ paid \in [Messages -> Nat] /\ To \in [Messages -> Chains]
  BY MessengerAssumption DEF MessengerInv, MessengerTypeOK
<1>2. /\ balance' = [balance EXCEPT ![c] = balance[c] + arrived - value]
      /\ paid' = [paid EXCEPT ![m] = paid[m] + value]
      /\ executing' = [executing EXCEPT ![c] = Append(executing[c], m)]
      /\ UNCHANGED <<successfulMessages, failedMessages>>
  BY DEF Enter
<1>3. \A d \in Chains : Executing(d)' = IF d = c THEN Executing(d) \cup {m} ELSE Executing(d)
  <2>1. ToSet(Append(executing[c], m)) = ToSet(executing[c]) \cup {m}
    BY <1>1, Pushed
  <2>2. executing'[c] = Append(executing[c], m)
        /\ \A d \in Chains : d # c => executing'[d] = executing[d]
    BY <1>1, <1>2
  <2> QED BY <2>1, <2>2 DEF Executing
<1>4. /\ \A n \in Messages : n # m => received'[n] = received[n]
      /\ received'[m] = value
  BY <1>1 DEF Arrives, WaitsAgain
<1>5. Payments'
  <2> SUFFICES ASSUME NEW n \in Messages
               PROVE  paid'[n] = IF n \in successfulMessages' \cup Executing(To[n])'
                                 THEN received'[n] ELSE 0
    BY DEF Payments
  <2>1. /\ paid[n] = IF n \in successfulMessages \cup Executing(To[n]) THEN received[n] ELSE 0
        /\ To[n] \in Chains
    BY <1>1 DEF EtherInv, Payments
  <2>2. CASE n = m
    <3>1. paid[m] = 0 /\ paid'[m] = value
      BY <1>1, <1>2, <2>1, <2>2
    <3>2. m \in Executing(To[m])'
      BY <1>1, <1>3
    <3> QED BY <1>4, <2>2, <3>1, <3>2
  <2>3. CASE n # m
    <3>1. paid'[n] = paid[n]
      BY <1>1, <1>2, <2>3
    <3>2. n \in Executing(To[n])' <=> n \in Executing(To[n])
      BY <1>3, <2>1, <2>3
    <3> QED BY <1>2, <1>4, <2>1, <2>3, <3>1, <3>2
  <2> QED BY <2>2, <2>3
<1>6. ASSUME NEW d \in Chains PROVE balance'[d] = SumFunctionOnSet(received', Waiting(d)')
  <2> DEFINE W == Waiting(d)
  <2>1. /\ balance[d] = SumFunctionOnSet(received, W) /\ balance[d] \in Nat /\ IsFiniteSet(W)
        /\ \A n \in W : received[n] \in Int
    BY <1>1, WaitingIs DEF EtherInv, Backing
  <2>2. Waiting(d)' = W \ {m}
    BY <1>2, <1>3 DEF Waiting
  <2>3. balance'[d] = IF d = c THEN balance[d] + arrived - value ELSE balance[d]
    BY <1>1, <1>2
  <2>4. m \in W <=> d = c /\ m \in failedMessages
    BY DEF Waiting
  <2>5. \A n \in W \ {m} : received[n] = received'[n]
    BY <1>1, <1>4 DEF Waiting
  <2> HIDE DEF W, c
  <2>6. SumFunctionOnSet(received', W \ {m}) = SumFunctionOnSet(received, W \ {m})
    <3>1. IsFiniteSet(W \ {m})
      BY <2>1, FS_Subset
    <3> QED BY <2>5, <3>1, SumSame
  <2>7. CASE m \in W
    <3>1. SumFunctionOnSet(received, W) = received[m] + SumFunctionOnSet(received, W \ {m})
      BY <2>1, <2>7, SumRemove
    <3>2. SumFunctionOnSet(received, W \ {m}) \in Int
      <4>1. IsFiniteSet(W \ {m}) /\ \A n \in W \ {m} : received[n] \in Int
        BY <2>1, FS_Subset
      <4> QED BY <4>1, SumInt
    <3>3. arrived = 0 /\ value = received[m] /\ d = c
      BY <2>4, <2>7 DEF Arrives, WaitsAgain
    <3> QED BY <2>1, <2>2, <2>3, <2>6, <3>1, <3>2, <3>3
  <2>8. CASE m \notin W
    <3>1. W \ {m} = W
      BY <2>8
    <3>2. d = c => arrived = value
      BY <2>4, <2>8 DEF WaitsAgain
    <3>3. balance'[d] = balance[d]
      BY <2>1, <2>3, <3>2
    <3> QED BY <2>1, <2>2, <2>6, <3>1, <3>3
  <2> QED BY <2>7, <2>8
<1> QED BY <1>5, <1>6 DEF Backing

\* What a relay leaves of the invariant besides the sums.
LEMMA EtherRelayed ==
  ASSUME MessengerInv, EtherInv, NEW m \in Messages, Backing', Payments',
         IsFiniteSet(failedMessages'), finalized \subseteq finalized',
         failedMessages' \subseteq failedMessages \cup {m},
         \A c \in Chains : Executing(c)' \subseteq Executing(c) \cup {m},
         To[m] = L1 => m \in finalized',
         \A n \in Messages : n # m => /\ received'[n] = received[n]
                                      /\ discountedValues'[n] = discountedValues[n],
         m \in failedMessages' => received'[m] = IF To[m] = L1 THEN discountedValues'[m] ELSE Value[m]
  PROVE  EtherInv'
<1>1. failedMessages \subseteq Messages /\ L1 \in Chains
  BY DEF MessengerInv, MessengerTypeOK, Chains
<1>2. \A n \in Messages : To[n] = L1 /\ n \in failedMessages' \cup Executing(L1)' => n \in finalized'
  BY <1>1 DEF EtherInv, ReplaysOK
<1>3. \A n \in failedMessages' :
        received'[n] = IF To[n] = L1 THEN discountedValues'[n] ELSE Value[n]
  BY <1>1 DEF EtherInv, ReplaysOK
<1> QED BY <1>2, <1>3 DEF EtherInv, ReplaysOK

\* Steps that relay nothing, and do not take from what was handed over.
LEMMA EtherUntouched ==
  ASSUME EtherInv, UNCHANGED <<relayVars, received>>, finalized \subseteq finalized'
  PROVE  EtherInv'
<1>1. UNCHANGED <<successfulMessages, failedMessages, discountedValues, balance, executing,
                  received, paid>>
  BY DEF relayVars
<1>2. \A c : Executing(c)' = Executing(c) /\ Waiting(c)' = Waiting(c)
  BY <1>1 DEF Executing, Waiting
<1> QED BY <1>1, <1>2 DEF EtherInv, Backing, Payments, ReplaysOK

\* A relay on L1: nothing runs there when a target is called, and what is kept for
\* a replay is what arrived.
LEMMA EtherL1 ==
  ASSUME MessengerInv, EtherInv, NEW m \in Messages, NEW arrived \in Nat, NEW value \in Nat,
         NEW fromPortal, To[m] = L1, relayMessageL1(m, arrived, value, fromPortal),
         finalized \subseteq finalized', m \in finalized',
         \/ Arrives(m, arrived) /\ value = arrived
         \/ WaitsAgain(m, arrived) /\ value = received[m]
  PROVE  EtherInv'
<1>1. /\ received \in [Messages -> Nat] /\ discountedValues \in [Messages -> Nat]
      /\ IsFiniteSet(failedMessages) /\ m \notin successfulMessages
      /\ executing \in [Chains -> Seq(Messages)] /\ Chains = {L1, L2} /\ L1 # L2
  BY DEF MessengerInv, MessengerTypeOK, EtherInv, ReplaysOK, relayMessageL1, MayRelay, Chains,
     L1, L2
<1>2. /\ \A n \in Messages : n # m => received'[n] = received[n]
      /\ received'[m] = value
  BY <1>1 DEF Arrives, WaitsAgain
<1>3. CASE /\ KeepForReplay(m, arrived)
           /\ discountedValues' = [discountedValues EXCEPT ![m] = value]
  <2>1. Backing' /\ Payments'
    BY <1>1, <1>3, KeepBacking
  <2>2. failedMessages' = failedMessages \cup {m} /\ executing' = executing
    BY <1>3 DEF KeepForReplay, FailedWith
  <2>3. IsFiniteSet(failedMessages')
    BY <1>1, <2>2, FS_AddElement
  <2>4. \A n \in Messages : discountedValues'[n] = IF n = m THEN value ELSE discountedValues[n]
    BY <1>1, <1>3
  <2> QED BY <1>2, <2>1, <2>2, <2>3, <2>4, EtherRelayed DEF Executing
<1>4. CASE MayEnterL1 /\ Enter(m, arrived, value)
  <2>1. executing[L1] = <<>>
    BY <1>4 DEF MayEnterL1, MessengerInv, SenderOfExecuting, Idle
  <2>2. Executing(L1) = {}
    BY <2>1 DEF Executing, ToSet
  <2>3. Backing' /\ Payments'
    BY <1>1, <1>4, <2>2, EnterBacking
  <2>4. /\ executing' = [executing EXCEPT ![L1] = Append(executing[L1], m)]
        /\ UNCHANGED <<failedMessages, discountedValues>>
    BY <1>4 DEF Enter
  <2>5. \A c \in Chains : Executing(c)' \subseteq Executing(c) \cup {m}
    <3>1. ToSet(Append(executing[L1], m)) = ToSet(executing[L1]) \cup {m}
      BY <1>1, Pushed
    <3> QED BY <1>1, <2>4, <3>1 DEF Executing
  <2>6. m \in failedMessages' => received'[m] = discountedValues'[m]
    BY <1>2, <2>4 DEF Arrives, WaitsAgain, EtherInv, ReplaysOK
  <2> QED BY <1>1, <1>2, <2>3, <2>4, <2>5, <2>6, EtherRelayed
<1> QED BY <1>3, <1>4 DEF relayMessageL1

\* A relay on L2: the lock says that the message does not run already.
LEMMA EtherL2 ==
  ASSUME MessengerInv, EtherInv, NEW m \in Messages, NEW arrived \in Nat,
         To[m] = L2, relayMessageL2(m, arrived), UNCHANGED finalized,
         \/ Arrives(m, arrived) /\ Value[m] = arrived
         \/ WaitsAgain(m, arrived)
  PROVE  EtherInv'
<1>1. /\ received \in [Messages -> Nat] /\ Value[m] \in Nat
      /\ IsFiniteSet(failedMessages) /\ m \notin successfulMessages
      /\ executing \in [Chains -> Seq(Messages)] /\ Chains = {L1, L2} /\ L1 # L2
      /\ m \notin Executing(L2)
  BY MessengerAssumption DEF MessengerInv, MessengerTypeOK, EtherInv, ReplaysOK, relayMessageL2,
     MayRelay, Chains, L1, L2, Unlocked, RunningOK
<1>2. WaitsAgain(m, arrived) => Value[m] = received[m]
  BY <1>1 DEF WaitsAgain, EtherInv, ReplaysOK
<1>3. /\ \A n \in Messages : n # m => received'[n] = received[n]
      /\ received'[m] = Value[m]
  BY <1>1, <1>2 DEF Arrives, WaitsAgain
<1>4. CASE KeepForReplay(m, arrived) /\ UNCHANGED discountedValues
  <2>1. Backing' /\ Payments'
    BY <1>1, <1>4, KeepBacking
  <2>2. failedMessages' = failedMessages \cup {m} /\ executing' = executing
    BY <1>4 DEF KeepForReplay, FailedWith
  <2>3. IsFiniteSet(failedMessages')
    BY <1>1, <2>2, FS_AddElement
  <2> QED BY <1>1, <1>3, <1>4, <2>1, <2>2, <2>3, EtherRelayed DEF Executing
<1>5. CASE Enter(m, arrived, Value[m])
  <2>1. Backing' /\ Payments'
    BY <1>1, <1>2, <1>5, EnterBacking
  <2>2. /\ executing' = [executing EXCEPT ![L2] = Append(executing[L2], m)]
        /\ UNCHANGED <<failedMessages, discountedValues>>
    BY <1>5 DEF Enter
  <2>3. \A c \in Chains : Executing(c)' \subseteq Executing(c) \cup {m}
    <3>1. ToSet(Append(executing[L2], m)) = ToSet(executing[L2]) \cup {m}
      BY <1>1, Pushed
    <3> QED BY <1>1, <2>2, <3>1 DEF Executing
  <2> QED BY <1>1, <1>3, <2>1, <2>2, <2>3, EtherRelayed
<1> QED BY <1>4, <1>5 DEF relayMessageL2

\* A target that returns was paid already.
LEMMA EtherLeft ==
  ASSUME MessengerInv, EtherInv, NEW c \in Chains, leave(c)
  PROVE  EtherInv'
<1> DEFINE s == executing[c]
           m == Last(s)
<1>1. s \in Seq(Messages) /\ s # <<>> /\ executing \in [Chains -> Seq(Messages)]
  BY DEF MessengerInv, MessengerTypeOK, leave, Idle
<1>2. ToSet(s) = ToSet(Front(s)) \cup {m} /\ m \in Messages
  BY <1>1, Popped
<1>3. /\ successfulMessages' = successfulMessages \cup {m}
      /\ executing' = [executing EXCEPT ![c] = Front(s)]
      /\ UNCHANGED <<finalized, received, failedMessages, discountedValues, balance, paid>>
  BY DEF leave
<1>4. To[m] = c
  BY <1>2 DEF MessengerInv, RunningOK, Executing
<1>5. /\ Executing(c)' \cup {m} = Executing(c)
      /\ \A d \in Chains : d # c => Executing(d)' = Executing(d)
  BY <1>1, <1>2, <1>3 DEF Executing
<1> HIDE DEF s, m
<1>6. \A d \in Chains : Waiting(d)' = Waiting(d)
  BY <1>3, <1>4, <1>5 DEF Waiting
<1>7. Backing'
  BY <1>3, <1>6 DEF EtherInv, Backing
<1>8. Payments'
  <2> SUFFICES ASSUME NEW n \in Messages
               PROVE  paid'[n] = IF n \in successfulMessages' \cup Executing(To[n])'
                                 THEN received'[n] ELSE 0
    BY DEF Payments
  <2>1. paid[n] = IF n \in successfulMessages \cup Executing(To[n]) THEN received[n] ELSE 0
    BY DEF EtherInv, Payments
  <2>2. To[n] \in Chains
    BY MessengerAssumption
  <2>3. n \in successfulMessages' \cup Executing(To[n])' <=> n \in successfulMessages \cup Executing(To[n])
    BY <1>3, <1>4, <1>5, <2>2
  <2> QED BY <1>3, <2>1, <2>3
<1>9. ReplaysOK'
  BY <1>3, <1>5 DEF EtherInv, ReplaysOK, Chains
<1> QED BY <1>7, <1>8, <1>9 DEF EtherInv

\* Every step keeps the ether in the messengers and what they owe balanced.
LEMMA EtherStep == MessengerInv /\ EtherInv /\ [MessengerNext]_messengerVars => EtherInv'
<1> SUFFICES ASSUME MessengerInv, EtherInv, [MessengerNext]_messengerVars PROVE EtherInv'
  OBVIOUS
<1>1. \A m \in Messages : To[m] \in Chains /\ Value[m] \in Nat
  BY MessengerAssumption
<1>2. CASE UNCHANGED messengerVars
  BY <1>2, EtherUntouched DEF messengerVars
<1>3. ASSUME NEW m \in Messages, sendMessage(m) PROVE EtherInv'
  BY <1>3, EtherUntouched DEF sendMessage
<1>4. ASSUME NEW m \in Messages, NEW value \in 0 .. Value[m], deliverOnL1(m, value)
      PROVE  EtherInv'
  <2>1. /\ To[m] = L1 /\ m \notin finalized /\ finalized' = finalized \cup {m} /\ value \in Nat
    BY <1>1, <1>4 DEF deliverOnL1
  <2>2. CASE UNCHANGED <<received, relayVars>>
    BY <2>1, <2>2, EtherUntouched
  <2>3. CASE relayMessageL1(m, value, value, TRUE) /\ received' = [received EXCEPT ![m] = value]
    <3>1. m \notin successfulMessages
      BY <2>3 DEF relayMessageL1, MayRelay
    <3>2. Arrives(m, value)
      BY <2>1, <2>3, <3>1 DEF Arrives, EtherInv, ReplaysOK
    <3> QED BY <2>1, <2>3, <3>2, EtherL1
  <2> QED BY <1>4, <2>2, <2>3 DEF deliverOnL1
<1>5. CASE deliverOnL2
  <2>1. Head(deposits) \in {n \in Messages : To[n] = L2}
    <3>1. deposits \in Seq({n \in Messages : To[n] = L2}) /\ deposits # <<>>
      BY <1>5 DEF deliverOnL2, MessengerInv, MessengerTypeOK
    <3> QED BY <3>1, Shifted
  <2>2. PICK m \in Messages : m = Head(deposits) /\ To[m] = L2
    BY <2>1
  <2>3. UNCHANGED finalized
    BY <1>5 DEF deliverOnL2
  <2>4. CASE UNCHANGED <<received, relayVars>>
    BY <2>3, <2>4, EtherUntouched
  <2>5. CASE /\ m \notin failedMessages /\ MayRelay(m) /\ Unlocked(m)
             /\ relayMessageL2(m, Value[m]) /\ received' = [received EXCEPT ![m] = Value[m]]
    <3>1. Arrives(m, Value[m])
      BY <2>2, <2>5 DEF Arrives, MayRelay, Unlocked, MessengerInv, RunningOK
    <3> QED BY <1>1, <2>2, <2>3, <2>5, <3>1, EtherL2
  <2> QED BY <1>5, <2>2, <2>4, <2>5 DEF deliverOnL2
<1>6. ASSUME NEW m \in Messages, replay(m) PROVE EtherInv'
  <2>1. m \in failedMessages /\ UNCHANGED <<finalized, received>>
    BY <1>6 DEF replay
  <2>2. CASE To[m] = L1 /\ relayMessageL1(m, 0, ReplayValue(m), FALSE)
    <3>1. WaitsAgain(m, 0)
      BY <2>1, <2>2 DEF WaitsAgain, relayMessageL1, MayRelay
    <3>2. /\ ReplayValue(m) = received[m] /\ m \in finalized
          /\ received[m] \in Nat
      BY <2>1, <2>2 DEF ReplayValue, EtherInv, ReplaysOK, MessengerInv, MessengerTypeOK
    <3> QED BY <2>1, <2>2, <3>1, <3>2, EtherL1
  <2>3. CASE To[m] = L2 /\ relayMessageL2(m, 0)
    <3>1. WaitsAgain(m, 0)
      BY <2>1, <2>3 DEF WaitsAgain, relayMessageL2, MayRelay
    <3> QED BY <2>1, <2>3, <3>1, EtherL2
  <2> QED BY <1>6, <2>2, <2>3 DEF replay
<1>7. ASSUME NEW c \in Chains, leave(c) PROVE EtherInv'
  BY <1>7, EtherLeft
<1> QED BY <1>2, <1>3, <1>4, <1>5, <1>6, <1>7 DEF MessengerNext

\* Each messenger holds the ether of the messages that wait to be replayed, and every
\* target got what arrived with its message, once, however often it was replayed.
THEOREM EtherIsAccountedFor == MessengerSpec => []EtherAccountedFor
<1>1. MessengerInit => EtherInv
  <2> SUFFICES ASSUME MessengerInit PROVE EtherInv
    OBVIOUS
  <2>1. \A c \in Chains : Waiting(c) = {} /\ Executing(c) = {} /\ balance[c] = 0
    BY DEF MessengerInit, Waiting, Executing, ToSet
  <2>2. IsFiniteSet(failedMessages) /\ failedMessages = {}
    BY FS_EmptySet DEF MessengerInit
  <2>3. Backing
    BY <2>1, SumEmpty DEF Backing
  <2>4. \A m \in Messages : To[m] \in Chains
    BY MessengerAssumption
  <2>5. Payments
    BY <2>1, <2>4 DEF Payments, MessengerInit
  <2>6. ReplaysOK
    BY <2>1, <2>2 DEF ReplaysOK, Chains
  <2> QED BY <2>3, <2>5, <2>6 DEF EtherInv
<1>2. MessengerInv /\ EtherInv => EtherAccountedFor
  BY DEF MessengerInv, EtherInv, Backing, Payments, EtherAccountedFor
<1> QED BY <1>1, <1>2, MessengerStart, MessengerStep, EtherStep, PTL DEF MessengerSpec
=============================================================================
