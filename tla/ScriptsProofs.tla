---------------------------- MODULE ScriptsProofs ----------------------------
(***************************************************************************)
(* The scripts.  Deployment, for any plans and any number of runs that are  *)
(* killed, repeated or out of order: a record is written once, as a script  *)
(* that finds its name recorded sends nothing and while one waits for its   *)
(* receipt no other script runs.  So what a transaction in the mempool is   *)
(* to install stays what is recorded, however long it waits and whatever    *)
(* happens to the run that sent it.                                         *)
(*                                                                          *)
(* check-l2: each question is still to be asked, has the answer expected,   *)
(* or is for the version of a predeploy upgraded since it was read.         *)
(*                                                                          *)
(* The script for invariant-docs: in a run nobody disturbs, the files it    *)
(* has written of have the tests it has gone over, each once, and what it   *)
(* goes over next are the rest.                                             *)
(***************************************************************************)
EXTENDS MC_Scripts, RecursionTheorems

Sent == [script : Indices, part : Nat, live : BOOLEAN, impl : Nat]

\* A transaction in the mempool is for one of the keys its script is to set, and
\* installs what is recorded.
Pooled(tx) ==
  LET code == Scripts[tx.script] IN
  /\ code.keys # <<>> => tx.part \in DOMAIN code.keys
  /\ tx.impl \in Indices \cup {BY_ADDRESS}
  /\ code.impl # NONE => tx.impl = deployments[code.impl]

\* A script waits for the last transaction only.
MempoolOK ==
  /\ mempool \in Seq(Sent)
  /\ \A k \in 1 .. Len(mempool) :
       /\ Pooled(mempool[k])
       /\ mempool[k].live => stage = "sent" /\ k = Len(mempool)

\* The transaction a script is at.
PartOK ==
  /\ part \in Nat
  /\ Current.keys # <<>> => part \in DOMAIN Current.keys

\* What is being deployed is not recorded.
NotYetRecorded ==
  stage \in {"sent", "mined"} /\ Current.name # NONE => deployments[Current.name] = 0

DeployInv == InstalledIsRecorded /\ MempoolOK /\ PartOK /\ NotYetRecorded

\* What the table says of a script.
LEMMA Table ==
  ASSUME NEW i \in Indices
  PROVE  /\ Len(Scripts) \in Nat \ {0} /\ BY_ADDRESS \in Nat /\ Indices \subseteq Nat
         /\ 0 \notin Indices /\ BY_ADDRESS # 0
         /\ Scripts[i].name # NONE =>
              Scripts[i].name \in Names /\ Scripts[i].proxy = NONE /\ Scripts[i].keys = <<>>
         /\ Scripts[i].proxy # NONE => Scripts[i].proxy \in ProxyNames
         /\ Scripts[i].impl # NONE =>
              /\ Scripts[i].proxy # NONE /\ Scripts[i].impl \in Names
              /\ Scripts[i].impl \in Scripts[i].gets
         /\ \A k \in DOMAIN Scripts[i].keys : Scripts[i].keys[k] \in Keys
         /\ DOMAIN Scripts[i].keys = 1 .. Len(Scripts[i].keys) /\ Len(Scripts[i].keys) \in Nat
         /\ Scripts[i].keys # <<>> => 1 \in DOMAIN Scripts[i].keys
         /\ Scripts[i].waits \in BOOLEAN
<1>1. /\ Len(Scripts) \in Nat \ {0} /\ BY_ADDRESS \in Nat /\ Indices \subseteq Nat
      /\ 0 \notin Indices /\ BY_ADDRESS # 0
  BY TableAssumption DEF BY_ADDRESS, Indices
<1> QED BY <1>1, TableAssumption DEF Names, ProxyNames, Keys

\* Nothing is recorded or sent at first.
LEMMA DeployStart == DeployInit => DeployInv
<1> SUFFICES ASSUME DeployInit PROVE DeployInv
  OBVIOUS
<1>1. 1 \in Indices
  BY TableAssumption DEF Indices
<1>2. /\ deployments \in [Names -> Indices \cup {0}]
      /\ installed \in [ProxyNames -> Indices \cup {0, BY_ADDRESS}]
      /\ \A p \in ProxyNames : installed[p] = 0
  BY DEF DeployInit
<1>3. \A i \in Indices : Scripts[i].impl # NONE => installed[Scripts[i].proxy] = 0
  BY <1>2, Table
<1>4. InstalledIsRecorded
  BY <1>1, <1>2, <1>3, DeployAssumption DEF DeployInit, InstalledIsRecorded, DeployTypeOK
<1>5. MempoolOK
  BY DEF DeployInit, MempoolOK
<1>6. PartOK /\ NotYetRecorded
  BY <1>1, Table DEF DeployInit, PartOK, NotYetRecorded, Current
<1> QED BY <1>4, <1>5, <1>6 DEF DeployInv

\* The first script of a tag, and the next one, are scripts.
LEMMA NextScript ==
  ASSUME NEW t, NEW n, Following(t, n) # {}
  PROVE  (CHOOSE i \in Following(t, n) : \A j \in Following(t, n) : i <= j) \in Indices
<1>1. Following(t, n) \subseteq Nat /\ Following(t, n) \subseteq Indices
  BY TableAssumption DEF Following, Indices
<1>2. \E i \in Following(t, n) : \A j \in Following(t, n) : i <= j
  BY <1>1, LeastNatural
<1> QED BY <1>1, <1>2

\* A script that starts, ends or is at its checks: the chain and the records are
\* left alone, and it waits for nothing.
LEMMA NothingSent ==
  ASSUME DeployInv, UNCHANGED <<deployments, installed, postdeploys>>,
         MempoolOK', at' \in Indices, PartOK', mishaps' \in 0 .. MaxMishaps,
         stage' \in {"idle", "start", "check"}
  PROVE  DeployInv'
BY DEF DeployInv, InstalledIsRecorded, DeployTypeOK, NotYetRecorded

\* The mempool stays in order when nobody waits.
LEMMA PoolKept ==
  ASSUME DeployInv, UNCHANGED <<deployments, mempool>>, stage # "sent"
  PROVE  MempoolOK'
BY DEF DeployInv, MempoolOK, Pooled

\* A run ends or goes on to its next script.
LEMMA AdvanceInv ==
  ASSUME DeployInv, Advance, UNCHANGED deployments, MempoolOK'
  PROVE  DeployInv'
<1>1. at' \in Indices
  BY NextScript DEF Advance, DeployInv, InstalledIsRecorded, DeployTypeOK
<1>2. part' = 1 /\ stage' \in {"idle", "start"} /\ mishaps' = mishaps
  BY DEF Advance
<1>3. PartOK'
  BY <1>1, <1>2, Table DEF PartOK, Current
<1>4. mishaps \in 0 .. MaxMishaps
  BY DEF DeployInv, InstalledIsRecorded, DeployTypeOK
<1> QED BY <1>1, <1>2, <1>3, <1>4, NothingSent DEF Advance

\* A run begins.
LEMMA BeginInv ==
  ASSUME DeployInv, NEW t, Begin(t), mishaps' \in 0 .. MaxMishaps
  PROVE  DeployInv'
<1>1. at' \in Indices /\ part' = 1 /\ stage' = "start" /\ stage = "idle"
  BY NextScript DEF Begin
<1>2. MempoolOK'
  BY <1>1, PoolKept DEF Begin, chainVars
<1>3. PartOK'
  BY <1>1, Table DEF PartOK, Current
<1> QED BY <1>1, <1>2, <1>3, NothingSent DEF Begin, chainVars

\* A transaction is mined: a proxy has one script that upgrades it, so what it runs
\* from now on is what that script recorded.
LEMMA MineInv ==
  ASSUME DeployInv, Mine
  PROVE  DeployInv'
<1> DEFINE tx == Head(mempool)
           code == Scripts[tx.script]
           ok == Succeeds(code)
<1>1. /\ mempool \in Seq(Sent) /\ mempool # <<>> /\ mempool' = Tail(mempool)
      /\ UNCHANGED <<deployments, at, part, mishaps>>
  BY DEF DeployInv, MempoolOK, Mine, operatorVars
<1>2. /\ tx = mempool[1] /\ Len(mempool) \in Nat \ {0} /\ tx \in Sent
      /\ Tail(mempool) \in Seq(Sent) /\ Len(Tail(mempool)) = Len(mempool) - 1
      /\ \A k \in 1 .. Len(mempool) - 1 : Tail(mempool)[k] = mempool[k + 1]
  BY <1>1
<1>3. /\ tx.script \in Indices /\ tx.live \in BOOLEAN /\ Pooled(tx)
      /\ tx.live => stage = "sent" /\ Len(mempool) = 1
  <2>1. tx.script \in Indices /\ tx.live \in BOOLEAN
    BY <1>2 DEF Sent
  <2>2. 1 \in 1 .. Len(mempool)
    BY <1>2
  <2>3. Pooled(mempool[1]) /\ (mempool[1].live => stage = "sent" /\ 1 = Len(mempool))
    BY <2>2 DEF DeployInv, MempoolOK
  <2> QED BY <1>2, <2>1, <2>3
<1>4. /\ installed' = IF code.proxy # NONE /\ ok THEN [installed EXCEPT ![code.proxy] = tx.impl]
                      ELSE installed
      /\ postdeploys' = IF code.keys # <<>> THEN postdeploys \cup {code.keys[tx.part]}
                        ELSE postdeploys
      /\ stage' = IF ~tx.live THEN stage ELSE IF ok THEN "mined" ELSE "reverted"
  BY DEF Mine
<1> HIDE DEF tx, ok
<1>5. installed' \in [ProxyNames -> Indices \cup {0, BY_ADDRESS}]
  BY <1>3, <1>4, Table DEF DeployInv, InstalledIsRecorded, DeployTypeOK, Pooled
<1>6. postdeploys' \subseteq Keys
  BY <1>3, <1>4, Table DEF DeployInv, InstalledIsRecorded, DeployTypeOK, Pooled
<1>7. DeployTypeOK'
  BY <1>1, <1>4, <1>5, <1>6 DEF DeployInv, InstalledIsRecorded, DeployTypeOK
<1>8. ASSUME NEW i \in Indices, Scripts[i].impl # NONE, installed'[Scripts[i].proxy] # 0
      PROVE  installed'[Scripts[i].proxy] = deployments[Scripts[i].impl]
  <2>1. Scripts[i].proxy # NONE /\ Scripts[i].proxy \in ProxyNames
    BY <1>8, Table
  <2>2. CASE code.proxy # NONE /\ ok /\ Scripts[i].proxy = code.proxy
    <3>1. i = tx.script
      BY <1>3, <2>2, TableAssumption
    <3>2. installed'[Scripts[i].proxy] = tx.impl
      BY <1>4, <2>1, <2>2 DEF DeployInv, InstalledIsRecorded, DeployTypeOK
    <3> QED BY <1>3, <1>8, <3>1, <3>2 DEF Pooled
  <2>3. CASE ~ (code.proxy # NONE /\ ok /\ Scripts[i].proxy = code.proxy)
    <3>1. installed'[Scripts[i].proxy] = installed[Scripts[i].proxy]
      BY <1>4, <2>1, <2>3 DEF DeployInv, InstalledIsRecorded, DeployTypeOK
    <3> QED BY <1>8, <3>1 DEF DeployInv, InstalledIsRecorded
  <2> QED BY <2>2, <2>3
<1>9. InstalledIsRecorded'
  BY <1>1, <1>7, <1>8 DEF InstalledIsRecorded
<1>10. MempoolOK'
  <2>1. ASSUME NEW k \in 1 .. Len(mempool')
        PROVE  (Pooled(mempool[k]) /\ (mempool[k].live => stage = "sent" /\ k = Len(mempool)))'
    <3>1. k \in 1 .. Len(mempool) - 1 /\ mempool'[k] = mempool[k + 1]
      BY <1>1, <1>2
    <3>2. k + 1 \in 1 .. Len(mempool) /\ Len(mempool) # 1
      BY <1>2, <3>1
    <3>3. Pooled(mempool[k + 1]) /\ (mempool[k + 1].live => stage = "sent" /\ k + 1 = Len(mempool))
      BY <3>2 DEF DeployInv, MempoolOK
    <3>4. Pooled(mempool[k])'
      BY <1>1, <3>1, <3>3 DEF Pooled
    <3>5. stage' = stage
      BY <1>3, <1>4, <3>2
    <3>6. k + 1 = Len(mempool) => k = Len(mempool')
      <4>1. Len(mempool') = Len(mempool) - 1 /\ Len(mempool) \in Nat
        BY <1>1, <1>2
      <4>2. k \in Nat
        BY <3>1
      <4>3. \A a, b, c \in Int : b = c - 1 /\ a + 1 = c => a = b
        OBVIOUS
      <4> QED BY <4>1, <4>2, <4>3
    <3>7. mempool'[k].live => stage' = "sent" /\ k = Len(mempool')
      BY <3>1, <3>3, <3>5, <3>6
    <3> QED BY <3>4, <3>7
  <2> QED BY <1>1, <1>2, <2>1 DEF MempoolOK
<1>11. PartOK'
  BY <1>1 DEF DeployInv, PartOK, Current
<1>12. NotYetRecorded'
  BY <1>1, <1>3, <1>4 DEF DeployInv, NotYetRecorded, Current
<1> QED BY <1>9, <1>10, <1>11, <1>12 DEF DeployInv

\* A script sends its transaction, and waits for it or goes on: what it deploys is
\* not recorded yet, what it installs is.
LEMMA SendInv ==
  ASSUME DeployInv, Send
  PROVE  DeployInv'
<1> DEFINE tx == Transaction(at)
<1>1. /\ stage = "start" /\ ~Throws(Current) /\ ~HasIt(Current)
      /\ mempool' = Append(mempool, tx) /\ UNCHANGED deployments
      /\ at \in Indices /\ mempool \in Seq(Sent)
  BY DEF Send, DeployInv, MempoolOK, InstalledIsRecorded, DeployTypeOK
<1>2. /\ tx.script = at /\ tx.part = part /\ tx.live = Current.waits
      /\ tx.impl = IF Current.impl = NONE THEN BY_ADDRESS ELSE deployments[Current.impl]
  BY DEF Transaction, Current
<1>3. Current.impl # NONE => deployments[Current.impl] \in Indices
  <2>1. Current.impl # NONE => Current.impl \in Recorded
    BY <1>1, Table DEF Throws, Current
  <2> QED BY <2>1 DEF Recorded, DeployInv, InstalledIsRecorded, DeployTypeOK
<1>4. Pooled(tx)
  BY <1>2, <1>3 DEF Pooled, DeployInv, PartOK, Current
<1>5. tx \in Sent
  <2>1. tx.impl \in Nat /\ Current.waits \in BOOLEAN
    BY <1>1, <1>2, <1>3, Table DEF Current
  <2> QED BY <1>1, <2>1 DEF Transaction, Sent, DeployInv, PartOK, Current
<1> HIDE DEF tx
<1>6. /\ mempool' \in Seq(Sent) /\ Len(mempool) \in Nat /\ Len(mempool') = Len(mempool) + 1
      /\ mempool'[Len(mempool) + 1] = tx
      /\ \A k \in 1 .. Len(mempool) : mempool'[k] = mempool[k]
  BY <1>1, <1>5
<1>7. ASSUME NEW k \in 1 .. Len(mempool')
      PROVE  Pooled(mempool[k])' /\ (mempool'[k].live => k = Len(mempool') /\ Current.waits)
  <2>1. CASE k = Len(mempool) + 1
    BY <1>1, <1>2, <1>4, <1>6, <2>1 DEF Pooled
  <2>2. CASE k # Len(mempool) + 1
    <3>1. k \in 1 .. Len(mempool)
      BY <1>6, <2>2
    <3>2. Pooled(mempool[k]) /\ ~mempool[k].live
      BY <1>1, <3>1 DEF DeployInv, MempoolOK
    <3> QED BY <1>1, <1>6, <3>1, <3>2 DEF Pooled
  <2> QED BY <2>1, <2>2
<1>8. CASE Current.waits
  <2>1. /\ stage' = "sent"
        /\ UNCHANGED <<installed, postdeploys, at, part, mishaps>>
    BY <1>8 DEF Send, operatorVars
  <2>2. MempoolOK'
    BY <1>6, <1>7, <2>1 DEF MempoolOK
  <2>3. PartOK'
    BY <2>1 DEF DeployInv, PartOK, Current
  <2>4. NotYetRecorded'
    BY <1>1, <2>1, Table DEF HasIt, NotYetRecorded, Current
  <2>5. InstalledIsRecorded'
    BY <1>1, <2>1 DEF DeployInv, InstalledIsRecorded, DeployTypeOK
  <2> QED BY <2>2, <2>3, <2>4, <2>5 DEF DeployInv
<1>9. CASE ~Current.waits
  <2>1. Advance
    BY <1>9 DEF Send
  <2>2. MempoolOK'
    BY <1>6, <1>7, <1>9 DEF MempoolOK
  <2> QED BY <1>1, <2>1, <2>2, AdvanceInv
<1> QED BY <1>8, <1>9

\* A receipt is in: nothing is installed from a record that was not there, and
\* nothing in the mempool is to be.
LEMMA RecordInv ==
  ASSUME DeployInv, Receipt, Current.name # NONE
  PROVE  DeployInv'
<1> DEFINE n == Current.name
<1>1. /\ stage = "mined" /\ stage' = "check" /\ deployments' = AfterReceipt(Current)
      /\ UNCHANGED <<mempool, installed, postdeploys, at, part, mishaps>>
  BY DEF Receipt, operatorVars
<1>2. /\ at \in Indices /\ deployments \in [Names -> Indices \cup {0}] /\ n \in Names
      /\ installed \in [ProxyNames -> Indices \cup {0, BY_ADDRESS}]
  BY Table DEF DeployInv, InstalledIsRecorded, DeployTypeOK, Current
<1>3. deployments[n] = 0 /\ deployments' = [deployments EXCEPT ![n] = at]
  BY <1>1, <1>2, Table DEF DeployInv, NotYetRecorded, AfterReceipt, NewAddress
<1>4. DeployTypeOK'
  BY <1>1, <1>2, <1>3 DEF DeployInv, InstalledIsRecorded, DeployTypeOK
<1>5. ASSUME NEW i \in Indices, Scripts[i].impl # NONE, installed[Scripts[i].proxy] # 0
      PROVE  installed[Scripts[i].proxy] = deployments'[Scripts[i].impl]
  <2>1. installed[Scripts[i].proxy] = deployments[Scripts[i].impl] /\ Scripts[i].impl \in Names
    BY <1>5, Table DEF DeployInv, InstalledIsRecorded
  <2> QED BY <1>2, <1>3, <1>5, <2>1
<1>6. InstalledIsRecorded'
  BY <1>1, <1>4, <1>5 DEF InstalledIsRecorded
<1>7. MempoolOK'
  <2>1. mempool \in Seq(Sent) /\ Len(mempool) \in Nat
    BY DEF DeployInv, MempoolOK
  <2>2. ASSUME NEW k \in 1 .. Len(mempool)
        PROVE  Pooled(mempool[k])' /\ ~mempool[k].live
    <3>1. Pooled(mempool[k]) /\ ~mempool[k].live
      BY <1>1 DEF DeployInv, MempoolOK
    <3>2. mempool[k] \in Sent
      BY <2>1
    <3>3. mempool[k].script \in Indices
      BY <3>2 DEF Sent
    <3>4. mempool[k].impl # 0
      BY <3>1, <3>3, Table DEF Pooled
    <3>5. Scripts[mempool[k].script].impl # NONE => Scripts[mempool[k].script].impl \in Names
      BY <3>3, Table
    <3> QED BY <1>1, <1>2, <1>3, <3>1, <3>4, <3>5 DEF Pooled
  <2> QED BY <1>1, <2>1, <2>2 DEF MempoolOK
<1>8. PartOK' /\ NotYetRecorded'
  BY <1>1 DEF DeployInv, PartOK, NotYetRecorded, Current
<1> QED BY <1>6, <1>7, <1>8 DEF DeployInv

\* A receipt of something else: the next key, or the next script.
LEMMA ReceiptInv ==
  ASSUME DeployInv, Receipt
  PROVE  DeployInv'
<1>1. CASE Current.name # NONE
  BY <1>1, RecordInv
<1>2. CASE Current.name = NONE /\ part < Len(Current.keys)
  <2>1. /\ stage = "mined" /\ stage' = "start" /\ part' = part + 1
        /\ UNCHANGED <<deployments, mempool, installed, postdeploys, at, mishaps>>
    BY <1>2 DEF Receipt, operatorVars
  <2>2. MempoolOK'
    BY <2>1, PoolKept
  <2>3. PartOK'
    BY <1>2, <2>1, Table DEF DeployInv, PartOK, Current, InstalledIsRecorded, DeployTypeOK
  <2>4. at \in Indices /\ mishaps \in 0 .. MaxMishaps
    BY DEF DeployInv, InstalledIsRecorded, DeployTypeOK
  <2> QED BY <2>1, <2>2, <2>3, <2>4, NothingSent
<1>3. CASE Current.name = NONE /\ ~(part < Len(Current.keys))
  <2>1. Advance /\ UNCHANGED <<deployments, mempool>> /\ stage = "mined"
    BY <1>3 DEF Receipt
  <2> QED BY <2>1, PoolKept, AdvanceInv
<1> QED BY <1>1, <1>2, <1>3

\* A run that ends without waiting for what it sent.
LEMMA AbortInv ==
  ASSUME DeployInv, Abort, MempoolOK', mishaps' \in 0 .. MaxMishaps
  PROVE  DeployInv'
<1>1. stage' = "idle" /\ UNCHANGED <<deployments, installed, postdeploys, at, part>>
  BY DEF Abort
<1>2. PartOK' /\ at \in Indices
  BY <1>1 DEF DeployInv, PartOK, Current, InstalledIsRecorded, DeployTypeOK
<1> QED BY <1>1, <1>2, NothingSent

\* A run is killed, and its transactions stay.
LEMMA KillInv ==
  ASSUME DeployInv, Kill
  PROVE  DeployInv'
<1>1. /\ mempool \in Seq(Sent) /\ Len(mempool) \in Nat /\ DOMAIN mempool = 1 .. Len(mempool)
      /\ mempool' = [k \in 1 .. Len(mempool) |-> [mempool[k] EXCEPT !.live = FALSE]]
      /\ UNCHANGED deployments
  BY DEF DeployInv, MempoolOK, Kill, Abort
<1>2. ASSUME NEW k \in 1 .. Len(mempool)
      PROVE  /\ mempool'[k] \in Sent /\ ~mempool'[k].live
             /\ mempool'[k].script = mempool[k].script /\ mempool'[k].part = mempool[k].part
             /\ mempool'[k].impl = mempool[k].impl
  <2>1. mempool[k] \in Sent /\ mempool'[k] = [mempool[k] EXCEPT !.live = FALSE]
    BY <1>1
  <2> QED BY <2>1 DEF Sent
<1>3. mempool' \in Seq(Sent) /\ Len(mempool') = Len(mempool)
  BY <1>1, <1>2
<1>4. ASSUME NEW k \in 1 .. Len(mempool) PROVE Pooled(mempool[k])'
  <2>1. Pooled(mempool[k])
    BY DEF DeployInv, MempoolOK
  <2> QED BY <1>1, <1>2, <2>1 DEF Pooled
<1>5. MempoolOK'
  BY <1>2, <1>3, <1>4 DEF MempoolOK
<1>6. Abort /\ mishaps' \in 0 .. MaxMishaps
  BY DeployAssumption DEF Kill, DeployInv, InstalledIsRecorded, DeployTypeOK
<1> QED BY <1>5, <1>6, AbortInv

\* Every step keeps the invariant.
LEMMA DeployStep == DeployInv /\ [DeployNext]_deployVars => DeployInv'
<1> SUFFICES ASSUME DeployInv, [DeployNext]_deployVars PROVE DeployInv'
  OBVIOUS
<1>1. mishaps \in 0 .. MaxMishaps /\ MaxMishaps \in Nat
  BY DeployAssumption DEF DeployInv, InstalledIsRecorded, DeployTypeOK
<1>2. CASE Mine
  BY <1>2, MineInv
<1>3. CASE Throw
  <2>1. Abort /\ UNCHANGED <<deployments, mempool, mishaps>> /\ stage # "sent"
    BY <1>3 DEF Throw, Abort
  <2> QED BY <1>1, <2>1, PoolKept, AbortInv
<1>4. CASE Skip
  <2>1. Advance /\ UNCHANGED <<deployments, mempool>> /\ stage # "sent"
    BY <1>4 DEF Skip
  <2> QED BY <2>1, PoolKept, AdvanceInv
<1>5. CASE Send
  BY <1>5, SendInv
<1>6. CASE Receipt
  BY <1>6, ReceiptInv
<1>7. CASE Checked
  <2>1. Advance /\ UNCHANGED <<deployments, mempool>> /\ stage # "sent"
    BY <1>7 DEF Checked
  <2> QED BY <2>1, PoolKept, AdvanceInv
<1>8. CASE Kill
  BY <1>8, KillInv
<1>9. CASE RunPlanned \/ RunMissing \/ RunOther
  <2>1. mishaps' \in 0 .. MaxMishaps
    BY <1>1, <1>9 DEF RunPlanned, RunMissing, RunOther
  <2>2. \E t : Begin(t)
    BY <1>9 DEF RunPlanned, RunMissing, RunOther
  <2> QED BY <2>1, <2>2, BeginInv
<1>10. CASE GoOn
  <2>1. UNCHANGED <<deployments, installed, postdeploys, mempool, at, part, stage, mishaps>>
        /\ stage = "idle"
    BY <1>10 DEF GoOn, chainVars, runVars
  <2>2. MempoolOK' /\ PartOK' /\ at \in Indices
    BY <2>1, PoolKept DEF DeployInv, PartOK, Current, InstalledIsRecorded, DeployTypeOK
  <2> QED BY <1>1, <2>1, <2>2, NothingSent
<1>11. CASE UNCHANGED deployVars
  <2>1. UNCHANGED <<deployments, installed, postdeploys, mempool, at, part, stage, mishaps>>
    BY <1>11 DEF deployVars, chainVars, runVars, operatorVars
  <2> QED BY <2>1 DEF DeployInv, InstalledIsRecorded, DeployTypeOK, MempoolOK, Pooled, PartOK,
            NotYetRecorded, Current
<1> QED BY <1>2, <1>3, <1>4, <1>5, <1>6, <1>7, <1>8, <1>9, <1>10, <1>11 DEF DeployNext, Step

\* Whatever plan is carried out, and however often a run is killed, repeated or run out
\* of order while its transactions wait in the mempool, the implementation behind
\* a proxy is the one that deployments/ names (deploy of src/deploy-utils.ts, and the
\* scripts that upgrade).
THEOREM RecordsNameWhatRuns == DeploySpec => []InstalledIsRecorded
<1>1. DeployInv => InstalledIsRecorded
  BY DEF DeployInv
<1> QED BY <1>1, DeployStart, DeployStep, PTL DEF DeploySpec

-----------------------------------------------------------------------------
(* The task check-l2: whatever is upgraded while it asks. *)

Upgrades == [predeploy : Upgradable, late : BOOLEAN]

\* Every question is still to be asked, or has the answer expected, or is for the
\* version of a predeploy upgraded since it was read.
Covered ==
  \A q \in L2!Range(L2!Questions(options)) :
    q \in L2!Range(unasked) \/ L2!AsExpected(q) \/ L2!Overtaken(q)

CheckInv ==
  /\ L2!CheckTypeOK
  /\ unasked \in Seq(L2!Facts) /\ upgraded \in Seq(Upgrades)
  /\ outdated \subseteq L2!OfThisRepository
  /\ \A q \in differs : q \in L2!Facts \/ L2!Overtaken(q)
  /\ verdict = "passed" => unasked = <<>>
  /\ Covered

\* Nothing is asked yet, or nothing is asked at all.
LEMMA CheckStart == L2!CheckInit \/ NoCheck => CheckInv
<1>1. ASSUME L2!CheckInit PROVE CheckInv
  <2>1. options \in L2!Options /\ unasked = L2!Questions(options) /\ verdict = "none"
        /\ upgraded = <<>> /\ outdated \in {L2!OfThisRepository, {}}
    BY <1>1 DEF L2!CheckInit
  <2>2. differs \subseteq L2!Facts
    BY <1>1 DEF L2!CheckInit
  <2>3. MaxUpgrades \in Nat /\ unasked \in Seq(L2!Facts)
    BY <2>1, QuestionsAssumption
  <2>4. Len(upgraded) = 0 /\ upgraded \in Seq(Upgrades)
    BY <2>1
  <2> QED BY <2>1, <2>2, <2>3, <2>4 DEF CheckInv, L2!CheckTypeOK, Covered
<1>2. ASSUME NoCheck PROVE CheckInv
  <2>1. options \in L2!Options /\ unasked = <<>> /\ verdict = "none" /\ upgraded = <<>>
        /\ outdated = {} /\ differs = {}
    BY <1>2 DEF NoCheck, L2!Options
  <2>2. Len(upgraded) = 0 /\ upgraded \in Seq(Upgrades) /\ unasked \in Seq(L2!Facts)
    BY <2>1
  <2> QED BY <2>1, <2>2, QuestionsAssumption DEF CheckInv, L2!CheckTypeOK, Covered, L2!AsExpected
<1> QED BY <1>1, <1>2

\* A question with the answer expected is asked.
LEMMA AskInv ==
  ASSUME CheckInv, L2!Ask
  PROVE  CheckInv'
<1>1. /\ unasked \in Seq(L2!Facts) /\ unasked # <<>> /\ unasked' = Tail(unasked)
      /\ UNCHANGED <<options, outdated, differs, verdict, upgraded>>
      /\ L2!AsExpected(Head(unasked)) /\ verdict = "none"
  BY DEF CheckInv, L2!Ask
<1>2. \A q \in L2!Range(unasked) : q = Head(unasked) \/ q \in L2!Range(Tail(unasked))
  <2> SUFFICES ASSUME NEW i \in 1 .. Len(unasked), i # 1
               PROVE  \E j \in DOMAIN Tail(unasked) : unasked[i] = Tail(unasked)[j]
    BY <1>1 DEF L2!Range
  <2>1. /\ i - 1 \in 1 .. Len(unasked) - 1 /\ DOMAIN Tail(unasked) = 1 .. Len(unasked) - 1
        /\ Tail(unasked)[i - 1] = unasked[(i - 1) + 1] /\ (i - 1) + 1 = i
    BY <1>1
  <2> QED BY <2>1
<1>3. Covered'
  BY <1>1, <1>2 DEF CheckInv, Covered, L2!AsExpected, L2!Overtaken
<1> QED BY <1>1, <1>3 DEF CheckInv, L2!CheckTypeOK, L2!Overtaken

\* A predeploy is upgraded: its version may be another, and all else that is known
\* stays.
LEMMA UpgradeInv ==
  ASSUME CheckInv, NEW p \in Upgradable, L2!Upgrade(p)
  PROVE  CheckInv'
<1> DEFINE late == <<p, "version">> \notin L2!Range(unasked)
           entry == [predeploy |-> p, late |-> late]
<1>1. /\ upgraded \in Seq(Upgrades) /\ upgraded' = Append(upgraded, entry)
      /\ Len(upgraded) < MaxUpgrades /\ MaxUpgrades \in Nat /\ Len(upgraded) \in Nat
      /\ UNCHANGED <<options, outdated, unasked, verdict>> /\ verdict = "none"
  BY QuestionsAssumption DEF CheckInv, L2!Upgrade
<1>2. entry \in Upgrades
  BY DEF Upgrades
<1>3. entry \in L2!Range(upgraded') /\ L2!Range(upgraded) \subseteq L2!Range(upgraded')
  BY <1>1, <1>2 DEF L2!Range
<1>4. \A q : L2!Overtaken(q) => L2!Overtaken(q)'
  BY <1>3 DEF L2!Overtaken
<1>5. late => L2!Overtaken(<<p, "version">>)'
  BY <1>3 DEF L2!Overtaken
<1>6. \A q \in differs' : q \in differs \/ q = <<p, "version">>
  BY DEF L2!Upgrade
<1>7. \A q : q # <<p, "version">> /\ L2!AsExpected(q) => L2!AsExpected(q)'
  BY <1>1, <1>6 DEF L2!AsExpected
<1>8. Covered'
  BY <1>1, <1>4, <1>5, <1>7 DEF CheckInv, Covered
<1>9. \A q \in differs' : q \in L2!Facts \/ L2!Overtaken(q)'
  <2>1. \A q \in L2!Range(unasked) : q \in L2!Facts
    BY DEF CheckInv, L2!Range
  <2> QED BY <1>4, <1>5, <1>6, <2>1 DEF CheckInv
<1>10. upgraded' \in Seq(Upgrades) /\ Len(upgraded') <= MaxUpgrades
  BY <1>1, <1>2
<1> QED BY <1>1, <1>8, <1>9, <1>10 DEF CheckInv, L2!CheckTypeOK

\* Every step keeps the invariant.
LEMMA CheckStep == CheckInv /\ (L2!CheckNext \/ UNCHANGED checkVars) => CheckInv'
<1> SUFFICES ASSUME CheckInv, L2!CheckNext \/ UNCHANGED checkVars PROVE CheckInv'
  OBVIOUS
<1>1. CASE L2!Ask
  BY <1>1, AskInv
<1>2. CASE L2!Throw \/ L2!Pass
  BY <1>2 DEF CheckInv, L2!Throw, L2!Pass, L2!CheckTypeOK, Covered, L2!AsExpected,
            L2!Overtaken
<1>3. CASE \E p \in Upgradable : L2!Upgrade(p)
  BY <1>3, UpgradeInv
<1>4. CASE UNCHANGED checkVars
  BY <1>4 DEF checkVars, CheckInv, L2!CheckTypeOK, Covered, L2!AsExpected, L2!Overtaken
<1> QED BY <1>1, <1>2, <1>3, <1>4 DEF L2!CheckNext

\* What may be wrong and is asked about has been asked.
LEMMA CheckedAll == CheckInv => NothingOverlooked
<1> SUFFICES ASSUME CheckInv PROVE NothingOverlooked
  OBVIOUS
<1>1. options \in L2!Options
  BY DEF CheckInv, L2!CheckTypeOK
<1>2. \A q \in L2!Range(L2!Questions(options)) :
        q \in differs \cup outdated /\ q \notin L2!Range(unasked) => L2!Overtaken(q)
  BY DEF CheckInv, Covered, L2!AsExpected
<1>3. ASSUME NEW q \in differs \cup outdated, L2!Claimed(q), L2!Seen(q[1])
      PROVE  L2!Overtaken(q)
  <2>1. q \notin L2!Range(unasked)
    BY <1>3 DEF L2!Seen, L2!Range
  <2>2. q \in L2!Range(L2!Questions(options)) \/ q \in L2!Facts \/ L2!Overtaken(q)
    BY <1>1, QuestionsAssumption DEF CheckInv
  <2>3. q[1] \in L2!BehindProxy /\ q[1] \notin {"network", "L2OutputOracle"}
    BY <1>3, QuestionsAssumption DEF L2!Claimed
  <2>4. ~(options.skipPredeployCheck /\ q[2] \in {"code", "admin"}) /\ q # <<"ProxyAdmin", "admin">>
    BY <1>3 DEF L2!Claimed, L2!WithoutAdmin
  <2> QED BY <1>1, <1>2, <2>1, <2>2, <2>3, <2>4, QuestionsAssumption
<1>4. ASSUME verdict = "passed", NEW q \in differs
      PROVE  \/ L2!Overtaken(q)
             \/ q[1] \in {"network", "L2OutputOracle"}
             \/ options.skipPredeployCheck /\ q[2] \in {"code", "admin"}
             \/ q = <<"ProxyAdmin", "admin">>
  <2>1. q \notin L2!Range(unasked)
    BY <1>4 DEF CheckInv, L2!Range
  <2>2. q \in L2!Facts \/ L2!Overtaken(q)
    BY DEF CheckInv
  <2> QED BY <1>1, <1>2, <2>1, <2>2, QuestionsAssumption
<1> QED BY <1>3, <1>4 DEF NothingOverlooked, L2!NothingOverlooked, CheckInv

\* Whatever the options of the task, whatever is wrong in the network at first, and
\* however many predeploys are upgraded between two of its questions, what check-l2
\* has gone over is as it expects, and all that it ever asks about if it ends well,
\* but for the version of a predeploy upgraded after the task had read its version
\* (check and checkPredeploys of tasks/check-l2.ts).
THEOREM CheckOverlooksNothing == ScriptsSpec => []NothingOverlooked
<1>1. ScriptsInit => CheckInv
  BY CheckStart DEF ScriptsInit
<1>2. CheckInv /\ [ScriptsNext]_scriptsVars => CheckInv'
  BY CheckStep DEF ScriptsNext, scriptsVars
<1> QED BY <1>1, <1>2, CheckedAll, PTL DEF ScriptsSpec

-----------------------------------------------------------------------------
(* The script that writes invariant-docs: a run that nobody disturbs. *)

Lines == (UNION {Contents[t] : t \in Tests}) \cup {<<>>}
Part(t, lines) == [test |-> t, docs |-> Docs!parse(lines)]
Entry(t, lines) == [contract |-> t.contract, test |-> t, docs |-> Docs!parse(lines)]

\* The tests there are that the run has written of.
WrittenTests ==
  {t \in Tests : /\ tests[t] # <<>>
                 /\ phase = "invariants" => t.dir = "invariants"
                 /\ \A i \in DOMAIN todo : todo[i].test # t}

\* A file has of each test of S one part, and no other.
FileHas(n, S) ==
  /\ Len(docs[n]) = Cardinality(S)
  /\ \A t \in S : \E k \in DOMAIN docs[n] : docs[n][k] = Part(t, tests[t])

\* What is left to write is of tests there are, each once; the files written have
\* all the rest.
RunOK ==
  /\ \A i \in DOMAIN todo :
       LET t == todo[i].test IN
       t.dir = phase /\ tests[t] # <<>> /\ todo[i] = Entry(t, tests[t])
  /\ \A i, j \in DOMAIN todo : todo[i].test = todo[j].test => i = j
  /\ \A n \in Docs!Names :
       LET S == {t \in WrittenTests : t.contract = n} IN
       IF n \in writtenFiles THEN FileHas(n, S) ELSE S = {}

DocsShape ==
  /\ Docs!DocsTypeOK
  /\ tests \in [Tests -> Lines] /\ \A t \in Tests : tests[t] \in Contents[t] \cup {<<>>}
  /\ docs \in [Docs!Names -> Seq({Part(t, l) : t \in Tests, l \in Lines})]
  /\ todo \in Seq({Entry(t, l) : t \in Tests, l \in Lines})

DocsInv ==
  /\ DocsShape /\ DocsAreCurrent
  /\ current = "yes" => phase \in {"idle", "thrown"}
  /\ current = "begun" /\ phase # "thrown" => phase \in {"invariants", "echidna"} /\ RunOK

\* The size of a set, by the name it has in the model of the script.
LEMMA SizeIs == ASSUME NEW S PROVE Docs!Cardinality(S) = Cardinality(S)
BY DEF Docs!Cardinality, Cardinality

\* A finite set is laid out as a sequence that has each of its members once.
LEMMA LaidOut ==
  ASSUME NEW S, IsFiniteSet(S)
  PROVE  /\ Docs!SetToSeq(S) \in Seq(S)
         /\ \A x \in S : \E i \in DOMAIN Docs!SetToSeq(S) : Docs!SetToSeq(S)[i] = x
         /\ \A i, j \in DOMAIN Docs!SetToSeq(S) :
              Docs!SetToSeq(S)[i] = Docs!SetToSeq(S)[j] => i = j
<1> DEFINE n == Cardinality(S)
           f == Docs!SetToSeq(S)
<1>1. n \in Nat /\ ExistsBijection(1 .. n, S)
  BY FS_CardinalityType
<1>2. PICK g \in [1 .. n -> S] : \A a, b \in DOMAIN g : g[a] = g[b] => a = b
  BY <1>1 DEF ExistsBijection, Bijection, Injection, IsInjective
<1>3. f = CHOOSE h \in [1 .. n -> S] : \A a, b \in DOMAIN h : h[a] = h[b] => a = b
  BY SizeIs DEF Docs!SetToSeq, Docs!IsInjective
<1>4. f \in [1 .. n -> S] /\ \A a, b \in DOMAIN f : f[a] = f[b] => a = b
  <2> HIDE DEF n, f
  <2> QED BY <1>2, <1>3
<1>5. f \in Injection(1 .. n, S)
  BY <1>4 DEF Injection, IsInjective
<1>6. IsFiniteSet(1 .. n) /\ Cardinality(1 .. n) = n
  BY <1>1, FS_Interval
<1>7. f \in Surjection(1 .. n, S)
  BY <1>5, <1>6, FS_Injection
<1>8. DOMAIN f = 1 .. n /\ f \in Seq(S)
  <2> HIDE DEF n, f
  <2> QED BY <1>1, <1>4
<1>9. \A x \in S : \E i \in 1 .. n : f[i] = x
  BY <1>7 DEF Surjection
<1> HIDE DEF f
<1>10. QED BY <1>4, <1>8, <1>9 DEF f

Lists(found, dir) ==
  /\ found \in Seq({Entry(t, l) : t \in Tests, l \in Lines})
  /\ \A i \in DOMAIN found :
       LET t == found[i].test IN
       t.dir = dir /\ tests[t] # <<>> /\ found[i] = Entry(t, tests[t])
  /\ \A i, j \in DOMAIN found : found[i].test = found[j].test => i = j
  /\ \A t \in Tests : t.dir = dir /\ tests[t] # <<>> =>
       \E i \in DOMAIN found : found[i].test = t

\* What is found in a directory: an entry for each test there is.
LEMMA FoundIs ==
  ASSUME DocsShape, NEW dir
  PROVE  Lists(Docs!Found(dir), dir)
<1> DEFINE U == {u \in Tests : u.dir = dir /\ tests[u] # <<>>}
           E == {Entry(t, tests[t]) : t \in U}
           found == Docs!Found(dir)
<1>1. found = Docs!SetToSeq(E)
  BY DEF Docs!Found, Entry
<1>2. \A t \in Tests : tests[t] \in Lines
  BY DEF DocsShape
<1>3. E \subseteq {Entry(t, l) : t \in Tests, l \in Lines}
  BY <1>2
<1>4. IsFiniteSet(E)
  <2> DEFINE g == [t \in U |-> Entry(t, tests[t])]
  <2>1. IsFiniteSet(U)
    BY DocsAssumption, FS_Subset
  <2>2. g \in Surjection(U, E)
    BY DEF Surjection
  <2> QED BY <2>1, <2>2, FS_Surjection
<1> HIDE DEF found
<1>5. /\ found \in Seq(E)
      /\ \A x \in E : \E i \in DOMAIN found : found[i] = x
      /\ \A i, j \in DOMAIN found : found[i] = found[j] => i = j
  <2> HIDE DEF E
  <2> QED BY <1>1, <1>4, LaidOut
<1>6. \A i \in DOMAIN found : found[i] \in E
  BY <1>5
<1>7. \A x \in E : x.test \in U /\ x = Entry(x.test, tests[x.test])
  BY DEF Entry
<1>8. \A t \in U : Entry(t, tests[t]) \in E /\ Entry(t, tests[t]).test = t
  BY DEF Entry
<1>9. found \in Seq({Entry(t, l) : t \in Tests, l \in Lines})
  <2> HIDE DEF E
  <2> QED BY <1>3, <1>5
<1>10. \A i \in DOMAIN found : found[i].test \in U /\ found[i] = Entry(found[i].test, tests[found[i].test])
  <2> HIDE DEF E, U
  <2> QED BY <1>6, <1>7
<1>11. \A i, j \in DOMAIN found : found[i].test = found[j].test => i = j
  <2> HIDE DEF E, U
  <2> QED BY <1>5, <1>10
<1>12. \A t \in U : \E i \in DOMAIN found : found[i].test = t
  <2> HIDE DEF E, U
  <2> QED BY <1>5, <1>8
<1> QED BY <1>9, <1>10, <1>11, <1>12 DEF found, Lists

\* Nothing is written at first.
LEMMA DocsStart == Docs!DocsInit \/ NoDocs => DocsInv
<1> SUFFICES ASSUME Docs!DocsInit \/ NoDocs PROVE DocsInv
  OBVIOUS
<1>1. /\ dirs \subseteq {"invariants", "echidna"} /\ toc = {} /\ phase = "idle" /\ writtenFiles = {}
      /\ current = "no" /\ todo = <<>> /\ docs = [n \in Docs!Names |-> <<>>]
      /\ tests \in [Tests -> Lines] /\ \A t \in Tests : tests[t] \in Contents[t] \cup {<<>>}
  <2>1. CASE Docs!DocsInit
    <3>1. tests \in [Tests -> Lines] /\ \A t \in Tests : tests[t] \in Contents[t] \cup {<<>>}
      BY <2>1 DEF Docs!DocsInit, Lines
    <3> QED BY <2>1, <3>1 DEF Docs!DocsInit
  <2>2. CASE NoDocs
    <3>1. <<>> \in Lines
      BY DEF Lines
    <3>2. tests \in [Tests -> Lines] /\ \A t \in Tests : tests[t] = <<>>
      BY <2>2, <3>1 DEF NoDocs
    <3> QED BY <2>2, <3>2 DEF NoDocs
  <2> QED BY <2>1, <2>2
<1>2. docs \in [Docs!Names -> Seq({Part(t, l) : t \in Tests, l \in Lines})]
  BY <1>1
<1>3. todo \in Seq({Entry(t, l) : t \in Tests, l \in Lines})
  BY <1>1
<1> QED BY <1>1, <1>2, <1>3 DEF DocsInv, DocsShape, DocsAreCurrent, Docs!DocsAreCurrent, Docs!DocsTypeOK

\* A run that was disturbed, or is killed, has nothing to answer for.
LEMMA Disturbed ==
  ASSUME DocsShape', current' = "no"
  PROVE  DocsInv'
BY DEF DocsInv, DocsShape, DocsAreCurrent, Docs!DocsAreCurrent

\* A run starts: it has written nothing, and all the tests of forge are left to write.
LEMMA StartInv ==
  ASSUME DocsInv, Docs!Start
  PROVE  DocsInv'
<1>1. /\ phase' = "invariants" /\ todo' = Docs!Found("invariants") /\ writtenFiles' = {}
      /\ current' = "begun" /\ UNCHANGED <<dirs, tests, docs, toc>>
  BY DEF Docs!Start, Docs!docGen
<1>2. DocsShape
  BY DEF DocsInv
<1>3. Lists(todo', "invariants")
  BY <1>1, <1>2, FoundIs
<1>4. DocsShape'
  BY <1>1, <1>2, <1>3 DEF DocsShape, Docs!DocsTypeOK, Lists
<1>5. WrittenTests' = {}
  BY <1>1, <1>3 DEF WrittenTests, Lists
<1>6. RunOK'
  BY <1>1, <1>3, <1>5 DEF RunOK, Lists
<1> QED BY <1>1, <1>4, <1>6 DEF DocsInv, DocsShape, DocsAreCurrent, Docs!DocsAreCurrent

\* The tests of echidna are next, all those of forge are written of.
LEMMA SecondInv ==
  ASSUME DocsInv, Docs!Second
  PROVE  DocsInv'
<1>1. /\ phase = "invariants" /\ todo = <<>> /\ phase' = "echidna" /\ todo' = Docs!Found("echidna")
      /\ UNCHANGED <<dirs, tests, docs, toc, writtenFiles, current>>
  BY DEF Docs!Second, Docs!docGen
<1>2. DocsShape
  BY DEF DocsInv
<1>3. Lists(todo', "echidna")
  BY <1>1, <1>2, FoundIs
<1>4. DocsShape'
  BY <1>1, <1>2, <1>3 DEF DocsShape, Docs!DocsTypeOK, Lists
<1>5. WrittenTests' = WrittenTests
  <2>1. \A t \in Tests : t.dir = "invariants" => \A i \in DOMAIN todo' : todo'[i].test # t
    BY <1>3 DEF Lists
  <2>2. DOMAIN todo = {}
    BY <1>1
  <2> QED BY <1>1, <1>3, <2>1, <2>2, DocsAssumption DEF WrittenTests, Lists
<1>6. ASSUME RunOK PROVE RunOK'
  <2> DEFINE S(n) == {t \in WrittenTests : t.contract = n}
  <2>1. \A n \in Docs!Names : IF n \in writtenFiles THEN FileHas(n, S(n)) ELSE S(n) = {}
    BY <1>6 DEF RunOK
  <2>2. \A n : FileHas(n, S(n))' <=> FileHas(n, S(n))
    BY <1>1, <1>5 DEF FileHas
  <2>3. \A n \in Docs!Names : (IF n \in writtenFiles THEN FileHas(n, S(n)) ELSE S(n) = {})'
    BY <1>1, <1>5, <2>1, <2>2
  <2> QED BY <1>1, <1>3, <2>3 DEF RunOK, Lists
<1>7. current # "yes"
  BY <1>1 DEF DocsInv
<1> QED BY <1>1, <1>4, <1>6, <1>7 DEF DocsInv, DocsShape, DocsAreCurrent, Docs!DocsAreCurrent

\* What is left to write when one entry has been written.
LEMMA TailOf ==
  ASSUME NEW E, NEW s \in Seq(E), s # <<>>
  PROVE  /\ Tail(s) \in Seq(E) /\ 1 \in DOMAIN s /\ Head(s) = s[1] /\ s[1] \in E
         /\ \A i \in DOMAIN Tail(s) : i + 1 \in DOMAIN s /\ Tail(s)[i] = s[i + 1] /\ i \in Nat \ {0}
         /\ \A j \in DOMAIN s : j = 1 \/ \E i \in DOMAIN Tail(s) : i + 1 = j
<1>1. /\ Len(s) \in Nat \ {0} /\ DOMAIN s = 1 .. Len(s)
      /\ Tail(s) \in Seq(E) /\ DOMAIN Tail(s) = 1 .. Len(s) - 1
  OBVIOUS
<1>2. \A i \in 1 .. Len(s) - 1 : Tail(s)[i] = s[i + 1]
  OBVIOUS
<1>3. ASSUME NEW j \in DOMAIN s, j # 1 PROVE \E i \in DOMAIN Tail(s) : i + 1 = j
  <2>1. j - 1 \in DOMAIN Tail(s) /\ (j - 1) + 1 = j
    BY <1>1, <1>3
  <2> QED BY <2>1
<1>4. \A i \in DOMAIN Tail(s) : i + 1 \in DOMAIN s /\ i \in Nat \ {0}
  BY <1>1
<1> QED BY <1>1, <1>2, <1>3, <1>4

\* A file that is written of from scratch, or gets one more part, has the test as well.
LEMMA FileGrows ==
  ASSUME DocsShape, DocsShape', UNCHANGED tests, NEW n \in Docs!Names, NEW S, NEW t \in Tests,
         S \subseteq Tests, t \notin S,
         \/ FileHas(n, S) /\ docs'[n] = Append(docs[n], Part(t, tests[t]))
         \/ S = {} /\ docs'[n] = <<Part(t, tests[t])>>
  PROVE  FileHas(n, S \cup {t})'
<1>1. IsFiniteSet(S) /\ Cardinality(S) \in Nat /\ Cardinality(S \cup {t}) = Cardinality(S) + 1
  BY DocsAssumption, FS_Subset, FS_AddElement, FS_CardinalityType
<1>2. CASE FileHas(n, S) /\ docs'[n] = Append(docs[n], Part(t, tests[t]))
  <2>1. docs[n] \in Seq({Part(u, l) : u \in Tests, l \in Lines})
    BY DEF DocsShape
  <2>2. /\ Len(docs'[n]) = Len(docs[n]) + 1 /\ Len(docs[n]) \in Nat
        /\ DOMAIN docs[n] = 1 .. Len(docs[n]) /\ DOMAIN docs'[n] = 1 .. Len(docs[n]) + 1
        /\ docs'[n][Len(docs[n]) + 1] = Part(t, tests[t])
        /\ \A k \in 1 .. Len(docs[n]) : docs'[n][k] = docs[n][k]
    BY <1>2, <2>1
  <2>3. ASSUME NEW u \in S \cup {t}
        PROVE  \E k \in DOMAIN docs'[n] : docs'[n][k] = Part(u, tests[u])
    <3>1. CASE u = t
      BY <2>2, <3>1
    <3>2. CASE u \in S
      <4>1. PICK k \in DOMAIN docs[n] : docs[n][k] = Part(u, tests[u])
        BY <1>2, <3>2 DEF FileHas
      <4> QED BY <2>2, <4>1
    <3> QED BY <3>1, <3>2
  <2> QED BY <1>1, <1>2, <2>2, <2>3 DEF FileHas, Part
<1>3. CASE S = {} /\ docs'[n] = <<Part(t, tests[t])>>
  <2>1. Len(docs'[n]) = 1 /\ 1 \in DOMAIN docs'[n] /\ docs'[n][1] = Part(t, tests[t])
    BY <1>3
  <2> QED BY <1>1, <1>3, <2>1, FS_EmptySet DEF FileHas, Part
<1> QED BY <1>2, <1>3

\* An entry is written: the run has now written of its test too.
LEMMA WriteInv ==
  ASSUME DocsInv, Docs!Write
  PROVE  DocsInv'
<1> PICK t : t = todo[1].test
  OBVIOUS
<1> DEFINE name == t.contract
           Entries == {Entry(u, l) : u \in Tests, l \in Lines}
           Parts == {Part(u, l) : u \in Tests, l \in Lines}
<1>1. DocsShape /\ phase \in {"invariants", "echidna"} /\ current # "yes"
  BY DEF DocsInv, Docs!Write
<1>2. todo \in Seq(Entries) /\ todo # <<>>
  BY DEF DocsInv, DocsShape, Docs!Write
<1>3. /\ 1 \in DOMAIN todo /\ Head(todo) = todo[1] /\ todo[1] \in Entries /\ Tail(todo) \in Seq(Entries)
      /\ \A i \in DOMAIN Tail(todo) :
           i + 1 \in DOMAIN todo /\ Tail(todo)[i] = todo[i + 1] /\ i \in Nat \ {0}
      /\ \A j \in DOMAIN todo : j = 1 \/ \E i \in DOMAIN Tail(todo) : i + 1 = j
  <2> HIDE DEF Entries
  <2> QED BY <1>2, TailOf
<1>4. /\ t \in Tests /\ name \in Docs!Names /\ todo[1].contract = name
      /\ [test |-> t, docs |-> todo[1].docs] \in Parts
  <2>1. PICK u \in Tests, l \in Lines : todo[1] = Entry(u, l)
    BY <1>3
  <2>2. t = u /\ todo[1].contract = u.contract /\ [test |-> t, docs |-> todo[1].docs] = Part(u, l)
    BY <2>1 DEF Entry, Part
  <2> QED BY <2>2 DEF Docs!Names
<1> DEFINE new == [test |-> t, docs |-> todo[1].docs]
<1>5. /\ docs' = [docs EXCEPT ![name] =
                    IF name \in writtenFiles THEN Append(docs[name], new) ELSE <<new>>]
      /\ writtenFiles' = writtenFiles \cup {name} /\ todo' = Tail(todo)
      /\ UNCHANGED <<dirs, tests, toc, phase, current>>
  BY <1>3, <1>4 DEF Docs!Write, Docs!alreadyWritten
<1>6. docs \in [Docs!Names -> Seq(Parts)] /\ docs' \in [Docs!Names -> Seq(Parts)]
  <2>1. docs \in [Docs!Names -> Seq(Parts)]
    BY <1>1 DEF DocsShape
  <2> HIDE DEF Parts, new, name
  <2> QED BY <1>4, <1>5, <2>1 DEF new
<1>7. DocsShape'
  <2>1. Tail(todo) \in Seq(Entries)
    BY <1>3
  <2> QED BY <1>1, <1>4, <1>5, <1>6, <2>1 DEF DocsShape, Docs!DocsTypeOK
<1>8. ASSUME current = "begun" PROVE RunOK'
  <2> DEFINE S(n) == {u \in WrittenTests : u.contract = n}
  <2>1. /\ RunOK /\ new = Part(t, tests[t]) /\ tests[t] # <<>> /\ t.dir = phase
    <3>1. RunOK
      BY <1>1, <1>8 DEF DocsInv
    <3>2. t.dir = phase /\ tests[t] # <<>> /\ todo[1] = Entry(t, tests[t])
      BY <1>3, <3>1 DEF RunOK
    <3> QED BY <3>1, <3>2 DEF Entry, Part
  <2>2. \A i \in DOMAIN Tail(todo) : Tail(todo)[i].test # t
    BY <1>3, <2>1 DEF RunOK
  <2>3. t \notin WrittenTests /\ WrittenTests' = WrittenTests \cup {t}
    <3>1. t \notin WrittenTests
      BY <1>3 DEF WrittenTests
    <3>2. ASSUME NEW u \in Tests, u # t
          PROVE  (\A i \in DOMAIN todo : todo[i].test # u)
                   <=> \A i \in DOMAIN Tail(todo) : Tail(todo)[i].test # u
      BY <1>3, <3>2
    <3>3. /\ \A u \in Tests : u # t => (u \in WrittenTests' <=> u \in WrittenTests)
          /\ t \in WrittenTests' /\ WrittenTests' \subseteq Tests /\ WrittenTests \subseteq Tests
      BY <1>4, <1>5, <2>1, <2>2, <3>2 DEF WrittenTests
    <3> QED BY <3>1, <3>3
  <2>4. \A i \in DOMAIN todo' :
          /\ todo'[i].test.dir = phase' /\ tests'[todo'[i].test] # <<>>
          /\ todo'[i] = Entry(todo'[i].test, tests'[todo'[i].test])
    BY <1>3, <1>5, <2>1 DEF RunOK
  <2>5. \A i, j \in DOMAIN todo' : todo'[i].test = todo'[j].test => i = j
    BY <1>3, <1>5, <2>1 DEF RunOK
  <2>6. ASSUME NEW n \in Docs!Names
        PROVE  (IF n \in writtenFiles THEN FileHas(n, S(n)) ELSE S(n) = {})'
    <3>1. IF n \in writtenFiles THEN FileHas(n, S(n)) ELSE S(n) = {}
      BY <2>1 DEF RunOK
    <3>2. CASE n # name
      <4>1. S(n)' = S(n) /\ docs'[n] = docs[n] /\ (n \in writtenFiles' <=> n \in writtenFiles)
        BY <1>5, <1>6, <2>3, <3>2
      <4> QED BY <1>5, <3>1, <4>1 DEF FileHas
    <3>3. CASE n = name
      <4> PICK s : s = S(n)
        OBVIOUS
      <4>1. S(n)' = s \cup {t} /\ t \notin s /\ s \subseteq Tests
        BY <2>3, <3>3 DEF WrittenTests
      <4>2. \/ FileHas(n, s) /\ docs'[n] = Append(docs[n], Part(t, tests[t]))
            \/ s = {} /\ docs'[n] = <<Part(t, tests[t])>>
        <5>1. docs' = [docs EXCEPT ![name] = IF name \in writtenFiles THEN Append(docs[name], new)
                                             ELSE <<new>>]
          BY <1>5
        <5>2. docs'[n] = IF n \in writtenFiles THEN Append(docs[n], new) ELSE <<new>>
          BY ONLY <1>6, <3>3, <5>1, n \in Docs!Names
        <5>3. new = Part(t, tests[t])
          BY <2>1
        <5>4. IF n \in writtenFiles THEN FileHas(n, s) ELSE s = {}
          BY <3>1
        <5> QED BY ONLY <5>2, <5>3, <5>4
      <4>3. FileHas(n, s \cup {t})'
        <5> HIDE DEF S, new, name
        <5>1. DocsShape /\ DocsShape' /\ UNCHANGED tests /\ t \in Tests /\ n \in Docs!Names
          BY <1>1, <1>4, <1>5, <1>7
        <5> QED BY ONLY <4>1, <4>2, <5>1, FileGrows
      <4> QED BY <1>5, <3>3, <4>1, <4>3 DEF FileHas
    <3> QED BY <3>2, <3>3
  <2> QED BY <2>4, <2>5, <2>6 DEF RunOK
<1> QED BY <1>1, <1>5, <1>7, <1>8 DEF DocsInv, DocsAreCurrent, Docs!DocsAreCurrent, DocsShape

\* The run ends: the files have all the tests there are.
LEMMA TocInv ==
  ASSUME DocsInv, Docs!tocGen
  PROVE  DocsInv'
<1>1. /\ phase = "echidna" /\ todo = <<>> /\ toc' = {n \in Docs!Names : docs[n] # <<>>}
      /\ phase' = "idle" /\ current' = IF current = "begun" THEN "yes" ELSE "no"
      /\ UNCHANGED <<dirs, tests, docs, todo, writtenFiles>>
  BY DEF Docs!tocGen
<1>2. DocsShape'
  BY <1>1 DEF DocsInv, DocsShape, Docs!DocsTypeOK
<1>3. ASSUME current = "begun", NEW n \in Docs!Names,
             {t \in Tests : t.contract = n /\ tests[t] # <<>>} # {}
      PROVE  LET present == {t \in Tests : t.contract = n /\ tests[t] # <<>>} IN
             /\ docs[n] # <<>>
             /\ Len(docs[n]) = Docs!Cardinality(present)
             /\ \A t \in present : \E k \in DOMAIN docs[n] :
                  docs[n][k].test = t /\ Docs!Documents(docs[n][k], tests[t])
  <2> DEFINE present == {t \in Tests : t.contract = n /\ tests[t] # <<>>}
  <2>1. RunOK
    BY <1>1, <1>3 DEF DocsInv
  <2>2. {t \in WrittenTests : t.contract = n} = present
    BY <1>1 DEF WrittenTests
  <2>3. FileHas(n, present)
    BY <1>3, <2>1, <2>2 DEF RunOK
  <2>4. \A t \in present : \E k \in DOMAIN docs[n] : docs[n][k] = Part(t, tests[t])
    BY <2>3 DEF FileHas
  <2>5. \A t \in present :
          Part(t, tests[t]).test = t /\ Docs!Documents(Part(t, tests[t]), tests[t])
    <3>1. \A t \in present : t \in Tests /\ tests[t] \in Contents[t]
      BY DEF DocsInv, DocsShape
    <3> QED BY <3>1, DocsAssumption DEF Part
  <2>6. Len(docs[n]) = Docs!Cardinality(present)
    BY <2>3, SizeIs DEF FileHas
  <2>7. docs[n] # <<>>
    BY <1>3, <2>4
  <2> QED BY <2>4, <2>5, <2>6, <2>7
<1>4. DocsAreCurrent'
  BY <1>1, <1>2, <1>3 DEF DocsAreCurrent, Docs!DocsAreCurrent, DocsShape
<1> QED BY <1>1, <1>2, <1>4 DEF DocsInv

\* The files stay current as long as neither they nor the tests change.
LEMMA StillCurrent ==
  ASSUME DocsInv, DocsShape', UNCHANGED <<tests, docs, toc, current>>
  PROVE  DocsAreCurrent'
<1>1. DocsAreCurrent
  BY DEF DocsInv
<1>2. ASSUME current = "yes", NEW n \in Docs!Names,
             {t \in Tests : t.contract = n /\ tests[t] # <<>>} # {}
      PROVE  LET present == {t \in Tests : t.contract = n /\ tests[t] # <<>>} IN
             /\ n \in toc
             /\ Len(docs[n]) = Docs!Cardinality(present)
             /\ \A t \in present : \E k \in DOMAIN docs[n] :
                  docs[n][k].test = t /\ Docs!Documents(docs[n][k], tests[t])
  BY <1>1, <1>2 DEF DocsAreCurrent, Docs!DocsAreCurrent
<1>3. tests' = tests /\ docs' = docs /\ toc' = toc /\ current' = current
  OBVIOUS
<1>4. Docs!DocsTypeOK'
  BY DEF DocsShape
<1>5. CASE current # "yes"
  BY <1>3, <1>4, <1>5 DEF DocsAreCurrent, Docs!DocsAreCurrent
<1>6. CASE current = "yes"
  BY <1>2, <1>3, <1>4, <1>6 DEF DocsAreCurrent, Docs!DocsAreCurrent
<1> QED BY <1>5, <1>6

\* Every step keeps the invariant.
LEMMA DocsStep == DocsInv /\ (Docs!DocsNext \/ UNCHANGED docVars) => DocsInv'
<1> SUFFICES ASSUME DocsInv, Docs!DocsNext \/ UNCHANGED docVars PROVE DocsInv'
  OBVIOUS
<1>1. DocsShape
  BY DEF DocsInv
<1>2. CASE Docs!Start \/ Docs!Second \/ Docs!Write \/ Docs!tocGen
  BY <1>2, StartInv, SecondInv, WriteInv, TocInv
<1>3. CASE Docs!Throw
  <2>1. phase' = "thrown" /\ todo' = <<>>
        /\ UNCHANGED <<dirs, tests, docs, toc, writtenFiles, current>>
    BY <1>3 DEF Docs!Throw
  <2>2. DocsShape'
    BY <1>1, <2>1 DEF DocsShape, Docs!DocsTypeOK
  <2>3. DocsAreCurrent'
    BY <2>1, <2>2, StillCurrent
  <2> QED BY <2>1, <2>2, <2>3 DEF DocsInv
<1>4. CASE Docs!Kill
  <2>1. phase' = "idle" /\ todo' = <<>> /\ current' = "no"
        /\ UNCHANGED <<dirs, tests, docs, toc, writtenFiles>>
    BY <1>4 DEF Docs!Kill
  <2>2. DocsShape'
    BY <1>1, <2>1 DEF DocsShape, Docs!DocsTypeOK
  <2> QED BY <2>1, <2>2, Disturbed
<1>5. CASE Docs!Edit
  <2> PICK t \in Tests : \E l \in Contents[t] \cup {<<>>} : tests' = [tests EXCEPT ![t] = l]
    BY <1>5 DEF Docs!Edit
  <2>1. PICK lines \in Contents[t] \cup {<<>>} : tests' = [tests EXCEPT ![t] = lines]
    OBVIOUS
  <2>2. current' = "no" /\ UNCHANGED <<dirs, docs, toc, phase, todo, writtenFiles>>
    BY <1>5 DEF Docs!Edit, Docs!runVars
  <2>3. lines \in Lines
    BY DEF Lines
  <2>4. DocsShape'
    BY <1>1, <2>1, <2>2, <2>3 DEF DocsShape, Docs!DocsTypeOK
  <2> QED BY <2>2, <2>4, Disturbed
<1>6. CASE UNCHANGED docVars
  <2>1. UNCHANGED <<dirs, tests, docs, toc, phase, todo, writtenFiles, current>>
    BY <1>6 DEF docVars
  <2>2. DocsShape'
    BY <1>1, <2>1 DEF DocsShape, Docs!DocsTypeOK
  <2>3. DocsAreCurrent'
    BY <2>1, <2>2, StillCurrent
  <2>4. ASSUME RunOK PROVE RunOK'
    <3>1. WrittenTests' = WrittenTests
      BY <2>1 DEF WrittenTests
    <3>2. \A n, S : FileHas(n, S)' <=> FileHas(n, S)
      BY <2>1 DEF FileHas
    <3> QED BY <2>1, <2>4, <3>1, <3>2 DEF RunOK
  <2> QED BY <2>1, <2>2, <2>3, <2>4 DEF DocsInv
<1> QED BY <1>2, <1>3, <1>4, <1>5, <1>6 DEF Docs!DocsNext

\* Whatever runs were killed or disturbed before it and whatever they left behind, a
\* run of invariant-doc-gen that ends undisturbed leaves in the file of each contract
\* every test of it once, with all its invariants (docGen and tocGen of
\* scripts/invariant-doc-gen.ts).
THEOREM DocsBecomeCurrent == ScriptsSpec => []DocsAreCurrent
<1>1. ScriptsInit => DocsInv
  BY DocsStart DEF ScriptsInit
<1>2. DocsInv /\ [ScriptsNext]_scriptsVars => DocsInv'
  BY DocsStep DEF ScriptsNext, scriptsVars
<1>3. DocsInv => DocsAreCurrent
  BY DEF DocsInv
<1> QED BY <1>1, <1>2, <1>3, PTL DEF ScriptsSpec

\* The same of deployment, in the company of the others (deploy of src/deploy-utils.ts).
THEOREM RecordsKeepNaming == ScriptsSpec => []InstalledIsRecorded
<1>1. ASSUME NoDeploy PROVE DeployInv
  <2>1. 1 \in Indices
    BY TableAssumption DEF Indices
  <2>2. /\ deployments \in [Names -> Indices \cup {0}]
        /\ installed \in [ProxyNames -> Indices \cup {0, BY_ADDRESS}]
        /\ \A p \in ProxyNames : installed[p] = 0
    BY <1>1 DEF NoDeploy
  <2>3. \A i \in Indices : Scripts[i].impl # NONE => installed[Scripts[i].proxy] = 0
    BY <2>2, Table
  <2>4. InstalledIsRecorded
    BY <1>1, <2>1, <2>2, <2>3, DeployAssumption DEF NoDeploy, InstalledIsRecorded, DeployTypeOK
  <2>5. MempoolOK
    BY <1>1 DEF NoDeploy, MempoolOK
  <2> QED BY <1>1, <2>1, <2>4, <2>5, Table DEF NoDeploy, DeployInv, PartOK, NotYetRecorded, Current
<1>2. ScriptsInit => DeployInv
  BY <1>1, DeployStart DEF ScriptsInit
<1>3. DeployInv /\ [ScriptsNext]_scriptsVars => DeployInv'
  <2>1. DeployNext \/ UNCHANGED deployVars => [DeployNext]_deployVars
    OBVIOUS
  <2> QED BY <2>1, DeployStep DEF ScriptsNext, scriptsVars
<1>4. DeployInv => InstalledIsRecorded
  BY DEF DeployInv
<1> QED BY <1>2, <1>3, <1>4, PTL DEF ScriptsSpec
=============================================================================
