------------------------- MODULE SystemDictatorProofs -------------------------
(***************************************************************************)
(* Theorems about SystemDictator.tla and the scripts of                     *)
(* MigrationScripts.tla, for any people, any ether and any number of kills. *)
(*                                                                          *)
(* MigrationInv is inductive: where the ether is and what is installed at   *)
(* each step.  A script only sends what anybody could send.                 *)
(*                                                                          *)
(* WaitingInv is inductive where the phases are run one after the other:    *)
(* nothing is asked for before its step, and a script is at no block whose  *)
(* step has not come or which the step has left behind.  So what it waits   *)
(* for was asked for and can still happen.                                  *)
(***************************************************************************)
EXTENDS MigrationScripts, TLAPS

messenger == implementation["L1CrossDomainMessenger"]

\* The ether is with the bridge until step5 moves it.
EtherByStep ==
  /\ currentStep <= 5 => ether["L1StandardBridge"] = owed /\ ether["PatexPortal"] = 0
  /\ currentStep = 6 => ether["L1StandardBridge"] = 0 /\ ether["PatexPortal"] = owed

\* What is installed when: the legacy messenger, or what exit1 would bring back,
\* has its bridge and its entries, and after the point of no return there is none
\* until step5.
InstalledByStep ==
  /\ implementation["PatexPortal"] # LEGACY
  /\ currentStep = 1 => proxyType = [p \in Proxies |-> "ERC1967"]
  /\ currentStep > 1 => implementation["SystemConfig"] = BEDROCK
  /\ currentStep <= 3 => messenger # BEDROCK /\ oldL1CrossDomainMessenger # BEDROCK
  /\ currentStep <= 3 /\ (messenger = LEGACY \/ oldL1CrossDomainMessenger = LEGACY) =>
       deprecated /\ implementation["L1StandardBridge"] = LEGACY
  /\ messenger = LEGACY => ~shutoff
  /\ currentStep < 3 => ~shutoff
  /\ exited => currentStep = 3
  /\ currentStep = 3 /\ ~exited => messenger = NONE
  /\ currentStep \in {4, 5} => messenger = NONE
  /\ currentStep = 6 => \A p \in Proxies : implementation[p] = BEDROCK

MigrationInv == DictatorTypeOK /\ NothingStranded /\ EtherByStep /\ InstalledByStep

\* What is installed at each step tells that only one system is ever in use.
LEMMA InvGivesOneSystem == MigrationInv => OneSystemAtATime
BY DEF MigrationInv, DictatorTypeOK, EtherByStep, InstalledByStep, OneSystemAtATime, messenger,
       Proxies, LEGACY, BEDROCK, NONE

\* The invariant holds on the legacy network, upgraded portal or not,
LEMMA MigrationStart == DictatorInit => MigrationInv
<1> SUFFICES ASSUME DictatorInit PROVE MigrationInv
    OBVIOUS
<1> USE DEF DictatorInit, Implementations, LEGACY, BEDROCK, NONE
<1>1. /\ implementation \in [Proxies -> Implementations]
      /\ implementation["PatexPortal"] = NONE
      /\ implementation["L1CrossDomainMessenger"] # BEDROCK
      /\ implementation["L1CrossDomainMessenger"] = LEGACY =>
           deprecated /\ implementation["L1StandardBridge"] = LEGACY
  <2>1. CASE implementation = Fresh
        BY <2>1 DEF Fresh, Proxies
  <2>2. CASE implementation = Legacy
        BY <2>2 DEF Fresh, Legacy, Proxies
  <2> QED
      BY <2>1, <2>2
<1>2. owed \in Nat
      BY DictatorAssumption
<1>3. /\ ether \in [{"L1StandardBridge", "PatexPortal"} -> Nat]
      /\ ether["L1StandardBridge"] = owed
      /\ ether["PatexPortal"] = 0
      BY <1>2
<1>4. owner \in [Owned -> People] /\ \A c \in Owned : owner[c] \in People
      OBVIOUS
<1>5. DictatorTypeOK
  <2>1. /\ deprecated \in BOOLEAN /\ shutoff \in BOOLEAN
        /\ dynamicConfigSet \in BOOLEAN /\ finalized \in BOOLEAN /\ exited \in BOOLEAN
        BY Zenon
  <2>2. owner["ProxyAdmin"] # PROXY_ADMIN
        BY <1>4, DictatorAssumption DEF Owned
  <2>3. config \in [controller : People, finalOwner : People]
        OBVIOUS
  <2>4. proxyType \in [Proxies -> {"ERC1967", "CHUGSPLASH", "RESOLVED"}]
        OBVIOUS
  <2>5. /\ currentStep \in 1 .. 6
        /\ oldL1CrossDomainMessenger \in Implementations
        OBVIOUS
  <2>6. owner \in [Owned -> People \cup {DICTATOR, PROXY_ADMIN}]
        BY <1>4
  <2> QED
      BY <1>1, <1>2, <1>3, <2>1, <2>2, <2>3, <2>4, <2>5, <2>6 DEF DictatorTypeOK
<1>6. NothingStranded
      BY <1>4, DictatorAssumption
      DEF NothingStranded, StillHeld, PROXY_TRANSFER_STEP, Owned, Transferred
<1>7. EtherByStep /\ InstalledByStep
      BY <1>1, <1>3 DEF EtherByStep, InstalledByStep, messenger
<1> QED
    BY <1>5, <1>6, <1>7 DEF MigrationInv

\* and every transaction of the migration keeps it.
LEMMA MigrationStep == MigrationInv /\ [DictatorNext]_dictatorVars => MigrationInv'
<1> SUFFICES ASSUME MigrationInv, [DictatorNext]_dictatorVars PROVE MigrationInv'
    OBVIOUS
<1> USE DictatorAssumption
    DEF MigrationInv, DictatorTypeOK, NothingStranded, EtherByStep, InstalledByStep, messenger,
        Proxies, Owned, Transferred, Implementations, LEGACY, BEDROCK, NONE, PROXY_TRANSFER_STEP,
        StillHeld, AtStep, addressManagerVars, flags, etherVars, Kind
<1>1. CASE UNCHANGED dictatorVars
      BY <1>1 DEF dictatorVars
<1>2. ASSUME NEW sender \in People, updateDynamicConfig(sender) PROVE MigrationInv'
      BY <1>2 DEF updateDynamicConfig
<1>3. ASSUME NEW sender \in People, phase1(sender) PROVE MigrationInv'
  <2> USE <1>3 DEF phase1, MayPhase1, ProxyTypes, ShutDown, MayUpgrade
  <2>1. DictatorTypeOK'
        OBVIOUS
  <2>2. NothingStranded'
        OBVIOUS
  <2>3. EtherByStep'
        OBVIOUS
  <2>4. InstalledByStep'
        OBVIOUS
  <2> QED
      BY <2>1, <2>2, <2>3, <2>4
<1>4. ASSUME NEW sender \in People, step1(sender) PROVE MigrationInv'
  <2> USE <1>4 DEF step1, ProxyTypes, MayUpgrade
  <2>1. DictatorTypeOK'
        OBVIOUS
  <2>2. NothingStranded'
        OBVIOUS
  <2>3. EtherByStep'
        OBVIOUS
  <2>4. InstalledByStep'
        OBVIOUS
  <2> QED
      BY <2>1, <2>2, <2>3, <2>4
<1>5. ASSUME NEW sender \in People, step2(sender) PROVE MigrationInv'
      BY <1>5 DEF step2, ShutDown
<1>6. ASSUME NEW sender \in People, step3(sender) PROVE MigrationInv'
  <2> USE <1>6 DEF step3, MayStep3, EXIT_1_NO_RETURN_STEP
  <2>1. DictatorTypeOK'
    <3>1. currentStep' \in 1 .. 6
          OBVIOUS
    <3>2. deprecated' \in BOOLEAN
          BY Zenon
    <3> QED
        BY <3>1, <3>2
  <2>2. NothingStranded'
        OBVIOUS
  <2>3. EtherByStep'
        OBVIOUS
  <2>4. InstalledByStep'
        OBVIOUS
  <2> QED
      BY <2>1, <2>2, <2>3, <2>4
<1>7. ASSUME NEW sender \in People, step4(sender) PROVE MigrationInv'
      BY <1>7 DEF step4, MayStep4, HandedTo, DictatorHoldsAll
<1>8. ASSUME NEW sender \in People, step5(sender) PROVE MigrationInv'
      BY <1>8 DEF step5, MayStep5, Upgraded, Donated, MayUpgrade
<1>9. ASSUME NEW sender \in People, finalize(sender) PROVE MigrationInv'
      BY <1>9 DEF finalize, MayFinalize, HandedTo, DictatorHoldsAll
<1>10. ASSUME NEW sender \in People, exit1(sender) PROVE MigrationInv'
  <2> USE <1>10 DEF exit1, EXIT_1_NO_RETURN_STEP
  <2>1. DictatorTypeOK'
        OBVIOUS
  <2>2. NothingStranded'
        OBVIOUS
  <2>3. EtherByStep'
        OBVIOUS
  <2>4. InstalledByStep'
        OBVIOUS
  <2> QED
      BY <2>1, <2>2, <2>3, <2>4
<1>11. ASSUME NEW sender \in People, upgradePortal(sender) PROVE MigrationInv'
      BY <1>11 DEF upgradePortal
<1>12. ASSUME NEW sender \in People, NEW c \in Owned, transferToDictator(sender, c)
       PROVE MigrationInv'
      BY <1>12 DEF transferToDictator
<1>13. CASE legacyDeposit
      BY <1>13 DEF legacyDeposit, LegacyInUse
<1>14. CASE legacyWithdrawal
      BY <1>14 DEF legacyWithdrawal, LegacyInUse
<1> QED
    BY <1>1, <1>2, <1>3, <1>4, <1>5, <1>6, <1>7, <1>8, <1>9, <1>10, <1>11, <1>12, <1>13, <1>14
    DEF DictatorNext

\* No order, repetition or omission of the transactions, and nobody's late one,
\* leaves a contract with an owner that cannot give it on (SystemDictator.sol,
\* finalize and step4).
THEOREM NothingIsStranded == DictatorSpec => []NothingStranded
<1>1. MigrationInv => NothingStranded
      BY DEF MigrationInv
<1> QED
    BY <1>1, MigrationStart, MigrationStep, PTL DEF DictatorSpec

\* Nor does it let the messenger run in the middle of the migration (step2 to
\* step5, and exit1).
THEOREM MigrationIsAtomic == DictatorSpec => []OneSystemAtATime
BY InvGivesOneSystem, MigrationStart, MigrationStep, PTL DEF DictatorSpec

-----------------------------------------------------------------------------
(* The scripts *)

\* It holds where the scripts begin.
LEMMA ScriptsStart == ScriptsInit => MigrationInv
<1> SUFFICES ASSUME ScriptsInit PROVE MigrationInv
    OBVIOUS
<1> USE DEF ScriptsInit, Implementations, LEGACY, BEDROCK, NONE
<1>1. /\ implementation \in [Proxies -> Implementations]
      /\ implementation["PatexPortal"] = BEDROCK
      /\ implementation["L1CrossDomainMessenger"] # BEDROCK
      /\ implementation["L1CrossDomainMessenger"] = LEGACY =>
           deprecated /\ implementation["L1StandardBridge"] = LEGACY
  <2>1. CASE implementation = [Fresh EXCEPT !["PatexPortal"] = BEDROCK]
        BY <2>1 DEF Fresh, Proxies
  <2>2. CASE implementation = [Legacy EXCEPT !["PatexPortal"] = BEDROCK]
        BY <2>2 DEF Fresh, Legacy, Proxies
  <2> QED
      BY <2>1, <2>2
<1>2. owed \in Nat
      BY DictatorAssumption
<1>3. /\ ether \in [{"L1StandardBridge", "PatexPortal"} -> Nat]
      /\ ether["L1StandardBridge"] = owed
      /\ ether["PatexPortal"] = 0
      BY <1>2
<1>4. owner \in [Owned -> People] /\ \A c \in Owned : owner[c] \in People
      OBVIOUS
<1>5. DictatorTypeOK
  <2>1. deprecated \in BOOLEAN
        BY Zenon
  <2>2. /\ shutoff \in BOOLEAN /\ dynamicConfigSet \in BOOLEAN
        /\ finalized \in BOOLEAN /\ exited \in BOOLEAN
        BY Zenon
  <2>3. owner["ProxyAdmin"] # PROXY_ADMIN
        BY <1>4, DictatorAssumption DEF Owned
  <2>4. config \in [controller : People, finalOwner : People]
        OBVIOUS
  <2>5. proxyType \in [Proxies -> {"ERC1967", "CHUGSPLASH", "RESOLVED"}]
        OBVIOUS
  <2>6. /\ currentStep \in 1 .. 6
        /\ oldL1CrossDomainMessenger \in Implementations
        OBVIOUS
  <2>7. owner \in [Owned -> People \cup {DICTATOR, PROXY_ADMIN}]
        BY <1>4
  <2> QED
      BY <1>1, <1>2, <1>3, <2>1, <2>2, <2>3, <2>4, <2>5, <2>6, <2>7 DEF DictatorTypeOK
<1>6. NothingStranded
      BY <1>4, DictatorAssumption
      DEF NothingStranded, StillHeld, PROXY_TRANSFER_STEP, Owned, Transferred
<1>7. EtherByStep /\ InstalledByStep
      BY <1>1, <1>3 DEF EtherByStep, InstalledByStep, messenger
<1> QED
    BY <1>5, <1>6, <1>7 DEF MigrationInv

\* Whoever sends it, and whichever it is, a transaction is one of the dictator's.
LEMMA TransactionsAreSteps ==
  ASSUME NEW sender \in People, NEW tx \in Transactions, Perform(sender, tx)
  PROVE  [DictatorNext]_dictatorVars
<1>1. CASE unpause(sender)
      BY <1>1 DEF unpause
<1>2. CASE tx \in Owned /\ transferToDictator(sender, tx)
      BY <1>2 DEF DictatorNext
<1>3. CASE \/ phase1(sender) \/ step3(sender) \/ step4(sender) \/ updateDynamicConfig(sender)
           \/ step5(sender) \/ finalize(sender)
      BY <1>3 DEF DictatorNext
<1> QED
    BY <1>1, <1>2, <1>3 DEF Perform

\* A script only reads the chain: every step of it, of the operator or of users is
\* a transaction that anybody could send, or none.
LEMMA ScriptsOnlySend ==
  ASSUME deployer \in People, [ScriptsNext]_allVars
  PROVE  [DictatorNext]_dictatorVars /\ deployer' = deployer
<1>1. CASE UNCHANGED allVars
      BY <1>1 DEF allVars, scriptVars
<1>2. CASE Start
      BY <1>2 DEF Start, chainUnchanged
<1>3. CASE Script
      BY <1>3 DEF Script, Skip, Send, Mined, Ask, WaitOnly, Awaited, Checked, Throw, End,
                  chainUnchanged
<1>4. CASE GiveUp \/ Kill
      BY <1>4 DEF GiveUp, Kill, End, chainUnchanged
<1>5. CASE CallOff
      BY <1>5 DEF CallOff, DictatorNext
<1>6. ASSUME NEW tx \in Transactions, Mine(tx)
     PROVE  [DictatorNext]_dictatorVars /\ deployer' = deployer
  <2>1. deployer' = deployer
        BY <1>6 DEF Mine
  <2>2. PICK sender \in People : Perform(sender, tx)
        BY <1>6 DEF Mine
  <2> QED
      BY <2>1, <2>2, TransactionsAreSteps
<1>7. ASSUME NEW tx \in Transactions, Revert(tx)
     PROVE  [DictatorNext]_dictatorVars /\ deployer' = deployer
      BY <1>7 DEF Revert
<1>8. CASE LegacyUse
      BY <1>8 DEF LegacyUse, scriptVars, DictatorNext
<1> QED
    BY <1>1, <1>2, <1>3, <1>4, <1>5, <1>6, <1>7, <1>8 DEF ScriptsNext

\* Scripts that are killed, time out or are run again at the wrong step, and
\* people who send what was printed late or twice, strand no contract and never
\* let half a system run (deploy/020 and 021).
THEOREM ScriptsAreSafe == ScriptsSpec => [](NothingStranded /\ OneSystemAtATime)
<1> DEFINE Inv == MigrationInv /\ deployer \in People
<1>1. ScriptsInit => Inv
      BY ScriptsStart DEF ScriptsInit
<1>2. Inv /\ [ScriptsNext]_allVars => Inv'
      BY ScriptsOnlySend, MigrationStep
<1>3. Inv => NothingStranded /\ OneSystemAtATime
      BY InvGivesOneSystem DEF MigrationInv
<1> QED
    BY <1>1, <1>2, <1>3, PTL DEF ScriptsSpec

-----------------------------------------------------------------------------
(* What a script waits for can still happen, when the phases are run one after *)
(* the other.  Once the migration is called off nothing is claimed.            *)

Scripts020 == {"ProxyAdmin", "AddressManager", "L1StandardBridge", "L1ERC721Bridge", "owners", "phase1"}
Scripts021 == {"step3", "step4", "updateDynamicConfig", "step5", "unpause", "finalize"}

\* A transaction is asked for when its step has come, and not before.
Earliest(tx) ==
  CASE tx \in Owned \cup {"phase1"}             -> 1
    [] tx = "step3"                             -> 3
    [] tx = "step4"                             -> 4
    [] tx \in {"updateDynamicConfig", "step5"}  -> 5
    [] OTHER                                    -> 6

DictatorHasAll == \A c \in Owned : owner[c] = DICTATOR

\* The chain, and what may yet be sent to it.
ChainInOrder ==
  /\ currentStep # 2
  /\ \A tx \in sent : currentStep >= Earliest(tx)
  /\ currentStep <= 4 /\ (currentStep >= 3 \/ "phase1" \in sent) => DictatorHasAll
  /\ currentStep >= 5 /\ ~finalized => owner["ProxyAdmin"] = DICTATOR
  /\ finalized => currentStep = 6
  /\ implementation["PatexPortal"] = BEDROCK
  /\ liveDeployer => ~paused
  /\ liveDeployer /\ currentStep <= 4 => \A c \in Owned : owner[c] \in {deployer, DICTATOR}

\* What 020 has dealt with when it is at a block.
Dealt(b) ==
  CASE b = "ProxyAdmin"       -> {}
    [] b = "AddressManager"   -> {"ProxyAdmin"}
    [] b = "L1StandardBridge" -> {"ProxyAdmin", "AddressManager"}
    [] b = "L1ERC721Bridge"   -> {"ProxyAdmin", "AddressManager", "L1StandardBridge"}
    [] OTHER                  -> Owned

\* 020: what it has dealt with is handed over, or somebody was asked to.
At020 ==
  block \in Scripts020 =>
    /\ currentStep \in {1, 3} /\ sent \subseteq Owned \cup {"phase1"}
    /\ block # "ProxyAdmin" => needsProxyTransfer
    /\ \A c \in Dealt(block) \cup (IF stage = "mining" THEN {block} \cap Owned ELSE {}) :
         owner[c] = DICTATOR \/ c \in sent
    /\ block = "phase1" \/ (block = "owners" /\ stage = "checks") => DictatorHasAll
    /\ block \in Owned => stage \in {"due", "mining"}
    /\ block = "owners" => stage # "mining"

\* 021: a block is not reached before its step, and while a step is waited for the
\* next one has not been asked for.
At021 ==
  block \in Scripts021 =>
    /\ currentStep >= Earliest(block)
    /\ block \in {"step3", "step4"} /\ stage # "due" =>
         /\ currentStep <= Earliest(block) + 1
         /\ {"step4", "step5"} \cap sent \subseteq {block}
    /\ block \in {"step3", "step4", "step5"} /\ stage = "checks" =>
         currentStep > Earliest(block)
    /\ block = "updateDynamicConfig" /\ stage = "checks" => dynamicConfigSet
    /\ block = "step5" => currentStep = 6 \/ dynamicConfigSet

\* What was sent is in the mempool, or asked of people, until it has done its work.
Underway ==
  block \in Transactions \ Owned /\ stage \in {"mining", "await"} =>
    block \in sent \/ Code(block).until

WaitingInv ==
  /\ MigrationInv /\ ScriptsTypeOK /\ ~both
  /\ ~exited => ChainInOrder /\ At020 /\ At021 /\ Underway

\* The blocks in their order.
LEMMA AfterIs ==
  ASSUME ~both
  PROVE  /\ After("ProxyAdmin") = "AddressManager" /\ After("AddressManager") = "L1StandardBridge"
         /\ After("L1StandardBridge") = "L1ERC721Bridge" /\ After("L1ERC721Bridge") = "owners"
         /\ After("owners") = "phase1" /\ After("phase1") = "idle"
         /\ After("step3") = "step4" /\ After("step4") = "updateDynamicConfig"
         /\ After("updateDynamicConfig") = "step5" /\ After("step5") = "unpause"
         /\ After("unpause") = "finalize" /\ After("finalize") = "idle"
<1>1. DOMAIN Blocks = 1 .. 12
      BY DEF Blocks
<1>2. \A j \in 1 .. 12, k \in 1 .. 12 : Blocks[j] = Blocks[k] => j = k
      BY DEF Blocks
<1>3. \A k \in 1 .. 12 : (CHOOSE j \in DOMAIN Blocks : Blocks[j] = Blocks[k]) = k
      BY <1>1, <1>2
<1>4. /\ Blocks[1] = "ProxyAdmin" /\ Blocks[2] = "AddressManager" /\ Blocks[3] = "L1StandardBridge"
      /\ Blocks[4] = "L1ERC721Bridge" /\ Blocks[5] = "owners" /\ Blocks[6] = "phase1"
      /\ Blocks[7] = "step3" /\ Blocks[8] = "step4" /\ Blocks[9] = "updateDynamicConfig"
      /\ Blocks[10] = "step5" /\ Blocks[11] = "unpause" /\ Blocks[12] = "finalize"
      BY DEF Blocks
<1>5. \A k \in 1 .. 12 :
        After(Blocks[k]) = IF Blocks[k] \in {"phase1", "finalize"} THEN "idle" ELSE Blocks[k + 1]
  <2> SUFFICES ASSUME NEW k \in 1 .. 12
               PROVE  After(Blocks[k]) =
                        IF Blocks[k] \in {"phase1", "finalize"} THEN "idle" ELSE Blocks[k + 1]
      OBVIOUS
  <2>1. (CHOOSE j \in DOMAIN Blocks : Blocks[j] = Blocks[k]) = k
        BY <1>3
  <2>2. PICK b : b = Blocks[k]
        OBVIOUS
  <2>3. k = CHOOSE j \in DOMAIN Blocks : Blocks[j] = b
        BY <2>1, <2>2
  <2>4. CASE b \in {"phase1", "finalize"}
        BY <2>2, <2>4 DEF After
  <2>5. CASE b \notin {"phase1", "finalize"}
    <3>1. After(b) = Blocks[(CHOOSE j \in DOMAIN Blocks : Blocks[j] = b) + 1]
          BY <2>5, Zenon DEF After
    <3>2. After(b) = Blocks[k + 1]
          BY <2>3, <3>1, Zenon
    <3> QED
        BY <2>2, <2>5, <3>2
  <2> QED
      BY <2>4, <2>5
<1> HIDE DEF Blocks
<1>6. /\ After(Blocks[1]) = Blocks[2] /\ After(Blocks[2]) = Blocks[3]
      /\ After(Blocks[3]) = Blocks[4] /\ After(Blocks[4]) = Blocks[5]
      /\ After(Blocks[5]) = Blocks[6] /\ After(Blocks[6]) = "idle"
      BY <1>4, <1>5
<1>7. /\ After(Blocks[7]) = Blocks[8] /\ After(Blocks[8]) = Blocks[9]
      /\ After(Blocks[9]) = Blocks[10] /\ After(Blocks[10]) = Blocks[11]
      /\ After(Blocks[11]) = Blocks[12] /\ After(Blocks[12]) = "idle"
      BY <1>4, <1>5
<1> QED
    BY <1>4, <1>6, <1>7

\* The blocks and what they do.
LEMMA BlocksAre ==
  /\ BlockNames = Scripts020 \cup Scripts021
  /\ \A c \in Owned : Code(c) = Transfer(c)
  /\ Code("owners") = OwnersBlock
  /\ Code("phase1") = doPhase(1, Phase1Checks)
  /\ Code("step3") = doStep(3, Step3Checks)
  /\ Code("step4") = doStep(4, Step4Checks)
  /\ Code("updateDynamicConfig") = DynamicConfigBlock
  /\ Code("step5") = doStep(5, Step5Checks)
  /\ Code("unpause") = UnpauseBlock
  /\ Code("finalize") = FinalizeBlock
<1>1. BlockNames = Scripts020 \cup Scripts021
  <2>1. DOMAIN Blocks = 1 .. 12
        BY DEF Blocks
  <2>2. /\ Blocks[1] = "ProxyAdmin" /\ Blocks[2] = "AddressManager" /\ Blocks[3] = "L1StandardBridge"
        /\ Blocks[4] = "L1ERC721Bridge" /\ Blocks[5] = "owners" /\ Blocks[6] = "phase1"
        /\ Blocks[7] = "step3" /\ Blocks[8] = "step4" /\ Blocks[9] = "updateDynamicConfig"
        /\ Blocks[10] = "step5" /\ Blocks[11] = "unpause" /\ Blocks[12] = "finalize"
        BY DEF Blocks
  <2>3. \A i \in 1 .. 12 : i \in {1, 2, 3, 4, 5, 6, 7, 8, 9, 10, 11, 12}
        OBVIOUS
  <2> QED
      BY <2>1, <2>2, <2>3 DEF BlockNames, Scripts020, Scripts021
<1>2. "owners" \notin Owned /\ "phase1" \notin Owned /\ \A b \in Scripts021 : b \notin Owned
      BY DEF Owned, Transferred, Scripts021
<1>3. \A c \in Owned : Code(c) = Transfer(c)
  <2> SUFFICES ASSUME NEW c \in Owned PROVE Code(c) = Transfer(c)
      OBVIOUS
  <2>1. c \notin {"owners", "phase1", "step3", "step4", "updateDynamicConfig", "step5", "unpause",
                  "finalize"}
        BY <1>2 DEF Scripts021
  <2> QED
      BY <2>1 DEF Code
<1> QED
    BY <1>1, <1>2, <1>3 DEF Code, Scripts021

\* When a block is due, and what it waits for.
DueUntil ==
  /\ \A c \in Owned : Code(c).due <=> owner[c] # DICTATOR /\ (c = "ProxyAdmin" \/ needsProxyTransfer)
  /\ Code("owners").until <=> DictatorHasAll
  /\ (Code("phase1").due <=> currentStep = 1) /\ (Code("phase1").until <=> currentStep = 3)
  /\ (Code("step3").due <=> currentStep = 3) /\ (Code("step3").until <=> currentStep = 4)
  /\ (Code("step4").due <=> currentStep = 4) /\ (Code("step4").until <=> currentStep = 5)
  /\ Code("updateDynamicConfig").due <=> currentStep = 5 /\ ~dynamicConfigSet
  /\ Code("updateDynamicConfig").until <=> dynamicConfigSet
  /\ (Code("step5").due <=> currentStep = 5) /\ (Code("step5").until <=> currentStep = 6)
  /\ (Code("unpause").due <=> currentStep = 6) /\ (Code("unpause").until <=> ~paused)
  /\ Code("owners").due /\ Code("finalize").due /\ (Code("finalize").until <=> finalized)

\* It follows from the code of the block,
LEMMA DueAndUntil == DueUntil
<1>1. phaseToStep[1] = 1 /\ phaseToStep[2] = 3 /\ 1 + 1 = 2 /\ 3 + 1 = 4 /\ 4 + 1 = 5 /\ 5 + 1 = 6
      BY DEF phaseToStep
<1>2. /\ \A c \in Owned : Code(c).due <=> owner[c] # DICTATOR /\ (c = "ProxyAdmin" \/ needsProxyTransfer)
      /\ Code("owners").until <=> DictatorHasAll
      /\ Code("owners").due
  <2>1. \A c \in Owned : Code(c).due = (owner[c] # DICTATOR /\ (c = "ProxyAdmin" \/ needsProxyTransfer))
        BY BlocksAre DEF Transfer
  <2> DEFINE all == \A c \in Owned : owner[c] = DICTATOR
  <2>2. Code("owners") = [due |-> TRUE, until |-> all, checks |-> TRUE]
        BY BlocksAre, Zenon DEF OwnersBlock
  <2>3. Code("owners").due = TRUE /\ Code("owners").until = all
    <3> HIDE DEF all
    <3> QED
        BY <2>2
  <2> QED
      BY <2>1, <2>3, Zenon DEF DictatorHasAll
<1>3. (Code("phase1").due <=> currentStep = 1) /\ (Code("phase1").until <=> currentStep = 3)
  <2>1. (doPhase(1, Phase1Checks).due <=> isStartOfPhase(1))
        /\ (doPhase(1, Phase1Checks).until <=> isStartOfPhase(1 + 1))
        BY DEF doPhase
  <2> QED
      BY <1>1, <2>1, BlocksAre DEF isStartOfPhase
<1>4. \A ok : \A n \in {3, 4, 5} : (doStep(n, ok).due <=> currentStep = n)
                             /\ (doStep(n, ok).until <=> currentStep = n + 1)
      BY DEF doStep, isStep
<1>5. /\ (Code("step3").due <=> currentStep = 3) /\ (Code("step3").until <=> currentStep = 4)
      /\ (Code("step4").due <=> currentStep = 4) /\ (Code("step4").until <=> currentStep = 5)
      /\ (Code("step5").due <=> currentStep = 5) /\ (Code("step5").until <=> currentStep = 6)
      BY <1>1, <1>4, BlocksAre
<1>6. /\ Code("updateDynamicConfig").due <=> currentStep = 5 /\ ~dynamicConfigSet
      /\ Code("updateDynamicConfig").until <=> dynamicConfigSet
  <2>1. /\ Code("updateDynamicConfig").due = (currentStep = 5 /\ ~dynamicConfigSet)
        /\ Code("updateDynamicConfig").until = dynamicConfigSet
        BY BlocksAre DEF DynamicConfigBlock, isStep
  <2> QED
      BY <2>1, Zenon
<1>7. /\ (Code("unpause").due <=> currentStep = 6) /\ (Code("unpause").until <=> ~paused)
      /\ Code("finalize").due /\ (Code("finalize").until <=> finalized)
  <2>1. /\ Code("unpause").due = (currentStep = 6) /\ Code("unpause").until = ~paused
        /\ Code("finalize").due = TRUE /\ Code("finalize").until = finalized
        BY BlocksAre DEF UnpauseBlock, FinalizeBlock, isStep
  <2> QED
      BY <2>1, Zenon
<1> QED
    BY <1>2, <1>3, <1>5, <1>6, <1>7 DEF DueUntil

\* now and after any step.
LEMMA DueAndUntilNext == DueUntil'
BY DueAndUntil, PTL

\* What is waited for works when it is sent.
LEMMA WouldSucceed ==
  ASSUME WaitingInv, ~exited, block \in Transactions \ Owned, block \in BlockNames,
         ~Code(block).until, stage # "due", stage # "checks" \/ block # "step5"
  PROVE  Succeeds(IF block = "unpause" THEN deployer ELSE config.controller, block)
<1> USE DEF WaitingInv, MigrationInv, DictatorTypeOK, ScriptsTypeOK, NothingStranded,
            ChainInOrder, At020, At021, Scripts020, Scripts021, Earliest, DictatorHasAll,
            Succeeds, OnlyOwner, AtStep, Owned, Transferred
<1>1. CASE block = "phase1"
  <2>1. currentStep = 1 /\ DictatorHasAll /\ ~finalized
        BY <1>1, DueAndUntil DEF DueUntil
  <2>2. MayUpgrade(DICTATOR, "SystemConfig")
        BY <2>1 DEF MayUpgrade, AdminOf, Kind, InstalledByStep, Proxies
  <2> QED
      BY <1>1, <2>1, <2>2 DEF MayPhase1
<1>2. CASE block = "step3"
  <2>1. currentStep = 3 /\ ~finalized
        BY <1>2, DueAndUntil DEF DueUntil
  <2> QED
      BY <1>2, <2>1 DEF MayStep3, EXIT_1_NO_RETURN_STEP
<1>3. CASE block = "step4"
  <2>1. currentStep = 4 /\ ~finalized
        BY <1>3, DueAndUntil DEF DueUntil
  <2> QED
      BY <1>3, <2>1 DEF MayStep4, PROXY_TRANSFER_STEP, DictatorHoldsAll
<1>4. CASE block = "updateDynamicConfig"
      BY <1>4
<1>5. CASE block = "step5"
  <2>1. currentStep = 5 /\ ~finalized /\ dynamicConfigSet
        BY <1>5, DueAndUntil DEF DueUntil
  <2>2. ASSUME NEW p \in Upgraded PROVE MayUpgrade(DICTATOR, p)
        BY <2>1 DEF MayUpgrade, AdminOf, Upgraded, Proxies, PROXY_TRANSFER_STEP
  <2> QED
      BY <1>5, <2>1, <2>2 DEF MayStep5, BEDROCK, NONE
<1>6. CASE block = "unpause"
      BY <1>6
<1>7. CASE block = "finalize"
  <2>1. currentStep = 6 /\ ~finalized
        BY <1>7, DueAndUntil DEF DueUntil
  <2> QED
      BY <1>7, <2>1 DEF MayFinalize, StillHeld, PROXY_TRANSFER_STEP
<1> QED
    BY <1>1, <1>2, <1>3, <1>4, <1>5, <1>6, <1>7 DEF Transactions

\* Who has not handed over a contract can do so.
LEMMA OwnersCan ==
  ASSUME WaitingInv, ~exited, block = "owners", NEW c \in Owned, owner[c] # DICTATOR
  PROVE  c \in sent /\ owner[c] \in People
BY DEF WaitingInv, MigrationInv, DictatorTypeOK, NothingStranded, At020, Scripts020, Dealt,
       PROXY_TRANSFER_STEP, Owned, Transferred

\* So nothing is waited for in vain.
LEMMA WaitingIsNotInVain == WaitingInv => NeverWaitsInVain
<1> SUFFICES ASSUME WaitingInv, At("await"), ~Code(block).until, ~exited,
                    NEW tx \in Missing(block)
             PROVE  tx \in sent /\ \E sender \in People : Succeeds(sender, tx)
    BY DEF NeverWaitsInVain, WaitingInv
<1>1. block \in BlockNames /\ stage = "await"
      BY DEF At, WaitingInv, ScriptsTypeOK
<1>2. block \notin Owned
      BY <1>1, BlocksAre DEF WaitingInv, At020, Owned, Transferred, Scripts020
<1>3. CASE block = "owners"
  <2>1. tx \in Owned /\ owner[tx] # DICTATOR
        BY <1>3 DEF Missing
  <2> QED
      BY <1>3, <2>1, OwnersCan DEF Succeeds
<1>4. CASE block # "owners"
  <2>1. tx = block /\ block \in Transactions \ Owned
        BY <1>1, <1>2, <1>4, BlocksAre DEF Missing, Transactions, Scripts020, Scripts021, Owned,
                                           Transferred
  <2>2. tx \in sent
        BY <1>1, <2>1 DEF WaitingInv, Underway
  <2>3. config.controller \in People /\ deployer \in People
        BY DEF WaitingInv, MigrationInv, DictatorTypeOK, ScriptsTypeOK
  <2> QED
      BY <1>1, <2>1, <2>2, <2>3, WouldSucceed
<1> QED
    BY <1>3, <1>4

\* What is known of a script that runs, and of the chain it runs on.
Position == At020 /\ At021 /\ Underway

\* A step of a script leaves the chain in order, if it asks for nothing too early.
LEMMA ChainStays ==
  ASSUME ChainInOrder, chainUnchanged, \A tx \in sent' \ sent : currentStep >= Earliest(tx),
         "phase1" \in sent' \ sent => DictatorHasAll
  PROVE  ChainInOrder'
<1>1. /\ UNCHANGED <<config, owner, implementation, currentStep, finalized, deployer, paused>>
      BY DEF chainUnchanged, dictatorVars, flags
<1>2. \A tx \in sent' : currentStep' >= Earliest(tx)
      BY <1>1 DEF ChainInOrder
<1> QED
    BY <1>1, <1>2 DEF ChainInOrder, DictatorHasAll, liveDeployer

\* A script that ends is at no block.
LEMMA EndInv ==
  ASSUME ChainInOrder, End
  PROVE  ChainInOrder' /\ Position'
<1>1. block' = "idle" /\ sent' = sent /\ chainUnchanged
      BY DEF End, GoTo
<1> QED
    BY <1>1, ChainStays DEF Position, At020, At021, Underway, Scripts020, Scripts021, Transactions,
                            Owned, Transferred

\* Phase 1 begins before step 3, phase 2 after.
LEMMA StartInv ==
  ASSUME WaitingInv, ~exited, Procedure = "phases", Start
  PROVE  ChainInOrder' /\ Position' /\ ~both'
<1>1. /\ sent' = sent /\ chainUnchanged /\ stage' = "due" /\ ~both' /\ ~finalized
      /\ block' = IF currentStep < 3 THEN "ProxyAdmin" ELSE "step3"
      BY DEF Start, GoTo
<1>2. UNCHANGED <<owner, currentStep>>
      BY <1>1 DEF chainUnchanged, dictatorVars
<1>3. ChainInOrder' /\ ChainInOrder /\ currentStep \in 1 .. 6 /\ sent \subseteq Transactions
      BY <1>1, ChainStays DEF WaitingInv, MigrationInv, DictatorTypeOK, ScriptsTypeOK
<1>4. currentStep < 3 => currentStep = 1 /\ sent \subseteq Owned \cup {"phase1"}
  <2>1. \A tx \in sent : tx \notin Owned \cup {"phase1"} => Earliest(tx) \in {3, 4, 5, 6}
        BY DEF Earliest
  <2> QED
      BY <1>3, <2>1 DEF ChainInOrder
<1>5. At020'
      BY <1>1, <1>2, <1>4 DEF At020, Dealt, Scripts020
<1>6. At021' /\ Underway'
      BY <1>1, <1>2, <1>3 DEF At021, Underway, Scripts021, Earliest, Owned, Transferred
<1> QED
    BY <1>1, <1>3, <1>5, <1>6 DEF Position

\* A block that is not due is passed over.
LEMMA SkipInv ==
  ASSUME WaitingInv, ~exited, Skip
  PROVE  ChainInOrder' /\ Position'
<1>1. /\ block \in BlockNames /\ stage = "due" /\ ~Code(block).due /\ ReadsStep(block)
      /\ block' = IF block = "unpause" THEN "idle" ELSE After(block)
      /\ stage' = "due" /\ sent' = sent /\ chainUnchanged /\ ~both
      /\ ChainInOrder /\ At020 /\ At021
      BY DEF Skip, At, GoTo, WaitingInv, ScriptsTypeOK
<1>2. UNCHANGED <<owner, currentStep, dynamicConfigSet>>
      BY <1>1 DEF chainUnchanged, dictatorVars, flags
<1>3. currentStep \in 1 .. 6
      BY DEF WaitingInv, MigrationInv, DictatorTypeOK
<1>4. CASE block \in Scripts020
  <2>1. needsProxyTransfer'
    <3>1. currentStep <= 4
          BY <1>1, <1>4 DEF At020
    <3>2. block # "ProxyAdmin" => needsProxyTransfer
          BY <1>1, <1>4 DEF At020
    <3>3. BeforeTransfer
          BY <3>1 DEF BeforeTransfer, PROXY_TRANSFER_STEP
    <3> QED
        BY <1>1, <3>2, <3>3, Zenon DEF ReadsStep
  <2>2. At020'
        BY <1>1, <1>2, <1>4, <2>1, AfterIs, DueAndUntil
        DEF DueUntil, At020, Scripts020, Dealt, Owned, Transferred
  <2>3. block' \notin Scripts021
        BY <1>1, <1>4, AfterIs DEF Scripts020, Scripts021
  <2> QED
      BY <1>1, <2>2, <2>3, ChainStays DEF Position, At021, Underway
<1>5. CASE block \in Scripts021
  <2>1. block' \notin Scripts020
        BY <1>1, <1>5, AfterIs DEF Scripts020, Scripts021
  <2>2. At021'
        BY <1>1, <1>2, <1>3, <1>5, AfterIs, DueAndUntil DEF DueUntil, At021, Scripts021, Earliest, Owned,
                                                          Transferred
  <2> QED
      BY <1>1, <2>1, <2>2, ChainStays DEF Position, At020, Underway
<1> QED
    BY <1>1, <1>4, <1>5, BlocksAre

\* A block that is due asks for something that is not too early.
LEMMA AskedInTime ==
  ASSUME WaitingInv, ~exited, block \in BlockNames, stage = "due", Code(block).due,
         ~OnlyWaits(block), sent' = sent \cup {block}, chainUnchanged
  PROVE  ChainInOrder' /\ (block \in {"step3", "step4"} => {"step4", "step5"} \cap sent \subseteq {block})
<1>1. ChainInOrder /\ At020 /\ At021 /\ currentStep \in 1 .. 6 /\ block # "owners"
      BY DEF WaitingInv, MigrationInv, DictatorTypeOK, OnlyWaits
<1>2. currentStep >= Earliest(block)
  <2>1. block \in Scripts020 => Earliest(block) = 1
        BY <1>1 DEF Earliest, Scripts020, Owned, Transferred
  <2> QED
      BY <1>1, <2>1, BlocksAre DEF At021
<1>3. block = "phase1" => DictatorHasAll
      BY <1>1 DEF At020, Scripts020
<1>4. ChainInOrder'
      BY <1>1, <1>2, <1>3, ChainStays
<1>5. ASSUME block \in {"step3", "step4"}, NEW tx \in {"step4", "step5"} \cap sent PROVE tx = block
  <2>1. currentStep >= Earliest(tx) /\ Earliest("step4") = 4 /\ Earliest("step5") = 5
        BY <1>1, <1>5 DEF ChainInOrder, Earliest, Owned, Transferred
  <2> QED
      BY <1>1, <1>5, <2>1, DueAndUntil DEF DueUntil
<1> QED
    BY <1>4, <1>5

\* It is sent, and its receipt waited for.
LEMMA SendInv ==
  ASSUME WaitingInv, ~exited, Send
  PROVE  ChainInOrder' /\ Position'
<1>1. /\ block \in BlockNames /\ stage = "due" /\ Code(block).due /\ ~OnlyWaits(block)
      /\ sent' = sent \cup {block} /\ stage' = "mining" /\ block' = block
      /\ needsProxyTransfer' = needsProxyTransfer /\ chainUnchanged
      /\ At020 /\ At021 /\ currentStep \in 1 .. 6
      BY DEF Send, At, WaitingInv, ScriptsTypeOK, MigrationInv, DictatorTypeOK
<1>2. UNCHANGED <<owner, currentStep, dynamicConfigSet>>
      BY <1>1 DEF chainUnchanged, dictatorVars, flags
<1>3. /\ ChainInOrder'
      /\ block \in {"step3", "step4"} => {"step4", "step5"} \cap sent \subseteq {block}
      BY <1>1, AskedInTime
<1>4. At020'
  <2>1. block \in Scripts020 => block \in Owned \cup {"phase1"}
        BY <1>1 DEF Scripts020, Owned, Transferred, OnlyWaits
  <2>2. /\ sent' \subseteq Owned \cup {"phase1"} \/ block' \notin Scripts020
        /\ "phase1" \notin Owned /\ "owners" \notin Owned
        BY <1>1, <2>1 DEF At020, Owned, Transferred
  <2> QED
      BY <1>1, <1>2, <2>1, <2>2 DEF At020, DictatorHasAll
<1>5. At021'
      BY <1>1, <1>2, <1>3, DueAndUntil DEF DueUntil, At021, Scripts021, Earliest, Owned, Transferred
<1>6. Underway'
      BY <1>1 DEF Underway
<1> QED
    BY <1>3, <1>4, <1>5, <1>6 DEF Position

\* Somebody was asked to hand a contract over: 020 goes on to the next.
LEMMA HandOn ==
  ASSUME WaitingInv, ~exited, block \in Owned, chainUnchanged, GoTo(After(block)), ReadsStep(block),
         owner[block] = DICTATOR \/ block \in sent', sent \subseteq sent', sent' \subseteq sent \cup {block}
  PROVE  Position'
<1>1. block' = After(block) /\ stage' = "due" /\ ~both /\ At020 /\ block \in Scripts020
      BY DEF GoTo, WaitingInv, Scripts020, Owned, Transferred
<1>2. UNCHANGED <<owner, currentStep>>
      BY DEF chainUnchanged, dictatorVars
<1>3. currentStep \in {1, 3} /\ sent' \subseteq Owned \cup {"phase1"}
      BY <1>1 DEF At020
<1>4. needsProxyTransfer'
  <2>1. block # "ProxyAdmin" => needsProxyTransfer
        BY <1>1 DEF At020
  <2>2. BeforeTransfer
        BY <1>3 DEF BeforeTransfer, PROXY_TRANSFER_STEP
  <2> QED
      BY <2>1, <2>2, Zenon DEF ReadsStep
<1>5. \A c \in Dealt(block) \cup {block} : owner[c] = DICTATOR \/ c \in sent'
      BY <1>1 DEF At020
<1>6. /\ block' \in {"AddressManager", "L1StandardBridge", "L1ERC721Bridge", "owners"}
      /\ Dealt(block') \subseteq Dealt(block) \cup {block}
      BY <1>1, AfterIs DEF Dealt, Owned, Transferred
<1>7. At020'
  <2>1. \A c \in Dealt(block') : owner[c] = DICTATOR \/ c \in sent'
        BY <1>5, <1>6
  <2> QED
      BY <1>1, <1>2, <1>3, <1>4, <1>6, <2>1 DEF At020, Dealt
<1>8. At021' /\ Underway'
      BY <1>1, <1>6 DEF At021, Underway, Scripts021
<1> QED
    BY <1>7, <1>8 DEF Position

\* The receipt is there, or somebody was asked: the block waits for what comes of it.
LEMMA AwaitInv ==
  ASSUME WaitingInv, ~exited, chainUnchanged, block \in BlockNames \ (Owned \cup {"owners"}), block' = block,
         needsProxyTransfer' = needsProxyTransfer, stage' = "await",
         sent \subseteq sent', sent' \subseteq sent \cup {block},
         block \in sent' \/ Code(block).until,
         block \in {"step3", "step4"} =>
           currentStep <= Earliest(block) + 1 /\ {"step4", "step5"} \cap sent \subseteq {block}
  PROVE  Position'
<1>1. At020 /\ At021
      BY DEF WaitingInv
<1>2. UNCHANGED <<owner, currentStep, dynamicConfigSet, finalized, paused>>
      BY DEF chainUnchanged, dictatorVars, flags
<1>3. At020'
  <2>1. block \in Scripts020 => block = "phase1"
        BY DEF Scripts020, Owned, Transferred
  <2> QED
      BY <1>1, <1>2, <2>1 DEF At020, DictatorHasAll, Dealt, Owned, Transferred
<1>4. At021'
      BY <1>1, <1>2 DEF At021
<1>5. Code(block).until => Code(block).until'
  <2>1. block \in {"phase1", "step3", "step4", "updateDynamicConfig", "step5", "unpause", "finalize"}
        BY BlocksAre DEF Scripts020, Scripts021, Owned, Transferred
  <2> QED
      BY <1>2, <2>1, DueAndUntil, DueAndUntilNext DEF DueUntil
<1>6. Underway'
      BY <1>5 DEF Underway
<1> QED
    BY <1>3, <1>4, <1>6 DEF Position

\* What is mined or not any more in the mempool has done its work.
LEMMA MinedInv ==
  ASSUME WaitingInv, ~exited, Mined
  PROVE  ChainInOrder' /\ Position'
<1>1. /\ block \in BlockNames /\ stage = "mining" /\ block \notin sent /\ AfterSending(block)
      /\ sent' = sent /\ chainUnchanged /\ ChainInOrder /\ At020 /\ At021 /\ Underway
      BY DEF Mined, At, WaitingInv, ScriptsTypeOK
<1>2. CASE block \in Owned
  <2>1. owner[block] = DICTATOR
        BY <1>1, <1>2 DEF At020, Scripts020, Owned, Transferred
  <2> QED
      BY <1>1, <1>2, <2>1, HandOn, ChainStays DEF AfterSending
<1>3. CASE block \notin Owned
  <2>1. block # "owners" /\ stage' = "await" /\ block' = block /\ needsProxyTransfer' = needsProxyTransfer
        BY <1>1, <1>3 DEF AfterSending, At020, Scripts020
  <2>2. block \in Transactions \ Owned
        BY <1>1, <1>3, <2>1, BlocksAre DEF Transactions, Scripts020, Scripts021, Owned, Transferred
  <2>3. Code(block).until
        BY <1>1, <2>2 DEF Underway
  <2>4. block \in {"step3", "step4"} =>
          currentStep <= Earliest(block) + 1 /\ {"step4", "step5"} \cap sent \subseteq {block}
        BY <1>1 DEF At021, Scripts021
  <2> QED
      BY <1>1, <1>3, <2>1, <2>3, <2>4, AwaitInv, ChainStays
<1> QED
    BY <1>2, <1>3

\* Somebody is asked for it.
LEMMA AskInv ==
  ASSUME WaitingInv, ~exited, Ask
  PROVE  ChainInOrder' /\ Position'
<1>1. /\ block \in BlockNames /\ stage = "due" /\ Code(block).due /\ ~OnlyWaits(block)
      /\ sent' = sent \cup {block} /\ AfterSending(block) /\ chainUnchanged
      /\ currentStep \in 1 .. 6
      BY DEF Ask, At, WaitingInv, ScriptsTypeOK, MigrationInv, DictatorTypeOK
<1>2. /\ ChainInOrder'
      /\ block \in {"step3", "step4"} => {"step4", "step5"} \cap sent \subseteq {block}
      BY <1>1, AskedInTime
<1>3. CASE block \in Owned
      BY <1>1, <1>2, <1>3, HandOn DEF AfterSending
<1>4. CASE block \notin Owned
  <2>1. block # "owners" /\ stage' = "await" /\ block' = block /\ needsProxyTransfer' = needsProxyTransfer
        BY <1>1, <1>4 DEF AfterSending, OnlyWaits
  <2>2. block \in {"step3", "step4"} => currentStep <= Earliest(block) + 1
        BY <1>1, DueAndUntil DEF DueUntil, Earliest, Owned, Transferred
  <2> QED
      BY <1>1, <1>2, <1>4, <2>1, <2>2, AwaitInv
<1> QED
    BY <1>3, <1>4

\* A block has nothing to send.
LEMMA WaitOnlyInv ==
  ASSUME WaitingInv, ~exited, WaitOnly
  PROVE  ChainInOrder' /\ Position'
<1>1. /\ stage = "due" /\ OnlyWaits(block) /\ (block = "unpause" => ~paused) /\ stage' = "await"
      /\ block' = block /\ needsProxyTransfer' = needsProxyTransfer /\ sent' = sent /\ chainUnchanged
      /\ ChainInOrder /\ At020
      BY DEF WaitOnly, At, WaitingInv
<1>2. ChainInOrder'
      BY <1>1, ChainStays
<1>3. CASE block = "owners"
  <2>1. UNCHANGED <<owner, currentStep>>
        BY <1>1 DEF chainUnchanged, dictatorVars
  <2>2. At020'
        BY <1>1, <1>3, <2>1 DEF At020, Dealt, Owned, Transferred
  <2>3. At021' /\ Underway'
        BY <1>1, <1>3 DEF At021, Underway, Scripts021, Transactions, Owned, Transferred
  <2> QED
      BY <1>2, <2>2, <2>3 DEF Position
<1>4. CASE block = "unpause"
  <2>1. Code("unpause").until /\ "unpause" \in BlockNames \ (Owned \cup {"owners"})
        BY <1>1, <1>4, DueAndUntil, BlocksAre DEF DueUntil, Scripts021, Owned, Transferred
  <2> QED
      BY <1>1, <1>2, <1>4, <2>1, AwaitInv
<1> QED
    BY <1>1, <1>3, <1>4 DEF OnlyWaits

\* What was waited for is there.
LEMMA AwaitedInv ==
  ASSUME WaitingInv, ~exited, Awaited
  PROVE  ChainInOrder' /\ Position'
<1>1. /\ stage = "await" /\ Code(block).until /\ stage' = "checks"
      /\ block' = block /\ needsProxyTransfer' = needsProxyTransfer /\ sent' = sent /\ chainUnchanged
      /\ ChainInOrder /\ At020 /\ At021
      BY DEF Awaited, At, WaitingInv
<1>2. UNCHANGED <<owner, currentStep, dynamicConfigSet>>
      BY <1>1 DEF chainUnchanged, dictatorVars, flags
<1>3. block = "owners" => DictatorHasAll
      BY <1>1, DueAndUntil DEF DueUntil
<1>4. At020'
  <2>1. block \in Scripts020 => block \notin Owned
        BY <1>1 DEF At020
  <2>2. block \in {"owners", "phase1"} => Dealt(block) = Owned
        BY DEF Dealt
  <2> QED
      BY <1>1, <1>2, <1>3, <2>1, <2>2 DEF At020, DictatorHasAll, Scripts020, Owned, Transferred
<1>5. /\ block = "step3" => currentStep = 4
      /\ block = "step4" => currentStep = 5
      /\ block = "step5" => currentStep = 6
      /\ block = "updateDynamicConfig" => dynamicConfigSet
      BY <1>1, DueAndUntil DEF DueUntil
<1>6. At021'
      BY <1>1, <1>2, <1>5 DEF At021, Earliest, Owned, Transferred
<1>7. Underway'
      BY <1>1 DEF Underway
<1> QED
    BY <1>1, <1>4, <1>6, <1>7, ChainStays DEF Position

\* All is as it should be, and the script goes on.
LEMMA CheckedInv ==
  ASSUME WaitingInv, ~exited, Checked
  PROVE  ChainInOrder' /\ Position'
<1>1. /\ block \in BlockNames /\ stage = "checks" /\ stage' = "due" /\ block' = After(block)
      /\ needsProxyTransfer' = needsProxyTransfer /\ sent' = sent /\ chainUnchanged /\ ~both
      /\ ChainInOrder /\ At020 /\ At021 /\ currentStep \in 1 .. 6
      BY DEF Checked, At, GoTo, WaitingInv, ScriptsTypeOK, MigrationInv, DictatorTypeOK
<1>2. UNCHANGED <<owner, currentStep, dynamicConfigSet>>
      BY <1>1 DEF chainUnchanged, dictatorVars, flags
<1>3. CASE block \in Scripts020
  <2>1. block \in {"owners", "phase1"}
        BY <1>1, <1>3 DEF At020, Scripts020, Owned, Transferred
  <2>2. At020'
        BY <1>1, <1>2, <1>3, <2>1, AfterIs DEF At020, Scripts020, Dealt, DictatorHasAll, Owned, Transferred
  <2>3. block' \notin Scripts021
        BY <1>1, <2>1, AfterIs DEF Scripts021
  <2> QED
      BY <1>1, <2>2, <2>3, ChainStays DEF Position, At021, Underway
<1>4. CASE block \in Scripts021
  <2>1. block' \notin Scripts020
        BY <1>1, <1>4, AfterIs DEF Scripts020, Scripts021
  <2>2. At021'
        BY <1>1, <1>2, <1>4, AfterIs DEF At021, Scripts021, Earliest, Owned, Transferred
  <2> QED
      BY <1>1, <2>1, <2>2, ChainStays DEF Position, At020, Underway
<1> QED
    BY <1>1, <1>3, <1>4, BlocksAre

\* A transaction that leaves the step as it is disturbs no script: what it did or
\* would have done is there.
LEMMA QuietInv ==
  ASSUME WaitingInv, ~exited, NEW tx \in sent, sent \ {tx} \subseteq sent', sent' \subseteq sent,
         UNCHANGED <<block, stage, needsProxyTransfer, currentStep>>,
         currentStep <= 4 => \A c \in Owned : owner[c] = DICTATOR \/ c = tx => owner'[c] = DICTATOR,
         dynamicConfigSet => dynamicConfigSet', finalized => finalized', ~paused => ~paused',
         block = tx /\ block \in Transactions \ Owned /\ stage \in {"mining", "await"} =>
           Code(block).until \/ Code(block).until'
  PROVE  Position'
<1>1. At020 /\ At021 /\ Underway /\ currentStep \in 1 .. 6
      BY DEF WaitingInv, MigrationInv, DictatorTypeOK
<1>2. At020'
  <2> SUFFICES ASSUME block \in Scripts020 PROVE At020'
      BY DEF At020
  <2>1. \A c \in Owned : owner[c] = DICTATOR \/ c = tx => owner'[c] = DICTATOR
        BY <1>1 DEF At020
  <2>2. Dealt(block) \cup (IF stage = "mining" THEN {block} \cap Owned ELSE {}) \subseteq Owned
        BY DEF Dealt, Owned, Transferred
  <2>3. \A c \in Dealt(block) \cup (IF stage = "mining" THEN {block} \cap Owned ELSE {}) :
          owner'[c] = DICTATOR \/ c \in sent'
        BY <1>1, <2>1, <2>2 DEF At020
  <2>4. DictatorHasAll => DictatorHasAll'
        BY <2>1 DEF DictatorHasAll
  <2> QED
      BY <1>1, <2>3, <2>4 DEF At020, Dealt
<1>3. At021'
      BY <1>1 DEF At021
<1>4. Underway'
  <2> SUFFICES ASSUME block \in Transactions \ Owned, stage \in {"mining", "await"}
               PROVE  block \in sent' \/ Code(block).until'
      BY DEF Underway
  <2>1. Code(block).until => Code(block).until'
        BY DueAndUntil, DueAndUntilNext DEF DueUntil, Transactions
  <2> QED
      BY <1>1, <2>1 DEF Underway
<1> QED
    BY <1>2, <1>3, <1>4 DEF Position

\* What is mined was sent when its step had come, and comes in no script's way.
LEMMA MineInv ==
  ASSUME WaitingInv, ~exited, NEW tx \in Transactions, Mine(tx)
  PROVE  ChainInOrder' /\ Position' /\ ~exited'
<1>1. /\ tx \in sent /\ sent \ {tx} \subseteq sent' /\ sent' \subseteq sent
      /\ UNCHANGED <<deployer, block, stage, needsProxyTransfer>>
      /\ ChainInOrder /\ At020 /\ At021 /\ Underway /\ currentStep \in 1 .. 6
      /\ owner \in [Owned -> People \cup {DICTATOR, PROXY_ADMIN}]
      /\ implementation \in [Proxies -> Implementations]
      BY DEF Mine, localVars, WaitingInv, MigrationInv, DictatorTypeOK
<1>2. PICK sender \in People : Perform(sender, tx)
      BY DEF Mine, WaitingInv, ScriptsTypeOK
<1>3. /\ currentStep >= Earliest(tx) /\ "ProxyAdmin" \in Owned
      /\ \A t \in sent : currentStep >= Earliest(t) /\ Earliest(t) \in 1 .. 6
      BY <1>1 DEF ChainInOrder, Owned, Earliest
<1>4. CASE tx = "unpause" /\ unpause(sender)
  <2>1. ~paused' /\ UNCHANGED dictatorVars
        BY <1>4 DEF unpause
  <2>2. UNCHANGED <<config, owner, implementation, currentStep, dynamicConfigSet, finalized, exited>>
        BY <2>1 DEF dictatorVars, flags
  <2>3. currentStep > 4
        BY <1>1, <1>3, <1>4 DEF Earliest, Owned, Transferred
  <2>4. Code("unpause").until'
        BY <2>1, DueAndUntilNext DEF DueUntil
  <2>5. Position'
        BY <1>1, <1>4, <2>1, <2>2, <2>3, <2>4, QuietInv
  <2>6. ChainInOrder'
        BY <1>1, <2>1, <2>2 DEF ChainInOrder, DictatorHasAll, liveDeployer
  <2> QED
      BY <2>2, <2>5, <2>6
<1>5. CASE tx \in Owned /\ transferToDictator(sender, tx) /\ UNCHANGED paused
  <2>1. /\ owner' = [owner EXCEPT ![tx] = DICTATOR]
        /\ UNCHANGED <<config, implementation, currentStep, dynamicConfigSet, finalized, exited>>
        BY <1>5 DEF transferToDictator, flags
  <2>2. \A c \in Owned : owner'[c] = IF c = tx THEN DICTATOR ELSE owner[c]
        BY <1>1, <1>5, <2>1
  <2>3. Position'
        BY <1>1, <1>5, <2>1, <2>2, QuietInv
  <2>4. ChainInOrder'
        BY <1>1, <1>3, <1>5, <2>1, <2>2 DEF ChainInOrder, DictatorHasAll, liveDeployer
  <2> QED
      BY <2>1, <2>3, <2>4
<1>6. CASE tx = "updateDynamicConfig" /\ updateDynamicConfig(sender) /\ UNCHANGED paused
  <2>1. /\ dynamicConfigSet' = TRUE
        /\ UNCHANGED <<config, owner, implementation, currentStep, finalized, exited>>
        BY <1>6 DEF updateDynamicConfig
  <2>2. Code("updateDynamicConfig").until' /\ currentStep > 4
        BY <1>1, <1>3, <1>6, <2>1, DueAndUntilNext DEF DueUntil, Earliest, Owned, Transferred
  <2>3. Position'
        BY <1>1, <1>6, <2>1, <2>2, QuietInv
  <2>4. ChainInOrder'
        BY <1>1, <1>6, <2>1 DEF ChainInOrder, DictatorHasAll, liveDeployer
  <2> QED
      BY <2>1, <2>3, <2>4
<1>7. CASE tx = "finalize" /\ finalize(sender) /\ UNCHANGED paused
  <2>1. /\ finalized' = TRUE
        /\ UNCHANGED <<config, implementation, currentStep, dynamicConfigSet, exited>>
        BY <1>7 DEF finalize
  <2>2. Code("finalize").until' /\ currentStep = 6
        BY <1>1, <1>3, <1>7, <2>1, DueAndUntilNext DEF DueUntil, Earliest, Owned, Transferred
  <2>3. Position'
        BY <1>1, <1>7, <2>1, <2>2, QuietInv
  <2>4. ChainInOrder'
        BY <1>1, <1>7, <2>1, <2>2 DEF ChainInOrder, DictatorHasAll, liveDeployer
  <2> QED
      BY <2>1, <2>3, <2>4
<1>8. CASE tx = "phase1" /\ phase1(sender) /\ UNCHANGED paused
  <2>1. /\ currentStep = 1 /\ ~finalized /\ currentStep' = 3 /\ implementation'["PatexPortal"] = BEDROCK
        /\ UNCHANGED <<config, owner, dynamicConfigSet, finalized, exited>>
        BY <1>1, <1>8 DEF phase1, MayPhase1, AtStep, flags, ChainInOrder, Proxies
  <2>2. DictatorHasAll' /\ DictatorHasAll
        BY <1>1, <1>8, <2>1 DEF ChainInOrder, DictatorHasAll
  <2>3. \A t \in sent' : currentStep' >= Earliest(t)
        BY <1>1, <1>3, <2>1
  <2>4. ChainInOrder'
        BY <1>1, <1>8, <2>1, <2>2, <2>3 DEF ChainInOrder, liveDeployer
  <2>5. block \notin Scripts021
        BY <1>1, <2>1 DEF At021, Scripts021, Earliest, Owned, Transferred
  <2>6. At020'
        BY <1>1, <2>1, <2>2 DEF At020, Dealt, DictatorHasAll, Owned, Transferred
  <2>7. Underway'
    <3>1. Code("phase1").until'
          BY <2>1, DueAndUntilNext DEF DueUntil
    <3> QED
        BY <1>1, <2>5, <3>1 DEF Underway, Transactions, Scripts021, Owned, Transferred
  <2> QED
      BY <1>1, <2>1, <2>4, <2>5, <2>6, <2>7 DEF Position, At021
<1>9. CASE tx = "step3" /\ step3(sender) /\ UNCHANGED paused
  <2>1. /\ currentStep = 3 /\ ~finalized /\ currentStep' = 4
        /\ UNCHANGED <<config, owner, implementation, dynamicConfigSet, finalized, exited>>
        BY <1>1, <1>9 DEF step3, MayStep3, AtStep, EXIT_1_NO_RETURN_STEP, flags
  <2>2. \A t \in sent' : currentStep' >= Earliest(t)
        BY <1>1, <1>3, <2>1
  <2>3. ChainInOrder'
        BY <1>1, <1>9, <2>1, <2>2 DEF ChainInOrder, liveDeployer, DictatorHasAll
  <2>4. block \notin Scripts020 /\ (block \in Scripts021 => block = "step3")
        BY <1>1, <1>9, <2>1 DEF At020, At021, Scripts021, Earliest, Owned, Transferred
  <2>5. At021'
        BY <1>1, <2>1, <2>4 DEF At021, Earliest, Owned, Transferred
  <2>6. Underway'
    <3>1. Code("step3").until'
          BY <2>1, DueAndUntilNext DEF DueUntil
    <3> QED
        BY <1>1, <2>4, <3>1 DEF Underway, Transactions, Scripts020, Scripts021, Owned, Transferred
  <2> QED
      BY <1>1, <2>1, <2>3, <2>4, <2>5, <2>6 DEF Position, At020
<1>10. CASE tx = "step4" /\ step4(sender) /\ UNCHANGED paused
  <2>1. /\ currentStep = 4 /\ ~finalized /\ currentStep' = 5 /\ owner' = HandedTo(PROXY_ADMIN)
        /\ UNCHANGED <<config, implementation, dynamicConfigSet, finalized, exited>>
        BY <1>1, <1>10 DEF step4, MayStep4, AtStep, PROXY_TRANSFER_STEP, flags
  <2>2. \A t \in sent' : currentStep' >= Earliest(t)
        BY <1>1, <1>3, <2>1
  <2>3. owner'["ProxyAdmin"] = DICTATOR
        BY <1>1, <1>3, <2>1 DEF ChainInOrder, DictatorHasAll, HandedTo, Transferred
  <2>4. ChainInOrder'
        BY <1>1, <1>10, <2>1, <2>2, <2>3 DEF ChainInOrder, liveDeployer
  <2>5. block \notin Scripts020 /\ (block \in Scripts021 => block = "step4" \/ (block = "step3" /\ stage = "due"))
    <3>1. block \in Scripts021 => block \in {"step3", "step4"}
          BY <1>1, <2>1 DEF At021, Scripts021, Earliest, Owned, Transferred
    <3>2. block = "step3" => stage = "due"
          BY <1>1, <1>10 DEF At021, Scripts021
    <3>3. block \notin Scripts020
          BY <1>1, <2>1 DEF At020
    <3> QED
        BY <3>1, <3>2, <3>3
  <2>6. At021'
        BY <1>1, <2>1, <2>5 DEF At021, Earliest, Owned, Transferred
  <2>7. Underway'
    <3>1. Code("step4").until'
          BY <2>1, DueAndUntilNext DEF DueUntil
    <3> QED
        BY <1>1, <2>5, <3>1 DEF Underway, Transactions, Scripts020, Scripts021, Owned, Transferred
  <2> QED
      BY <1>1, <2>1, <2>4, <2>5, <2>6, <2>7 DEF Position, At020
<1>11. CASE tx = "step5" /\ step5(sender) /\ UNCHANGED paused
  <2>1. /\ currentStep = 5 /\ ~finalized /\ currentStep' = 6 /\ implementation'["PatexPortal"] = BEDROCK
        /\ UNCHANGED <<config, owner, dynamicConfigSet, finalized, exited>>
        BY <1>1, <1>11 DEF step5, MayStep5, AtStep, flags, ChainInOrder, Proxies, Upgraded
  <2>2. \A t \in sent' : currentStep' >= Earliest(t)
        BY <1>1, <1>3, <2>1
  <2>3. ChainInOrder'
        BY <1>1, <1>11, <2>1, <2>2 DEF ChainInOrder, liveDeployer
  <2>4. block \notin Scripts020 /\ (block \in {"step3", "step4"} => stage = "due")
        BY <1>1, <1>11, <2>1 DEF At020, At021, Scripts021, Earliest, Owned, Transferred
  <2>5. At021'
        BY <1>1, <2>1, <2>4 DEF At021, Scripts021, Earliest, Owned, Transferred
  <2>6. Underway'
    <3>1. block \in Transactions \ Owned /\ stage \in {"mining", "await"} =>
            block \in {"updateDynamicConfig", "step5", "unpause", "finalize"}
          BY <2>4 DEF Transactions, Scripts020
    <3>2. Code("step5").until'
          BY <2>1, DueAndUntilNext DEF DueUntil
    <3>3. block \in {"updateDynamicConfig", "unpause", "finalize"} => (Code(block).until => Code(block).until')
      <4>1. /\ Code("updateDynamicConfig").until <=> dynamicConfigSet
            /\ Code("unpause").until <=> ~paused
            /\ Code("finalize").until <=> finalized
            BY DueAndUntil DEF DueUntil
      <4>2. /\ Code("updateDynamicConfig").until' <=> dynamicConfigSet'
            /\ Code("unpause").until' <=> ~paused'
            /\ Code("finalize").until' <=> finalized'
            BY DueAndUntilNext DEF DueUntil
      <4>3. (dynamicConfigSet' <=> dynamicConfigSet) /\ (paused' <=> paused) /\ (finalized' <=> finalized)
            BY <1>11, <2>1
      <4>4. ASSUME NEW b \in {"updateDynamicConfig", "unpause", "finalize"}, block = b, Code(b).until
            PROVE  Code(b).until'
            BY <4>1, <4>2, <4>3, <4>4
      <4> QED
          BY <1>1, <4>4
    <3> QED
        BY <1>1, <1>11, <3>1, <3>2, <3>3 DEF Underway
  <2> QED
      BY <1>1, <2>1, <2>3, <2>4, <2>5, <2>6 DEF Position, At020
<1> QED
    BY <1>2, <1>4, <1>5, <1>6, <1>7, <1>8, <1>9, <1>10, <1>11 DEF Perform

\* What reverts was done by another one like it.
LEMMA RevertInv ==
  ASSUME WaitingInv, ~exited, NEW tx \in Transactions, Revert(tx)
  PROVE  ChainInOrder' /\ Position'
<1>1. /\ liveDeployer /\ tx \in sent /\ ~Succeeds(deployer, tx) /\ sent' = sent \ {tx}
      /\ UNCHANGED <<config, owner, implementation, currentStep, dynamicConfigSet, finalized, deployer,
                     paused, block, stage, needsProxyTransfer>>
      /\ ChainInOrder /\ At021 /\ block \in BlockNames \cup {"idle"}
      BY DEF Revert, dictatorVars, flags, localVars, WaitingInv, ScriptsTypeOK
<1>2. ChainInOrder'
      BY <1>1 DEF ChainInOrder, DictatorHasAll, liveDeployer
<1>3. currentStep <= 4 /\ tx \in Owned => owner[tx] = DICTATOR
      BY <1>1 DEF ChainInOrder, Succeeds
<1>4. ASSUME block = tx, block \in Transactions \ Owned, ~Code(block).until, stage \in {"mining", "await"}
      PROVE  FALSE
  <2>1. block \in BlockNames
        BY <1>4, BlocksAre DEF Transactions, Scripts020, Scripts021
  <2>2. Succeeds(IF block = "unpause" THEN deployer ELSE config.controller, block)
        BY <1>4, <2>1, WouldSucceed
  <2> QED
      BY <1>1, <1>4, <2>2 DEF liveDeployer
<1>5. Position'
  <2>1. currentStep <= 4 => \A c \in Owned : owner[c] = DICTATOR \/ c = tx => owner'[c] = DICTATOR
        BY <1>1, <1>3
  <2> QED
      BY <1>1, <1>4, <2>1, QuietInv
<1> QED
    BY <1>2, <1>5

\* A migration that was called off stays so.
LEMMA ExitedForGood ==
  ASSUME exited \in BOOLEAN, exited, [DictatorNext]_dictatorVars
  PROVE  exited'
<1>1. CASE UNCHANGED dictatorVars
      BY <1>1 DEF dictatorVars, flags
<1>2. ASSUME NEW sender \in People,
             \/ updateDynamicConfig(sender) \/ phase1(sender) \/ step1(sender) \/ step2(sender)
             \/ step3(sender) \/ step4(sender) \/ step5(sender) \/ finalize(sender)
             \/ exit1(sender) \/ upgradePortal(sender) \/ \E c \in Owned : transferToDictator(sender, c)
      PROVE  exited'
      BY <1>2 DEF updateDynamicConfig, phase1, step1, step2, step3, step4, step5, finalize, exit1,
                  upgradePortal, transferToDictator, flags
<1>3. CASE legacyDeposit \/ legacyWithdrawal
      BY <1>3 DEF legacyDeposit, legacyWithdrawal, flags
<1> QED
    BY <1>1, <1>2, <1>3 DEF DictatorNext

\* A script stays at one of its blocks, and sends what is one of the transactions.
LEMMA ScriptsTypes ==
  ASSUME ScriptsTypeOK, ~both, Procedure = "phases", [ScriptsNext]_allVars
  PROVE  ScriptsTypeOK' /\ ~both'
<1> USE DEF ScriptsTypeOK
<1>1. \A b \in BlockNames : After(b) \in BlockNames \cup {"idle"}
      BY AfterIs, BlocksAre DEF Scripts020, Scripts021
<1>2. /\ {"ProxyAdmin", "step3"} \subseteq BlockNames /\ "finalize" \in Transactions
      /\ \A b \in BlockNames : ~OnlyWaits(b) => b \in Transactions
      BY BlocksAre DEF Scripts020, Scripts021, Transactions, Owned, Transferred, OnlyWaits
<1>3. ASSUME NEW b, ReadsStep(b) PROVE needsProxyTransfer' \in BOOLEAN
  <2>1. BeforeTransfer \in BOOLEAN
        BY DEF BeforeTransfer
  <2> QED
      BY <1>3, <2>1, Zenon DEF ReadsStep
<1>4. CASE UNCHANGED allVars
      BY <1>4 DEF allVars, scriptVars, localVars
<1>5. CASE Start
      BY <1>2, <1>5 DEF Start, GoTo, chainUnchanged, Stages
<1>6. CASE Skip
      BY <1>1, <1>3, <1>6 DEF Skip, At, GoTo, chainUnchanged, Stages
<1>7. CASE Send
      BY <1>2, <1>7 DEF Send, At, chainUnchanged, Stages
<1>8. ASSUME At("mining") \/ At("due"), AfterSending(block)
      PROVE  block' \in BlockNames \cup {"idle"} /\ stage' \in Stages /\ needsProxyTransfer' \in BOOLEAN
      BY <1>1, <1>3, <1>8 DEF AfterSending, At, GoTo, Stages
<1>9. CASE Mined
      BY <1>8, <1>9 DEF Mined, chainUnchanged
<1>10. CASE Ask
      BY <1>2, <1>8, <1>10 DEF Ask, At, chainUnchanged
<1>11. CASE WaitOnly \/ Awaited
      BY <1>11 DEF WaitOnly, Awaited, chainUnchanged, Stages
<1>12. CASE Checked
      BY <1>1, <1>12 DEF Checked, At, GoTo, chainUnchanged, Stages
<1>13. CASE Throw \/ GiveUp
      BY <1>13 DEF Throw, GiveUp, End, GoTo, chainUnchanged, Stages
<1>14. CASE Kill
      BY <1>14, ScriptsAssumption DEF Kill, End, GoTo, chainUnchanged, Stages
<1>15. CASE CallOff
      BY <1>2, <1>15 DEF CallOff, localVars
<1>16. ASSUME NEW tx \in Transactions, Mine(tx) \/ Revert(tx) PROVE ScriptsTypeOK' /\ ~both'
  <2>1. /\ UNCHANGED <<deployer, localVars, kills>> /\ sent' \subseteq sent
        BY <1>16 DEF Mine, Revert
  <2>2. paused' \in BOOLEAN
    <3>1. CASE Revert(tx)
          BY <3>1 DEF Revert
    <3>2. CASE Mine(tx)
      <4>1. PICK sender \in People : Perform(sender, tx)
            BY <3>2 DEF Mine
      <4> QED
          BY <4>1 DEF Perform, unpause
    <3> QED
        BY <1>16, <3>1, <3>2
  <2> QED
      BY <2>1, <2>2 DEF localVars
<1>17. CASE LegacyUse
      BY <1>17 DEF LegacyUse, scriptVars, localVars
<1> QED
    BY <1>4, <1>5, <1>6, <1>7, <1>9, <1>10, <1>11, <1>12, <1>13, <1>14, <1>15, <1>16, <1>17
    DEF ScriptsNext, Script

\* Every step keeps what is known of the scripts and of the chain.
LEMMA WaitingStep ==
  ASSUME WaitingInv, Procedure = "phases", [ScriptsNext]_allVars
  PROVE  WaitingInv'
<1>1. [DictatorNext]_dictatorVars /\ MigrationInv' /\ ScriptsTypeOK' /\ ~both' /\ exited \in BOOLEAN
      BY ScriptsOnlySend, MigrationStep, ScriptsTypes
      DEF WaitingInv, ScriptsTypeOK, MigrationInv, DictatorTypeOK
<1>2. exited => exited'
      BY <1>1, ExitedForGood
<1> SUFFICES ASSUME ~exited PROVE exited' \/ (ChainInOrder' /\ Position')
    BY <1>1, <1>2 DEF WaitingInv, Position
<1>3. ChainInOrder /\ Position
      BY DEF WaitingInv, Position
<1>4. CASE UNCHANGED allVars \/ LegacyUse
  <2>1. /\ UNCHANGED <<config, owner, implementation, currentStep, dynamicConfigSet, finalized>>
        /\ UNCHANGED <<deployer, paused, block, stage, needsProxyTransfer, sent>>
    <3>1. CASE UNCHANGED allVars
          BY <3>1 DEF allVars, dictatorVars, flags, scriptVars, localVars
    <3>2. CASE LegacyUse
          BY <3>2 DEF LegacyUse, legacyDeposit, legacyWithdrawal, flags, scriptVars, localVars
    <3> QED
        BY <1>4, <3>1, <3>2
  <2>2. ChainInOrder'
        BY <1>3, <2>1 DEF ChainInOrder, DictatorHasAll, liveDeployer
  <2>3. At020' /\ At021'
        BY <1>3, <2>1 DEF Position, At020, At021, DictatorHasAll
  <2>4. Underway'
    <3>1. block \in Transactions \ Owned => (Code(block).until <=> Code(block).until')
          BY <2>1, DueAndUntil, DueAndUntilNext DEF DueUntil, Transactions
    <3> QED
        BY <1>3, <2>1, <3>1 DEF Position, Underway
  <2> QED
      BY <2>2, <2>3, <2>4 DEF Position
<1>5. CASE Start \/ Skip \/ Send \/ Mined \/ Ask
      BY <1>5, StartInv, SkipInv, SendInv, MinedInv, AskInv
<1>6. CASE WaitOnly \/ Awaited \/ Checked
      BY <1>6, WaitOnlyInv, AwaitedInv, CheckedInv
<1>7. CASE Throw \/ GiveUp \/ Kill
      BY <1>3, <1>7, EndInv DEF Throw, GiveUp, Kill
<1>8. CASE CallOff
      BY <1>8 DEF CallOff, exit1
<1>9. ASSUME NEW tx \in Transactions, Mine(tx) \/ Revert(tx) PROVE ChainInOrder' /\ Position'
      BY <1>9, MineInv, RevertInv
<1> QED
    BY <1>4, <1>5, <1>6, <1>7, <1>8, <1>9 DEF ScriptsNext, Script

\* It holds where the scripts begin.
LEMMA WaitingStart == ScriptsInit => WaitingInv
<1> SUFFICES ASSUME ScriptsInit PROVE WaitingInv
    OBVIOUS
<1> USE DEF ScriptsInit
<1>1. MigrationInv
      BY ScriptsStart
<1>2. ScriptsTypeOK /\ ~both
  <2>1. /\ deployer \in People /\ paused \in BOOLEAN /\ block = "idle" /\ stage = "due"
        /\ both = FALSE /\ needsProxyTransfer = FALSE /\ sent = {} /\ kills = 0
        OBVIOUS
  <2>2. ~both /\ both \in BOOLEAN /\ needsProxyTransfer \in BOOLEAN
        BY ONLY <2>1, Zenon
  <2>3. kills \in 0 .. MaxKills /\ sent \subseteq Transactions /\ stage \in Stages
        BY ONLY <2>1, ScriptsAssumption DEF Stages
  <2> QED
      BY ONLY <2>1, <2>2, <2>3 DEF ScriptsTypeOK
<1>3. implementation["PatexPortal"] = BEDROCK
  <2>1. CASE implementation = [Fresh EXCEPT !["PatexPortal"] = BEDROCK]
        BY <2>1 DEF Fresh, Proxies
  <2>2. CASE implementation = [Legacy EXCEPT !["PatexPortal"] = BEDROCK]
        BY <2>2 DEF Fresh, Legacy, Proxies
  <2> QED
      BY <2>1, <2>2
<1>4. ChainInOrder
      BY <1>3 DEF ChainInOrder
<1>5. At020 /\ At021 /\ Underway
      BY DEF At020, At021, Underway, Scripts020, Scripts021, Transactions, Owned, Transferred
<1> QED
    BY <1>1, <1>2, <1>4, <1>5 DEF WaitingInv

\* When phase 1 and phase 2 are run one after the other, a script that waits, waits
\* for something that was sent or asked for and would succeed: however often runs
\* are killed, throw or time out, and however late or often people send what they
\* were asked for (doStep and doPhase of src/deploy-utils.ts, deploy/020 and 021).
THEOREM NothingIsAwaitedInVain ==
  ASSUME Procedure = "phases"
  PROVE  ScriptsSpec => []NeverWaitsInVain
<1>1. WaitingInv /\ [ScriptsNext]_allVars => WaitingInv'
      BY WaitingStep
<1> QED
    BY <1>1, WaitingStart, WaitingIsNotInVain, PTL DEF ScriptsSpec
=============================================================================
