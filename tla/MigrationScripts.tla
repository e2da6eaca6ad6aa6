---------------------------- MODULE MigrationScripts ----------------------------
(***************************************************************************)
(* deploy/020-SystemDictatorSteps-1.ts and 021-SystemDictatorSteps-2.ts,    *)
(* with the helpers of src/deploy-utils.ts: the scripts an operator runs to *)
(* take a network through SystemDictator.tla.                               *)
(*                                                                          *)
(* A script is a list of blocks.  A block looks whether it is due, sends or *)
(* prints a transaction, waits for a condition and asserts that all is      *)
(* well.  If the deployer has the controller's key the script sends; else   *)
(* it prints, and people send what they were asked for, sometime.  A script *)
(* throws, runs out of patience or is killed, and is started again: it      *)
(* keeps nothing, and finds its place by reading the chain.                 *)
(***************************************************************************)
EXTENDS SystemDictator, Sequences

CONSTANTS
  Procedure,  \* what the operator runs: "phases" by tag, or "SystemDictatorSteps"
  MaxKills    \* bound on runs killed by something else than their own code

ASSUME ScriptsAssumption ==
  /\ Procedure \in {"phases", "SystemDictatorSteps"}
  /\ MaxKills \in Nat

VARIABLES
  deployer,           \* whose key the scripts have
  paused,             \* of the portal
  block, stage,       \* where the script is; "idle" if none runs
  both,               \* phase 2 follows in the same run
  needsProxyTransfer, \* the local variable of 020
  sent,               \* transactions in the mempool, or asked of people
  kills

localVars == <<block, stage, both, needsProxyTransfer>>
scriptVars == <<deployer, paused, localVars, sent, kills>>
allVars == <<dictatorVars, scriptVars>>

\* As file names order them, and in each file as the code does: 020 ends with
\* phase1.
Blocks == <<"ProxyAdmin", "AddressManager", "L1StandardBridge", "L1ERC721Bridge", "owners",
            "phase1", "step3", "step4", "updateDynamicConfig", "step5", "unpause", "finalize">>

Transactions == Owned \cup {"phase1", "step3", "step4", "updateDynamicConfig", "step5",
                            "unpause", "finalize"}
BlockNames == {Blocks[i] : i \in DOMAIN Blocks}

\* "off" where no script is run at all.
Stages == {"due", "mining", "await", "checks", "off"}

liveDeployer == deployer = config.controller

ScriptsTypeOK ==
  /\ deployer \in People
  /\ paused \in BOOLEAN
  /\ block \in BlockNames \cup {"idle"}
  /\ stage \in Stages
  /\ both \in BOOLEAN
  /\ needsProxyTransfer \in BOOLEAN
  /\ sent \subseteq Transactions
  /\ kills \in 0 .. MaxKills

\* deploy/231 has installed the portal while ProxyAdmin was the deployer's; who
\* deploys a production network may have paused it.
ScriptsInit ==
  /\ config \in [controller : People, finalOwner : People]
  /\ deployer \in People
  /\ owner = [c \in Owned |-> deployer]
  /\ implementation \in {[Fresh EXCEPT !["PatexPortal"] = BEDROCK],
                         [Legacy EXCEPT !["PatexPortal"] = BEDROCK]}
  /\ proxyType = [p \in Proxies |-> "ERC1967"]
  /\ deprecated = (implementation["L1CrossDomainMessenger"] = LEGACY)
  /\ shutoff = FALSE
  /\ currentStep = 1
  /\ dynamicConfigSet = FALSE
  /\ finalized = FALSE
  /\ exited = FALSE
  /\ oldL1CrossDomainMessenger = NONE
  /\ owed = IF deprecated THEN MaxEther ELSE 0
  /\ ether = [p \in {"L1StandardBridge", "PatexPortal"} |->
                IF p = "L1StandardBridge" THEN owed ELSE 0]
  /\ paused \in BOOLEAN
  /\ liveDeployer => ~paused
  /\ block = "idle" /\ stage = "due" /\ both = FALSE /\ needsProxyTransfer = FALSE
  /\ sent = {}
  /\ kills = 0

-----------------------------------------------------------------------------
(* Transactions *)

\* The portal is its guardian's; the scripts take the deployer for it.
unpause(sender) ==
  /\ sender = deployer
  /\ paused' = FALSE
  /\ UNCHANGED dictatorVars

Perform(sender, tx) ==
  \/ tx = "unpause" /\ unpause(sender)
  \/ /\ UNCHANGED paused
     /\ \/ tx \in Owned /\ transferToDictator(sender, tx)
        \/ tx = "phase1" /\ phase1(sender)
        \/ tx = "step3" /\ step3(sender)
        \/ tx = "step4" /\ step4(sender)
        \/ tx = "updateDynamicConfig" /\ updateDynamicConfig(sender)
        \/ tx = "step5" /\ step5(sender)
        \/ tx = "finalize" /\ finalize(sender)

\* What gas is estimated for: the transaction would not revert.
Succeeds(sender, tx) ==
  \/ tx = "unpause" /\ sender = deployer
  \/ tx \in Owned /\ owner[tx] = sender
  \/ tx = "phase1" /\ MayPhase1(sender)
  \/ tx = "step3" /\ MayStep3(sender)
  \/ tx = "step4" /\ MayStep4(sender)
  \/ tx = "updateDynamicConfig" /\ OnlyOwner(sender)
  \/ tx = "step5" /\ MayStep5(sender)
  \/ tx = "finalize" /\ MayFinalize(sender)

\* What the deployer sent is mined once; what people were asked for they send
\* when it works, late, and perhaps again.
Mine(tx) ==
  /\ tx \in sent
  /\ \/ liveDeployer /\ Perform(deployer, tx) /\ sent' = sent \ {tx}
     \/ ~liveDeployer /\ (\E sender \in People : Perform(sender, tx)) /\ UNCHANGED sent
  /\ UNCHANGED <<deployer, localVars, kills>>

\* Mined, but another one like it was before it: the scripts do not look at the
\* status of a receipt.
Revert(tx) ==
  /\ liveDeployer
  /\ tx \in sent
  /\ ~Succeeds(deployer, tx)
  /\ sent' = sent \ {tx}
  /\ UNCHANGED <<dictatorVars, deployer, paused, localVars, kills>>

\* "If you need to restart the system, run exit1() followed by finalize()."  Not
\* while 020 still hands things over.
CallOff ==
  /\ block \in {"idle", "step3"}
  /\ \E sender \in People : exit1(sender)
  /\ ~exited
  /\ sent' = sent \cup {"finalize"}
  /\ UNCHANGED <<deployer, paused, localVars, kills>>

-----------------------------------------------------------------------------
(* The blocks: when there is something to do, what is waited for, and what is *)
(* asserted then                                                              *)

isStep(n) == currentStep = n

phaseToStep == <<1, 3, 6>>

isStartOfPhase(n) == currentStep = phaseToStep[n]

BeforeTransfer == currentStep <= PROXY_TRANSFER_STEP

Transfer(c) ==
  [due    |-> owner[c] # DICTATOR /\ (c = "ProxyAdmin" \/ needsProxyTransfer),
   until  |-> TRUE,
   checks |-> TRUE]

OwnersBlock ==
  [due    |-> TRUE,
   until  |-> \A c \in Owned : owner[c] = DICTATOR,
   checks |-> TRUE]

doPhase(n, checks) ==
  [due |-> isStartOfPhase(n), until |-> isStartOfPhase(n + 1), checks |-> checks]

\* Bug: waiting for the step to begin and not to end.
doStep_Same(n, checks) == [due |-> isStep(n), until |-> isStep(n), checks |-> checks]

doStep(n, checks) == [due |-> isStep(n), until |-> isStep(n + 1), checks |-> checks]

Phase1Checks ==
  /\ \A p \in Proxies : proxyType[p] = Kind(p)
  /\ implementation["SystemConfig"] = BEDROCK
  /\ implementation["L1CrossDomainMessenger"] = NONE

Step3Checks == ~deprecated

Step4Checks ==
  owner["AddressManager"] = PROXY_ADMIN /\ owner["L1StandardBridge"] = PROXY_ADMIN

DynamicConfigBlock ==
  [due    |-> isStep(5) /\ ~dynamicConfigSet,
   until  |-> dynamicConfigSet,
   checks |-> TRUE]

\* The ERC721 bridge has it from its constructor; the standard bridge would have it
\* from an initializer, which step 5 does not call.
Messenger == [L1ERC721Bridge |-> "L1CrossDomainMessenger", L1StandardBridge |-> NONE]

Step5Checks ==
  /\ \A b \in DOMAIN Messenger : Messenger[b] = "L1CrossDomainMessenger"
  /\ \A p \in Upgraded \cup {"PatexPortal"} : implementation[p] = BEDROCK
  /\ ether["L1StandardBridge"] = 0
  /\ paused = ~liveDeployer

\* Bug: the last part is for the step after the last.
UnpauseBlock_OffByOne == [due |-> isStep(7), until |-> ~paused, checks |-> ~paused]

UnpauseBlock == [due |-> isStep(6), until |-> ~paused, checks |-> ~paused]

FinalizeBlock ==
  [due    |-> TRUE,
   until  |-> finalized,
   checks |-> owner["ProxyAdmin"] = config.finalOwner]

Code(b) ==
  CASE b \in Owned -> Transfer(b)
    [] b = "owners" -> OwnersBlock
    [] b = "phase1" -> doPhase(1, Phase1Checks)
    [] b = "step3" -> doStep(3, Step3Checks)
    [] b = "step4" -> doStep(4, Step4Checks)
    [] b = "updateDynamicConfig" -> DynamicConfigBlock
    [] b = "step5" -> doStep(5, Step5Checks)
    [] b = "unpause" -> UnpauseBlock
    [] b = "finalize" -> FinalizeBlock

-----------------------------------------------------------------------------
(* The script *)

At(st) == block # "idle" /\ stage = st

chainUnchanged == UNCHANGED <<dictatorVars, deployer, paused>>

After(b) ==
  IF b = "finalize" \/ (b = "phase1" /\ ~both) THEN "idle"
  ELSE LET i == CHOOSE j \in DOMAIN Blocks : Blocks[j] = b IN Blocks[i + 1]

GoTo(b) == block' = b /\ stage' = "due"

\* Phase 1 until it is over, then phase 2; or both under the tag they share.
Start ==
  /\ block = "idle" /\ stage # "off"
  /\ ~exited
  /\ ~finalized
  /\ \/ Procedure = "phases" /\ both' = FALSE
          /\ GoTo(IF currentStep < 3 THEN "ProxyAdmin" ELSE "step3")
     \/ Procedure = "SystemDictatorSteps" /\ both' = TRUE /\ GoTo("ProxyAdmin")
  /\ UNCHANGED <<needsProxyTransfer, sent, kills>>
  /\ chainUnchanged

\* 020 reads currentStep after it has dealt with ProxyAdmin.
ReadsStep(b) ==
  needsProxyTransfer' = IF b = "ProxyAdmin" THEN BeforeTransfer ELSE needsProxyTransfer

\* "already completed", whatever the step.  021 ends if it is not at step 6.
Skip ==
  /\ At("due")
  /\ ~Code(block).due
  /\ ReadsStep(block)
  /\ GoTo(IF block = "unpause" THEN "idle" ELSE After(block))
  /\ UNCHANGED <<both, sent, kills>>
  /\ chainUnchanged

\* Blocks that only wait, or that only assert if the deployer is live.
OnlyWaits(b) == b = "owners" \/ (b = "unpause" /\ liveDeployer)

\* With the key: gas is estimated first, then the receipt waited for.
Send ==
  /\ At("due")
  /\ Code(block).due /\ ~OnlyWaits(block)
  /\ liveDeployer
  /\ Succeeds(deployer, block)
  /\ sent' = sent \cup {block}
  /\ stage' = "mining"
  /\ UNCHANGED <<block, both, needsProxyTransfer, kills>>
  /\ chainUnchanged

\* A transfer is not waited for: the block "owners" does.
AfterSending(b) ==
  IF b \in Owned THEN GoTo(After(b)) /\ ReadsStep(b)
  ELSE stage' = "await" /\ UNCHANGED <<block, needsProxyTransfer>>

Mined ==
  /\ At("mining")
  /\ block \notin sent
  /\ AfterSending(block)
  /\ UNCHANGED <<both, sent, kills>>
  /\ chainUnchanged

\* Without the key: somebody is asked to.
Ask ==
  /\ At("due")
  /\ Code(block).due /\ ~OnlyWaits(block)
  /\ ~liveDeployer
  /\ sent' = sent \cup {block}
  /\ AfterSending(block)
  /\ UNCHANGED <<both, kills>>
  /\ chainUnchanged

WaitOnly ==
  /\ At("due")
  /\ Code(block).due /\ OnlyWaits(block)
  /\ block = "unpause" => ~paused
  /\ stage' = "await"
  /\ UNCHANGED <<block, both, needsProxyTransfer, sent, kills>>
  /\ chainUnchanged

Awaited ==
  /\ At("await")
  /\ Code(block).until
  /\ stage' = "checks"
  /\ UNCHANGED <<block, both, needsProxyTransfer, sent, kills>>
  /\ chainUnchanged

Checked ==
  /\ At("checks")
  /\ Code(block).checks
  /\ GoTo(After(block))
  /\ UNCHANGED <<both, needsProxyTransfer, sent, kills>>
  /\ chainUnchanged

\* The code throws: a call that would revert, an assertion, a time-out.
Fails ==
  \/ /\ At("due") /\ Code(block).due /\ liveDeployer
     /\ IF OnlyWaits(block) THEN block = "unpause" /\ paused ELSE ~Succeeds(deployer, block)
  \/ At("checks") /\ ~Code(block).checks

TimesOut ==
  \/ At("mining") /\ block \in sent
  \/ At("await") /\ ~Code(block).until

End ==
  /\ GoTo("idle")
  /\ UNCHANGED <<both, needsProxyTransfer, sent>>
  /\ chainUnchanged

Throw == Fails /\ UNCHANGED kills /\ End

GiveUp == TimesOut /\ UNCHANGED kills /\ End

Kill ==
  /\ block # "idle"
  /\ kills < MaxKills
  /\ kills' = kills + 1
  /\ End

Script == Skip \/ Send \/ Mined \/ Ask \/ WaitOnly \/ Awaited \/ Checked \/ Throw

LegacyUse == (legacyDeposit \/ legacyWithdrawal) /\ UNCHANGED scriptVars

ScriptsNext ==
  \/ Start
  \/ Script
  \/ GiveUp
  \/ Kill
  \/ CallOff
  \/ \E tx \in Transactions : Mine(tx) \/ Revert(tx)
  \/ LegacyUse

\* A node process goes on, an operator tries again, transactions are mined and
\* people do what they are asked for.  Nobody has to use the legacy bridge, to
\* call the migration off or to be patient.
ScriptsFairness ==
  /\ WF_allVars(Start)
  /\ WF_allVars(Script)
  /\ \A tx \in Transactions : WF_allVars(Mine(tx)) /\ WF_allVars(Revert(tx))

ScriptsSpec == ScriptsInit /\ [][ScriptsNext]_allVars /\ ScriptsFairness

-----------------------------------------------------------------------------
(* Properties *)

\* A script that waits, waits for something that can still happen: what is
\* missing was sent or asked for, and works.  A script looks at the chain at one
\* moment and waits at another, and in between anything asked for earlier may
\* happen; were it to wait for a step that has gone by, only a time-out would
\* end the run.
Missing(b) == IF b = "owners" THEN {c \in Owned : owner[c] # DICTATOR} ELSE {b}

NeverWaitsInVain ==
  /\ ScriptsTypeOK
  /\ At("await") /\ ~Code(block).until /\ ~exited =>
       \A tx \in Missing(block) :
         tx \in sent /\ \E sender \in People : Succeeds(sender, tx)

\* All of Bedrock runs and ProxyAdmin is with its final owner.
Migrated ==
  /\ finalized
  /\ \A p \in Proxies : implementation[p] = BEDROCK
  /\ owner["ProxyAdmin"] = config.finalOwner
  /\ ~paused

\* However often runs are killed, throw or time out, and however late people do
\* what they were asked for, the network is migrated in the end, unless it is
\* called off; and then what was handed over is given back.
MigrationEnds ==
  /\ stage # "off" => <>(Migrated \/ exited)
  /\ exited /\ stage # "off" ~> (\A c \in Owned : owner[c] = config.finalOwner)
=============================================================================
