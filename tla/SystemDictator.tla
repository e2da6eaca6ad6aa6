---------------------------- MODULE SystemDictator ----------------------------
(***************************************************************************)
(* contracts/deployment/SystemDictator.sol: the migration of L1 to Bedrock  *)
(* in five steps, with universal/ProxyAdmin.sol and the proxies it works    *)
(* through: Proxy.sol, and of the legacy system L1ChugSplashProxy.sol,      *)
(* ResolvedDelegateProxy.sol and AddressManager.sol.                        *)
(*                                                                          *)
(* The deploy scripts (deploy/020, 021 and src/deploy-utils.ts) ask people  *)
(* to send transactions, or send them with a person's key.  A script may be *)
(* stopped and run again, and what it printed may be sent late, twice or    *)
(* not at all: here anybody sends any of these transactions at any time, if *)
(* the contracts let them.                                                  *)
(***************************************************************************)
EXTENDS Naturals

CONSTANTS
  People,
  DICTATOR, PROXY_ADMIN, \* the contracts, as owners of others
  MaxEther               \* bound on legacy ether

ASSUME DictatorAssumption ==
  /\ People # {}
  /\ DICTATOR \notin People
  /\ PROXY_ADMIN \notin People \cup {DICTATOR}
  /\ MaxEther \in Nat

Proxies == {"SystemConfig", "L2OutputOracle", "PatexPortal", "L1CrossDomainMessenger",
            "L1StandardBridge", "PatexMintableERC20Factory", "L1ERC721Bridge"}

\* What is handed to the dictator; the other proxies have been ProxyAdmin's
\* since they were deployed.
Transferred == {"AddressManager", "L1StandardBridge", "L1ERC721Bridge"}
Owned == Transferred \cup {"ProxyAdmin"}

NONE == "none"
LEGACY == "legacy"
BEDROCK == "bedrock"
Implementations == {NONE, LEGACY, BEDROCK}

EXIT_1_NO_RETURN_STEP == 3
PROXY_TRANSFER_STEP == 4

VARIABLES
  config,                \* controller and finalOwner
  owner,                 \* owner or admin of what is in Owned
  implementation,        \* the messenger's is an entry of the AddressManager
  proxyType,             \* of ProxyAdmin, with the name of the messenger's entry
  deprecated,            \* the legacy entries are in the AddressManager
  shutoff,               \* DTL_SHUTOFF_BLOCK is set
  currentStep, dynamicConfigSet, finalized, exited,
  oldL1CrossDomainMessenger,
  ether,                 \* of bridge and portal
  owed                   \* ether that belongs to users of L2

addressManagerVars == <<deprecated, shutoff>>
flags == <<dynamicConfigSet, finalized, exited>>
etherVars == <<ether, owed>>
dictatorVars == <<config, owner, implementation, proxyType, addressManagerVars, currentStep,
                  flags, oldL1CrossDomainMessenger, etherVars>>

DictatorTypeOK ==
  /\ config \in [controller : People, finalOwner : People]
  /\ owner \in [Owned -> People \cup {DICTATOR, PROXY_ADMIN}]
  /\ owner["ProxyAdmin"] # PROXY_ADMIN
  /\ implementation \in [Proxies -> Implementations]
  /\ proxyType \in [Proxies -> {"ERC1967", "CHUGSPLASH", "RESOLVED"}]
  /\ deprecated \in BOOLEAN
  /\ shutoff \in BOOLEAN
  /\ currentStep \in 1 .. 6
  /\ dynamicConfigSet \in BOOLEAN
  /\ finalized \in BOOLEAN
  /\ exited \in BOOLEAN
  /\ oldL1CrossDomainMessenger \in Implementations
  /\ ether \in [{"L1StandardBridge", "PatexPortal"} -> Nat]
  /\ owed \in Nat

\* Networks are upgraded, or fresh.  The deployer owns everything at first.
Fresh == [p \in Proxies |-> NONE]
Legacy == [Fresh EXCEPT !["L1CrossDomainMessenger"] = LEGACY, !["L1StandardBridge"] = LEGACY,
                        !["L1ERC721Bridge"] = LEGACY]

DictatorInit ==
  /\ config \in [controller : People, finalOwner : People]
  /\ \E deployer \in People : owner = [c \in Owned |-> deployer]
  /\ implementation \in {Fresh, Legacy}
  /\ proxyType = [p \in Proxies |-> "ERC1967"]
  /\ deprecated = (implementation = Legacy)
  /\ shutoff = FALSE
  /\ currentStep = 1
  /\ dynamicConfigSet = FALSE
  /\ finalized = FALSE
  /\ exited = FALSE
  /\ oldL1CrossDomainMessenger = NONE
  /\ owed \in IF implementation = Legacy THEN 0 .. MaxEther ELSE {0}
  /\ ether = [p \in {"L1StandardBridge", "PatexPortal"} |->
                IF p = "L1StandardBridge" THEN owed ELSE 0]

-----------------------------------------------------------------------------
(* ProxyAdmin and the proxies *)

\* The kind a proxy is of; a call for another kind ends in its implementation.
Kind(p) ==
  CASE p = "L1CrossDomainMessenger" -> "RESOLVED"
    [] p = "L1StandardBridge"       -> "CHUGSPLASH"
    [] OTHER                        -> "ERC1967"

AdminOf(p) ==
  CASE p = "L1CrossDomainMessenger" -> owner["AddressManager"]
    [] p \in Owned                  -> owner[p]
    [] OTHER                        -> PROXY_ADMIN

\* upgrade, when sent by someone.
MayUpgrade(sender, p) ==
  /\ owner["ProxyAdmin"] = sender
  /\ proxyType[p] = Kind(p)
  /\ AdminOf(p) = PROXY_ADMIN

-----------------------------------------------------------------------------
(* The dictator *)

OnlyOwner(sender) == sender = config.controller

\* Bug: a migration that was called off goes on.
AtStep_Exited(n) == ~finalized /\ currentStep = n

AtStep(n) ==
  /\ ~finalized
  /\ ~exited
  /\ currentStep = n

updateDynamicConfig(sender) ==
  /\ OnlyOwner(sender)
  /\ dynamicConfigSet' = TRUE
  /\ UNCHANGED <<config, owner, implementation, proxyType, addressManagerVars, currentStep,
                 finalized, exited, oldL1CrossDomainMessenger, etherVars>>

\* What step1 does, as a record of what it writes.
ProxyTypes ==
  [proxyType EXCEPT !["L1CrossDomainMessenger"] = "RESOLVED",
                    !["L1StandardBridge"] = "CHUGSPLASH"]

step1(sender) ==
  /\ OnlyOwner(sender)
  /\ AtStep(1)
  /\ MayUpgrade(DICTATOR, "SystemConfig")
  /\ proxyType' = ProxyTypes
  /\ implementation' = [implementation EXCEPT !["SystemConfig"] = BEDROCK]
  /\ currentStep' = currentStep + 1
  /\ UNCHANGED <<config, owner, addressManagerVars, flags, oldL1CrossDomainMessenger, etherVars>>

\* step2, in a transaction of its own or after step1 in phase1.
ShutDown ==
  /\ oldL1CrossDomainMessenger' = implementation["L1CrossDomainMessenger"]
  /\ shutoff' = TRUE

step2(sender) ==
  /\ OnlyOwner(sender)
  /\ AtStep(2)
  /\ owner["AddressManager"] = DICTATOR
  /\ ShutDown
  /\ implementation' = [implementation EXCEPT !["L1CrossDomainMessenger"] = NONE]
  /\ currentStep' = currentStep + 1
  /\ UNCHANGED <<config, owner, proxyType, deprecated, flags, etherVars>>

MayPhase1(sender) ==
  /\ OnlyOwner(sender)
  /\ AtStep(1)
  /\ MayUpgrade(DICTATOR, "SystemConfig")
  /\ owner["AddressManager"] = DICTATOR

phase1(sender) ==
  /\ MayPhase1(sender)
  /\ proxyType' = ProxyTypes
  /\ ShutDown
  /\ implementation' = [implementation EXCEPT !["SystemConfig"] = BEDROCK,
                                              !["L1CrossDomainMessenger"] = NONE]
  /\ currentStep' = currentStep + 2
  /\ UNCHANGED <<config, owner, deprecated, flags, etherVars>>

MayStep3(sender) ==
  OnlyOwner(sender) /\ AtStep(EXIT_1_NO_RETURN_STEP) /\ owner["AddressManager"] = DICTATOR

step3(sender) ==
  /\ MayStep3(sender)
  /\ deprecated' = FALSE
  /\ currentStep' = currentStep + 1
  /\ UNCHANGED <<config, owner, implementation, proxyType, shutoff, flags,
                 oldL1CrossDomainMessenger, etherVars>>

\* Ownership of what the dictator was given, but for ProxyAdmin itself.
HandedTo(party) == [c \in Owned |-> IF c \in Transferred THEN party ELSE owner[c]]

DictatorHoldsAll == \A c \in Transferred : owner[c] = DICTATOR

MayStep4(sender) == OnlyOwner(sender) /\ AtStep(PROXY_TRANSFER_STEP) /\ DictatorHoldsAll

step4(sender) ==
  /\ MayStep4(sender)
  /\ owner' = HandedTo(PROXY_ADMIN)
  /\ currentStep' = currentStep + 1
  /\ UNCHANGED <<config, implementation, proxyType, addressManagerVars, flags,
                 oldL1CrossDomainMessenger, etherVars>>

\* The proxies in the order of the code; the bridge's ether is sent while its
\* implementation is a PortalSender.
Upgraded == Proxies \ {"SystemConfig", "PatexPortal"}

Donated == [ether EXCEPT !["L1StandardBridge"] = 0,
                         !["PatexPortal"] = @ + ether["L1StandardBridge"]]

\* The portal is not upgraded here ("restaking commented"), but it is called.
MayStep5(sender) ==
  /\ OnlyOwner(sender)
  /\ AtStep(5)
  /\ dynamicConfigSet
  /\ \A p \in Upgraded : MayUpgrade(DICTATOR, p)
  /\ implementation["PatexPortal"] # NONE

step5(sender) ==
  /\ MayStep5(sender)
  /\ implementation' = [p \in Proxies |-> IF p \in Upgraded THEN BEDROCK ELSE implementation[p]]
  /\ ether' = Donated
  /\ currentStep' = currentStep + 1
  /\ UNCHANGED <<config, owner, proxyType, addressManagerVars, flags,
                 oldL1CrossDomainMessenger, owed>>

\* Bug: at the transfer step itself, nothing but ProxyAdmin is handed over.
StillHeld_OffByOne == currentStep < PROXY_TRANSFER_STEP

StillHeld == currentStep <= PROXY_TRANSFER_STEP

\* Whatever the step, and as often as ProxyAdmin is the dictator's.
MayFinalize(sender) ==
  OnlyOwner(sender) /\ owner["ProxyAdmin"] = DICTATOR /\ (StillHeld => DictatorHoldsAll)

finalize(sender) ==
  /\ MayFinalize(sender)
  /\ owner' = [(IF StillHeld THEN HandedTo(config.finalOwner) ELSE owner)
                 EXCEPT !["ProxyAdmin"] = config.finalOwner]
  /\ finalized' = TRUE
  /\ UNCHANGED <<config, implementation, proxyType, addressManagerVars, currentStep,
                 dynamicConfigSet, exited, oldL1CrossDomainMessenger, etherVars>>

exit1(sender) ==
  /\ OnlyOwner(sender)
  /\ currentStep = EXIT_1_NO_RETURN_STEP
  /\ owner["AddressManager"] = DICTATOR
  /\ implementation' = [implementation EXCEPT !["L1CrossDomainMessenger"] =
                                                 oldL1CrossDomainMessenger]
  /\ shutoff' = FALSE
  /\ exited' = TRUE
  /\ UNCHANGED <<config, owner, proxyType, deprecated, currentStep, dynamicConfigSet, finalized,
                 oldL1CrossDomainMessenger, etherVars>>

-----------------------------------------------------------------------------
(* What the scripts ask of the owners before and after *)

\* doOwnershipTransfer: an owner hands a contract to the dictator.
transferToDictator(sender, c) ==
  /\ owner[c] = sender
  /\ owner' = [owner EXCEPT ![c] = DICTATOR]
  /\ UNCHANGED <<config, implementation, proxyType, addressManagerVars, currentStep, flags,
                 oldL1CrossDomainMessenger, etherVars>>

\* upgradeAndCall of the portal (deploy/231), by whoever owns ProxyAdmin.
upgradePortal(sender) ==
  /\ MayUpgrade(sender, "PatexPortal")
  /\ implementation' = [implementation EXCEPT !["PatexPortal"] = BEDROCK]
  /\ UNCHANGED <<config, owner, proxyType, addressManagerVars, currentStep, flags,
                 oldL1CrossDomainMessenger, etherVars>>

\* Users of the legacy bridge, which sends and is called by the messenger.
LegacyInUse ==
  /\ implementation["L1CrossDomainMessenger"] = LEGACY
  /\ implementation["L1StandardBridge"] = LEGACY

legacyDeposit ==
  /\ LegacyInUse
  /\ owed < MaxEther
  /\ owed' = owed + 1
  /\ ether' = [ether EXCEPT !["L1StandardBridge"] = @ + 1]
  /\ UNCHANGED <<config, owner, implementation, proxyType, addressManagerVars, currentStep,
                 flags, oldL1CrossDomainMessenger>>

legacyWithdrawal ==
  /\ LegacyInUse
  /\ owed > 0
  /\ ether["L1StandardBridge"] > 0
  /\ owed' = owed - 1
  /\ ether' = [ether EXCEPT !["L1StandardBridge"] = @ - 1]
  /\ UNCHANGED <<config, owner, implementation, proxyType, addressManagerVars, currentStep,
                 flags, oldL1CrossDomainMessenger>>

DictatorNext ==
  \/ \E sender \in People :
       \/ updateDynamicConfig(sender)
       \/ phase1(sender)
       \/ step1(sender)
       \/ step2(sender)
       \/ step3(sender)
       \/ step4(sender)
       \/ step5(sender)
       \/ finalize(sender)
       \/ exit1(sender)
       \/ upgradePortal(sender)
       \/ \E c \in Owned : transferToDictator(sender, c)
  \/ legacyDeposit
  \/ legacyWithdrawal

DictatorSpec == DictatorInit /\ [][DictatorNext]_dictatorVars
-----------------------------------------------------------------------------
(* Properties *)

\* No contract is lost, whatever is called, repeated or left out.  What the
\* dictator owns it can still give away: ProxyAdmin by finalize at any time, the
\* rest as long as finalize and step4 do so.  What ProxyAdmin owns is what it
\* knows how to operate, and nothing is in its hands too early.
NothingStranded ==
  /\ \A c \in Transferred : owner[c] = DICTATOR => StillHeld \/ AtStep(PROXY_TRANSFER_STEP)
  /\ \A c \in Transferred : owner[c] = PROXY_ADMIN <=> currentStep > PROXY_TRANSFER_STEP
  /\ currentStep > 1 => \A p \in Proxies : proxyType[p] = Kind(p)

\* The messenger runs only as part of a system that is complete.  The legacy one
\* has its entries, its bridge, no mark to stop, and the ether its users own;
\* the new one has every other contract and has taken over that ether.  In
\* between it is off, whether the migration goes on, is called off or is ended
\* by finalize at any step.
OneSystemAtATime ==
  /\ DictatorTypeOK
  /\ implementation["L1CrossDomainMessenger"] = LEGACY =>
       /\ deprecated
       /\ ~shutoff
       /\ implementation["L1StandardBridge"] = LEGACY
       /\ ether["L1StandardBridge"] = owed
  /\ implementation["L1CrossDomainMessenger"] = BEDROCK =>
       /\ \A p \in Proxies : implementation[p] = BEDROCK
       /\ ether["L1StandardBridge"] = 0
       /\ ether["PatexPortal"] = owed
=============================================================================
