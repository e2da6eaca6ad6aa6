---------------------------- MODULE DeployScripts ----------------------------
(***************************************************************************)
(* The scripts of deploy/ other than 020 and 021 (MigrationScripts.tla), and *)
(* deploy of src/deploy-utils.ts, as hardhat-deploy runs them on a network:  *)
(* those with one of the tags asked for, or all if none is, in the order of   *)
(* their names, until one throws.                                            *)
(*                                                                           *)
(* What is deployed is recorded in a file of deployments/ once its           *)
(* transaction is mined.  A run may be killed at any moment and be started   *)
(* again while its transactions are still in the mempool.  Addresses written *)
(* into the scripts are taken as those of the contracts they stand for.      *)
(***************************************************************************)
EXTENDS Integers, Sequences, FiniteSets

CONSTANTS
  Plans,      \* what the operator runs on "l1" and on "l2": sets of tags, in order
  OwnTags,    \* whether the operator runs a single script when a tag fails
  OtherTags,  \* tags run out of order
  MaxMishaps  \* bound on runs killed, repeated as a whole or out of order

ASSUME DeployAssumption ==
  /\ OwnTags \in BOOLEAN
  /\ MaxMishaps \in Nat

VARIABLES
  network, controllerIsDeployer,
  wrong,          \* values of deploy-config that a script refuses
  deployments,    \* for each name the script that made it, 0 if none did
  installed,      \* for each proxy the script that made its implementation
  postdeploys,    \* the keys set in the contract Postdeploys
  mempool,
  tag, at, part, stage,  \* of the run: its tags, script, transaction and place in it
  next, failed,   \* of the operator: where in the plan; whether a run threw
  mishaps

chainVars == <<installed, postdeploys, mempool>>
runVars == <<tag, at, part, stage>>
operatorVars == <<wrong, next, failed, mishaps>>
deployVars == <<network, controllerIsDeployer, deployments, chainVars, runVars, operatorVars>>

-----------------------------------------------------------------------------
(* What scripts do *)

NONE == "none"

Nothing ==
  [name |-> NONE, contract |-> NONE, args |-> 0, asserts |-> {},   \* to deploy
   proxy |-> NONE, impl |-> NONE, calls |-> {},                    \* to install
   keys |-> <<>>,                                                  \* to set
   gets |-> {}, companion |-> {}, refuses |-> {}, waits |-> TRUE,
   file |-> NONE, tags |-> {}]

Script(file, tags, code) == [code EXCEPT !.file = file, !.tags = tags]

Deploy(name, contract, args, gets, asserts) ==
  [Nothing EXCEPT !.name = name, !.contract = contract, !.args = args,
                  !.gets = gets, !.asserts = asserts]

DeployProxy(name) == Deploy(name, "Proxy", 1, {"ProxyAdmin"}, {"admin"})

\* initialize runs in the same transaction, and calls what is in calls.
Upgrade(impl, proxy, gets, calls) ==
  [Nothing EXCEPT !.proxy = proxy, !.impl = impl, !.calls = calls,
                  !.gets = {impl, proxy, "ProxyAdmin"} \cup gets]

\* A predeploy and an implementation named by address.
UpgradePredeploy(proxy, gets, calls) ==
  [Nothing EXCEPT !.proxy = proxy, !.calls = calls, !.gets = gets, !.waits = FALSE]

Unwaited(code) == [code EXCEPT !.waits = FALSE]

Publish(key, name) ==
  [Nothing EXCEPT !.keys = <<key>>, !.gets = {"Lib_Postdeploys", name}, !.waits = FALSE]

OnL1(code, name) == [code EXCEPT !.companion = {name}]

DeployOracle ==
  [Deploy("L2OutputOracle", "L2OutputOracle", 7, {},
          {"SUBMISSION_INTERVAL", "L2_BLOCK_TIME", "PROPOSER", "CHALLENGER",
           "FINALIZATION_PERIOD_SECONDS"}) EXCEPT !.refuses = {"interval"}]

DeployVault(name) == Deploy(name, name, 1, {}, {"RECIPIENT"})

ForRecipient(code) == [code EXCEPT !.refuses = {"recipient"}]

InstallDictator ==
  Upgrade("SystemDictator", "SystemDictatorProxy",
    {"Lib_AddressManager", "L2OutputOracleProxy", "PatexPortalProxy",
     "Proxy__PVM_L1CrossDomainMessenger", "Proxy__PVM_L1StandardBridge",
     "PatexMintableERC20FactoryProxy", "L1ERC721BridgeProxy", "SystemConfigProxy",
     "L2OutputOracle", "PatexPortal", "L1CrossDomainMessenger", "L1StandardBridge",
     "PatexMintableERC20Factory", "L1ERC721Bridge", "PortalSender", "SystemConfig"},
    {})

-----------------------------------------------------------------------------
(* The scripts, file by file *)

ProxyAdmin ==
  Script("000", {"ProxyAdmin", "setup", "l1"},
    Deploy("ProxyAdmin", "ProxyAdmin", 1, {}, {"owner"}))

L2OracleV2 ==
  Script("000", {"L2OutputOracleImplTmp", "setupTmp", "l1Tmp"},
    DeployOracle)

AddressManager ==
  Script("001", {"AddressManager", "setup", "l1"},
    Deploy("Lib_AddressManager", "AddressManager", 0, {}, {"owner"}))

L1StandardBridgeProxy ==
  Script("002", {"L1StandardBridgeProxy", "setup", "l1"},
    Deploy("Proxy__PVM_L1StandardBridge", "L1ChugSplashProxy", 1, {}, {"getOwner"}))

L2OutputOracleProxy ==
  Script("003", {"L2OutputOracleProxy", "setup", "l1"},
    DeployProxy("L2OutputOracleProxy"))

L1CrossDomainMessengerProxy ==
  Script("004", {"L1CrossDomainMessengerProxy", "setup", "l1"},
    Deploy("Proxy__PVM_L1CrossDomainMessenger", "ResolvedDelegateProxy", 2,
           {"Lib_AddressManager"}, {}))

PatexPortalProxy ==
  Script("005", {"PatexPortalProxy", "setup", "l1"},
    DeployProxy("PatexPortalProxy"))

ERC20FactoryProxy ==
  Script("006", {"PatexMintableERC20FactoryProxy", "setup", "l1"},
    DeployProxy("PatexMintableERC20FactoryProxy"))

L1ERC721BridgeProxy ==
  Script("007", {"L1ERC721BridgeProxy", "setup", "l1"},
    Deploy("L1ERC721BridgeProxy", "Proxy", 1, {}, {"admin"}))

SystemConfigProxy ==
  Script("008", {"SystemConfigProxy", "setup", "l1"},
    DeployProxy("SystemConfigProxy"))

SystemDictatorProxy ==
  Script("009", {"SystemDictatorProxy", "setup", "l1"},
    Deploy("SystemDictatorProxy", "Proxy", 1, {}, {"admin"}))

L1CrossDomainMessengerImpl ==
  Script("010", {"L1CrossDomainMessengerImpl", "setup", "l1"},
    Deploy("L1CrossDomainMessenger", "L1CrossDomainMessenger", 1,
           {"PatexPortalProxy"}, {"PORTAL"}))

L1StandardBridgeImpl ==
  Script("011", {"L1StandardBridgeImpl", "setup", "l1"},
    Deploy("L1StandardBridge", "L1StandardBridge", 1,
           {"Proxy__PVM_L1CrossDomainMessenger"}, {"MESSENGER", "OTHER_BRIDGE"}))

L2OutputOracleImpl ==
  Script("012", {"L2OutputOracleImpl", "setup", "l1"},
    DeployOracle)

PatexPortalImpl ==
  Script("013", {"PatexPortalImpl", "setup", "l1"},
    Deploy("PatexPortal", "PatexPortal", 4,
           {"L2OutputOracleProxy", "SystemConfigProxy"},
           {"L2_ORACLE", "GUARDIAN", "SYSTEM_CONFIG"}))

L1ERC20FactoryImpl ==
  Script("014", {"PatexMintableERC20FactoryImpl", "setup", "l1"},
    Deploy("PatexMintableERC20Factory", "PatexMintableERC20Factory", 1,
           {"Proxy__PVM_L1StandardBridge"}, {"BRIDGE"}))

L1ERC721BridgeImpl ==
  Script("015", {"L1ERC721BridgeImpl", "setup", "l1"},
    Deploy("L1ERC721Bridge", "L1ERC721Bridge", 2,
           {"Proxy__PVM_L1CrossDomainMessenger"}, {"MESSENGER"}))

PortalSenderImpl ==
  Script("016", {"PortalSenderImpl", "setup", "l1"},
    Deploy("PortalSender", "PortalSender", 1, {"PatexPortalProxy"}, {"PORTAL"}))

SystemConfigImpl ==
  Script("017", {"SystemConfigImpl", "setup", "l1"},
    Deploy("SystemConfig", "SystemConfig", 7, {},
           {"owner", "overhead", "scalar", "batcherHash", "unsafeBlockSigner"}))

SystemDictatorImpl ==
  Script("018", {"SystemDictatorImpl", "setup", "l1"},
    Deploy("SystemDictator", "SystemDictator", 0, {}, {}))

SystemDictatorInit ==
  Script("019", {"SystemDictatorImpl", "setup", "l1"},
    InstallDictator)

L1BlockImpl ==
  Script("100", {"L1BlockImpl", "l2"},
    Deploy("L1Block", "L1Block", 0, {}, {"DEPOSITOR_ACCOUNT"}))

L2CrossDomainMessengerImpl ==
  Script("101", {"L2CrossDomainMessengerImpl", "l2"},
    OnL1(Deploy("L2CrossDomainMessenger", "L2CrossDomainMessenger", 1, {},
         {"OTHER_MESSENGER"}), "L1CrossDomainMessengerProxy"))

L2StandardBridgeImpl ==
  Script("102", {"L2StandardBridgeImpl", "l2"},
    OnL1(Deploy("L2StandardBridge", "L2StandardBridge", 1, {}, {"OTHER_BRIDGE"}),
         "L1StandardBridgeProxy"))

L2ToL1MessagePasserImpl ==
  Script("103", {"L2ToL1MessagePasserImpl", "l2"},
    Deploy("L2ToL1MessagePasser", "L2ToL1MessagePasser", 0, {},
           {"MESSAGE_VERSION"}))

L2ERC721BridgeImpl ==
  Script("104", {"L2ERC721BridgeImpl", "l2"},
    OnL1(Deploy("L2ERC721Bridge", "L2ERC721Bridge", 2, {},
         {"MESSENGER", "OTHER_BRIDGE"}), "L1ERC721BridgeProxy"))

GasPriceOracleImpl ==
  Script("105", {"GasPriceOracle", "l2"},
    Deploy("GasPriceOracle", "GasPriceOracle", 0, {}, {"DECIMALS"}))

SequencerFeeVaultCustomImpl ==
  Script("106", {"SequencerFeeVaultImplTmp", "l2SequencerFeeVaultImplTmp"},
    DeployVault("SequencerFeeVault"))

SequencerFeeVaultImpl ==
  Script("106", {"SequencerFeeVaultImpl", "l2"},
    ForRecipient(DeployVault("SequencerFeeVault")))

BaseFeeVaultCustomImpl ==
  Script("107", {"BaseFeeVaultImplTmp", "l2BaseFeeVaultImplTmp"},
    DeployVault("BaseFeeVault"))

BaseFeeVaultImpl ==
  Script("107", {"BaseFeeVaultImpl", "l2"},
    ForRecipient(DeployVault("BaseFeeVault")))

L1FeeVaultCustomImpl ==
  Script("108", {"L1FeeVaultImplTmp", "l2L1FeeVaultImplTmp"},
    DeployVault("L1FeeVault"))

L1FeeVaultImpl ==
  Script("108", {"L1FeeVaultImpl", "l2"},
    ForRecipient(DeployVault("L1FeeVault")))

L2ERC20FactoryImpl ==
  Script("109", {"PatexMintableERC20FactoryImpl", "l2"},
    Deploy("PatexMintableERC20Factory", "PatexMintableERC20Factory", 1, {},
           {"BRIDGE"}))

ERC721FactoryImpl ==
  Script("110", {"PatexMintableERC721FactoryImpl", "l2"},
    Deploy("PatexMintableERC721Factory", "PatexMintableERC721Factory", 2, {},
           {"BRIDGE", "REMOTE_CHAIN_ID"}))

PostdeploysLib ==
  Script("200", {"Postdeploys", "setup", "l1l2post"},
    Deploy("Lib_Postdeploys", "Postdeploys", 0, {}, {"owner"}))

PatexProxy ==
  Script("201", {"PatexProxy", "l2PatexProxy"},
    DeployProxy("PatexProxy"))

PatexImpl ==
  Script("202", {"l2PatexImpl"},
    Deploy("Patex", "Patex", 1, {}, {}))

GasProxy ==
  Script("203", {"GasProxy", "l2GasProxy"},
    DeployProxy("GasProxy"))

PatexUpgrade ==
  Script("204", {"l2PatexUpcal"},
    Upgrade("Patex", "PatexProxy", {}, {}))

GasImpl ==
  Script("205", {"l2GasImpl"},
    Deploy("Gas", "Gas", 3, {"PatexProxy"}, {}))

GasUpgrade ==
  Script("206", {"l2GasUpcal"},
    Upgrade("Gas", "GasProxy", {}, {}))

SharesProxy ==
  Script("207", {"SharesProxy", "l2SharesProxy"},
    DeployProxy("SharesProxy"))

SharesImpl ==
  Script("208", {"l2SharesImpl"},
    Deploy("Shares", "Shares", 1, {}, {}))

PostPatex ==
  Script("209", {"l2PostPatex"},
    Publish("PATEX", "PatexProxy"))

PostGas ==
  Script("210", {"l2PostGas"},
    Publish("GAS", "GasProxy"))

PostShares ==
  Script("211", {"l2PostShares"},
    Publish("SHARES", "SharesProxy"))

L2PatexBridgeProxy ==
  Script("212", {"L2PatexBridgeProxy"},
    DeployProxy("L2PatexBridgeProxy"))

L1PatexBridgeProxy ==
  Script("213", {"L1PatexBridgeProxy"},
    DeployProxy("L1PatexBridgeProxy"))

L2PatexBridgeImpl ==
  Script("214", {"l2BridgeImpl"},
    Deploy("L2PatexBridge", "L2PatexBridge", 0, {}, {}))

L2PatexBridgeUpgrade ==
  Script("215", {"l2BridgeUpcal"},
    Upgrade("L2PatexBridge", "L2PatexBridgeProxy", {"Lib_Postdeploys"}, {"Patex"}))

ETHYieldManagerProxy ==
  Script("216", {"l1ETHYieldManagerProxy"},
    DeployProxy("ETHYieldManagerProxy"))

SharesUpgrade ==
  Script("217", {"l2SharesUpcal"},
    Upgrade("Shares", "SharesProxy", {"Lib_Postdeploys"}, {"Patex"}))

PostBridge ==
  Script("218", {"l2PostBridge"},
    Publish("L2_PATEX_BRIDGE", "L2PatexBridgeProxy"))

PostAll ==
  Script("219", {"l1PostAll"},
    [Nothing EXCEPT !.gets = {"Lib_Postdeploys"},
                 !.keys = <<"L2_PATEX_BRIDGE", "GAS", "SHARES", "PATEX">>])

TestnetYieldProvider ==
  Script("220", {"l1ETHTestnetYieldProvider"},
    Deploy("ETHTestnetYieldProvider", "ETHTestnetYieldProvider", 3,
           {"ETHYieldManagerProxy"}, {}))

ETHYieldManagerImpl ==
  Script("221", {"l1ETHYieldManagerImpl"},
    Deploy("ETHYieldManager", "ETHYieldManager", 0, {}, {}))

ETHYieldManagerUpgrade ==
  Script("222", {"l1ETHYieldManagerUpcal"},
    Upgrade("ETHYieldManager", "ETHYieldManagerProxy", {"Lib_Postdeploys"}, {}))

L1PatexBridgeImpl ==
  Script("223", {"l1BridgeImpl"},
    Deploy("L1PatexBridge", "L1PatexBridge", 0, {}, {}))

L1PatexBridgeUpgrade ==
  Script("224", {"l1BridgeUpcal"},
    Upgrade("L1PatexBridge", "L1PatexBridgeProxy",
            {"ETHYieldManagerProxy", "Lib_Postdeploys"}, {}))

InsuranceProxy ==
  Script("225", {"l1InsuranceProxy"},
    DeployProxy("InsuranceProxy"))

InsuranceImpl ==
  Script("226", {"l1InsuranceImpl"},
    Deploy("Insurance", "Insurance", 1, {"ETHYieldManagerProxy"}, {}))

InsuranceUpgrade ==
  Script("227", {"l1InsuranceUpcal"},
    Upgrade("Insurance", "InsuranceProxy", {}, {}))

MessengerImplN ==
  Script("228", {"l1CrossDomainMessengerImpl"},
    Deploy("L1CrossDomainMessenger", "L1CrossDomainMessenger", 0, {}, {}))

PortalImplN ==
  Script("229", {"l1PatexPortalImpl"},
    Deploy("PatexPortal", "PatexPortal", 0, {}, {}))

L1MessengerUpgrade ==
  Script("230", {"l1MessengerUpcal"},
    Upgrade("L1CrossDomainMessenger", "Proxy__PVM_L1CrossDomainMessenger", {},
            {"RESOLVED"}))

PortalUpgrade ==
  Script("231", {"l1PortalUpcal"},
    Unwaited(Upgrade("PatexPortal", "PatexPortalProxy", {}, {})))

L2MessengerImplN ==
  Script("232", {"l2MessengerImpl"},
    Deploy("L2CrossDomainMessenger", "L2CrossDomainMessenger", 1, {}, {}))

L2MessengerUpgrade ==
  Script("233", {"l2MessengerUpcal"},
    UpgradePredeploy("L2CrossDomainMessenger", {"Lib_Postdeploys"}, {"Patex"}))

LidoProvider ==
  Script("234", {"l1LidoYieldProvider"},
    Deploy("LidoYieldProvider", "LidoYieldProvider", 1, {"ETHYieldManagerProxy"},
           {}))

WETHProxy ==
  Script("235", {"L2WethProxy"},
    DeployProxy("WETHRebasingProxy"))

WETHImpl ==
  Script("236", {"l2WETHRebasingProxyImpl"},
    Deploy("WETHRebasing", "WETHRebasing", 1, {"SharesProxy"}, {}))

WETHUpgrade ==
  Script("237", {"l2WethUpcal"},
    Upgrade("WETHRebasing", "WETHRebasingProxy", {"Lib_Postdeploys"},
            {"Patex", "Shares"}))

PostWETH ==
  Script("238", {"l2PostWeth"},
    Publish("WETH_REBASING", "WETHRebasingProxy"))

Scripts == <<
  ProxyAdmin, L2OracleV2, AddressManager, L1StandardBridgeProxy,
  L2OutputOracleProxy, L1CrossDomainMessengerProxy, PatexPortalProxy,
  ERC20FactoryProxy, L1ERC721BridgeProxy, SystemConfigProxy, SystemDictatorProxy,
  L1CrossDomainMessengerImpl, L1StandardBridgeImpl, L2OutputOracleImpl,
  PatexPortalImpl, L1ERC20FactoryImpl, L1ERC721BridgeImpl, PortalSenderImpl,
  SystemConfigImpl, SystemDictatorImpl, SystemDictatorInit, L1BlockImpl,
  L2CrossDomainMessengerImpl, L2StandardBridgeImpl, L2ToL1MessagePasserImpl,
  L2ERC721BridgeImpl, GasPriceOracleImpl, SequencerFeeVaultCustomImpl,
  SequencerFeeVaultImpl, BaseFeeVaultCustomImpl, BaseFeeVaultImpl,
  L1FeeVaultCustomImpl, L1FeeVaultImpl, L2ERC20FactoryImpl, ERC721FactoryImpl,
  PostdeploysLib, PatexProxy, PatexImpl, GasProxy, PatexUpgrade, GasImpl,
  GasUpgrade, SharesProxy, SharesImpl, PostPatex, PostGas, PostShares,
  L2PatexBridgeProxy, L1PatexBridgeProxy, L2PatexBridgeImpl, L2PatexBridgeUpgrade,
  ETHYieldManagerProxy, SharesUpgrade, PostBridge, PostAll, TestnetYieldProvider,
  ETHYieldManagerImpl, ETHYieldManagerUpgrade, L1PatexBridgeImpl,
  L1PatexBridgeUpgrade, InsuranceProxy, InsuranceImpl, InsuranceUpgrade,
  MessengerImplN, PortalImplN, L1MessengerUpgrade, PortalUpgrade, L2MessengerImplN,
  L2MessengerUpgrade, LidoProvider, WETHProxy, WETHImpl, WETHUpgrade, PostWETH>>

Indices == 1 .. Len(Scripts)
Names == {Scripts[i].name : i \in Indices} \ {NONE}
ProxyNames == {Scripts[i].proxy : i \in Indices} \ {NONE}
Keys == UNION {{Scripts[i].keys[k] : k \in DOMAIN Scripts[i].keys} : i \in Indices}

\* What is installed if the script names it by address; a contract is otherwise named
\* by the script that made it.
BY_ADDRESS == Len(Scripts) + 1

\* What the table says of all scripts: what one installs is looked up first, under a
\* name that another records; each proxy has one script that upgrades it; keys are
\* set one after another.
ASSUME TableAssumption ==
  /\ Len(Scripts) \in Nat \ {0}
  /\ \A i \in Indices :
       LET code == Scripts[i] IN
       /\ Len(code.keys) \in Nat /\ DOMAIN code.keys = 1 .. Len(code.keys)
       /\ code.name = NONE \/ (code.proxy = NONE /\ code.keys = <<>>)
       /\ code.impl # NONE => code.proxy # NONE /\ code.impl \in code.gets
       /\ code.gets \subseteq Names /\ code.waits \in BOOLEAN
       /\ \A j \in Indices : code.proxy # NONE /\ Scripts[j].proxy = code.proxy => i = j

\* Parameters of constructors.
Parameters(contract) ==
  CASE contract \in {"SystemConfig", "L2OutputOracle"} -> 7
    [] contract \in {"Gas", "ETHTestnetYieldProvider"} -> 3
    [] contract \in {"ResolvedDelegateProxy", "L1ERC721Bridge", "L2ERC721Bridge",
                     "PatexMintableERC721Factory"} -> 2
    [] contract \in {"AddressManager", "Postdeploys", "L1CrossDomainMessenger", "PatexPortal",
                     "SystemDictator", "L1Block", "L2ToL1MessagePasser", "GasPriceOracle",
                     "L1PatexBridge", "L2PatexBridge", "ETHYieldManager"} -> 0
    [] OTHER -> 1

\* MESSENGER of a standard bridge is only set by initialize, and its other getter
\* has another name, OHTER_BRIDGE.
NotSo(contract) ==
  IF contract \in {"L1StandardBridge", "L2StandardBridge"} THEN {"MESSENGER", "OTHER_BRIDGE"} ELSE {}

-----------------------------------------------------------------------------
(* The chain *)

\* configureContract goes through the contract under the key PATEX to Gas, and
\* WETHRebasing reads the price of Shares.  An L1 messenger can only be upgraded
\* once SystemDictator has told ProxyAdmin its kind of proxy.
Answers(contract) ==
  CASE contract = "Patex" ->
         "PATEX" \in postdeploys /\ installed["PatexProxy"] # 0 /\ installed["GasProxy"] # 0
    [] contract = "Shares" -> "SHARES" \in postdeploys /\ installed["SharesProxy"] # 0
    [] OTHER -> FALSE

\* No proxy is initialized twice.
Succeeds(code) ==
  code.proxy # NONE => installed[code.proxy] = 0 /\ \A c \in code.calls : Answers(c)

\* The implementation is looked up when the transaction is made.
Transaction(i) ==
  [script |-> i, part |-> part, live |-> Scripts[i].waits,
   impl |-> IF Scripts[i].impl = NONE THEN BY_ADDRESS ELSE deployments[Scripts[i].impl]]

Mine ==
  /\ mempool # <<>>
  /\ LET tx == Head(mempool)
         code == Scripts[tx.script]
         ok == Succeeds(code) IN
       /\ installed' = IF code.proxy # NONE /\ ok THEN [installed EXCEPT ![code.proxy] = tx.impl]
                       ELSE installed
       /\ postdeploys' = IF code.keys # <<>> THEN postdeploys \cup {code.keys[tx.part]}
                         ELSE postdeploys
       /\ stage' = IF ~tx.live THEN stage ELSE IF ok THEN "mined" ELSE "reverted"
  /\ mempool' = Tail(mempool)
  /\ UNCHANGED <<network, controllerIsDeployer, deployments, tag, at, part, operatorVars>>

-----------------------------------------------------------------------------
(* A run *)

Matches(t, i) == t = {} \/ t \cap Scripts[i].tags # {}

Following(t, i) == {j \in Indices : j > i /\ Matches(t, j)}

Begin(t) ==
  /\ stage = "idle"
  /\ Following(t, 0) # {}
  /\ tag' = t
  /\ at' = CHOOSE i \in Following(t, 0) : \A j \in Following(t, 0) : i <= j
  /\ part' = 1
  /\ stage' = "start"
  /\ UNCHANGED <<network, controllerIsDeployer, deployments, chainVars>>

Current == Scripts[at]

Recorded == {n \in Names : deployments[n] # 0}

\* What L1 holds when L2 is deployed.
Companion(n) == network = "l2" /\ \E i \in Indices : "l1" \in Scripts[i].tags /\ Scripts[i].name = n

\* Bug: a deployment is made anew in every run.
HasIt_Never(code) == FALSE

\* Nothing to send: recorded already, or the right implementation is there.
HasIt(code) ==
  \/ code.name # NONE /\ deployments[code.name] # 0
  \/ code = SystemDictatorInit /\ installed[code.proxy] = deployments[code.impl]

\* Before anything is sent: a deployment that is not there, a configuration that
\* is refused, a wrong number of arguments, a call that reverts; and
\* transferOwnership, which the proxy of SystemDictator does not have.
Throws(code) ==
  \/ ~(code.gets \subseteq Recorded)
  \/ \E n \in code.companion : ~Companion(n)
  \/ code.refuses \cap wrong # {}
  \/ ~HasIt(code) /\ code.name # NONE /\ code.args # Parameters(code.contract)
  \/ ~HasIt(code) /\ ~Succeeds(code)
  \/ HasIt(code) /\ code = SystemDictatorInit /\ ~controllerIsDeployer

Advance ==
  LET rest == Following(tag, at) IN
  /\ part' = 1
  /\ IF rest = {} THEN stage' = "idle" /\ failed' = FALSE /\ UNCHANGED at
     ELSE /\ stage' = "start"
          /\ at' = CHOOSE i \in rest : \A j \in rest : i <= j
          /\ UNCHANGED failed
  /\ UNCHANGED <<network, controllerIsDeployer, installed, postdeploys, tag, wrong, next, mishaps>>

Abort ==
  /\ stage' = "idle"
  /\ failed' = TRUE
  /\ UNCHANGED <<network, controllerIsDeployer, deployments, installed, postdeploys,
                 tag, at, part, wrong, next>>

Throw ==
  /\ \/ stage = "start" /\ Throws(Current)
     \/ stage = "reverted"
     \/ stage = "check" /\ Current.asserts \cap NotSo(Current.contract) # {}
  /\ Abort
  /\ UNCHANGED <<mempool, mishaps>>

Skip ==
  /\ stage = "start"
  /\ ~Throws(Current) /\ HasIt(Current)
  /\ Advance
  /\ UNCHANGED <<deployments, mempool>>

\* A script that does not wait for its transaction is over, and so may be the run.
Send ==
  /\ stage = "start"
  /\ ~Throws(Current) /\ ~HasIt(Current)
  /\ mempool' = Append(mempool, Transaction(at))
  /\ UNCHANGED deployments
  /\ IF Current.waits THEN
          /\ stage' = "sent"
          /\ UNCHANGED <<network, controllerIsDeployer, installed, postdeploys, tag, at, part,
                         operatorVars>>
     ELSE Advance

\* Where a script puts a contract: elsewhere if it has put one before.
NewAddress(n) == IF deployments[n] = at THEN BY_ADDRESS + at ELSE at

\* Bug: what its own checks refuse is not recorded.
AfterReceipt_Checked(code) ==
  IF code.asserts \cap NotSo(code.contract) = {} THEN [deployments EXCEPT ![code.name] = NewAddress(code.name)]
  ELSE deployments

AfterReceipt(code) == [deployments EXCEPT ![code.name] = NewAddress(code.name)]

\* A deployment is recorded, and looked at once; 019 returns from the loop that
\* checks the configuration, and so from the script.
Receipt ==
  /\ stage = "mined"
  /\ UNCHANGED mempool
  /\ IF Current.name # NONE THEN
          /\ deployments' = AfterReceipt(Current)
          /\ stage' = "check"
          /\ UNCHANGED <<network, controllerIsDeployer, installed, postdeploys, tag, at, part,
                         operatorVars>>
     ELSE IF part < Len(Current.keys) THEN
          /\ part' = part + 1
          /\ stage' = "start"
          /\ UNCHANGED <<network, controllerIsDeployer, deployments, installed, postdeploys, tag, at,
                         operatorVars>>
     ELSE Advance /\ UNCHANGED deployments

Checked ==
  /\ stage = "check"
  /\ Current.asserts \cap NotSo(Current.contract) = {}
  /\ Advance
  /\ UNCHANGED <<deployments, mempool>>

Kill ==
  /\ stage # "idle"
  /\ mishaps < MaxMishaps
  /\ mishaps' = mishaps + 1
  /\ mempool' = [k \in DOMAIN mempool |-> [mempool[k] EXCEPT !.live = FALSE]]
  /\ Abort

Step == Throw \/ Skip \/ Send \/ Receipt \/ Checked

-----------------------------------------------------------------------------
(* The operator *)

Plan == Plans[network]

Done(i) ==
  LET code == Scripts[i] IN
  /\ code.name # NONE => deployments[code.name] # 0
  /\ code.proxy # NONE => installed[code.proxy] # 0
  /\ \A k \in DOMAIN code.keys : code.keys[k] \in postdeploys

Missing(t) == {i \in Following(t, 0) : ~Done(i)}

\* Tags shared by scripts that do different things.
Shared == {"setup", "l1", "l2"}

\* Waits for what the last run left behind; repeats what failed.
RunPlanned ==
  /\ stage = "idle"
  /\ next <= Len(Plan)
  /\ Missing(Plan[next]) # {}
  /\ failed \/ mempool = <<>>
  /\ Begin(Plan[next])
  /\ IF failed /\ OwnTags THEN mishaps < MaxMishaps /\ mishaps' = mishaps + 1 ELSE UNCHANGED mishaps
  /\ wrong' = IF failed THEN {} ELSE wrong
  /\ UNCHANGED <<next, failed>>

\* Corrects the configuration, and runs the first script missing by a tag of its own.
RunMissing ==
  /\ OwnTags /\ failed /\ stage = "idle"
  /\ next <= Len(Plan)
  /\ LET missing == Missing(Plan[next]) IN
       /\ missing # {}
       /\ LET i == CHOOSE j \in missing : \A k \in missing : j <= k IN
            \E t \in Scripts[i].tags \ Shared : Begin({t})
  /\ wrong' = {}
  /\ UNCHANGED <<next, failed, mishaps>>

RunOther ==
  /\ mishaps < MaxMishaps
  /\ \E t \in OtherTags : Begin({t})
  /\ mishaps' = mishaps + 1
  /\ UNCHANGED <<wrong, next, failed>>

GoOn ==
  /\ stage = "idle"
  /\ next <= Len(Plan)
  /\ Missing(Plan[next]) = {}
  /\ next' = next + 1
  /\ failed' = FALSE
  /\ UNCHANGED <<network, controllerIsDeployer, deployments, chainVars, runVars, wrong, mishaps>>

DeployInit ==
  /\ network \in DOMAIN Plans
  /\ controllerIsDeployer \in BOOLEAN
  /\ wrong \in {{}, {"interval", "recipient"}}
  /\ deployments = [n \in Names |-> 0]
  /\ installed = [p \in ProxyNames |-> 0]
  /\ postdeploys = {}
  /\ mempool = <<>>
  /\ tag = {} /\ at = 1 /\ part = 1 /\ stage = "idle"
  /\ next = 1 /\ failed = FALSE
  /\ mishaps = 0

DeployNext == Mine \/ Step \/ Kill \/ RunPlanned \/ RunMissing \/ RunOther \/ GoOn

\* Transactions are mined, a node process goes on, and the operator with the plan.
DeployFairness ==
  /\ WF_deployVars(Mine)
  /\ WF_deployVars(Step)
  /\ WF_deployVars(RunPlanned \/ RunMissing)
  /\ WF_deployVars(GoOn)

DeploySpec == DeployInit /\ [][DeployNext]_deployVars /\ DeployFairness

-----------------------------------------------------------------------------
(* Properties *)

DeployTypeOK ==
  /\ deployments \in [Names -> Indices \cup {0}]
  /\ installed \in [ProxyNames -> Indices \cup {0, BY_ADDRESS}]
  /\ postdeploys \subseteq Keys
  /\ stage \in {"idle", "start", "sent", "mined", "reverted", "check"}
  /\ at \in Indices
  /\ mishaps \in 0 .. MaxMishaps

\* The implementation behind a proxy is the one in deployments/, whatever was
\* killed, run twice or run out of order: who reads the file, to verify the source
\* or to upgrade again, reads of the contract in use.
InstalledIsRecorded ==
  /\ DeployTypeOK
  /\ \A i \in Indices :
       LET code == Scripts[i] IN
       code.impl # NONE /\ installed[code.proxy] # 0 =>
         installed[code.proxy] = deployments[code.impl]

\* Whatever is killed, thrown or run out of order, the plan is carried out in the
\* end: no script is left that can neither do its work nor be seen to have done it,
\* though most cannot be run twice and one never ends well the first time.
PlanCompletes == <>(next > Len(Plan))

\* "Run npx hardhat deploy --network <network-name> to deploy the L1 contracts":
\* that command, repeated as often as it takes, deploys them.
DeployCommandCompletes ==
  network = "l1" => <>(\A i \in Indices : "l1" \in Scripts[i].tags => Done(i))
=============================================================================
