------------------------------- MODULE CheckL2 -------------------------------
(***************************************************************************)
(* tasks/check-l2.ts: the task that looks at a migrated L2, one question    *)
(* after another, and throws at the first answer it does not expect.        *)
(*                                                                          *)
(* A question is a pair: what is asked, and about which fact.  Every one is *)
(* a call of its own to a node, so the owner of ProxyAdmin may upgrade a    *)
(* predeploy between two of them.  What is only printed is left out.        *)
(***************************************************************************)
EXTENDS Integers, Sequences, SequencesExt, FiniteSetsExt

CONSTANTS
  Defective,    \* whether something in the network may not be as expected
  Upgradable,   \* predeploys that may be upgraded meanwhile
  MaxUpgrades

VARIABLES
  options,      \* of the task: chainId and l1RpcUrl are given; skipPredeployCheck
  outdated,     \* questions the contracts of this repository answer otherwise
  wrong,        \* questions to which the network's answer is not the one expected
  unasked,      \* questions still to ask
  verdict,
  upgraded      \* history: predeploys upgraded since the task began, and whether it
                \* had no version left to ask them for

checkVars == <<options, outdated, wrong, unasked, verdict, upgraded>>

-----------------------------------------------------------------------------
(* The questions *)

About(p, facts) == [i \in DOMAIN facts |-> <<p, facts[i]>>]

assertSemver(p) == About(p, <<"version">>)

\* The bytecode of Proxy, and code behind it.
assertProxy(p) == About(p, <<"proxy", "implementation">>)

Proxied(p, facts) == assertSemver(p) \o About(p, facts) \o assertProxy(p)

LegacyMessagePasser == Proxied("LegacyMessagePasser", <<>>)

DeployerWhitelist == Proxied("DeployerWhitelist", <<"owner">>)

L2CrossDomainMessenger ==
  Proxied("L2CrossDomainMessenger", <<"xDomainMsgSender", "OTHER_MESSENGER">>)
    \o About("L2CrossDomainMessenger", <<"initialized">>)

GasPriceOracle == Proxied("GasPriceOracle", <<"decimals">>)

L2StandardBridge == Proxied("L2StandardBridge", <<"OTHER_BRIDGE", "MESSENGER">>)

SequencerFeeVault == Proxied("SequencerFeeVault", <<"RECIPIENT", "l1FeeWallet">>)

PatexMintableERC20Factory == Proxied("PatexMintableERC20Factory", <<"BRIDGE">>)

L1BlockNumber == Proxied("L1BlockNumber", <<>>)

L1Block == Proxied("L1Block", <<>>)

LegacyERC20ETH ==
  About("LegacyERC20ETH",
        <<"name", "symbol", "decimals", "BRIDGE", "REMOTE_TOKEN", "totalSupply">>)

WETH9 == About("WETH9", <<"name", "symbol", "decimals">>)

GovernanceToken == About("GovernanceToken", <<"name", "symbol">>)

L2ERC721Bridge == Proxied("L2ERC721Bridge", <<"MESSENGER", "OTHER_BRIDGE">>)

\* REMOTE_CHAIN_ID is compared as an object with a number, and never equal to it.
PatexMintableERC721Factory == Proxied("PatexMintableERC721Factory", <<"BRIDGE">>)

ProxyAdmin == About("ProxyAdmin", <<"owner">>) \o assertProxy("ProxyAdmin")

BaseFeeVault == Proxied("BaseFeeVault", <<"RECIPIENT">>)

L1FeeVault == Proxied("L1FeeVault", <<"RECIPIENT">>)

L2ToL1MessagePasser == Proxied("L2ToL1MessagePasser", <<>>)

check ==
  LegacyMessagePasser \o DeployerWhitelist \o L2CrossDomainMessenger \o GasPriceOracle
    \o L2StandardBridge \o SequencerFeeVault \o PatexMintableERC20Factory \o L1BlockNumber
    \o L1Block \o LegacyERC20ETH \o WETH9 \o GovernanceToken \o L2ERC721Bridge
    \o PatexMintableERC721Factory \o ProxyAdmin \o BaseFeeVault \o L1FeeVault
    \o L2ToL1MessagePasser

\* The predeploys in the order of their addresses, with one for those that have
\* no contract.
Reserved ==
  <<"LegacyMessagePasser", "DeployerWhitelist", "WETH9", "L2CrossDomainMessenger",
    "GasPriceOracle", "L2StandardBridge", "SequencerFeeVault", "PatexMintableERC20Factory",
    "L1BlockNumber", "L2ERC721Bridge", "L1Block", "L2ToL1MessagePasser",
    "PatexMintableERC721Factory", "ProxyAdmin", "BaseFeeVault", "L1FeeVault",
    "GovernanceToken", "unused">>

WithoutAdmin == {"GovernanceToken", "ProxyAdmin", "WETH9"}

checkPredeploys ==
  FlattenSeq([i \in DOMAIN Reserved |->
    About(Reserved[i], IF Reserved[i] \in WithoutAdmin THEN <<"code">> ELSE <<"code", "admin">>)])

\* The first block of Bedrock is the oracle's, if L1 can be asked, or of the
\* configuration.
checkGenesisMagic(l1) ==
  (IF l1 THEN About("L2OutputOracle", <<"startingBlockNumber">>) ELSE <<>>)
    \o About("firstBlock", <<"extraData">>)

Options == [chainId : BOOLEAN, l1RpcUrl : BOOLEAN, skipPredeployCheck : BOOLEAN]

Questions(a) ==
  (IF a.chainId THEN About("network", <<"chainId">>) ELSE <<>>)
    \o (IF a.skipPredeployCheck THEN <<>> ELSE checkPredeploys)
    \o checkGenesisMagic(a.l1RpcUrl)
    \o check

-----------------------------------------------------------------------------
(* The network *)

OfProxy == {"code", "admin", "proxy", "implementation"}

\* "Is behind a proxy."
BehindProxy == Range(Reserved) \ {"WETH9", "GovernanceToken", "unused"}

\* What may not be so.
Facts == Range(check) \cup Range(checkPredeploys) \cup (BehindProxy \X OfProxy)
           \cup {<<"network", "chainId">>, <<"L2OutputOracle", "startingBlockNumber">>,
                 <<"firstBlock", "extraData">>}

\* 1.7.0, initialized ten times; and a getter that is named OHTER_BRIDGE.
OfThisRepository ==
  {<<"L2CrossDomainMessenger", "version">>, <<"L2CrossDomainMessenger", "initialized">>,
   <<"L2StandardBridge", "OTHER_BRIDGE">>}

\* Nothing is answered where there is no code, and no getter without its
\* implementation.
AsExpected(q) ==
  /\ q \notin wrong \cup outdated
  /\ <<q[1], "code">> \notin wrong
  /\ q[2] \notin OfProxy => <<q[1], "implementation">> \notin wrong

-----------------------------------------------------------------------------
(* The task *)

CheckInit ==
  /\ options \in Options
  /\ outdated \in {OfThisRepository, {}}
  /\ wrong \in {{}} \cup {{q} : q \in IF Defective THEN Facts ELSE {}}
  /\ unasked = Questions(options)
  /\ verdict = "none"
  /\ upgraded = <<>>

\* Bug: a version is read and not compared.
Ask_AnyVersion ==
  /\ verdict = "none" /\ unasked # <<>>
  /\ Head(unasked)[2] = "version" \/ AsExpected(Head(unasked))
  /\ unasked' = Tail(unasked)
  /\ UNCHANGED <<options, outdated, wrong, verdict, upgraded>>

Ask ==
  /\ verdict = "none" /\ unasked # <<>>
  /\ AsExpected(Head(unasked))
  /\ unasked' = Tail(unasked)
  /\ UNCHANGED <<options, outdated, wrong, verdict, upgraded>>

Throw ==
  /\ verdict = "none" /\ unasked # <<>>
  /\ ~AsExpected(Head(unasked))
  /\ verdict' = "thrown"
  /\ UNCHANGED <<options, outdated, wrong, unasked, upgraded>>

Pass ==
  /\ verdict = "none" /\ unasked = <<>>
  /\ verdict' = "passed"
  /\ UNCHANGED <<options, outdated, wrong, unasked, upgraded>>

\* To an implementation as it should be, or of another version.
Upgrade(p) ==
  /\ verdict = "none"
  /\ Len(upgraded) < MaxUpgrades
  /\ upgraded' =
       Append(upgraded, [predeploy |-> p, late |-> <<p, "version">> \notin Range(unasked)])
  /\ \E now \in {{}, {<<p, "version">>}} :
       wrong' = {q \in wrong : q[1] # p \/ q[2] \in {"code", "admin", "proxy"}} \cup now
  /\ UNCHANGED <<options, outdated, unasked, verdict>>

CheckNext == Ask \/ Throw \/ Pass \/ \E p \in Upgradable : Upgrade(p)

CheckSpec == CheckInit /\ [][CheckNext]_checkVars /\ WF_checkVars(Ask \/ Throw \/ Pass)
-----------------------------------------------------------------------------
(* Properties *)

CheckTypeOK ==
  /\ options \in Options
  /\ Len(upgraded) <= MaxUpgrades
  /\ verdict \in {"none", "thrown", "passed"}

\* All that is asked about p has been asked.
Seen(p) == \A i \in DOMAIN unasked : unasked[i][1] # p

Claimed(q) ==
  /\ q[1] \in BehindProxy
  /\ \/ q[2] \in {"proxy", "implementation", "version"}
     \/ q[2] \in {"code", "admin"} /\ ~options.skipPredeployCheck /\ q[1] \notin WithoutAdmin

\* The version of a predeploy that was upgraded after the task had read it.
Overtaken(q) ==
  q[2] = "version" /\ [predeploy |-> q[1], late |-> TRUE] \in Range(upgraded)

\* What the task has gone over is as it should be, upgraded meanwhile or not: a
\* proxy of ProxyAdmin's, with an implementation of the version expected, even
\* if a later question makes the task throw.  With skipPredeployCheck nothing is
\* known of the admin.  If the task ends well, so is all else, but for one thing
\* it never asks: whose the proxy of ProxyAdmin is.  All that an upgrade between
\* two questions can slip past the task is a version it read before.
NothingOverlooked ==
  /\ CheckTypeOK
  /\ \A q \in wrong \cup outdated :
       Claimed(q) /\ Seen(q[1]) => Overtaken(q)
  /\ verdict = "passed" =>
       \A q \in wrong :
         \/ Overtaken(q)
         \/ q[1] \in {"network", "L2OutputOracle"}
         \/ options.skipPredeployCheck /\ q[2] \in {"code", "admin"}
         \/ q = <<"ProxyAdmin", "admin">>

=============================================================================
