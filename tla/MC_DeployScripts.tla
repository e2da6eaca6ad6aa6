--------------------------- MODULE MC_DeployScripts ---------------------------
(***************************************************************************)
(* Both networks, by plans that can be carried out: implementations whose    *)
(* own script passes too many arguments come from the later scripts, and the *)
(* scripts of tag l2 that work are run one by one.  One command publishes     *)
(* addresses of L2 and upgrades the bridge, which goes through one of them.  *)
(***************************************************************************)
EXTENDS DeployScripts

MCPlans ==
  [l1 |-> <<{"l1CrossDomainMessengerImpl"}, {"l1PatexPortalImpl"}, {"setup"},
            {"l1ETHYieldManagerProxy"}, {"L1PatexBridgeProxy"}, {"l1InsuranceProxy"}, {"l1PostAll"},
            {"l1ETHTestnetYieldProvider"}, {"l1ETHYieldManagerImpl"}, {"l1ETHYieldManagerUpcal"},
            {"l1BridgeImpl"}, {"l1BridgeUpcal"}, {"l1InsuranceImpl"}, {"l1InsuranceUpcal"},
            {"l1LidoYieldProvider"}, {"l1PortalUpcal"}>>,
   l2 |-> <<{"ProxyAdmin"}, {"Postdeploys"}, {"L1BlockImpl"}, {"L2ToL1MessagePasserImpl"},
            {"L2ERC721BridgeImpl"}, {"GasPriceOracle"}, {"SequencerFeeVaultImpl"},
            {"PatexMintableERC721FactoryImpl"},
            {"PatexProxy"}, {"l2PatexImpl"}, {"GasProxy"}, {"l2PatexUpcal"}, {"l2GasImpl"},
            {"l2GasUpcal"}, {"SharesProxy"}, {"l2SharesImpl"}, {"L2PatexBridgeProxy"}, {"l2BridgeImpl"},
            {"l2PostPatex", "l2PostGas", "l2PostShares", "l2BridgeUpcal", "l2SharesUpcal",
             "l2PostBridge"},
            {"l2MessengerImpl"}, {"l2MessengerUpcal"}, {"L2WethProxy"},
            {"l2WETHRebasingProxyImpl"}, {"l2WethUpcal"}, {"l2PostWeth"}>>]

MCOtherTags ==
  {"setup", "l2", "L2OutputOracleImplTmp", "L1CrossDomainMessengerImpl", "l1PortalUpcal",
   "l2GasImpl", "l2BridgeUpcal", "l2PostPatex"}

AllAtOnce == [l1 |-> <<{}>>]
=============================================================================
