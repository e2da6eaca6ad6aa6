------------------------- MODULE MC_MigrationScripts -------------------------
(***************************************************************************)
(* The migration with the scripts, and without: then anybody sends any      *)
(* transaction at any time, if the contracts let them.                      *)
(***************************************************************************)
EXTENDS MigrationScripts

CONSTANTS deployer1, multisig, finalOwner

ByHand == stage = "off"

ByHandInit ==
  /\ DictatorInit
  /\ deployer = deployer1 /\ paused = FALSE
  /\ block = "idle" /\ stage = "off" /\ both = FALSE /\ needsProxyTransfer = FALSE
  /\ sent = {}
  /\ kills = 0

MigrationInit == ByHandInit \/ ScriptsInit

MigrationNext ==
  \/ ByHand /\ DictatorNext /\ UNCHANGED scriptVars
  \/ ~ByHand /\ ScriptsNext

MigrationSpec == MigrationInit /\ [][MigrationNext]_allVars /\ ScriptsFairness
=============================================================================
