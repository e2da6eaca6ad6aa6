----------------------------- MODULE PatexBridge -----------------------------
(***************************************************************************)
(* contracts/mainnet-bridge/L1PatexBridge.sol and L2PatexBridge.sol, on     *)
(* universal/StandardBridge.sol, over the messengers: USD tokens go to the  *)
(* USD yield manager, are converted to DAI (USDConversions.sol) and become  *)
(* USDB on L2; burned USDB becomes a request in the manager's queue.        *)
(*                                                                          *)
(* The manager is YieldManager.tla with USDYieldManager.sol's token.  Its   *)
(* l2Supply is what it owes to L2; here that is split into the USDB there   *)
(* is and what is under way.  Amounts are in units of the scarcest decimals *)
(* (USDC's and USDT's), so that conversions of decimals are exact.          *)
(*                                                                          *)
(* Ether and staked ether are in CrossDomainMessenger.tla, PatexPortal.tla  *)
(* and bridgeStakedToken of YieldManager.tla.                               *)
(***************************************************************************)
EXTENDS YieldManager, BridgeMessages

CONSTANTS
  UsdTokens,             \* tokens that may be approved on L1
  DAI,
  Supported,             \* those USDConversions converts to DAI
  RefusedOnL1,           \* the bridge and the messenger as recipients
  RefusedOnL2            \* the zero address

ASSUME BridgeAssumption ==
  /\ DAI \in UsdTokens
  /\ Supported \subseteq UsdTokens \ {DAI}
  /\ RefusedOnL1 \cup RefusedOnL2 \subseteq Recipients

VARIABLES
  approved,              \* usdYieldTokens[token].approved
  usdb,                  \* USDB on L2: minted, burned, and reported as yield
  reported               \* reports on their way to L2

bridgeVars == <<approved, usdb, reported>>
patexVars == <<managerVars, messageVars, bridgeVars>>

L1 == "L1"
L2 == "L2"

BridgeTypeOK ==
  /\ ManagerTypeOK
  /\ approved \subseteq UsdTokens
  /\ usdb \in Nat
  /\ reported \in Nat
  /\ body \in Seq([chain : {L1, L2}, to : Recipients, amount : Nat])

BridgeInit ==
  /\ ManagerInit
  /\ MessagesInit
  /\ approved = {}
  /\ usdb = 0
  /\ reported = 0

-----------------------------------------------------------------------------
(* USDConversions: the PSM or Curve pays what it pays, at least minOutput. *)

\* Bug: the amount that went in is taken for the amount that came out.
Converted_Input(token, amount, received) == amount

\* What convert returns when the exchange changed the balance by received.
Converted(token, amount, received) == IF token = DAI THEN amount ELSE received

MayConvert(token, amount, received, minOutput) ==
  \/ token = DAI /\ received = amount
  \/ token \in Supported /\ received >= minOutput

-----------------------------------------------------------------------------
(* L1PatexBridge *)

setUSDYieldToken(token, isApproved) ==
  /\ approved' = IF isApproved THEN approved \cup {token} ELSE approved \ {token}
  /\ UNCHANGED <<managerVars, messageVars, usdb, reported>>

\* _initiateBridgeERC20; the remote token is USDB.
bridgeToL2(token, to, amount, received, minOutput) ==
  LET amountToMint == Converted(token, amount, received) IN
  /\ token \in approved
  /\ MayConvert(token, amount, received, minOutput)
  /\ deposit(received)
  /\ Post([chain |-> L2, to |-> to, amount |-> amountToMint])
  /\ UNCHANGED bridgeVars

\* finalizeBridgeERC20: the burned USDB is queued.
finalizeOnL1(m) ==
  LET call == body[m] IN
  /\ m \in Pending
  /\ call.chain = L1
  /\ call.to \notin RefusedOnL1
  /\ requestFromL2(call.to, call.amount)
  /\ Hand(m)
  /\ UNCHANGED bridgeVars

-----------------------------------------------------------------------------
(* L2PatexBridge *)

finalizeOnL2(m) ==
  LET call == body[m] IN
  /\ m \in Pending
  /\ call.chain = L2
  /\ call.to \notin RefusedOnL2
  /\ usdb' = usdb + call.amount
  /\ Hand(m)
  /\ UNCHANGED <<managerVars, approved, reported>>

bridgeToL1(to, amount) ==
  /\ amount <= usdb
  /\ usdb' = usdb - amount
  /\ Post([chain |-> L1, to |-> to, amount |-> amount])
  /\ UNCHANGED <<managerVars, approved, reported>>

-----------------------------------------------------------------------------
(* The manager's other transactions; its insurance is in YieldManager.tla. *)

\* USDYieldManager._reportYield: a deposit that calls USDB.addValue.
reportYield(enableInsurance) ==
  /\ commitYieldReport(enableInsurance)
  /\ reported' = reported + (l2Supply' - l2Supply)
  /\ UNCHANGED <<messageVars, approved, usdb>>

addValue ==
  /\ reported > 0
  /\ usdb' = usdb + reported
  /\ reported' = 0
  /\ UNCHANGED <<managerVars, messageVars, approved>>

ManagerStep ==
  \/ \E id \in 1 .. lastRequestId : finalize(id)
  \/ \E id \in 1 .. lastFinalizedRequestId, h \in 1 .. lastCheckpointId, c \in Recipients :
       claim(id, h, c)
  \/ \E p \in Providers, a \in Amounts : stake(p, a) \/ unstake(p, a)
  \/ \E p \in Providers : addProvider(p) \/ removeProvider(p) \/ Rebase(p)

BridgeNext ==
  \/ \E t \in UsdTokens, b \in BOOLEAN : setUSDYieldToken(t, b)
  \/ \E t \in UsdTokens, to \in Recipients, a, out, min \in Amounts :
       bridgeToL2(t, to, a, out, min)
  \/ \E to \in Recipients, a \in Amounts : bridgeToL1(to, a)
  \/ \E m \in Messages : finalizeOnL1(m) \/ finalizeOnL2(m)
  \/ \E e \in BOOLEAN : reportYield(e)
  \/ addValue
  \/ ManagerStep /\ UNCHANGED <<messageVars, bridgeVars>>

BridgeSpec == BridgeInit /\ [][BridgeNext]_patexVars
-----------------------------------------------------------------------------
(* Properties *)

\* Every USDB is backed.  What the manager owes to L2 is the USDB there is and
\* what is under way, in either direction, and the manager's books cover it: a
\* conversion at a bad price, a message that can never succeed, a replay or a
\* report does not create USDB that nothing is held for, nor a request nobody
\* burned USDB for.
USDBAccounted ==
  /\ BridgeTypeOK
  /\ Backed
  /\ l2Supply = usdb + reported + SumFunctionOnSet([m \in Pending |-> body[m].amount], Pending)
=============================================================================
