----------------------------- MODULE ERC721Bridge -----------------------------
(***************************************************************************)
(* contracts/universal/ERC721Bridge.sol with L1/L1ERC721Bridge.sol and      *)
(* L2/L2ERC721Bridge.sol, over the messengers.                              *)
(*                                                                          *)
(* L1 keeps a token in escrow, for one L2 contract and id, while that       *)
(* contract has a token to show for it.  Anybody may deploy L2 contracts:   *)
(* Compliant ones are PatexMintableERC721s, of which there may be several   *)
(* for one L1 contract; the others answer every call as they like.  A       *)
(* recipient may be a contract that takes no tokens; a call that gives it   *)
(* one reverts.                                                             *)
(*                                                                          *)
(* Both bridges change their books before a recipient is called back, so a  *)
(* call is one step.                                                        *)
(***************************************************************************)
EXTENDS BridgeMessages

CONSTANTS
  Users,
  Rejecting,             \* users that are contracts without onERC721Received
  BRIDGE,                \* L1ERC721Bridge as an owner
  NOBODY,                \* the owner of a token that does not exist
  L1Tokens, L2Tokens,    \* token contracts
  Compliant,
  remoteToken,           \* of compliant contracts
  TokenIds

ASSUME ERC721Assumption ==
  /\ Rejecting \subseteq Users
  /\ BRIDGE \notin Users
  /\ NOBODY \notin Users
  /\ Compliant \subseteq L2Tokens
  /\ remoteToken \in [Compliant -> L1Tokens]

VARIABLES
  l1Owner,               \* ownerOf on L1, per contract and id
  l2Owner,               \* ownerOf on L2, of compliant contracts
  deposits               \* L1ERC721Bridge: <<L1 contract, L2 contract, id>>

erc721Vars == <<messageVars, l1Owner, l2Owner, deposits>>

L1 == "L1"
L2 == "L2"

\* The arguments of finalizeBridgeERC721 on the chain named first.
Call == [chain : {L1, L2}, local : L1Tokens \cup L2Tokens, remote : L1Tokens \cup L2Tokens,
         id : TokenIds, to : Users]

ERC721TypeOK ==
  /\ sent \subseteq Messages
  /\ deliveries \in [Messages -> Nat]
  /\ body \in Seq(Call)
  /\ l1Owner \in [L1Tokens \X TokenIds -> Users \cup {BRIDGE}]
  /\ l2Owner \in [Compliant \X TokenIds -> Users \cup {NOBODY}]
  /\ deposits \subseteq L1Tokens \X L2Tokens \X TokenIds

ERC721Init ==
  /\ MessagesInit
  /\ l1Owner \in [L1Tokens \X TokenIds -> Users]
  /\ l2Owner = [t \in Compliant \X TokenIds |-> NOBODY]
  /\ deposits = {}

-----------------------------------------------------------------------------
(* L1ERC721Bridge *)

\* L2 contracts are not looked at.
initiateOnL1(l1, l2, from, to, id) ==
  /\ deposits' = deposits \cup {<<l1, l2, id>>}
  /\ l1Owner[<<l1, id>>] = from
  /\ l1Owner' = [l1Owner EXCEPT ![<<l1, id>>] = BRIDGE]
  /\ Post([chain |-> L2, local |-> l2, remote |-> l1, id |-> id, to |-> to])
  /\ UNCHANGED l2Owner

\* Bug: a token deposited for one L2 contract is paid out to another.
Escrowed_ForAny(l1, l2, id) == \E other \in L2Tokens : <<l1, other, id>> \in deposits

Escrowed(l1, l2, id) == <<l1, l2, id>> \in deposits

finalizeOnL1(m) ==
  LET call == body[m] IN
  /\ m \in Pending
  /\ call.chain = L1
  /\ Escrowed(call.local, call.remote, call.id)
  /\ deposits' = deposits \ {<<call.local, call.remote, call.id>>}
  /\ l1Owner[<<call.local, call.id>>] = BRIDGE
  /\ call.to \notin Rejecting
  /\ l1Owner' = [l1Owner EXCEPT ![<<call.local, call.id>>] = call.to]
  /\ Hand(m)
  /\ UNCHANGED l2Owner

-----------------------------------------------------------------------------
(* L2ERC721Bridge *)

\* PatexMintableERC721
Exists(l2, id) == l2Owner[<<l2, id>>] # NOBODY

safeMint(l2, to, id) ==
  /\ ~Exists(l2, id)
  /\ to \notin Rejecting
  /\ l2Owner' = [l2Owner EXCEPT ![<<l2, id>>] = to]

burnToken(l2, id) ==
  /\ Exists(l2, id)
  /\ l2Owner' = [l2Owner EXCEPT ![<<l2, id>>] = NOBODY]

\* Bug: an L2 contract is taken for the counterpart of any L1 contract.
IsPair_Unchecked(l2, l1) == TRUE

IsPair(l2, l1) == l1 = remoteToken[l2]

finalizeOnL2(m) ==
  LET call == body[m] IN
  /\ m \in Pending
  /\ call.chain = L2
  /\ \/ /\ call.local \in Compliant
        /\ IsPair(call.local, call.remote)
        /\ safeMint(call.local, call.to, call.id)
     \/ call.local \notin Compliant /\ UNCHANGED l2Owner
  /\ Hand(m)
  /\ UNCHANGED <<l1Owner, deposits>>

initiateOnL2(l2, l1, from, to, id) ==
  /\ \/ /\ l2 \in Compliant
        /\ from = l2Owner[<<l2, id>>]
        /\ l1 = remoteToken[l2]
        /\ burnToken(l2, id)
     \/ l2 \notin Compliant /\ UNCHANGED l2Owner
  /\ Post([chain |-> L1, local |-> l1, remote |-> l2, id |-> id, to |-> to])
  /\ UNCHANGED <<l1Owner, deposits>>

-----------------------------------------------------------------------------
(* Tokens also change hands without the bridges, and may be given to one. *)

transferOnL1(l1, id, to) ==
  /\ l1Owner[<<l1, id>>] \in Users
  /\ l1Owner' = [l1Owner EXCEPT ![<<l1, id>>] = to]
  /\ UNCHANGED <<messageVars, l2Owner, deposits>>

transferOnL2(l2, id, to) ==
  /\ l2Owner[<<l2, id>>] \in Users
  /\ l2Owner' = [l2Owner EXCEPT ![<<l2, id>>] = to]
  /\ UNCHANGED <<messageVars, l1Owner, deposits>>

ERC721Next ==
  \/ \E l1 \in L1Tokens, l2 \in L2Tokens, from \in Users, to \in Users, id \in TokenIds :
       initiateOnL1(l1, l2, from, to, id) \/ initiateOnL2(l2, l1, from, to, id)
  \/ \E m \in Messages : finalizeOnL1(m) \/ finalizeOnL2(m)
  \/ \E l1 \in L1Tokens, id \in TokenIds, to \in Users \cup {BRIDGE} : transferOnL1(l1, id, to)
  \/ \E l2 \in Compliant, id \in TokenIds, to \in Users : transferOnL2(l2, id, to)

ERC721Spec == ERC721Init /\ [][ERC721Next]_erc721Vars
-----------------------------------------------------------------------------
(* Properties *)

\* The marks in deposits tell what the bridge holds: a marked token is the
\* bridge's to give, and it is marked for one L2 contract only.  Deposits that
\* no L2 contract accepts, foreign contracts and tokens given to the bridge do
\* not confuse it.
EscrowHeld ==
  /\ ERC721TypeOK
  /\ \A d \in deposits : l1Owner[<<d[1], d[3]>>] = BRIDGE
  /\ \A d, e \in deposits : d[1] = e[1] /\ d[3] = e[3] => d = e

\* What can be had from the escrow in the name of a compliant L2 contract: the
\* deposits it has yet to mint, the tokens it minted, the withdrawals on their
\* way to L1.
Claims(l1, l2, id) ==
  LET on(chain, local, remote) ==
        {m \in Pending : /\ body[m].chain = chain
                         /\ body[m].local = local /\ body[m].remote = remote
                         /\ body[m].id = id}
  IN  Cardinality(on(L2, l2, l1)) + Cardinality(on(L1, l1, l2))
        + IF remoteToken[l2] = l1 /\ Exists(l2, id) THEN 1 ELSE 0

\* A token is in one place: for each one that L1 holds for a compliant contract
\* there is one claim on it, wherever messages and owners are, and there are no
\* others.  So every L2 token can be taken back to L1, and no two of them are
\* for the same one.
OneClaimPerToken ==
  \A l1 \in L1Tokens, l2 \in Compliant, id \in TokenIds :
    Claims(l1, l2, id) = IF <<l1, l2, id>> \in deposits THEN 1 ELSE 0
=============================================================================
