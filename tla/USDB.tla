-------------------------------- MODULE USDB --------------------------------
(***************************************************************************)
(* contracts/L2/USDB.sol: the rebasing token whose yield is reported by     *)
(* USDYieldManager, and which the L2 bridge mints and burns.  Reports are   *)
(* spread over the shares of L2/Shares.sol:SharesBase; what does not make a *)
(* whole price step is pending.                                             *)
(***************************************************************************)
EXTENDS ERC20Rebasing

VARIABLES
  pending,
  supplied               \* history: minted, less burned, plus reported

usdbVars == <<rebasingVars, pending, supplied>>

USDBInit ==
  /\ RebasingInit
  /\ pending = 0
  /\ supplied = 0

mint(to, amount) ==
  /\ supplied + amount <= MaxSupply
  /\ book' = Deposit(book, to, amount)
  /\ supplied' = supplied + amount
  /\ UNCHANGED <<price, allowances, earned, pending>>

burn(from, amount) ==
  /\ Affordable(from, amount)
  /\ book' = Withdraw(book, from, amount)
  /\ supplied' = supplied - amount
  /\ UNCHANGED <<price, allowances, earned, pending>>

\* Bug: the rest of the division is dropped.
PendingAfter_Dropped(undistributed) ==
  IF book.totalShares = 0 \/ undistributed < book.totalShares THEN undistributed ELSE 0

PendingAfter(undistributed) ==
  IF book.totalShares = 0 \/ undistributed < book.totalShares
  THEN undistributed ELSE undistributed % book.totalShares

PriceAfter(undistributed) ==
  IF book.totalShares = 0 \/ undistributed < book.totalShares
  THEN price ELSE price + undistributed \div book.totalShares

\* A report of 0 distributes what is pending.
addValue(value) ==
  /\ supplied + value <= MaxSupply
  /\ setPrice(PriceAfter(pending + value))
  /\ pending' = PendingAfter(pending + value)
  /\ supplied' = supplied + value

USDBNext ==
  \/ AccountStep /\ UNCHANGED <<pending, supplied>>
  \/ \E a \in Accounts, amount \in 0 .. MaxSupply : mint(a, amount) \/ burn(a, amount)
  \/ \E value \in 0 .. MaxSupply : addValue(value)

USDBSpec == USDBInit /\ [][USDBNext]_usdbVars
-----------------------------------------------------------------------------
USDBTypeOK == RebasingTypeOK /\ pending \in Nat /\ supplied \in Nat

\* Nothing is created or lost on L2 by rounding, modes or claims: supply and
\* pending yield are to the last unit what L1 locked and reported.
SupplyIsBacked == USDBTypeOK /\ totalSupply + pending = supplied
=============================================================================
