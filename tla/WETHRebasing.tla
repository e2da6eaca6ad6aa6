---------------------------- MODULE WETHRebasing ----------------------------
(***************************************************************************)
(* contracts/L2/WETHRebasing.sol over native ether, which rebases itself:   *)
(* L2/Shares.sol keeps its share price, and the L2 client the native        *)
(* accounts.  The WETH contract is such an account, of mode AUTOMATIC for   *)
(* good; all others are taken together as the world.  Since WETH holders    *)
(* may opt out of yield, WETH has a share price of its own, which it takes  *)
(* from what it holds whenever Shares gets a report.                        *)
(*                                                                          *)
(* withdraw calls the account with the ether, after it has changed the      *)
(* book, and uses nothing of the state after the call: it is one step.      *)
(***************************************************************************)
EXTENDS ERC20Rebasing

CONSTANTS
  InitialEther,
  MaxEther               \* bound on all ether, with what is to be distributed

ASSUME WETHAssumption == InitialEther \in Nat /\ InitialPrice > 0 /\ MaxEther \in Nat

VARIABLES
  etherPrice,            \* price and pending of Shares
  etherPending,
  weth, world            \* native accounts

nativeVars == <<etherPrice, etherPending, weth, world>>
wethVars == <<rebasingVars, nativeVars>>

\* How the L2 client keeps and reads a native balance.
Native(value) == [shares |-> value \div etherPrice, remainder |-> value % etherPrice]

NativeBalanceAt(ether, account) == ether * account.shares + account.remainder

NativeBalance(account) == NativeBalanceAt(etherPrice, account)

WETHInit ==
  /\ RebasingInit
  /\ etherPrice = InitialPrice
  /\ etherPending = 0
  /\ world = [shares |-> InitialEther \div InitialPrice,
              remainder |-> InitialEther % InitialPrice]
  /\ weth = [shares |-> 0, remainder |-> 0]

moveEther(toWeth) ==
  /\ weth' = Native(NativeBalance(weth) + toWeth)
  /\ world' = Native(NativeBalance(world) - toWeth)
  /\ UNCHANGED <<etherPrice, etherPending>>

deposit(account, value) ==
  /\ value <= NativeBalance(world)
  /\ moveEther(value)
  /\ book' = Deposit(book, account, value)
  /\ UNCHANGED <<price, allowances, earned>>

withdraw(account, wad) ==
  /\ Affordable(account, wad)
  /\ wad <= NativeBalance(weth)
  /\ moveEther(-wad)
  /\ book' = Withdraw(book, account, wad)
  /\ UNCHANGED <<price, allowances, earned>>

\* Ether that reaches the contract without a call, as by a selfdestruct.
ForceEther(value) ==
  /\ value <= NativeBalance(world)
  /\ moveEther(value)
  /\ UNCHANGED rebasingVars

\* What the contract holds beyond the supply, with ether at the given price.
Surplus(ether) == NativeBalanceAt(ether, weth) - totalSupply

PriceWithSurplus(surplus) ==
  IF book.totalShares = 0 \/ surplus < book.totalShares
  THEN price ELSE price + surplus \div book.totalShares

\* Bug: WETH looks at its balance before the price of ether moves.
PriceSeen_Old(old, new) == old

PriceSeen(old, new) == new

\* A report to Shares, which passes it on.  It reverts if Surplus is negative.
reportValue(value) ==
  LET count == weth.shares + world.shares
      undistributed == etherPending + value
      distributed == count # 0 /\ undistributed >= count
      newPrice == IF distributed THEN etherPrice + undistributed \div count ELSE etherPrice
      surplus == Surplus(PriceSeen(etherPrice, newPrice))
  IN  /\ NativeBalance(weth) + NativeBalance(world) + undistributed <= MaxEther
      /\ surplus >= 0
      /\ etherPrice' = newPrice
      /\ etherPending' = IF distributed THEN undistributed % count ELSE undistributed
      /\ setPrice(PriceWithSurplus(surplus))
      /\ UNCHANGED <<weth, world>>

WETHNext ==
  \/ AccountStep /\ UNCHANGED nativeVars
  \/ \E a \in Accounts, value \in 1 .. MaxEther : deposit(a, value) \/ withdraw(a, value)
  \/ \E value \in 1 .. MaxEther : ForceEther(value)
  \/ \E value \in 0 .. MaxEther : reportValue(value)

WETHSpec == WETHInit /\ [][WETHNext]_wethVars
-----------------------------------------------------------------------------
WETHTypeOK ==
  /\ RebasingTypeOK
  /\ etherPrice \in Nat \ {0}
  /\ etherPending \in Nat
  /\ weth \in [shares : Nat, remainder : Nat]
  /\ world \in [shares : Nat, remainder : Nat]

\* The two share prices are rounded apart from each other, yet WETH never owes
\* more ether than it holds: every balance and every claim can be withdrawn, and
\* no report is turned away.
WETHSolvent == WETHTypeOK /\ NativeBalance(weth) >= totalSupply

\* A report leaves less than one unit per share of the contract's yield behind,
\* whatever rounding and opted-out accounts had left there before.
YieldReachesHolders ==
  [][\A value \in 0 .. MaxEther :
       reportValue(value) =>
         book.totalShares = 0 \/ (NativeBalance(weth) - totalSupply)' < book.totalShares]_wethVars
=============================================================================
