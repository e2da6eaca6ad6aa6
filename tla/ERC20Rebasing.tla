---------------------------- MODULE ERC20Rebasing ----------------------------
(***************************************************************************)
(* contracts/L2/ERC20Rebasing.sol on top of SharesBase (L2/Shares.sol): a   *)
(* token whose balances grow with a share price.  USDB.tla and              *)
(* WETHRebasing.tla are the two tokens.                                     *)
(*                                                                          *)
(* An account keeps whole shares and a remainder that bears no yield        *)
(* (AUTOMATIC, CLAIMABLE), and a fixed balance (VOID, CLAIMABLE).  The      *)
(* storage of the accounts and the two totals is the record book, which the *)
(* internal functions of the contract map to a new one, so that one         *)
(* transaction may call several.                                            *)
(***************************************************************************)
EXTENDS Integers, FiniteSetsExt, Functions

CONSTANTS
  Accounts,              \* without the zero address, which every operation rejects
  InitialPrice,
  Spenders,              \* the accounts that get allowances
  Approvals,             \* amounts that are approved
  Unlimited,             \* type(uint256).max
  MaxSupply              \* bound on supply and undistributed yield

ASSUME RebasingAssumption ==
  /\ IsFiniteSet(Accounts)
  /\ InitialPrice \in Nat
  /\ Spenders \subseteq Accounts
  /\ Approvals \subseteq Nat
  /\ Unlimited \notin Nat
  /\ MaxSupply \in Nat

AUTOMATIC == "AUTOMATIC"
VOID == "VOID"
CLAIMABLE == "CLAIMABLE"
YieldMode == {AUTOMATIC, VOID, CLAIMABLE}

VARIABLES
  price,
  book,                  \* the accounts, and totals over them
  allowances,
  earned                 \* history: yield of a CLAIMABLE account, not claimed

rebasingVars == <<price, book, allowances, earned>>

Books ==
  [shares : [Accounts -> Nat], remainders : [Accounts -> Nat],
   fixed : [Accounts -> Nat], yieldMode : [Accounts -> YieldMode],
   totalShares : Nat, totalVoidAndRemainders : Nat]

RebasingTypeOK ==
  /\ price \in Nat
  /\ book \in Books
  /\ allowances \in [Accounts -> [Spenders -> Nat \cup {Unlimited}]]
  /\ earned \in [Accounts -> Nat]

RebasingInit ==
  /\ price = InitialPrice
  /\ book = [shares |-> [a \in Accounts |-> 0], remainders |-> [a \in Accounts |-> 0],
             fixed |-> [a \in Accounts |-> 0],
             yieldMode |-> [a \in Accounts |-> AUTOMATIC],
             totalShares |-> 0, totalVoidAndRemainders |-> 0]
  /\ allowances = [a \in Accounts |-> [s \in Spenders |-> 0]]
  /\ earned = [a \in Accounts |-> 0]

-----------------------------------------------------------------------------
(* Reading a book *)

totalSupply == price * book.totalShares + book.totalVoidAndRemainders

ShareValue(b, a) == price * b.shares[a] + b.remainders[a]

balanceOf(b, a) ==
  IF b.yieldMode[a] = AUTOMATIC THEN ShareValue(b, a) ELSE b.fixed[a]

getClaimableAmount(b, a) == ShareValue(b, a) - b.fixed[a]

-----------------------------------------------------------------------------
(* Writing a book *)

SharesIn(value) == IF price = 0 THEN 0 ELSE value \div price

RemainderOf(value) == IF price = 0 THEN value ELSE value % price

UpdateBalance(b, a, value, newFixed) ==
  [b EXCEPT !.totalShares = @ + SharesIn(value) - b.shares[a],
            !.totalVoidAndRemainders = @ + RemainderOf(value) - b.remainders[a],
            !.shares[a] = SharesIn(value),
            !.remainders[a] = RemainderOf(value),
            !.fixed[a] = newFixed]

\* Bug: a transfer resets what is claimable.
KeptClaimable_Reset(b, a, amount) == amount

\* The yield a CLAIMABLE account has not claimed stays on top of its balance.
KeptClaimable(b, a, amount) == ShareValue(b, a) + amount - b.fixed[a]

SetBalance(b, a, amount, resetClaimable) ==
  CASE b.yieldMode[a] = AUTOMATIC -> UpdateBalance(b, a, amount, 0)
    [] b.yieldMode[a] = VOID -> UpdateBalance(b, a, 0, amount)
    [] b.yieldMode[a] = CLAIMABLE ->
         UpdateBalance(b, a, IF resetClaimable THEN amount ELSE KeptClaimable(b, a, amount),
                       amount)

AddVoid(b, a, amount) ==
  IF b.yieldMode[a] = VOID THEN [b EXCEPT !.totalVoidAndRemainders = @ + amount] ELSE b

Deposit(b, a, amount) ==
  AddVoid(SetBalance(b, a, balanceOf(b, a) + amount, FALSE), a, amount)

Withdraw(b, a, amount) ==
  AddVoid(SetBalance(b, a, balanceOf(b, a) - amount, FALSE), a, -amount)

BalanceToConfigure(b, a) ==
  IF b.yieldMode[a] = CLAIMABLE THEN ShareValue(b, a) ELSE balanceOf(b, a)

Configure(b, a, mode) ==
  LET balance == BalanceToConfigure(b, a)
      wasVoid == IF b.yieldMode[a] = VOID THEN b.fixed[a] ELSE 0
      isVoid  == IF mode = VOID THEN balance ELSE 0
  IN  [SetBalance([b EXCEPT !.yieldMode[a] = mode], a, balance, TRUE)
         EXCEPT !.totalVoidAndRemainders = @ - wasVoid + isVoid]

-----------------------------------------------------------------------------
(* Operations of an account *)

Affordable(account, amount) == amount <= balanceOf(book, account)

transfer(from, to, amount) ==
  /\ Affordable(from, amount)
  /\ book' = Deposit(Withdraw(book, from, amount), to, amount)
  /\ UNCHANGED <<price, allowances, earned>>

\* Also by a signature (ERC20PermitUpgradeable.permit).
approve(owner, spender, amount) ==
  /\ allowances' = [allowances EXCEPT ![owner][spender] = amount]
  /\ UNCHANGED <<price, book, earned>>

transferFrom(spender, from, to, amount) ==
  LET current == allowances[from][spender] IN
  /\ \/ current = Unlimited /\ UNCHANGED allowances
     \/ /\ current # Unlimited /\ amount <= current
        /\ allowances' = [allowances EXCEPT ![from][spender] = @ - amount]
  /\ Affordable(from, amount)
  /\ book' = Deposit(Withdraw(book, from, amount), to, amount)
  /\ UNCHANGED <<price, earned>>

AfterClaim(b, a, amount) == UpdateBalance(b, a, ShareValue(b, a) - amount, b.fixed[a])

claim(account, recipient, amount) ==
  /\ book.yieldMode[account] = CLAIMABLE
  /\ amount <= getClaimableAmount(book, account)
  /\ book' = Deposit(AfterClaim(book, account, amount), recipient, amount)
  /\ earned' = [earned EXCEPT ![account] = @ - amount]
  /\ UNCHANGED <<price, allowances>>

configure(account, mode) ==
  /\ book' = Configure(book, account, mode)
  /\ earned' = [earned EXCEPT ![account] = 0]
  /\ UNCHANGED <<price, allowances>>

\* What an account does; the supply stays the same.
AccountStep ==
  \E a \in Accounts :
    \/ \E to \in Accounts, amount \in 0 .. MaxSupply : transfer(a, to, amount)
    \/ \E spender \in Spenders, amount \in Approvals \cup {Unlimited} : approve(a, spender, amount)
    \/ \E to \in Accounts, spender \in Spenders, amount \in 0 .. MaxSupply :
         transferFrom(spender, a, to, amount)
    \/ \E recipient \in Accounts, amount \in 0 .. MaxSupply : claim(a, recipient, amount)
    \/ \E mode \in YieldMode : configure(a, mode)

-----------------------------------------------------------------------------
(* A new price, set by the inheriting contract *)

setPrice(newPrice) ==
  /\ price' = newPrice
  /\ earned' = [a \in Accounts |->
                  IF book.yieldMode[a] = CLAIMABLE
                  THEN earned[a] + (newPrice - price) * book.shares[a] ELSE earned[a]]
  /\ UNCHANGED <<book, allowances>>

-----------------------------------------------------------------------------
(* Properties *)

\* What an account holds that bears no yield and is part of the supply.
VoidAndRemainder(b, a) ==
  b.remainders[a] + IF b.yieldMode[a] = VOID THEN b.fixed[a] ELSE 0

\* The totals, which the price and the supply are computed from, are what the
\* accounts hold, through all changes of mode, with fixed balances counted for
\* VOID accounts only; and no account holds less than nothing.
TotalsMatchAccounts ==
  /\ RebasingTypeOK
  /\ book.totalShares = SumFunctionOnSet(book.shares, Accounts)
  /\ book.totalVoidAndRemainders =
       SumFunctionOnSet([a \in Accounts |-> VoidAndRemainder(book, a)], Accounts)

\* The claimable amount of a CLAIMABLE account is all the yield it got since it
\* chose that mode less what it claimed: transfers in and out at any price leave
\* it alone, and the subtraction never fails.
ClaimableIsEarned ==
  \A a \in Accounts :
    book.yieldMode[a] = CLAIMABLE => getClaimableAmount(book, a) = earned[a]
=============================================================================
