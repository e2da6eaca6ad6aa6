---------------------------- MODULE LedgersProofs ----------------------------
(***************************************************************************)
(* The five systems that keep books, for any accounts, contracts, tokens,   *)
(* amounts, prices and configurations.                                      *)
(*                                                                          *)
(* The rebasing tokens: every operation rewrites one account of the book,   *)
(* or two one after the other.  SetBook says how, and what that does to the *)
(* totals, the supply and what may be claimed.  BookOK is inductive: a VOID *)
(* account has no shares and a CLAIMABLE one is worth its fixed balance at  *)
(* least, so no subtraction falls below zero.  USDB adds that reports lose  *)
(* nothing, WETH that it owes at most the ether it holds.                   *)
(*                                                                          *)
(* Gas: the balance is the sum over the contracts, and every claim takes at *)
(* least the ether-seconds it redeems.  ResourceMetering: a deposit of this *)
(* block has made the counter its own, so what was bought is what is        *)
(* counted; over n empty blocks the fee stays at or above its first value   *)
(* times (1 - 1/d)^n, and less than n above it.  The ERC721 bridges: a step *)
(* adds or removes as many claims on a token as marks in the deposits.      *)
(***************************************************************************)
EXTENDS MC_Ledgers, RecursionTheorems, SequenceTheorems

-----------------------------------------------------------------------------
(* The rebasing tokens *)

Matches(b) ==
  /\ b.totalShares = SumFunctionOnSet(b.shares, Accounts)
  /\ b.totalVoidAndRemainders =
       SumFunctionOnSet([a \in Accounts |-> VoidAndRemainder(b, a)], Accounts)

BookOK(b) ==
  /\ b \in Books
  /\ Matches(b)
  /\ \A a \in Accounts :
       /\ b.yieldMode[a] = VOID => b.shares[a] = 0 /\ b.remainders[a] = 0
       /\ b.yieldMode[a] = CLAIMABLE => b.fixed[a] <= ShareValue(b, a)

Supply(b) == price * b.totalShares + b.totalVoidAndRemainders

\* What the account counts for in the supply.
Worth(b, a) == price * b.shares[a] + VoidAndRemainder(b, a)

\* A book in which one account is written anew.
SetBook(b, a, mode, value, newFixed) ==
  [shares |-> [b.shares EXCEPT ![a] = SharesIn(value)],
   remainders |-> [b.remainders EXCEPT ![a] = RemainderOf(value)],
   fixed |-> [b.fixed EXCEPT ![a] = newFixed],
   yieldMode |-> [b.yieldMode EXCEPT ![a] = mode],
   totalShares |-> b.totalShares - b.shares[a] + SharesIn(value),
   totalVoidAndRemainders |-> b.totalVoidAndRemainders - VoidAndRemainder(b, a)
                                + RemainderOf(value) + IF mode = VOID THEN newFixed ELSE 0]

-----------------------------------------------------------------------------
(* Writing one account *)

\* Whole shares and the remainder are worth what they were made of.
LEMMA SharesAndRemainder ==
  ASSUME price \in Nat, NEW value \in Nat
  PROVE  /\ SharesIn(value) \in Nat /\ RemainderOf(value) \in Nat
         /\ price * SharesIn(value) + RemainderOf(value) = value
         /\ value = 0 => SharesIn(value) = 0 /\ RemainderOf(value) = 0
<1>1. CASE price = 0
  BY <1>1 DEF SharesIn, RemainderOf
<1>2. CASE price # 0
  <2>1. \A x \in Nat, d \in Nat \ {0} : x \div d \in Nat /\ x % d \in Nat
    OBVIOUS
  <2>2. value % price = value - price * (value \div price)
    BY <1>2
  <2>3. \A d \in Nat \ {0} : 0 \div d = 0 /\ 0 % d = 0
    OBVIOUS
  <2>4. \A x, y \in Nat : x - y + y = x /\ y + (x - y) = x
    OBVIOUS
  <2>5. price * (value \div price) \in Nat
    BY <1>2, <2>1
  <2> QED BY <1>2, <2>1, <2>2, <2>3, <2>4, <2>5 DEF SharesIn, RemainderOf
<1> QED BY <1>1, <1>2

\* The fields of a book are numbers, and so is what an account is worth.
LEMMA BookFields ==
  ASSUME price \in Nat, NEW b \in Books, NEW a \in Accounts
  PROVE  /\ b.shares[a] \in Nat /\ b.remainders[a] \in Nat /\ b.fixed[a] \in Nat
         /\ b.yieldMode[a] \in YieldMode
         /\ b.totalShares \in Nat /\ b.totalVoidAndRemainders \in Nat
         /\ VoidAndRemainder(b, a) \in Nat /\ ShareValue(b, a) \in Nat
         /\ price * b.shares[a] \in Nat /\ price * b.totalShares \in Nat
<1>1. /\ b.shares[a] \in Nat /\ b.remainders[a] \in Nat /\ b.fixed[a] \in Nat
      /\ b.yieldMode[a] \in YieldMode
      /\ b.totalShares \in Nat /\ b.totalVoidAndRemainders \in Nat
  BY DEF Books
<1>2. price * b.shares[a] \in Nat /\ price * b.totalShares \in Nat
  <2>1. \A x \in Nat : price * x \in Nat
    OBVIOUS
  <2> QED BY <1>1, <2>1
<1>3. VoidAndRemainder(b, a) \in Nat
  BY <1>1 DEF VoidAndRemainder
<1>4. ShareValue(b, a) \in Nat
  BY <1>1, <1>2 DEF ShareValue
<1> QED BY <1>1, <1>2, <1>3, <1>4

\* Writing an account keeps the book, and adds to the supply what the account gains.
LEMMA SetBookOK ==
  ASSUME price \in Nat, NEW b, BookOK(b), NEW a \in Accounts, NEW mode \in YieldMode,
         NEW value \in Nat, NEW newFixed \in Nat,
         mode = VOID => value = 0,
         mode = CLAIMABLE => newFixed <= value
  PROVE  LET n == SetBook(b, a, mode, value, newFixed) IN
         /\ BookOK(n)
         /\ n.yieldMode = [b.yieldMode EXCEPT ![a] = mode]
         /\ Supply(n) = Supply(b) - Worth(b, a) + value + IF mode = VOID THEN newFixed ELSE 0
         /\ getClaimableAmount(n, a) = value - newFixed
         /\ \A x \in Accounts : x # a =>
              /\ getClaimableAmount(n, x) = getClaimableAmount(b, x)
              /\ balanceOf(n, x) = balanceOf(b, x)
<1> DEFINE n == SetBook(b, a, mode, value, newFixed)
           s == SharesIn(value)
           r == RemainderOf(value)
           v == IF mode = VOID THEN newFixed ELSE 0
<1>1. /\ s \in Nat /\ r \in Nat /\ price * s + r = value /\ v \in Nat
      /\ value = 0 => s = 0 /\ r = 0
  BY SharesAndRemainder
<1>2. /\ b \in Books /\ Matches(b) /\ IsFiniteSet(Accounts)
      /\ \A x \in Accounts :
           /\ b.shares[x] \in Nat /\ b.remainders[x] \in Nat /\ b.fixed[x] \in Nat
           /\ VoidAndRemainder(b, x) \in Nat /\ ShareValue(b, x) \in Nat
      /\ b.totalShares \in Nat /\ b.totalVoidAndRemainders \in Nat
  BY RebasingAssumption, BookFields DEF BookOK
<1>3. /\ n.shares = [b.shares EXCEPT ![a] = s]
      /\ n.remainders = [b.remainders EXCEPT ![a] = r]
      /\ n.fixed = [b.fixed EXCEPT ![a] = newFixed]
      /\ n.yieldMode = [b.yieldMode EXCEPT ![a] = mode]
      /\ n.totalShares = b.totalShares - b.shares[a] + s
      /\ n.totalVoidAndRemainders = b.totalVoidAndRemainders - VoidAndRemainder(b, a) + r + v
  BY DEF SetBook
<1>4. /\ b.shares \in [Accounts -> Nat] /\ b.remainders \in [Accounts -> Nat]
      /\ b.fixed \in [Accounts -> Nat] /\ b.yieldMode \in [Accounts -> YieldMode]
  BY <1>2 DEF Books
<1>5. /\ n.shares \in [Accounts -> Nat] /\ n.remainders \in [Accounts -> Nat]
      /\ n.fixed \in [Accounts -> Nat] /\ n.yieldMode \in [Accounts -> YieldMode]
  <2> HIDE DEF n, s, r, v
  <2>1. \A D, f, x : f \in [Accounts -> D] /\ x \in D => [f EXCEPT ![a] = x] \in [Accounts -> D]
    OBVIOUS
  <2>2. n.shares \in [Accounts -> Nat]
    BY <1>1, <1>3, <1>4, <2>1
  <2>3. n.remainders \in [Accounts -> Nat]
    BY <1>1, <1>3, <1>4, <2>1
  <2>4. n.fixed \in [Accounts -> Nat]
    BY <1>3, <1>4, <2>1
  <2>5. n.yieldMode \in [Accounts -> YieldMode]
    BY <1>3, <1>4, <2>1
  <2> QED BY <2>2, <2>3, <2>4, <2>5
<1>6. /\ n.shares[a] = s /\ n.remainders[a] = r /\ n.fixed[a] = newFixed /\ n.yieldMode[a] = mode
      /\ \A x \in Accounts : x # a =>
           /\ n.shares[x] = b.shares[x] /\ n.remainders[x] = b.remainders[x]
           /\ n.fixed[x] = b.fixed[x] /\ n.yieldMode[x] = b.yieldMode[x]
  BY <1>3, <1>4
<1>7. n = [shares |-> n.shares, remainders |-> n.remainders, fixed |-> n.fixed,
           yieldMode |-> n.yieldMode, totalShares |-> n.totalShares,
           totalVoidAndRemainders |-> n.totalVoidAndRemainders]
  BY DEF SetBook
<1> HIDE DEF n, s, r, v
<1>8. VoidAndRemainder(n, a) = r + v
      /\ \A x \in Accounts : x # a => VoidAndRemainder(n, x) = VoidAndRemainder(b, x)
  BY <1>6 DEF VoidAndRemainder, v
<1>9. \A x \in Accounts : x # a => ShareValue(n, x) = ShareValue(b, x)
  BY <1>6 DEF ShareValue
<1>10. ShareValue(n, a) = value
  BY <1>1, <1>6 DEF ShareValue
<1>11. n.totalShares = SumFunctionOnSet(n.shares, Accounts) /\ n.totalShares \in Nat
  <2>1. /\ \A x \in Accounts : b.shares[x] \in Int
        /\ \A x \in Accounts : n.shares[x] \in Nat
        /\ n.shares[a] \in Int
        /\ \A x \in Accounts : x # a => n.shares[x] = b.shares[x]
    BY <1>2, <1>5, <1>6
  <2>2. SumFunctionOnSet(n.shares, Accounts)
          = SumFunctionOnSet(b.shares, Accounts) - b.shares[a] + n.shares[a]
    BY <1>2, <2>1, SumChange
  <2>3. SumFunctionOnSet(n.shares, Accounts) \in Nat
    BY <1>2, <2>1, SumNat
  <2> QED BY <1>2, <1>3, <1>6, <2>2, <2>3 DEF Matches
<1>12. /\ n.totalVoidAndRemainders
            = SumFunctionOnSet([x \in Accounts |-> VoidAndRemainder(n, x)], Accounts)
       /\ n.totalVoidAndRemainders \in Nat
  <2> DEFINE f == [x \in Accounts |-> VoidAndRemainder(b, x)]
             g == [x \in Accounts |-> VoidAndRemainder(n, x)]
  <2>1. /\ \A x \in Accounts : f[x] \in Int
        /\ \A x \in Accounts : g[x] \in Nat
        /\ g[a] \in Int /\ g[a] = r + v /\ f[a] = VoidAndRemainder(b, a)
        /\ \A x \in Accounts : x # a => g[x] = f[x]
    BY <1>1, <1>2, <1>8
  <2>2. b.totalVoidAndRemainders = SumFunctionOnSet(f, Accounts)
    BY <1>2 DEF Matches
  <2> HIDE DEF f, g
  <2>3. SumFunctionOnSet(g, Accounts) = SumFunctionOnSet(f, Accounts) - f[a] + g[a]
    BY <1>2, <2>1, SumChange
  <2>4. SumFunctionOnSet(g, Accounts) \in Nat
    BY <1>2, <2>1, SumNat
  <2>5. n.totalVoidAndRemainders = SumFunctionOnSet(g, Accounts)
    BY <1>1, <1>2, <1>3, <2>1, <2>2, <2>3
  <2> QED BY <2>4, <2>5 DEF g
<1>13. n \in Books
  BY <1>5, <1>7, <1>11, <1>12 DEF Books
<1>14. BookOK(n)
  <2>1. ASSUME NEW x \in Accounts
        PROVE  /\ n.yieldMode[x] = VOID => n.shares[x] = 0 /\ n.remainders[x] = 0
               /\ n.yieldMode[x] = CLAIMABLE => n.fixed[x] <= ShareValue(n, x)
    BY <1>1, <1>6, <1>9, <1>10 DEF BookOK
  <2> QED BY <1>11, <1>12, <1>13, <2>1 DEF BookOK, Matches
<1>15. Supply(n) = Supply(b) - Worth(b, a) + value + v
  <2>1. price * n.totalShares = price * b.totalShares - price * b.shares[a] + price * s
    <3>1. \A x, y, z \in Nat : price * (x - y + z) = price * x - price * y + price * z
      OBVIOUS
    <3> QED BY <1>1, <1>2, <1>3, <3>1
  <2>2. \A x \in Nat : price * x \in Nat
    OBVIOUS
  <2> DEFINE p1 == price * b.totalShares
             p2 == price * b.shares[a]
             p3 == price * s
  <2>3. p1 \in Nat /\ p2 \in Nat /\ p3 \in Nat /\ p3 + r = value
    BY <1>1, <1>2, <2>2
  <2>4. Supply(n) = p1 - p2 + p3 + (b.totalVoidAndRemainders - VoidAndRemainder(b, a) + r + v)
    BY <1>3, <2>1 DEF Supply
  <2>5. Supply(b) = p1 + b.totalVoidAndRemainders /\ Worth(b, a) = p2 + VoidAndRemainder(b, a)
    BY DEF Supply, Worth
  <2> HIDE DEF p1, p2, p3
  <2> QED BY <1>1, <1>2, <2>3, <2>4, <2>5
<1>16. getClaimableAmount(n, a) = value - newFixed
  BY <1>6, <1>10 DEF getClaimableAmount
<1>17. \A x \in Accounts : x # a =>
         /\ getClaimableAmount(n, x) = getClaimableAmount(b, x)
         /\ balanceOf(n, x) = balanceOf(b, x)
  BY <1>6, <1>9 DEF getClaimableAmount, balanceOf
<1> QED BY <1>3, <1>14, <1>15, <1>16, <1>17 DEF n, v

-----------------------------------------------------------------------------
(* The operations on a book *)

\* A deposit or a withdrawal, of amount or -amount.
Move(b, a, amount) == AddVoid(SetBalance(b, a, balanceOf(b, a) + amount, FALSE), a, amount)

WithMode(b, a, mode) == [b EXCEPT !.yieldMode[a] = mode]

VoidPart(mode, amount) == IF mode = VOID THEN amount ELSE 0

\* What the callers of UpdateBalance add to the second total.
Adjust(b, extra) == [b EXCEPT !.totalVoidAndRemainders = @ + extra]

\* Writes by UpdateBalance, with what the callers add to the second total.
LEMMA UpdateIsSet ==
  ASSUME price \in Nat, NEW b \in Books, NEW a \in Accounts, NEW mode \in YieldMode,
         NEW value \in Nat, NEW newFixed \in Nat, NEW extra \in Int,
         extra = VoidPart(mode, newFixed) - VoidPart(b.yieldMode[a], b.fixed[a]),
         NEW n, n = UpdateBalance(WithMode(b, a, mode), a, value, newFixed)
  PROVE  Adjust(n, extra) = SetBook(b, a, mode, value, newFixed)
<1> DEFINE u == Adjust(n, extra)
           t == SetBook(b, a, mode, value, newFixed)
<1>1. /\ SharesIn(value) \in Nat /\ RemainderOf(value) \in Nat
      /\ b.shares[a] \in Nat /\ b.remainders[a] \in Nat /\ b.fixed[a] \in Nat
      /\ b.totalShares \in Nat /\ b.totalVoidAndRemainders \in Nat
  BY SharesAndRemainder, BookFields
<1>2. b = [shares |-> b.shares, remainders |-> b.remainders, fixed |-> b.fixed,
           yieldMode |-> b.yieldMode, totalShares |-> b.totalShares,
           totalVoidAndRemainders |-> b.totalVoidAndRemainders]
  BY DEF Books
<1>3. n = [shares |-> [b.shares EXCEPT ![a] = SharesIn(value)],
           remainders |-> [b.remainders EXCEPT ![a] = RemainderOf(value)],
           fixed |-> [b.fixed EXCEPT ![a] = newFixed],
           yieldMode |-> [b.yieldMode EXCEPT ![a] = mode],
           totalShares |-> b.totalShares + SharesIn(value) - b.shares[a],
           totalVoidAndRemainders |-> b.totalVoidAndRemainders + RemainderOf(value) - b.remainders[a]]
  BY <1>2 DEF UpdateBalance, WithMode
<1>4. u = [shares |-> n.shares, remainders |-> n.remainders, fixed |-> n.fixed,
           yieldMode |-> n.yieldMode, totalShares |-> n.totalShares,
           totalVoidAndRemainders |-> n.totalVoidAndRemainders + extra]
  BY <1>3 DEF Adjust
<1>5. n.totalShares = b.totalShares - b.shares[a] + SharesIn(value)
  BY <1>1, <1>3
<1>6. n.totalVoidAndRemainders + extra
        = b.totalVoidAndRemainders - VoidAndRemainder(b, a)
            + RemainderOf(value) + IF mode = VOID THEN newFixed ELSE 0
  BY <1>1, <1>3 DEF VoidAndRemainder, VoidPart
<1> QED BY <1>3, <1>4, <1>5, <1>6 DEF SetBook

\* Nothing is added by a write that keeps the mode.
LEMMA SameMode ==
  ASSUME NEW b \in Books, NEW a \in Accounts
  PROVE  WithMode(b, a, b.yieldMode[a]) = b
<1>1. b = [shares |-> b.shares, remainders |-> b.remainders, fixed |-> b.fixed,
           yieldMode |-> b.yieldMode, totalShares |-> b.totalShares,
           totalVoidAndRemainders |-> b.totalVoidAndRemainders]
      /\ b.yieldMode \in [Accounts -> YieldMode]
  BY DEF Books
<1>2. [b.yieldMode EXCEPT ![a] = b.yieldMode[a]] = b.yieldMode
  BY <1>1
<1> QED BY <1>1, <1>2 DEF WithMode

\* The modes are three.
LEMMA ModesDiffer == AUTOMATIC # VOID /\ AUTOMATIC # CLAIMABLE /\ VOID # CLAIMABLE
BY DEF AUTOMATIC, VOID, CLAIMABLE

\* A write adds nothing more when the account is not VOID, before or after.
LEMMA UpdateIsSetOnly ==
  ASSUME price \in Nat, NEW b \in Books, NEW a \in Accounts,
         NEW value \in Nat, NEW newFixed \in Nat, b.yieldMode[a] # VOID
  PROVE  UpdateBalance(b, a, value, newFixed) = SetBook(b, a, b.yieldMode[a], value, newFixed)
<1> DEFINE u == UpdateBalance(b, a, value, newFixed)
           mode == b.yieldMode[a]
<1>1. /\ RemainderOf(value) \in Nat /\ b.remainders[a] \in Nat
      /\ b.totalVoidAndRemainders \in Nat /\ mode \in YieldMode
  BY SharesAndRemainder, BookFields
<1>2. b = [shares |-> b.shares, remainders |-> b.remainders, fixed |-> b.fixed,
           yieldMode |-> b.yieldMode, totalShares |-> b.totalShares,
           totalVoidAndRemainders |-> b.totalVoidAndRemainders]
  BY DEF Books
<1>3. /\ u = [u EXCEPT !.totalVoidAndRemainders = u.totalVoidAndRemainders]
      /\ u.totalVoidAndRemainders
           = b.totalVoidAndRemainders + RemainderOf(value) - b.remainders[a]
  BY <1>2 DEF UpdateBalance
<1>4. u.totalVoidAndRemainders + 0 = u.totalVoidAndRemainders
  BY <1>1, <1>3
<1>5. u = UpdateBalance(WithMode(b, a, mode), a, value, newFixed)
  BY SameMode
<1>6. 0 = VoidPart(mode, newFixed) - VoidPart(b.yieldMode[a], b.fixed[a]) /\ 0 \in Int
  BY DEF VoidPart
<1>7. mode = b.yieldMode[a]
  OBVIOUS
<1> HIDE DEF u, mode
<1>8. Adjust(u, 0) = SetBook(b, a, mode, value, newFixed)
  BY <1>1, <1>5, <1>6, UpdateIsSet
<1>9. Adjust(u, 0) = u
  BY <1>3, <1>4 DEF Adjust
<1> QED BY <1>7, <1>8, <1>9 DEF u

\* Deposits and withdrawals change the supply by their amount, and leave alone the
\* modes and what may be claimed.
LEMMA MoveOK ==
  ASSUME price \in Nat, NEW b, BookOK(b), NEW a \in Accounts, NEW amount \in Int,
         balanceOf(b, a) + amount >= 0
  PROVE  LET n == Move(b, a, amount) IN
         /\ BookOK(n)
         /\ n.yieldMode = b.yieldMode
         /\ Supply(n) = Supply(b) + amount
         /\ \A x \in Accounts :
              b.yieldMode[x] = CLAIMABLE => getClaimableAmount(n, x) = getClaimableAmount(b, x)
         /\ \A x \in Accounts : x # a => balanceOf(n, x) = balanceOf(b, x)
<1> DEFINE mode == b.yieldMode[a]
           value == CASE mode = AUTOMATIC -> balanceOf(b, a) + amount
                      [] mode = VOID -> 0
                      [] mode = CLAIMABLE -> KeptClaimable(b, a, balanceOf(b, a) + amount)
           newFixed == IF mode = AUTOMATIC THEN 0 ELSE balanceOf(b, a) + amount
           n == Move(b, a, amount)
           t == SetBook(b, a, mode, value, newFixed)
           extra == IF mode = VOID THEN amount ELSE 0
           u == UpdateBalance(b, a, value, newFixed)
<1>1. /\ b \in Books /\ mode \in YieldMode
      /\ b.shares[a] \in Nat /\ b.remainders[a] \in Nat /\ b.fixed[a] \in Nat
      /\ b.totalShares \in Nat /\ b.totalVoidAndRemainders \in Nat
      /\ ShareValue(b, a) \in Nat /\ VoidAndRemainder(b, a) \in Nat
      /\ price * b.totalShares \in Nat /\ price * b.shares[a] \in Nat
  BY BookFields DEF BookOK
<1>2. /\ mode = VOID => b.shares[a] = 0 /\ b.remainders[a] = 0
      /\ mode = CLAIMABLE => b.fixed[a] <= ShareValue(b, a)
  BY DEF BookOK
<1>3. /\ mode = AUTOMATIC => balanceOf(b, a) = ShareValue(b, a)
      /\ mode # AUTOMATIC => balanceOf(b, a) = b.fixed[a]
  BY DEF balanceOf
<1>4. \/ /\ mode = AUTOMATIC /\ mode # VOID /\ mode # CLAIMABLE
         /\ value = ShareValue(b, a) + amount /\ newFixed = 0
      \/ /\ mode = VOID /\ mode # AUTOMATIC /\ mode # CLAIMABLE
         /\ value = 0 /\ newFixed = b.fixed[a] + amount
      \/ /\ mode = CLAIMABLE /\ mode # AUTOMATIC /\ mode # VOID
         /\ value = ShareValue(b, a) + (b.fixed[a] + amount) - b.fixed[a]
         /\ newFixed = b.fixed[a] + amount
  BY <1>1, <1>3, ModesDiffer DEF YieldMode, KeptClaimable
<1>5. SetBalance(b, a, balanceOf(b, a) + amount, FALSE) = u
  BY <1>3, <1>4 DEF SetBalance
<1>6. u.yieldMode = b.yieldMode
  <2>1. b = [shares |-> b.shares, remainders |-> b.remainders, fixed |-> b.fixed,
             yieldMode |-> b.yieldMode, totalShares |-> b.totalShares,
             totalVoidAndRemainders |-> b.totalVoidAndRemainders]
    BY <1>1 DEF Books
  <2> QED BY <2>1 DEF UpdateBalance
<1> HIDE DEF value, newFixed
<1>7. value \in Nat /\ newFixed \in Nat
      /\ (mode = VOID => value = 0) /\ (mode = CLAIMABLE => newFixed <= value)
  <2>1. balanceOf(b, a) + amount >= 0
    OBVIOUS
  <2> QED BY <1>1, <1>2, <1>3, <1>4, <2>1
<1>8. extra = (IF mode = VOID THEN newFixed ELSE 0) - (IF mode = VOID THEN b.fixed[a] ELSE 0)
      /\ extra \in Int
  BY <1>1, <1>4
<1>9. Adjust(u, extra) = t
  <2>1. u = UpdateBalance(WithMode(b, a, mode), a, value, newFixed)
    BY <1>1, SameMode
  <2>2. extra = VoidPart(mode, newFixed) - VoidPart(b.yieldMode[a], b.fixed[a])
    BY <1>8 DEF VoidPart
  <2> HIDE DEF u, extra, mode
  <2> QED BY <1>1, <1>7, <1>8, <2>1, <2>2, UpdateIsSet DEF t
<1>10. n = t
  <2>1. CASE mode = VOID
    BY <1>5, <1>6, <1>9, <2>1 DEF Move, AddVoid, Adjust
  <2>2. CASE mode # VOID
    <3>1. n = u
      BY <1>5, <1>6, <2>2 DEF Move, AddVoid
    <3> QED BY <1>1, <1>7, <2>2, <3>1, UpdateIsSetOnly
  <2> QED BY <2>1, <2>2
<1> HIDE DEF n, t, mode
<1>11. /\ BookOK(t)
       /\ t.yieldMode = [b.yieldMode EXCEPT ![a] = mode]
       /\ Supply(t) = Supply(b) - Worth(b, a) + value + IF mode = VOID THEN newFixed ELSE 0
       /\ getClaimableAmount(t, a) = value - newFixed
       /\ \A x \in Accounts : x # a =>
            /\ getClaimableAmount(t, x) = getClaimableAmount(b, x)
            /\ balanceOf(t, x) = balanceOf(b, x)
  BY <1>1, <1>7, SetBookOK DEF t
<1>12. t.yieldMode = b.yieldMode
  <2>1. b.yieldMode \in [Accounts -> YieldMode]
    BY <1>1 DEF Books
  <2> QED BY <1>11, <2>1 DEF mode
<1>13. Supply(t) = Supply(b) + amount
  <2>1. Worth(b, a) = IF mode = VOID THEN b.fixed[a] ELSE ShareValue(b, a)
    <3>1. CASE mode = VOID
      <4>1. b.shares[a] = 0 /\ b.remainders[a] = 0 /\ price * 0 = 0
        BY <1>2, <3>1
      <4> QED BY <1>1, <3>1, <4>1 DEF Worth, VoidAndRemainder, mode
    <3>2. CASE mode # VOID
      BY <1>1, <3>2 DEF Worth, VoidAndRemainder, ShareValue, mode
    <3> QED BY <3>1, <3>2
  <2>2. Supply(b) \in Nat
    BY <1>1 DEF Supply
  <2> QED BY <1>1, <1>4, <1>11, <2>1, <2>2
<1>14. mode = CLAIMABLE => getClaimableAmount(t, a) = getClaimableAmount(b, a)
  <2>1. mode = CLAIMABLE => value - newFixed = ShareValue(b, a) - b.fixed[a]
    BY <1>1, <1>4
  <2> QED BY <1>11, <2>1 DEF getClaimableAmount
<1> QED BY <1>10, <1>11, <1>12, <1>13, <1>14 DEF n, mode

\* The three operations are such moves.
LEMMA MovesAre ==
  ASSUME price \in Nat, NEW b, BookOK(b), NEW a \in Accounts, NEW amount \in Nat
  PROVE  /\ balanceOf(b, a) \in Nat
         /\ Deposit(b, a, amount) = Move(b, a, amount)
         /\ Withdraw(b, a, amount) = Move(b, a, -amount)
<1>1. balanceOf(b, a) \in Nat
  BY BookFields DEF BookOK, balanceOf
<1>2. balanceOf(b, a) - amount = balanceOf(b, a) + (-amount)
  BY <1>1
<1> QED BY <1>1, <1>2 DEF Deposit, Withdraw, Move

\* A transfer creates nothing and takes no yield from anyone.
LEMMA TransferOK ==
  ASSUME price \in Nat, NEW b, BookOK(b), NEW from \in Accounts, NEW to \in Accounts,
         NEW amount \in Nat, amount <= balanceOf(b, from)
  PROVE  LET n == Deposit(Withdraw(b, from, amount), to, amount) IN
         /\ BookOK(n)
         /\ n.yieldMode = b.yieldMode
         /\ Supply(n) = Supply(b)
         /\ \A x \in Accounts :
              b.yieldMode[x] = CLAIMABLE => getClaimableAmount(n, x) = getClaimableAmount(b, x)
<1> DEFINE w == Withdraw(b, from, amount)
           n == Deposit(w, to, amount)
<1>1. balanceOf(b, from) + (-amount) >= 0 /\ -amount \in Int /\ w = Move(b, from, -amount)
  BY MovesAre
<1>2. /\ BookOK(w)
      /\ w.yieldMode = b.yieldMode
      /\ Supply(w) = Supply(b) + (-amount)
      /\ \A x \in Accounts :
           b.yieldMode[x] = CLAIMABLE => getClaimableAmount(w, x) = getClaimableAmount(b, x)
  BY <1>1, MoveOK
<1> HIDE DEF w
<1>3. n = Move(w, to, amount) /\ balanceOf(w, to) + amount >= 0 /\ amount \in Int
  BY <1>2, MovesAre
<1>4. /\ BookOK(n)
      /\ n.yieldMode = w.yieldMode
      /\ Supply(n) = Supply(w) + amount
      /\ \A x \in Accounts :
           w.yieldMode[x] = CLAIMABLE => getClaimableAmount(n, x) = getClaimableAmount(w, x)
  BY <1>2, <1>3, MoveOK
<1>5. Supply(b) \in Nat
  BY BookFields DEF BookOK, Supply
<1> HIDE DEF n
<1>6. Supply(n) = Supply(b)
  BY <1>2, <1>4, <1>5
<1> QED BY <1>2, <1>4, <1>6 DEF n, w

\* A claim turns yield into balance, of any account.
LEMMA ClaimOK ==
  ASSUME price \in Nat, NEW b, BookOK(b), NEW a \in Accounts, NEW to \in Accounts,
         NEW amount \in Nat, b.yieldMode[a] = CLAIMABLE, amount <= getClaimableAmount(b, a)
  PROVE  LET n == Deposit(AfterClaim(b, a, amount), to, amount) IN
         /\ BookOK(n)
         /\ n.yieldMode = b.yieldMode
         /\ Supply(n) = Supply(b)
         /\ getClaimableAmount(n, a) = getClaimableAmount(b, a) - amount
         /\ \A x \in Accounts : x # a /\ b.yieldMode[x] = CLAIMABLE =>
              getClaimableAmount(n, x) = getClaimableAmount(b, x)
<1> DEFINE w == AfterClaim(b, a, amount)
           n == Deposit(w, to, amount)
           left == ShareValue(b, a) - amount
<1>1. /\ b \in Books /\ b.fixed[a] \in Nat /\ ShareValue(b, a) \in Nat
      /\ b.fixed[a] <= ShareValue(b, a) /\ VoidAndRemainder(b, a) \in Nat
      /\ Worth(b, a) = ShareValue(b, a) /\ CLAIMABLE # VOID /\ CLAIMABLE \in YieldMode
  <2>1. b \in Books /\ b.fixed[a] <= ShareValue(b, a)
    BY DEF BookOK
  <2>2. Worth(b, a) = ShareValue(b, a)
    BY <2>1, BookFields, ModesDiffer DEF Worth, ShareValue, VoidAndRemainder
  <2> QED BY <2>1, <2>2, BookFields, ModesDiffer DEF YieldMode
<1>2. left \in Nat /\ b.fixed[a] <= left /\ amount <= ShareValue(b, a) - b.fixed[a]
  BY <1>1 DEF getClaimableAmount
<1>3. w = SetBook(b, a, CLAIMABLE, left, b.fixed[a])
  BY <1>1, <1>2, UpdateIsSetOnly DEF AfterClaim
<1> HIDE DEF w, left
<1>4. /\ BookOK(w)
      /\ w.yieldMode = [b.yieldMode EXCEPT ![a] = CLAIMABLE]
      /\ Supply(w) = Supply(b) - Worth(b, a) + left + IF CLAIMABLE = VOID THEN b.fixed[a] ELSE 0
      /\ getClaimableAmount(w, a) = left - b.fixed[a]
      /\ \A x \in Accounts : x # a => getClaimableAmount(w, x) = getClaimableAmount(b, x)
  BY <1>1, <1>2, <1>3, SetBookOK
<1>5. w.yieldMode = b.yieldMode
  <2>1. b.yieldMode \in [Accounts -> YieldMode]
    BY <1>1 DEF Books
  <2> QED BY <1>4, <2>1
<1>6. n = Move(w, to, amount) /\ balanceOf(w, to) + amount >= 0 /\ amount \in Int
  BY <1>4, MovesAre
<1>7. /\ BookOK(n)
      /\ n.yieldMode = w.yieldMode
      /\ Supply(n) = Supply(w) + amount
      /\ \A x \in Accounts :
           w.yieldMode[x] = CLAIMABLE => getClaimableAmount(n, x) = getClaimableAmount(w, x)
  <2>1. BookOK(w)
    BY <1>4
  <2> HIDE DEF n
  <2> QED BY <1>6, <2>1, MoveOK
<1>8. Supply(b) \in Nat
  BY BookFields DEF BookOK, Supply
<1> HIDE DEF n
<1>9. Supply(n) = Supply(b)
  BY <1>1, <1>2, <1>4, <1>7, <1>8 DEF left
<1>10. getClaimableAmount(n, a) = getClaimableAmount(b, a) - amount
  <2>1. getClaimableAmount(n, a) = left - b.fixed[a]
    BY <1>4, <1>5, <1>7
  <2>2. left - b.fixed[a] = ShareValue(b, a) - b.fixed[a] - amount
    BY <1>1 DEF left
  <2> QED BY <2>1, <2>2 DEF getClaimableAmount
<1> QED BY <1>4, <1>5, <1>7, <1>9, <1>10 DEF n, w

\* A new mode takes nothing from the account, but for what it could have claimed later.
LEMMA ConfigureOK ==
  ASSUME price \in Nat, NEW b, BookOK(b), NEW a \in Accounts, NEW mode \in YieldMode
  PROVE  LET n == Configure(b, a, mode) IN
         /\ BookOK(n)
         /\ n.yieldMode = [b.yieldMode EXCEPT ![a] = mode]
         /\ Supply(n) = Supply(b)
         /\ mode = CLAIMABLE => getClaimableAmount(n, a) = 0
         /\ \A x \in Accounts : x # a => getClaimableAmount(n, x) = getClaimableAmount(b, x)
<1> DEFINE old == b.yieldMode[a]
           held == BalanceToConfigure(b, a)
           value == IF mode = VOID THEN 0 ELSE held
           newFixed == IF mode = AUTOMATIC THEN 0 ELSE held
           wasVoid == IF old = VOID THEN b.fixed[a] ELSE 0
           isVoid == IF mode = VOID THEN held ELSE 0
           u == UpdateBalance(WithMode(b, a, mode), a, value, newFixed)
           n == Configure(b, a, mode)
           t == SetBook(b, a, mode, value, newFixed)
           extra == isVoid - wasVoid
<1>1. /\ b \in Books /\ old \in YieldMode
      /\ b.shares[a] \in Nat /\ b.remainders[a] \in Nat /\ b.fixed[a] \in Nat
      /\ b.totalShares \in Nat /\ b.totalVoidAndRemainders \in Nat
      /\ ShareValue(b, a) \in Nat /\ price * b.shares[a] \in Nat
      /\ price * b.totalShares \in Nat
  BY BookFields DEF BookOK
<1>2. held = (IF old = VOID THEN b.fixed[a] ELSE ShareValue(b, a)) /\ held \in Nat
  BY <1>1, ModesDiffer DEF BalanceToConfigure, balanceOf, YieldMode
<1>3. WithMode(b, a, mode).yieldMode[a] = mode
  <2>1. b = [shares |-> b.shares, remainders |-> b.remainders, fixed |-> b.fixed,
             yieldMode |-> b.yieldMode, totalShares |-> b.totalShares,
             totalVoidAndRemainders |-> b.totalVoidAndRemainders]
        /\ b.yieldMode \in [Accounts -> YieldMode]
    BY <1>1 DEF Books
  <2> QED BY <2>1 DEF WithMode
<1>4. SetBalance(WithMode(b, a, mode), a, held, TRUE) = u
  BY <1>3, ModesDiffer DEF SetBalance, YieldMode
<1>5. n = [u EXCEPT !.totalVoidAndRemainders = @ - wasVoid + isVoid]
  BY <1>4 DEF Configure, WithMode
<1>6. u.totalVoidAndRemainders \in Int
  <2>1. b = [shares |-> b.shares, remainders |-> b.remainders, fixed |-> b.fixed,
             yieldMode |-> b.yieldMode, totalShares |-> b.totalShares,
             totalVoidAndRemainders |-> b.totalVoidAndRemainders]
    BY <1>1 DEF Books
  <2>2. u.totalVoidAndRemainders
          = b.totalVoidAndRemainders + RemainderOf(value) - b.remainders[a]
    BY <2>1 DEF WithMode, UpdateBalance
  <2>3. RemainderOf(value) \in Nat
    BY <1>2, SharesAndRemainder
  <2> QED BY <1>1, <2>2, <2>3
<1>7. /\ value \in Nat /\ newFixed \in Nat /\ wasVoid \in Nat /\ isVoid \in Nat
      /\ mode = VOID => value = 0
      /\ mode = CLAIMABLE => value = held /\ newFixed = held /\ newFixed <= value
      /\ mode = AUTOMATIC => value = held
  BY <1>1, <1>2, ModesDiffer
<1>8. extra = VoidPart(mode, newFixed) - VoidPart(old, b.fixed[a]) /\ extra \in Int
  BY <1>1, <1>7, ModesDiffer DEF VoidPart
<1>9. u.totalVoidAndRemainders - wasVoid + isVoid = u.totalVoidAndRemainders + extra
  BY <1>6, <1>7
<1>10. n = Adjust(u, extra)
  <2> HIDE DEF u, n, wasVoid, isVoid, extra
  <2> QED BY <1>5, <1>9 DEF Adjust
<1>11. Adjust(u, extra) = t
  <2>1. u = UpdateBalance(WithMode(b, a, mode), a, value, newFixed)
    OBVIOUS
  <2> HIDE DEF u, extra, value, newFixed
  <2> QED BY <1>1, <1>7, <1>8, <2>1, UpdateIsSet DEF t
<1> HIDE DEF n, t, value, newFixed
<1>12. /\ BookOK(t)
       /\ t.yieldMode = [b.yieldMode EXCEPT ![a] = mode]
       /\ Supply(t) = Supply(b) - Worth(b, a) + value + IF mode = VOID THEN newFixed ELSE 0
       /\ getClaimableAmount(t, a) = value - newFixed
       /\ \A x \in Accounts : x # a => getClaimableAmount(t, x) = getClaimableAmount(b, x)
  BY <1>7, SetBookOK DEF t
<1>13. Worth(b, a) = held
  <2>1. CASE old = VOID
    <3>1. b.shares[a] = 0 /\ b.remainders[a] = 0 /\ price * 0 = 0
      BY <2>1 DEF BookOK
    <3>2. Worth(b, a) = b.fixed[a]
      BY <1>1, <2>1, <3>1 DEF Worth, VoidAndRemainder
    <3> QED BY <1>2, <2>1, <3>2
  <2>2. CASE old # VOID
    <3>1. Worth(b, a) = ShareValue(b, a)
      BY <1>1, <2>2 DEF Worth, VoidAndRemainder, ShareValue
    <3> QED BY <1>2, <2>2, <3>1
  <2> QED BY <2>1, <2>2
<1>14. value + (IF mode = VOID THEN newFixed ELSE 0) = held
  BY <1>2, <1>7, ModesDiffer DEF value, newFixed, YieldMode
<1>15. Supply(b) \in Nat
  BY <1>1 DEF Supply
<1>16. Supply(t) = Supply(b)
  <2> HIDE DEF held
  <2> QED BY <1>2, <1>7, <1>12, <1>13, <1>14, <1>15
<1>17. mode = CLAIMABLE => getClaimableAmount(t, a) = 0
  BY <1>2, <1>7, <1>12
<1> QED BY <1>10, <1>11, <1>12, <1>16, <1>17 DEF n

-----------------------------------------------------------------------------
(* What every step of a rebasing token keeps *)

RebasingInv == RebasingTypeOK /\ BookOK(book) /\ ClaimableIsEarned

\* The books of the initial states are empty.
LEMMA RebasingStart == RebasingInit => RebasingInv /\ totalSupply = 0
<1> SUFFICES ASSUME RebasingInit PROVE RebasingInv /\ totalSupply = 0
  OBVIOUS
<1>1. /\ price = InitialPrice /\ price \in Nat /\ IsFiniteSet(Accounts)
      /\ book.totalShares = 0 /\ book.totalVoidAndRemainders = 0
      /\ price * 0 = 0
      /\ \A a \in Accounts : /\ book.shares[a] = 0 /\ book.remainders[a] = 0
                             /\ book.fixed[a] = 0 /\ book.yieldMode[a] = AUTOMATIC
      /\ earned = [a \in Accounts |-> 0]
  BY RebasingAssumption DEF RebasingInit
<1>2. book \in Books
  BY DEF RebasingInit, Books, YieldMode
<1>3. RebasingTypeOK
  <2>1. allowances \in [Accounts -> [Spenders -> Nat \cup {Unlimited}]]
    BY DEF RebasingInit
  <2> QED BY <1>1, <1>2, <2>1 DEF RebasingTypeOK
<1>4. Matches(book)
  <2> DEFINE zero == [a \in Accounts |-> 0]
  <2>1. \A a \in Accounts : VoidAndRemainder(book, a) = 0
    BY <1>1, ModesDiffer DEF VoidAndRemainder
  <2>2. book.shares = zero /\ [a \in Accounts |-> VoidAndRemainder(book, a)] = zero
    BY <2>1 DEF RebasingInit
  <2>3. SumFunctionOnSet(zero, Accounts) = 0
    <3>1. \A a \in Accounts : zero[a] = 0
      OBVIOUS
    <3> HIDE DEF zero
    <3> QED BY <1>1, <3>1, SumZero
  <2> QED BY <1>1, <2>2, <2>3 DEF Matches
<1>5. BookOK(book) /\ ClaimableIsEarned
  BY <1>1, <1>2, <1>4, ModesDiffer DEF BookOK, ClaimableIsEarned
<1> QED BY <1>1, <1>3, <1>5 DEF RebasingInv, totalSupply

\* A step that writes the book and keeps the price.
LEMMA NewBook ==
  ASSUME RebasingInv, price' = price, BookOK(book'),
         allowances' \in [Accounts -> [Spenders -> Nat \cup {Unlimited}]],
         earned' \in [Accounts -> Nat],
         \A x \in Accounts :
           book'.yieldMode[x] = CLAIMABLE => getClaimableAmount(book', x) = earned'[x]
  PROVE  RebasingInv' /\ totalSupply' = Supply(book') /\ totalSupply = Supply(book)
<1>1. BookOK(book)' /\ ClaimableIsEarned'
  BY DEF BookOK, Matches, ShareValue, VoidAndRemainder, ClaimableIsEarned, getClaimableAmount
<1>2. RebasingTypeOK'
  BY <1>1 DEF RebasingInv, RebasingTypeOK, BookOK
<1> QED BY <1>1, <1>2 DEF RebasingInv, totalSupply, Supply

\* The fields of a state of the token.
LEMMA RebasingFields ==
  ASSUME RebasingInv
  PROVE  /\ price \in Nat /\ BookOK(book) /\ book \in Books
         /\ allowances \in [Accounts -> [Spenders -> Nat \cup {Unlimited}]]
         /\ earned \in [Accounts -> Nat] /\ MaxSupply \in Nat
         /\ totalSupply = Supply(book) /\ totalSupply \in Nat
         /\ book.totalShares \in Nat
         /\ \A x \in Accounts :
              book.yieldMode[x] = CLAIMABLE => getClaimableAmount(book, x) = earned[x]
<1>1. price \in Nat /\ BookOK(book) /\ book \in Books
  BY DEF RebasingInv, RebasingTypeOK
<1>2. book.totalShares \in Nat /\ book.totalVoidAndRemainders \in Nat
  BY <1>1 DEF Books
<1>3. price * book.totalShares \in Nat
  BY <1>1, <1>2
<1> QED BY <1>1, <1>2, <1>3, RebasingAssumption
        DEF RebasingInv, RebasingTypeOK, ClaimableIsEarned, totalSupply, Supply

\* The supply is a number.
LEMMA SupplyIsNatural == RebasingInv => totalSupply \in Nat
BY RebasingFields

\* A step of something else.
LEMMA RebasingStutter ==
  ASSUME RebasingInv, UNCHANGED rebasingVars
  PROVE  RebasingInv' /\ totalSupply' = totalSupply
BY DEF rebasingVars, RebasingInv, RebasingTypeOK, BookOK, Matches, VoidAndRemainder,
       ShareValue, ClaimableIsEarned, getClaimableAmount, totalSupply

\* Transfers, approvals, claims and changes of mode keep the supply.
LEMMA AccountStepInv ==
  ASSUME RebasingInv, AccountStep
  PROVE  RebasingInv' /\ UNCHANGED price /\ totalSupply' = totalSupply
<1>1. /\ price \in Nat /\ BookOK(book) /\ book \in Books /\ MaxSupply \in Nat
      /\ allowances \in [Accounts -> [Spenders -> Nat \cup {Unlimited}]]
      /\ earned \in [Accounts -> Nat]
      /\ \A x \in Accounts :
           book.yieldMode[x] = CLAIMABLE => getClaimableAmount(book, x) = earned[x]
  BY RebasingFields
<1>2. ASSUME NEW from \in Accounts, NEW to \in Accounts, NEW amount \in Nat,
             Affordable(from, amount),
             book' = Deposit(Withdraw(book, from, amount), to, amount),
             allowances' \in [Accounts -> [Spenders -> Nat \cup {Unlimited}]],
             UNCHANGED <<price, earned>>
      PROVE  RebasingInv' /\ UNCHANGED price /\ totalSupply' = totalSupply
  <2>1. /\ BookOK(book') /\ book'.yieldMode = book.yieldMode /\ Supply(book') = Supply(book)
        /\ \A x \in Accounts : book.yieldMode[x] = CLAIMABLE =>
             getClaimableAmount(book', x) = getClaimableAmount(book, x)
    BY <1>1, <1>2, TransferOK DEF Affordable
  <2> QED BY <1>1, <1>2, <2>1, NewBook
<1>3. ASSUME NEW a \in Accounts, NEW to \in Accounts, NEW amount \in 0 .. MaxSupply,
             transfer(a, to, amount)
      PROVE  RebasingInv' /\ UNCHANGED price /\ totalSupply' = totalSupply
  BY <1>1, <1>2, <1>3 DEF transfer
<1>4. ASSUME NEW a \in Accounts, NEW spender \in Spenders, NEW amount \in Approvals \cup {Unlimited},
             approve(a, spender, amount)
      PROVE  RebasingInv' /\ UNCHANGED price /\ totalSupply' = totalSupply
  <2>1. allowances' \in [Accounts -> [Spenders -> Nat \cup {Unlimited}]]
    BY <1>1, <1>4, RebasingAssumption DEF approve
  <2> QED BY <1>1, <1>4, <2>1, NewBook DEF approve
<1>5. ASSUME NEW a \in Accounts, NEW to \in Accounts, NEW spender \in Spenders,
             NEW amount \in 0 .. MaxSupply, transferFrom(spender, a, to, amount)
      PROVE  RebasingInv' /\ UNCHANGED price /\ totalSupply' = totalSupply
  <2>1. amount \in Nat
    BY <1>1
  <2>2. allowances' \in [Accounts -> [Spenders -> Nat \cup {Unlimited}]]
    <3>1. CASE UNCHANGED allowances
      BY <1>1, <3>1
    <3>2. CASE /\ allowances[a][spender] # Unlimited /\ amount <= allowances[a][spender]
               /\ allowances' = [allowances EXCEPT ![a][spender] = @ - amount]
      <4>1. allowances[a][spender] \in Nat
        BY <1>1, <3>2
      <4>2. allowances[a][spender] - amount \in Nat
        BY <2>1, <3>2, <4>1
      <4> QED BY <1>1, <3>2, <4>2
    <3> QED BY <1>5, <3>1, <3>2 DEF transferFrom
  <2> QED BY <1>2, <1>5, <2>1, <2>2 DEF transferFrom
<1>6. ASSUME NEW a \in Accounts, NEW to \in Accounts, NEW amount \in 0 .. MaxSupply,
             claim(a, to, amount)
      PROVE  RebasingInv' /\ UNCHANGED price /\ totalSupply' = totalSupply
  <2>1. /\ amount \in Nat /\ book.yieldMode[a] = CLAIMABLE
        /\ amount <= getClaimableAmount(book, a)
        /\ book' = Deposit(AfterClaim(book, a, amount), to, amount)
        /\ earned' = [earned EXCEPT ![a] = @ - amount] /\ UNCHANGED <<price, allowances>>
    BY <1>1, <1>6 DEF claim
  <2>2. /\ BookOK(book') /\ book'.yieldMode = book.yieldMode /\ Supply(book') = Supply(book)
        /\ getClaimableAmount(book', a) = getClaimableAmount(book, a) - amount
        /\ \A x \in Accounts : x # a /\ book.yieldMode[x] = CLAIMABLE =>
             getClaimableAmount(book', x) = getClaimableAmount(book, x)
    BY <1>1, <2>1, ClaimOK
  <2>3. earned[a] \in Nat /\ amount <= earned[a]
    BY <1>1, <2>1
  <2>4. earned' \in [Accounts -> Nat] /\ earned'[a] = earned[a] - amount
        /\ \A x \in Accounts : x # a => earned'[x] = earned[x]
    BY <1>1, <2>1, <2>3
  <2>5. \A x \in Accounts : book'.yieldMode[x] = CLAIMABLE => getClaimableAmount(book', x) = earned'[x]
    BY <1>1, <2>1, <2>2, <2>4
  <2> QED BY <1>1, <2>1, <2>2, <2>4, <2>5, NewBook
<1>7. ASSUME NEW a \in Accounts, NEW mode \in YieldMode, configure(a, mode)
      PROVE  RebasingInv' /\ UNCHANGED price /\ totalSupply' = totalSupply
  <2>1. /\ book' = Configure(book, a, mode) /\ earned' = [earned EXCEPT ![a] = 0]
        /\ UNCHANGED <<price, allowances>>
    BY <1>7 DEF configure
  <2>2. /\ BookOK(book') /\ book'.yieldMode = [book.yieldMode EXCEPT ![a] = mode]
        /\ Supply(book') = Supply(book)
        /\ mode = CLAIMABLE => getClaimableAmount(book', a) = 0
        /\ \A x \in Accounts : x # a => getClaimableAmount(book', x) = getClaimableAmount(book, x)
    BY <1>1, <2>1, ConfigureOK
  <2>3. earned' \in [Accounts -> Nat] /\ earned'[a] = 0
        /\ \A x \in Accounts : x # a => earned'[x] = earned[x]
    BY <1>1, <2>1
  <2>4. book'.yieldMode[a] = mode /\ \A x \in Accounts : x # a => book'.yieldMode[x] = book.yieldMode[x]
    <3>1. book.yieldMode \in [Accounts -> YieldMode]
      BY <1>1 DEF Books
    <3> QED BY <2>2, <3>1
  <2>5. \A x \in Accounts : book'.yieldMode[x] = CLAIMABLE => getClaimableAmount(book', x) = earned'[x]
    BY <1>1, <2>2, <2>3, <2>4
  <2> QED BY <1>1, <2>1, <2>2, <2>3, <2>5, NewBook
<1> QED BY <1>3, <1>4, <1>5, <1>6, <1>7 DEF AccountStep

\* A deposit or a withdrawal, as minting, burning and wrapping make them.
LEMMA MoveInv ==
  ASSUME RebasingInv, NEW a \in Accounts, NEW amount \in Nat,
         UNCHANGED <<price, allowances, earned>>
  PROVE  /\ book' = Deposit(book, a, amount) => RebasingInv' /\ totalSupply' = totalSupply + amount
         /\ Affordable(a, amount) /\ book' = Withdraw(book, a, amount) =>
              RebasingInv' /\ totalSupply' = totalSupply - amount
<1>1. /\ price \in Nat /\ BookOK(book) /\ book \in Books
      /\ allowances \in [Accounts -> [Spenders -> Nat \cup {Unlimited}]]
      /\ earned \in [Accounts -> Nat] /\ totalSupply \in Nat /\ totalSupply = Supply(book)
      /\ \A x \in Accounts :
           book.yieldMode[x] = CLAIMABLE => getClaimableAmount(book, x) = earned[x]
  BY RebasingFields
<1>2. /\ balanceOf(book, a) \in Nat
      /\ Deposit(book, a, amount) = Move(book, a, amount)
      /\ Withdraw(book, a, amount) = Move(book, a, -amount)
  BY <1>1, MovesAre
<1>3. ASSUME NEW v \in Int, balanceOf(book, a) + v >= 0, book' = Move(book, a, v)
      PROVE  RebasingInv' /\ totalSupply' = totalSupply + v
  <2>1. /\ BookOK(book') /\ book'.yieldMode = book.yieldMode /\ Supply(book') = Supply(book) + v
        /\ \A x \in Accounts : book.yieldMode[x] = CLAIMABLE =>
             getClaimableAmount(book', x) = getClaimableAmount(book, x)
    BY <1>1, <1>3, MoveOK
  <2> QED BY <1>1, <2>1, NewBook
<1>4. ASSUME book' = Deposit(book, a, amount)
      PROVE  RebasingInv' /\ totalSupply' = totalSupply + amount
  <2>1. balanceOf(book, a) + amount >= 0
    BY <1>2
  <2> QED BY <1>2, <1>3, <1>4, <2>1
<1>5. ASSUME Affordable(a, amount), book' = Withdraw(book, a, amount)
      PROVE  RebasingInv' /\ totalSupply' = totalSupply - amount
  <2>1. balanceOf(book, a) + (-amount) >= 0 /\ -amount \in Int
    BY <1>2, <1>5 DEF Affordable
  <2>2. RebasingInv' /\ totalSupply' = totalSupply + (-amount)
    BY <1>2, <1>3, <1>5, <2>1
  <2> QED BY <1>1, <2>2
<1> QED BY <1>4, <1>5

\* A higher price pays every share the same.
LEMMA SetPriceInv ==
  ASSUME RebasingInv, NEW step \in Nat, setPrice(price + step)
  PROVE  RebasingInv' /\ totalSupply' = totalSupply + step * book.totalShares
<1>1. /\ price \in Nat /\ BookOK(book) /\ book \in Books
      /\ allowances \in [Accounts -> [Spenders -> Nat \cup {Unlimited}]]
      /\ earned \in [Accounts -> Nat]
      /\ \A x \in Accounts :
           book.yieldMode[x] = CLAIMABLE => getClaimableAmount(book, x) = earned[x]
  BY RebasingFields
<1>2. /\ price' = price + step /\ UNCHANGED <<book, allowances>> /\ price' \in Nat
      /\ price' - price = step
      /\ earned' = [a \in Accounts |->
                      IF book.yieldMode[a] = CLAIMABLE
                      THEN earned[a] + (price' - price) * book.shares[a] ELSE earned[a]]
  BY <1>1 DEF setPrice
<1>3. \A x \in Nat : /\ (price + step) * x = price * x + step * x
                     /\ step * x \in Nat /\ price * x \in Nat
  BY <1>1
<1>4. \A x \in Accounts : /\ book.shares[x] \in Nat /\ book.remainders[x] \in Nat
                          /\ book.fixed[x] \in Nat
  BY <1>1 DEF Books
<1>5. ASSUME NEW x \in Accounts
      PROVE  /\ ShareValue(book, x)' = ShareValue(book, x) + step * book.shares[x]
             /\ ShareValue(book, x) \in Nat /\ step * book.shares[x] \in Nat
  <2> DEFINE p == price * book.shares[x]
             q == step * book.shares[x]
             r == book.remainders[x]
  <2>1. /\ (price + step) * book.shares[x] = p + q
        /\ p \in Nat /\ q \in Nat /\ r \in Nat
    BY <1>3, <1>4
  <2>2. ShareValue(book, x) = p + r
    BY DEF ShareValue
  <2>3. ShareValue(book, x)' = p + q + r
    BY <1>2, <2>1 DEF ShareValue
  <2> HIDE DEF p, q, r
  <2>4. ShareValue(book, x)' = ShareValue(book, x) + q /\ ShareValue(book, x) \in Nat
    BY <2>1, <2>2, <2>3
  <2> QED BY <2>1, <2>4 DEF q
<1>6. \A x \in Accounts : earned'[x] =
        IF book.yieldMode[x] = CLAIMABLE THEN earned[x] + step * book.shares[x] ELSE earned[x]
  BY <1>2
<1>7. earned' \in [Accounts -> Nat]
  <2>1. ASSUME NEW x \in Accounts
        PROVE  earned'[x] \in Nat
    <3>1. \A y, z \in Nat : y + z \in Nat
      OBVIOUS
    <3>2. earned[x] \in Nat /\ step * book.shares[x] \in Nat
      BY <1>1, <1>5
    <3> QED BY <1>6, <3>1, <3>2
  <2>2. earned' = [x \in Accounts |-> earned'[x]]
    BY <1>2
  <2> QED BY <2>1, <2>2
<1>8. Matches(book)'
  BY <1>1, <1>2 DEF BookOK, Matches, VoidAndRemainder
<1>9. BookOK(book)'
  <2>1. ASSUME NEW x \in Accounts, book.yieldMode[x] = CLAIMABLE
        PROVE  book.fixed[x] <= ShareValue(book, x)'
    <3>1. step * book.shares[x] \in Nat /\ book.fixed[x] <= ShareValue(book, x)
      BY <1>1, <1>3, <1>4, <2>1 DEF BookOK
    <3> QED BY <1>4, <1>5, <3>1
  <2> QED BY <1>1, <1>2, <1>8, <2>1 DEF BookOK, Books
<1>10. ClaimableIsEarned'
  <2> SUFFICES ASSUME NEW x \in Accounts, book.yieldMode[x] = CLAIMABLE
               PROVE  getClaimableAmount(book, x)' = earned'[x]
    BY <1>2 DEF ClaimableIsEarned
  <2> DEFINE q == step * book.shares[x]
             w == ShareValue(book, x)
             f == book.fixed[x]
  <2>1. /\ getClaimableAmount(book, x) = earned[x]
        /\ earned'[x] = earned[x] + q
        /\ w \in Nat /\ q \in Nat /\ f \in Nat
        /\ ShareValue(book, x)' = w + q
    BY <1>1, <1>4, <1>5, <1>6
  <2>2. getClaimableAmount(book, x) = w - f
    BY DEF getClaimableAmount
  <2>3. getClaimableAmount(book, x)' = w + q - f
    BY <1>2, <2>1 DEF getClaimableAmount
  <2> HIDE DEF q, w, f
  <2> QED BY <2>1, <2>2, <2>3
<1>11. totalSupply' = totalSupply + step * book.totalShares
  <2>1. book.totalShares \in Nat /\ book.totalVoidAndRemainders \in Nat
    BY <1>1 DEF Books
  <2>2. totalSupply' = (price + step) * book.totalShares + book.totalVoidAndRemainders
    BY <1>2 DEF totalSupply
  <2>3. /\ (price + step) * book.totalShares = price * book.totalShares + step * book.totalShares
        /\ step * book.totalShares \in Nat /\ price * book.totalShares \in Nat
    BY <1>3, <2>1
  <2>4. totalSupply = price * book.totalShares + book.totalVoidAndRemainders
    BY DEF totalSupply
  <2> QED BY <2>1, <2>2, <2>3, <2>4
<1>12. RebasingTypeOK'
  BY <1>1, <1>2, <1>7 DEF RebasingTypeOK, Books
<1> QED BY <1>9, <1>10, <1>11, <1>12 DEF RebasingInv

-----------------------------------------------------------------------------
(* USDB *)

USDBInv == RebasingInv /\ SupplyIsBacked

\* Nothing is minted at first.
LEMMA USDBStart == USDBInit => USDBInv
BY RebasingStart DEF USDBInit, USDBInv, RebasingInv, SupplyIsBacked, USDBTypeOK

\* Minting, burning and reports change the supply and its backing by the same amount.
LEMMA USDBStep ==
  ASSUME USDBInv, [USDBNext]_usdbVars
  PROVE  USDBInv'
<1>1. /\ RebasingInv /\ pending \in Nat /\ supplied \in Nat /\ totalSupply \in Nat
      /\ totalSupply + pending = supplied /\ MaxSupply \in Nat
      /\ price \in Nat /\ book.totalShares \in Nat
  BY RebasingFields DEF USDBInv, SupplyIsBacked, USDBTypeOK
<1>2. ASSUME RebasingInv', pending' \in Nat, supplied' \in Nat,
             totalSupply' + pending' = supplied'
      PROVE  USDBInv'
  BY <1>2 DEF USDBInv, SupplyIsBacked, USDBTypeOK, RebasingInv
<1>3. CASE AccountStep /\ UNCHANGED <<pending, supplied>>
  BY <1>1, <1>2, <1>3, AccountStepInv
<1>4. ASSUME NEW a \in Accounts, NEW amount \in 0 .. MaxSupply, mint(a, amount)
      PROVE  USDBInv'
  <2>1. amount \in Nat
    BY <1>1
  <2>2. RebasingInv' /\ totalSupply' = totalSupply + amount
    BY <1>1, <1>4, <2>1, MoveInv DEF mint
  <2> QED BY <1>1, <1>2, <1>4, <2>1, <2>2 DEF mint
<1>5. ASSUME NEW a \in Accounts, NEW amount \in 0 .. MaxSupply, burn(a, amount)
      PROVE  USDBInv'
  <2>1. amount \in Nat
    BY <1>1
  <2>2. RebasingInv' /\ totalSupply' = totalSupply - amount
    BY <1>1, <1>5, <2>1, MoveInv DEF burn
  <2>3. (totalSupply \in Nat)'
    BY <2>2, SupplyIsNatural, PTL
  <2> QED BY <1>1, <1>2, <1>5, <2>1, <2>2, <2>3 DEF burn
<1>6. ASSUME NEW value \in 0 .. MaxSupply, addValue(value)
      PROVE  USDBInv'
  <2> DEFINE und == pending + value
             shares == book.totalShares
             step == IF shares = 0 \/ und < shares THEN 0 ELSE und \div shares
  <2>1. /\ value \in Nat /\ und \in Nat /\ shares \in Nat
        /\ setPrice(PriceAfter(und)) /\ pending' = PendingAfter(und)
        /\ supplied' = supplied + value
    BY <1>1, <1>6 DEF addValue
  <2>2. /\ step \in Nat /\ PriceAfter(und) = price + step /\ PendingAfter(und) \in Nat
        /\ step * shares + PendingAfter(und) = und
        /\ step * shares \in Nat
    <3>1. CASE shares = 0 \/ und < shares
      <4>1. 0 * shares = 0 /\ step = 0
        BY <2>1, <3>1
      <4>2. PriceAfter(und) = price /\ PendingAfter(und) = und
        BY <3>1 DEF PriceAfter, PendingAfter
      <4> QED BY <1>1, <2>1, <4>1, <4>2
    <3>2. CASE ~(shares = 0 \/ und < shares)
      <4> DEFINE q == und \div shares
                 r == und % shares
      <4>1. q = und \div shares /\ r = und % shares
        OBVIOUS
      <4>2. step = q /\ PriceAfter(und) = price + step /\ PendingAfter(und) = r
        BY <3>2 DEF PriceAfter, PendingAfter
      <4> HIDE DEF q, r, step, und
      <4>3. q \in Nat /\ r \in Nat /\ q * shares + r = und /\ q * shares \in Nat
        BY <2>1, <3>2, <4>1, Spread
      <4> HIDE DEF shares
      <4> QED BY <4>2, <4>3
    <3> QED BY <3>1, <3>2
  <2> HIDE DEF step
  <2>3. RebasingInv' /\ totalSupply' = totalSupply + step * shares
    BY <1>1, <2>1, <2>2, SetPriceInv
  <2> DEFINE more == step * shares
             left == PendingAfter(und)
  <2>4. /\ more \in Nat /\ left \in Nat /\ more + left = pending + value
        /\ totalSupply' = totalSupply + more /\ pending' = left
    BY <2>1, <2>2, <2>3
  <2> HIDE DEF more, left, und, shares
  <2>5. totalSupply' + pending' = supplied' /\ supplied' \in Nat
    BY <1>1, <2>1, <2>4
  <2> QED BY <1>2, <2>3, <2>4, <2>5
<1>7. CASE UNCHANGED usdbVars
  BY <1>7 DEF usdbVars, rebasingVars, USDBInv, RebasingInv, RebasingTypeOK, BookOK, Matches,
              VoidAndRemainder, ShareValue, ClaimableIsEarned, getClaimableAmount,
              SupplyIsBacked, USDBTypeOK, totalSupply
<1> QED BY <1>3, <1>4, <1>5, <1>6, <1>7 DEF USDBNext

\* Whatever is minted, burned, claimed, reported or opted out of, the supply of USDB
\* and what is pending are what L1 locked and reported, to the last unit.
THEOREM SupplyStaysBacked == USDBSpec => []SupplyIsBacked
<1>1. USDBInv => SupplyIsBacked
  BY DEF USDBInv
<1> QED BY <1>1, USDBStart, USDBStep, PTL DEF USDBSpec

-----------------------------------------------------------------------------
(* WETH *)

WETHInv == RebasingInv /\ WETHSolvent

\* A native account keeps all of its value, and its parts are numbers.
LEMMA NativeKeepsValue ==
  ASSUME etherPrice \in Nat \ {0}, NEW value \in Nat
  PROVE  /\ Native(value) \in [shares : Nat, remainder : Nat]
         /\ NativeBalance(Native(value)) = value
<1> DEFINE q == value \div etherPrice
           r == value % etherPrice
<1>1. q = value \div etherPrice /\ r = value % etherPrice
  OBVIOUS
<1>2. Native(value) = [shares |-> q, remainder |-> r]
  BY DEF Native
<1> HIDE DEF q, r
<1>3. q \in Nat /\ r \in Nat /\ q * etherPrice + r = value
  BY <1>1, Spread
<1>4. etherPrice * q = q * etherPrice
  BY <1>3
<1>5. NativeBalance(Native(value)) = etherPrice * q + r
  BY <1>2 DEF NativeBalance, NativeBalanceAt
<1> QED BY <1>2, <1>3, <1>4, <1>5

\* What a native account holds is a number, and grows with the price.
LEMMA NativeGrows ==
  ASSUME NEW account \in [shares : Nat, remainder : Nat], NEW ether \in Nat, NEW k \in Nat
  PROVE  /\ NativeBalanceAt(ether, account) \in Nat
         /\ NativeBalanceAt(ether + k, account) \in Nat
<1>1. account.shares \in Nat /\ account.remainder \in Nat
  OBVIOUS
<1>2. \A x, y \in Nat : x * y \in Nat
  OBVIOUS
<1>3. ether * account.shares \in Nat /\ (ether + k) * account.shares \in Nat
  BY <1>1, <1>2
<1> QED BY <1>1, <1>3 DEF NativeBalanceAt

\* The fields of a state of WETH.
LEMMA WETHFields ==
  ASSUME WETHInv
  PROVE  /\ RebasingInv /\ etherPrice \in Nat \ {0} /\ etherPending \in Nat
         /\ weth \in [shares : Nat, remainder : Nat]
         /\ world \in [shares : Nat, remainder : Nat]
         /\ NativeBalance(weth) \in Nat /\ NativeBalance(world) \in Nat
         /\ totalSupply \in Nat /\ NativeBalance(weth) >= totalSupply
         /\ price \in Nat /\ book.totalShares \in Nat /\ MaxEther \in Nat
<1>1. /\ RebasingInv /\ etherPrice \in Nat \ {0} /\ etherPending \in Nat
      /\ weth \in [shares : Nat, remainder : Nat]
      /\ world \in [shares : Nat, remainder : Nat]
      /\ NativeBalance(weth) >= totalSupply
  BY DEF WETHInv, WETHSolvent, WETHTypeOK
<1>2. NativeBalance(weth) \in Nat /\ NativeBalance(world) \in Nat
  BY <1>1, NativeGrows DEF NativeBalance
<1> QED BY <1>1, <1>2, RebasingFields, WETHAssumption

\* In particular, its native accounts are numbers.
LEMMA WETHFieldsHold ==
  WETHInv => /\ RebasingInv /\ etherPrice \in Nat \ {0} /\ etherPending \in Nat
             /\ weth \in [shares : Nat, remainder : Nat]
             /\ world \in [shares : Nat, remainder : Nat]
BY WETHFields

\* Ether moves between WETH and the world, and none is lost by the rounding.
LEMMA MoveEtherOK ==
  ASSUME WETHInv, NEW value \in Int, moveEther(value),
         NativeBalance(weth) + value >= 0, value <= NativeBalance(world)
  PROVE  /\ etherPrice' = etherPrice /\ etherPending' = etherPending
         /\ weth' \in [shares : Nat, remainder : Nat]
         /\ world' \in [shares : Nat, remainder : Nat]
         /\ NativeBalance(weth)' = NativeBalance(weth) + value
<1>1. /\ etherPrice \in Nat \ {0}
      /\ NativeBalance(weth) \in Nat /\ NativeBalance(world) \in Nat
  BY WETHFields
<1>2. NativeBalance(weth) + value \in Nat /\ NativeBalance(world) - value \in Nat
  BY <1>1
<1>3. /\ weth' = Native(NativeBalance(weth) + value)
      /\ world' = Native(NativeBalance(world) - value)
      /\ etherPrice' = etherPrice /\ etherPending' = etherPending
  BY DEF moveEther
<1>4. NativeBalance(weth)' = NativeBalance(weth')
  BY <1>3 DEF NativeBalance, NativeBalanceAt
<1> QED BY <1>1, <1>2, <1>3, <1>4, NativeKeepsValue

\* What a report does to both prices: WETH takes whole steps of its surplus at the
\* new price of ether, and less than a step is left.
LEMMA ReportOK ==
  ASSUME RebasingInv, NEW value \in Nat, reportValue(value),
         etherPrice \in Nat \ {0}, etherPending \in Nat,
         weth \in [shares : Nat, remainder : Nat],
         world \in [shares : Nat, remainder : Nat]
  PROVE  /\ RebasingInv'
         /\ etherPrice' \in Nat \ {0} /\ etherPending' \in Nat
         /\ UNCHANGED <<weth, world>>
         /\ NativeBalance(weth)' >= totalSupply'
         /\ book'.totalShares = 0 \/ NativeBalance(weth)' - totalSupply' < book'.totalShares
<1> DEFINE count == weth.shares + world.shares
           und == etherPending + value
           distributed == count # 0 /\ und >= count
           k == IF distributed THEN und \div count ELSE 0
           surplus == NativeBalanceAt(etherPrice + k, weth) - totalSupply
           shares == book.totalShares
           step == IF shares = 0 \/ surplus < shares THEN 0 ELSE surplus \div shares
<1>1. count \in Nat /\ und \in Nat /\ shares \in Nat /\ price \in Nat /\ totalSupply \in Nat
  BY RebasingFields
<1>2. /\ k \in Nat
      /\ etherPrice' = IF distributed THEN etherPrice + und \div count ELSE etherPrice
      /\ etherPending' = IF distributed THEN und % count ELSE und
  BY <1>1 DEF reportValue
<1>3. etherPrice' = etherPrice + k
  BY <1>1, <1>2
<1>4. etherPending' \in Nat
  BY <1>1, <1>2
<1>5. /\ surplus >= 0 /\ setPrice(PriceWithSurplus(surplus)) /\ UNCHANGED <<weth, world>>
  BY <1>2, <1>3 DEF reportValue, Surplus, PriceSeen
<1>6. NativeBalance(weth)' = surplus + totalSupply /\ surplus \in Nat
  <2>1. NativeBalanceAt(etherPrice + k, weth) \in Nat
    BY <1>2, NativeGrows
  <2>2. NativeBalance(weth)' = NativeBalanceAt(etherPrice + k, weth)
    BY <1>3, <1>5 DEF NativeBalance, NativeBalanceAt
  <2> QED BY <1>1, <1>5, <2>1, <2>2
<1> HIDE DEF surplus, k
<1>7. /\ step \in Nat /\ PriceWithSurplus(surplus) = price + step
      /\ step * shares \in Nat /\ step * shares <= surplus
      /\ shares = 0 \/ surplus - step * shares < shares
  <2>1. CASE shares = 0 \/ surplus < shares
    <3>1. step = 0 /\ 0 * shares = 0
      BY <1>1, <2>1
    <3>2. PriceWithSurplus(surplus) = price
      BY <2>1 DEF PriceWithSurplus
    <3> QED BY <1>1, <1>6, <2>1, <3>1, <3>2
  <2>2. CASE ~(shares = 0 \/ surplus < shares)
    <3> DEFINE q == surplus \div shares
               r == surplus % shares
    <3>1. q = surplus \div shares /\ r = surplus % shares
      OBVIOUS
    <3>2. step = q /\ PriceWithSurplus(surplus) = price + step
      BY <2>2 DEF PriceWithSurplus
    <3>3. surplus \in Nat /\ shares \in Nat \ {0}
      BY <1>1, <1>6, <2>2
    <3> HIDE DEF q, r, step, shares
    <3>4. /\ q \in Nat /\ r \in Nat /\ r < shares /\ q * shares \in Nat
          /\ q * shares + r = surplus
      BY <3>1, <3>3, Spread
    <3> DEFINE p == q * shares
    <3>5. p \in Nat /\ p + r = surplus /\ step * shares = p
      BY <3>2, <3>4
    <3> HIDE DEF p
    <3> QED BY <3>2, <3>3, <3>4, <3>5
  <2> QED BY <2>1, <2>2
<1> HIDE DEF step
<1>8. RebasingInv' /\ totalSupply' = totalSupply + step * shares
  BY <1>5, <1>7, SetPriceInv
<1>9. book' = book
  BY <1>5 DEF setPrice
<1> DEFINE p == step * shares
<1>10. /\ p \in Nat /\ p <= surplus /\ totalSupply' = totalSupply + p
       /\ shares = 0 \/ surplus - p < shares
  BY <1>7, <1>8
<1>11. shares = book'.totalShares
  BY <1>9
<1> HIDE DEF p, shares, count, und
<1>12. /\ NativeBalance(weth)' >= totalSupply'
       /\ shares = 0 \/ NativeBalance(weth)' - totalSupply' < shares
  BY <1>1, <1>6, <1>10
<1>13. etherPrice' \in Nat \ {0}
  BY <1>2, <1>3
<1> QED BY <1>4, <1>5, <1>8, <1>11, <1>12, <1>13

\* WETH starts with no ether and no supply.
LEMMA WETHStart == WETHInit => WETHInv
<1> SUFFICES ASSUME WETHInit PROVE WETHInv
  OBVIOUS
<1>1. RebasingInv /\ totalSupply = 0
  BY RebasingStart DEF WETHInit
<1>2. /\ InitialPrice \in Nat \ {0} /\ InitialEther \in Nat
  BY RebasingAssumption, WETHAssumption
<1>3. InitialEther \div InitialPrice \in Nat /\ InitialEther % InitialPrice \in Nat
  BY <1>2
<1>4. WETHTypeOK
  BY <1>1, <1>2, <1>3 DEF WETHInit, WETHTypeOK, RebasingInv
<1>5. NativeBalance(weth) = 0
  BY <1>2 DEF WETHInit, NativeBalance, NativeBalanceAt
<1> QED BY <1>1, <1>4, <1>5 DEF WETHInv, WETHSolvent

\* Every step of WETH, of its holders or a report, leaves it able to pay.
LEMMA WETHStep ==
  ASSUME WETHInv, [WETHNext]_wethVars
  PROVE  WETHInv'
<1>1. /\ RebasingInv /\ etherPrice \in Nat \ {0} /\ etherPending \in Nat
      /\ weth \in [shares : Nat, remainder : Nat]
      /\ world \in [shares : Nat, remainder : Nat]
      /\ NativeBalance(weth) \in Nat /\ NativeBalance(world) \in Nat
      /\ totalSupply \in Nat /\ NativeBalance(weth) >= totalSupply /\ MaxEther \in Nat
  BY WETHFields
<1>2. ASSUME RebasingInv', etherPrice' \in Nat \ {0}, etherPending' \in Nat,
             weth' \in [shares : Nat, remainder : Nat],
             world' \in [shares : Nat, remainder : Nat],
             NativeBalance(weth)' >= totalSupply'
      PROVE  WETHInv'
  BY <1>2 DEF WETHInv, WETHSolvent, WETHTypeOK, RebasingInv
<1>3. CASE AccountStep /\ UNCHANGED nativeVars
  <2>1. RebasingInv' /\ totalSupply' = totalSupply
    BY <1>1, <1>3, AccountStepInv
  <2>2. NativeBalance(weth)' = NativeBalance(weth)
    BY <1>3 DEF nativeVars, NativeBalance, NativeBalanceAt
  <2> QED BY <1>1, <1>2, <1>3, <2>1, <2>2 DEF nativeVars
<1>4. ASSUME NEW a \in Accounts, NEW value \in 1 .. MaxEther, deposit(a, value)
      PROVE  WETHInv'
  <2>1. value \in Nat /\ value <= NativeBalance(world) /\ moveEther(value)
        /\ NativeBalance(weth) + value >= 0
    BY <1>1, <1>4 DEF deposit
  <2>2. /\ etherPrice' = etherPrice /\ etherPending' = etherPending
        /\ weth' \in [shares : Nat, remainder : Nat]
        /\ world' \in [shares : Nat, remainder : Nat]
        /\ NativeBalance(weth)' = NativeBalance(weth) + value
    BY <2>1, MoveEtherOK
  <2>3. RebasingInv' /\ totalSupply' = totalSupply + value
    BY <1>1, <1>4, <2>1, MoveInv DEF deposit
  <2>4. NativeBalance(weth)' >= totalSupply'
    BY <1>1, <2>1, <2>2, <2>3
  <2> QED BY <1>1, <1>2, <2>2, <2>3, <2>4
<1>5. ASSUME NEW a \in Accounts, NEW wad \in 1 .. MaxEther, withdraw(a, wad)
      PROVE  WETHInv'
  <2>1. wad \in Nat /\ -wad \in Int /\ -wad <= NativeBalance(world) /\ moveEther(-wad)
        /\ NativeBalance(weth) + (-wad) >= 0
    BY <1>1, <1>5 DEF withdraw
  <2>2. /\ etherPrice' = etherPrice /\ etherPending' = etherPending
        /\ weth' \in [shares : Nat, remainder : Nat]
        /\ world' \in [shares : Nat, remainder : Nat]
        /\ NativeBalance(weth)' = NativeBalance(weth) + (-wad)
    BY <2>1, MoveEtherOK
  <2>3. RebasingInv' /\ totalSupply' = totalSupply - wad
    BY <1>1, <1>5, <2>1, MoveInv DEF withdraw
  <2>4. NativeBalance(weth)' >= totalSupply'
    BY <1>1, <2>1, <2>2, <2>3
  <2> QED BY <1>1, <1>2, <2>2, <2>3, <2>4
<1>6. ASSUME NEW value \in 1 .. MaxEther, ForceEther(value)
      PROVE  WETHInv'
  <2>1. value \in Nat /\ value <= NativeBalance(world) /\ moveEther(value)
        /\ NativeBalance(weth) + value >= 0 /\ UNCHANGED rebasingVars
    BY <1>1, <1>6 DEF ForceEther
  <2>2. /\ etherPrice' = etherPrice /\ etherPending' = etherPending
        /\ weth' \in [shares : Nat, remainder : Nat]
        /\ world' \in [shares : Nat, remainder : Nat]
        /\ NativeBalance(weth)' = NativeBalance(weth) + value
    BY <2>1, MoveEtherOK
  <2>3. RebasingInv' /\ totalSupply' = totalSupply
    BY <1>1, <2>1, RebasingStutter
  <2>4. NativeBalance(weth)' >= totalSupply'
    BY <1>1, <2>1, <2>2, <2>3
  <2> QED BY <1>1, <1>2, <2>2, <2>3, <2>4
<1>7. ASSUME NEW value \in 0 .. MaxEther, reportValue(value)
      PROVE  WETHInv'
  <2>1. value \in Nat
    BY <1>1
  <2>2. /\ RebasingInv'
        /\ etherPrice' \in Nat \ {0} /\ etherPending' \in Nat
        /\ UNCHANGED <<weth, world>>
        /\ NativeBalance(weth)' >= totalSupply'
    BY <1>1, <1>7, <2>1, ReportOK
  <2> QED BY <1>1, <1>2, <2>2
<1>8. CASE UNCHANGED wethVars
  <2>1. UNCHANGED rebasingVars /\ UNCHANGED nativeVars
    BY <1>8 DEF wethVars
  <2>2. RebasingInv' /\ totalSupply' = totalSupply
    BY <1>1, <2>1, RebasingStutter
  <2>3. NativeBalance(weth)' = NativeBalance(weth)
    BY <2>1 DEF nativeVars, NativeBalance, NativeBalanceAt
  <2> QED BY <1>1, <1>2, <2>1, <2>2, <2>3 DEF nativeVars
<1> QED BY <1>3, <1>4, <1>5, <1>6, <1>7, <1>8 DEF WETHNext

\* At any prices, after any deposits, withdrawals and reports, WETH holds the ether
\* that its supply stands for.
THEOREM WETHStaysSolvent == WETHSpec => []WETHSolvent
<1>1. WETHInv => WETHSolvent
  BY DEF WETHInv
<1> QED BY <1>1, WETHStart, WETHStep, PTL DEF WETHSpec

\* After every report less than a unit per share of the yield of WETH waits.
THEOREM HoldersGetTheYield == WETHSpec => YieldReachesHolders
<1>1. WETHInv /\ [WETHNext]_wethVars =>
        [\A value \in 0 .. MaxEther :
           reportValue(value) =>
             book.totalShares = 0 \/ (NativeBalance(weth) - totalSupply)' < book.totalShares]_wethVars
  <2> SUFFICES ASSUME WETHInv, NEW value \in 0 .. MaxEther, reportValue(value)
               PROVE  book.totalShares = 0
                        \/ (NativeBalance(weth) - totalSupply)' < book.totalShares
    OBVIOUS
  <2>1. value \in Nat
    BY WETHFields
  <2>2. book'.totalShares = 0 \/ NativeBalance(weth)' - totalSupply' < book'.totalShares
    BY <2>1, WETHFields, ReportOK
  <2>3. book' = book
    BY DEF reportValue, setPrice
  <2> QED BY <2>2, <2>3
<1> QED BY <1>1, WETHStart, WETHStep, PTL DEF WETHSpec, YieldReachesHolders

-----------------------------------------------------------------------------
(* Gas *)

Balances == [c \in Contracts |-> EtherBalance(c)]

GasInv ==
  /\ GasBacked
  /\ SecondsRedeemedOnce
  /\ ValidRates(rates)
  /\ \A c \in Contracts : gasParams[c].lastUpdated <= now

\* The rates and the parameters are numbers, and seconds mature.
LEMMA GasFields ==
  ASSUME GasInv
  PROVE  /\ GasTypeOK /\ IsFiniteSet(Contracts)
         /\ balance = SumFunctionOnSet(Balances, Contracts)
         /\ rates.zeroClaimRate \in Nat /\ rates.baseClaimRate \in Nat
         /\ rates.ceilClaimRate \in Nat
         /\ rates.baseGasSeconds \in Nat \ {0} /\ rates.ceilGasSeconds \in Nat
         /\ rates.zeroClaimRate < rates.baseClaimRate
         /\ rates.baseClaimRate < rates.ceilClaimRate
         /\ rates.baseGasSeconds < rates.ceilGasSeconds
         /\ now \in Nat /\ balance \in Nat /\ credited \in Nat
         /\ \A c \in Contracts :
              /\ EtherBalance(c) \in Nat /\ EtherSeconds(c) \in Nat
              /\ gasParams[c].etherSeconds \in Nat /\ gasParams[c].lastUpdated \in Nat
              /\ gasParams[c].lastUpdated <= now /\ gasParams[c].mode \in GasMode
              /\ matured[c] \in Nat /\ redeemed[c] \in Nat
              /\ EtherSeconds(c) + redeemed[c] <= matured[c]
<1>1. /\ GasTypeOK /\ IsFiniteSet(Contracts) /\ ValidRates(rates)
      /\ balance = SumFunctionOnSet(Balances, Contracts)
  BY GasAssumption DEF GasInv, GasBacked, Balances
<1>2. ASSUME NEW c \in Contracts
      PROVE  /\ EtherBalance(c) \in Nat
             /\ gasParams[c].etherSeconds \in Nat /\ gasParams[c].lastUpdated \in Nat
             /\ gasParams[c].mode \in GasMode
             /\ now - gasParams[c].lastUpdated \in Nat
  BY <1>1 DEF GasInv, GasTypeOK, GasParams, EtherBalance
<1>3. \A x, y, z \in Nat : x + y * z \in Nat
  OBVIOUS
<1>4. \A c \in Contracts : EtherSeconds(c) \in Nat
  BY <1>2, <1>3 DEF EtherSeconds
<1>5. \A c \in Contracts : /\ matured[c] \in Nat /\ redeemed[c] \in Nat
                           /\ EtherSeconds(c) + redeemed[c] <= matured[c]
                           /\ gasParams[c].lastUpdated <= now
  BY <1>1 DEF GasInv, GasTypeOK, SecondsRedeemedOnce
<1>6. rates \in ClaimRates /\ now \in Nat /\ balance \in Nat /\ credited \in Nat
  BY <1>1 DEF GasTypeOK
<1> QED BY <1>1, <1>2, <1>4, <1>5, <1>6 DEF ClaimRates, ValidRates

\* The parameters of one contract are written anew, and paid for: the balance of Gas
\* changes with its own, and ether-seconds are lost at least as fast as redeemed.
LEMMA UpdateGas ==
  ASSUME GasInv, NEW c \in Contracts, NEW seconds \in Nat, NEW ether \in Nat,
         NEW mode \in GasMode, NEW paid \in Nat,
         UpdateGasParams(c, seconds, ether, mode),
         balance' = balance - EtherBalance(c) + ether,
         redeemed' = [redeemed EXCEPT ![c] = @ + paid],
         seconds + paid <= EtherSeconds(c),
         governorMap' \in [Contracts -> Governor], credited' \in Nat,
         UNCHANGED <<rates, now, matured>>
  PROVE  GasInv'
<1>1. /\ GasTypeOK /\ IsFiniteSet(Contracts) /\ now \in Nat
      /\ balance = SumFunctionOnSet(Balances, Contracts)
      /\ \A x \in Contracts :
              /\ EtherBalance(x) \in Nat /\ EtherSeconds(x) \in Nat
              /\ matured[x] \in Nat /\ redeemed[x] \in Nat
              /\ EtherSeconds(x) + redeemed[x] <= matured[x]
              /\ gasParams[x].lastUpdated <= now
  BY GasFields
<1> DEFINE new == [etherSeconds |-> seconds, etherBalance |-> ether,
                   lastUpdated |-> now, mode |-> mode]
<1>2. /\ gasParams \in [Contracts -> GasParams] /\ new \in GasParams
      /\ gasParams' = [gasParams EXCEPT ![c] = new]
      /\ new.etherSeconds = seconds /\ new.etherBalance = ether /\ new.lastUpdated = now
  BY <1>1 DEF UpdateGasParams, GasTypeOK, GasParams
<1> HIDE DEF new
<1>3. /\ gasParams' \in [Contracts -> GasParams]
      /\ gasParams'[c] = new /\ \A x \in Contracts : x # c => gasParams'[x] = gasParams[x]
  BY <1>2
<1>4. /\ EtherBalance(c)' = ether
      /\ \A x \in Contracts : x # c => EtherBalance(x)' = EtherBalance(x)
  BY <1>2, <1>3 DEF EtherBalance
<1>5. \A x \in Contracts : x # c => EtherSeconds(x)' = EtherSeconds(x)
  BY <1>3, <1>4 DEF EtherSeconds
<1>6. EtherSeconds(c)' = seconds
  <2>1. now' - gasParams'[c].lastUpdated = 0 /\ ether * 0 = 0
    BY <1>1, <1>2, <1>3
  <2> QED BY <1>2, <1>3, <1>4, <2>1 DEF EtherSeconds
<1>7. balance' = SumFunctionOnSet(Balances', Contracts) /\ balance' \in Nat
  <2> DEFINE f == Balances
             g == Balances'
  <2>1. /\ \A x \in Contracts : f[x] \in Int
        /\ \A x \in Contracts : g[x] \in Nat
        /\ g[c] \in Int /\ g[c] = ether /\ f[c] = EtherBalance(c)
        /\ \A x \in Contracts : x # c => g[x] = f[x]
    BY <1>1, <1>4 DEF Balances
  <2> HIDE DEF f, g
  <2>2. SumFunctionOnSet(g, Contracts) = SumFunctionOnSet(f, Contracts) - f[c] + g[c]
    BY <1>1, <2>1, SumChange
  <2>3. SumFunctionOnSet(g, Contracts) \in Nat
    BY <1>1, <2>1, SumNat
  <2>4. balance = SumFunctionOnSet(f, Contracts)
    BY <1>1 DEF f
  <2>5. balance' = SumFunctionOnSet(g, Contracts)
    BY <2>1, <2>2, <2>4
  <2> QED BY <2>3, <2>5 DEF g
<1>8. /\ redeemed' \in [Contracts -> Nat] /\ redeemed'[c] = redeemed[c] + paid
      /\ \A x \in Contracts : x # c => redeemed'[x] = redeemed[x]
  <2>1. redeemed \in [Contracts -> Nat] /\ redeemed[c] + paid \in Nat
    BY <1>1 DEF GasTypeOK
  <2> QED BY <2>1
<1>9. SecondsRedeemedOnce'
  <2>1. ASSUME NEW x \in Contracts
        PROVE  EtherSeconds(x)' + redeemed'[x] <= matured'[x]
    <3>1. CASE x = c
      BY <1>1, <1>6, <1>8, <3>1
    <3>2. CASE x # c
      BY <1>1, <1>5, <1>8, <3>2
    <3> QED BY <3>1, <3>2
  <2> QED BY <2>1 DEF SecondsRedeemedOnce
<1>10. \A x \in Contracts : gasParams'[x].lastUpdated <= now'
  BY <1>1, <1>2, <1>3
<1>11. GasTypeOK'
  BY <1>1, <1>3, <1>7, <1>8 DEF GasTypeOK
<1>12. ValidRates(rates)'
  BY DEF GasInv, ValidRates
<1> QED BY <1>7, <1>9, <1>10, <1>11, <1>12 DEF GasInv, GasBacked, Balances

\* A claim takes at least the ether-seconds that it redeems.
LEMMA ClaimPays ==
  ASSUME GasInv, NEW gas \in Nat \ {0}, NEW seconds \in Nat, NEW have \in Nat,
         seconds <= have
  PROVE  LET r == ClaimRate(seconds, gas)
             paid == IF r.rate = rates.zeroClaimRate THEN 0
                     ELSE gas * Min({seconds \div gas, rates.ceilGasSeconds})
         IN  paid \in Nat /\ have - r.seconds \in Nat /\ have - r.seconds + paid <= have
<1> DEFINE r == ClaimRate(seconds, gas)
           staked == seconds \div gas
           ceil == rates.ceilGasSeconds
           paid == IF r.rate = rates.zeroClaimRate THEN 0 ELSE gas * Min({staked, ceil})
           p == gas * staked
           q == gas * ceil
<1>1. /\ rates.baseGasSeconds \in Nat \ {0} /\ ceil \in Nat /\ rates.baseGasSeconds < ceil
  BY GasFields
<1>2. staked \in Nat /\ p \in Nat /\ q \in Nat /\ p <= seconds
  <2>1. staked \in Nat /\ gas * staked <= seconds
    OBVIOUS
  <2> HIDE DEF staked, ceil
  <2>2. \A x \in Nat : gas * x \in Nat
    OBVIOUS
  <2> QED BY <1>1, <2>1, <2>2
<1>3. Min({staked, ceil}) = IF staked <= ceil THEN staked ELSE ceil
  <2>1. staked \in Int /\ ceil \in Int
    BY <1>1, <1>2
  <2> HIDE DEF staked, ceil
  <2> QED BY <2>1, MaxMinOfTwo
<1>4. gas * Min({staked, ceil}) = IF staked <= ceil THEN p ELSE q
  BY <1>3
<1>5. /\ staked < rates.baseGasSeconds =>
           r.seconds = 0 /\ r.rate = rates.zeroClaimRate
      /\ staked >= ceil => r.seconds = q
      /\ staked >= rates.baseGasSeconds /\ staked < ceil => r.seconds = seconds
  BY <1>1, <1>2 DEF ClaimRate
<1>6. staked >= ceil => q <= p
  <2> HIDE DEF staked, ceil
  <2>1. \A x, y \in Nat : x >= y => gas * y <= gas * x
    OBVIOUS
  <2> QED BY <1>1, <1>2, <2>1
<1>7. staked >= ceil /\ staked <= ceil => p = q
  BY <1>1, <1>2
<1>8. /\ paid = IF r.rate = rates.zeroClaimRate THEN 0 ELSE IF staked <= ceil THEN p ELSE q
  BY <1>4
<1> HIDE DEF r, p, q, staked, ceil, paid
<1>9. paid \in Nat /\ have - r.seconds \in Nat /\ have - r.seconds + paid <= have
  <2>1. CASE staked < rates.baseGasSeconds
    BY <1>5, <1>8, <2>1
  <2>2. CASE staked >= ceil
    BY <1>1, <1>2, <1>5, <1>6, <1>7, <1>8, <2>2
  <2>3. CASE staked >= rates.baseGasSeconds /\ staked < ceil
    BY <1>1, <1>2, <1>5, <1>8, <2>3
  <2> QED BY <1>1, <1>2, <2>1, <2>2, <2>3
<1> QED BY <1>9 DEF paid, r, staked, ceil

\* A claim at any rate.
LEMMA ClaimInv ==
  ASSUME GasInv, NEW c \in Contracts, NEW gas \in Nat, NEW seconds \in Nat,
         claimGas(c, gas, seconds)
  PROVE  GasInv'
<1> DEFINE r == ClaimRate(seconds, gas)
           paid == IF r.rate = rates.zeroClaimRate THEN 0
                   ELSE gas * Min({seconds \div gas, rates.ceilGasSeconds})
<1>1. /\ gas \in Nat \ {0} /\ gas <= EtherBalance(c) /\ seconds <= EtherSeconds(c)
      /\ UpdateGasParams(c, EtherSeconds(c) - r.seconds, EtherBalance(c) - gas, gasParams[c].mode)
      /\ balance' = balance - gas
      /\ redeemed' = [redeemed EXCEPT ![c] = @ + paid]
      /\ UNCHANGED <<rates, governorMap, now, credited, matured>>
  BY DEF claimGas, Claimable, BalanceAfter
<1>2. /\ EtherBalance(c) \in Nat /\ EtherSeconds(c) \in Nat /\ gasParams[c].mode \in GasMode
      /\ balance \in Nat /\ credited \in Nat /\ GasTypeOK
  BY GasFields
<1>3. /\ paid \in Nat /\ EtherSeconds(c) - r.seconds \in Nat
      /\ EtherSeconds(c) - r.seconds + paid <= EtherSeconds(c)
  BY <1>1, <1>2, ClaimPays
<1> HIDE DEF r, paid
<1>4. /\ EtherBalance(c) - gas \in Nat
      /\ balance' = balance - EtherBalance(c) + (EtherBalance(c) - gas)
      /\ governorMap' \in [Contracts -> Governor] /\ credited' \in Nat
  BY <1>1, <1>2 DEF GasTypeOK
<1> QED BY <1>1, <1>2, <1>3, <1>4, UpdateGas

\* The ether-seconds of a claim at a minimum rate are whole numbers of seconds.
LEMMA SecondsForFields ==
  ASSUME GasInv, NEW rate \in Nat, rates.baseClaimRate <= rate
  PROVE  /\ SecondsFor(rate) \in Nat \ {0}
         /\ rates.baseGasSeconds <= SecondsFor(rate)
<1> DEFINE a == (rate - rates.baseClaimRate) * (rates.ceilGasSeconds - rates.baseGasSeconds)
           d == rates.ceilClaimRate - rates.baseClaimRate
<1>1. a \in Nat /\ d \in Nat \ {0}
  <2>1. /\ rate - rates.baseClaimRate \in Nat
        /\ rates.ceilGasSeconds - rates.baseGasSeconds \in Nat
        /\ d \in Nat \ {0}
    BY GasFields
  <2>2. \A x, y \in Nat : x * y \in Nat
    OBVIOUS
  <2> QED BY <2>1, <2>2
<1>2. SecondsFor(rate) = rates.baseGasSeconds + CeilDiv(a, d)
  BY DEF SecondsFor
<1> HIDE DEF a, d
<1>3. CeilDiv(a, d) \in Nat
  <2>1. CASE a = 0
    BY <2>1 DEF CeilDiv
  <2>2. CASE a # 0
    <3>1. a - 1 \in Nat
      BY <1>1, <2>2
    <3>2. (a - 1) \div d \in Nat
      BY <1>1, <3>1
    <3> QED BY <2>2, <3>2 DEF CeilDiv
  <2> QED BY <2>1, <2>2
<1> QED BY <1>2, <1>3, GasFields

\* What a claim at a minimum rate is made of.
LEMMA MinClaimFields ==
  ASSUME GasInv, NEW c \in Contracts, NEW minRate \in Nat
  PROVE  LET want == AtMinClaimRate(c, minRate)
             rate == Max({minRate, rates.baseClaimRate})
         IN  /\ rate \in Nat /\ minRate <= rate /\ rates.baseClaimRate <= rate
             /\ rate = minRate \/ rate = rates.baseClaimRate
             /\ want.gas \in Nat
             /\ want.seconds = want.gas * SecondsFor(rate)
             /\ want.seconds \in Nat
<1> DEFINE rate == Max({minRate, rates.baseClaimRate})
           secs == SecondsFor(rate)
           want == AtMinClaimRate(c, minRate)
<1>1. rates.baseClaimRate \in Nat /\ EtherSeconds(c) \in Nat /\ EtherBalance(c) \in Nat
  BY GasFields
<1>2. /\ rate \in Nat /\ minRate <= rate /\ rates.baseClaimRate <= rate
      /\ rate = minRate \/ rate = rates.baseClaimRate
  BY <1>1, MaxMinOfTwo
<1>3. want.gas = Min({EtherSeconds(c) \div secs, EtherBalance(c)})
      /\ want.seconds = want.gas * secs
  BY DEF AtMinClaimRate
<1> HIDE DEF rate, want
<1>4. secs \in Nat \ {0}
  BY <1>2, SecondsForFields
<1> HIDE DEF secs
<1>5. EtherSeconds(c) \div secs \in Nat
  BY <1>1, <1>4
<1>6. want.gas \in Nat
  <2> DEFINE x == EtherSeconds(c) \div secs
             y == EtherBalance(c)
  <2>1. x \in Nat /\ y \in Nat /\ want.gas = Min({x, y})
    BY <1>1, <1>3, <1>5
  <2> HIDE DEF x, y
  <2>2. x \in Int /\ y \in Int
    BY <2>1
  <2>3. Min({x, y}) = IF x <= y THEN x ELSE y
    BY <2>2, MaxMinOfTwo
  <2> QED BY <2>1, <2>3
<1>7. want.seconds \in Nat
  BY <1>3, <1>4, <1>6
<1> QED BY <1>2, <1>3, <1>6, <1>7 DEF want, secs, rate

\* A minimum rate that is asked for is met, in spite of the rounding to seconds and back.
LEMMA MinRateIsMet == GasInv => MinClaimRateMet
<1> SUFFICES ASSUME GasInv, NEW c \in Contracts,
                    NEW minRate \in rates.zeroClaimRate + 1 .. rates.ceilClaimRate,
                    AtMinClaimRate(c, minRate).gas > 0
             PROVE  LET want == AtMinClaimRate(c, minRate) IN
                    ClaimRate(want.seconds, want.gas).rate >= minRate
  BY DEF MinClaimRateMet
<1> DEFINE rate == Max({minRate, rates.baseClaimRate})
           secs == SecondsFor(rate)
           want == AtMinClaimRate(c, minRate)
           base == rates.baseClaimRate
           ceil == rates.ceilClaimRate
           baseSecs == rates.baseGasSeconds
           ceilSecs == rates.ceilGasSeconds
           d == ceil - base
           s == ceilSecs - baseSecs
           k == secs - baseSecs
<1>1. /\ base \in Nat /\ ceil \in Nat /\ base < ceil
      /\ baseSecs \in Nat \ {0} /\ ceilSecs \in Nat /\ baseSecs < ceilSecs
      /\ minRate \in Nat /\ minRate <= ceil
      /\ d \in Nat \ {0} /\ s \in Nat \ {0}
  BY GasFields
<1>2. /\ rate \in Nat /\ minRate <= rate /\ base <= rate /\ rate <= ceil
      /\ want.gas \in Nat \ {0} /\ want.seconds = want.gas * secs
  BY <1>1, MinClaimFields
<1>3. secs \in Nat \ {0} /\ baseSecs <= secs /\ k \in Nat
  <2> HIDE DEF rate
  <2> QED BY <1>1, <1>2, SecondsForFields
<1> DEFINE e == rate - base
           a == e * s
<1>4. e \in Nat /\ a \in Nat /\ k = CeilDiv(a, d)
  <2>1. e \in Nat
    BY <1>1, <1>2
  <2>2. a \in Nat
    <3> HIDE DEF e, s
    <3> QED BY <1>1, <2>1
  <2>3. secs = baseSecs + CeilDiv(a, d)
    BY DEF SecondsFor
  <2> HIDE DEF a, d, secs, e
  <2>4. CeilDiv(a, d) = secs - baseSecs
    <3>1. CeilDiv(a, d) \in Int
      <4>1. a # 0 => (a - 1) \div d \in Int
        BY <1>1, <2>2
      <4> QED BY <4>1 DEF CeilDiv
    <3> QED BY <1>1, <1>3, <2>3, <3>1
  <2> QED BY <2>1, <2>2, <2>4
<1>5. e * s <= d * k
  <2> HIDE DEF e, s, d, k
  <2>1. CASE a = 0
    <3>1. d * k \in Nat
      BY <1>1, <1>3
    <3> QED BY <2>1, <3>1
  <2>2. CASE a # 0
    <3> DEFINE b == a - 1
               q == b \div d
    <3>1. b \in Nat /\ a = b + 1 /\ k = q + 1
      BY <1>4, <2>2 DEF CeilDiv
    <3> HIDE DEF b
    <3>2. q \in Nat /\ b < d * q + d
      BY <1>1, <3>1
    <3> HIDE DEF q
    <3>3. d * k = d * q + d /\ d * q \in Nat
      BY <1>1, <3>1, <3>2
    <3>4. a <= d * k
      <4> HIDE DEF a
      <4> QED BY <1>1, <3>1, <3>2, <3>3
    <3> QED BY <3>4
  <2> QED BY <2>1, <2>2
<1>6. want.seconds \div want.gas = secs
  <2> DEFINE g == want.gas
  <2>1. g \in Nat \ {0} /\ want.seconds = g * secs
    BY <1>2
  <2> HIDE DEF g, secs
  <2>2. (g * secs) \div g = secs
    BY <1>3, <2>1, ProductDivided
  <2> QED BY <2>1, <2>2 DEF g
<1> DEFINE r == ClaimRate(want.seconds, want.gas)
<1>7. /\ secs >= ceilSecs => r.rate = ceil
      /\ secs < ceilSecs => r.rate = base + (d * k) \div s
  <2> DEFINE seconds == want.seconds
             gas == want.gas
  <2>1. r = ClaimRate(seconds, gas) /\ seconds \div gas = secs
    BY <1>6
  <2> HIDE DEF seconds, gas, secs
  <2>2. secs >= ceilSecs => r.rate = ceil
    BY <1>1, <1>3, <2>1 DEF ClaimRate
  <2>3. secs < ceilSecs => r.rate = base + (d * k) \div s
    BY <1>1, <1>3, <2>1 DEF ClaimRate
  <2> QED BY <2>2, <2>3
<1> HIDE DEF r, e, d, k, s, secs, rate
<1>8. e <= (d * k) \div s
  <2>1. d * k \in Nat
    BY <1>1, <1>3
  <2> QED BY <1>1, <1>4, <1>5, <2>1, DivAtLeast
<1>9. (d * k) \div s \in Nat
  BY <1>1, <1>3
<1>10. base + e = rate
  BY <1>1, <1>2 DEF e
<1>11. r.rate >= minRate
  <2> DEFINE x == (d * k) \div s
  <2>1. x \in Nat /\ e <= x
    BY <1>8, <1>9
  <2>2. secs < ceilSecs => r.rate = base + x
    BY <1>7
  <2> HIDE DEF x
  <2> QED BY <1>1, <1>2, <1>3, <1>4, <1>7, <1>10, <2>1, <2>2
<1> QED BY <1>11 DEF r

\* Nothing is credited at first, and the rates are valid.
LEMMA GasStart == GasInit => GasInv
<1> SUFFICES ASSUME GasInit PROVE GasInv
  OBVIOUS
<1>1. /\ gasParams = [c \in Contracts |-> [etherSeconds |-> 0, etherBalance |-> 0,
                                           lastUpdated |-> 0, mode |-> GasVoid]]
      /\ balance = 0 /\ now = 0 /\ rates = InitialRates /\ IsFiniteSet(Contracts)
  BY GasAssumption DEF GasInit
<1>2. \A c \in Contracts : EtherBalance(c) = 0 /\ EtherSeconds(c) = 0
  BY <1>1 DEF EtherBalance, EtherSeconds
<1>3. GasTypeOK
  BY GasAssumption DEF GasInit, GasTypeOK, GasParams, GasMode, Governor
<1>4. SumFunctionOnSet(Balances, Contracts) = 0
  <2>1. \A c \in Contracts : Balances[c] = 0
    BY <1>2 DEF Balances
  <2> QED BY <1>1, <2>1, SumZero
<1>5. SecondsRedeemedOnce
  <2>1. \A c \in Contracts : redeemed[c] = 0 /\ matured[c] = 0
    BY DEF GasInit
  <2> QED BY <1>2, <2>1 DEF SecondsRedeemedOnce
<1>6. ValidRates(rates)
  BY <1>1, GasAssumption
<1> QED BY <1>1, <1>3, <1>4, <1>5, <1>6 DEF GasInv, GasBacked, Balances

\* Whatever contracts, governors and the admin do, at any time.
LEMMA GasStep ==
  ASSUME GasInv, [GasNext]_gasVars
  PROVE  GasInv'
<1>1. /\ GasTypeOK /\ IsFiniteSet(Contracts) /\ now \in Nat /\ balance \in Nat /\ credited \in Nat
      /\ redeemed \in [Contracts -> Nat] /\ governorMap \in [Contracts -> Governor]
      /\ \A c \in Contracts :
              /\ EtherBalance(c) \in Nat /\ EtherSeconds(c) \in Nat
              /\ gasParams[c].lastUpdated \in Nat
              /\ gasParams[c].lastUpdated <= now /\ gasParams[c].mode \in GasMode
              /\ matured[c] \in Nat /\ redeemed[c] \in Nat
              /\ EtherSeconds(c) + redeemed[c] <= matured[c]
  BY GasFields DEF GasTypeOK
<1>2. \A c \in Contracts : redeemed = [redeemed EXCEPT ![c] = @ + 0]
  BY <1>1
<1>3. ASSUME NEW c \in Contracts, NEW mode \in GasMode, setGasMode(c, mode),
             governorMap' \in [Contracts -> Governor]
      PROVE  GasInv'
  <2>1. /\ EtherSeconds(c) + 0 <= EtherSeconds(c)
        /\ balance = balance - EtherBalance(c) + EtherBalance(c)
    BY <1>1
  <2>2. /\ UpdateGasParams(c, EtherSeconds(c), EtherBalance(c), mode)
        /\ UNCHANGED <<rates, balance, now, credited, matured, redeemed>>
    BY <1>3 DEF setGasMode
  <2> QED BY <1>1, <1>2, <1>3, <2>1, <2>2, UpdateGas
<1>4. ASSUME UNCHANGED <<rates, gasParams, balance, now, credited, matured, redeemed>>,
             governorMap' \in [Contracts -> Governor]
      PROVE  GasInv'
  BY <1>1, <1>4 DEF GasInv, GasBacked, GasTypeOK, SecondsRedeemedOnce, ValidRates,
                    EtherBalance, EtherSeconds
<1>5. ASSUME NEW c \in Contracts, NEW governor \in Governor, setGovernor(c, governor)
      PROVE  governorMap' \in [Contracts -> Governor]
  BY <1>1, <1>5 DEF setGovernor
<1>6. ASSUME NEW c \in Contracts, claimAll(c)
      PROVE  GasInv'
  BY <1>1, <1>6, ClaimInv DEF claimAll
<1>7. ASSUME NEW c \in Contracts, NEW minRate \in Nat, claimGasAtMinClaimRate(c, minRate)
      PROVE  GasInv'
  <2>1. AtMinClaimRate(c, minRate).gas \in Nat /\ AtMinClaimRate(c, minRate).seconds \in Nat
    BY MinClaimFields
  <2>2. CASE claimAll(c)
    BY <1>6, <2>2
  <2>3. CASE claimGas(c, AtMinClaimRate(c, minRate).gas, AtMinClaimRate(c, minRate).seconds)
    BY <2>1, <2>3, ClaimInv
  <2> QED BY <1>7, <2>2, <2>3 DEF claimGasAtMinClaimRate
<1>8. ASSUME NEW c \in Contracts, ByAuthorized(c)
      PROVE  GasInv'
  <2>1. ASSUME NEW mode \in GasMode, NEW governor \in Governor, configureContract(c, mode, governor)
        PROVE  GasInv'
    BY <1>3, <1>5, <2>1 DEF configureContract
  <2>2. ASSUME NEW mode \in GasMode, configureGas(c, mode)
        PROVE  GasInv'
    BY <1>1, <1>3, <2>2 DEF configureGas
  <2>3. ASSUME NEW governor \in Governor, configureGovernor(c, governor)
        PROVE  GasInv'
    BY <1>4, <1>5, <2>3 DEF configureGovernor
  <2>4. ASSUME NEW minRate \in 0 .. BIPS, claimGasAtMinClaimRate(c, minRate)
        PROVE  GasInv'
    <3>1. minRate \in Nat
      BY GasAssumption
    <3> QED BY <1>7, <2>4, <3>1
  <2>5. CASE claimMax(c)
    <3>1. rates.ceilClaimRate \in Nat
      BY GasFields
    <3> QED BY <1>7, <2>5, <3>1 DEF claimMax
  <2>6. ASSUME NEW gas \in 0 .. MaxCredit, NEW seconds \in 0 .. MaxCredit * MaxTime,
               claimGas(c, gas, seconds)
        PROVE  GasInv'
    <3>1. MaxCredit * MaxTime \in Nat
      BY GasAssumption
    <3>2. gas \in Nat /\ seconds \in Nat
      <4> DEFINE all == MaxCredit * MaxTime
      <4>1. all \in Nat /\ seconds \in 0 .. all
        BY <3>1
      <4> HIDE DEF all
      <4> QED BY <4>1, GasAssumption
    <3> QED BY <2>6, <3>2, ClaimInv
  <2> QED BY <1>6, <1>8, <2>1, <2>2, <2>3, <2>4, <2>5, <2>6 DEF ByAuthorized
<1>9. ASSUME NEW c \in Contracts, adminClaimGas(c)
      PROVE  GasInv'
  <2>1. /\ UpdateGasParams(c, 0, 0, GasVoid) /\ balance' = balance - EtherBalance(c)
        /\ UNCHANGED <<rates, governorMap, now, credited, matured, redeemed>>
    BY <1>9 DEF adminClaimGas
  <2>2. /\ balance' = balance - EtherBalance(c) + 0
        /\ 0 + 0 <= EtherSeconds(c) /\ GasVoid \in GasMode
    BY <1>1, <2>1 DEF GasMode
  <2> QED BY <1>1, <1>2, <2>1, <2>2, UpdateGas
<1>10. ASSUME NEW c \in Contracts, NEW fees \in 1 .. MaxCredit, Credit(c, fees)
       PROVE  GasInv'
  <2>1. fees \in Nat
    BY GasAssumption
  <2>2. /\ UpdateGasParams(c, EtherSeconds(c), EtherBalance(c) + fees, GasClaimable)
        /\ balance' = balance + fees /\ credited' = credited + fees
        /\ UNCHANGED <<rates, governorMap, now, matured, redeemed>>
    BY <1>10 DEF Credit
  <2>3. /\ EtherBalance(c) + fees \in Nat /\ credited' \in Nat /\ GasClaimable \in GasMode
        /\ balance' = balance - EtherBalance(c) + (EtherBalance(c) + fees)
        /\ EtherSeconds(c) + 0 <= EtherSeconds(c)
    BY <1>1, <2>1, <2>2 DEF GasMode
  <2> QED BY <1>1, <1>2, <2>2, <2>3, UpdateGas
<1>11. ASSUME NEW r \in Rates, updateAdminParameters(r)
       PROVE  GasInv'
  <2>1. /\ rates' = r /\ ValidRates(r) /\ r \in ClaimRates
        /\ UNCHANGED <<gasParams, governorMap, balance, now, credited, matured, redeemed>>
    BY <1>11, GasAssumption DEF updateAdminParameters
  <2>2. GasTypeOK' /\ ValidRates(rates)'
    BY <1>1, <2>1 DEF GasTypeOK, ValidRates
  <2> QED BY <1>1, <2>1, <2>2 DEF GasInv, GasBacked, SecondsRedeemedOnce, EtherBalance, EtherSeconds
<1>12. CASE NextSecond
  <2>1. /\ now' = now + 1
        /\ matured' = [c \in Contracts |-> matured[c] + EtherBalance(c)]
        /\ UNCHANGED <<rates, gasParams, governorMap, balance, credited, redeemed>>
    BY <1>12 DEF NextSecond
  <2>2. ASSUME NEW c \in Contracts
        PROVE  EtherBalance(c)' = EtherBalance(c) /\ EtherSeconds(c)' = EtherSeconds(c) + EtherBalance(c)
    <3> DEFINE e == EtherBalance(c)
               t == now - gasParams[c].lastUpdated
    <3>1. /\ e \in Nat /\ t \in Nat /\ now' - gasParams'[c].lastUpdated = t + 1
          /\ gasParams[c].etherSeconds \in Nat /\ EtherBalance(c)' = e
      BY <1>1, <2>1 DEF GasTypeOK, GasParams, EtherBalance
    <3>2. /\ EtherSeconds(c)' = gasParams[c].etherSeconds + e * (t + 1)
          /\ EtherSeconds(c) = gasParams[c].etherSeconds + e * t
      BY <2>1, <3>1 DEF EtherSeconds
    <3> HIDE DEF e, t
    <3>3. e * (t + 1) = e * t + e /\ e * t \in Nat
      BY <3>1
    <3>4. EtherSeconds(c)' = EtherSeconds(c) + e
      BY <3>1, <3>2, <3>3
    <3> QED BY <3>1, <3>4 DEF e
  <2>3. GasTypeOK'
    <3>1. matured' \in [Contracts -> Nat] /\ now' \in Nat
      BY <1>1, <2>1
    <3> QED BY <1>1, <2>1, <3>1 DEF GasTypeOK
  <2>4. SecondsRedeemedOnce'
    <3>1. ASSUME NEW c \in Contracts
          PROVE  EtherSeconds(c)' + redeemed'[c] <= matured'[c]
      <4>1. matured'[c] = matured[c] + EtherBalance(c)
        BY <2>1
      <4> QED BY <1>1, <2>1, <2>2, <4>1
    <3> QED BY <3>1 DEF SecondsRedeemedOnce
  <2>5. \A c \in Contracts : gasParams'[c].lastUpdated <= now'
    BY <1>1, <2>1
  <2>6. GasBacked' /\ ValidRates(rates)'
    BY <2>1, <2>3 DEF GasInv, GasBacked, EtherBalance, ValidRates
  <2> QED BY <2>4, <2>5, <2>6 DEF GasInv
<1>13. CASE UNCHANGED gasVars
  BY <1>4, <1>13, <1>1 DEF gasVars
<1> QED BY <1>8, <1>9, <1>10, <1>11, <1>12, <1>13 DEF GasNext

-----------------------------------------------------------------------------
(* ResourceMetering *)

\* Once a deposit was made in this block, the counter in params is what was bought.
MeteringInv ==
  /\ DepositsFit
  /\ Sane(config, gasLimit)
  /\ config.maxResourceLimit <= limit
  /\ bought > 0 => params.prevBlockNum = blockNumber
  /\ params.prevBlockNum = blockNumber => params.prevBoughtGas = bought

\* What Power computes.
LEMMA PowerIs ==
  ASSUME NEW x \in Nat
  PROVE  /\ Power(x)[0] = 1
         /\ \A n \in Nat : Power(x)[n] \in Nat /\ Power(x)[n + 1] = x * Power(x)[n]
<1> DEFINE Eq(p) == p = [n \in Nat |-> IF n = 0 THEN 1 ELSE x * p[n - 1]]
           next == [n \in Nat |-> [v \in Nat |-> x * v]]
           P == Power(x)
           Typed == {n \in Nat : P[n] \in Nat}
<1>1. \E p : Eq(p)
  <2>1. next \in [Nat -> [Nat -> Nat]]
    OBVIOUS
  <2>2. 1 \in Nat
    OBVIOUS
  <2> HIDE DEF next
  <2>3. PICK f : IsIteration(f, Nat, 1, next)
    BY <2>1, <2>2, Iteration
  <2>4. ASSUME NEW n \in Nat, n # 0 PROVE f[n] = x * f[n - 1]
    <3>1. n - 1 \in Nat /\ (n - 1) + 1 = n
      BY <2>4
    <3>2. f[n] = next[n][f[n - 1]] /\ f[n - 1] \in Nat
      BY <2>3, <3>1 DEF IsIteration
    <3> QED BY <3>1, <3>2 DEF next
  <2>5. Eq(f)
    BY <2>3, <2>4 DEF IsIteration
  <2> QED BY <2>5
<1>2. Eq(P)
  <2>1. P = CHOOSE p : Eq(p)
    BY Zenon DEF Power
  <2> HIDE DEF P, Eq
  <2> QED BY <1>1, <2>1
<1> HIDE DEF P
<1>3. P[0] = 1 /\ \A n \in Nat : P[n + 1] = x * P[n]
  <2>1. \A n \in Nat : n + 1 \in Nat /\ n + 1 # 0 /\ (n + 1) - 1 = n
    OBVIOUS
  <2>2. \A n \in Nat : P[n] = IF n = 0 THEN 1 ELSE x * P[n - 1]
    BY <1>2
  <2> QED BY <2>1, <2>2
<1>4. 0 \in Typed /\ \A n \in Nat : n \in Typed => n + 1 \in Typed
  BY <1>3
<1>5. \A n \in Nat : n \in Typed
  <2> HIDE DEF Typed
  <2> QED BY <1>4, Inductive
<1> QED BY <1>3, <1>5 DEF P

\* No power of a positive number is 0.
LEMMA PowerPositive ==
  ASSUME NEW x \in Nat \ {0}
  PROVE  \A n \in Nat : Power(x)[n] \in Nat \ {0}
<1> DEFINE Good == {n \in Nat : Power(x)[n] \in Nat \ {0}}
<1>1. 0 \in Good
  BY PowerIs
<1>2. ASSUME NEW n \in Nat, n \in Good PROVE n + 1 \in Good
  <2>1. Power(x)[n + 1] = x * Power(x)[n] /\ Power(x)[n] \in Nat \ {0}
    BY <1>2, PowerIs
  <2>2. \A a, b \in Nat \ {0} : a * b \in Nat \ {0}
    OBVIOUS
  <2> QED BY <2>1, <2>2
<1>3. \A n \in Nat : n \in Good
  <2> HIDE DEF Good
  <2> QED BY <1>1, <1>2, Inductive
<1> QED BY <1>3

\* What one empty block takes off a fee: a part in d, rounded down.
LEMMA DecayByOne ==
  ASSUME NEW d \in Nat, d >= 2, NEW x \in Nat
  PROVE  LET y == x - x \div d IN
           /\ y \in Nat /\ y <= x
           /\ (d - 1) * x <= d * y
           /\ d * y < (d - 1) * x + d
<1> DEFINE q == x \div d
<1>1. q \in Nat /\ d * q <= x /\ x < d * q + d
  OBVIOUS
<1> HIDE DEF q
<1>2. q <= x
  <2>1. q <= d * q
    BY <1>1
  <2> QED BY <1>1, <2>1
<1>3. d * (x - q) = d * x - d * q /\ (d - 1) * x = d * x - x
  BY <1>1
<1> DEFINE dq == d * q  dx == d * x
<1>4. dq \in Nat /\ dx \in Nat
  BY <1>1
<1>5. d * (x - q) = dx - dq /\ (d - 1) * x = dx - x /\ dq <= x /\ x < dq + d
  BY <1>1, <1>3
<1> HIDE DEF dq, dx
<1>6. (d - 1) * x <= d * (x - q) /\ d * (x - q) < (d - 1) * x + d
  BY <1>4, <1>5
<1> QED BY <1>1, <1>2, <1>6 DEF q

\* If a fee x is at least F*B/A, then what a block leaves of it is at least F*B/A with
\* one more factor of 1 - 1/d; and if it is at most n more, then less than n + 1 more.
LEMMA DecayKeepsBounds ==
  ASSUME NEW d \in Nat, d >= 2, NEW F \in Nat, NEW A \in Nat \ {0}, NEW B \in Nat,
         NEW n \in Nat, NEW x \in Nat, NEW y \in Nat,
         (d - 1) * x <= d * y, d * y < (d - 1) * x + d
  PROVE  /\ F * B <= x * A => F * ((d - 1) * B) <= y * (d * A)
         /\ x * A <= F * B + n * A => y * (d * A) < F * ((d - 1) * B) + (n + 1) * (d * A)
<1> DEFINE e == d - 1  u == d * y  v == e * x  uA == y * (d * A)  vA == e * (x * A)
           FB == F * B  eFB == F * (e * B)  xA == x * A  nA == n * A  eA == e * A  dA == d * A
<1>1. e \in Nat /\ u \in Nat /\ v \in Nat /\ u >= v /\ u < v + d /\ u <= v + e
  OBVIOUS
<1>2. /\ uA \in Nat /\ vA \in Nat /\ FB \in Nat /\ eFB \in Nat /\ xA \in Nat
      /\ nA \in Nat /\ eA \in Nat /\ dA \in Nat
  BY <1>1
<1>3. uA = u * A /\ vA = v * A /\ eFB = e * FB
  <2>1. \A a, b, c \in Int : a * (b * c) = (b * a) * c /\ a * (b * c) = (a * b) * c
                             /\ a * (b * c) = b * (a * c)
    OBVIOUS
  <2> QED BY <1>1, <2>1
<1>4. v * A <= u * A
  <2>1. \A a, b \in Nat : a <= b => a * A <= b * A
    OBVIOUS
  <2> QED BY <1>1, <2>1
<1>5. u * A <= v * A + eA
  <2>1. \A a, b \in Nat : a <= b => a * A <= b * A
    OBVIOUS
  <2>2. (v + e) * A = v * A + e * A
    BY <1>1
  <2>3. v + e \in Nat
    BY <1>1
  <2> QED BY <1>1, <2>1, <2>2, <2>3
<1>6. eA < dA /\ eA <= dA
  BY <1>1
<1>7. ASSUME FB <= xA PROVE eFB <= uA
  <2>1. \A a, b \in Nat : a <= b => e * a <= e * b
    BY <1>1
  <2>2. e * FB <= e * xA
    BY <1>2, <1>7, <2>1
  <2>3. eFB <= vA /\ vA <= uA
    BY <1>3, <1>4, <2>2
  <2> HIDE DEF FB, eFB, xA, u, v, uA, vA, e
  <2> QED BY <1>2, <2>3
<1>8. ASSUME xA <= FB + nA PROVE uA < eFB + (n + 1) * dA
  <2>1. \A a, b \in Nat : a <= b => e * a <= e * b
    BY <1>1
  <2>2. FB + nA \in Nat
    BY <1>2
  <2>3. e * xA <= e * (FB + nA)
    BY <1>2, <1>8, <2>1, <2>2
  <2>4. e * (FB + nA) = e * FB + e * nA
    BY <1>1, <1>2
  <2>5. e * nA = n * eA
    <3>1. \A a, b, c \in Int : a * (b * c) = b * (a * c)
      OBVIOUS
    <3> QED BY <1>1, <3>1
  <2>6. n * eA <= n * dA
    <3>1. \A a, b \in Nat : a <= b => n * a <= n * b
      OBVIOUS
    <3> QED BY <1>2, <1>6, <3>1
  <2>7. (n + 1) * dA = n * dA + dA
    BY <1>2
  <2>8. n * dA \in Nat /\ n * eA \in Nat
    BY <1>2
  <2> DEFINE ndA == n * dA  neA == n * eA
  <2>9. vA <= eFB + neA /\ neA <= ndA /\ ndA \in Nat /\ neA \in Nat
    BY <1>3, <2>3, <2>4, <2>5, <2>6, <2>8
  <2>10. (n + 1) * dA = ndA + dA /\ uA <= vA + eA
    BY <1>3, <1>5, <2>7
  <2> HIDE DEF FB, eFB, xA, u, v, uA, vA, e, nA, eA, dA, ndA, neA
  <2> QED BY <1>2, <1>6, <2>9, <2>10
<1> QED BY <1>7, <1>8

\* One more empty block, for a fee that stays between lo and hi.
DecayOnce(x, d, lo) == IF x - x \div d >= lo THEN x - x \div d ELSE lo

\* Block by block, the fee is never below what the closed form gives and, until it is
\* at the minimum, at most one more for each block.
LEMMA StepwiseDecay ==
  ASSUME NEW d \in Nat, d >= 2, NEW lo \in Nat, NEW hi \in Nat, NEW F \in lo .. hi,
         NEW s, s[0] = F,
         \A n \in Nat : s[n] \in lo .. hi => s[n + 1] = DecayOnce(s[n], d, lo)
  PROVE  \A n \in Nat :
           /\ s[n] \in lo .. hi
           /\ F * Power(d - 1)[n] <= s[n] * Power(d)[n]
           /\ \/ s[n] = lo
              \/ s[n] * Power(d)[n] <= F * Power(d - 1)[n] + n * Power(d)[n]
                 /\ (n # 0 => s[n] * Power(d)[n] < F * Power(d - 1)[n] + n * Power(d)[n])
<1> DEFINE A(n) == Power(d)[n]
           B(n) == Power(d - 1)[n]
           Low(n) == F * B(n) <= s[n] * A(n)
           High(n) == s[n] = lo \/ s[n] * A(n) <= F * B(n) + n * A(n)
           Strict(n) == s[n] = lo \/ s[n] * A(n) < F * B(n) + n * A(n)
           Good == {n \in Nat : s[n] \in lo .. hi /\ Low(n) /\ High(n) /\ (n # 0 => Strict(n))}
<1>1. /\ \A n \in Nat : A(n) \in Nat \ {0} /\ A(n + 1) = d * A(n)
      /\ \A n \in Nat : B(n) \in Nat /\ B(n + 1) = (d - 1) * B(n)
      /\ A(0) = 1 /\ B(0) = 1
  <2>1. d \in Nat \ {0} /\ d \in Nat /\ d - 1 \in Nat
    OBVIOUS
  <2>2. A(0) = 1 /\ \A n \in Nat : A(n) \in Nat /\ A(n + 1) = d * A(n)
    BY <2>1, PowerIs
  <2>3. B(0) = 1 /\ \A n \in Nat : B(n) \in Nat /\ B(n + 1) = (d - 1) * B(n)
    BY <2>1, PowerIs
  <2>4. \A n \in Nat : A(n) \in Nat \ {0}
    BY <2>1, PowerPositive
  <2> QED BY <2>2, <2>3, <2>4
<1> HIDE DEF A, B
<1>2. F \in Nat /\ lo <= F /\ F <= hi
  OBVIOUS
<1>3. 0 \in Good
  <2>1. F * 1 = F /\ 0 * 1 = 0 /\ F + 0 = F /\ F <= F
    BY <1>2
  <2>2. Low(0) /\ High(0)
    BY <1>1, <1>2, <2>1
  <2> QED BY <2>2
<1>4. ASSUME NEW n \in Nat, n \in Good PROVE n + 1 \in Good
  <2> DEFINE x == s[n]
             y == x - x \div d
             z == s[n + 1]
  <2>1. x \in Nat /\ lo <= x /\ x <= hi /\ F * B(n) <= x * A(n)
        /\ (x = lo \/ x * A(n) <= F * B(n) + n * A(n))
    BY <1>4
  <2>2. A(n) \in Nat \ {0} /\ B(n) \in Nat /\ A(n + 1) = d * A(n) /\ B(n + 1) = (d - 1) * B(n)
        /\ A(n + 1) \in Nat
    <3>1. n + 1 \in Nat
      OBVIOUS
    <3> QED BY <1>1, <3>1
  <2>3. z = IF y >= lo THEN y ELSE lo
    BY <1>4 DEF DecayOnce
  <2>4. y \in Nat /\ y <= x /\ (d - 1) * x <= d * y /\ d * y < (d - 1) * x + d
    BY <2>1, DecayByOne
  <2> HIDE DEF x, y, z
  <2>5. z \in lo .. hi /\ z \in Nat /\ y <= z
    BY <2>1, <2>3, <2>4
  <2>6. F * ((d - 1) * B(n)) <= y * (d * A(n))
    BY <1>2, <2>1, <2>2, <2>4, DecayKeepsBounds
  <2>7. F * B(n + 1) <= z * A(n + 1)
    <3>1. \A k \in Nat, a, b \in Nat : a <= b => a * k <= b * k
      OBVIOUS
    <3>2. y * A(n + 1) <= z * A(n + 1)
      BY <2>2, <2>4, <2>5, <3>1
    <3>3. F * B(n + 1) <= y * A(n + 1)
      BY <2>2, <2>6
    <3> DEFINE p == F * B(n + 1)  q == y * A(n + 1)  r == z * A(n + 1)
    <3>4. p \in Int /\ q \in Int /\ r \in Int
      <4>1. n + 1 \in Nat
        OBVIOUS
      <4>2. B(n + 1) \in Nat
        BY <1>1, <4>1
      <4> QED BY <1>2, <2>2, <2>4, <2>5, <4>2
    <3>5. p <= q /\ q <= r
      BY <3>2, <3>3
    <3> HIDE DEF p, q, r
    <3>6. p <= r
      BY <3>4, <3>5
    <3> QED BY <3>6 DEF p, r
  <2>8. z = lo \/ z * A(n + 1) < F * B(n + 1) + (n + 1) * A(n + 1)
    <3>1. CASE x = lo
      BY <2>1, <2>3, <2>4, <3>1
    <3>2. CASE x * A(n) <= F * B(n) + n * A(n)
      <4>1. y * (d * A(n)) < F * ((d - 1) * B(n)) + (n + 1) * (d * A(n))
        BY <1>2, <2>1, <2>2, <2>4, <3>2, DecayKeepsBounds
      <4> QED BY <2>2, <2>3, <4>1
    <3> QED BY <2>1, <3>1, <3>2
  <2>9. z * A(n + 1) \in Int /\ F * B(n + 1) + (n + 1) * A(n + 1) \in Int
    <3>1. B(n + 1) \in Nat
      BY <2>2
    <3> QED BY <1>2, <2>2, <2>5, <3>1
  <2>10. \A a, b \in Int : a < b => a <= b
    OBVIOUS
  <2>11. High(n + 1) /\ Strict(n + 1) /\ Low(n + 1)
    <3>1. z * A(n + 1) < F * B(n + 1) + (n + 1) * A(n + 1)
            => z * A(n + 1) <= F * B(n + 1) + (n + 1) * A(n + 1)
      BY <2>9, <2>10
    <3> QED BY <2>7, <2>8, <3>1 DEF z
  <2> QED BY <2>5, <2>11 DEF z
<1>5. \A n \in Nat : n \in Good
  <2> HIDE DEF Good
  <2> QED BY <1>3, <1>4, Inductive
<1> QED BY <1>5 DEF A, B

\* What the closed form gives, to be compared with a number F*B/A.
LEMMA ClosedFormBounds ==
  ASSUME denominator \in Nat \ {0}, NEW F \in Nat, NEW n \in Nat, NEW f \in cdexp(F, n)
  PROVE  LET A == Power(denominator)[n]
             B == Power(denominator - 1)[n]
         IN  /\ f \in Int
             /\ \A x \in Nat : F * B <= x * A => f <= x
             /\ \A x \in Nat : x * A < F * B + n * A => x <= f + n
<1> DEFINE A == Power(denominator)[n]
           B == Power(denominator - 1)[n]
           N == F * B
           e == N \div A
<1>1. A \in Nat \ {0} /\ B \in Nat
  <2>1. denominator - 1 \in Nat
    OBVIOUS
  <2> QED BY <2>1, PowerPositive, PowerIs
<1>2. f = e \/ (f = e - 1 /\ N % A = 0)
  BY DEF cdexp
<1> HIDE DEF A, B
<1>3. N \in Nat
  BY <1>1
<1> HIDE DEF N
<1>4. e \in Nat /\ e * A <= N /\ N < (e + 1) * A /\ (N % A = 0 => N = e * A)
  <2>1. e \in Nat
    BY <1>1, <1>3
  <2>2. N % A = N - A * e
    BY <1>1, <1>3
  <2>3. 0 <= N % A /\ N % A < A
    BY <1>1, <1>3
  <2>4. A * e = e * A /\ (e + 1) * A = e * A + A /\ e * A \in Nat
    BY <1>1, <2>1
  <2> HIDE DEF e
  <2> QED BY <1>1, <1>3, <2>1, <2>2, <2>3, <2>4
<1> HIDE DEF e
<1>5. \A a, b \in Int : a * A < b * A => a < b
  BY <1>1
<1>6. ASSUME NEW x \in Nat, N <= x * A PROVE f <= x
  <2>1. e * A < (x + 1) * A
    BY <1>1, <1>3, <1>4, <1>6
  <2>2. e < x + 1
    BY <1>4, <1>5, <2>1
  <2> QED BY <1>2, <1>4, <2>2
<1>7. ASSUME NEW x \in Nat, x * A < N + n * A PROVE x <= f + n
  <2>1. \A k \in Int : k * A + n * A = (k + n) * A
    BY <1>1
  <2>2. CASE f = e
    <3>1. x * A < (e + 1) * A + n * A
      BY <1>1, <1>3, <1>4, <1>7
    <3>2. x * A < ((e + 1) + n) * A
      BY <1>4, <2>1, <3>1
    <3>3. x < (e + 1) + n
      BY <1>4, <1>5, <3>2
    <3> QED BY <1>4, <2>2, <3>3
  <2>3. CASE f = e - 1 /\ N % A = 0
    <3>1. x * A < e * A + n * A
      BY <1>4, <1>7, <2>3
    <3>2. x * A < (e + n) * A
      BY <1>4, <2>1, <3>1
    <3>3. x < e + n
      BY <1>4, <1>5, <3>2
    <3> QED BY <1>4, <2>3, <3>3
  <2> QED BY <1>2, <2>2, <2>3
<1> QED BY <1>2, <1>4, <1>6, <1>7 DEF A, B, N

\* The configuration in force is sane, and a fee is a number again once it is clamped.
LEMMA ClampIsNatural ==
  ASSUME config \in Config, NEW fee \in Int
  PROVE  Clamp(fee) \in Nat
<1>1. config.minimumBaseFee \in Nat /\ config.maximumBaseFee \in Nat
  BY DEF Config
<1> DEFINE low == config.minimumBaseFee
           high == config.maximumBaseFee
           m == Max({fee, low})
<1>2. m \in Nat /\ low \in Nat /\ high \in Nat
  <2>1. m = IF fee >= low THEN fee ELSE low
    BY <1>1, MaxMinOfTwo
  <2> QED BY <1>1, <2>1
<1>3. Clamp(fee) = Min({m, high})
  BY DEF Clamp
<1> HIDE DEF m, high
<1>4. Min({m, high}) = IF m <= high THEN m ELSE high
  <2>1. m \in Int /\ high \in Int
    BY <1>2
  <2> QED BY <2>1, MaxMinOfTwo
<1> QED BY <1>2, <1>3, <1>4

\* The target and the denominator of a sane configuration, with which a fee is
\* computed.
LEMMA TargetIs ==
  ASSUME MeteringInv, target > 0
  PROVE  target \in Nat \ {0} /\ denominator \in Nat \ {0}
<1>1. /\ config.maxResourceLimit \in Nat /\ config.elasticityMultiplier \in Nat \ {0}
      /\ config.baseFeeMaxChangeDenominator \in Nat \ {0}
  BY DEF MeteringInv, DepositsFit, MeteringTypeOK, Sane, Config
<1>2. target \in Nat
  BY <1>1 DEF target
<1> QED BY <1>1, <1>2 DEF denominator

\* Before it is clamped, the next base fee is a whole number.
LEMMA RawFeeIsInteger ==
  ASSUME MeteringInv, target > 0, NEW fee \in Nat, NEW gas \in Nat
  PROVE  fee + SDiv(fee * (gas - target), target * denominator) \in Int
<1> DEFINE change == fee * (gas - target)
           divisor == target * denominator
<1>1. target \in Nat \ {0} /\ denominator \in Nat \ {0}
  BY TargetIs
<1>2. change \in Int /\ divisor \in Nat \ {0}
  <2>1. \A x, y \in Int : x * y \in Int
    OBVIOUS
  <2>2. \A x, y \in Nat \ {0} : x * y \in Nat \ {0}
    OBVIOUS
  <2>3. gas - target \in Int
    BY <1>1
  <2> QED BY <1>1, <2>1, <2>2, <2>3
<1>3. SDiv(change, divisor) \in Int
  <2> HIDE DEF change, divisor
  <2>1. \A x \in Int : x \div divisor \in Int
    BY <1>2
  <2> QED BY <1>2, <2>1 DEF SDiv
<1> QED BY <1>3

\* Clamped, it is a natural one.
LEMMA NextBaseFeeIsNatural ==
  ASSUME MeteringInv, target > 0, NEW fee \in Nat, NEW gas \in Nat
  PROVE  NextBaseFee(fee, gas) \in Nat
<1>1. config \in Config
  BY DEF MeteringInv, DepositsFit, MeteringTypeOK
<1> QED BY <1>1, RawFeeIsInteger, ClampIsNatural DEF NextBaseFee

\* So is every base fee a deposit may pay.
LEMMA BaseFeeIsNatural ==
  ASSUME MeteringInv, NEW blockDiff \in Nat, Computable(blockDiff), NEW fee \in BaseFees(blockDiff)
  PROVE  fee \in Nat
<1>1. config \in Config /\ params.prevBaseFee \in Nat /\ params.prevBoughtGas \in Nat
  BY DEF MeteringInv, DepositsFit, MeteringTypeOK, ResourceParams
<1>2. CASE blockDiff = 0
  BY <1>1, <1>2 DEF BaseFees
<1>3. CASE blockDiff > 0
  <2> DEFINE next == NextBaseFee(params.prevBaseFee, params.prevBoughtGas)
  <2>1. target > 0
    BY <1>3 DEF Computable
  <2>2. next \in Nat
    BY <1>1, <2>1, NextBaseFeeIsNatural
  <2>3. fee \in Decayed(next, blockDiff)
    BY <1>3 DEF BaseFees
  <2> HIDE DEF next
  <2>4. CASE blockDiff = 1
    BY <2>2, <2>3, <2>4 DEF Decayed
  <2>5. CASE blockDiff > 1
    <3>1. PICK f \in cdexp(next, EmptyBlocks(blockDiff)) : fee = Clamp(f)
      BY <2>3, <2>5 DEF Decayed
    <3>2. denominator \in Nat \ {0} /\ EmptyBlocks(blockDiff) \in Nat
      BY <2>1, <2>5, TargetIs DEF EmptyBlocks
    <3>3. f \in Int
      BY <2>2, <3>1, <3>2, ClosedFormBounds
    <3> QED BY <1>1, <3>1, <3>3, ClampIsNatural
  <2> QED BY <1>3, <2>4, <2>5
<1> QED BY <1>2, <1>3

\* Clamping, with a minimum that is not above the maximum.
LEMMA ClampIs ==
  ASSUME MeteringInv, NEW fee \in Int
  PROVE  LET lo == config.minimumBaseFee
             hi == config.maximumBaseFee
         IN  /\ lo \in Nat /\ hi \in Nat /\ lo <= hi
             /\ Clamp(fee) = IF fee >= lo THEN (IF fee <= hi THEN fee ELSE hi) ELSE lo
<1> DEFINE lo == config.minimumBaseFee
           hi == config.maximumBaseFee
           m == Max({fee, lo})
<1>1. lo \in Nat /\ hi \in Nat /\ lo <= hi
  BY DEF MeteringInv, DepositsFit, MeteringTypeOK, Config, Sane
<1>2. m = IF fee >= lo THEN fee ELSE lo
  BY <1>1, MaxMinOfTwo
<1>3. Clamp(fee) = Min({m, hi})
  BY DEF Clamp
<1> HIDE DEF lo, hi, m
<1>4. Min({m, hi}) = IF m <= hi THEN m ELSE hi
  <2>1. m \in Int /\ hi \in Int
    BY <1>1, <1>2
  <2> QED BY <2>1, MaxMinOfTwo
<1>5. Clamp(fee) = IF fee >= lo THEN (IF fee <= hi THEN fee ELSE hi) ELSE lo
  BY <1>1, <1>2, <1>3, <1>4
<1> QED BY <1>1, <1>5 DEF lo, hi

\* A block in which no gas is bought takes the part in denominator off the fee.
LEMMA EmptyBlockIs ==
  ASSUME MeteringInv, target > 0, NEW x \in config.minimumBaseFee .. config.maximumBaseFee
  PROVE  NextBaseFee(x, 0) = DecayOnce(x, denominator, config.minimumBaseFee)
<1> DEFINE lo == config.minimumBaseFee
           hi == config.maximumBaseFee
           t == target
           d == denominator
           q == x \div d
<1>1. t \in Nat \ {0} /\ d \in Nat \ {0}
  BY TargetIs
<1>2. lo \in Nat /\ hi \in Nat /\ lo <= hi
  BY ClampIs, 0 \in Int
<1>3. x \in Nat /\ x <= hi
  BY <1>2
<1>4. q \in Nat /\ q <= x
  <2>1. q \in Nat /\ d * q <= x
    BY <1>1, <1>3
  <2> HIDE DEF q
  <2>2. q <= d * q
    BY <1>1, <2>1
  <2>3. d * q \in Nat
    BY <1>1, <2>1
  <2> QED BY <1>3, <2>1, <2>2, <2>3
<1>5. SDiv(x * (0 - t), t * d) = 0 - q
  <2> DEFINE a == x * (0 - t)  b == t * d  y == x * t
  <2>1. a = -y /\ y \in Nat /\ b \in Nat \ {0}
    <3>1. \A u \in Nat, v \in Nat \ {0} : u * (0 - v) = -(u * v) /\ u * v \in Nat
      OBVIOUS
    <3>2. \A u, v \in Nat \ {0} : u * v \in Nat \ {0}
      OBVIOUS
    <3> QED BY <1>1, <1>3, <3>1, <3>2
  <2>2. y \div b = q
    BY <1>1, <1>3, DivCancel
  <2> HIDE DEF a, b, y, q
  <2>3. ASSUME a >= 0 PROVE SDiv(a, b) = 0 - q
    <3>1. y = 0 /\ a = 0
      BY <2>1, <2>3
    <3>2. 0 \div b = 0
      BY <2>1
    <3>3. q = 0 /\ SDiv(a, b) = 0
      BY <2>2, <2>3, <3>1, <3>2 DEF SDiv
    <3> QED BY <3>3
  <2>4. ASSUME ~(a >= 0) PROVE SDiv(a, b) = 0 - q
    <3>1. -a = y
      BY <2>1
    <3>2. \A z \in Int : -z = 0 - z
      OBVIOUS
    <3>3. SDiv(a, b) = -q
      BY <2>2, <2>4, <3>1 DEF SDiv
    <3> QED BY <1>4, <3>2, <3>3
  <2>5. SDiv(a, b) = 0 - q
    BY <2>3, <2>4
  <2> QED BY <2>5 DEF a, b
<1>6. NextBaseFee(x, 0) = Clamp(x - q)
  <2>1. x + (0 - q) = x - q
    BY <1>3, <1>4
  <2>2. NextBaseFee(x, 0) = Clamp(x + SDiv(x * (0 - t), t * d))
    BY DEF NextBaseFee
  <2> HIDE DEF q, t, d
  <2> QED BY <1>5, <2>1, <2>2
<1>7. x - q \in Int /\ x - q <= hi
  BY <1>2, <1>3, <1>4
<1>8. Clamp(x - q) = IF x - q >= lo THEN x - q ELSE lo
  <2>1. Clamp(x - q) = IF x - q >= lo THEN (IF x - q <= hi THEN x - q ELSE hi) ELSE lo
    BY <1>7, ClampIs
  <2> QED BY <1>7, <2>1
<1> QED BY <1>6, <1>8 DEF DecayOnce

\* What stepping block by block computes.
LEMMA StepwiseIs ==
  ASSUME MeteringInv, target > 0
  PROVE  /\ StepwiseBaseFee[1] = NextBaseFee(params.prevBaseFee, params.prevBoughtGas)
         /\ \A n \in Nat : StepwiseBaseFee[n + 2] = NextBaseFee(StepwiseBaseFee[n + 1], 0)
<1> DEFINE first == params.prevBaseFee
           gas(n) == IF n = 1 THEN params.prevBoughtGas ELSE 0
           Eq(s) == s = [n \in Nat |-> IF n = 0 THEN first ELSE NextBaseFee(s[n - 1], gas(n))]
           next == [n \in Nat |-> [fee \in Nat |-> NextBaseFee(fee, gas(n))]]
<1>1. first \in Nat /\ \A n \in Nat : gas(n) \in Nat
  BY DEF MeteringInv, DepositsFit, MeteringTypeOK, ResourceParams
<1> HIDE DEF first, gas
<1>2. \E s : Eq(s)
  <2>1. next \in [Nat -> [Nat -> Nat]]
    BY <1>1, NextBaseFeeIsNatural
  <2> HIDE DEF next
  <2>2. PICK f : IsIteration(f, Nat, first, next)
    BY <1>1, <2>1, Iteration
  <2>3. ASSUME NEW n \in Nat, n # 0 PROVE f[n] = NextBaseFee(f[n - 1], gas(n))
    <3>1. n - 1 \in Nat /\ (n - 1) + 1 = n
      BY <2>3
    <3>2. f[n] = next[n][f[n - 1]] /\ f[n - 1] \in Nat
      BY <2>2, <3>1 DEF IsIteration
    <3> QED BY <3>1, <3>2 DEF next
  <2>4. Eq(f)
    BY <2>2, <2>3 DEF IsIteration
  <2> QED BY <2>4
<1>3. Eq(StepwiseBaseFee)
  <2>1. StepwiseBaseFee = CHOOSE s : Eq(s)
    BY Zenon DEF StepwiseBaseFee, first, gas
  <2> HIDE DEF Eq
  <2> QED BY <1>2, <2>1
<1>4. \A n \in Nat : n # 0 => StepwiseBaseFee[n] = NextBaseFee(StepwiseBaseFee[n - 1], gas(n))
  BY <1>3
<1>5. StepwiseBaseFee[0] = first
  BY <1>3
<1>6. StepwiseBaseFee[1] = NextBaseFee(first, gas(1))
  <2>1. 1 \in Nat /\ 1 # 0 /\ 1 - 1 = 0
    OBVIOUS
  <2> QED BY <1>4, <1>5, <2>1
<1>7. ASSUME NEW n \in Nat
      PROVE  StepwiseBaseFee[n + 2] = NextBaseFee(StepwiseBaseFee[n + 1], gas(n + 2))
  <2>1. n + 2 \in Nat /\ n + 2 # 0 /\ (n + 2) - 1 = n + 1
    OBVIOUS
  <2> QED BY <1>4, <2>1
<1>8. gas(1) = params.prevBoughtGas /\ \A n \in Nat : gas(n + 2) = 0
  BY DEF gas
<1> QED BY <1>6, <1>7, <1>8 DEF first

\* The fee in closed form, against that of stepping over one block more.
LEMMA ClosedFormIsClose ==
  ASSUME MeteringInv, target > 0, denominator > 1, NEW n \in Nat \ {0},
         NEW fee \in Decayed(StepwiseBaseFee[1], n + 1)
  PROVE  StepwiseBaseFee[n + 1] - fee \in 0 .. n
<1> DEFINE lo == config.minimumBaseFee
           hi == config.maximumBaseFee
           d == denominator
           F == StepwiseBaseFee[1]
           s == [k \in Nat |-> StepwiseBaseFee[k + 1]]
           A == Power(d)[n]
           B == Power(d - 1)[n]
<1>1. lo \in Nat /\ hi \in Nat /\ lo <= hi
  BY ClampIs, 0 \in Int
<1>2. d \in Nat /\ d >= 2 /\ d \in Nat \ {0}
  BY TargetIs
<1>3. F \in lo .. hi
  <2>1. F = NextBaseFee(params.prevBaseFee, params.prevBoughtGas)
    BY StepwiseIs
  <2> DEFINE raw == params.prevBaseFee
                      + SDiv(params.prevBaseFee * (params.prevBoughtGas - target),
                             target * denominator)
  <2>2. F = Clamp(raw)
    BY <2>1 DEF NextBaseFee
  <2>3. raw \in Int
    <3>1. params.prevBaseFee \in Nat /\ params.prevBoughtGas \in Nat
      BY DEF MeteringInv, DepositsFit, MeteringTypeOK, ResourceParams
    <3> QED BY <3>1, RawFeeIsInteger
  <2> HIDE DEF raw, F
  <2> QED BY <1>1, <2>2, <2>3, ClampIs
<1>4. s[0] = F
  OBVIOUS
<1>5. \A k \in Nat : s[k] \in lo .. hi => s[k + 1] = DecayOnce(s[k], d, lo)
  <2> SUFFICES ASSUME NEW k \in Nat, s[k] \in lo .. hi PROVE s[k + 1] = DecayOnce(s[k], d, lo)
    OBVIOUS
  <2>1. s[k] = StepwiseBaseFee[k + 1] /\ s[k + 1] = StepwiseBaseFee[k + 2]
    <3>1. k + 1 \in Nat /\ (k + 1) + 1 = k + 2
      OBVIOUS
    <3> QED BY <3>1
  <2>2. s[k + 1] = NextBaseFee(s[k], 0)
    BY <2>1, StepwiseIs
  <2> HIDE DEF s
  <2> QED BY <2>2, EmptyBlockIs
<1>6. s[n] = StepwiseBaseFee[n + 1]
  OBVIOUS
<1> HIDE DEF s, F, d
<1>7. /\ s[n] \in lo .. hi
      /\ F * B <= s[n] * A
      /\ s[n] = lo \/ s[n] * A < F * B + n * A
  BY <1>1, <1>2, <1>3, <1>4, <1>5, StepwiseDecay
<1>8. PICK f \in cdexp(F, n) : fee = Clamp(f)
  <2>1. n + 1 > 1 /\ EmptyBlocks(n + 1) = n
    BY DEF EmptyBlocks
  <2> QED BY <2>1 DEF Decayed, F
<1>9. /\ f \in Int
      /\ \A x \in Nat : F * B <= x * A => f <= x
      /\ \A x \in Nat : x * A < F * B + n * A => x <= f + n
  <2>1. F \in Nat /\ n \in Nat
    BY <1>1, <1>3
  <2> QED BY <1>2, <1>8, <2>1, ClosedFormBounds DEF d
<1>10. s[n] \in Nat /\ lo <= s[n] /\ s[n] <= hi
  BY <1>1, <1>7
<1>11. f <= s[n] /\ (s[n] = lo \/ s[n] <= f + n)
  BY <1>7, <1>9, <1>10
<1>12. fee = IF f >= lo THEN (IF f <= hi THEN f ELSE hi) ELSE lo
  BY <1>8, <1>9, ClampIs
<1> HIDE DEF lo, hi
<1>13. s[n] - fee \in 0 .. n
  BY <1>1, <1>9, <1>10, <1>11, <1>12
<1> QED BY <1>6, <1>13

\* The fee over skipped blocks is that of stepping through them, but for the rounding.
LEMMA SkippingSteps == MeteringInv => SkippingIsStepping
<1> SUFFICES ASSUME MeteringInv, NEW blockDiff \in 1 .. MaxBlock, Computable(blockDiff),
                    NEW fee \in BaseFees(blockDiff)
             PROVE  StepwiseBaseFee[blockDiff] - fee \in 0 .. blockDiff - 1
  BY DEF SkippingIsStepping
<1>1. blockDiff \in Nat \ {0}
  BY MeteringAssumption
<1>2. target > 0 /\ (blockDiff > 1 => denominator > 1)
  BY <1>1 DEF Computable
<1>3. fee \in Decayed(StepwiseBaseFee[1], blockDiff)
  BY <1>1, <1>2, StepwiseIs DEF BaseFees
<1>4. CASE blockDiff = 1
  <2>1. fee = StepwiseBaseFee[1]
    BY <1>3, <1>4 DEF Decayed
  <2>2. fee \in Nat
    <3>1. 1 \in Nat
      OBVIOUS
    <3> QED BY <1>1, BaseFeeIsNatural
  <2> QED BY <1>4, <2>1, <2>2
<1>5. CASE blockDiff > 1
  <2>1. blockDiff - 1 \in Nat \ {0} /\ (blockDiff - 1) + 1 = blockDiff
    BY <1>1, <1>5
  <2> DEFINE n == blockDiff - 1
  <2>2. n \in Nat \ {0} /\ n + 1 = blockDiff /\ fee \in Decayed(StepwiseBaseFee[1], n + 1)
    BY <1>3, <2>1
  <2> HIDE DEF n
  <2>3. StepwiseBaseFee[n + 1] - fee \in 0 .. n
    BY <1>2, <1>5, <2>2, ClosedFormIsClose
  <2> QED BY <2>2, <2>3 DEF n
<1> QED BY <1>1, <1>4, <1>5

\* The first block has room, and the initial configuration is sane.
LEMMA MeteringStart == MeteringInit => MeteringInv
<1> SUFFICES ASSUME MeteringInit PROVE MeteringInv
  OBVIOUS
<1>1. /\ config \in Config /\ Sane(config, gasLimit) /\ gasLimit \in Nat
      /\ limit = config.maxResourceLimit /\ bought = 0 /\ blockNumber = 0
      /\ params = [prevBaseFee |-> InitialBaseFee, prevBoughtGas |-> 0, prevBlockNum |-> 0]
      /\ InitialBaseFee \in Nat
  BY MeteringAssumption DEF MeteringInit
<1>2. config.maxResourceLimit \in Nat
  BY <1>1 DEF Config
<1>3. MeteringTypeOK
  BY <1>1, <1>2 DEF MeteringTypeOK, ResourceParams
<1> QED BY <1>1, <1>2, <1>3 DEF MeteringInv, DepositsFit, Sane

\* Deposits, changes of the configuration and of the gas limit, in any order.
LEMMA MeteringStep ==
  ASSUME MeteringInv, [MeteringNext]_meteringVars
  PROVE  MeteringInv'
<1>1. /\ config \in Config /\ gasLimit \in Nat /\ params \in ResourceParams
      /\ blockNumber \in Nat /\ bought \in Nat /\ limit \in Nat
      /\ params.prevBlockNum \in Nat /\ params.prevBoughtGas \in Nat
      /\ params.prevBlockNum <= blockNumber /\ bought <= limit
      /\ Sane(config, gasLimit)
      /\ config.maxResourceLimit \in Nat /\ config.maxResourceLimit <= limit
      /\ bought > 0 => params.prevBlockNum = blockNumber
      /\ params.prevBlockNum = blockNumber => params.prevBoughtGas = bought
  BY DEF MeteringInv, DepositsFit, MeteringTypeOK, ResourceParams, Config
<1>2. ASSUME NEW amount \in Amounts, metered(amount)
      PROVE  MeteringInv'
  <2> DEFINE blockDiff == blockNumber - params.prevBlockNum
             gas == (IF blockDiff > 0 THEN 0 ELSE params.prevBoughtGas) + amount
  <2>1. /\ Computable(blockDiff) /\ gas <= config.maxResourceLimit
        /\ \E fee \in BaseFees(blockDiff) : params' = ParamsAfter(fee, gas)
        /\ bought' = bought + amount
        /\ UNCHANGED <<config, gasLimit, blockNumber, limit>>
    BY <1>2 DEF metered
  <2>2. blockDiff \in Nat /\ amount \in Nat /\ gas \in Nat
    BY <1>1, MeteringAssumption
  <2>3. PICK fee \in BaseFees(blockDiff) : params' = ParamsAfter(fee, gas)
    BY <2>1
  <2>4. fee \in Nat
    BY <2>1, <2>2, BaseFeeIsNatural
  <2>5. gas = bought + amount
    BY <1>1, <2>2
  <2> HIDE DEF gas, blockDiff
  <2>6. /\ params' \in ResourceParams
        /\ params'.prevBlockNum = blockNumber /\ params'.prevBoughtGas = gas
    BY <1>1, <2>2, <2>3, <2>4 DEF ParamsAfter, ResourceParams
  <2>7. MeteringTypeOK'
    BY <1>1, <2>1, <2>2, <2>5, <2>6 DEF MeteringTypeOK
  <2>8. bought' <= limit' /\ bought' = gas
    BY <1>1, <2>1, <2>2, <2>5
  <2>9. Sane(config, gasLimit)' /\ (config.maxResourceLimit <= limit)'
    BY <1>1, <2>1 DEF Sane, minimumGasLimit
  <2> QED BY <2>1, <2>6, <2>7, <2>8, <2>9 DEF MeteringInv, DepositsFit, Sane
<1>3. ASSUME NEW c \in Configs, setResourceConfig(c)
      PROVE  MeteringInv'
  <2>1. /\ c \in Config /\ Sane(c, gasLimit) /\ config' = c
        /\ limit' = Max({limit, c.maxResourceLimit})
        /\ UNCHANGED <<gasLimit, params, blockNumber, bought>>
    BY <1>3, MeteringAssumption DEF setResourceConfig
  <2>2. c.maxResourceLimit \in Nat
    BY <2>1 DEF Config
  <2>3. limit' = IF limit >= c.maxResourceLimit THEN limit ELSE c.maxResourceLimit
    <3>1. limit \in Int /\ c.maxResourceLimit \in Int
      BY <1>1, <2>2
    <3> QED BY <2>1, <3>1, MaxMinOfTwo
  <2>4. limit' \in Nat /\ limit <= limit' /\ c.maxResourceLimit <= limit'
    BY <1>1, <2>2, <2>3
  <2>5. MeteringTypeOK'
    BY <1>1, <2>1, <2>4 DEF MeteringTypeOK
  <2>6. Sane(config, gasLimit)'
    BY <2>1 DEF Sane, minimumGasLimit
  <2> QED BY <1>1, <2>1, <2>4, <2>5, <2>6 DEF MeteringInv, DepositsFit, Sane
<1>4. ASSUME NEW gas \in GasLimits, setGasLimit(gas)
      PROVE  MeteringInv'
  <2>1. /\ gas \in Nat /\ gas >= minimumGasLimit(config) /\ gasLimit' = gas
        /\ UNCHANGED <<config, params, blockNumber, bought, limit>>
    BY <1>4, MeteringAssumption DEF setGasLimit, GasLimitAllowed
  <2>2. minimumGasLimit(config) \in Nat
    BY <1>1 DEF minimumGasLimit, Config
  <2>3. Sane(config, gasLimit)'
    BY <1>1, <2>1, <2>2 DEF Sane, minimumGasLimit
  <2>4. MeteringTypeOK'
    BY <1>1, <2>1 DEF MeteringTypeOK
  <2> QED BY <1>1, <2>1, <2>3, <2>4 DEF MeteringInv, DepositsFit, Sane
<1>5. CASE NextBlock
  <2>1. /\ blockNumber' = blockNumber + 1 /\ bought' = 0 /\ limit' = config.maxResourceLimit
        /\ UNCHANGED <<config, gasLimit, params>>
    BY <1>5 DEF NextBlock
  <2>2. MeteringTypeOK' /\ params'.prevBlockNum # blockNumber'
    BY <1>1, <2>1 DEF MeteringTypeOK
  <2>3. Sane(config, gasLimit)'
    BY <1>1, <2>1 DEF Sane, minimumGasLimit
  <2> QED BY <1>1, <2>1, <2>2, <2>3 DEF MeteringInv, DepositsFit, Sane
<1>6. CASE UNCHANGED meteringVars
  BY <1>6 DEF meteringVars, MeteringInv, DepositsFit, MeteringTypeOK, Sane, minimumGasLimit
<1> QED BY <1>2, <1>3, <1>4, <1>5, <1>6 DEF MeteringNext

-----------------------------------------------------------------------------
(* The ERC721 bridges: the escrow *)

\* Messages are numbered as they are sent, so that each has a body.
EscrowInv == EscrowHeld /\ sent = 1 .. Len(body)

\* Nothing is in escrow at the start, and no message is sent.
LEMMA EscrowStart == ERC721Init => EscrowInv
<1> SUFFICES ASSUME ERC721Init PROVE EscrowInv
    OBVIOUS
<1> USE DEF ERC721Init, MessagesInit, Delivery!Init, Already, Messages
<1>1. sent = {} /\ body = <<>> /\ deposits = {}
      OBVIOUS
<1>2. deliveries \in [Messages -> Nat]
      OBVIOUS
<1>3. body \in Seq(Call) /\ Len(body) = 0
      BY <1>1
<1>4. l1Owner \in [L1Tokens \X TokenIds -> Users \cup {BRIDGE}]
      OBVIOUS
<1>5. l2Owner \in [Compliant \X TokenIds -> Users \cup {NOBODY}]
      OBVIOUS
<1>6. sent = 1 .. Len(body)
      BY <1>1, <1>3
<1> QED
    BY <1>1, <1>2, <1>3, <1>4, <1>5, <1>6 DEF EscrowInv, EscrowHeld, ERC721TypeOK

\* Sending a message keeps the messages well formed.
LEMMA PostKeepsTypes ==
  ASSUME EscrowInv, NEW call \in Call, Post(call)
  PROVE  /\ sent' \subseteq Messages
         /\ deliveries' \in [Messages -> Nat]
         /\ body' \in Seq(Call)
         /\ sent' = 1 .. Len(body')
<1>1. body \in Seq(Call) /\ Len(body) \in Nat
      BY DEF EscrowInv, EscrowHeld, ERC721TypeOK
<1>2. body' = Append(body, call) /\ sent' = sent \cup {Len(body) + 1}
      BY DEF Post, Delivery!Send
<1>3. body' \in Seq(Call) /\ Len(body') = Len(body) + 1
      BY <1>1, <1>2
<1>4. sent' = 1 .. Len(body')
      BY <1>1, <1>2, <1>3 DEF EscrowInv
<1> QED
    BY <1>2, <1>3, <1>4 DEF Post, Delivery!Send, EscrowInv, EscrowHeld, ERC721TypeOK

\* So does delivering one, and a message that is delivered has a body.
LEMMA HandKeepsTypes ==
  ASSUME EscrowInv, NEW m \in Messages, Hand(m)
  PROVE  /\ sent' \subseteq Messages
         /\ deliveries' \in [Messages -> Nat]
         /\ body' \in Seq(Call)
         /\ sent' = 1 .. Len(body')
         /\ body[m] \in Call
<1>1. body \in Seq(Call) /\ m \in 1 .. Len(body)
      BY DEF EscrowInv, EscrowHeld, ERC721TypeOK, Hand, Delivery!Deliver
<1>2. body[m] \in Call
      BY <1>1
<1> QED
    BY <1>1, <1>2 DEF Hand, Delivery!Deliver, EscrowInv, EscrowHeld, ERC721TypeOK

\* A token enters escrow with the message that moves its mark to L2, and leaves
\* it with the one that removes the mark.
LEMMA EscrowStep == EscrowInv /\ [ERC721Next]_erc721Vars => EscrowInv'
<1> SUFFICES ASSUME EscrowInv, [ERC721Next]_erc721Vars PROVE EscrowInv'
    OBVIOUS
<1> USE ERC721Assumption DEF EscrowInv, EscrowHeld, ERC721TypeOK
<1>1. CASE UNCHANGED erc721Vars
      BY <1>1 DEF erc721Vars, messageVars
<1>2. ASSUME NEW l1 \in L1Tokens, NEW l2 \in L2Tokens, NEW from \in Users, NEW to \in Users,
             NEW id \in TokenIds, initiateOnL1(l1, l2, from, to, id)
      PROVE  EscrowInv'
  <2> DEFINE call == [chain |-> L2, local |-> l2, remote |-> l1, id |-> id, to |-> to]
  <2>1. call \in Call /\ Post(call)
        BY <1>2 DEF Call, initiateOnL1
  <2>2. /\ sent' \subseteq Messages /\ deliveries' \in [Messages -> Nat]
        /\ body' \in Seq(Call) /\ sent' = 1 .. Len(body')
        BY <2>1, PostKeepsTypes
  <2>3. /\ l1Owner' \in [L1Tokens \X TokenIds -> Users \cup {BRIDGE}]
        /\ l2Owner' \in [Compliant \X TokenIds -> Users \cup {NOBODY}]
        /\ deposits' \subseteq L1Tokens \X L2Tokens \X TokenIds
        BY <1>2 DEF initiateOnL1
  <2>4. \A d \in deposits : ~(d[1] = l1 /\ d[3] = id)
        BY <1>2 DEF initiateOnL1
  <2>5. \A d \in deposits' : l1Owner'[<<d[1], d[3]>>] = BRIDGE
    <3>1. /\ l1Owner' = [l1Owner EXCEPT ![<<l1, id>>] = BRIDGE]
          /\ <<l1, id>> \in L1Tokens \X TokenIds
          /\ deposits' = deposits \cup {<<l1, l2, id>>}
          BY <1>2 DEF initiateOnL1
    <3>2. l1Owner'[<<l1, id>>] = BRIDGE
          BY <3>1
    <3>3. ASSUME NEW d \in deposits PROVE l1Owner'[<<d[1], d[3]>>] = BRIDGE
      <4>1. l1Owner[<<d[1], d[3]>>] = BRIDGE /\ <<d[1], d[3]>> \in L1Tokens \X TokenIds
            OBVIOUS
      <4> QED
          BY <3>1, <4>1
    <3>4. ASSUME NEW d \in deposits' PROVE l1Owner'[<<d[1], d[3]>>] = BRIDGE
      <4>1. d \in deposits \/ d = <<l1, l2, id>>
            BY <3>1
      <4>2. CASE d = <<l1, l2, id>>
        <5>1. d[1] = l1 /\ d[3] = id
              BY <4>2
        <5> QED
            BY <5>1, <3>2
      <4> QED
          BY <4>1, <4>2, <3>3
    <3> QED
        BY <3>4
  <2>6. \A d, e \in deposits' : d[1] = e[1] /\ d[3] = e[3] => d = e
        BY <1>2, <2>4 DEF initiateOnL1
  <2> QED
      BY <2>2, <2>3, <2>5, <2>6
<1>3. ASSUME NEW l1 \in L1Tokens, NEW l2 \in L2Tokens, NEW from \in Users, NEW to \in Users,
             NEW id \in TokenIds, initiateOnL2(l2, l1, from, to, id)
      PROVE  EscrowInv'
  <2> DEFINE call == [chain |-> L1, local |-> l1, remote |-> l2, id |-> id, to |-> to]
  <2>1. call \in Call /\ Post(call)
        BY <1>3 DEF Call, initiateOnL2
  <2>2. /\ sent' \subseteq Messages /\ deliveries' \in [Messages -> Nat]
        /\ body' \in Seq(Call) /\ sent' = 1 .. Len(body')
        BY <2>1, PostKeepsTypes
  <2>3. l2Owner' \in [Compliant \X TokenIds -> Users \cup {NOBODY}]
        BY <1>3 DEF initiateOnL2, burnToken
  <2> QED
      BY <1>3, <2>2, <2>3 DEF initiateOnL2
<1>4. ASSUME NEW m \in Messages, finalizeOnL1(m) PROVE EscrowInv'
  <2> DEFINE l1 == body[m].local
             id == body[m].id
             to == body[m].to
  <2>1. Hand(m)
        BY <1>4 DEF finalizeOnL1
  <2>2. /\ sent' \subseteq Messages /\ deliveries' \in [Messages -> Nat]
        /\ body' \in Seq(Call) /\ sent' = 1 .. Len(body') /\ body[m] \in Call
        BY <2>1, HandKeepsTypes
  <2>3. /\ <<l1, body[m].remote, id>> \in deposits
        /\ deposits' = deposits \ {<<l1, body[m].remote, id>>}
        /\ l1Owner' = [l1Owner EXCEPT ![<<l1, id>>] = to]
        /\ UNCHANGED l2Owner
        BY <1>4 DEF finalizeOnL1, Escrowed
  <2>4. to \in Users
        BY <2>2 DEF Call
  <2> HIDE DEF l1, id, to
  <2>5. \A d \in deposits' : d \in deposits /\ ~(d[1] = l1 /\ d[3] = id)
        BY <2>3
  <2>6. \A d \in deposits' : l1Owner'[<<d[1], d[3]>>] = BRIDGE
        BY <2>3, <2>5
  <2> QED
      BY <2>2, <2>3, <2>4, <2>5, <2>6
<1>5. ASSUME NEW m \in Messages, finalizeOnL2(m) PROVE EscrowInv'
  <2>1. Hand(m)
        BY <1>5 DEF finalizeOnL2
  <2>2. /\ sent' \subseteq Messages /\ deliveries' \in [Messages -> Nat]
        /\ body' \in Seq(Call) /\ sent' = 1 .. Len(body') /\ body[m] \in Call
        BY <2>1, HandKeepsTypes
  <2>3. l2Owner' \in [Compliant \X TokenIds -> Users \cup {NOBODY}]
        BY <1>5, <2>2 DEF finalizeOnL2, safeMint, Call
  <2> QED
      BY <1>5, <2>2, <2>3 DEF finalizeOnL2
<1>6. ASSUME NEW l1 \in L1Tokens, NEW id \in TokenIds, NEW to \in Users \cup {BRIDGE},
             transferOnL1(l1, id, to)
      PROVE  EscrowInv'
  <2>1. \A d \in deposits : ~(d[1] = l1 /\ d[3] = id)
        BY <1>6 DEF transferOnL1
  <2> QED
      BY <1>6, <2>1 DEF transferOnL1, messageVars
<1>7. ASSUME NEW l2 \in Compliant, NEW id \in TokenIds, NEW to \in Users,
             transferOnL2(l2, id, to)
      PROVE  EscrowInv'
      BY <1>7 DEF transferOnL2, messageVars
<1> QED
    BY <1>1, <1>2, <1>3, <1>4, <1>5, <1>6, <1>7 DEF ERC721Next

\* What L1ERC721Bridge marks in deposits it owns, for one L2 contract only,
\* whatever contracts anybody deploys and whatever recipients refuse.
THEOREM EscrowIsHeld == ERC721Spec => []EscrowHeld
<1>1. EscrowInv => EscrowHeld
      BY DEF EscrowInv
<1> QED
    BY <1>1, EscrowStart, EscrowStep, PTL DEF ERC721Spec

-----------------------------------------------------------------------------
(* The ERC721 bridges: one claim for a token *)

Matching(call, chain, local, remote, id) ==
  call.chain = chain /\ call.local = local /\ call.remote = remote /\ call.id = id

\* The messages on their way to a chain about a token.
Under(chain, local, remote, id) ==
  {m \in Pending : Matching(body[m], chain, local, remote, id)}

MessageFor(call, chain, local, remote, id) ==
  IF Matching(call, chain, local, remote, id) THEN 1 ELSE 0

Shown(l1, l2, id) == IF remoteToken[l2] = l1 /\ Exists(l2, id) THEN 1 ELSE 0

Marked(l1, l2, id) == IF <<l1, l2, id>> \in deposits THEN 1 ELSE 0

ClaimInv721 ==
  /\ EscrowInv
  /\ \A m \in Messages : m \notin sent => deliveries[m] = 0
  /\ OneClaimPerToken

\* A claim is a message or a token.
ClaimsSplit ==
  \A l1, l2, id :
    Claims(l1, l2, id) = Cardinality(Under(L2, l2, l1, id))
      + Cardinality(Under(L1, l1, l2, id)) + Shown(l1, l2, id)

\* By definition.
LEMMA ClaimsAre == ClaimsSplit
BY DEF ClaimsSplit, Claims, Under, Matching, Shown

FinitelyMany ==
  \A chain, local, remote, id :
    /\ IsFiniteSet(Under(chain, local, remote, id))
    /\ Cardinality(Under(chain, local, remote, id)) \in Nat

\* There are finitely many messages.
LEMMA UnderFinite == EscrowInv => FinitelyMany
<1> SUFFICES ASSUME EscrowInv, NEW chain, NEW local, NEW remote, NEW id
             PROVE  /\ IsFiniteSet(Under(chain, local, remote, id))
                    /\ Cardinality(Under(chain, local, remote, id)) \in Nat
  BY DEF FinitelyMany
<1>1. sent = 1 .. Len(body) /\ Len(body) \in Nat
  BY DEF EscrowInv, EscrowHeld, ERC721TypeOK
<1>2. IsFiniteSet(sent)
  BY <1>1, FS_Interval
<1>3. Under(chain, local, remote, id) \in SUBSET sent
  BY DEF Under, Pending
<1> QED BY <1>2, <1>3, FS_Subset, FS_CardinalityType

\* A message that is sent is one more about its token.
LEMMA PostCounts ==
  ASSUME ClaimInv721, NEW call \in Call, Post(call)
  PROVE  /\ \A m \in Messages : m \notin sent' => deliveries'[m] = 0
         /\ \A chain, local, remote, id :
              Cardinality(Under(chain, local, remote, id)') =
                Cardinality(Under(chain, local, remote, id))
                  + MessageFor(call, chain, local, remote, id)
<1> DEFINE new == Len(body) + 1
<1>1. /\ sent = 1 .. Len(body) /\ Len(body) \in Nat /\ body \in Seq(Call)
      /\ new \in Messages /\ new \notin sent
      /\ sent' = sent \cup {new} /\ deliveries' = deliveries /\ body' = Append(body, call)
      /\ deliveries[new] = 0
  BY DEF ClaimInv721, EscrowInv, EscrowHeld, ERC721TypeOK, Post, Delivery!Send
<1>2. body'[new] = call /\ \A m \in sent : body'[m] = body[m]
  BY <1>1
<1>3. \A m \in Messages : m \notin sent' => deliveries'[m] = 0
  BY <1>1 DEF ClaimInv721
<1>4. ASSUME NEW chain, NEW local, NEW remote, NEW id
      PROVE  Cardinality(Under(chain, local, remote, id)') =
               Cardinality(Under(chain, local, remote, id))
                 + MessageFor(call, chain, local, remote, id)
  <2> DEFINE U == Under(chain, local, remote, id)
  <2>1. IsFiniteSet(U) /\ Cardinality(U) \in Nat
    BY UnderFinite DEF ClaimInv721, FinitelyMany
  <2>2. new \notin U
    BY <1>1 DEF Under, Pending
  <2>3. CASE Matching(call, chain, local, remote, id)
    <3>1. U' = U \cup {new}
      BY <1>1, <1>2, <2>3 DEF Under, Pending
    <3>2. Cardinality(U \cup {new}) = Cardinality(U) + 1
      BY <2>1, <2>2, FS_AddElement
    <3> QED BY <2>3, <3>1, <3>2 DEF MessageFor
  <2>4. CASE ~Matching(call, chain, local, remote, id)
    <3>1. U' = U
      BY <1>1, <1>2, <2>4 DEF Under, Pending
    <3> QED BY <2>1, <2>4, <3>1 DEF MessageFor
  <2> QED BY <2>3, <2>4
<1> QED BY <1>3, <1>4

\* One that is delivered is one less.
LEMMA HandCounts ==
  ASSUME ClaimInv721, NEW m \in Messages, Hand(m)
  PROVE  /\ body[m] \in Call
         /\ \A n \in Messages : n \notin sent' => deliveries'[n] = 0
         /\ \A chain, local, remote, id :
              Cardinality(Under(chain, local, remote, id)') =
                Cardinality(Under(chain, local, remote, id))
                  - MessageFor(body[m], chain, local, remote, id)
<1>1. /\ sent' = sent /\ body' = body /\ m \in sent /\ deliveries[m] = 0
      /\ deliveries' = [deliveries EXCEPT ![m] = 1] /\ deliveries \in [Messages -> Nat]
      /\ sent \subseteq Messages
  BY DEF ClaimInv721, EscrowInv, EscrowHeld, ERC721TypeOK, Hand, Delivery!Deliver
<1>2. body[m] \in Call
  BY HandKeepsTypes DEF ClaimInv721
<1>3. \A n \in Messages : n \notin sent' => deliveries'[n] = 0
  BY <1>1 DEF ClaimInv721
<1>4. Pending' = Pending \ {m} /\ m \in Pending
  BY <1>1 DEF Pending
<1>5. ASSUME NEW chain, NEW local, NEW remote, NEW id
      PROVE  Cardinality(Under(chain, local, remote, id)') =
               Cardinality(Under(chain, local, remote, id))
                 - MessageFor(body[m], chain, local, remote, id)
  <2> DEFINE U == Under(chain, local, remote, id)
  <2>1. IsFiniteSet(U) /\ Cardinality(U) \in Nat
    BY UnderFinite DEF ClaimInv721, FinitelyMany
  <2>2. U' = U \ {m}
    BY <1>1, <1>4 DEF Under
  <2>3. Cardinality(U \ {m}) = IF m \in U THEN Cardinality(U) - 1 ELSE Cardinality(U)
    BY <2>1, FS_RemoveElement
  <2>4. m \in U <=> Matching(body[m], chain, local, remote, id)
    BY <1>4 DEF Under
  <2> QED BY <2>1, <2>2, <2>3, <2>4 DEF MessageFor
<1> QED BY <1>2, <1>3, <1>5

\* Messages to L2 and L1 and tokens of L2 are added by a step, and as many marks.
ClaimsChange(l1, l2, id, toL2, toL1, tokens) ==
  /\ Cardinality(Under(L2, l2, l1, id))' = Cardinality(Under(L2, l2, l1, id)) + toL2
  /\ Cardinality(Under(L1, l1, l2, id))' = Cardinality(Under(L1, l1, l2, id)) + toL1
  /\ Shown(l1, l2, id)' = Shown(l1, l2, id) + tokens
  /\ Marked(l1, l2, id)' = Marked(l1, l2, id) + (toL2 + toL1 + tokens)

\* One claim for a token and a mark in the deposits come and go together.
LEMMA ClaimsBalance ==
  ASSUME ClaimInv721, EscrowInv',
         \A m \in Messages : m \notin sent' => deliveries'[m] = 0,
         \A l1 \in L1Tokens, l2 \in Compliant, id \in TokenIds :
           \E toL2, toL1, tokens \in Int : ClaimsChange(l1, l2, id, toL2, toL1, tokens)
  PROVE  ClaimInv721'
<1>1. ASSUME NEW l1 \in L1Tokens, NEW l2 \in Compliant, NEW id \in TokenIds
      PROVE  Claims(l1, l2, id)' = IF <<l1, l2, id>> \in deposits' THEN 1 ELSE 0
  <2> DEFINE a == Cardinality(Under(L2, l2, l1, id))
             b == Cardinality(Under(L1, l1, l2, id))
             s == Shown(l1, l2, id)
             d == Marked(l1, l2, id)
  <2>1. a \in Nat /\ b \in Nat /\ s \in Nat /\ d \in Nat
    BY UnderFinite DEF ClaimInv721, FinitelyMany, Shown, Marked
  <2>2. a + b + s = d
    BY ClaimsAre DEF ClaimInv721, OneClaimPerToken, Marked, ClaimsSplit
  <2>3. ClaimsSplit'
    BY ClaimsAre, PTL
  <2>4. PICK p \in Int, q \in Int, r \in Int : ClaimsChange(l1, l2, id, p, q, r)
    OBVIOUS
  <2>5. Claims(l1, l2, id)' = (a + p) + (b + q) + (s + r)
    BY <2>3, <2>4 DEF ClaimsSplit, ClaimsChange
  <2>6. Marked(l1, l2, id)' = d + (p + q + r)
    BY <2>4 DEF ClaimsChange
  <2> HIDE DEF a, b, s, d
  <2>7. Claims(l1, l2, id)' = Marked(l1, l2, id)'
    BY <2>1, <2>2, <2>5, <2>6
  <2> QED BY <2>7 DEF Marked
<1> QED BY <1>1 DEF ClaimInv721, OneClaimPerToken

\* Whatever bridges, contracts and users do.
LEMMA ClaimStep ==
  ASSUME ClaimInv721, [ERC721Next]_erc721Vars
  PROVE  ClaimInv721'
<1>1. /\ EscrowInv /\ EscrowInv'
      /\ l1Owner \in [L1Tokens \X TokenIds -> Users \cup {BRIDGE}]
      /\ l2Owner \in [Compliant \X TokenIds -> Users \cup {NOBODY}]
      /\ \A d \in deposits : l1Owner[<<d[1], d[3]>>] = BRIDGE
  BY EscrowStep DEF ClaimInv721, EscrowInv, EscrowHeld, ERC721TypeOK
<1>2. \A chain, local, remote, id : Cardinality(Under(chain, local, remote, id)) \in Nat
  BY <1>1, UnderFinite DEF FinitelyMany
<1>3. ASSUME UNCHANGED messageVars
      PROVE  /\ \A m \in Messages : m \notin sent' => deliveries'[m] = 0
             /\ \A chain, local, remote, id :
                  Under(chain, local, remote, id)' = Under(chain, local, remote, id)
  BY <1>3 DEF messageVars, Under, Pending, ClaimInv721
<1>4. L1 # L2
  BY DEF L1, L2
<1>5. ASSUME NEW l1 \in L1Tokens, NEW l2 \in L2Tokens, NEW from \in Users, NEW to \in Users,
             NEW id \in TokenIds, initiateOnL1(l1, l2, from, to, id)
      PROVE  ClaimInv721'
  <2> DEFINE call == [chain |-> L2, local |-> l2, remote |-> l1, id |-> id, to |-> to]
  <2>1. /\ call \in Call /\ Post(call) /\ deposits' = deposits \cup {<<l1, l2, id>>}
        /\ l2Owner' = l2Owner /\ l1Owner[<<l1, id>>] = from
    BY <1>5 DEF Call, initiateOnL1
  <2>2. <<l1, l2, id>> \notin deposits
    <3>1. ASSUME <<l1, l2, id>> \in deposits PROVE FALSE
      <4>1. l1Owner[<<l1, id>>] = BRIDGE
        BY <1>1, <3>1
      <4> QED BY <2>1, <4>1, ERC721Assumption
    <3> QED BY <3>1
  <2>3. call.chain = L2 /\ call.local = l2 /\ call.remote = l1 /\ call.id = id
    OBVIOUS
  <2> HIDE DEF call
  <2>4. ASSUME NEW x1 \in L1Tokens, NEW x2 \in Compliant, NEW i \in TokenIds
        PROVE  \E p, q, r \in Int : ClaimsChange(x1, x2, i, p, q, r)
    <3> DEFINE one == IF x1 = l1 /\ x2 = l2 /\ i = id THEN 1 ELSE 0
    <3>1. /\ MessageFor(call, L1, x1, x2, i) = 0
          /\ MessageFor(call, L2, x2, x1, i) = one
      BY <1>4, <2>3 DEF MessageFor, Matching
    <3>2. Marked(x1, x2, i)' = Marked(x1, x2, i) + one
      <4>1. CASE x1 = l1 /\ x2 = l2 /\ i = id
        BY <2>1, <2>2, <4>1 DEF Marked
      <4>2. CASE ~(x1 = l1 /\ x2 = l2 /\ i = id)
        <5>1. <<x1, x2, i>> # <<l1, l2, id>>
          BY <4>2
        <5> QED BY <2>1, <4>2, <5>1 DEF Marked
      <4> QED BY <4>1, <4>2
    <3>3. Shown(x1, x2, i)' = Shown(x1, x2, i) + 0
      BY <2>1 DEF Shown, Exists
    <3>4. one \in Int /\ one + 0 + 0 = one
      OBVIOUS
    <3> HIDE DEF one
    <3>5. /\ Cardinality(Under(L2, x2, x1, i)') = Cardinality(Under(L2, x2, x1, i)) + one
          /\ Cardinality(Under(L1, x1, x2, i)') = Cardinality(Under(L1, x1, x2, i)) + 0
      BY <2>1, <3>1, PostCounts
    <3>6. ClaimsChange(x1, x2, i, one, 0, 0)
      BY <3>2, <3>3, <3>4, <3>5 DEF ClaimsChange
    <3> QED BY <3>4, <3>6
  <2> QED BY <1>1, <2>1, <2>4, PostCounts, ClaimsBalance
<1>6. ASSUME NEW l1 \in L1Tokens, NEW l2 \in L2Tokens, NEW from \in Users, NEW to \in Users,
             NEW id \in TokenIds, initiateOnL2(l2, l1, from, to, id)
      PROVE  ClaimInv721'
  <2> DEFINE call == [chain |-> L1, local |-> l1, remote |-> l2, id |-> id, to |-> to]
  <2>1. /\ call \in Call /\ Post(call) /\ UNCHANGED deposits
        /\ \/ /\ l2 \in Compliant /\ from = l2Owner[<<l2, id>>] /\ l1 = remoteToken[l2]
              /\ l2Owner' = [l2Owner EXCEPT ![<<l2, id>>] = NOBODY]
           \/ l2 \notin Compliant /\ UNCHANGED l2Owner
    BY <1>6 DEF Call, initiateOnL2, burnToken
  <2>3. call.chain = L1 /\ call.local = l1 /\ call.remote = l2 /\ call.id = id
    OBVIOUS
  <2> HIDE DEF call
  <2>4. ASSUME NEW x1 \in L1Tokens, NEW x2 \in Compliant, NEW i \in TokenIds
        PROVE  \E p, q, r \in Int : ClaimsChange(x1, x2, i, p, q, r)
    <3> DEFINE one == IF x1 = l1 /\ x2 = l2 /\ i = id THEN 1 ELSE 0
    <3>1. /\ MessageFor(call, L2, x2, x1, i) = 0
          /\ MessageFor(call, L1, x1, x2, i) = one
      BY <1>4, <2>3 DEF MessageFor, Matching
    <3>2. Shown(x1, x2, i)' = Shown(x1, x2, i) + (-one)
      <4>1. CASE x2 = l2 /\ i = id
        <5>1. /\ l2Owner[<<x2, i>>] # NOBODY /\ l2Owner'[<<x2, i>>] = NOBODY
              /\ l1 = remoteToken[x2]
          BY <1>1, <2>1, <4>1, ERC721Assumption
        <5> QED BY <4>1, <5>1 DEF Shown, Exists
      <4>2. CASE ~(x2 = l2 /\ i = id)
        <5>1. <<x2, i>> # <<l2, id>> /\ <<x2, i>> \in Compliant \X TokenIds
          BY <4>2
        <5>2. l2Owner'[<<x2, i>>] = l2Owner[<<x2, i>>]
          BY <1>1, <2>1, <5>1
        <5> QED BY <4>2, <5>2 DEF Shown, Exists
      <4> QED BY <4>1, <4>2
    <3>3. Marked(x1, x2, i)' = Marked(x1, x2, i) + 0
      BY <2>1 DEF Marked
    <3>4. one \in Int /\ -one \in Int /\ 0 + one + (-one) = 0
      OBVIOUS
    <3> HIDE DEF one
    <3>5. /\ Cardinality(Under(L2, x2, x1, i)') = Cardinality(Under(L2, x2, x1, i)) + 0
          /\ Cardinality(Under(L1, x1, x2, i)') = Cardinality(Under(L1, x1, x2, i)) + one
      BY <2>1, <3>1, PostCounts
    <3>6. ClaimsChange(x1, x2, i, 0, one, -one)
      BY <3>2, <3>3, <3>4, <3>5 DEF ClaimsChange
    <3> QED BY <3>4, <3>6
  <2> QED BY <1>1, <2>1, <2>4, PostCounts, ClaimsBalance
<1>7. ASSUME NEW m \in Messages, finalizeOnL1(m)
      PROVE  ClaimInv721'
  <2> DEFINE call == body[m]
  <2>1. /\ Hand(m) /\ call.chain = L1 /\ UNCHANGED l2Owner
        /\ <<call.local, call.remote, call.id>> \in deposits
        /\ deposits' = deposits \ {<<call.local, call.remote, call.id>>}
    BY <1>7 DEF finalizeOnL1, Escrowed
  <2> HIDE DEF call
  <2>4. ASSUME NEW x1 \in L1Tokens, NEW x2 \in Compliant, NEW i \in TokenIds
        PROVE  \E p, q, r \in Int : ClaimsChange(x1, x2, i, p, q, r)
    <3> DEFINE one == IF x1 = call.local /\ x2 = call.remote /\ i = call.id THEN 1 ELSE 0
    <3>1. /\ MessageFor(call, L2, x2, x1, i) = 0
          /\ MessageFor(call, L1, x1, x2, i) = one
      BY <1>4, <2>1 DEF MessageFor, Matching
    <3>2. Marked(x1, x2, i)' = Marked(x1, x2, i) + (-one)
      <4>1. CASE x1 = call.local /\ x2 = call.remote /\ i = call.id
        BY <2>1, <4>1 DEF Marked
      <4>2. CASE ~(x1 = call.local /\ x2 = call.remote /\ i = call.id)
        <5>1. <<x1, x2, i>> # <<call.local, call.remote, call.id>>
          BY <4>2
        <5> QED BY <2>1, <4>2, <5>1 DEF Marked
      <4> QED BY <4>1, <4>2
    <3>3. Shown(x1, x2, i)' = Shown(x1, x2, i) + 0
      BY <2>1 DEF Shown, Exists
    <3>4. one \in Int /\ -one \in Int /\ 0 + (-one) + 0 = -one
      OBVIOUS
    <3> HIDE DEF one
    <3>5. /\ Cardinality(Under(L2, x2, x1, i)') = Cardinality(Under(L2, x2, x1, i)) - 0
          /\ Cardinality(Under(L1, x1, x2, i)') = Cardinality(Under(L1, x1, x2, i)) - one
      BY <2>1, <3>1, HandCounts DEF call
    <3>6. ClaimsChange(x1, x2, i, 0, -one, 0)
      BY <1>2, <3>2, <3>3, <3>4, <3>5 DEF ClaimsChange
    <3> QED BY <3>4, <3>6
  <2> QED BY <1>1, <2>1, <2>4, HandCounts, ClaimsBalance
<1>8. ASSUME NEW m \in Messages, finalizeOnL2(m)
      PROVE  ClaimInv721'
  <2> DEFINE call == body[m]
  <2>1. /\ Hand(m) /\ call.chain = L2 /\ UNCHANGED deposits
        /\ \/ /\ call.local \in Compliant /\ call.remote = remoteToken[call.local]
              /\ ~Exists(call.local, call.id)
              /\ l2Owner' = [l2Owner EXCEPT ![<<call.local, call.id>>] = call.to]
           \/ call.local \notin Compliant /\ UNCHANGED l2Owner
    BY <1>8 DEF finalizeOnL2, IsPair, safeMint
  <2>2. call.to \in Users /\ call.id \in TokenIds
    BY <2>1, HandCounts DEF Call
  <2> HIDE DEF call
  <2>4. ASSUME NEW x1 \in L1Tokens, NEW x2 \in Compliant, NEW i \in TokenIds
        PROVE  \E p, q, r \in Int : ClaimsChange(x1, x2, i, p, q, r)
    <3> DEFINE one == IF x1 = call.remote /\ x2 = call.local /\ i = call.id THEN 1 ELSE 0
    <3>1. /\ MessageFor(call, L1, x1, x2, i) = 0
          /\ MessageFor(call, L2, x2, x1, i) = one
      BY <1>4, <2>1 DEF MessageFor, Matching
    <3>2. Shown(x1, x2, i)' = Shown(x1, x2, i) + one
      <4>1. CASE x2 = call.local /\ i = call.id
        <5>1. /\ l2Owner[<<x2, i>>] = NOBODY /\ l2Owner'[<<x2, i>>] # NOBODY
              /\ call.remote = remoteToken[x2]
          BY <1>1, <2>1, <2>2, <4>1, ERC721Assumption DEF Exists
        <5> QED BY <4>1, <5>1 DEF Shown, Exists
      <4>2. CASE ~(x2 = call.local /\ i = call.id)
        <5>1. <<x2, i>> # <<call.local, call.id>> /\ <<x2, i>> \in Compliant \X TokenIds
          BY <4>2
        <5>2. l2Owner'[<<x2, i>>] = l2Owner[<<x2, i>>]
          BY <1>1, <2>1, <5>1
        <5> QED BY <4>2, <5>2 DEF Shown, Exists
      <4> QED BY <4>1, <4>2
    <3>3. Marked(x1, x2, i)' = Marked(x1, x2, i) + 0
      BY <2>1 DEF Marked
    <3>4. one \in Int /\ -one \in Int /\ (-one) + 0 + one = 0
      OBVIOUS
    <3> HIDE DEF one
    <3>5. /\ Cardinality(Under(L2, x2, x1, i)') = Cardinality(Under(L2, x2, x1, i)) - one
          /\ Cardinality(Under(L1, x1, x2, i)') = Cardinality(Under(L1, x1, x2, i)) - 0
      BY <2>1, <3>1, HandCounts DEF call
    <3>6. ClaimsChange(x1, x2, i, -one, 0, one)
      BY <1>2, <3>2, <3>3, <3>4, <3>5 DEF ClaimsChange
    <3> QED BY <3>4, <3>6
  <2> QED BY <1>1, <2>1, <2>4, HandCounts, ClaimsBalance
<1>9. ASSUME UNCHANGED messageVars, UNCHANGED deposits,
             \A x2 \in Compliant, i \in TokenIds : Exists(x2, i)' <=> Exists(x2, i)
      PROVE  ClaimInv721'
  <2>1. ASSUME NEW x1 \in L1Tokens, NEW x2 \in Compliant, NEW i \in TokenIds
        PROVE  \E p, q, r \in Int : ClaimsChange(x1, x2, i, p, q, r)
    <3>1. /\ Shown(x1, x2, i)' = Shown(x1, x2, i) + 0
          /\ Marked(x1, x2, i)' = Marked(x1, x2, i) + (0 + 0 + 0)
      BY <1>9 DEF Shown, Marked
    <3>2. /\ Cardinality(Under(L2, x2, x1, i)') = Cardinality(Under(L2, x2, x1, i)) + 0
          /\ Cardinality(Under(L1, x1, x2, i)') = Cardinality(Under(L1, x1, x2, i)) + 0
      BY <1>2, <1>3, <1>9
    <3>3. ClaimsChange(x1, x2, i, 0, 0, 0)
      BY <3>1, <3>2 DEF ClaimsChange
    <3> QED BY <3>3
  <2> QED BY <1>1, <1>3, <1>9, <2>1, ClaimsBalance
<1>10. ASSUME NEW l1 \in L1Tokens, NEW id \in TokenIds, NEW to \in Users \cup {BRIDGE},
              transferOnL1(l1, id, to)
       PROVE  ClaimInv721'
  BY <1>9, <1>10 DEF transferOnL1, Exists
<1>11. ASSUME NEW l2 \in Compliant, NEW id \in TokenIds, NEW to \in Users,
              transferOnL2(l2, id, to)
       PROVE  ClaimInv721'
  <2>1. /\ UNCHANGED messageVars /\ UNCHANGED deposits
        /\ l2Owner[<<l2, id>>] \in Users
        /\ l2Owner' = [l2Owner EXCEPT ![<<l2, id>>] = to]
    BY <1>11 DEF transferOnL2
  <2>2. ASSUME NEW x2 \in Compliant, NEW i \in TokenIds
        PROVE  Exists(x2, i)' <=> Exists(x2, i)
    <3>1. CASE <<x2, i>> = <<l2, id>>
      BY <1>1, <2>1, <3>1, ERC721Assumption DEF Exists
    <3>2. CASE <<x2, i>> # <<l2, id>>
      <4>1. <<x2, i>> \in Compliant \X TokenIds
        OBVIOUS
      <4>2. l2Owner'[<<x2, i>>] = l2Owner[<<x2, i>>]
        BY <1>1, <2>1, <3>2, <4>1
      <4> QED BY <4>2 DEF Exists
    <3> QED BY <3>1, <3>2
  <2> QED BY <1>9, <2>1, <2>2
<1>12. CASE UNCHANGED erc721Vars
  BY <1>9, <1>12 DEF erc721Vars, Exists
<1> QED BY <1>5, <1>6, <1>7, <1>8, <1>10, <1>11, <1>12 DEF ERC721Next

\* Nothing is bridged at first.
LEMMA ClaimStart == ERC721Init => ClaimInv721
<1> SUFFICES ASSUME ERC721Init PROVE ClaimInv721
  OBVIOUS
<1>1. EscrowInv
  BY EscrowStart
<1>2. sent = {} /\ deposits = {} /\ l2Owner = [t \in Compliant \X TokenIds |-> NOBODY]
  BY DEF ERC721Init, MessagesInit, Delivery!Init, Already
<1>3. \A m \in Messages : deliveries[m] = 0
  BY DEF ERC721Init, MessagesInit, Delivery!Init, Already
<1>4. ASSUME NEW l1 \in L1Tokens, NEW l2 \in Compliant, NEW id \in TokenIds
      PROVE  Claims(l1, l2, id) = IF <<l1, l2, id>> \in deposits THEN 1 ELSE 0
  <2>1. Under(L2, l2, l1, id) = {} /\ Under(L1, l1, l2, id) = {}
    BY <1>2 DEF Under, Pending
  <2>2. Shown(l1, l2, id) = 0
    <3>1. <<l2, id>> \in Compliant \X TokenIds
      OBVIOUS
    <3> QED BY <1>2, <3>1 DEF Shown, Exists
  <2> QED BY <1>2, <2>1, <2>2, ClaimsAre, FS_EmptySet DEF ClaimsSplit
<1> QED BY <1>1, <1>3, <1>4 DEF ClaimInv721, OneClaimPerToken

-----------------------------------------------------------------------------
(* Each system by itself *)

\* Gas can pay every claim from the ether of the contract it is for; an ether-second
\* pays once; and a minimum rate is met: through all claims, credits, changes of mode,
\* governor and rates, at any time.
THEOREM GasKeepsItsBooks == GasSpec => [](GasBacked /\ SecondsRedeemedOnce /\ MinClaimRateMet)
<1>1. GasInv => GasBacked /\ SecondsRedeemedOnce /\ MinClaimRateMet
  BY MinRateIsMet DEF GasInv
<1> QED BY <1>1, GasStart, GasStep, PTL DEF GasSpec

\* The deposits of a block fit in it, however the configuration changes.
THEOREM DepositsAlwaysFit == MeteringSpec => []DepositsFit
<1>1. MeteringInv => DepositsFit
  BY DEF MeteringInv
<1> QED BY <1>1, MeteringStart, MeteringStep, PTL DEF MeteringSpec

\* The closed form by which a deposit accounts for skipped blocks gives the base fee
\* that updating it in each of them would give, less at most one for each block but
\* the first: for every configuration, and any number of blocks.
THEOREM DecayAlwaysSteps == MeteringSpec => []SkippingIsStepping
BY MeteringStart, MeteringStep, SkippingSteps, PTL DEF MeteringSpec

\* Each token in the escrow can be had once, by one claim.
THEOREM TokensAreClaimedOnce == ERC721Spec => []OneClaimPerToken
<1>1. ClaimInv721 => OneClaimPerToken
  BY DEF ClaimInv721
<1> QED BY <1>1, ClaimStart, ClaimStep, PTL DEF ERC721Spec

-----------------------------------------------------------------------------
(* The five together, as they are model-checked *)

LedgersInv ==
  /\ RebasingInv
  /\ etherPrice \in Nat \ {0} /\ etherPending \in Nat
  /\ weth \in [shares : Nat, remainder : Nat] /\ world \in [shares : Nat, remainder : Nat]
  /\ ledger = "USDB" => USDBInv
  /\ ledger # "USDB" => WETHInv
  /\ GasInv /\ MeteringInv /\ ClaimInv721

\* The initial states are those of the systems.
LEMMA LedgersStart == LedgersInit => LedgersInv
<1> SUFFICES ASSUME LedgersInit PROVE LedgersInv
  OBVIOUS
<1>1. GasInv /\ MeteringInv /\ ClaimInv721
  BY GasStart, MeteringStart, ClaimStart DEF LedgersInit
<1>2. CASE ledger = "USDB" /\ USDBInit /\ NoWETH
  <2>1. USDBInv /\ RebasingInv
    BY <1>2, USDBStart DEF USDBInv
  <2>2. /\ etherPrice \in Nat \ {0} /\ etherPending \in Nat
        /\ weth \in [shares : Nat, remainder : Nat] /\ world \in [shares : Nat, remainder : Nat]
    BY <1>2, RebasingAssumption, WETHAssumption DEF NoWETH
  <2> QED BY <1>1, <1>2, <2>1, <2>2 DEF LedgersInv
<1>3. CASE ledger # "USDB" /\ WETHInit
  <2>1. WETHInv
    BY <1>3, WETHStart
  <2> QED BY <1>1, <1>3, <2>1, WETHFields DEF LedgersInv
<1> QED BY <1>2, <1>3 DEF LedgersInit

\* A step is one of the system that the behaviour is of.
LEMMA LedgersStep ==
  ASSUME LedgersInv, [LedgersNext]_ledgerVars
  PROVE  LedgersInv'
<1>1. /\ GasInv /\ MeteringInv /\ ClaimInv721 /\ ledger' = ledger
      /\ RebasingInv /\ etherPrice \in Nat \ {0} /\ etherPending \in Nat
      /\ weth \in [shares : Nat, remainder : Nat] /\ world \in [shares : Nat, remainder : Nat]
  BY DEF LedgersInv, LedgersNext, ledgerVars
<1>2. GasInv'
  <2>1. [GasNext]_gasVars
    BY DEF LedgersNext, ledgerVars
  <2> QED BY <1>1, <2>1, GasStep
<1>3. MeteringInv'
  <2>1. [MeteringNext]_meteringVars
    BY DEF LedgersNext, ledgerVars
  <2> QED BY <1>1, <2>1, MeteringStep
<1>4. ClaimInv721'
  <2>1. [ERC721Next]_erc721Vars
    BY DEF LedgersNext, ledgerVars
  <2> QED BY <1>1, <2>1, ClaimStep
<1>5. CASE ledger = "USDB"
  <2>1. [USDBNext]_usdbVars /\ UNCHANGED nativeVars
    BY <1>5 DEF LedgersNext, ledgerVars, usdbVars, usdbOwnVars, wethVars
  <2>2. USDBInv'
    BY <1>5, <2>1, USDBStep DEF LedgersInv
  <2> QED BY <1>1, <1>2, <1>3, <1>4, <1>5, <2>1, <2>2 DEF LedgersInv, USDBInv, nativeVars
<1>6. CASE ledger # "USDB"
  <2>1. [WETHNext]_wethVars
    BY <1>6 DEF LedgersNext, ledgerVars
  <2>2. WETHInv'
    BY <1>6, <2>1, WETHStep DEF LedgersInv
  <2>3. (WETHInv => RebasingInv /\ etherPrice \in Nat \ {0} /\ etherPending \in Nat
           /\ weth \in [shares : Nat, remainder : Nat]
           /\ world \in [shares : Nat, remainder : Nat])'
    BY WETHFieldsHold, PTL
  <2> QED BY <1>1, <1>2, <1>3, <1>4, <1>6, <2>2, <2>3 DEF LedgersInv
<1> QED BY <1>5, <1>6

\* What follows from the invariant.
LEMMA LedgersCorrect ==
  LedgersInv => /\ AccountsAdd /\ SupplyIsCovered /\ GasCovered /\ BlocksFit
                /\ DecayIsStepping /\ TokensHaveOneClaim /\ EscrowHeld
<1> SUFFICES ASSUME LedgersInv
             PROVE  /\ AccountsAdd /\ SupplyIsCovered /\ GasCovered /\ BlocksFit
                    /\ DecayIsStepping /\ TokensHaveOneClaim /\ EscrowHeld
  OBVIOUS
<1>1. AccountsAdd
  BY DEF LedgersInv, AccountsAdd, TotalsMatchAccounts, RebasingInv, BookOK, Matches
<1>2. SupplyIsCovered
  BY DEF LedgersInv, SupplyIsCovered, USDBInv, WETHInv
<1>3. GasCovered
  BY MinRateIsMet DEF LedgersInv, GasCovered, GasInv
<1>4. BlocksFit
  BY DEF LedgersInv, BlocksFit, MeteringInv
<1>5. TokensHaveOneClaim /\ EscrowHeld
  BY DEF LedgersInv, TokensHaveOneClaim, ClaimInv721, EscrowInv
<1>6. DecayIsStepping
  BY SkippingSteps DEF LedgersInv, DecayIsStepping
<1> QED BY <1>1, <1>2, <1>3, <1>4, <1>5, <1>6

\* The totals of the rebasing tokens are those of their accounts, and a CLAIMABLE
\* account may claim what it earned, whatever is transferred, claimed or configured.
THEOREM AccountsAlwaysAdd == LedgersSpec => []AccountsAdd
BY LedgersStart, LedgersStep, LedgersCorrect, PTL DEF LedgersSpec

\* The supply of USDB is backed by L1 to the last unit, that of WETH by its ether.
THEOREM SupplyStaysCovered == LedgersSpec => []SupplyIsCovered
BY LedgersStart, LedgersStep, LedgersCorrect, PTL DEF LedgersSpec

\* The books of Gas, as GasKeepsItsBooks says.
THEOREM GasStaysCovered == LedgersSpec => []GasCovered
BY LedgersStart, LedgersStep, LedgersCorrect, PTL DEF LedgersSpec

\* Deposits fit in their blocks, as DepositsAlwaysFit says.
THEOREM BlocksAlwaysFit == LedgersSpec => []BlocksFit
BY LedgersStart, LedgersStep, LedgersCorrect, PTL DEF LedgersSpec

\* The decay of the base fee is that of stepping, as DecayAlwaysSteps says.
THEOREM DecayStaysStepping == LedgersSpec => []DecayIsStepping
BY LedgersStart, LedgersStep, LedgersCorrect, PTL DEF LedgersSpec

\* A token of an escrow has one claim on it, as TokensAreClaimedOnce says.
THEOREM TokensKeepOneClaim == LedgersSpec => []TokensHaveOneClaim
BY LedgersStart, LedgersStep, LedgersCorrect, PTL DEF LedgersSpec

\* A report leaves less than a unit per share behind, beside the other systems too.
THEOREM YieldAlwaysReachesHolders == LedgersSpec => YieldReachesHolders
<1>1. LedgersInv /\ [LedgersNext]_ledgerVars =>
        [\A value \in 0 .. MaxEther :
           reportValue(value) =>
             book.totalShares = 0 \/ (NativeBalance(weth) - totalSupply)' < book.totalShares]_wethVars
  <2> SUFFICES ASSUME LedgersInv, NEW value \in 0 .. MaxEther, reportValue(value)
               PROVE  book.totalShares = 0
                        \/ (NativeBalance(weth) - totalSupply)' < book.totalShares
    OBVIOUS
  <2>1. value \in Nat
    BY WETHAssumption
  <2>2. book'.totalShares = 0 \/ NativeBalance(weth)' - totalSupply' < book'.totalShares
    BY <2>1, ReportOK DEF LedgersInv
  <2>3. book' = book
    BY DEF reportValue, setPrice
  <2> QED BY <2>2, <2>3
<1> QED BY <1>1, LedgersStart, LedgersStep, PTL DEF LedgersSpec, YieldReachesHolders
=============================================================================
