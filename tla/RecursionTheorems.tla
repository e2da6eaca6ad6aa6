-------------------------- MODULE RecursionTheorems --------------------------
(***************************************************************************)
(* What definitions by recursion compute, for every input: sums over finite *)
(* sets (SumFunctionOnSet of the community module Functions), loops that    *)
(* narrow their argument until they stop (the binary searches), and what is *)
(* iterated from a first value on (powers, and a fee block after block).    *)
(*                                                                          *)
(* Induction is by least counterexamples: a nonempty set of natural numbers *)
(* has a least member, so a nonempty set of subsets of a finite set has one *)
(* from which no member can be taken, and what fails for no least argument  *)
(* fails for none.  A recursive definition CHOOSEs a function that solves   *)
(* its equation: that there is one is the first thing to prove.             *)
(***************************************************************************)
EXTENDS FiniteSetsExt, FiniteSetTheorems, TLAPS

\* A nonempty set of natural numbers has a least member.
LEMMA LeastNatural ==
  ASSUME NEW T, T \subseteq Nat, T # {}
  PROVE  \E m \in T : \A k \in T : m <= k
<1>1. PICK m \in T : \A k \in T : ~(<<k, m>> \in OpToRel(<, Nat))
  BY NatLessThanWellFounded, WFMin
<1>2. \A k \in T : ~(k < m)
  BY <1>1 DEF OpToRel
<1> QED BY <1>2

\* What holds of 0, and of n + 1 when it holds of n, holds of every natural number.
LEMMA Inductive ==
  ASSUME NEW S, 0 \in S, \A n \in Nat : n \in S => n + 1 \in S
  PROVE  \A n \in Nat : n \in S
<1> DEFINE T == {n \in Nat : n \notin S}
<1> SUFFICES ASSUME T # {} PROVE FALSE
  OBVIOUS
<1>1. T \subseteq Nat
  OBVIOUS
<1> HIDE DEF T
<1>2. PICK m \in T : \A k \in T : m <= k
  BY <1>1, LeastNatural
<1>3. m \in Nat /\ m # 0 /\ m - 1 \in Nat
  BY <1>2 DEF T
<1>4. m - 1 \notin T
  BY <1>2, <1>3
<1>5. m - 1 \in S
  BY <1>3, <1>4 DEF T
<1>6. (m - 1) + 1 \in S
  BY <1>3, <1>5
<1> QED BY <1>2, <1>3, <1>6 DEF T

\* A nonempty set of subsets of a finite set has a member that is not in it any
\* more when any one element is taken out.
LEMMA SmallestSet ==
  ASSUME NEW S, IsFiniteSet(S), NEW T, T \subseteq SUBSET S, T # {}
  PROVE  \E s \in T : \A x \in s : s \ {x} \notin T
<1> DEFINE Sizes == {Cardinality(s) : s \in T}
<1>1. \A s \in T : IsFiniteSet(s) /\ Cardinality(s) \in Nat
  BY FS_Subset, FS_CardinalityType
<1>2. Sizes \subseteq Nat /\ Sizes # {}
  BY <1>1
<1> HIDE DEF Sizes
<1>3. PICK m \in Sizes : \A k \in Sizes : m <= k
  BY <1>2, LeastNatural
<1>4. PICK s \in T : m = Cardinality(s)
  BY DEF Sizes
<1>5. ASSUME NEW x \in s, s \ {x} \in T PROVE FALSE
  <2>1. Cardinality(s \ {x}) = Cardinality(s) - 1
    BY <1>1, FS_RemoveElement
  <2>2. Cardinality(s \ {x}) \in Sizes
    BY <1>5 DEF Sizes
  <2> QED BY <1>1, <1>3, <1>4, <2>1, <2>2
<1> QED BY <1>5

-----------------------------------------------------------------------------
(* Tail recursion: a loop that narrows its argument until it stops *)

\* f is the loop over D that goes from r to next[r], until r is in stop.
IsLoop(f, D, stop, out, next) ==
  f = [r \in D |-> IF r \in stop THEN out[r] ELSE f[next[r]]]

\* The argument gets smaller, and has a size to lose.
Narrows(D, stop, next, size, max) ==
  /\ \A r \in D : size[r] \in 0 .. max
  /\ \A r \in D \ stop : next[r] \in D /\ size[next[r]] < size[r]

\* A loop that narrows its argument exists: for every n, one does that is right
\* for the arguments of size up to n.
LEMMA LoopExists ==
  ASSUME NEW D, NEW stop, NEW out, NEW next, NEW size, NEW max \in Nat,
         Narrows(D, stop, next, size, max)
  PROVE  \E f : IsLoop(f, D, stop, out, next)
<1> DEFINE Step(f, r) == IF r \in stop THEN out[r] ELSE f[next[r]]
           Upto(f, n) == \A r \in D : size[r] <= n => f[r] = Step(f, r)
           Stuck == {n \in Nat : ~ \E f : f = [r \in D |-> f[r]] /\ Upto(f, n)}
<1>1. /\ \A r \in D : size[r] \in Nat /\ size[r] <= max
      /\ \A r \in D \ stop : next[r] \in D /\ size[next[r]] < size[r]
  BY DEF Narrows
<1>2. ASSUME Stuck # {} PROVE FALSE
  <2>1. PICK n \in Stuck : \A k \in Stuck : n <= k
    <3>1. Stuck \subseteq Nat
      OBVIOUS
    <3> HIDE DEF Stuck
    <3> QED BY <1>2, <3>1, LeastNatural
  <2>2. n \in Nat /\ ~ \E f : f = [r \in D |-> f[r]] /\ Upto(f, n)
    OBVIOUS
  <2>3. n # 0
    <3> SUFFICES ASSUME n = 0 PROVE FALSE
      OBVIOUS
    <3> DEFINE f == [r \in D |-> out[r]]
    <3>1. Upto(f, n)
      BY <1>1
    <3>2. f = [r \in D |-> f[r]]
      OBVIOUS
    <3> HIDE DEF f, Upto
    <3> QED BY <2>2, <3>1, <3>2
  <2>4. PICK g : Upto(g, n - 1)
    <3>1. n - 1 \in Nat
      BY <2>2, <2>3
    <3>2. n - 1 \notin Stuck
      <4> HIDE DEF Stuck
      <4> QED BY <2>1, <2>2, <3>1
    <3> QED BY <3>1, <3>2
  <2> DEFINE f == [r \in D |-> Step(g, r)]
  <2>5. \A r \in D : size[r] <= n - 1 => f[r] = g[r]
    BY <2>4
  <2>6. ASSUME NEW r \in D, size[r] <= n PROVE f[r] = Step(f, r)
    <3>1. CASE r \in stop
      BY <3>1
    <3>2. CASE r \notin stop
      <4>1. next[r] \in D /\ size[next[r]] <= n - 1
        BY <1>1, <2>2, <2>6, <3>2
      <4>2. f[next[r]] = g[next[r]]
        BY <2>5, <4>1
      <4>3. f[r] = g[next[r]]
        BY <3>2
      <4> HIDE DEF f
      <4> QED BY <3>2, <4>2, <4>3
    <3> QED BY <3>1, <3>2
  <2>7. f = [r \in D |-> f[r]]
    OBVIOUS
  <2> HIDE DEF f
  <2> QED BY <2>2, <2>6, <2>7
<1>3. PICK f : f = [r \in D |-> f[r]] /\ Upto(f, max)
  <2>1. max \notin Stuck
    BY <1>2
  <2> QED BY <2>1
<1>4. \A r \in D : f[r] = Step(f, r)
  BY <1>1, <1>3
<1>5. f = [r \in D |-> Step(f, r)]
  BY <1>3, <1>4
<1> QED BY <1>5 DEF IsLoop

\* What holds of the results where the loop stops, and of an argument's when it
\* holds of the next one's, holds of every result.
LEMMA LoopResult ==
  ASSUME NEW D, NEW stop, NEW out, NEW next, NEW size, NEW max \in Nat,
         Narrows(D, stop, next, size, max),
         NEW f, IsLoop(f, D, stop, out, next),
         NEW Good,
         \A r \in D \cap stop : <<r, out[r]>> \in Good,
         \A r \in D \ stop : \A v : <<next[r], v>> \in Good => <<r, v>> \in Good
  PROVE  \A r \in D : <<r, f[r]>> \in Good
<1> DEFINE Bad == {r \in D : <<r, f[r]>> \notin Good}
           Sizes == {size[r] : r \in Bad}
<1>1. /\ \A r \in D : size[r] \in Nat
      /\ \A r \in D \ stop : next[r] \in D /\ size[next[r]] < size[r]
  BY DEF Narrows
<1>2. \A r \in D : f[r] = IF r \in stop THEN out[r] ELSE f[next[r]]
  BY DEF IsLoop
<1> SUFFICES ASSUME Bad # {} PROVE FALSE
  OBVIOUS
<1>3. Sizes \subseteq Nat /\ Sizes # {}
  <2>1. Bad \subseteq D
    OBVIOUS
  <2> HIDE DEF Bad
  <2> QED BY <1>1, <2>1
<1> HIDE DEF Sizes
<1>4. PICK m \in Sizes : \A k \in Sizes : m <= k
  BY <1>3, LeastNatural
<1>5. PICK r \in Bad : m = size[r]
  BY DEF Sizes
<1>6. r \notin stop
  BY <1>2
<1>7. next[r] \in D /\ size[next[r]] < size[r] /\ f[r] = f[next[r]]
  BY <1>1, <1>2, <1>6
<1>8. next[r] \in Bad
  BY <1>6, <1>7
<1>9. size[next[r]] \in Sizes
  BY <1>8 DEF Sizes
<1>10. size[r] \in Nat /\ size[next[r]] \in Nat
  BY <1>1, <1>7
<1> QED BY <1>4, <1>5, <1>7, <1>9, <1>10

-----------------------------------------------------------------------------
(* Primitive recursion *)

\* f starts from the value a and goes on by next.
IsIterated(f, a, next) ==
  f = [n \in Nat |-> IF n = 0 THEN a ELSE next[n][f[n - 1]]]

\* There is such a function: for every n, one that is right up to n, and any two of
\* those agree there.
LEMMA IterationExists ==
  ASSUME NEW a, NEW next
  PROVE  \E f : IsIterated(f, a, next)
<1> DEFINE Step(f, n) == IF n = 0 THEN a ELSE next[n][f[n - 1]]
           Upto(f, n) == \A k \in 0 .. n : f[k] = Step(f, k)
           Reached == {n \in Nat : \E f : Upto(f, n)}
           g == [n \in Nat |-> CHOOSE f : Upto(f, n)]
           f == [n \in Nat |-> g[n][n]]
<1>1. \A n \in Nat : n \in Reached
  <2>1. 0 \in Reached
    <3>1. Upto([k \in Nat |-> a], 0)
      OBVIOUS
    <3> QED BY <3>1, Zenon
  <2>2. ASSUME NEW n \in Nat, n \in Reached PROVE n + 1 \in Reached
    <3>1. PICK h : Upto(h, n)
      BY <2>2
    <3> DEFINE j == [k \in Nat |-> IF k = n + 1 THEN next[n + 1][h[n]] ELSE h[k]]
    <3>2. \A k \in 0 .. n : j[k] = h[k]
      OBVIOUS
    <3>3. j[n + 1] = next[n + 1][h[n]]
      OBVIOUS
    <3> HIDE DEF j
    <3>4. Upto(j, n + 1)
      <4> SUFFICES ASSUME NEW k \in 0 .. n + 1 PROVE j[k] = Step(j, k)
        OBVIOUS
      <4>1. CASE k = 0
        <5>1. 0 \in 0 .. n
          OBVIOUS
        <5> QED BY <3>1, <3>2, <4>1, <5>1
      <4>2. CASE k \in 1 .. n
        <5>1. k - 1 \in 0 .. n /\ k \in 0 .. n /\ k # 0
          BY <4>2
        <5> QED BY <3>1, <3>2, <5>1
      <4>3. CASE k = n + 1
        <5>1. n \in 0 .. n /\ k # 0 /\ k - 1 = n
          BY <4>3
        <5> QED BY <3>2, <3>3, <4>3, <5>1
      <4> QED BY <4>1, <4>2, <4>3
    <3>5. n + 1 \in Nat
      OBVIOUS
    <3> HIDE DEF Upto
    <3> QED BY <3>4, <3>5
  <2> HIDE DEF Reached
  <2> QED BY <2>1, <2>2, Inductive
<1>2. \A n \in Nat : Upto(g[n], n)
  <2> SUFFICES ASSUME NEW n \in Nat PROVE Upto(g[n], n)
    OBVIOUS
  <2>1. n \in Reached
    BY <1>1
  <2>2. \E h : Upto(h, n)
    BY <2>1
  <2>3. g[n] = CHOOSE h : Upto(h, n)
    OBVIOUS
  <2> HIDE DEF g, Upto
  <2> QED BY <2>2, <2>3
<1> HIDE DEF g, Reached
<1>3. ASSUME NEW n \in Nat PROVE g[n + 1][n] = g[n][n]
  <2> DEFINE Same == {k \in Nat : k <= n => g[n + 1][k] = g[n][k]}
  <2>1. \A k \in 0 .. n : g[n + 1][k] = Step(g[n + 1], k) /\ g[n][k] = Step(g[n], k)
    <3>1. \A k \in 0 .. n : k \in 0 .. n + 1
      OBVIOUS
    <3>2. n + 1 \in Nat
      OBVIOUS
    <3>3. Upto(g[n + 1], n + 1)
      BY <1>2, <3>2
    <3> QED BY <1>2, <3>1, <3>3
  <2>2. 0 \in Same
    <3>1. 0 \in 0 .. n
      OBVIOUS
    <3> QED BY <2>1, <3>1
  <2>3. ASSUME NEW k \in Nat, k \in Same PROVE k + 1 \in Same
    <3> SUFFICES ASSUME k + 1 <= n PROVE g[n + 1][k + 1] = g[n][k + 1]
      OBVIOUS
    <3>1. k + 1 \in 0 .. n /\ k + 1 # 0 /\ (k + 1) - 1 = k /\ k <= n
      OBVIOUS
    <3>2. g[n + 1][k] = g[n][k]
      BY <2>3, <3>1
    <3> QED BY <2>1, <3>1, <3>2
  <2>4. \A k \in Nat : k \in Same
    <3> HIDE DEF Same
    <3> QED BY <2>2, <2>3, Inductive
  <2> QED BY <2>4
<1>4. ASSUME NEW n \in Nat PROVE f[n] = Step(f, n)
  <2>1. CASE n = 0
    <3>1. Upto(g[0], 0)
      <4> HIDE DEF Upto
      <4> QED BY <1>2
    <3>2. g[0][0] = a
      <4>1. 0 \in 0 .. 0
        OBVIOUS
      <4> QED BY <3>1, <4>1
    <3> QED BY <2>1, <3>2
  <2>2. CASE n # 0
    <3>1. n - 1 \in Nat /\ (n - 1) + 1 = n /\ n \in 0 .. n
      BY <2>2
    <3>2. g[n][n - 1] = g[n - 1][n - 1]
      BY <1>3, <3>1
    <3>3. f[n] = g[n][n] /\ f[n - 1] = g[n - 1][n - 1]
      BY <3>1
    <3>4. g[n][n] = Step(g[n], n)
      BY <1>2, <3>1
    <3> HIDE DEF f
    <3> QED BY <2>2, <3>2, <3>3, <3>4
  <2> QED BY <2>1, <2>2
<1>5. f = [n \in Nat |-> Step(f, n)]
  <2>1. f = [n \in Nat |-> f[n]]
    OBVIOUS
  <2> HIDE DEF f
  <2> QED BY <1>4, <2>1
<1> HIDE DEF f
<1> QED BY <1>5, Zenon DEF IsIterated

\* With its values in V, each following from the one before.
IsIteration(f, V, a, next) ==
  /\ f = [n \in Nat |-> f[n]]
  /\ f[0] = a
  /\ \A n \in Nat : f[n] \in V /\ f[n + 1] = next[n + 1][f[n]]

\* There is one such.
LEMMA Iteration ==
  ASSUME NEW V, NEW a \in V, NEW next \in [Nat -> [V -> V]]
  PROVE  \E f : IsIteration(f, V, a, next)
<1>1. PICK f : IsIterated(f, a, next)
  BY IterationExists
<1> DEFINE Typed == {n \in Nat : f[n] \in V}
<1>2. \A n \in Nat : f[n] = IF n = 0 THEN a ELSE next[n][f[n - 1]]
  BY <1>1 DEF IsIterated
<1>3. f[0] = a /\ \A n \in Nat : f[n + 1] = next[n + 1][f[n]]
  <2>1. \A n \in Nat : n + 1 \in Nat /\ n + 1 # 0 /\ (n + 1) - 1 = n
    OBVIOUS
  <2>2. 0 \in Nat
    OBVIOUS
  <2> QED BY <1>2, <2>1, <2>2
<1>4. 0 \in Typed
  BY <1>3
<1>5. ASSUME NEW n \in Nat, n \in Typed PROVE n + 1 \in Typed
  <2>1. n + 1 \in Nat /\ f[n] \in V
    BY <1>5
  <2>2. next[n + 1][f[n]] \in V
    BY <2>1
  <2> QED BY <1>3, <2>2
<1>6. \A n \in Nat : n \in Typed
  <2> HIDE DEF Typed
  <2> QED BY <1>4, <1>5, Inductive
<1>7. f = [n \in Nat |-> f[n]]
  BY <1>1 DEF IsIterated
<1> QED BY <1>3, <1>6, <1>7 DEF IsIteration

-----------------------------------------------------------------------------
(* Sums over finite sets *)

\* The element a sum takes next, and the equation it solves on the subsets of S.
Pick(s) == CHOOSE x \in s : TRUE

IsSum(g, f, S) ==
  g = [s \in SUBSET S |-> IF s = {} THEN 0 ELSE f[Pick(s)] + g[s \ {Pick(s)}]]

\* A sum is what the solution of the equation gives for the whole set.
LEMMA SumIs ==
  ASSUME NEW f, NEW S
  PROVE  SumFunctionOnSet(f, S) = (CHOOSE g : IsSum(g, f, S))[S]
BY Zenon DEF SumFunctionOnSet, FoldFunctionOnSet, MapThenFoldSet, IsSum, Pick

\* A set that is not empty has an element to take.
LEMMA PickIn ==
  ASSUME NEW s, s # {}
  PROVE  Pick(s) \in s
BY DEF Pick

\* Two solutions agree where both are defined.
LEMMA IsSumUnique ==
  ASSUME NEW f, NEW S, IsFiniteSet(S), NEW R \in SUBSET S,
         NEW g, IsSum(g, f, S), NEW h, IsSum(h, f, R)
  PROVE  \A s \in SUBSET R : g[s] = h[s]
<1> DEFINE T == {s \in SUBSET R : g[s] # h[s]}
<1> SUFFICES ASSUME T # {} PROVE FALSE
  OBVIOUS
<1>1. IsFiniteSet(R)
  BY FS_Subset
<1>2. T \subseteq SUBSET R
  OBVIOUS
<1> HIDE DEF T
<1>3. PICK s \in T : \A x \in s : s \ {x} \notin T
  BY <1>1, <1>2, SmallestSet, Zenon
<1>4. s \in SUBSET R /\ s \in SUBSET S /\ g[s] # h[s]
  BY <1>3 DEF T
<1>5. s # {} => Pick(s) \in s
  BY PickIn
<1>6. s # {} => s \ {Pick(s)} \in SUBSET R /\ g[s \ {Pick(s)}] = h[s \ {Pick(s)}]
  BY <1>3, <1>4, <1>5 DEF T
<1>7. g[s] = IF s = {} THEN 0 ELSE f[Pick(s)] + g[s \ {Pick(s)}]
  BY <1>4 DEF IsSum
<1>8. h[s] = IF s = {} THEN 0 ELSE f[Pick(s)] + h[s \ {Pick(s)}]
  BY <1>4 DEF IsSum
<1> QED BY <1>4, <1>6, <1>7, <1>8

\* There is a solution: from those of the sets with one element less.
LEMMA SumExists ==
  ASSUME NEW f, NEW S, IsFiniteSet(S)
  PROVE  \E g : IsSum(g, f, S)
<1> DEFINE T == {s \in SUBSET S : ~ \E g : IsSum(g, f, s)}
<1> SUFFICES ASSUME T # {} PROVE FALSE
  OBVIOUS
<1>1. T \subseteq SUBSET S
  OBVIOUS
<1> HIDE DEF T
<1>2. PICK s \in T : \A x \in s : s \ {x} \notin T
  BY <1>1, SmallestSet, Zenon
<1>3. s \in SUBSET S /\ ~ \E g : IsSum(g, f, s)
  BY <1>2 DEF T
<1>4. IsFiniteSet(s)
  BY <1>3, FS_Subset
<1>5. \A x \in s : \E g : IsSum(g, f, s \ {x})
  BY <1>2, <1>3 DEF T
<1> DEFINE G(x) == CHOOSE g : IsSum(g, f, s \ {x})
           sum(t) == IF t = {} THEN 0
                     ELSE f[Pick(t)] + G(Pick(t))[t \ {Pick(t)}]
           g0 == [t \in SUBSET s |-> sum(t)]
<1>6. \A x \in s : IsSum(G(x), f, s \ {x})
  BY <1>5, Zenon
<1>7. \A x, y \in s : \A t \in SUBSET (s \ {x, y}) : G(x)[t] = G(y)[t]
  <2> SUFFICES ASSUME NEW x \in s, NEW y \in s, NEW t \in SUBSET (s \ {x, y})
               PROVE G(x)[t] = G(y)[t]
    OBVIOUS
  <2> DEFINE a == G(x)
             b == G(y)
             Restr == [r \in SUBSET (s \ {x, y}) |-> a[r]]
  <2>1. IsSum(a, f, s \ {x}) /\ IsSum(b, f, s \ {y})
    BY <1>6
  <2> HIDE DEF a, b
  <2>2. IsSum(Restr, f, s \ {x, y})
    <3>1. \A r \in SUBSET (s \ {x, y}) : Restr[r] = IF r = {} THEN 0 ELSE f[Pick(r)] + Restr[r \ {Pick(r)}]
      <4> TAKE r \in SUBSET (s \ {x, y})
      <4>1. r \in SUBSET (s \ {x}) /\ r \ {Pick(r)} \in SUBSET (s \ {x, y})
        OBVIOUS
      <4>2. a[r] = IF r = {} THEN 0 ELSE f[Pick(r)] + a[r \ {Pick(r)}]
        BY <2>1, <4>1 DEF IsSum
      <4> QED BY <4>1, <4>2
    <3> QED BY <3>1 DEF IsSum
  <2>3. a[t] = Restr[t]
    OBVIOUS
  <2>4. b[t] = Restr[t]
    <3>1. IsFiniteSet(s \ {y}) /\ s \ {x, y} \in SUBSET (s \ {y})
      BY <1>4, FS_Subset
    <3> HIDE DEF Restr
    <3> QED BY <2>1, <2>2, <3>1, IsSumUnique
  <2> QED BY <2>3, <2>4 DEF a, b
<1>8. \A t \in SUBSET s : t # {} => sum(t \ {Pick(t)}) = G(Pick(t))[t \ {Pick(t)}]
  <2> SUFFICES ASSUME NEW t \in SUBSET s, t # {}
               PROVE  sum(t \ {Pick(t)}) = G(Pick(t))[t \ {Pick(t)}]
    OBVIOUS
  <2> DEFINE x == Pick(t)
             r == t \ {x}
             y == Pick(r)
             a == G(x)
  <2>1. x \in s /\ IsSum(a, f, s \ {x}) /\ r \in SUBSET (s \ {x})
    BY <1>6, PickIn
  <2>2. a[r] = IF r = {} THEN 0 ELSE f[y] + a[r \ {y}]
    <3> HIDE DEF a, r, x
    <3> QED BY <2>1 DEF IsSum
  <2>3. r # {} => y \in s /\ r \ {y} \in SUBSET (s \ {x, y})
    BY PickIn
  <2>4. r # {} => a[r \ {y}] = G(y)[r \ {y}]
    BY <1>7, <2>1, <2>3
  <2> QED BY <2>2, <2>4
<1> HIDE DEF G
<1>9. \A t \in SUBSET s : sum(t) = IF t = {} THEN 0 ELSE f[Pick(t)] + sum(t \ {Pick(t)})
  BY <1>8
<1> HIDE DEF sum
<1>10. \A t \in SUBSET s : g0[t] = IF t = {} THEN 0 ELSE f[Pick(t)] + g0[t \ {Pick(t)}]
  <2> TAKE t \in SUBSET s
  <2>1. t \ {Pick(t)} \in SUBSET s
    OBVIOUS
  <2> QED BY <1>9, <2>1
<1>11. g0 = [t \in SUBSET s |-> g0[t]]
  OBVIOUS
<1> HIDE DEF g0
<1>12. IsSum(g0, f, s)
  BY <1>10, <1>11 DEF IsSum
<1> QED BY <1>3, <1>12

\* The defining equation, for any finite set.
LEMMA SumPick ==
  ASSUME NEW f, NEW S, IsFiniteSet(S)
  PROVE  SumFunctionOnSet(f, S) = IF S = {} THEN 0 ELSE f[Pick(S)] + SumFunctionOnSet(f, S \ {Pick(S)})
<1> DEFINE R == S \ {Pick(S)}
           g == CHOOSE h : IsSum(h, f, S)
           k == CHOOSE h : IsSum(h, f, R)
<1>1. IsFiniteSet(R) /\ R \in SUBSET S
  BY FS_Subset
<1>2. IsSum(g, f, S)
  BY SumExists, Zenon
<1>3. IsSum(k, f, R)
  BY <1>1, SumExists, Zenon
<1>4. SumFunctionOnSet(f, S) = g[S] /\ SumFunctionOnSet(f, R) = k[R]
  BY SumIs, Zenon
<1> HIDE DEF g, k, R
<1>5. g[R] = k[R]
  BY <1>1, <1>2, <1>3, IsSumUnique
<1>6. g[S] = IF S = {} THEN 0 ELSE f[Pick(S)] + g[R]
  BY <1>2 DEF IsSum, R
<1> QED BY <1>4, <1>5, <1>6 DEF R

\* Nothing adds up to nothing.
LEMMA SumEmpty ==
  ASSUME NEW f
  PROVE  SumFunctionOnSet(f, {}) = 0
BY SumPick, FS_EmptySet

\* A sum of integers is an integer.
LEMMA SumInt ==
  ASSUME NEW f, NEW S, IsFiniteSet(S), \A x \in S : f[x] \in Int
  PROVE  SumFunctionOnSet(f, S) \in Int
<1> DEFINE T == {s \in SUBSET S : SumFunctionOnSet(f, s) \notin Int}
<1> SUFFICES ASSUME T # {} PROVE FALSE
  OBVIOUS
<1>1. T \subseteq SUBSET S
  OBVIOUS
<1> HIDE DEF T
<1>2. PICK s \in T : \A x \in s : s \ {x} \notin T
  BY <1>1, SmallestSet, Zenon
<1>3. s \in SUBSET S /\ SumFunctionOnSet(f, s) \notin Int /\ IsFiniteSet(s)
  BY <1>2, FS_Subset DEF T
<1>4. s # {} => f[Pick(s)] \in Int /\ SumFunctionOnSet(f, s \ {Pick(s)}) \in Int
  BY <1>2, <1>3, PickIn DEF T
<1>5. SumFunctionOnSet(f, s) = IF s = {} THEN 0
                               ELSE f[Pick(s)] + SumFunctionOnSet(f, s \ {Pick(s)})
  BY <1>3, SumPick
<1> QED BY <1>3, <1>4, <1>5

\* Nothing is added by zeros.
LEMMA SumZero ==
  ASSUME NEW f, NEW S, IsFiniteSet(S), \A x \in S : f[x] = 0
  PROVE  SumFunctionOnSet(f, S) = 0
<1> DEFINE T == {s \in SUBSET S : SumFunctionOnSet(f, s) # 0}
<1> SUFFICES ASSUME T # {} PROVE FALSE
  OBVIOUS
<1>1. T \subseteq SUBSET S
  OBVIOUS
<1> HIDE DEF T
<1>2. PICK s \in T : \A x \in s : s \ {x} \notin T
  BY <1>1, SmallestSet, Zenon
<1>3. s \in SUBSET S /\ SumFunctionOnSet(f, s) # 0 /\ IsFiniteSet(s)
  BY <1>2, FS_Subset DEF T
<1>4. s # {} => f[Pick(s)] = 0 /\ SumFunctionOnSet(f, s \ {Pick(s)}) = 0
  BY <1>2, <1>3, PickIn DEF T
<1>5. SumFunctionOnSet(f, s) = IF s = {} THEN 0
                               ELSE f[Pick(s)] + SumFunctionOnSet(f, s \ {Pick(s)})
  BY <1>3, SumPick
<1> QED BY <1>3, <1>4, <1>5

\* Any element can be taken out.
LEMMA SumRemove ==
  ASSUME NEW f, NEW S, IsFiniteSet(S), \A x \in S : f[x] \in Int, NEW e \in S
  PROVE  SumFunctionOnSet(f, S) = f[e] + SumFunctionOnSet(f, S \ {e})
<1> DEFINE Sum(s) == SumFunctionOnSet(f, s)
           Splits(s, x) == Sum(s) = f[x] + Sum(s \ {x})
           T == {s \in SUBSET S : \E x \in s : ~ Splits(s, x)}
<1> SUFFICES ASSUME T # {} PROVE FALSE
  BY DEF T
<1>1. T \subseteq SUBSET S
  OBVIOUS
<1>2. \A s \in SUBSET S : IsFiniteSet(s) /\ Sum(s) \in Int
  BY SumInt, FS_Subset
<1>3. \A s \in SUBSET S : s # {} => Splits(s, Pick(s))
  BY <1>2, SumPick
<1> HIDE DEF T
<1>4. PICK s \in T : \A x \in s : s \ {x} \notin T
  BY <1>1, SmallestSet, Zenon
<1>5. s \in SUBSET S
  BY <1>1
<1>6. PICK x \in s : ~ Splits(s, x)
  BY <1>4 DEF T
<1> DEFINE p == Pick(s)
<1>7. p \in s /\ Splits(s, p)
  BY <1>3, <1>5, <1>6, PickIn
<1>8. p # x
  BY <1>6, <1>7
<1>9. Splits(s \ {p}, x) /\ Splits(s \ {x}, p)
  <2>1. s \ {p} \notin T /\ s \ {x} \notin T
    BY <1>4, <1>6, <1>7
  <2>2. x \in s \ {p} /\ p \in s \ {x} /\ s \ {p} \in SUBSET S /\ s \ {x} \in SUBSET S
    BY <1>5, <1>6, <1>7, <1>8
  <2> QED BY <2>1, <2>2 DEF T
<1>10. (s \ {p}) \ {x} = (s \ {x}) \ {p}
  OBVIOUS
<1>11. /\ f[p] \in Int /\ f[x] \in Int
       /\ Sum(s) \in Int /\ Sum(s \ {p}) \in Int /\ Sum(s \ {x}) \in Int
       /\ Sum((s \ {p}) \ {x}) \in Int
  <2>1. /\ s \ {p} \in SUBSET S /\ s \ {x} \in SUBSET S /\ (s \ {p}) \ {x} \in SUBSET S
        /\ p \in S /\ x \in S
    BY <1>5, <1>6, <1>7
  <2> HIDE DEF Sum, p
  <2> QED BY <1>2, <1>5, <2>1
<1> HIDE DEF Sum, p
<1>12. Sum(s) = f[p] + Sum(s \ {p}) /\ Sum(s \ {p}) = f[x] + Sum((s \ {p}) \ {x})
       /\ Sum(s \ {x}) = f[p] + Sum((s \ {p}) \ {x})
  BY <1>7, <1>9, <1>10
<1>13. Sum(s) = f[x] + Sum(s \ {x})
  BY <1>11, <1>12
<1> QED BY <1>6, <1>13

\* Or put in.
LEMMA SumAdd ==
  ASSUME NEW f, NEW S, IsFiniteSet(S), NEW e, e \notin S,
         \A x \in S \cup {e} : f[x] \in Int
  PROVE  SumFunctionOnSet(f, S \cup {e}) = f[e] + SumFunctionOnSet(f, S)
<1>1. IsFiniteSet(S \cup {e}) /\ (S \cup {e}) \ {e} = S /\ e \in S \cup {e}
  BY FS_AddElement
<1> QED BY <1>1, SumRemove

\* Nothing but the terms matters.
LEMMA SumSame ==
  ASSUME NEW f, NEW g, NEW S, IsFiniteSet(S), \A x \in S : f[x] = g[x]
  PROVE  SumFunctionOnSet(f, S) = SumFunctionOnSet(g, S)
<1> DEFINE T == {s \in SUBSET S : SumFunctionOnSet(f, s) # SumFunctionOnSet(g, s)}
<1> SUFFICES ASSUME T # {} PROVE FALSE
  OBVIOUS
<1>1. T \subseteq SUBSET S
  OBVIOUS
<1> HIDE DEF T
<1>2. PICK s \in T : \A x \in s : s \ {x} \notin T
  BY <1>1, SmallestSet, Zenon
<1>3. /\ s \in SUBSET S /\ IsFiniteSet(s)
      /\ SumFunctionOnSet(f, s) # SumFunctionOnSet(g, s)
  BY <1>2, FS_Subset DEF T
<1>4. s # {} => /\ f[Pick(s)] = g[Pick(s)]
                /\ SumFunctionOnSet(f, s \ {Pick(s)}) = SumFunctionOnSet(g, s \ {Pick(s)})
  BY <1>2, <1>3, PickIn DEF T
<1>5. /\ SumFunctionOnSet(f, s) = IF s = {} THEN 0
                                  ELSE f[Pick(s)] + SumFunctionOnSet(f, s \ {Pick(s)})
      /\ SumFunctionOnSet(g, s) = IF s = {} THEN 0
                                  ELSE g[Pick(s)] + SumFunctionOnSet(g, s \ {Pick(s)})
  BY <1>3, SumPick
<1> QED BY <1>3, <1>4, <1>5

\* One term changes.
LEMMA SumChange ==
  ASSUME NEW f, NEW g, NEW S, IsFiniteSet(S), NEW e \in S,
         \A x \in S : f[x] \in Int, g[e] \in Int, \A x \in S : x # e => g[x] = f[x]
  PROVE  SumFunctionOnSet(g, S) = SumFunctionOnSet(f, S) - f[e] + g[e]
<1> DEFINE R == S \ {e}
<1>1. IsFiniteSet(R) /\ R \subseteq S
  BY FS_Subset
<1>2. SumFunctionOnSet(f, R) = SumFunctionOnSet(g, R)
  BY <1>1, SumSame
<1>3. SumFunctionOnSet(f, S) = f[e] + SumFunctionOnSet(f, R)
  BY SumRemove
<1>4. \A x \in S : g[x] \in Int
  OBVIOUS
<1>5. SumFunctionOnSet(g, S) = g[e] + SumFunctionOnSet(g, R)
  BY <1>4, SumRemove
<1>6. SumFunctionOnSet(f, R) \in Int
  BY <1>1, SumInt
<1> QED BY <1>2, <1>3, <1>5, <1>6

\* Larger terms, larger sum.
LEMMA SumLeq ==
  ASSUME NEW f, NEW g, NEW S, IsFiniteSet(S),
         \A x \in S : f[x] \in Int /\ g[x] \in Int /\ f[x] <= g[x]
  PROVE  SumFunctionOnSet(f, S) <= SumFunctionOnSet(g, S)
<1> DEFINE T == {s \in SUBSET S : ~ (SumFunctionOnSet(f, s) <= SumFunctionOnSet(g, s))}
<1> SUFFICES ASSUME T # {} PROVE FALSE
  OBVIOUS
<1>1. T \subseteq SUBSET S
  OBVIOUS
<1> HIDE DEF T
<1>2. PICK s \in T : \A x \in s : s \ {x} \notin T
  BY <1>1, SmallestSet, Zenon
<1>3. /\ s \in SUBSET S /\ IsFiniteSet(s)
      /\ ~ (SumFunctionOnSet(f, s) <= SumFunctionOnSet(g, s))
  BY <1>2, FS_Subset DEF T
<1> DEFINE p == Pick(s)
           r == s \ {p}
<1>4. s # {} => /\ f[p] \in Int /\ g[p] \in Int /\ f[p] <= g[p]
                /\ SumFunctionOnSet(f, r) <= SumFunctionOnSet(g, r)
  BY <1>2, <1>3, PickIn DEF T
<1>5. SumFunctionOnSet(f, r) \in Int /\ SumFunctionOnSet(g, r) \in Int
  <2>1. IsFiniteSet(r) /\ r \subseteq S
    BY <1>3, FS_Subset
  <2> QED BY <2>1, SumInt
<1>6. /\ SumFunctionOnSet(f, s) = IF s = {} THEN 0 ELSE f[p] + SumFunctionOnSet(f, r)
      /\ SumFunctionOnSet(g, s) = IF s = {} THEN 0 ELSE g[p] + SumFunctionOnSet(g, r)
  BY <1>3, SumPick
<1> HIDE DEF p, r
<1> QED BY <1>3, <1>4, <1>5, <1>6

\* A sum of natural numbers is a natural number.
LEMMA SumNat ==
  ASSUME NEW f, NEW S, IsFiniteSet(S), \A x \in S : f[x] \in Nat
  PROVE  SumFunctionOnSet(f, S) \in Nat
<1> DEFINE T == {s \in SUBSET S : SumFunctionOnSet(f, s) \notin Nat}
<1> SUFFICES ASSUME T # {} PROVE FALSE
  OBVIOUS
<1>1. T \subseteq SUBSET S
  OBVIOUS
<1> HIDE DEF T
<1>2. PICK s \in T : \A x \in s : s \ {x} \notin T
  BY <1>1, SmallestSet, Zenon
<1>3. s \in SUBSET S /\ SumFunctionOnSet(f, s) \notin Nat /\ IsFiniteSet(s)
  BY <1>2, FS_Subset DEF T
<1>4. s # {} => f[Pick(s)] \in Nat /\ SumFunctionOnSet(f, s \ {Pick(s)}) \in Nat
  BY <1>2, <1>3, PickIn DEF T
<1>5. SumFunctionOnSet(f, s) = IF s = {} THEN 0
                               ELSE f[Pick(s)] + SumFunctionOnSet(f, s \ {Pick(s)})
  BY <1>3, SumPick
<1> QED BY <1>3, <1>4, <1>5

\* No term is larger than a sum of natural numbers.
LEMMA SumMember ==
  ASSUME NEW f, NEW S, IsFiniteSet(S), \A x \in S : f[x] \in Nat, NEW e \in S
  PROVE  f[e] <= SumFunctionOnSet(f, S)
<1>1. IsFiniteSet(S \ {e}) /\ \A x \in S \ {e} : f[x] \in Nat
  BY FS_Subset
<1>2. SumFunctionOnSet(f, S \ {e}) \in Nat
  BY <1>1, SumNat
<1>3. SumFunctionOnSet(f, S) = f[e] + SumFunctionOnSet(f, S \ {e})
  BY SumRemove
<1> QED BY <1>2, <1>3

\* Terms add up.
LEMMA SumPlus ==
  ASSUME NEW f, NEW g, NEW h, NEW S, IsFiniteSet(S),
         \A x \in S : f[x] \in Int /\ g[x] \in Int /\ h[x] = f[x] + g[x]
  PROVE  SumFunctionOnSet(h, S) = SumFunctionOnSet(f, S) + SumFunctionOnSet(g, S)
<1> DEFINE T == {s \in SUBSET S : SumFunctionOnSet(h, s) #
                   SumFunctionOnSet(f, s) + SumFunctionOnSet(g, s)}
<1> SUFFICES ASSUME T # {} PROVE FALSE
  OBVIOUS
<1>1. T \subseteq SUBSET S
  OBVIOUS
<1> HIDE DEF T
<1>2. PICK s \in T : \A x \in s : s \ {x} \notin T
  BY <1>1, SmallestSet, Zenon
<1>3. /\ s \in SUBSET S /\ IsFiniteSet(s)
      /\ SumFunctionOnSet(h, s) # SumFunctionOnSet(f, s) + SumFunctionOnSet(g, s)
  BY <1>2, FS_Subset DEF T
<1> DEFINE p == Pick(s)
           r == s \ {p}
<1>4. s # {} => /\ f[p] \in Int /\ g[p] \in Int /\ h[p] = f[p] + g[p]
                /\ SumFunctionOnSet(h, r) = SumFunctionOnSet(f, r) + SumFunctionOnSet(g, r)
  BY <1>2, <1>3, PickIn DEF T
<1>5. SumFunctionOnSet(f, r) \in Int /\ SumFunctionOnSet(g, r) \in Int
  <2>1. IsFiniteSet(r) /\ r \subseteq S
    BY <1>3, FS_Subset
  <2> QED BY <2>1, SumInt
<1>6. /\ SumFunctionOnSet(f, s) = IF s = {} THEN 0 ELSE f[p] + SumFunctionOnSet(f, r)
      /\ SumFunctionOnSet(g, s) = IF s = {} THEN 0 ELSE g[p] + SumFunctionOnSet(g, r)
      /\ SumFunctionOnSet(h, s) = IF s = {} THEN 0 ELSE h[p] + SumFunctionOnSet(h, r)
  BY <1>3, SumPick
<1> HIDE DEF p, r
<1> QED BY <1>3, <1>4, <1>5, <1>6

\* The terms of two disjoint sets add up.
LEMMA SumUnion ==
  ASSUME NEW f, NEW S, NEW R, IsFiniteSet(S), IsFiniteSet(R), S \cap R = {},
         \A x \in S \cup R : f[x] \in Int
  PROVE  SumFunctionOnSet(f, S \cup R) = SumFunctionOnSet(f, S) + SumFunctionOnSet(f, R)
<1> DEFINE Splits(s) == SumFunctionOnSet(f, S \cup s) = SumFunctionOnSet(f, S) + SumFunctionOnSet(f, s)
           T == {s \in SUBSET R : ~ Splits(s)}
<1> SUFFICES ASSUME T # {} PROVE FALSE
  OBVIOUS
<1>1. T \subseteq SUBSET R
  OBVIOUS
<1> HIDE DEF T
<1>2. PICK s \in T : \A x \in s : s \ {x} \notin T
  BY <1>1, SmallestSet, Zenon
<1>3. s \in SUBSET R /\ ~ Splits(s) /\ IsFiniteSet(s)
  BY <1>2, FS_Subset DEF T
<1>4. SumFunctionOnSet(f, S) \in Int
  BY SumInt
<1>5. s # {}
  <2>1. ASSUME s = {} PROVE Splits(s)
    <3>1. S \cup s = S
      BY <2>1
    <3>2. SumFunctionOnSet(f, S \cup s) = SumFunctionOnSet(f, S)
      BY <3>1
    <3>3. SumFunctionOnSet(f, s) = 0
      BY <2>1, SumEmpty
    <3> QED BY <1>4, <3>2, <3>3
  <2> QED BY <1>3, <2>1
<1>6. PICK x : x \in s
  BY <1>5
<1> DEFINE r == s \ {x}
<1>7. /\ IsFiniteSet(r) /\ IsFiniteSet(S \cup r) /\ x \notin r /\ x \notin S \cup r
      /\ r \cup {x} = s /\ (S \cup r) \cup {x} = S \cup s
      /\ (\A y \in r \cup {x} : f[y] \in Int) /\ (\A y \in (S \cup r) \cup {x} : f[y] \in Int)
      /\ f[x] \in Int
  BY <1>3, <1>6, FS_Subset, FS_Union
<1>8. Splits(r)
  BY <1>2, <1>3, <1>6 DEF T
<1>9. SumFunctionOnSet(f, r) \in Int
  BY <1>7, SumInt
<1> HIDE DEF r
<1>10. SumFunctionOnSet(f, s) = f[x] + SumFunctionOnSet(f, r)
  BY <1>7, SumAdd
<1>11. SumFunctionOnSet(f, S \cup s) = f[x] + SumFunctionOnSet(f, S \cup r)
  BY <1>7, SumAdd
<1> QED BY <1>3, <1>4, <1>7, <1>8, <1>9, <1>10, <1>11

\* Terms that are zero can be left out.
LEMMA SumWithin ==
  ASSUME NEW f, NEW S, IsFiniteSet(S), NEW R \in SUBSET S,
         \A x \in R : f[x] \in Int, \A x \in S \ R : f[x] = 0
  PROVE  SumFunctionOnSet(f, S) = SumFunctionOnSet(f, R)
<1>1. /\ IsFiniteSet(R) /\ IsFiniteSet(S \ R) /\ R \cap (S \ R) = {} /\ R \cup (S \ R) = S
      /\ \A x \in S : f[x] \in Int
  BY FS_Subset
<1>2. SumFunctionOnSet(f, S \ R) = 0
  BY <1>1, SumZero
<1>3. SumFunctionOnSet(f, R) \in Int
  BY <1>1, SumInt
<1> QED BY <1>1, <1>2, <1>3, SumUnion

-----------------------------------------------------------------------------
(* Division, and the larger of two *)

\* A quotient is the largest number that fits.
LEMMA DivAtLeast ==
  ASSUME NEW x \in Nat, NEW d \in Nat \ {0}, NEW q \in Nat, q * d <= x
  PROVE  q <= x \div d
<1> DEFINE r == x \div d
<1>1. r \in Nat /\ x < (r + 1) * d
  OBVIOUS
<1> HIDE DEF r
<1>2. ASSUME r + 1 <= q PROVE FALSE
  <2>1. (r + 1) * d <= q * d
    BY <1>1, <1>2
  <2>2. (r + 1) * d \in Nat /\ q * d \in Nat
    BY <1>1
  <2> QED BY <1>1, <2>1, <2>2
<1> QED BY <1>1, <1>2 DEF r

\* A quotient and its remainder make up the value that was divided.
LEMMA Spread ==
  ASSUME NEW value \in Nat, NEW shares \in Nat \ {0}, NEW q, NEW r,
         q = value \div shares, r = value % shares
  PROVE  /\ q \in Nat /\ r \in Nat /\ r < shares /\ q * shares \in Nat
         /\ q * shares + r = value
<1>1. value % shares = value - shares * (value \div shares)
  OBVIOUS
<1>2. q \in Nat /\ r \in Nat /\ r < shares
  OBVIOUS
<1>3. q * shares = shares * q /\ shares * q \in Nat
  BY <1>2
<1>4. r = value - shares * q
  BY <1>1
<1> DEFINE p == shares * q
<1>5. q * shares = p /\ p \in Nat /\ r = value - p
  BY <1>3, <1>4
<1> HIDE DEF p
<1> QED BY <1>2, <1>5

\* A fraction of an amount is no more than the amount.
LEMMA Fraction ==
  ASSUME NEW n \in Nat, NEW q \in Nat, NEW d \in Nat \ {0}, q <= d
  PROVE  (n * q) \div d \in Nat /\ (n * q) \div d <= n
<1> DEFINE x == n * q
           r == x \div d
<1>1. x \in Nat /\ x <= n * d
  OBVIOUS
<1> HIDE DEF x
<1>2. r \in Nat /\ r * d <= x
  BY <1>1
<1> HIDE DEF r
<1>3. r * d <= n * d
  BY <1>1, <1>2
<1>4. r <= n
  BY <1>2, <1>3
<1> QED BY <1>2, <1>4 DEF r, x

\* A product, divided, gives back the factor.
LEMMA ProductDivided ==
  ASSUME NEW n \in Nat \ {0}, NEW q \in Nat
  PROVE  (n * q) \div n = q
<1> DEFINE x == n * q
           r == x \div n
<1>1. x \in Nat /\ x = n * q
  OBVIOUS
<1> HIDE DEF x
<1>2. r \in Nat /\ n * r <= x /\ x < n * (r + 1)
  BY <1>1
<1> HIDE DEF r
<1>3. ASSUME q + 1 <= r PROVE FALSE
  <2>1. n * (q + 1) <= n * r /\ n * (q + 1) = n * q + n
    BY <1>2, <1>3
  <2> QED BY <1>1, <1>2, <2>1
<1>4. ASSUME r + 1 <= q PROVE FALSE
  <2>1. n * (r + 1) <= n * q
    BY <1>2, <1>4
  <2> QED BY <1>1, <1>2, <2>1
<1>5. r = q
  BY <1>2, <1>3, <1>4
<1> QED BY <1>5 DEF r, x

\* A quotient is the number that fits, and does not with one more.
LEMMA DivIs ==
  ASSUME NEW x \in Nat, NEW d \in Nat \ {0}, NEW q \in Nat, q * d <= x, x < (q + 1) * d
  PROVE  x \div d = q
<1> DEFINE r == x \div d
<1>1. r \in Nat /\ r * d <= x
  OBVIOUS
<1>2. q <= r
  BY DivAtLeast
<1> HIDE DEF r
<1>3. ASSUME q + 1 <= r PROVE FALSE
  <2>1. (q + 1) * d <= r * d
    BY <1>1, <1>3
  <2>2. (q + 1) * d \in Nat /\ r * d \in Nat
    BY <1>1
  <2> QED BY <1>1, <2>1, <2>2
<1>4. r = q
  BY <1>1, <1>2, <1>3
<1> QED BY <1>4 DEF r

\* A factor is cancelled.
LEMMA DivCancel ==
  ASSUME NEW x \in Nat, NEW t \in Nat \ {0}, NEW d \in Nat \ {0}
  PROVE  (x * t) \div (t * d) = x \div d
<1> DEFINE q == x \div d
<1>1. q \in Nat /\ q * d <= x /\ x < (q + 1) * d
  OBVIOUS
<1> HIDE DEF q
<1>2. \A a, b \in Nat : a <= b => a * t <= b * t
  OBVIOUS
<1>3. \A a, b \in Nat : a < b => a * t < b * t
  OBVIOUS
<1>4. q * d \in Nat /\ (q + 1) * d \in Nat /\ x * t \in Nat /\ t * d \in Nat \ {0}
  BY <1>1
<1>5. \A a \in Nat : (a * d) * t = a * (t * d)
  OBVIOUS
<1>6. q * (t * d) <= x * t
  BY <1>1, <1>2, <1>4, <1>5
<1>7. x * t < (q + 1) * (t * d)
  <2>1. x * t < ((q + 1) * d) * t
    BY <1>1, <1>3, <1>4
  <2>2. q + 1 \in Nat
    BY <1>1
  <2> QED BY <1>5, <2>1, <2>2
<1>8. (x * t) \div (t * d) = q
  BY <1>1, <1>4, <1>6, <1>7, DivIs
<1> QED BY <1>8 DEF q

\* The larger and the smaller of two numbers.
LEMMA MaxMinOfTwo ==
  ASSUME NEW x \in Int, NEW y \in Int
  PROVE  /\ Max({x, y}) = IF x >= y THEN x ELSE y
         /\ Min({x, y}) = IF x <= y THEN x ELSE y
<1>1. \E m \in {x, y} : \A z \in {x, y} : m >= z
  <2>1. CASE x >= y
    BY <2>1
  <2>2. CASE ~(x >= y)
    BY <2>2
  <2> QED BY <2>1, <2>2
<1>2. \E m \in {x, y} : \A z \in {x, y} : m <= z
  <2>1. CASE x <= y
    BY <2>1
  <2>2. CASE ~(x <= y)
    BY <2>2
  <2> QED BY <2>1, <2>2
<1>3. Max({x, y}) \in {x, y} /\ \A z \in {x, y} : Max({x, y}) >= z
  BY <1>1, Zenon DEF Max
<1>4. Min({x, y}) \in {x, y} /\ \A z \in {x, y} : Min({x, y}) <= z
  BY <1>2, Zenon DEF Min
<1> QED BY <1>3, <1>4

\* A nonempty set of natural numbers with a bound has a greatest member.
LEMMA MaxOfBounded ==
  ASSUME NEW T, T \subseteq Nat, T # {}, NEW n \in Nat, \A t \in T : t <= n
  PROVE  Max(T) \in T /\ \A t \in T : t <= Max(T)
<1> DEFINE D == {n - t : t \in T}
<1>1. D \subseteq Nat /\ D # {}
  <2>1. \A t \in T : t \in Nat /\ n - t \in Nat
    OBVIOUS
  <2> QED BY <2>1
<1> HIDE DEF D
<1>2. PICK d \in D : \A k \in D : d <= k
  BY <1>1, LeastNatural
<1>3. PICK m \in T : d = n - m
  BY DEF D
<1>4. \A t \in T : n - t \in D
  BY DEF D
<1>5. \E x \in T : \A t \in T : x >= t
  <2>1. ASSUME NEW t \in T PROVE m >= t
    <3>1. n - t \in D
      BY <1>4
    <3>2. n - m <= n - t
      BY <1>2, <1>3, <3>1
    <3>3. m \in Nat /\ t \in Nat
      OBVIOUS
    <3> QED BY <3>2, <3>3
  <2> QED BY <2>1
<1>6. Max(T) \in T /\ \A t \in T : Max(T) >= t
  BY <1>5, Zenon DEF Max
<1> QED BY <1>6
==============================================================================
