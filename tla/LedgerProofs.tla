---------------------------- MODULE LedgerProofs ----------------------------
(***************************************************************************)
(* What the ledger promises for any organizations, calls, amounts and      *)
(* bounds.                                                                 *)
(***************************************************************************)
EXTENDS LedgerProperties, FiniteSetTheorems, TLAPS

(***************************************************************************)
(* Totals and the order of drawing, from the cardinalities of finite sets. *)
(***************************************************************************)
-----------------------------------------------------------------------------
(* Units and Sum *)

(* The micro-USD of f are the pairs of a row and a number up to its amount. *)
LEMMA UnitsMember ==
  ASSUME NEW S, NEW f \in [S -> Nat]
  PROVE  /\ \A x \in S : \A k \in 1 .. f[x] : <<x, k>> \in Units(f)
         /\ \A u \in Units(f) : \E x \in S, k \in Nat : k \in 1 .. f[x] /\ u = <<x, k>>
         /\ \A x, k : <<x, k>> \in Units(f) => x \in S /\ k \in 1 .. f[x]
  BY DEF Units

(* What makes a function one to one, and one to one onto a set.            *)
LEMMA IsInjection ==
  ASSUME NEW S, NEW T, NEW F \in [S -> T], \A a, b \in S : F[a] = F[b] => a = b
  PROVE  F \in Injection(S, T)
BY DEF Injection, IsInjective

LEMMA IsBijection ==
  ASSUME NEW S, NEW T, NEW F \in [S -> T],
         \A a, b \in S : F[a] = F[b] => a = b,
         \A t \in T : \E a \in S : F[a] = t
  PROVE  F \in Bijection(S, T)
BY DEF Injection, IsInjective, Surjection, Bijection

(* A nonempty set of naturals has a least element, ...                     *)
LEMMA Least ==
  ASSUME NEW T, T \subseteq Nat, T # {}
  PROVE  \E x \in T : \A y \in T : x <= y
<1> DEFINE R == OpToRel(<, Nat)
<1>1. \A x, y \in Nat : x < y => <<x, y>> \in R
  BY DEF OpToRel
<1>2. IsWellFoundedOn(R, Nat)
  BY NatLessThanWellFounded, Zenon
<1> HIDE DEF R
<1>3. \E x \in T : \A y \in T : ~ (<<y, x>> \in R)
  BY <1>2, WFMin
<1>4. PICK x \in T : \A y \in T : ~ (<<y, x>> \in R)
  BY <1>3
<1>5. \A y \in T : x \in Nat /\ y \in Nat /\ ~ (y < x)
  BY <1>1, <1>4
<1> QED
  BY <1>5

(* ... and if it is finite, a greatest.                                    *)
LEMMA Greatest ==
  ASSUME NEW S, S \subseteq Nat, IsFiniteSet(S), S # {}
  PROVE  \E x \in S : \A y \in S : y <= x
<1> DEFINE Topless(A) == A # {} /\ ~ \E x \in A : \A y \in A : y <= x
           Sizes == {n \in Nat : \E A \in SUBSET S : Topless(A) /\ Cardinality(A) = n}
<1> SUFFICES ASSUME Topless(S) PROVE FALSE
  OBVIOUS
<1>1. \A A \in SUBSET S : IsFiniteSet(A) /\ Cardinality(A) \in Nat
  BY FS_Subset, FS_CardinalityType
<1>2. Sizes # {} /\ Sizes \subseteq Nat
  BY <1>1
<1>3. PICK n \in Sizes : \A k \in Sizes : n <= k
  BY <1>2, Least
<1>4. PICK A \in SUBSET S : Topless(A) /\ Cardinality(A) = n
  BY <1>3
<1>5. PICK a \in A : TRUE
  BY <1>4
<1> DEFINE B == A \ {a}
<1>6. Cardinality(B) = n - 1 /\ B \in SUBSET S /\ n - 1 < n
  <2>1. IsFiniteSet(A) /\ a \in A /\ A \in SUBSET S
    BY <1>1, <1>4, <1>5
  <2>2. Cardinality(B) = n - 1
    BY <1>4, <2>1, FS_RemoveElement
  <2>3. n \in Nat
    BY <1>1, <1>4
  <2> QED
    BY <2>1, <2>2, <2>3
<1>7. ~ Topless(B)
  <2> SUFFICES ASSUME Topless(B) PROVE FALSE
    OBVIOUS
  <2>1. n \in Nat /\ Cardinality(B) \in Nat
    BY <1>1, <1>2, <1>6
  <2>2. Cardinality(B) \in Sizes
    BY <2>1, <1>6
  <2> HIDE DEF Sizes
  <2> QED
    BY <1>3, <1>6, <2>1, <2>2
<1>8. CASE B = {}
  BY <1>4, <1>5, <1>8
<1>9. ASSUME NEW x \in B, \A y \in B : y <= x PROVE FALSE
  BY <1>4, <1>5, <1>9
<1> QED
  BY <1>7, <1>8, <1>9

(* Of finitely many, one is the highest.                                   *)
LEMMA Highest ==
  ASSUME NEW S, S # {}, IsFiniteSet(S), NEW f \in [S -> Nat]
  PROVE  \E g \in S : \A h \in S : f[h] <= f[g]
<1> DEFINE T == {f[h] : h \in S}
<1>1. f \in Surjection(S, T)
  BY DEF Surjection
<1>2. IsFiniteSet(T)
  BY <1>1, FS_Surjection
<1>3. T \subseteq Nat /\ T # {}
  OBVIOUS
<1> HIDE DEF T
<1>4. PICK x \in T : \A y \in T : y <= x
  BY <1>2, <1>3, Greatest
<1>5. PICK g \in S : x = f[g]
  BY <1>4 DEF T
<1>6. \A h \in S : f[h] <= f[g]
  BY <1>4, <1>5 DEF T
<1> QED
  BY <1>6

(* A table of finitely many rows holds finitely many micro-USD. *)
LEMMA SumType ==
  ASSUME NEW S, IsFiniteSet(S), NEW f \in [S -> Nat]
  PROVE  /\ IsFiniteSet(Units(f))
         /\ Sum(f) \in Nat
<1> DEFINE F == [x \in S |-> {x} \X (1 .. f[x])]
           P == {{x} \X (1 .. f[x]) : x \in S}
<1>1. F \in Surjection(S, P)
  BY DEF Surjection
<1>2. IsFiniteSet(P)
  BY <1>1, FS_Surjection
<1>3. ASSUME NEW x \in S PROVE IsFiniteSet({x} \X (1 .. f[x]))
  <2>1. IsFiniteSet({x})
    BY FS_Singleton
  <2>2. f[x] \in Int
    OBVIOUS
  <2>3. IsFiniteSet(1 .. f[x])
    BY <2>2, FS_Interval
  <2> QED
    BY <2>1, <2>3, FS_Product
<1>4. IsFiniteSet(UNION P)
  BY <1>2, <1>3, FS_UNION
<1>5. IsFiniteSet(Units(f))
  BY <1>4 DEF Units
<1> QED
  BY <1>5, FS_CardinalityType DEF Sum

(* A table whose amounts are all zero sums to zero. *)
LEMMA SumZero ==
  ASSUME NEW S, NEW f \in [S -> Nat], \A x \in S : f[x] = 0
  PROVE  Sum(f) = 0
<1>1. Units(f) = {}
  BY UnitsMember
<1> QED
  BY <1>1, FS_EmptySet DEF Sum

(* Rows that hold nothing do not count. *)
LEMMA SumSupport ==
  ASSUME NEW S, NEW T \in SUBSET S, NEW f \in [S -> Nat], NEW g \in [T -> Nat],
         \A x \in T : g[x] = f[x],
         \A x \in S \ T : f[x] = 0
  PROVE  Sum(g) = Sum(f)
<1>1. Units(g) \subseteq Units(f)
  <2> SUFFICES ASSUME NEW u \in Units(g) PROVE u \in Units(f)
    OBVIOUS
  <2>1. PICK x \in T, k \in Nat : k \in 1 .. g[x] /\ u = <<x, k>>
    BY UnitsMember
  <2> QED
    BY <2>1, UnitsMember
<1>2. Units(f) \subseteq Units(g)
  <2> SUFFICES ASSUME NEW u \in Units(f) PROVE u \in Units(g)
    OBVIOUS
  <2>1. PICK x \in S, k \in Nat : k \in 1 .. f[x] /\ u = <<x, k>>
    BY UnitsMember
  <2>2. x \in T
    BY <2>1
  <2> QED
    BY <2>1, <2>2, UnitsMember
<1> QED
  BY <1>1, <1>2 DEF Sum

(* The same, with the agreement of the two tables named. *)
Restricts(f, S, g, T) ==
  /\ T \subseteq S /\ f \in [S -> Nat] /\ g \in [T -> Nat]
  /\ \A x \in T : g[x] = f[x]
  /\ \A x \in S \ T : f[x] = 0

LEMMA SumRestricted ==
  ASSUME NEW f, NEW S, NEW g, NEW T, Restricts(f, S, g, T)
  PROVE  Sum(g) = Sum(f)
<1>1. /\ T \in SUBSET S /\ f \in [S -> Nat] /\ g \in [T -> Nat]
      /\ \A x \in T : g[x] = f[x]
      /\ \A x \in S \ T : f[x] = 0
  BY DEF Restricts
<1> QED
  BY <1>1, SumSupport

(* The total of row-wise sums is the sum of the totals. *)
LEMMA SumAdd ==
  ASSUME NEW S, IsFiniteSet(S), NEW f \in [S -> Nat], NEW g \in [S -> Nat],
         NEW h \in [S -> Nat], \A x \in S : h[x] = f[x] + g[x]
  PROVE  Sum(h) = Sum(f) + Sum(g)
<1> DEFINE D == {u \in Units(h) : u \notin Units(f)}
           M == [u \in Units(g) |-> <<u[1], u[2] + f[u[1]]>>]
<1>1. Units(h) = Units(f) \cup D
  <2> SUFFICES ASSUME NEW u \in Units(f) PROVE u \in Units(h)
    OBVIOUS
  <2>1. PICK x \in S, k \in Nat : k \in 1 .. f[x] /\ u = <<x, k>>
    BY UnitsMember
  <2>2. k \in 1 .. h[x]
    BY <2>1
  <2> QED
    BY <2>1, <2>2, UnitsMember
<1>2. ASSUME NEW x \in S, NEW k \in 1 .. h[x] PROVE <<x, k>> \in D <=> k > f[x]
  <2>1. <<x, k>> \in Units(h)
    BY UnitsMember
  <2>2. <<x, k>> \in Units(f) <=> k \in 1 .. f[x]
    BY UnitsMember
  <2> QED
    BY <2>1, <2>2
<1>3. M \in [Units(g) -> D]
  <2> SUFFICES ASSUME NEW u \in Units(g) PROVE M[u] \in D
    OBVIOUS
  <2>1. PICK x \in S, k \in Nat : k \in 1 .. g[x] /\ u = <<x, k>>
    BY UnitsMember
  <2>2. M[u] = <<x, k + f[x]>>
    BY <2>1
  <2>3. k + f[x] \in 1 .. h[x] /\ k + f[x] > f[x]
    BY <2>1
  <2> QED
    BY <1>2, <2>2, <2>3
<1>4. ASSUME NEW u \in Units(g), NEW v \in Units(g), M[u] = M[v]
      PROVE  u = v
  <2>1. PICK x \in S, k \in Nat : k \in 1 .. g[x] /\ u = <<x, k>>
    BY UnitsMember
  <2>2. PICK y \in S, l \in Nat : l \in 1 .. g[y] /\ v = <<y, l>>
    BY UnitsMember
  <2>3. M[u] = <<x, k + f[x]>> /\ M[v] = <<y, l + f[y]>>
    BY <2>1, <2>2
  <2>4. x = y /\ k + f[x] = l + f[y]
    BY <1>4, <2>3
  <2> QED
    BY <2>1, <2>2, <2>4
<1>5. ASSUME NEW d \in D
      PROVE  \E u \in Units(g) : M[u] = d
  <2>1. PICK x \in S, k \in Nat : k \in 1 .. h[x] /\ d = <<x, k>>
    BY UnitsMember
  <2>2. k > f[x]
    BY <1>2, <2>1
  <2>3. k - f[x] \in 1 .. g[x]
    BY <2>1, <2>2
  <2>4. <<x, k - f[x]>> \in Units(g)
    BY <2>3, UnitsMember
  <2>5. M[<<x, k - f[x]>>] = d
    BY <2>1, <2>4
  <2> QED
    BY <2>4, <2>5
<1>6. ExistsBijection(Units(g), D)
  <2>1. M \in Bijection(Units(g), D)
    BY <1>3, <1>4, <1>5, IsBijection
  <2> QED
    BY <2>1 DEF ExistsBijection
<1>7. Cardinality(D) = Cardinality(Units(g)) /\ IsFiniteSet(D)
  BY <1>6, SumType, FS_Bijection
<1>8. Cardinality(Units(f) \cup D)
        = Cardinality(Units(f)) + Cardinality(D) - Cardinality(Units(f) \cap D)
  BY <1>7, SumType, FS_Union
<1>9. Units(f) \cap D = {}
  OBVIOUS
<1>10. Sum(f) \in Nat /\ Sum(g) \in Nat
  BY SumType
<1>11. Cardinality(Units(f) \cap D) = 0
  BY <1>9, FS_EmptySet
<1> HIDE DEF D, M
<1> QED
  BY <1>1, <1>7, <1>8, <1>10, <1>11 DEF Sum

(* Row-wise larger amounts have a larger total. *)
LEMMA SumMono ==
  ASSUME NEW S, IsFiniteSet(S), NEW f \in [S -> Nat], NEW g \in [S -> Nat],
         \A x \in S : f[x] <= g[x]
  PROVE  Sum(f) <= Sum(g)
<1> DEFINE d == [x \in S |-> g[x] - f[x]]
<1>1. d \in [S -> Nat]
  OBVIOUS
<1>2. Sum(g) = Sum(f) + Sum(d)
  <2>1. \A x \in S : g[x] = f[x] + d[x]
    OBVIOUS
  <2> HIDE DEF d
  <2> QED
    BY <1>1, <2>1, SumAdd
<1>3. Sum(f) \in Nat /\ Sum(g) \in Nat /\ Sum(d) \in Nat
  <2> HIDE DEF d
  <2> QED
    BY <1>1, SumType
<1> HIDE DEF d
<1> QED
  BY <1>2, <1>3

(* Changing one row changes the total by the change of the row. *)
LEMMA SumUpdate ==
  ASSUME NEW S, IsFiniteSet(S), NEW f \in [S -> Nat], NEW g \in [S -> Nat],
         NEW x \in S, \A y \in S \ {x} : g[y] = f[y]
  PROVE  Sum(g) = Sum(f) - f[x] + g[x]
<1> DEFINE r == [y \in S |-> IF y = x THEN 0 ELSE f[y]]
           a == [y \in S |-> IF y = x THEN f[x] ELSE 0]
           b == [y \in S |-> IF y = x THEN g[x] ELSE 0]
<1>1. r \in [S -> Nat] /\ a \in [S -> Nat] /\ b \in [S -> Nat]
  OBVIOUS
<1>2. \A y \in S : f[y] = r[y] + a[y] /\ g[y] = r[y] + b[y]
  OBVIOUS
<1>3. Sum(f) = Sum(r) + Sum(a) /\ Sum(g) = Sum(r) + Sum(b)
  <2> HIDE DEF r, a, b
  <2> QED
    BY <1>1, <1>2, SumAdd
<1>4. ASSUME NEW n \in Nat, NEW s \in [S -> Nat],
             s[x] = n, \A y \in S \ {x} : s[y] = 0
      PROVE  Sum(s) = n
  <2> DEFINE M == [k \in 1 .. n |-> <<x, k>>]
  <2>1. \A k \in 1 .. n : M[k] \in Units(s)
    BY <1>4, UnitsMember
  <2>2. \A u \in Units(s) : \E k \in 1 .. n : M[k] = u
    <3> SUFFICES ASSUME NEW u \in Units(s) PROVE \E k \in 1 .. n : M[k] = u
      OBVIOUS
    <3>1. PICK y \in S, k \in Nat : k \in 1 .. s[y] /\ u = <<y, k>>
      BY UnitsMember
    <3>2. y = x
      BY <1>4, <3>1
    <3> QED
      BY <1>4, <3>1, <3>2
  <2>3. M \in Bijection(1 .. n, Units(s))
    BY <2>1, <2>2, IsBijection
  <2>4. ExistsBijection(1 .. n, Units(s))
    BY <2>3 DEF ExistsBijection
  <2> QED
    BY <2>4, FS_CountingElements DEF Sum
<1>5. Sum(a) = f[x] /\ Sum(b) = g[x]
  <2>1. a[x] = f[x] /\ b[x] = g[x] /\ (\A y \in S \ {x} : a[y] = 0 /\ b[y] = 0)
    OBVIOUS
  <2> HIDE DEF a, b
  <2> QED
    BY <1>1, <1>4, <2>1
<1>6. Sum(r) \in Nat
  <2> HIDE DEF r
  <2> QED
    BY <1>1, SumType
<1> HIDE DEF r, a, b
<1> QED
  BY <1>3, <1>5, <1>6

(* A total with a single row. *)
LEMMA SumOne ==
  ASSUME NEW S, IsFiniteSet(S), NEW f \in [S -> Nat], NEW x \in S,
         \A y \in S \ {x} : f[y] = 0
  PROVE  Sum(f) = f[x]
<1> DEFINE z == [y \in S |-> 0]
<1>1. z \in [S -> Nat] /\ Sum(z) = 0
  BY SumZero
<1>2. \A y \in S \ {x} : f[y] = z[y]
  OBVIOUS
<1>3. z[x] = 0
  OBVIOUS
<1> HIDE DEF z
<1>4. Sum(f) = Sum(z) - z[x] + f[x]
  BY <1>1, <1>2, SumUpdate
<1> QED
  BY <1>1, <1>3, <1>4

(* A part of a total is no more than the total. *)
LEMMA SumPart ==
  ASSUME NEW S, IsFiniteSet(S), NEW f \in [S -> Nat], NEW x \in S
  PROVE  f[x] <= Sum(f)
<1> DEFINE g == [y \in S |-> IF y = x THEN f[x] ELSE 0]
<1>1. g \in [S -> Nat] /\ \A y \in S \ {x} : g[y] = 0
  OBVIOUS
<1>2. g[x] = f[x]
  OBVIOUS
<1>3. \A y \in S : g[y] <= f[y]
  OBVIOUS
<1> HIDE DEF g
<1>4. Sum(g) = g[x]
  BY <1>1, SumOne
<1>5. Sum(g) <= Sum(f)
  BY <1>1, <1>3, SumMono
<1> QED
  BY <1>2, <1>4, <1>5

-----------------------------------------------------------------------------
(* Spread *)

(* What comes before a row is a total; a later row comes after all of an    *)
(* earlier one, and no row reaches beyond the total of the table.           *)
LEMMA BeforeOrder ==
  ASSUME NEW S, IsFiniteSet(S), NEW cap \in [S -> Nat], NEW rank \in [S -> Int]
  PROVE  /\ \A x \in S : Sum(Before(cap, rank, x)) \in Nat
         /\ \A x, y \in S : rank[x] < rank[y] =>
              Sum(Before(cap, rank, x)) + cap[x] <= Sum(Before(cap, rank, y))
         /\ \A x \in S : Sum(Before(cap, rank, x)) + cap[x] <= Sum(cap)
<1> DEFINE low(x) == [z \in S |-> IF rank[z] < rank[x] THEN cap[z] ELSE 0]
           upTo(x) == [z \in S |-> IF rank[z] < rank[x] \/ z = x THEN cap[z] ELSE 0]
<1>1. ASSUME NEW x \in S
      PROVE  /\ Sum(Before(cap, rank, x)) = Sum(low(x))
             /\ low(x) \in [S -> Nat] /\ Sum(low(x)) \in Nat
  <2> DEFINE T == {z \in S : rank[z] < rank[x]}
             f == low(x)
             g == Before(cap, rank, x)
  <2>1. f \in [S -> Nat] /\ g \in [T -> Nat] /\ T \in SUBSET S
    BY DEF Before
  <2>2. (\A z \in T : g[z] = f[z]) /\ (\A z \in S \ T : f[z] = 0)
    BY DEF Before
  <2> HIDE DEF f, g, T
  <2>3. Sum(g) = Sum(f) /\ Sum(f) \in Nat
    BY <2>1, <2>2, SumSupport, SumType
  <2> QED
    BY <2>1, <2>3 DEF f, g
<1>2. ASSUME NEW x \in S
      PROVE  /\ upTo(x) \in [S -> Nat]
             /\ Sum(upTo(x)) = Sum(Before(cap, rank, x)) + cap[x]
  <2> DEFINE f == low(x)
             g == upTo(x)
  <2>1. f \in [S -> Nat] /\ g \in [S -> Nat]
    OBVIOUS
  <2>2. (\A y \in S \ {x} : g[y] = f[y]) /\ f[x] = 0 /\ g[x] = cap[x]
    OBVIOUS
  <2>3. Sum(f) = Sum(Before(cap, rank, x)) /\ Sum(f) \in Nat
    BY <1>1
  <2> HIDE DEF f, g
  <2>4. Sum(g) = Sum(f) - f[x] + g[x]
    BY <2>1, <2>2, SumUpdate
  <2>5. Sum(g) = Sum(Before(cap, rank, x)) + cap[x]
    BY <2>2, <2>3, <2>4
  <2> QED
    BY <2>1, <2>5 DEF g
<1>3. ASSUME NEW x \in S, NEW y \in S, rank[x] < rank[y]
      PROVE  Sum(Before(cap, rank, x)) + cap[x] <= Sum(Before(cap, rank, y))
  <2> DEFINE f == upTo(x)
             g == low(y)
  <2>1. \A z \in S : f[z] <= g[z]
    BY <1>3
  <2>2. f \in [S -> Nat] /\ g \in [S -> Nat] /\ Sum(g) = Sum(Before(cap, rank, y))
        /\ Sum(f) = Sum(Before(cap, rank, x)) + cap[x]
    BY <1>1, <1>2
  <2> HIDE DEF f, g
  <2>3. Sum(f) <= Sum(g)
    BY <2>1, <2>2, SumMono
  <2> QED
    BY <2>2, <2>3
<1>4. ASSUME NEW x \in S
      PROVE  Sum(Before(cap, rank, x)) + cap[x] <= Sum(cap)
  <2> DEFINE f == upTo(x)
  <2>1. \A z \in S : f[z] <= cap[z]
    OBVIOUS
  <2>2. f \in [S -> Nat] /\ Sum(f) = Sum(Before(cap, rank, x)) + cap[x]
    BY <1>2
  <2> HIDE DEF f
  <2>3. Sum(f) <= Sum(cap)
    BY <2>1, <2>2, SumMono
  <2> QED
    BY <2>2, <2>3
<1>5. \A x \in S : Sum(Before(cap, rank, x)) \in Nat
  BY <1>1
<1> HIDE DEF low, upTo
<1> QED
  BY <1>3, <1>4, <1>5

(* No row gives more than it has. *)
LEMMA SpreadType ==
  ASSUME NEW S, IsFiniteSet(S), NEW cap \in [S -> Nat], NEW rank \in [S -> Int], NEW n \in Nat
  PROVE  /\ Spread(cap, rank, n) \in [S -> Nat]
         /\ \A x \in S : Spread(cap, rank, n)[x] <= cap[x]
         /\ \A x \in S : Spread(cap, rank, n)[x]
              = Lesser(cap[x], NonNeg(n - Sum(Before(cap, rank, x))))
<1>1. \A x \in S : Sum(Before(cap, rank, x)) \in Nat
  BY BeforeOrder
<1> QED
  BY <1>1 DEF Spread, Lesser, NonNeg

(***************************************************************************)
(* Drawing n from rows in a strict order takes n, or all there is.  Laid   *)
(* end to end in that order the micro-USD of the table are numbered        *)
(* 1..Sum(cap), and the ones given are those numbered up to n.             *)
(***************************************************************************)
LEMMA SpreadTotal ==
  ASSUME NEW S, IsFiniteSet(S), NEW cap \in [S -> Nat], NEW rank \in [S -> Int],
         \A x, y \in S : rank[x] = rank[y] => x = y,
         NEW n \in Nat
  PROVE  Sum(Spread(cap, rank, n)) = Lesser(n, Sum(cap))
<1> DEFINE pre(x) == Sum(Before(cap, rank, x))
           total == Sum(cap)
           P == [u \in Units(cap) |-> pre(u[1]) + u[2]]
           given == Spread(cap, rank, n)
           m == Lesser(n, total)
           Q == [u \in Units(given) |-> P[u]]
<1>1. total \in Nat /\ IsFiniteSet(Units(cap)) /\ Cardinality(Units(cap)) = total
  BY SumType DEF Sum
<1>2. \A x \in S : pre(x) \in Nat
  BY BeforeOrder
<1>3. \A x, y \in S : rank[x] < rank[y] => pre(x) + cap[x] <= pre(y)
  BY BeforeOrder
<1>4. \A x \in S : pre(x) + cap[x] <= total
  BY BeforeOrder
<1>5. \A x \in S : \A k \in 1 .. cap[x] : <<x, k>> \in Units(cap) /\ P[<<x, k>>] = pre(x) + k
  BY UnitsMember
<1>6. given \in [S -> Nat]
      /\ \A x \in S : given[x] <= cap[x] /\ given[x] = Lesser(cap[x], NonNeg(n - pre(x)))
  <2>1. Spread(cap, rank, n) \in [S -> Nat]
    BY SpreadType
  <2>2. \A x \in S : Spread(cap, rank, n)[x] <= cap[x]
    BY SpreadType
  <2>3. \A x \in S : Spread(cap, rank, n)[x]
          = Lesser(cap[x], NonNeg(n - Sum(Before(cap, rank, x))))
    BY SpreadType, Zenon
  <2> QED
    BY <2>1, <2>2, <2>3, Zenon
<1> HIDE DEF pre, given, total
<1>7. P \in [Units(cap) -> 1 .. total]
  <2> SUFFICES ASSUME NEW u \in Units(cap) PROVE P[u] \in 1 .. total
    OBVIOUS
  <2>1. PICK x \in S, k \in Nat : k \in 1 .. cap[x] /\ u = <<x, k>>
    BY UnitsMember
  <2>2. P[u] = pre(x) + k
    BY <1>5, <2>1
  <2> QED
    BY <1>1, <1>2, <1>4, <2>1, <2>2
<1>8. ASSUME NEW u \in Units(cap), NEW v \in Units(cap), P[u] = P[v]
      PROVE  u = v
  <2>1. PICK x \in S, k \in Nat : k \in 1 .. cap[x] /\ u = <<x, k>>
    BY UnitsMember
  <2>2. PICK y \in S, l \in Nat : l \in 1 .. cap[y] /\ v = <<y, l>>
    BY UnitsMember
  <2>3. pre(x) + k = pre(y) + l
    BY <1>5, <1>8, <2>1, <2>2
  <2>4. ~(rank[x] < rank[y]) /\ ~(rank[y] < rank[x])
    BY <1>2, <1>3, <2>1, <2>2, <2>3
  <2>5. x = y
    BY <2>4
  <2> QED
    BY <1>2, <2>1, <2>2, <2>3, <2>5
<1>9. P \in Surjection(Units(cap), 1 .. total)
  <2>1. P \in Injection(Units(cap), 1 .. total)
    BY <1>7, <1>8, IsInjection
  <2>2. IsFiniteSet(1 .. total) /\ Cardinality(1 .. total) = total
    BY <1>1, FS_Interval
  <2> HIDE DEF P
  <2> QED
    BY <1>1, <2>1, <2>2, FS_Injection
<1>10. \A x \in S : \A k \in 1 .. cap[x] : k <= given[x] <=> pre(x) + k <= n
  BY <1>2, <1>6 DEF Lesser, NonNeg
<1>11. ASSUME NEW u \in Units(given)
       PROVE  u \in Units(cap) /\ P[u] \in 1 .. m
  <2>1. PICK x \in S, k \in Nat : k \in 1 .. given[x] /\ u = <<x, k>>
    BY <1>6, UnitsMember
  <2>2. k \in 1 .. cap[x]
    BY <1>6, <2>1
  <2>3. u \in Units(cap) /\ P[u] = pre(x) + k
    BY <1>5, <2>1, <2>2
  <2>4. P[u] \in 1 .. total
    BY <1>7, <2>3
  <2>5. P[u] <= n
    BY <1>10, <2>1, <2>2, <2>3
  <2> HIDE DEF P
  <2> QED
    BY <1>1, <2>3, <2>4, <2>5 DEF Lesser
<1>12. ASSUME NEW i \in 1 .. m
       PROVE  \E u \in Units(given) : P[u] = i
  <2>1. i \in 1 .. total /\ i <= n
    BY <1>1 DEF Lesser
  <2>2. PICK u \in Units(cap) : P[u] = i
    <3> HIDE DEF P
    <3> QED
      BY <1>9, <2>1 DEF Surjection
  <2>3. PICK x \in S, k \in Nat : k \in 1 .. cap[x] /\ u = <<x, k>>
    BY UnitsMember
  <2>4. pre(x) + k = i
    BY <1>5, <2>2, <2>3
  <2>5. k \in 1 .. given[x]
    BY <1>6, <1>10, <2>1, <2>3, <2>4
  <2>6. u \in Units(given)
    BY <1>6, <2>3, <2>5, UnitsMember
  <2> QED
    BY <2>2, <2>6
<1>13. Q \in Bijection(Units(given), 1 .. m)
  <2>1. Q \in [Units(given) -> 1 .. m]
    BY <1>11
  <2>2. \A u, v \in Units(given) : Q[u] = Q[v] => u = v
    BY <1>8, <1>11
  <2>3. \A i \in 1 .. m : \E u \in Units(given) : Q[u] = i
    BY <1>12
  <2> HIDE DEF Q, m, P
  <2> QED
    BY <2>1, <2>2, <2>3, IsBijection
<1>14. IsFiniteSet(Units(given))
  BY <1>6, SumType
<1>15. Cardinality(1 .. m) = Cardinality(Units(given))
  <2>1. ExistsBijection(Units(given), 1 .. m)
    BY <1>13 DEF ExistsBijection
  <2> QED
    BY <1>14, <2>1, FS_Bijection
<1>16. m \in Nat /\ Cardinality(1 .. m) = m
  <2>1. m \in Nat
    BY <1>1 DEF Lesser
  <2> HIDE DEF m
  <2> QED
    BY <2>1, FS_Interval
<1>17. Sum(given) = m
  <2> HIDE DEF m
  <2> QED
    BY <1>15, <1>16 DEF Sum
<1> QED
  BY <1>17 DEF given, total

-----------------------------------------------------------------------------
(* A marked-up cost is an amount of micro-USD. *)
LEMMA MarginType ==
  ASSUME NEW cost \in Nat, NEW margin \in Nat
  PROVE  WithMargin(cost, margin) \in Nat
<1>1. cost * (100 + margin) \in Nat
  OBVIOUS
<1>2. \A x \in Nat : (x + 99) \div 100 \in Nat
  OBVIOUS
<1> QED
  BY <1>1, <1>2 DEF WithMargin

(* Only the ranks of the rows themselves matter. *)
LEMMA SpreadRank ==
  ASSUME NEW S, NEW cap \in [S -> Nat], NEW rank, NEW n
  PROVE  Spread(cap, rank, n) = Spread(cap, [x \in S |-> rank[x]], n)
<1>1. \A x \in S : Before(cap, rank, x) = Before(cap, [y \in S |-> rank[y]], x)
  BY DEF Before
<1> QED
  BY <1>1 DEF Spread

-----------------------------------------------------------------------------
(* Types of the helpers *)

LEMMA FiniteRows == IsFiniteSet(BlockIds) /\ IsFiniteSet(Calls) /\ IsFiniteSet(Orgs)
  BY LedgerAssumption, FS_Interval DEF LedgerAssumption, BlockIds

LEMMA RowTypes ==
  /\ NoBlock \in BlockRow
  /\ NoHold \in HoldRow
  /\ NoEntry \in EntryRow
  /\ NoTag \in TagRow
  /\ NoReserve \in ReserveRow
  BY DEF NoBlock, NoHold, NoEntry, NoTag, NoReserve, BlockRow, HoldRow, EntryRow, TagRow,
         ReserveRow, Kinds

LEMMA FundedType == TypeOK => Funded \in Nat
<1> SUFFICES ASSUME TypeOK PROVE Funded \in Nat
  OBVIOUS
<1>1. IsFiniteSet({b \in BlockIds : IsBlock(b)})
  BY FiniteRows, FS_Subset
<1> QED
  BY <1>1, FS_CardinalityType DEF Funded

(* What a block or a hold contributes to its organization's totals. *)
LEMMA TotalTypes ==
  ASSUME TypeOK, NEW o
  PROVE  /\ Remaining(o) \in [BlockIds -> Nat]
         /\ Withheld(o) \in [Calls -> Nat]
         /\ Credit(o) \in Nat
         /\ Held(o) \in Nat
         /\ \A k : Visible(o, k) \in [BlockIds -> Nat]
         /\ \A k : \A b \in BlockIds : Visible(o, k)[b] <= Remaining(o)[b]
<1>1. Remaining(o) \in [BlockIds -> Nat]
  BY DEF Remaining, TypeOK, BlockRow
<1>2. Withheld(o) \in [Calls -> Nat]
  BY DEF Withheld, TypeOK, HoldRow
<1>3. Credit(o) \in Nat /\ Held(o) \in Nat
  BY <1>1, <1>2, FiniteRows, SumType DEF Credit, Held
<1>4. \A k : \A b \in BlockIds : Visible(o, k)[b] \in {0, Remaining(o)[b]}
  BY DEF Visible
<1>5. \A k : Visible(o, k) \in [BlockIds -> Nat]
  BY <1>1, <1>4 DEF Visible
<1>6. \A k : \A b \in BlockIds : Visible(o, k)[b] <= Remaining(o)[b]
  BY <1>1, <1>4
<1> QED
  BY <1>1, <1>2, <1>3, <1>5, <1>6

(* No two blocks are drawn at the same rank: kind decides, then age. *)
LEMMA BurnRankOrder ==
  ASSUME TypeOK
  PROVE  /\ BurnRank \in [BlockIds -> Int]
         /\ \A a, b \in BlockIds : BurnRank[a] = BurnRank[b] => a = b
<1> DEFINE level(b) == KindOrder(block[b].kind)
<1>1. \A b \in BlockIds : level(b) \in {0, 1, 2}
  <2> SUFFICES ASSUME NEW b \in BlockIds PROVE level(b) \in {0, 1, 2}
    OBVIOUS
  <2>1. block[b].kind \in Kinds
    BY DEF TypeOK, BlockRow
  <2> QED
    BY <2>1 DEF KindOrder, Kinds
<1>2. BurnRank = [b \in BlockIds |-> level(b) * (MaxBlocks + 1) + b]
  BY DEF BurnRank
<1> HIDE DEF level
<1>3. MaxBlocks \in Nat /\ BlockIds = 1 .. MaxBlocks
  BY LedgerAssumption DEF LedgerAssumption, BlockIds
<1>4. BurnRank \in [BlockIds -> Int]
  BY <1>1, <1>2, <1>3
<1>5. ASSUME NEW a \in BlockIds, NEW b \in BlockIds, BurnRank[a] = BurnRank[b]
      PROVE  a = b
  <2>1. level(a) * (MaxBlocks + 1) + a = level(b) * (MaxBlocks + 1) + b
    BY <1>2, <1>5
  <2>2. a \in 1 .. MaxBlocks /\ b \in 1 .. MaxBlocks
    BY <1>3
  <2>3. CASE level(a) = level(b)
    BY <1>1, <1>3, <2>1, <2>2, <2>3
  <2>4. CASE level(a) # level(b)
    <3> DEFINE d == level(a) - level(b)
    <3>1. d \in {-2, -1, 1, 2}
      BY <1>1, <2>4
    <3>2. d * (MaxBlocks + 1) = b - a
      BY <1>1, <1>3, <2>1, <2>2
    <3> QED
      BY <1>3, <2>2, <3>1, <3>2
  <2> QED
    BY <2>3, <2>4
<1> QED
  BY <1>4, <1>5

(* A draw takes from each block no more than is left on it. *)
LEMMA DrawType ==
  ASSUME TypeOK, NEW o, NEW n \in Nat, NEW k
  PROVE  /\ Draw(o, n, k) \in [BlockIds -> Nat]
         /\ \A b \in BlockIds : Draw(o, n, k)[b] <= Remaining(o)[b]
         /\ Sum(Draw(o, n, k)) \in Nat
         /\ Sum(Draw(o, n, k)) = Lesser(n, Sum(Visible(o, k)))
<1>1. Visible(o, k) \in [BlockIds -> Nat]
  BY TotalTypes
<1>2. /\ Draw(o, n, k) \in [BlockIds -> Nat]
      /\ \A b \in BlockIds : Draw(o, n, k)[b] <= Visible(o, k)[b]
  BY <1>1, FiniteRows, BurnRankOrder, SpreadType DEF Draw
<1>3. \A b \in BlockIds : Visible(o, k)[b] <= Remaining(o)[b]
  BY TotalTypes
<1>4. Remaining(o) \in [BlockIds -> Nat]
  BY TotalTypes
<1>5. \A b \in BlockIds : Draw(o, n, k)[b] <= Remaining(o)[b]
  BY <1>1, <1>2, <1>3, <1>4
<1>6. Sum(Draw(o, n, k)) = Lesser(n, Sum(Visible(o, k)))
  BY <1>1, FiniteRows, BurnRankOrder, SpreadTotal DEF Draw
<1>7. Sum(Draw(o, n, k)) \in Nat
  BY <1>2, FiniteRows, SumType
<1> QED
  BY <1>2, <1>5, <1>6, <1>7

-----------------------------------------------------------------------------
(* TypeOK is an invariant *)

LEMMA OpenOrg ==
  ASSUME TypeOK, NEW c \in Calls, IsOpen(c)
  PROVE  hold[c].org \in Orgs /\ hold[c].amount \in Nat /\ hold[c].day \in Nat
  BY DEF TypeOK, IsOpen, HoldRow

LEMMA AddSpentType ==
  ASSUME TypeOK, NEW o \in Orgs, NEW delta \in Int
  PROVE  AddSpent(spent[o], delta) \in [day : Nat \cup {None}, micro : Int]
  BY DEF TypeOK, AddSpent

LEMMA SettledType ==
  ASSUME TypeOK, NEW c \in Calls, NEW a \in Actuals \cup {None}
  PROVE  Settled(c, a) \in Nat
<1>1. CASE a = None
  BY <1>1 DEF Settled, TypeOK, HoldRow
<1>2. CASE a # None
  BY <1>2, MarginType, LedgerAssumption DEF Settled, LedgerAssumption
<1> QED
  BY <1>1, <1>2

LEMMA CountedType ==
  ASSUME TypeOK, NEW c \in Calls
  PROVE  CountedToday(c) \in Nat
  BY DEF TypeOK, HoldRow, CountedToday

LEMMA SettleHoldType ==
  ASSUME TypeOK, NEW c \in Calls, IsOpen(c), NEW n \in Nat, SettleHold(c, n)
  PROVE  /\ hold' \in [Calls -> HoldRow]
         /\ spent' \in [Orgs -> [day : Nat \cup {None}, micro : Int]]
         /\ closing' \in [Calls -> EntryRow]
         /\ tag' \in [Calls -> TagRow]
<1> USE OpenOrg, RowTypes, CountedType
<1>1. hold' \in [Calls -> HoldRow]
  BY DEF SettleHold, TypeOK
<1>2. n - CountedToday(c) \in Int
  OBVIOUS
<1>3. spent' \in [Orgs -> [day : Nat \cup {None}, micro : Int]]
  BY <1>2, AddSpentType DEF SettleHold, TypeOK
<1>4. SettleEntry(c, n) \in EntryRow
  BY DEF SettleEntry, EntryRow, TypeOK
<1>5. closing' \in [Calls -> EntryRow]
  BY <1>4 DEF SettleHold, TypeOK
<1>6. TagSettled(tag[c], n) \in TagRow
  BY DEF TagSettled, TypeOK, TagRow
<1>7. tag' \in [Calls -> TagRow]
  BY <1>6 DEF SettleHold, TypeOK
<1> QED
  BY <1>1, <1>3, <1>5, <1>7

LEMMA ReleaseHoldType ==
  ASSUME TypeOK, NEW c \in Calls, IsOpen(c), ReleaseHold(c)
  PROVE  /\ hold' \in [Calls -> HoldRow]
         /\ balance' \in [Orgs -> Int]
         /\ spent' \in [Orgs -> [day : Nat \cup {None}, micro : Int]]
         /\ closing' \in [Calls -> EntryRow]
         /\ tag' \in [Calls -> TagRow]
         /\ block' = block
<1> USE OpenOrg, RowTypes, CountedType
<1>1. hold' \in [Calls -> HoldRow]
  BY DEF ReleaseHold, TypeOK
<1>2. balance' \in [Orgs -> Int]
  BY DEF ReleaseHold, TypeOK
<1>3. -CountedToday(c) \in Int
  OBVIOUS
<1>4. spent' \in [Orgs -> [day : Nat \cup {None}, micro : Int]]
  BY <1>3, AddSpentType DEF ReleaseHold, TypeOK
<1>5. ReleaseEntry(c) \in EntryRow
  BY DEF ReleaseEntry, EntryRow, TypeOK
<1>6. closing' \in [Calls -> EntryRow]
  BY <1>5 DEF ReleaseHold, TypeOK
<1>7. tag' \in [Calls -> TagRow]
  BY DEF ReleaseHold, TypeOK
<1> QED
  BY <1>1, <1>2, <1>4, <1>6, <1>7 DEF ReleaseHold

(* Blocks after a draw that takes from each what is left on it at most. *)
LEMMA DrawnType ==
  ASSUME TypeOK, NEW o, NEW take \in [BlockIds -> Nat],
         \A b \in BlockIds : take[b] <= Remaining(o)[b]
  PROVE  Drawn(take) \in [BlockIds -> BlockRow]
<1> SUFFICES ASSUME NEW b \in BlockIds
             PROVE  [block[b] EXCEPT !.remaining = @ - take[b]] \in BlockRow
  BY DEF Drawn
<1>1. block[b] \in BlockRow /\ take[b] \in Nat
  BY DEF TypeOK
<1>2. take[b] <= block[b].remaining
  BY <1>1 DEF Remaining, BlockRow
<1>3. block[b].remaining - take[b] \in Nat
  BY <1>1, <1>2 DEF BlockRow
<1> QED
  BY <1>1, <1>3 DEF BlockRow

LEMMA NewBlockType ==
  ASSUME NEW o \in Orgs, NEW kind \in Kinds, NEW n \in Nat, NEW ref \in Refs \cup {None}
  PROVE  NewBlock(o, kind, n, ref) \in BlockRow
  BY DEF NewBlock, BlockRow

LEMMA TypeInit == Init => TypeOK
<1> SUFFICES ASSUME Init PROVE TypeOK
  OBVIOUS
<1> USE RowTypes
<1>1. block \in [BlockIds -> BlockRow] /\ hold \in [Calls -> HoldRow]
  BY DEF Init
<1>2. closing \in [Calls -> EntryRow] /\ tag \in [Calls -> TagRow]
      /\ reserving \in [Calls -> ReserveRow]
  BY DEF Init
<1>3. balance \in [Orgs -> Int] /\ spent \in [Orgs -> [day : Nat \cup {None}, micro : Int]]
  BY DEF Init
<1> QED
  BY <1>1, <1>2, <1>3 DEF Init, TypeOK

LEMMA TypeFund ==
  ASSUME TypeOK, NEW o \in Orgs, NEW kind \in Kinds, NEW n \in Credits,
         NEW ref \in Refs \cup {None}, Fund(o, kind, n, ref)
  PROVE  TypeOK'
<1>1. n \in Nat
  BY LedgerAssumption DEF LedgerAssumption
<1>2. block' \in [BlockIds -> BlockRow]
  BY <1>1, NewBlockType DEF Fund, TypeOK
<1>3. balance' \in [Orgs -> Int]
  BY <1>1 DEF Fund, TypeOK
<1> QED
  BY <1>2, <1>3 DEF Fund, TypeOK

(* What a refund takes: within each block, and within the unheld balance. *)
LEMMA RevokeTake ==
  ASSUME TypeOK, NEW o \in Orgs, NEW T \in SUBSET BlockIds, NEW goal \in [T -> Nat]
  PROVE  LET cap == [b \in T |-> OnBlock(b, goal[b])]
             take == Spread(cap, [b \in T |-> b], Unheld(o))
         IN  /\ IsFiniteSet(T)
             /\ take \in [T -> Nat]
             /\ \A b \in T : take[b] <= OnBlock(b, goal[b])
             /\ \A b \in T : take[b] <= block[b].remaining
             /\ Sum(take) \in Nat
             /\ Sum(take) <= Unheld(o)
<1> DEFINE cap == [b \in T |-> OnBlock(b, goal[b])]
           rank == [b \in T |-> b]
           take == Spread(cap, rank, Unheld(o))
<1>1. IsFiniteSet(T)
  BY FiniteRows, FS_Subset
<1>2. \A b \in T : /\ OnBlock(b, goal[b]) \in Nat
                   /\ OnBlock(b, goal[b]) <= block[b].remaining
  BY DEF OnBlock, Owed, Lesser, NonNeg, TypeOK, BlockRow
<1>3. cap \in [T -> Nat]
  BY <1>2
<1>4. /\ rank \in [T -> Int]
      /\ \A x, y \in T : rank[x] = rank[y] => x = y
  BY DEF BlockIds
<1>5. Unheld(o) \in Nat
  BY DEF Unheld, NonNeg, TypeOK
<1>6. \A b \in T : cap[b] = OnBlock(b, goal[b])
  OBVIOUS
<1> HIDE DEF cap, rank
<1>7. take \in [T -> Nat] /\ \A b \in T : take[b] <= cap[b]
  BY <1>1, <1>3, <1>4, <1>5, SpreadType
<1>8. Sum(take) = Lesser(Unheld(o), Sum(cap))
  BY <1>1, <1>3, <1>4, <1>5, SpreadTotal
<1>9. Sum(take) \in Nat /\ Sum(cap) \in Nat
  BY <1>1, <1>3, <1>7, SumType
<1>10. Sum(take) <= Unheld(o)
  BY <1>5, <1>8, <1>9 DEF Lesser
<1>11. \A b \in T : take[b] <= OnBlock(b, goal[b])
  BY <1>6, <1>7
<1>12. \A b \in T : take[b] <= block[b].remaining
  <2> SUFFICES ASSUME NEW b \in T PROVE take[b] <= block[b].remaining
    OBVIOUS
  <2>1. take[b] \in Nat /\ OnBlock(b, goal[b]) \in Nat /\ block[b].remaining \in Nat
    BY <1>2, <1>7 DEF TypeOK, BlockRow
  <2> QED
    BY <1>2, <1>11, <2>1
<1> QED
  BY <1>1, <1>7, <1>9, <1>10, <1>11, <1>12 DEF cap, rank

LEMMA BlockRowUpdate ==
  ASSUME NEW row \in BlockRow, NEW x \in Nat, NEW y \in Nat, NEW z \in Nat
  PROVE  [row EXCEPT !.remaining = x, !.taken = y, !.target = z] \in BlockRow
  BY DEF BlockRow

LEMMA TypeRevoke ==
  ASSUME TypeOK, NEW o \in Orgs, NEW T \in SUBSET BlockIds, NEW asked \in [T -> Targets],
         Revoke(o, asked)
  PROVE  TypeOK'
<1> DEFINE goal == [b \in T |-> Lesser(asked[b], block[b].amount)]
           take == Spread([b \in T |-> OnBlock(b, goal[b])], [b \in T |-> b], Unheld(o))
           target(b) == IF take[b] > 0 \/ goal[b] > block[b].target
                        THEN IF goal[b] > block[b].target THEN goal[b] ELSE block[b].target
                        ELSE block[b].target
<1>1. goal \in [T -> Nat]
  BY LedgerAssumption DEF LedgerAssumption, Lesser, TypeOK, BlockRow
<1>2. DOMAIN asked = T
  OBVIOUS
<1> HIDE DEF goal
<1>3. /\ take \in [T -> Nat]
      /\ \A b \in T : take[b] <= block[b].remaining
      /\ Sum(take) \in Nat
  BY <1>1, RevokeTake
<1>4. /\ block' = [b \in BlockIds |->
           IF b \in T
           THEN [block[b] EXCEPT !.remaining = @ - take[b],
                                 !.taken = @ + take[b], !.target = target(b)]
           ELSE block[b]]
  BY <1>2 DEF Revoke, goal
<1>5. /\ balance' = [balance EXCEPT ![o] = @ - Sum(take)]
      /\ UNCHANGED <<spent, hold, closing, tag, pending, reserving, today>>
  BY <1>2 DEF Revoke, goal
<1> HIDE DEF take
<1>6. block' \in [BlockIds -> BlockRow]
  <2>1. \A b \in T : block[b].remaining - take[b] \in Nat
    BY <1>3 DEF TypeOK, BlockRow
  <2> SUFFICES ASSUME NEW b \in BlockIds PROVE block'[b] \in BlockRow
    BY <1>4
  <2>2. block[b] \in BlockRow
    BY DEF TypeOK
  <2>3. CASE b \notin T
    BY <1>4, <2>2, <2>3
  <2>4. CASE b \in T
    <3>1. goal[b] \in Nat /\ take[b] \in Nat
      BY <1>1, <1>3, <2>4
    <3>2. target(b) \in Nat
      BY <2>2, <3>1 DEF BlockRow
    <3> HIDE DEF target
    <3> DEFINE left == block[b].remaining - take[b]
               gone == block[b].taken + take[b]
    <3>3. left \in Nat /\ gone \in Nat
      BY <2>1, <2>2, <2>4, <3>1 DEF BlockRow
    <3>4. block'[b] = [block[b] EXCEPT !.remaining = left, !.taken = gone, !.target = target(b)]
      BY <1>4, <2>4
    <3> HIDE DEF left, gone
    <3>5. \A x, y, z \in Nat :
            [block[b] EXCEPT !.remaining = x, !.taken = y, !.target = z] \in BlockRow
      BY <2>2, BlockRowUpdate
    <3>6. [block[b] EXCEPT !.remaining = left, !.taken = gone, !.target = target(b)] \in BlockRow
      BY <3>2, <3>3, <3>5
    <3> QED
      BY <3>4, <3>6
  <2> QED
    BY <2>3, <2>4
<1>7. balance' \in [Orgs -> Int]
  BY <1>3, <1>5 DEF TypeOK
<1> QED
  BY <1>5, <1>6, <1>7 DEF TypeOK

LEMMA TypeSettle ==
  ASSUME TypeOK, NEW c \in Calls, NEW a \in Actuals \cup {None}, NEW k, Settle(c, a, k)
  PROVE  TypeOK'
<1> DEFINE o == hold[c].org
           take == Draw(o, Settled(c, a), k)
           n == Sum(take)
<1>1. IsOpen(c) /\ SettleHold(c, n) /\ block' = Drawn(take)
  BY DEF Settle
<1>2. /\ balance' = [balance EXCEPT ![o] = @ + Refund(c, n)]
      /\ pending' = pending \ {c}
      /\ UNCHANGED <<reserving, today>>
  BY DEF Settle
<1>3. o \in Orgs /\ Settled(c, a) \in Nat
  BY <1>1, OpenOrg, SettledType
<1>4. /\ take \in [BlockIds -> Nat]
      /\ \A b \in BlockIds : take[b] <= Remaining(o)[b]
      /\ n \in Nat
  BY <1>3, DrawType
<1> HIDE DEF take, n, o
<1>5. block' \in [BlockIds -> BlockRow]
  BY <1>1, <1>4, DrawnType
<1>6. Refund(c, n) \in Int
  BY <1>4 DEF Refund, TypeOK, HoldRow
<1>7. balance' \in [Orgs -> Int]
  BY <1>2, <1>3, <1>6 DEF TypeOK
<1>8. /\ hold' \in [Calls -> HoldRow]
      /\ spent' \in [Orgs -> [day : Nat \cup {None}, micro : Int]]
      /\ closing' \in [Calls -> EntryRow]
      /\ tag' \in [Calls -> TagRow]
  BY <1>1, <1>4, SettleHoldType
<1> QED
  BY <1>2, <1>5, <1>7, <1>8 DEF TypeOK

LEMMA PaidType ==
  ASSUME TypeOK, NEW c \in Calls, NEW a \in Actuals \cup {None}
  PROVE  (IF a = None THEN hold[c].amount ELSE Lesser(hold[c].amount, a)) \in Nat
  BY LedgerAssumption DEF LedgerAssumption, TypeOK, HoldRow, Lesser

LEMMA TypeSettleTo ==
  ASSUME TypeOK, NEW c \in Calls, NEW payee \in Orgs, NEW a \in Actuals \cup {None}, NEW k,
         SettleTo(c, payee, a, k)
  PROVE  TypeOK'
<1> DEFINE o == hold[c].org
           pay == IF a = None THEN hold[c].amount ELSE Lesser(hold[c].amount, a)
           take == Draw(o, pay, k)
           n == Sum(take)
           refunded == [balance EXCEPT ![o] = @ + Refund(c, n)]
<1>1. IsOpen(c) /\ SettleHold(c, n) /\ UNCHANGED <<pending, reserving, today>>
  BY DEF SettleTo
<1>2. \/ n = 0 /\ block' = Drawn(take) /\ balance' = refunded
      \/ /\ n > 0
         /\ \E b \in BlockIds : block' = [Drawn(take) EXCEPT ![b] = NewBlock(payee, "earned", n, None)]
         /\ balance' = [refunded EXCEPT ![payee] = @ + n]
  BY DEF SettleTo
<1>3. o \in Orgs /\ pay \in Nat
  BY <1>1, OpenOrg, PaidType
<1> HIDE DEF pay
<1>4. /\ take \in [BlockIds -> Nat]
      /\ \A b \in BlockIds : take[b] <= Remaining(o)[b]
      /\ n \in Nat
  BY <1>3, DrawType
<1>5. Drawn(take) \in [BlockIds -> BlockRow]
  BY <1>4, DrawnType
<1>6. "earned" \in Kinds
  BY DEF Kinds
<1>7. NewBlock(payee, "earned", n, None) \in BlockRow
  BY <1>4, <1>6, NewBlockType
<1>8. Refund(c, n) \in Int
  BY <1>4 DEF Refund, TypeOK, HoldRow
<1> HIDE DEF take, n, o
<1>9. block' \in [BlockIds -> BlockRow]
  BY <1>2, <1>5, <1>7
<1>10. refunded \in [Orgs -> Int]
  BY <1>3, <1>8 DEF TypeOK
<1> HIDE DEF refunded
<1>11. balance' \in [Orgs -> Int]
  BY <1>2, <1>4, <1>10
<1>12. /\ hold' \in [Calls -> HoldRow]
       /\ spent' \in [Orgs -> [day : Nat \cup {None}, micro : Int]]
       /\ closing' \in [Calls -> EntryRow]
       /\ tag' \in [Calls -> TagRow]
  BY <1>1, <1>4, SettleHoldType
<1> QED
  BY <1>1, <1>9, <1>11, <1>12 DEF TypeOK

LEMMA TypeRelease ==
  ASSUME TypeOK, NEW c \in Calls, Release(c)
  PROVE  TypeOK'
<1>1. IsOpen(c) /\ ReleaseHold(c) /\ pending' = pending \ {c} /\ UNCHANGED <<reserving, today>>
  BY DEF Release
<1> QED
  BY <1>1, ReleaseHoldType DEF TypeOK

LEMMA TypeReap ==
  ASSUME TypeOK, NEW c \in Calls, NEW h \in Calls, Reap(c, h)
  PROVE  TypeOK'
<1>1. reserving' \in [Calls -> ReserveRow] /\ UNCHANGED <<pending, today>>
  BY SMTT(60) DEF Reap, TypeOK, ReserveRow
<1>2. CASE IsOpen(h) /\ ReleaseHold(h)
  BY <1>1, <1>2, ReleaseHoldType DEF TypeOK
<1>3. CASE UNCHANGED <<block, balance, spent, hold, closing, tag>>
  BY <1>1, <1>3 DEF TypeOK
<1> QED
  BY <1>2, <1>3 DEF Reap

LEMMA TypeReserve ==
  ASSUME TypeOK, NEW c \in Calls
  PROVE  /\ \A o \in Orgs, est \in Estimates : ReserveScan(c, o, est) => TypeOK'
         /\ ReserveDebit(c) => TypeOK'
         /\ ReserveRefuse(c) => TypeOK'
         /\ ReserveAbandon(c) => TypeOK'
<1>1. ASSUME NEW o \in Orgs, NEW est \in Estimates, ReserveScan(c, o, est)
      PROVE  TypeOK'
  <2>1. WithMargin(est, Margin) \in Nat
    BY MarginType, LedgerAssumption DEF LedgerAssumption
  <2>2. [org |-> o, charged |-> WithMargin(est, Margin), todo |-> Reapable(o)] \in ReserveRow
    BY <2>1 DEF ReserveRow, Reapable
  <2> QED
    BY <1>1, <2>2 DEF ReserveScan, TypeOK
<1>2. ASSUME ReserveDebit(c) PROVE TypeOK'
  <2> DEFINE o == reserving[c].org
             n == reserving[c].charged
  <2>1. o \in Orgs /\ n \in Nat
    BY <1>2 DEF ReserveDebit, TypeOK, ReserveRow
  <2>2. [org |-> o, amount |-> n, day |-> today, stale |-> FALSE, known |-> Funded] \in HoldRow
    BY <2>1, FundedType DEF HoldRow, TypeOK
  <2>3. [org |-> o, amount |-> n, settled |-> FALSE, day |-> today] \in TagRow
    BY <2>1 DEF TagRow, TypeOK
  <2>4. AddSpent(spent[o], n) \in [day : Nat \cup {None}, micro : Int]
    BY <2>1, AddSpentType
  <2>5. /\ balance' = [balance EXCEPT ![o] = @ - n]
        /\ spent' = [spent EXCEPT ![o] = AddSpent(@, n)]
        /\ hold' = [hold EXCEPT ![c] = [org |-> o, amount |-> n, day |-> today, stale |-> FALSE,
                                        known |-> Funded]]
        /\ tag' = IF c \in Tagged
                  THEN [tag EXCEPT ![c] = [org |-> o, amount |-> n, settled |-> FALSE, day |-> today]]
                  ELSE tag
        /\ reserving' = [reserving EXCEPT ![c] = NoReserve]
        /\ UNCHANGED <<block, closing, pending, today>>
    BY <1>2 DEF ReserveDebit
  <2> HIDE DEF o, n
  <2>6. hold' \in [Calls -> HoldRow] /\ tag' \in [Calls -> TagRow]
    BY <2>2, <2>3, <2>5 DEF TypeOK
  <2>7. /\ balance' \in [Orgs -> Int]
        /\ spent' \in [Orgs -> [day : Nat \cup {None}, micro : Int]]
    BY <2>1, <2>4, <2>5 DEF TypeOK
  <2>8. reserving' \in [Calls -> ReserveRow]
    BY <2>5, RowTypes DEF TypeOK
  <2> QED
    BY <2>5, <2>6, <2>7, <2>8 DEF TypeOK
<1>3. ASSUME ReserveRefuse(c) \/ ReserveAbandon(c) PROVE TypeOK'
  BY <1>3, RowTypes DEF ReserveRefuse, ReserveAbandon, TypeOK
<1> QED
  BY <1>1, <1>2, <1>3

LEMMA TypeTime ==
  ASSUME TypeOK
  PROVE  /\ Midnight => TypeOK'
         /\ \A c \in Calls : Age(c) => TypeOK'
         /\ \A c \in Calls : Defer(c) \/ ClosedHold(c) => TypeOK'
<1>1. Midnight => TypeOK'
  BY DEF Midnight, TypeOK
<1>2. ASSUME NEW c \in Calls, Age(c) PROVE TypeOK'
  <2>1. [hold[c] EXCEPT !.stale = TRUE] \in HoldRow
    BY DEF TypeOK, HoldRow
  <2> QED
    BY <1>2, <2>1 DEF Age, TypeOK
<1>3. \A c \in Calls : Defer(c) \/ ClosedHold(c) => TypeOK'
  BY DEF Defer, ClosedHold, TypeOK
<1> QED
  BY <1>1, <1>2, <1>3

(* One organization's share of a batch: its settles together draw what its  *)
(* blocks give, and each is charged what was left when its turn came.       *)
LEMMA BatchShare ==
  ASSUME TypeOK, NEW S \in SUBSET Calls, NEW actual \in [S -> Actuals \cup {None}],
         NEW rank \in Orders(S), NEW k, NEW o
  PROVE  /\ BatchDrawn(S, actual, rank, k, o) \in [HoldsOf(S, o) -> Nat]
         /\ Sum(BatchDrawn(S, actual, rank, k, o)) \in Nat
         /\ Draw(o, Sum(BatchDue(S, actual, o)), k) \in [BlockIds -> Nat]
         /\ \A b \in BlockIds :
              Draw(o, Sum(BatchDue(S, actual, o)), k)[b] <= Remaining(o)[b]
         /\ Sum(Draw(o, Sum(BatchDue(S, actual, o)), k)) = Sum(BatchDrawn(S, actual, rank, k, o))
<1> DEFINE M == HoldsOf(S, o)
           due == BatchDue(S, actual, o)
           turn == [x \in M |-> rank[x]]
           drawn == BatchDrawn(S, actual, rank, k, o)
           take == Draw(o, Sum(due), k)
           cap == Sum(Visible(o, k))
<1>1. IsFiniteSet(M)
  BY FiniteRows, FS_Subset DEF HoldsOf
<1>2. due \in [M -> Nat]
  BY SettledType DEF BatchDue, HoldsOf
<1>3. turn \in [M -> Int] /\ \A x, y \in M : turn[x] = turn[y] => x = y
  BY DEF Orders, HoldsOf
<1>4. cap \in Nat
  BY TotalTypes, FiniteRows, SumType
<1>5. Sum(due) \in Nat
  BY <1>1, <1>2, SumType
<1>6. drawn = Spread(due, rank, cap)
  BY DEF BatchDrawn
<1> HIDE DEF M, due, drawn, cap
<1>7. Spread(due, rank, cap) = Spread(due, turn, cap)
  BY <1>2, SpreadRank
<1> HIDE DEF turn
<1>8. Spread(due, turn, cap) \in [M -> Nat]
  BY <1>1, <1>2, <1>3, <1>4, SpreadType
<1>9. Sum(Spread(due, turn, cap)) = Lesser(cap, Sum(due))
  BY <1>1, <1>2, <1>3, <1>4, SpreadTotal
<1>10. drawn \in [M -> Nat] /\ Sum(drawn) = Lesser(cap, Sum(due))
  BY <1>6, <1>7, <1>8, <1>9
<1>11. Sum(drawn) \in Nat
  BY <1>1, <1>10, SumType
<1>12. /\ take \in [BlockIds -> Nat]
       /\ \A b \in BlockIds : take[b] <= Remaining(o)[b]
       /\ Sum(take) = Lesser(Sum(due), cap)
  BY <1>5, DrawType DEF cap
<1>13. Sum(take) = Sum(drawn)
  BY <1>4, <1>5, <1>10, <1>12 DEF Lesser
<1> QED
  BY <1>10, <1>11, <1>12, <1>13 DEF M, due, drawn

LEMMA FreedType ==
  ASSUME TypeOK, NEW C \in SUBSET Calls, NEW o
  PROVE  Freed(C, o) \in Nat /\ Uncounted(C, o) \in Nat
<1>1. IsFiniteSet(C)
  BY FiniteRows, FS_Subset
<1>2. [c \in C |-> IF hold[c].org = o THEN hold[c].amount ELSE 0] \in [C -> Nat]
  BY DEF TypeOK, HoldRow
<1>3. [c \in C |-> IF hold[c].org = o THEN CountedToday(c) ELSE 0] \in [C -> Nat]
  BY CountedType
<1> QED
  BY <1>1, <1>2, <1>3, SumType DEF Freed, Uncounted

LEMMA TypeCloseBatch ==
  ASSUME TypeOK, NEW S \in SUBSET Calls, NEW R \in SUBSET Calls,
         NEW actual \in [S -> Actuals \cup {None}], NEW rank \in Orders(S), NEW k,
         CloseBatch(S, R, actual, rank, k)
  PROVE  TypeOK'
<1> DEFINE drawn(o) == BatchDrawn(S, actual, rank, k, o)
           n(c) == drawn(hold[c].org)[c]
           take(o) == Draw(o, Sum(BatchDue(S, actual, o)), k)
<1>1. \A o : /\ drawn(o) \in [HoldsOf(S, o) -> Nat]
             /\ Sum(drawn(o)) \in Nat
             /\ take(o) \in [BlockIds -> Nat]
             /\ \A b \in BlockIds : take(o)[b] <= Remaining(o)[b]
  <2> TAKE o
  <2> QED
    BY BatchShare
<1>2. \A c \in S : n(c) \in Nat
  BY <1>1 DEF HoldsOf
<1>3. \A c \in S \cup R : IsOpen(c)
  BY DEF CloseBatch
<1>4. hold' = [c \in Calls |-> IF c \in S \cup R THEN NoHold ELSE hold[c]]
  BY DEF CloseBatch
<1>5. block' = [b \in BlockIds |->
           IF IsBlock(b) THEN [block[b] EXCEPT !.remaining = @ - take(block[b].org)[b]]
           ELSE block[b]]
  BY DEF CloseBatch, TypeOK, BlockRow, IsBlock
<1>6. balance' = [o \in Orgs |-> balance[o] + Freed(S \cup R, o) - Sum(drawn(o))]
  BY DEF CloseBatch
<1>7. \A o \in Orgs : spent'[o] \in {spent[o], AddSpent(spent[o], Sum(drawn(o)) - Uncounted(S \cup R, o))}
  BY DEF CloseBatch
<1>8. /\ closing' = [c \in Calls |->
           IF c \in S THEN SettleEntry(c, n(c))
           ELSE IF c \in R THEN ReleaseEntry(c) ELSE closing[c]]
      /\ tag' = [c \in Calls |->
           IF c \in S THEN TagSettled(tag[c], n(c))
           ELSE IF c \in R THEN NoTag ELSE tag[c]]
      /\ UNCHANGED <<pending, reserving, today>>
  BY DEF CloseBatch
<1>9. spent' = [o \in Orgs |-> spent'[o]]
  BY DEF CloseBatch
<1> HIDE DEF drawn, take
<1>10. block' \in [BlockIds -> BlockRow]
  <2> SUFFICES ASSUME NEW b \in BlockIds, IsBlock(b)
               PROVE  [block[b] EXCEPT !.remaining = @ - take(block[b].org)[b]] \in BlockRow
    BY <1>5 DEF TypeOK
  <2>1. block[b] \in BlockRow /\ take(block[b].org)[b] \in Nat
    BY <1>1 DEF TypeOK
  <2>2. take(block[b].org)[b] <= Remaining(block[b].org)[b]
    BY <1>1
  <2>3. Remaining(block[b].org)[b] = block[b].remaining
    BY DEF Remaining
  <2>4. block[b].remaining - take(block[b].org)[b] \in Nat
    BY <2>1, <2>2, <2>3 DEF BlockRow
  <2> QED
    BY <2>1, <2>4 DEF BlockRow
<1>11. \A o \in Orgs : Freed(S \cup R, o) \in Nat /\ Uncounted(S \cup R, o) \in Nat
  BY FreedType
<1>12. ASSUME NEW o \in Orgs
       PROVE  balance'[o] \in Int /\ Sum(drawn(o)) - Uncounted(S \cup R, o) \in Int
  <2>1. Sum(drawn(o)) \in Nat /\ Freed(S \cup R, o) \in Nat /\ Uncounted(S \cup R, o) \in Nat
    BY <1>1, <1>11
  <2>2. balance[o] \in Int
    BY DEF TypeOK
  <2>3. balance'[o] = balance[o] + Freed(S \cup R, o) - Sum(drawn(o))
    BY <1>6
  <2> QED
    BY <2>1, <2>2, <2>3
<1>13. balance' \in [Orgs -> Int]
  BY <1>6, <1>12
<1>14. ASSUME NEW o \in Orgs
       PROVE  spent'[o] \in [day : Nat \cup {None}, micro : Int]
  <2>1. AddSpent(spent[o], Sum(drawn(o)) - Uncounted(S \cup R, o))
          \in [day : Nat \cup {None}, micro : Int]
    BY <1>12, AddSpentType
  <2> QED
    BY <1>7, <2>1 DEF TypeOK
<1>15. hold' \in [Calls -> HoldRow]
  BY <1>4, RowTypes DEF TypeOK
<1>16. closing' \in [Calls -> EntryRow]
  <2>1. \A c \in S : SettleEntry(c, n(c)) \in EntryRow
    BY <1>2, <1>3, OpenOrg DEF SettleEntry, EntryRow, TypeOK
  <2>2. \A c \in R : ReleaseEntry(c) \in EntryRow
    BY <1>3, OpenOrg DEF ReleaseEntry, EntryRow, TypeOK
  <2> QED
    BY <1>8, <2>1, <2>2 DEF TypeOK
<1>17. tag' \in [Calls -> TagRow]
  <2>1. \A c \in S : TagSettled(tag[c], n(c)) \in TagRow
    BY <1>2 DEF TagSettled, TypeOK, TagRow
  <2> QED
    BY <1>8, <2>1, RowTypes DEF TypeOK
<1> QED
  BY <1>8, <1>9, <1>10, <1>13, <1>14, <1>15, <1>16, <1>17 DEF TypeOK

LEMMA TypeStep == TypeOK /\ [Next]_vars => TypeOK'
<1> SUFFICES ASSUME TypeOK, [Next]_vars PROVE TypeOK'
  OBVIOUS
<1>1. ASSUME NEW o \in Orgs, NEW kind \in GrantKinds, NEW n \in Credits, Grant(o, kind, n)
      PROVE  TypeOK'
  BY <1>1, TypeFund DEF Grant, GrantKinds, Kinds
<1>2. ASSUME NEW o \in Orgs, NEW n \in Credits, NEW ref \in Refs, Topup(o, n, ref)
      PROVE  TypeOK'
  BY <1>2, TypeFund DEF Topup, Kinds
<1>3. ASSUME NEW o \in Orgs, NEW T \in SUBSET Refundable(o), NEW asked \in [T -> Targets],
             Revoke(o, asked)
      PROVE  TypeOK'
  BY <1>3, TypeRevoke DEF Refundable
<1>4. ASSUME NEW C \in Batches, NEW S \in SUBSET C, NEW actual \in [S -> Actuals \cup {None}],
             NEW rank \in Orders(S), NEW k, CloseBatch(S, C \ S, actual, rank, k)
      PROVE  TypeOK'
  BY <1>4, TypeCloseBatch DEF Batches
<1>5. CASE UNCHANGED vars
  BY <1>5 DEF vars, TypeOK
<1> QED
  BY <1>1, <1>2, <1>3, <1>4, <1>5, TypeReserve, TypeReap, TypeSettle, TypeSettleTo, TypeRelease,
     TypeTime
  DEF Next

(* Every row stays within its type: no block, hold, tag or journal amount   *)
(* is ever negative, whatever the interleaving of money operations.         *)
THEOREM TypeCorrect == Spec => []TypeOK
  BY TypeInit, TypeStep, PTL DEF Spec

-----------------------------------------------------------------------------
(* The life of a hold *)

(***************************************************************************)
(* A call is reserved, open and closed in that order, each at most once.   *)
(* A hold on the list of a sweep is open and stale, or has been closed     *)
(* since; it is not opened again.                                          *)
(***************************************************************************)
ReservesOnce == \A c \in Calls : reserving[c].org # None => ~IsOpen(c) /\ closing[c].kind = "none"
ClosesOnce == \A c \in Calls : IsOpen(c) => closing[c].kind = "none"
SweepLists ==
  \A c, h \in Calls : h \in reserving[c].todo =>
    \/ IsOpen(h) /\ hold[h].stale
    \/ ~IsOpen(h) /\ closing[h].kind # "none"

HoldLife == ReservesOnce /\ ClosesOnce /\ SweepLists

LEMMA LifeInit == Init => HoldLife
  BY DEF Init, HoldLife, ReservesOnce, ClosesOnce, SweepLists,
         NoHold, NoEntry, NoReserve, IsOpen

(* Whatever closes the holds of C, by settling or releasing them. *)
LEMMA LifeClose ==
  ASSUME TypeOK, HoldLife, NEW C \in SUBSET Calls,
         \A c \in C : IsOpen(c),
         \A c \in Calls : hold'[c] = IF c \in C THEN NoHold ELSE hold[c],
         \A c \in C : closing'[c].kind # "none",
         \A c \in Calls \ C : closing'[c] = closing[c],
         \A c \in Calls : /\ reserving'[c].org = reserving[c].org
                          /\ reserving'[c].todo \subseteq reserving[c].todo
  PROVE  HoldLife'
<1>1. \A c \in Calls : IsOpen(c)' <=> IsOpen(c) /\ c \notin C
  BY DEF IsOpen, NoHold
<1>2. ReservesOnce'
  BY <1>1 DEF HoldLife, ReservesOnce
<1>3. ClosesOnce'
  BY <1>1 DEF HoldLife, ClosesOnce
<1>4. SweepLists'
  <2> SUFFICES ASSUME NEW c \in Calls, NEW h \in Calls, h \in reserving'[c].todo
               PROVE  \/ IsOpen(h)' /\ hold'[h].stale
                      \/ ~IsOpen(h)' /\ closing'[h].kind # "none"
    BY DEF SweepLists
  <2>1. \/ IsOpen(h) /\ hold[h].stale
        \/ ~IsOpen(h) /\ closing[h].kind # "none"
    BY DEF HoldLife, SweepLists
  <2>2. CASE h \in C
    BY <1>1, <2>2
  <2>3. CASE h \notin C
    BY <1>1, <2>1, <2>3
  <2> QED
    BY <2>2, <2>3
<1> QED
  BY <1>2, <1>3, <1>4 DEF HoldLife

LEMMA LifeReserve ==
  ASSUME TypeOK, HoldLife, NEW c \in Calls
  PROVE  /\ \A o \in Orgs, est \in Estimates : ReserveScan(c, o, est) => HoldLife'
         /\ ReserveDebit(c) => HoldLife'
         /\ ReserveRefuse(c) \/ ReserveAbandon(c) => HoldLife'
<1>1. ASSUME NEW o \in Orgs, NEW est \in Estimates, ReserveScan(c, o, est)
      PROVE  HoldLife'
  <2>1. /\ Fresh(c)
        /\ \A x \in Calls : reserving'[x] = IF x = c
             THEN [org |-> o, charged |-> WithMargin(est, Margin), todo |-> Reapable(o)]
             ELSE reserving[x]
        /\ UNCHANGED <<hold, closing>>
    BY <1>1 DEF ReserveScan, TypeOK
  <2>2. ReservesOnce'
    BY <2>1 DEF Fresh, HoldLife, ReservesOnce, IsOpen
  <2>3. \A h \in Reapable(o) : IsOpen(h) /\ hold[h].stale
    BY LedgerAssumption DEF Reapable, IsOpen, LedgerAssumption
  <2>4. SweepLists'
    BY <2>1, <2>3 DEF HoldLife, SweepLists, IsOpen
  <2> QED
    BY <2>1, <2>2, <2>4 DEF HoldLife, ClosesOnce, IsOpen
<1>2. ASSUME ReserveDebit(c) PROVE HoldLife'
  <2>1. /\ reserving[c].org # None
        /\ \A x \in Calls : x # c => hold'[x] = hold[x] /\ reserving'[x] = reserving[x]
        /\ reserving'[c] = NoReserve
        /\ UNCHANGED closing
    BY <1>2 DEF ReserveDebit, TypeOK
  <2>2. ~IsOpen(c) /\ closing[c].kind = "none"
    BY <2>1 DEF HoldLife, ReservesOnce
  <2>3. ReservesOnce'
    BY <2>1 DEF HoldLife, ReservesOnce, IsOpen, NoReserve
  <2>4. ClosesOnce'
    BY <2>1, <2>2 DEF HoldLife, ClosesOnce, IsOpen
  <2>5. SweepLists'
    BY <2>1, <2>2 DEF HoldLife, SweepLists, IsOpen, NoReserve
  <2> QED
    BY <2>3, <2>4, <2>5 DEF HoldLife
<1>3. ASSUME ReserveRefuse(c) \/ ReserveAbandon(c) PROVE HoldLife'
  <2>1. /\ \A x \in Calls : reserving'[x] = IF x = c THEN NoReserve ELSE reserving[x]
        /\ UNCHANGED <<hold, closing>>
    BY <1>3 DEF ReserveRefuse, ReserveAbandon, TypeOK
  <2> QED
    BY <2>1 DEF HoldLife, ReservesOnce, ClosesOnce, SweepLists, IsOpen, NoReserve
<1> QED
  BY <1>1, <1>2, <1>3

LEMMA LifeAge ==
  ASSUME TypeOK, HoldLife, NEW c \in Calls, Age(c)
  PROVE  HoldLife'
<1>1. /\ \A x \in Calls : hold'[x].org = hold[x].org /\ (hold[x].stale => hold'[x].stale)
      /\ UNCHANGED <<closing, reserving>>
  BY DEF Age, TypeOK, HoldRow
<1>2. \A x \in Calls : IsOpen(x)' <=> IsOpen(x)
  BY <1>1 DEF IsOpen
<1> QED
  BY <1>1, <1>2 DEF HoldLife, ReservesOnce, ClosesOnce, SweepLists, TypeOK

LEMMA LifeStep == TypeOK /\ HoldLife /\ [Next]_vars => HoldLife'
<1> SUFFICES ASSUME TypeOK, HoldLife, [Next]_vars PROVE HoldLife'
  OBVIOUS
<1>1. CASE UNCHANGED <<hold, closing, reserving>>
  BY <1>1 DEF HoldLife, ReservesOnce, ClosesOnce, SweepLists, IsOpen
<1>2. ASSUME NEW c \in Calls, NEW n, SettleHold(c, n), IsOpen(c), UNCHANGED reserving
      PROVE  HoldLife'
  <2>1. \A x \in Calls : hold'[x] = IF x \in {c} THEN NoHold ELSE hold[x]
    BY <1>2 DEF SettleHold, TypeOK
  <2>2. \A x \in {c} : closing'[x].kind # "none"
    BY <1>2 DEF SettleHold, SettleEntry, TypeOK
  <2>3. \A x \in Calls \ {c} : closing'[x] = closing[x]
    BY <1>2 DEF SettleHold, TypeOK
  <2> QED
    BY <1>2, <2>1, <2>2, <2>3, LifeClose
<1>3. ASSUME NEW c \in Calls, ReleaseHold(c), IsOpen(c),
             \A x \in Calls : /\ reserving'[x].org = reserving[x].org
                              /\ reserving'[x].todo \subseteq reserving[x].todo
      PROVE  HoldLife'
  <2>1. \A x \in Calls : hold'[x] = IF x \in {c} THEN NoHold ELSE hold[x]
    BY <1>3 DEF ReleaseHold, TypeOK
  <2>2. \A x \in {c} : closing'[x].kind # "none"
    BY <1>3 DEF ReleaseHold, ReleaseEntry, TypeOK
  <2>3. \A x \in Calls \ {c} : closing'[x] = closing[x]
    BY <1>3 DEF ReleaseHold, TypeOK
  <2> QED
    BY <1>3, <2>1, <2>2, <2>3, LifeClose
<1>4. ASSUME NEW c \in Calls, NEW a, NEW k, Settle(c, a, k)
      PROVE  HoldLife'
  BY <1>2, <1>4 DEF Settle
<1>5. ASSUME NEW c \in Calls, NEW payee, NEW a, NEW k, SettleTo(c, payee, a, k)
      PROVE  HoldLife'
  BY <1>2, <1>5 DEF SettleTo
<1>6. ASSUME NEW c \in Calls, Release(c)
      PROVE  HoldLife'
  BY <1>3, <1>6 DEF Release
<1>7. ASSUME NEW c \in Calls, NEW h \in Calls, Reap(c, h)
      PROVE  HoldLife'
  <2>1. /\ h \in reserving[c].todo
        /\ \A x \in Calls : /\ reserving'[x].org = reserving[x].org
                            /\ reserving'[x].todo \subseteq reserving[x].todo
    BY <1>7 DEF Reap, TypeOK, ReserveRow
  <2>2. CASE IsOpen(h) /\ ReleaseHold(h)
    BY <1>3, <2>1, <2>2
  <2>3. CASE UNCHANGED <<hold, closing>>
    BY <2>1, <2>3 DEF HoldLife, ReservesOnce, ClosesOnce, SweepLists, IsOpen
  <2> QED
    BY <1>7, <2>2, <2>3 DEF Reap
<1>8. ASSUME NEW C \in Batches, NEW S \in SUBSET C, NEW actual, NEW rank, NEW k,
             CloseBatch(S, C \ S, actual, rank, k)
      PROVE  HoldLife'
  <2>1. S \cup (C \ S) = C /\ C \in SUBSET Calls
    BY DEF Batches
  <2>2. /\ \A c \in C : IsOpen(c)
        /\ \A c \in Calls : hold'[c] = IF c \in C THEN NoHold ELSE hold[c]
        /\ UNCHANGED reserving
    BY <1>8, <2>1 DEF CloseBatch
  <2>3. \A c \in C : closing'[c].kind # "none"
    BY <1>8, <2>1 DEF CloseBatch, SettleEntry, ReleaseEntry
  <2>4. \A c \in Calls \ C : closing'[c] = closing[c]
    BY <1>8 DEF CloseBatch
  <2> QED
    BY <2>1, <2>2, <2>3, <2>4, LifeClose
<1>9. ASSUME NEW o \in Orgs, NEW kind, NEW n, NEW ref, Fund(o, kind, n, ref)
      PROVE  HoldLife'
  BY <1>1, <1>9 DEF Fund
<1>10. ASSUME NEW o \in Orgs, NEW asked, Revoke(o, asked)
       PROVE  HoldLife'
  BY <1>1, <1>10 DEF Revoke
<1>11. Midnight \/ UNCHANGED vars \/ (\E c \in Calls : Defer(c) \/ ClosedHold(c)) => HoldLife'
  BY <1>1 DEF Midnight, Defer, ClosedHold, vars
<1> QED
  BY <1>4, <1>5, <1>6, <1>7, <1>8, <1>9, <1>10, <1>11, LifeReserve, LifeAge
  DEF Next, Grant, Topup

(* No sweep lists the hold of a pending task, and a hold that is closed     *)
(* stays as it was closed: a sweep that listed it before the task was       *)
(* deferred, its cancelled request and the task's end compete for it, and   *)
(* only the first of them moves money.                                      *)
THEOREM TasksSpared == Spec => SweepSparesTasks
<1> DEFINE Spared == \A c \in Calls :
             /\ c \in pending => Listing(c)' \subseteq Listing(c)
             /\ closing[c].kind # "none" => ~IsOpen(c)' /\ closing'[c] = closing[c]
<1>1. Init => TypeOK /\ HoldLife
  BY TypeInit, LifeInit
<1>2. TypeOK /\ HoldLife /\ [Next]_vars => (TypeOK /\ HoldLife)'
  BY TypeStep, LifeStep
<1>3. TypeOK /\ HoldLife /\ Next => Spared
  <2> SUFFICES ASSUME TypeOK, HoldLife, Next, NEW x \in Calls
               PROVE  /\ x \in pending => \A r \in Calls : x \in reserving'[r].todo => x \in reserving[r].todo
                      /\ closing[x].kind # "none" => ~IsOpen(x)' /\ closing'[x] = closing[x]
    BY DEF Listing
  <2>1. closing[x].kind # "none" => ~IsOpen(x)
    BY DEF HoldLife, ClosesOnce
  <2>2. ASSUME x \in pending, NEW r \in Calls, x \in reserving'[r].todo
        PROVE  x \in reserving[r].todo
    <3>1. ASSUME NEW c \in Calls, NEW o \in Orgs, NEW est \in Estimates, ReserveScan(c, o, est)
          PROVE  x \in reserving[r].todo
      <4>1. x \notin Reapable(o)
        BY <2>2 DEF Reapable
      <4>2. QED
        BY <2>2, <3>1, <4>1 DEF ReserveScan, TypeOK
    <3>2. ASSUME NEW c \in Calls, ReserveDebit(c) \/ ReserveRefuse(c) \/ ReserveAbandon(c)
          PROVE  x \in reserving[r].todo
      BY <2>2, <3>2 DEF ReserveDebit, ReserveRefuse, ReserveAbandon, NoReserve, TypeOK
    <3>3. ASSUME NEW c \in Calls, NEW h \in Calls, Reap(c, h)
          PROVE  x \in reserving[r].todo
      BY <2>2, <3>3 DEF Reap, TypeOK, ReserveRow
    <3>4. UNCHANGED reserving => x \in reserving[r].todo
      BY <2>2
    <3>5. /\ \A o, kind, n, ref : Fund(o, kind, n, ref) => UNCHANGED reserving
          /\ \A o, asked : Revoke(o, asked) => UNCHANGED reserving
      BY DEF Fund, Revoke
    <3>6. /\ \A c, a, k : Settle(c, a, k) => UNCHANGED reserving
          /\ \A c, payee, a, k : SettleTo(c, payee, a, k) => UNCHANGED reserving
          /\ \A S, R, actual, rank, k : CloseBatch(S, R, actual, rank, k) => UNCHANGED reserving
      BY DEF Settle, SettleTo, CloseBatch
    <3>7. /\ \A c : Release(c) \/ Age(c) \/ Defer(c) \/ ClosedHold(c) => UNCHANGED reserving
          /\ Midnight => UNCHANGED reserving
      BY DEF Release, Age, Defer, ClosedHold, Midnight
    <3>8. QED
      BY <3>1, <3>2, <3>3, <3>4, <3>5, <3>6, <3>7, Zenon DEF Next, Grant, Topup
  <2>3. ASSUME closing[x].kind # "none"
        PROVE  ~IsOpen(x)' /\ closing'[x] = closing[x]
    <3>1. ASSUME NEW c \in Calls, IsOpen(c), hold' = [hold EXCEPT ![c] = NoHold], NEW e,
                 closing' = [closing EXCEPT ![c] = e]
          PROVE  ~IsOpen(x)' /\ closing'[x] = closing[x]
      BY <2>1, <2>3, <3>1 DEF IsOpen, TypeOK
    <3>2. ASSUME NEW c \in Calls, ReserveDebit(c)
          PROVE  ~IsOpen(x)' /\ closing'[x] = closing[x]
      BY <2>1, <2>3, <3>2 DEF ReserveDebit, HoldLife, ReservesOnce, IsOpen, TypeOK
    <3>3. ASSUME NEW c \in Calls, Age(c)
          PROVE  ~IsOpen(x)' /\ closing'[x] = closing[x]
      BY <2>1, <2>3, <3>3 DEF Age, IsOpen, TypeOK
    <3>4. ASSUME NEW C \in Batches, NEW S \in SUBSET C, NEW actual, NEW rank, NEW k,
                 CloseBatch(S, C \ S, actual, rank, k)
          PROVE  ~IsOpen(x)' /\ closing'[x] = closing[x]
      <4>1. x \notin S \cup (C \ S)
        BY <2>1, <2>3, <3>4 DEF CloseBatch
      <4>2. hold'[x] = hold[x] /\ closing'[x] = closing[x]
        BY <3>4, <4>1 DEF CloseBatch
      <4>3. QED
        BY <2>1, <2>3, <4>2 DEF IsOpen
    <3>5. ASSUME NEW c \in Calls
          PROVE  /\ \A a, k : Settle(c, a, k) => (~IsOpen(x)' /\ closing'[x] = closing[x])
                 /\ \A payee, a, k : SettleTo(c, payee, a, k) => (~IsOpen(x)' /\ closing'[x] = closing[x])
                 /\ Release(c) => (~IsOpen(x)' /\ closing'[x] = closing[x])
                 /\ \A h \in Calls : Reap(h, c) => (~IsOpen(x)' /\ closing'[x] = closing[x])
      <4>1. ASSUME IsOpen(c), NEW n, SettleHold(c, n) PROVE ~IsOpen(x)' /\ closing'[x] = closing[x]
        BY <3>1, <4>1 DEF SettleHold
      <4>2. ASSUME IsOpen(c), ReleaseHold(c) PROVE ~IsOpen(x)' /\ closing'[x] = closing[x]
        BY <3>1, <4>2 DEF ReleaseHold
      <4>3. UNCHANGED <<hold, closing>> => (~IsOpen(x)' /\ closing'[x] = closing[x])
        BY <2>1, <2>3 DEF IsOpen
      <4>4. QED
        BY <4>1, <4>2, <4>3 DEF Settle, SettleTo, Release, Reap
    <3>6. UNCHANGED <<hold, closing>> => ~IsOpen(x)' /\ closing'[x] = closing[x]
      BY <2>1, <2>3 DEF IsOpen
    <3>7. /\ \A o, kind, n, ref : Fund(o, kind, n, ref) => UNCHANGED <<hold, closing>>
          /\ \A o, asked : Revoke(o, asked) => UNCHANGED <<hold, closing>>
          /\ \A c, o, est : ReserveScan(c, o, est) => UNCHANGED <<hold, closing>>
          /\ \A c : ReserveRefuse(c) \/ ReserveAbandon(c) => UNCHANGED <<hold, closing>>
          /\ \A c : Defer(c) \/ ClosedHold(c) => UNCHANGED <<hold, closing>>
          /\ Midnight => UNCHANGED <<hold, closing>>
      BY DEF Fund, Revoke, ReserveScan, ReserveRefuse, ReserveAbandon, Defer, ClosedHold, Midnight
    <3>8. QED
      BY <3>2, <3>3, <3>4, <3>5, <3>6, <3>7, Zenon DEF Next, Grant, Topup
  <2>4. QED
    BY <2>2, <2>3
<1>4. TypeOK /\ HoldLife /\ [Next]_vars => [Spared]_vars
  BY <1>3
<1> QED
  BY <1>1, <1>2, <1>4, PTL DEF Spec, SweepSparesTasks

-----------------------------------------------------------------------------
(* How a step moves the totals *)

BlockTable == [BlockIds -> BlockRow]
HoldTable == [Calls -> HoldRow]
RemainingOf(table, o) == [b \in BlockIds |-> IF table[b].org = o THEN table[b].remaining ELSE 0]
WithheldOf(table, o) == [c \in Calls |-> IF table[c].org = o THEN table[c].amount ELSE 0]

LEMMA RemainingType ==
  ASSUME NEW t \in BlockTable, NEW o
  PROVE  RemainingOf(t, o) \in [BlockIds -> Nat] /\ Sum(RemainingOf(t, o)) \in Nat
<1>1. RemainingOf(t, o) \in [BlockIds -> Nat]
  BY DEF RemainingOf, BlockTable, BlockRow
<1> QED
  BY <1>1, FiniteRows, SumType

LEMMA WithheldType ==
  ASSUME NEW t \in HoldTable, NEW o
  PROVE  WithheldOf(t, o) \in [Calls -> Nat] /\ Sum(WithheldOf(t, o)) \in Nat
<1>1. WithheldOf(t, o) \in [Calls -> Nat]
  BY DEF WithheldOf, HoldTable, HoldRow
<1> QED
  BY <1>1, FiniteRows, SumType

(* Taking take[b] from the blocks of o lowers its credit by the total. *)
LEMMA CreditDraw ==
  ASSUME NEW t \in BlockTable, NEW u \in BlockTable, NEW o, NEW take \in [BlockIds -> Nat],
         \A b \in BlockIds : take[b] <= RemainingOf(t, o)[b],
         \A b \in BlockIds : /\ u[b].org = t[b].org
                             /\ t[b].org = o => u[b].remaining = t[b].remaining - take[b]
  PROVE  Sum(RemainingOf(u, o)) = Sum(RemainingOf(t, o)) - Sum(take)
<1>1. RemainingOf(t, o) \in [BlockIds -> Nat] /\ RemainingOf(u, o) \in [BlockIds -> Nat]
  BY RemainingType
<1>2. Sum(RemainingOf(u, o)) \in Nat /\ Sum(take) \in Nat
  BY <1>1, FiniteRows, SumType
<1>3. ASSUME NEW b \in BlockIds
      PROVE  RemainingOf(t, o)[b] = RemainingOf(u, o)[b] + take[b]
  <2>1. t[b].remaining \in Nat /\ u[b].remaining \in Nat /\ take[b] \in Nat
    BY DEF BlockTable, BlockRow
  <2>2. take[b] <= RemainingOf(t, o)[b]
    OBVIOUS
  <2>3. CASE t[b].org = o
    BY <2>1, <2>3 DEF RemainingOf
  <2>4. CASE t[b].org # o
    BY <2>1, <2>2, <2>4 DEF RemainingOf
  <2> QED
    BY <2>3, <2>4
<1>4. Sum(RemainingOf(t, o)) = Sum(RemainingOf(u, o)) + Sum(take)
  BY <1>1, <1>3, FiniteRows, SumAdd
<1> QED
  BY <1>2, <1>4

(* Rows that stay as they were leave the total as it was. *)
LEMMA CreditSame ==
  ASSUME NEW t \in BlockTable, NEW u \in BlockTable, NEW o,
         \A b \in BlockIds : \/ u[b].org = t[b].org /\ u[b].remaining = t[b].remaining
                             \/ u[b].org # o /\ t[b].org # o
  PROVE  Sum(RemainingOf(u, o)) = Sum(RemainingOf(t, o))
<1>1. RemainingOf(u, o) = RemainingOf(t, o)
  BY DEF RemainingOf
<1> QED
  BY <1>1

LEMMA CreditFund ==
  ASSUME NEW t \in BlockTable, NEW u \in BlockTable, NEW o \in Orgs, NEW n \in Nat,
         NEW b \in BlockIds, t[b].org = None, u[b].org = o, u[b].remaining = n,
         \A x \in BlockIds \ {b} : u[x] = t[x]
  PROVE  /\ Sum(RemainingOf(u, o)) = Sum(RemainingOf(t, o)) + n
         /\ \A p \in Orgs \ {o} : Sum(RemainingOf(u, p)) = Sum(RemainingOf(t, p))
<1>1. o # None
  BY LedgerAssumption DEF LedgerAssumption
<1>4. RemainingOf(t, o) \in [BlockIds -> Nat] /\ RemainingOf(u, o) \in [BlockIds -> Nat]
  BY RemainingType
<1>5. \A x \in BlockIds \ {b} : RemainingOf(u, o)[x] = RemainingOf(t, o)[x]
  BY DEF RemainingOf
<1>6. RemainingOf(u, o)[b] = n /\ RemainingOf(t, o)[b] = 0
  BY <1>1 DEF RemainingOf
<1>7. Sum(RemainingOf(u, o)) = Sum(RemainingOf(t, o)) - RemainingOf(t, o)[b] + RemainingOf(u, o)[b]
  <2> DEFINE f == RemainingOf(t, o)
             g == RemainingOf(u, o)
  <2>1. f \in [BlockIds -> Nat] /\ g \in [BlockIds -> Nat]
    BY <1>4
  <2>2. \A x \in BlockIds \ {b} : g[x] = f[x]
    BY <1>5
  <2> HIDE DEF f, g
  <2>3. Sum(g) = Sum(f) - f[b] + g[b]
    BY <2>1, <2>2, FiniteRows, SumUpdate
  <2> QED
    BY <2>3 DEF f, g
<1>8. Sum(RemainingOf(t, o)) \in Nat
  BY RemainingType
<1>9. Sum(RemainingOf(u, o)) = Sum(RemainingOf(t, o)) + n
  BY <1>6, <1>7, <1>8
<1>10. ASSUME NEW p \in Orgs \ {o}
       PROVE  Sum(RemainingOf(u, p)) = Sum(RemainingOf(t, p))
  <2>1. u[b].org = o /\ p # o /\ p # None
    BY LedgerAssumption DEF LedgerAssumption
  <2>2. \A x \in BlockIds : \/ u[x].org = t[x].org /\ u[x].remaining = t[x].remaining
                            \/ u[x].org # p /\ t[x].org # p
    BY <2>1
  <2> QED
    BY <2>2, CreditSame
<1> QED
  BY <1>9, <1>10

(* One hold changes: its part of its organization's total changes with it. *)
LEMMA HeldUpdate ==
  ASSUME NEW t \in HoldTable, NEW u \in HoldTable, NEW o, NEW c \in Calls,
         \A x \in Calls \ {c} : u[x].org = t[x].org /\ u[x].amount = t[x].amount
  PROVE  /\ Sum(WithheldOf(u, o)) = Sum(WithheldOf(t, o)) - WithheldOf(t, o)[c] + WithheldOf(u, o)[c]
         /\ Sum(WithheldOf(t, o)) \in Nat
<1>1. /\ WithheldOf(t, o) \in [Calls -> Nat] /\ WithheldOf(u, o) \in [Calls -> Nat]
      /\ Sum(WithheldOf(t, o)) \in Nat
  BY WithheldType
<1>2. \A x \in Calls \ {c} : WithheldOf(u, o)[x] = WithheldOf(t, o)[x]
  BY DEF WithheldOf
<1> QED
  BY <1>1, <1>2, FiniteRows, SumUpdate

-----------------------------------------------------------------------------
(* The balance equation *)

LEMMA Tables ==
  ASSUME TypeOK
  PROVE  /\ block \in BlockTable /\ hold \in HoldTable
         /\ \A o \in Orgs : balance[o] \in Int
         /\ \A o : Sum(RemainingOf(block, o)) \in Nat /\ Sum(WithheldOf(hold, o)) \in Nat
<1>1. block \in BlockTable /\ hold \in HoldTable
  BY DEF TypeOK, BlockTable, HoldTable
<1> QED
  BY <1>1, RemainingType, WithheldType DEF TypeOK

(* BalanceEquation in terms of the two tables, before and after a step. *)
LEMMA BalanceForms ==
  /\ BalanceEquation <=> \A o \in Orgs :
       balance[o] = Sum(RemainingOf(block, o)) - Sum(WithheldOf(hold, o))
  /\ BalanceEquation' <=> \A o \in Orgs :
       balance'[o] = Sum(RemainingOf(block', o)) - Sum(WithheldOf(hold', o))
  BY DEF BalanceEquation, Credit, Remaining, RemainingOf, Held, Withheld, WithheldOf

-----------------------------------------------------------------------------
(* The shapes of a step *)

(***************************************************************************)
(* Every way money leaves a hold has one shape: the holds of S are settled *)
(* at n, those of R released, and take is drawn from the blocks.  Settle,  *)
(* SettleTo, Release, the releases of a sweep and CloseBatch differ only   *)
(* in these four; a payment to a seller also adds a block.                 *)
(***************************************************************************)
ChargedTo(S, n, o) == [c \in Calls |-> IF c \in S /\ hold[c].org = o THEN n[c] ELSE 0]
FreedOf(C, o) == [c \in Calls |-> IF c \in C /\ hold[c].org = o THEN hold[c].amount ELSE 0]
UncountedOf(C, o) == [c \in Calls |-> IF c \in C /\ hold[c].org = o THEN CountedToday(c) ELSE 0]
TakenFrom(take, o) == [b \in BlockIds |-> IF block[b].org = o THEN take[b] ELSE 0]

RowsClosed(S, R, n) ==
  /\ \A c \in S \cup R : IsOpen(c)
  /\ hold' = [c \in Calls |-> IF c \in S \cup R THEN NoHold ELSE hold[c]]
  /\ closing' = [c \in Calls |-> IF c \in S THEN SettleEntry(c, n[c])
                                 ELSE IF c \in R THEN ReleaseEntry(c) ELSE closing[c]]
  /\ tag' = [c \in Calls |-> IF c \in S THEN TagSettled(tag[c], n[c])
                             ELSE IF c \in R THEN NoTag ELSE tag[c]]
  /\ today' = today

(* The daily counters take what was charged and give back what was counted. *)
CounterMoved(S, R, n) ==
  \A o \in Orgs :
    /\ spent'[o].day \in {spent[o].day, today}
    /\ SpentToday(o)' = SpentToday(o) + Sum(ChargedTo(S, n, o)) - Sum(UncountedOf(S \cup R, o))

(* take comes from the blocks a draw sees, cheaper kinds first. *)
InBurnOrder(S, take) ==
  \E k \in 0 .. MaxBlocks :
    /\ \A c \in S : k >= hold[c].known
    /\ \A b \in BlockIds : take[b] > 0 => b <= k
    /\ \A a, b \in BlockIds :
         /\ take[b] > 0 /\ a <= k /\ block[a].org = block[b].org
         /\ KindOrder(block[a].kind) < KindOrder(block[b].kind)
         => take[a] = block[a].remaining

Kept(S, R, n, o) == balance[o] + Sum(FreedOf(S \cup R, o)) - Sum(ChargedTo(S, n, o))

MoneyDrawn(S, R, n, take) ==
  /\ \A b \in BlockIds : /\ take[b] <= block[b].remaining
                         /\ ~IsBlock(b) => take[b] = 0
  /\ \A o \in Orgs : Sum(TakenFrom(take, o)) = Sum(ChargedTo(S, n, o))
  /\ \/ /\ block' = Drawn(take)
        /\ \A o \in Orgs : balance'[o] = Kept(S, R, n, o)
     \/ \E payee \in Orgs, b \in BlockIds, m \in Nat :
          /\ NextBlock(b)
          /\ block' = [Drawn(take) EXCEPT ![b] = NewBlock(payee, "earned", m, None)]
          /\ \A o \in Orgs : balance'[o] = Kept(S, R, n, o) + IF o = payee THEN m ELSE 0

Amounts == [Calls -> Nat]
Takes == [BlockIds -> Nat]

CloseStep(S, R, n, take) ==
  /\ S \cap R = {}
  /\ RowsClosed(S, R, n)
  /\ CounterMoved(S, R, n)
  /\ MoneyDrawn(S, R, n, take)
  /\ InBurnOrder(S, take)

LEMMA SpentAdded ==
  ASSUME TypeOK, NEW o \in Orgs, NEW delta \in Int, today' = today,
         \/ spent'[o] = AddSpent(spent[o], delta)
         \/ delta = 0 /\ spent'[o] = spent[o]
  PROVE  /\ spent'[o].day \in {spent[o].day, today}
         /\ SpentToday(o)' = SpentToday(o) + delta
<1>1. spent[o].micro \in Int /\ SpentToday(o) \in Int
  BY DEF TypeOK, SpentToday
<1>2. SpentToday(o)' = IF spent'[o].day = today THEN spent'[o].micro ELSE 0
  BY DEF SpentToday
<1> QED
  BY <1>1, <1>2 DEF AddSpent, SpentToday

LEMMA CloseTypes ==
  ASSUME TypeOK, NEW S \in SUBSET Calls, NEW n \in Amounts, NEW o
  PROVE  /\ ChargedTo(S, n, o) \in Amounts
         /\ FreedOf(S, o) \in Amounts
         /\ UncountedOf(S, o) \in Amounts
         /\ Sum(ChargedTo(S, n, o)) \in Nat
         /\ Sum(FreedOf(S, o)) \in Nat
         /\ Sum(UncountedOf(S, o)) \in Nat
<1>1. ChargedTo(S, n, o) \in Amounts
  BY DEF ChargedTo, Amounts
<1>2. FreedOf(S, o) \in Amounts
  BY DEF FreedOf, Amounts, TypeOK, HoldRow
<1>3. UncountedOf(S, o) \in Amounts
  BY CountedType DEF UncountedOf, Amounts
<1> QED
  BY <1>1, <1>2, <1>3, FiniteRows, SumType DEF Amounts

(* What closing the one hold of c moves. *)
LEMMA CloseOne ==
  ASSUME TypeOK, NEW c \in Calls, NEW n \in Amounts, NEW o
  PROVE  /\ Sum(ChargedTo({c}, n, o)) = IF hold[c].org = o THEN n[c] ELSE 0
         /\ Sum(ChargedTo({}, n, o)) = 0
         /\ Sum(FreedOf({c}, o)) = IF hold[c].org = o THEN hold[c].amount ELSE 0
         /\ Sum(UncountedOf({c}, o)) = IF hold[c].org = o THEN CountedToday(c) ELSE 0
<1>1. /\ ChargedTo({c}, n, o) \in [Calls -> Nat]
      /\ ChargedTo({}, n, o) \in [Calls -> Nat]
      /\ FreedOf({c}, o) \in [Calls -> Nat]
      /\ UncountedOf({c}, o) \in [Calls -> Nat]
  BY CloseTypes DEF Amounts
<1>2. Sum(ChargedTo({c}, n, o)) = ChargedTo({c}, n, o)[c]
  <2>1. \A x \in Calls \ {c} : ChargedTo({c}, n, o)[x] = 0
    BY DEF ChargedTo
  <2> QED
    BY SMTT(60), <1>1, <2>1, FiniteRows, SumOne
<1>3. Sum(FreedOf({c}, o)) = FreedOf({c}, o)[c]
  <2>1. \A x \in Calls \ {c} : FreedOf({c}, o)[x] = 0
    BY DEF FreedOf
  <2> QED
    BY SMTT(60), <1>1, <2>1, FiniteRows, SumOne
<1>4. Sum(UncountedOf({c}, o)) = UncountedOf({c}, o)[c]
  <2>1. \A x \in Calls \ {c} : UncountedOf({c}, o)[x] = 0
    BY DEF UncountedOf
  <2> QED
    BY <1>1, <2>1, FiniteRows, SumOne
<1>5. Sum(ChargedTo({}, n, o)) = 0
  <2>1. \A x \in Calls : ChargedTo({}, n, o)[x] = 0
    BY DEF ChargedTo
  <2> QED
    BY <1>1, <2>1, SumZero
<1> QED
  BY <1>2, <1>3, <1>4, <1>5 DEF ChargedTo, FreedOf, UncountedOf

(* A draw takes what it sees of the cheaper blocks before it takes of b. *)
LEMMA DrawOrder ==
  ASSUME TypeOK, NEW o, NEW n \in Nat, NEW k,
         NEW a \in BlockIds, NEW b \in BlockIds, Draw(o, n, k)[b] > 0
  PROVE  /\ block[b].org = o /\ b <= k
         /\ a <= k /\ block[a].org = o /\ KindOrder(block[a].kind) < KindOrder(block[b].kind)
            => Draw(o, n, k)[a] = block[a].remaining
<1> DEFINE cap == Visible(o, k)
<1>1. cap \in [BlockIds -> Nat] /\ BurnRank \in [BlockIds -> Int]
  BY TotalTypes, BurnRankOrder
<1>2. \A x \in BlockIds : Draw(o, n, k)[x] = Lesser(cap[x], NonNeg(n - Sum(Before(cap, BurnRank, x))))
  BY <1>1, FiniteRows, SpreadType DEF Draw
<1>3. /\ \A x \in BlockIds : Sum(Before(cap, BurnRank, x)) \in Nat
      /\ BurnRank[a] < BurnRank[b] =>
           Sum(Before(cap, BurnRank, a)) + cap[a] <= Sum(Before(cap, BurnRank, b))
  BY <1>1, FiniteRows, BeforeOrder
<1>4. cap[b] = IF b <= k THEN IF block[b].org = o THEN block[b].remaining ELSE 0 ELSE 0
  BY DEF Visible, Remaining
<1>5. cap[a] = IF a <= k THEN IF block[a].org = o THEN block[a].remaining ELSE 0 ELSE 0
  BY DEF Visible, Remaining
<1> HIDE DEF cap
<1>6. cap[a] \in Nat /\ cap[b] \in Nat
  BY <1>1
<1>7. cap[b] > 0 /\ n > Sum(Before(cap, BurnRank, b))
  BY <1>2, <1>3, <1>6 DEF Lesser, NonNeg
<1>8. block[b].org = o /\ b <= k
  BY <1>4, <1>7
<1>9. ASSUME a <= k, block[a].org = o, KindOrder(block[a].kind) < KindOrder(block[b].kind)
      PROVE  Draw(o, n, k)[a] = block[a].remaining
  <2>1. BurnRank[a] < BurnRank[b]
    <3> DEFINE x == KindOrder(block[a].kind)
               y == KindOrder(block[b].kind)
    <3>1. x \in {0, 1, 2} /\ y \in {0, 1, 2}
      <4>1. block[a].kind \in Kinds /\ block[b].kind \in Kinds
        BY DEF TypeOK, BlockRow
      <4> QED
        BY <4>1 DEF KindOrder, Kinds
    <3>2. BurnRank[a] = x * (MaxBlocks + 1) + a /\ BurnRank[b] = y * (MaxBlocks + 1) + b
      BY DEF BurnRank
    <3>3. MaxBlocks \in Nat /\ a \in 1 .. MaxBlocks /\ b \in 1 .. MaxBlocks
      BY LedgerAssumption DEF LedgerAssumption, BlockIds
    <3>4. x < y
      BY <1>9
    <3> HIDE DEF x, y
    <3> QED
      BY <3>1, <3>2, <3>3, <3>4
  <2>2. cap[a] = block[a].remaining
    BY <1>5, <1>9
  <2>3. Sum(Before(cap, BurnRank, a)) + cap[a] <= Sum(Before(cap, BurnRank, b))
    BY <1>3, <2>1
  <2>4. Draw(o, n, k)[a] = cap[a]
    BY <1>2, <1>3, <1>6, <1>7, <2>3 DEF Lesser, NonNeg
  <2> QED
    BY <2>2, <2>4
<1> QED
  BY <1>8, <1>9

LEMMA FundedBound == TypeOK => Funded \in 0 .. MaxBlocks
<1> SUFFICES ASSUME TypeOK PROVE Funded \in 0 .. MaxBlocks
  OBVIOUS
<1>1. MaxBlocks \in Nat
  BY LedgerAssumption DEF LedgerAssumption
<1>2. Cardinality(BlockIds) = MaxBlocks
  BY <1>1, FS_Interval DEF BlockIds
<1>3. Funded <= Cardinality(BlockIds)
  BY FiniteRows, FS_Subset DEF Funded
<1> QED
  BY <1>1, <1>2, <1>3, FundedType

(* One draw on the blocks of o keeps the order, whoever's hold it is for. *)
LEMMA DrawInOrder ==
  ASSUME TypeOK, NEW c \in Calls, NEW o, NEW n \in Nat, NEW k \in Views(c)
  PROVE  InBurnOrder({c}, Draw(o, n, k))
<1>1. hold[c].known \in Nat /\ Funded \in 0 .. MaxBlocks /\ MaxBlocks \in Nat
  BY FundedBound, LedgerAssumption DEF TypeOK, HoldRow, LedgerAssumption
<1>2. k \in 0 .. MaxBlocks /\ k >= hold[c].known
  BY <1>1 DEF Views
<1> DEFINE take == Draw(o, n, k)
<1>3. \A b \in BlockIds : take[b] > 0 => b <= k
  BY DrawOrder
<1>4. ASSUME NEW a \in BlockIds, NEW b \in BlockIds, take[b] > 0, a <= k,
             block[a].org = block[b].org, KindOrder(block[a].kind) < KindOrder(block[b].kind)
      PROVE  take[a] = block[a].remaining
  <2>1. Draw(o, n, k)[b] > 0
    BY <1>4
  <2>2. block[b].org = o
    BY ZenonT(60), <2>1, DrawOrder
  <2>3. a <= k /\ block[a].org = o /\ KindOrder(block[a].kind) < KindOrder(block[b].kind)
    BY <1>4, <2>2
  <2> QED
    BY <2>1, <2>3, DrawOrder
<1> HIDE DEF take
<1>5. InBurnOrder({c}, take)
  BY <1>2, <1>3, <1>4 DEF InBurnOrder
<1> QED
  BY <1>5 DEF take

(* _settle_claimed has the shape of a close. *)
LEMMA SettleHoldShape ==
  ASSUME TypeOK, NEW c \in Calls, IsOpen(c), NEW m \in Nat, NEW n \in Amounts, n[c] = m,
         SettleHold(c, m), today' = today
  PROVE  RowsClosed({c}, {}, n) /\ CounterMoved({c}, {}, n)
<1> DEFINE o == hold[c].org
<1>1. {c} \cup {} = {c}
  OBVIOUS
<1>2. RowsClosed({c}, {}, n)
  <2>1. hold' = [x \in Calls |-> IF x \in {c} \cup {} THEN NoHold ELSE hold[x]]
    BY DEF SettleHold, TypeOK
  <2>2. closing' = [x \in Calls |-> IF x \in {c} THEN SettleEntry(x, n[x])
                                 ELSE IF x \in {} THEN ReleaseEntry(x) ELSE closing[x]]
    BY DEF SettleHold, TypeOK
  <2>3. tag' = [x \in Calls |-> IF x \in {c} THEN TagSettled(tag[x], n[x])
                             ELSE IF x \in {} THEN NoTag ELSE tag[x]]
    BY DEF SettleHold, TypeOK
  <2> QED
    BY <2>1, <2>2, <2>3 DEF RowsClosed
<1>3. o \in Orgs /\ CountedToday(c) \in Nat
  BY OpenOrg, CountedType
<1>4. m - CountedToday(c) \in Int
  BY <1>3
<1>5. spent' = IF m - CountedToday(c) = 0 THEN spent
               ELSE [spent EXCEPT ![o] = AddSpent(@, m - CountedToday(c))]
  BY DEF SettleHold
<1>6. ASSUME NEW p \in Orgs
      PROVE  /\ spent'[p].day \in {spent[p].day, today}
             /\ SpentToday(p)' = SpentToday(p) + Sum(ChargedTo({c}, n, p)) - Sum(UncountedOf({c} \cup {}, p))
  <2>1. /\ Sum(ChargedTo({c}, n, p)) = IF o = p THEN m ELSE 0
        /\ Sum(UncountedOf({c}, p)) = IF o = p THEN CountedToday(c) ELSE 0
    BY CloseOne
  <2> DEFINE d == IF o = p THEN m - CountedToday(c) ELSE 0
  <2>2. d \in Int
    BY <1>4
  <2>3. \/ spent'[p] = AddSpent(spent[p], d)
        \/ d = 0 /\ spent'[p] = spent[p]
    BY <1>5 DEF TypeOK
  <2>4. d = Sum(ChargedTo({c}, n, p)) - Sum(UncountedOf({c} \cup {}, p))
    BY <1>1, <1>3, <2>1
  <2>5. SpentToday(p) \in Int
    BY DEF SpentToday, TypeOK
  <2> HIDE DEF d
  <2>6. /\ spent'[p].day \in {spent[p].day, today}
        /\ SpentToday(p)' = SpentToday(p) + d
    BY <2>2, <2>3, SpentAdded
  <2>7. Sum(ChargedTo({c}, n, p)) \in Int /\ Sum(UncountedOf({c} \cup {}, p)) \in Int
    BY <1>1, <1>3, <2>1
  <2> QED
    BY <2>4, <2>5, <2>6, <2>7
<1> QED
  BY <1>2, <1>6 DEF CounterMoved

(* The micro-USD a draw on o takes are o's. *)
LEMMA DrawFrom ==
  ASSUME TypeOK, NEW o \in Orgs, NEW n \in Nat, NEW k
  PROVE  /\ Draw(o, n, k) \in Takes
         /\ Sum(TakenFrom(Draw(o, n, k), o)) = Sum(Draw(o, n, k))
         /\ \A p \in Orgs \ {o} : Sum(TakenFrom(Draw(o, n, k), p)) = 0
         /\ \A b \in BlockIds : /\ Draw(o, n, k)[b] <= block[b].remaining
                                /\ block[b].org # o => Draw(o, n, k)[b] = 0
<1> DEFINE take == Draw(o, n, k)
<1>1. take \in [BlockIds -> Nat] /\ \A b \in BlockIds : take[b] <= Remaining(o)[b]
  BY DrawType
<1>2. \A b \in BlockIds : Remaining(o)[b] = IF block[b].org = o THEN block[b].remaining ELSE 0
  BY DEF Remaining
<1> HIDE DEF take
<1>3. \A b \in BlockIds : block[b].org # o => take[b] = 0
  BY <1>1, <1>2
<1>4. \A b \in BlockIds : take[b] <= block[b].remaining
  BY <1>1, <1>2 DEF TypeOK, BlockRow
<1>5. TakenFrom(take, o) = take
  BY <1>1, <1>3 DEF TakenFrom
<1>6. ASSUME NEW p \in Orgs \ {o} PROVE Sum(TakenFrom(take, p)) = 0
  <2>1. TakenFrom(take, p) \in [BlockIds -> Nat]
    BY <1>1 DEF TakenFrom
  <2>2. \A b \in BlockIds : TakenFrom(take, p)[b] = 0
    BY <1>3 DEF TakenFrom
  <2> QED
    BY <2>1, <2>2, SumZero
<1> QED
  BY <1>1, <1>3, <1>4, <1>5, <1>6 DEF take, Takes

LEMMA ShapeSettle ==
  ASSUME TypeOK, NEW c \in Calls, NEW a \in Actuals \cup {None}, NEW k \in Views(c), Settle(c, a, k)
  PROVE  \E n \in Amounts, take \in Takes : CloseStep({c}, {}, n, take)
<1> DEFINE o == hold[c].org
           take == Draw(o, Settled(c, a), k)
           m == Sum(take)
           n == [x \in Calls |-> IF x = c THEN m ELSE 0]
<1>1. /\ IsOpen(c) /\ SettleHold(c, m) /\ block' = Drawn(take)
      /\ balance' = [balance EXCEPT ![o] = @ + Refund(c, m)]
      /\ today' = today
  BY DEF Settle
<1>2. o \in Orgs /\ Settled(c, a) \in Nat /\ o # None
  BY <1>1, OpenOrg, SettledType DEF IsOpen
<1>3. /\ take \in Takes
      /\ Sum(TakenFrom(take, o)) = m
      /\ \A p \in Orgs \ {o} : Sum(TakenFrom(take, p)) = 0
      /\ \A b \in BlockIds : /\ take[b] <= block[b].remaining
                             /\ block[b].org # o => take[b] = 0
      /\ m \in Nat
  BY <1>2, DrawFrom, DrawType
<1>4. InBurnOrder({c}, take)
  BY <1>2, DrawInOrder
<1> HIDE DEF take, m
<1>5. n \in Amounts /\ n[c] = m
  BY <1>3 DEF Amounts
<1> HIDE DEF n
<1>6. RowsClosed({c}, {}, n) /\ CounterMoved({c}, {}, n)
  BY <1>1, <1>3, <1>5, SettleHoldShape
<1>7. \A p \in Orgs : /\ Sum(ChargedTo({c}, n, p)) = IF o = p THEN m ELSE 0
                      /\ Sum(FreedOf({c}, p)) = IF o = p THEN hold[c].amount ELSE 0
  BY <1>5, CloseOne
<1>8. \A p \in Orgs : balance'[p] = Kept({c}, {}, n, p)
  <2> TAKE p \in Orgs
  <2>1. {c} \cup {} = {c}
    OBVIOUS
  <2>2. balance[p] \in Int /\ hold[c].amount \in Nat
    BY DEF TypeOK, HoldRow
  <2>3. balance'[p] = IF p = o THEN balance[p] + (hold[c].amount - m) ELSE balance[p]
    BY <1>1 DEF TypeOK, Refund
  <2> QED
    BY <1>3, <1>7, <2>1, <2>2, <2>3 DEF Kept
<1>9. MoneyDrawn({c}, {}, n, take)
  <2>1. \A p \in Orgs : Sum(TakenFrom(take, p)) = Sum(ChargedTo({c}, n, p))
    BY <1>3, <1>7
  <2>2. \A b \in BlockIds : ~IsBlock(b) => take[b] = 0
    BY <1>2, <1>3 DEF IsBlock
  <2> QED
    BY <1>1, <1>3, <1>8, <2>1, <2>2 DEF MoneyDrawn
<1> QED
  BY <1>3, <1>4, <1>5, <1>6, <1>9 DEF CloseStep

LEMMA ShapeSettleTo ==
  ASSUME TypeOK, NEW c \in Calls, NEW payee \in Orgs, NEW a \in Actuals \cup {None},
         NEW k \in Views(c), SettleTo(c, payee, a, k)
  PROVE  \E n \in Amounts, take \in Takes : CloseStep({c}, {}, n, take)
<1> DEFINE o == hold[c].org
           pay == IF a = None THEN hold[c].amount ELSE Lesser(hold[c].amount, a)
           take == Draw(o, pay, k)
           m == Sum(take)
           n == [x \in Calls |-> IF x = c THEN m ELSE 0]
           refunded == [balance EXCEPT ![o] = @ + Refund(c, m)]
<1>1. /\ IsOpen(c) /\ SettleHold(c, m) /\ today' = today
      /\ \/ block' = Drawn(take) /\ balance' = refunded
         \/ /\ \E b \in BlockIds :
                 /\ NextBlock(b)
                 /\ block' = [Drawn(take) EXCEPT ![b] = NewBlock(payee, "earned", m, None)]
            /\ balance' = [refunded EXCEPT ![payee] = @ + m]
  BY DEF SettleTo
<1>2. o \in Orgs /\ pay \in Nat /\ o # None
  BY <1>1, OpenOrg, PaidType DEF IsOpen
<1> HIDE DEF pay
<1>3. /\ take \in Takes
      /\ Sum(TakenFrom(take, o)) = m
      /\ \A p \in Orgs \ {o} : Sum(TakenFrom(take, p)) = 0
      /\ \A b \in BlockIds : /\ take[b] <= block[b].remaining
                             /\ block[b].org # o => take[b] = 0
      /\ m \in Nat
  BY ZenonT(60), <1>2, DrawFrom, DrawType
<1>4. InBurnOrder({c}, take)
  BY <1>2, DrawInOrder
<1> HIDE DEF take, m
<1>5. n \in Amounts /\ n[c] = m
  BY <1>3 DEF Amounts
<1> HIDE DEF n
<1>6. RowsClosed({c}, {}, n) /\ CounterMoved({c}, {}, n)
  BY <1>1, <1>3, <1>5, SettleHoldShape
<1>7. \A p \in Orgs : /\ Sum(ChargedTo({c}, n, p)) = IF o = p THEN m ELSE 0
                      /\ Sum(FreedOf({c}, p)) = IF o = p THEN hold[c].amount ELSE 0
  BY <1>5, CloseOne
<1>8. \A p \in Orgs : refunded[p] = Kept({c}, {}, n, p) /\ refunded[p] \in Int
  <2> TAKE p \in Orgs
  <2>1. {c} \cup {} = {c}
    OBVIOUS
  <2>2. balance[p] \in Int /\ hold[c].amount \in Nat
    BY DEF TypeOK, HoldRow
  <2>3. refunded[p] = IF p = o THEN balance[p] + (hold[c].amount - m) ELSE balance[p]
    BY DEF TypeOK, Refund
  <2> QED
    BY <1>3, <1>7, <2>1, <2>2, <2>3 DEF Kept
<1>9. DOMAIN refunded = Orgs
  BY DEF TypeOK
<1> HIDE DEF refunded
<1>10. \A p \in Orgs : Sum(TakenFrom(take, p)) = Sum(ChargedTo({c}, n, p))
  BY <1>3, <1>7
<1>11. \A b \in BlockIds : ~IsBlock(b) => take[b] = 0
  BY <1>2, <1>3 DEF IsBlock
<1>12. CASE block' = Drawn(take) /\ balance' = refunded
  <2>1. MoneyDrawn({c}, {}, n, take)
    BY <1>3, <1>8, <1>10, <1>11, <1>12 DEF MoneyDrawn
  <2> QED
    BY <1>3, <1>4, <1>5, <1>6, <2>1 DEF CloseStep
<1>13. CASE /\ \E b \in BlockIds :
                 /\ NextBlock(b)
                 /\ block' = [Drawn(take) EXCEPT ![b] = NewBlock(payee, "earned", m, None)]
            /\ balance' = [refunded EXCEPT ![payee] = @ + m]
  <2>1. \A p \in Orgs : balance'[p] = Kept({c}, {}, n, p) + IF p = payee THEN m ELSE 0
    <3> TAKE p \in Orgs
    <3>1. balance'[p] = IF p = payee THEN refunded[p] + m ELSE refunded[p]
      BY <1>9, <1>13
    <3> QED
      BY <1>3, <1>8, <3>1
  <2>2. \E q \in Orgs, b \in BlockIds, x \in Nat :
          /\ NextBlock(b)
          /\ block' = [Drawn(take) EXCEPT ![b] = NewBlock(q, "earned", x, None)]
          /\ \A p \in Orgs : balance'[p] = Kept({c}, {}, n, p) + IF p = q THEN x ELSE 0
    <3>1. PICK b \in BlockIds :
            /\ NextBlock(b)
            /\ block' = [Drawn(take) EXCEPT ![b] = NewBlock(payee, "earned", m, None)]
      BY <1>13
    <3> QED
      BY <1>3, <2>1, <3>1
  <2>3. MoneyDrawn({c}, {}, n, take)
    BY <1>3, <1>10, <1>11, <2>2 DEF MoneyDrawn
  <2> QED
    BY <1>3, <1>4, <1>5, <1>6, <2>3 DEF CloseStep
<1> QED
  BY <1>1, <1>12, <1>13

LEMMA ShapeRelease ==
  ASSUME TypeOK, NEW c \in Calls, IsOpen(c), ReleaseHold(c), today' = today
  PROVE  \E n \in Amounts, take \in Takes : CloseStep({}, {c}, n, take)
<1> DEFINE o == hold[c].org
           n == [x \in Calls |-> 0]
           take == [b \in BlockIds |-> 0]
<1>1. n \in Amounts /\ take \in Takes
  BY DEF Amounts, Takes
<1>2. {} \cup {c} = {c} /\ o \in Orgs /\ CountedToday(c) \in Nat /\ hold[c].amount \in Nat
  BY OpenOrg, CountedType
<1>3. RowsClosed({}, {c}, n)
  <2>1. hold' = [x \in Calls |-> IF x \in {} \cup {c} THEN NoHold ELSE hold[x]]
    BY DEF ReleaseHold, TypeOK
  <2>2. closing' = [x \in Calls |-> IF x \in {} THEN SettleEntry(x, n[x])
                                 ELSE IF x \in {c} THEN ReleaseEntry(x) ELSE closing[x]]
    BY DEF ReleaseHold, TypeOK
  <2>3. tag' = [x \in Calls |-> IF x \in {} THEN TagSettled(tag[x], n[x])
                             ELSE IF x \in {c} THEN NoTag ELSE tag[x]]
    BY DEF ReleaseHold, TypeOK
  <2> QED
    BY <1>2, <2>1, <2>2, <2>3 DEF RowsClosed
<1>4. block' = Drawn(take)
  <2>1. \A b \in BlockIds : [block[b] EXCEPT !.remaining = @ - take[b]] = block[b]
    <3> TAKE b \in BlockIds
    <3>1. block[b] \in BlockRow /\ block[b].remaining - take[b] = block[b].remaining
      BY DEF TypeOK, BlockRow
    <3> QED
      BY <3>1 DEF BlockRow
  <2>2. block = [b \in BlockIds |-> block[b]]
    BY DEF TypeOK
  <2> QED
    BY <2>1, <2>2 DEF Drawn, ReleaseHold
<1>5. \A b \in BlockIds : take[b] = 0
  OBVIOUS
<1>6. ASSUME NEW p \in Orgs PROVE Sum(TakenFrom(take, p)) = 0
  <2>1. TakenFrom(take, p) \in [BlockIds -> Nat]
    BY <1>1 DEF TakenFrom
  <2>2. \A b \in BlockIds : TakenFrom(take, p)[b] = 0
    BY <1>5 DEF TakenFrom
  <2> QED
    BY <2>1, <2>2, SumZero
<1> HIDE DEF n, take
<1>7. \A p \in Orgs : /\ Sum(ChargedTo({}, n, p)) = 0
                      /\ Sum(FreedOf({c}, p)) = IF o = p THEN hold[c].amount ELSE 0
                      /\ Sum(UncountedOf({c}, p)) = IF o = p THEN CountedToday(c) ELSE 0
  BY <1>1, CloseOne
<1>8. ASSUME NEW p \in Orgs
      PROVE  /\ spent'[p].day \in {spent[p].day, today}
             /\ SpentToday(p)' = SpentToday(p) + Sum(ChargedTo({}, n, p)) - Sum(UncountedOf({} \cup {c}, p))
  <2> DEFINE d == IF o = p THEN -CountedToday(c) ELSE 0
  <2>1. d \in Int
    BY <1>2
  <2>2. \/ spent'[p] = AddSpent(spent[p], d)
        \/ d = 0 /\ spent'[p] = spent[p]
    BY <1>2 DEF TypeOK, ReleaseHold
  <2>3. SpentToday(p) \in Int
    BY DEF SpentToday, TypeOK
  <2>4. d = Sum(ChargedTo({}, n, p)) - Sum(UncountedOf({} \cup {c}, p))
    <3>1. Sum(UncountedOf({} \cup {c}, p)) = IF o = p THEN CountedToday(c) ELSE 0
      BY <1>2, <1>7
    <3>2. Sum(ChargedTo({}, n, p)) = 0
      BY <1>7
    <3> QED
      BY <1>2, <3>1, <3>2
  <2> HIDE DEF d
  <2>5. /\ spent'[p].day \in {spent[p].day, today}
        /\ SpentToday(p)' = SpentToday(p) + d
    BY <2>1, <2>2, SpentAdded
  <2>6. Sum(ChargedTo({}, n, p)) \in Int /\ Sum(UncountedOf({} \cup {c}, p)) \in Int
    BY <1>2, <1>7
  <2> QED
    BY <2>3, <2>4, <2>5, <2>6
<1>9. CounterMoved({}, {c}, n)
  BY <1>8 DEF CounterMoved
<1>10. \A p \in Orgs : balance'[p] = Kept({}, {c}, n, p)
  <2> TAKE p \in Orgs
  <2>1. balance[p] \in Int
    BY DEF TypeOK
  <2>2. balance'[p] = IF p = o THEN balance[p] + hold[c].amount ELSE balance[p]
    BY DEF TypeOK, ReleaseHold
  <2> QED
    BY <1>2, <1>7, <2>1, <2>2 DEF Kept
<1>11. MoneyDrawn({}, {c}, n, take)
  <2>1. \A b \in BlockIds : take[b] <= block[b].remaining
    BY <1>5 DEF TypeOK, BlockRow
  <2> QED
    BY <1>4, <1>5, <1>6, <1>7, <1>10, <2>1 DEF MoneyDrawn
<1>12. InBurnOrder({}, take)
  <2>1. 0 \in 0 .. MaxBlocks
    BY LedgerAssumption DEF LedgerAssumption
  <2> QED
    BY <1>5, <2>1 DEF InBurnOrder
<1> QED
  BY <1>1, <1>3, <1>9, <1>11, <1>12 DEF CloseStep

(* A record whose remaining amount loses nothing is the record. *)
LEMMA DrawnNone ==
  ASSUME NEW row \in BlockRow, NEW x, x = 0
  PROVE  [row EXCEPT !.remaining = @ - x] = row
<1>1. row.remaining - x = row.remaining
  BY DEF BlockRow
<1> QED
  BY <1>1 DEF BlockRow

LEMMA ShapeCloseBatch ==
  ASSUME TypeOK, NEW S \in SUBSET Calls, NEW R \in SUBSET Calls, S \cap R = {},
         NEW actual \in [S -> Actuals \cup {None}], NEW rank \in Orders(S),
         NEW k \in 0 .. Funded, \A c \in S : k \in Views(c),
         CloseBatch(S, R, actual, rank, k)
  PROVE  \E n \in Amounts, take \in Takes : CloseStep(S, R, n, take)
<1> DEFINE drawn(o) == BatchDrawn(S, actual, rank, k, o)
           due(o) == Sum(BatchDue(S, actual, o))
           n == [c \in Calls |-> IF c \in S THEN drawn(hold[c].org)[c] ELSE 0]
           take == [b \in BlockIds |-> IF IsBlock(b) THEN Draw(block[b].org, due(block[b].org), k)[b] ELSE 0]
           moved(o) == \/ \E c \in HoldsOf(S, o) : n[c] # CountedToday(c)
                       \/ \E c \in HoldsOf(R, o) : CountedToday(c) # 0
<1>1. ASSUME NEW o
      PROVE  /\ drawn(o) \in [HoldsOf(S, o) -> Nat]
             /\ Sum(drawn(o)) \in Nat
             /\ due(o) \in Nat
             /\ Draw(o, due(o), k) \in [BlockIds -> Nat]
             /\ Sum(Draw(o, due(o), k)) = Sum(drawn(o))
  <2>1. IsFiniteSet(HoldsOf(S, o))
    BY FiniteRows, FS_Subset DEF HoldsOf
  <2>2. BatchDue(S, actual, o) \in [HoldsOf(S, o) -> Nat]
    BY SettledType DEF BatchDue, HoldsOf
  <2> QED
    BY <2>1, <2>2, SumType, BatchShare
<1>2. /\ \A c \in S \cup R : IsOpen(c)
      /\ hold' = [c \in Calls |-> IF c \in S \cup R THEN NoHold ELSE hold[c]]
      /\ today' = today
  BY DEF CloseBatch
<1>3. block' = [b \in BlockIds |->
           IF IsBlock(b) THEN [block[b] EXCEPT !.remaining = @ - Draw(block[b].org, due(block[b].org), k)[b]]
           ELSE block[b]]
  BY DEF CloseBatch, TypeOK, BlockRow, IsBlock
<1>4. \A o \in Orgs : balance'[o] = balance[o] + Freed(S \cup R, o) - Sum(drawn(o))
  BY DEF CloseBatch
<1>5. closing' = [c \in Calls |-> IF c \in S THEN SettleEntry(c, n[c])
                                 ELSE IF c \in R THEN ReleaseEntry(c) ELSE closing[c]]
  BY DEF CloseBatch
<1>6. tag' = [c \in Calls |-> IF c \in S THEN TagSettled(tag[c], n[c])
                             ELSE IF c \in R THEN NoTag ELSE tag[c]]
  BY DEF CloseBatch
<1>7. \A o \in Orgs : spent'[o] =
        IF moved(o) THEN AddSpent(spent[o], Sum(drawn(o)) - Uncounted(S \cup R, o)) ELSE spent[o]
  BY DEF CloseBatch, HoldsOf
<1>8. n \in Amounts
  BY <1>1 DEF Amounts, HoldsOf
<1>9. take \in Takes
  BY <1>1 DEF Takes
<1>10. ASSUME NEW o \in Orgs PROVE Sum(ChargedTo(S, n, o)) = Sum(drawn(o))
  <2> DEFINE f == ChargedTo(S, n, o)
             g == drawn(o)
             D == HoldsOf(S, o)
  <2>1. f \in [Calls -> Nat]
    BY <1>8, CloseTypes DEF Amounts
  <2>2. D \in SUBSET Calls /\ g \in [D -> Nat]
    BY <1>1 DEF HoldsOf
  <2>3. \A c \in D : g[c] = f[c]
    BY DEF ChargedTo, HoldsOf
  <2>4. \A c \in Calls \ D : f[c] = 0
    BY DEF ChargedTo, HoldsOf
  <2> HIDE DEF f, g, D
  <2>5. Sum(g) = Sum(f)
    BY <2>1, <2>2, <2>3, <2>4, SumSupport
  <2> QED
    BY <2>5 DEF f, g
<1>11. ASSUME NEW o \in Orgs
       PROVE  /\ Freed(S \cup R, o) = Sum(FreedOf(S \cup R, o))
              /\ Uncounted(S \cup R, o) = Sum(UncountedOf(S \cup R, o))
  <2> DEFINE C == S \cup R
             f == [c \in C |-> IF hold[c].org = o THEN hold[c].amount ELSE 0]
             u == [c \in C |-> IF hold[c].org = o THEN CountedToday(c) ELSE 0]
  <2>1. C \in SUBSET Calls
    OBVIOUS
  <2> HIDE DEF C
  <2>2. f \in [C -> Nat] /\ u \in [C -> Nat]
    BY <2>1, CountedType DEF TypeOK, HoldRow
  <2>3. FreedOf(C, o) \in [Calls -> Nat] /\ UncountedOf(C, o) \in [Calls -> Nat]
    BY <1>8, <2>1, CloseTypes DEF Amounts
  <2>4. /\ \A c \in C : f[c] = FreedOf(C, o)[c] /\ u[c] = UncountedOf(C, o)[c]
        /\ \A c \in Calls \ C : FreedOf(C, o)[c] = 0 /\ UncountedOf(C, o)[c] = 0
    BY <2>1 DEF FreedOf, UncountedOf
  <2>5. Freed(C, o) = Sum(f) /\ Uncounted(C, o) = Sum(u)
    BY DEF Freed, Uncounted
  <2> HIDE DEF f, u
  <2>6. Sum(f) = Sum(FreedOf(C, o))
    BY <2>1, <2>2, <2>3, <2>4, SumSupport
  <2>7. Sum(u) = Sum(UncountedOf(C, o))
    BY <2>1, <2>2, <2>3, <2>4, SumSupport
  <2> QED
    BY <2>5, <2>6, <2>7 DEF C
<1>12. ASSUME NEW o \in Orgs, ~moved(o)
       PROVE  Sum(ChargedTo(S, n, o)) = Sum(UncountedOf(S \cup R, o))
  <2>1. \A c \in Calls : ChargedTo(S, n, o)[c] = UncountedOf(S \cup R, o)[c]
    BY <1>12 DEF ChargedTo, UncountedOf, HoldsOf
  <2>2. ChargedTo(S, n, o) = UncountedOf(S \cup R, o)
    BY <2>1 DEF ChargedTo, UncountedOf
  <2> QED
    BY <2>2
<1>13. ASSUME NEW b \in BlockIds
       PROVE  /\ take[b] = IF IsBlock(b) THEN Draw(block[b].org, due(block[b].org), k)[b] ELSE 0
              /\ take[b] <= block[b].remaining
              /\ ~IsBlock(b) => take[b] = 0
              /\ block'[b] = [block[b] EXCEPT !.remaining = @ - take[b]]
  <2>1. block[b] \in BlockRow /\ block[b].remaining \in Nat
    BY DEF TypeOK, BlockRow
  <2>2. CASE IsBlock(b)
    <3>1. block[b].org \in Orgs
      BY <2>1, <2>2 DEF BlockRow, IsBlock
    <3>2. take[b] <= block[b].remaining
      BY <1>1, <2>2, <3>1, DrawFrom
    <3> QED
      BY <1>3, <2>2, <3>2
  <2>3. CASE ~IsBlock(b)
    <3>1. take[b] = 0 /\ block'[b] = block[b]
      BY <1>3, <2>3
    <3>2. take[b] <= block[b].remaining
      BY <2>1, <3>1
    <3>3. [block[b] EXCEPT !.remaining = @ - take[b]] = block[b]
      BY <2>1, <3>1, DrawnNone
    <3> QED
      BY <2>3, <3>1, <3>2, <3>3
  <2> QED
    BY <2>2, <2>3
<1>14. ASSUME NEW o \in Orgs PROVE Sum(TakenFrom(take, o)) = Sum(drawn(o))
  <2>1. o # None
    BY LedgerAssumption DEF LedgerAssumption
  <2>2. \A b \in BlockIds : TakenFrom(take, o)[b] = Draw(o, due(o), k)[b]
    <3> TAKE b \in BlockIds
    <3>1. block[b].org # o => Draw(o, due(o), k)[b] = 0
      BY <1>1, DrawFrom
    <3> QED
      BY <1>13, <2>1, <3>1 DEF TakenFrom, IsBlock
  <2>3. TakenFrom(take, o) = Draw(o, due(o), k)
    BY <1>1, <2>2 DEF TakenFrom
  <2> QED
    BY <1>1, <2>3
<1>15. block' = Drawn(take)
  BY <1>3, <1>13 DEF Drawn
<1>16. InBurnOrder(S, take)
  <2>1. k \in 0 .. MaxBlocks /\ \A c \in S : k >= hold[c].known
    <3>1. Funded \in 0 .. MaxBlocks /\ MaxBlocks \in Nat
      BY FundedBound, LedgerAssumption DEF LedgerAssumption
    <3>2. \A c \in S : hold[c].known \in Nat
      BY DEF TypeOK, HoldRow
    <3> QED
      BY <3>1, <3>2 DEF Views
  <2>2. ASSUME NEW b \in BlockIds, take[b] > 0
        PROVE  /\ b <= k
               /\ \A a \in BlockIds :
                    /\ a <= k /\ block[a].org = block[b].org
                    /\ KindOrder(block[a].kind) < KindOrder(block[b].kind)
                    => take[a] = block[a].remaining
    <3> DEFINE o == block[b].org
    <3>1. IsBlock(b) /\ Draw(o, due(o), k)[b] > 0
      BY <1>13, <2>2
    <3>2. o \in Orgs /\ due(o) \in Nat
      BY <1>1, <3>1 DEF IsBlock, TypeOK, BlockRow
    <3>3. b <= k
      BY <3>1, <3>2, DrawOrder
    <3>4. ASSUME NEW a \in BlockIds, a <= k, block[a].org = o,
                 KindOrder(block[a].kind) < KindOrder(block[b].kind)
          PROVE  take[a] = block[a].remaining
      <4>1. Draw(o, due(o), k)[a] = block[a].remaining
        BY <3>1, <3>2, <3>4, DrawOrder
      <4>2. take[a] = Draw(o, due(o), k)[a]
        BY <1>13, <3>1, <3>4 DEF IsBlock
      <4> QED
        BY <4>1, <4>2
    <3> QED
      BY <3>3, <3>4
  <2> HIDE DEF take
  <2> QED
    BY <2>1, <2>2 DEF InBurnOrder
<1> HIDE DEF n, take, moved, drawn, due
<1>17. \A o \in Orgs : balance'[o] = Kept(S, R, n, o)
  BY <1>4, <1>10, <1>11 DEF Kept
<1>18. MoneyDrawn(S, R, n, take)
  <2>1. \A o \in Orgs : Sum(TakenFrom(take, o)) = Sum(ChargedTo(S, n, o))
    BY <1>10, <1>14
  <2> QED
    BY <1>13, <1>15, <1>17, <2>1 DEF MoneyDrawn
<1>19. RowsClosed(S, R, n)
  BY <1>2, <1>5, <1>6 DEF RowsClosed
<1>20. CounterMoved(S, R, n)
  <2> SUFFICES ASSUME NEW o \in Orgs
               PROVE  /\ spent'[o].day \in {spent[o].day, today}
                      /\ SpentToday(o)' = SpentToday(o) + Sum(ChargedTo(S, n, o))
                                            - Sum(UncountedOf(S \cup R, o))
    BY DEF CounterMoved
  <2> DEFINE x == Sum(ChargedTo(S, n, o))
             y == Sum(UncountedOf(S \cup R, o))
             d == x - y
  <2>1. x \in Nat /\ y \in Nat
    <3>1. S \cup R \in SUBSET Calls
      OBVIOUS
    <3> QED
      BY <1>8, <3>1, CloseTypes
  <2>2. d \in Int
    BY <2>1
  <2>3. x = Sum(drawn(o)) /\ y = Uncounted(S \cup R, o)
    BY <1>10, <1>11
  <2>4. ASSUME ~moved(o) PROVE d = 0
    <3>1. x = y
      BY <1>12, <2>4
    <3> QED
      BY <2>1, <3>1
  <2>5. \/ spent'[o] = AddSpent(spent[o], d)
        \/ d = 0 /\ spent'[o] = spent[o]
    BY <1>7, <2>3, <2>4
  <2>6. SpentToday(o) \in Int
    BY DEF SpentToday, TypeOK
  <2> HIDE DEF d
  <2>7. /\ spent'[o].day \in {spent[o].day, today}
        /\ SpentToday(o)' = SpentToday(o) + d
    BY <1>2, <2>2, <2>5, SpentAdded
  <2> QED
    BY <2>1, <2>6, <2>7 DEF d
<1> QED
  BY <1>8, <1>9, <1>16, <1>18, <1>19, <1>20 DEF CloseStep

(***************************************************************************)
(* The shapes a step can have.  Only the first four move money; a quiet    *)
(* step may age a hold or move a reserve, a sweep list or a pending task.  *)
(***************************************************************************)
FundStep ==
  \E o \in Orgs, kind \in Kinds, n \in Nat, ref \in Refs \cup {None} : Fund(o, kind, n, ref)

RevokeStep ==
  \E o \in Orgs, T \in SUBSET BlockIds : \E asked \in [T -> Targets] : Revoke(o, asked)

ClosingStep ==
  \E S, R \in SUBSET Calls, n \in Amounts, take \in Takes : CloseStep(S, R, n, take)

QuietStep ==
  /\ UNCHANGED <<block, balance, spent, closing, tag>>
  /\ today' \in {today, today + 1}
  /\ \A c \in Calls : \E stale \in BOOLEAN : hold'[c] = [hold[c] EXCEPT !.stale = stale]
  /\ today' # today => UNCHANGED hold

LEMMA HoldSame ==
  ASSUME TypeOK, UNCHANGED hold
  PROVE  \A c \in Calls : \E stale \in BOOLEAN : hold'[c] = [hold[c] EXCEPT !.stale = stale]
<1> SUFFICES ASSUME NEW c \in Calls
             PROVE  \E stale \in BOOLEAN : hold[c] = [hold[c] EXCEPT !.stale = stale]
  OBVIOUS
<1>1. hold[c] \in HoldRow
  BY DEF TypeOK
<1>2. hold[c].stale \in BOOLEAN /\ hold[c] = [hold[c] EXCEPT !.stale = hold[c].stale]
  BY <1>1 DEF HoldRow
<1> QED
  BY <1>2

LEMMA StepShapes ==
  ASSUME TypeOK, [Next]_vars
  PROVE  \/ QuietStep
         \/ FundStep
         \/ RevokeStep
         \/ \E c \in Calls : ReserveDebit(c)
         \/ ClosingStep
<1>1. ASSUME NEW o \in Orgs, NEW kind \in GrantKinds, NEW n \in Credits, Grant(o, kind, n)
      PROVE  FundStep
  BY <1>1, LedgerAssumption DEF FundStep, Grant, GrantKinds, Kinds, LedgerAssumption
<1>2. ASSUME NEW o \in Orgs, NEW n \in Credits, NEW ref \in Refs, Topup(o, n, ref)
      PROVE  FundStep
  BY <1>2, LedgerAssumption DEF FundStep, Topup, Kinds, LedgerAssumption
<1>3. ASSUME NEW o \in Orgs, NEW T \in SUBSET Refundable(o), NEW asked \in [T -> Targets],
             Revoke(o, asked)
      PROVE  RevokeStep
  BY <1>3 DEF RevokeStep, Refundable
<1>4. ASSUME NEW c \in Calls, NEW a \in Actuals \cup {None}, NEW k \in Views(c), Settle(c, a, k)
      PROVE  ClosingStep
  <2>1. \E n \in Amounts, take \in Takes : CloseStep({c}, {}, n, take)
    BY <1>4, ShapeSettle
  <2> QED
    BY <2>1 DEF ClosingStep
<1>5. ASSUME NEW c \in Calls, NEW payee \in Orgs, NEW a \in Actuals \cup {None},
             NEW k \in Views(c), SettleTo(c, payee, a, k)
      PROVE  ClosingStep
  <2>1. \E n \in Amounts, take \in Takes : CloseStep({c}, {}, n, take)
    BY <1>5, ShapeSettleTo
  <2> QED
    BY <2>1 DEF ClosingStep
<1>6. ASSUME NEW c \in Calls, IsOpen(c), ReleaseHold(c), today' = today
      PROVE  ClosingStep
  <2>1. \E n \in Amounts, take \in Takes : CloseStep({}, {c}, n, take)
    BY <1>6, ShapeRelease
  <2> QED
    BY <2>1 DEF ClosingStep
<1>7. ASSUME NEW C \in Batches, NEW S \in SUBSET C, NEW actual \in [S -> Actuals \cup {None}],
             NEW rank \in Orders(S), NEW k \in {x \in 0 .. Funded : \A c \in S : x \in Views(c)},
             CloseBatch(S, C \ S, actual, rank, k)
      PROVE  ClosingStep
  <2>1. S \in SUBSET Calls /\ C \ S \in SUBSET Calls /\ S \cap (C \ S) = {}
    BY DEF Batches
  <2>2. k \in 0 .. Funded /\ \A c \in S : k \in Views(c)
    OBVIOUS
  <2>3. \E n \in Amounts, take \in Takes : CloseStep(S, C \ S, n, take)
    BY <1>7, <2>1, <2>2, ShapeCloseBatch
  <2> QED
    BY <2>1, <2>3 DEF ClosingStep
<1>8. ASSUME UNCHANGED <<block, balance, spent, hold, closing, tag>>, today' \in {today, today + 1}
      PROVE  QuietStep
  BY <1>8, HoldSame DEF QuietStep
<1>9. ASSUME NEW c \in Calls, Age(c)
      PROVE  QuietStep
  <2>1. hold' = [hold EXCEPT ![c].stale = TRUE] /\ today' = today
    BY <1>9 DEF Age
  <2>2. \A x \in Calls : \E stale \in BOOLEAN : hold'[x] = [hold[x] EXCEPT !.stale = stale]
    <3> TAKE x \in Calls
    <3>1. hold[x] \in HoldRow
      BY DEF TypeOK
    <3>2. hold[x].stale \in BOOLEAN /\ hold[x] = [hold[x] EXCEPT !.stale = hold[x].stale]
      BY <3>1 DEF HoldRow
    <3>3. x = c => hold'[x] = [hold[x] EXCEPT !.stale = TRUE]
      BY <2>1 DEF TypeOK
    <3>4. x # c => hold'[x] = hold[x]
      BY <2>1 DEF TypeOK
    <3> QED
      BY <3>2, <3>3, <3>4
  <2> QED
    BY <1>9, <2>1, <2>2 DEF Age, QuietStep
<1>10. ASSUME NEW c \in Calls, NEW h \in Calls, Reap(c, h)
       PROVE  ClosingStep \/ QuietStep
  BY <1>6, <1>8, <1>10 DEF Reap
<1>11. ASSUME NEW c \in Calls, Release(c)
       PROVE  ClosingStep
  BY <1>6, <1>11 DEF Release
<1>12. \/ \E c \in Calls, o \in Orgs, est \in Estimates : ReserveScan(c, o, est)
       \/ \E c \in Calls : ReserveRefuse(c) \/ ReserveAbandon(c) \/ Defer(c) \/ ClosedHold(c)
       \/ Midnight
       \/ UNCHANGED vars
       => QuietStep
  BY <1>8 DEF ReserveScan, ReserveRefuse, ReserveAbandon, Defer, ClosedHold, Midnight, vars
<1> QED
  BY <1>1, <1>2, <1>3, <1>4, <1>5, <1>7, <1>9, <1>10, <1>11, <1>12 DEF Next

-----------------------------------------------------------------------------
(* What each shape does to the rows *)

LEMMA QuietHolds ==
  ASSUME TypeOK, QuietStep, NEW c \in Calls
  PROVE  /\ hold'[c].org = hold[c].org /\ hold'[c].amount = hold[c].amount
         /\ hold'[c].day = hold[c].day
         /\ IsOpen(c)' <=> IsOpen(c)
<1>1. hold[c] \in HoldRow
  BY DEF TypeOK
<1>2. PICK stale \in BOOLEAN : hold'[c] = [hold[c] EXCEPT !.stale = stale]
  BY DEF QuietStep
<1> QED
  BY <1>1, <1>2 DEF HoldRow, IsOpen

(* The row a draw leaves of a block. *)
SameBlock(b, left) ==
  /\ block'[b].org = block[b].org /\ block'[b].kind = block[b].kind
  /\ block'[b].amount = block[b].amount /\ block'[b].taken = block[b].taken
  /\ block'[b].target = block[b].target /\ block'[b].remaining = left

LEMMA ClosingBlocks ==
  ASSUME TypeOK, NEW S, NEW R, NEW n, NEW take \in Takes, MoneyDrawn(S, R, n, take),
         NEW b \in BlockIds
  PROVE  /\ take[b] \in Nat /\ take[b] <= block[b].remaining
         /\ \/ SameBlock(b, block[b].remaining - take[b])
            \/ /\ ~IsBlock(b) /\ take[b] = 0
               /\ \E payee \in Orgs, m \in Nat : block'[b] = NewBlock(payee, "earned", m, None)
<1>1. take[b] \in Nat /\ take[b] <= block[b].remaining
  BY DEF Takes, MoneyDrawn
<1>2. block[b] \in BlockRow
  BY DEF TypeOK
<1>3. Drawn(take)[b] = [block[b] EXCEPT !.remaining = @ - take[b]]
  BY DEF Drawn
<1>4. ASSUME block'[b] = Drawn(take)[b]
      PROVE  SameBlock(b, block[b].remaining - take[b])
  BY <1>2, <1>3, <1>4 DEF SameBlock, BlockRow
<1>5. CASE block' = Drawn(take)
  BY <1>1, <1>4, <1>5
<1>6. ASSUME NEW payee \in Orgs, NEW x \in BlockIds, NEW m \in Nat, NextBlock(x),
             block' = [Drawn(take) EXCEPT ![x] = NewBlock(payee, "earned", m, None)]
      PROVE  \/ SameBlock(b, block[b].remaining - take[b])
             \/ /\ ~IsBlock(b) /\ take[b] = 0
                /\ \E q \in Orgs, y \in Nat : block'[b] = NewBlock(q, "earned", y, None)
  <2>1. CASE b = x
    <3>1. block'[b] = NewBlock(payee, "earned", m, None)
      BY <1>6, <2>1 DEF Drawn
    <3>2. ~IsBlock(b)
      BY <1>6, <2>1 DEF NextBlock
    <3> QED
      BY <3>1, <3>2 DEF MoneyDrawn
  <2>2. CASE b # x
    BY <1>4, <1>6, <2>2
  <2> QED
    BY <2>1, <2>2
<1> QED
  BY <1>1, <1>5, <1>6 DEF MoneyDrawn

LEMMA ClosingBalance ==
  ASSUME TypeOK, NEW S \in SUBSET Calls, NEW R \in SUBSET Calls, NEW n \in Amounts, NEW take,
         MoneyDrawn(S, R, n, take), NEW o \in Orgs
  PROVE  balance'[o] >= Kept(S, R, n, o) /\ Kept(S, R, n, o) \in Int
<1>1. Kept(S, R, n, o) \in Int
  <2>1. S \cup R \in SUBSET Calls
    OBVIOUS
  <2>2. Sum(FreedOf(S \cup R, o)) \in Nat /\ Sum(ChargedTo(S, n, o)) \in Nat
    BY <2>1, CloseTypes
  <2> QED
    BY <2>2 DEF Kept, TypeOK
<1>2. \/ balance'[o] = Kept(S, R, n, o)
      \/ \E payee \in Orgs, m \in Nat :
           balance'[o] = Kept(S, R, n, o) + IF o = payee THEN m ELSE 0
  BY DEF MoneyDrawn
<1> QED
  BY <1>1, <1>2

LEMMA ClosingRow ==
  ASSUME TypeOK, ClosesOnce, NEW S \in SUBSET Calls, NEW R \in SUBSET Calls, NEW n \in Amounts,
         S \cap R = {}, RowsClosed(S, R, n), NEW c \in Calls
  PROVE  /\ c \in S => /\ IsOpen(c) /\ closing[c].kind = "none" /\ ~IsOpen(c)'
                       /\ hold'[c] = NoHold
                       /\ closing'[c] = SettleEntry(c, n[c])
                       /\ tag'[c] = TagSettled(tag[c], n[c])
         /\ c \in R => /\ IsOpen(c) /\ closing[c].kind = "none" /\ ~IsOpen(c)'
                       /\ hold'[c] = NoHold
                       /\ closing'[c] = ReleaseEntry(c)
                       /\ tag'[c] = NoTag
         /\ c \notin S \cup R => /\ hold'[c] = hold[c] /\ (IsOpen(c)' <=> IsOpen(c))
                                 /\ closing'[c] = closing[c]
                                 /\ tag'[c] = tag[c]
         /\ n[c] \in Nat
         /\ today' = today
<1>1. hold'[c] = IF c \in S \cup R THEN NoHold ELSE hold[c]
  BY DEF RowsClosed
<1>2. /\ closing'[c] = IF c \in S THEN SettleEntry(c, n[c])
                                 ELSE IF c \in R THEN ReleaseEntry(c) ELSE closing[c]
      /\ tag'[c] = IF c \in S THEN TagSettled(tag[c], n[c])
                             ELSE IF c \in R THEN NoTag ELSE tag[c]
  BY DEF RowsClosed
<1>3. c \in S \cup R => IsOpen(c) /\ closing[c].kind = "none"
  BY DEF RowsClosed, ClosesOnce
<1>4. n[c] \in Nat /\ today' = today
  BY DEF RowsClosed, Amounts
<1> QED
  BY <1>1, <1>2, <1>3, <1>4 DEF IsOpen, NoHold

LEMMA DebitRow ==
  ASSUME TypeOK, ReservesOnce, NEW c \in Calls, ReserveDebit(c)
  PROVE  /\ reserving[c].org \in Orgs /\ reserving[c].charged \in Nat /\ reserving[c].org # None
         /\ ~IsOpen(c) /\ closing[c].kind = "none"
         /\ hold'[c] = [org |-> reserving[c].org, amount |-> reserving[c].charged, day |-> today,
                        stale |-> FALSE, known |-> Funded]
         /\ \A x \in Calls \ {c} : hold'[x] = hold[x] /\ tag'[x] = tag[x]
         /\ c \in Tagged => tag'[c] = [org |-> reserving[c].org, amount |-> reserving[c].charged,
                                       settled |-> FALSE, day |-> today]
         /\ c \notin Tagged => tag' = tag
         /\ balance[reserving[c].org] >= reserving[c].charged
         /\ \A o \in Orgs : balance'[o] = IF o = reserving[c].org THEN balance[o] - reserving[c].charged
                                          ELSE balance[o]
         /\ \A o \in Orgs : spent'[o] = IF o = reserving[c].org THEN AddSpent(spent[o], reserving[c].charged)
                                        ELSE spent[o]
         /\ UNCHANGED <<block, closing, today>>
<1>1. /\ reserving[c].org \in Orgs /\ reserving[c].charged \in Nat /\ reserving[c].org # None
  BY DEF ReserveDebit, TypeOK, ReserveRow
<1>2. ~IsOpen(c) /\ closing[c].kind = "none"
  BY <1>1 DEF ReservesOnce
<1>3. /\ balance[reserving[c].org] >= reserving[c].charged
      /\ UNCHANGED <<block, closing, today>>
  BY DEF ReserveDebit, Affords
<1>4. /\ hold'[c] = [org |-> reserving[c].org, amount |-> reserving[c].charged, day |-> today,
                     stale |-> FALSE, known |-> Funded]
      /\ \A x \in Calls \ {c} : hold'[x] = hold[x]
  BY DEF ReserveDebit, TypeOK
<1>5. /\ \A x \in Calls \ {c} : tag'[x] = tag[x]
      /\ c \in Tagged => tag'[c] = [org |-> reserving[c].org, amount |-> reserving[c].charged,
                                    settled |-> FALSE, day |-> today]
      /\ c \notin Tagged => tag' = tag
  BY DEF ReserveDebit, TypeOK
<1>6. /\ \A o \in Orgs : balance'[o] = IF o = reserving[c].org THEN balance[o] - reserving[c].charged
                                          ELSE balance[o]
      /\ \A o \in Orgs : spent'[o] = IF o = reserving[c].org THEN AddSpent(spent[o], reserving[c].charged)
                                        ELSE spent[o]
  BY DEF ReserveDebit, TypeOK
<1> QED
  BY <1>1, <1>2, <1>3, <1>4, <1>5, <1>6

-----------------------------------------------------------------------------
(* A tagged call is attributed once *)

TagOf(c) == IF IsOpen(c)
            THEN [org |-> hold[c].org, amount |-> hold[c].amount, settled |-> FALSE,
                  day |-> hold[c].day]
            ELSE IF closing[c].kind = "settle"
            THEN [org |-> closing[c].org, amount |-> closing[c].amount, settled |-> TRUE,
                  day |-> closing[c].day]
            ELSE NoTag

LEMMA TagForms ==
  /\ TagRowsAgree <=> \A c \in Tagged : tag[c] = TagOf(c)
  /\ TagRowsAgree' <=> \A c \in Tagged : tag'[c] = TagOf(c)'
  BY DEF TagRowsAgree, TagOf, IsOpen

LEMMA TagRowUpdate ==
  ASSUME TypeOK, NEW row \in TagRow, NEW m \in Nat
  PROVE  [row EXCEPT !.amount = m, !.settled = TRUE, !.day = today]
           = [org |-> row.org, amount |-> m, settled |-> TRUE, day |-> today]
<1> DEFINE new == [row EXCEPT !.amount = m, !.settled = TRUE, !.day = today]
<1>1. new \in TagRow
  BY DEF TagRow, TypeOK
<1>2. new.org = row.org /\ new.amount = m /\ new.settled = TRUE /\ new.day = today
  BY DEF TagRow
<1> HIDE DEF new
<1>3. new = [org |-> row.org, amount |-> m, settled |-> TRUE, day |-> today]
  BY <1>1, <1>2 DEF TagRow
<1> QED
  BY <1>3 DEF new

LEMMA TagStep ==
  ASSUME TypeOK, HoldLife, TagRowsAgree, [Next]_vars
  PROVE  TagRowsAgree'
<1> SUFFICES ASSUME NEW c \in Tagged PROVE tag'[c] = TagOf(c)'
  BY TagForms
<1>1. c \in Calls /\ tag[c] = TagOf(c)
  BY TagForms, LedgerAssumption DEF LedgerAssumption
<1>2. CASE QuietStep
  <2>1. tag'[c] = tag[c] /\ closing'[c] = closing[c]
    BY <1>2 DEF QuietStep
  <2> QED
    BY <1>1, <1>2, <2>1, QuietHolds DEF TagOf
<1>3. CASE FundStep \/ RevokeStep
  <2>1. UNCHANGED <<hold, tag, closing>>
    BY <1>3 DEF FundStep, RevokeStep, Fund, Revoke
  <2> QED
    BY <1>1, <2>1 DEF TagOf, IsOpen
<1>4. ASSUME NEW x \in Calls, ReserveDebit(x) PROVE tag'[c] = TagOf(c)'
  <2> DEFINE o == reserving[x].org
             m == reserving[x].charged
  <2>0. ReservesOnce
    BY DEF HoldLife
  <2>1. CASE c = x
    <3>1. /\ o # None
          /\ hold'[c] = [org |-> o, amount |-> m, day |-> today, stale |-> FALSE, known |-> Funded]
          /\ tag'[c] = [org |-> o, amount |-> m, settled |-> FALSE, day |-> today]
      BY <1>4, <2>0, <2>1, DebitRow
    <3> HIDE DEF o, m
    <3>2. /\ IsOpen(c)' /\ hold'[c].org = o /\ hold'[c].amount = m /\ hold'[c].day = today
      BY <3>1 DEF IsOpen
    <3> QED
      BY <3>1, <3>2 DEF TagOf
  <2>2. CASE c # x
    <3>1. hold'[c] = hold[c] /\ tag'[c] = tag[c] /\ closing'[c] = closing[c]
      <4>1. c \in Calls \ {x}
        BY <1>1, <2>2
      <4>2. \A y \in Calls \ {x} : hold'[y] = hold[y] /\ tag'[y] = tag[y]
        BY <1>4, <2>0, DebitRow
      <4>3. closing' = closing
        BY <1>4 DEF ReserveDebit
      <4> QED
        BY <4>1, <4>2, <4>3
    <3> QED
      BY <1>1, <3>1 DEF TagOf, IsOpen
  <2> QED
    BY <2>1, <2>2
<1>5. ASSUME NEW S \in SUBSET Calls, NEW R \in SUBSET Calls, NEW n \in Amounts, NEW take \in Takes,
             CloseStep(S, R, n, take)
      PROVE  tag'[c] = TagOf(c)'
  <2>1. S \cap R = {} /\ RowsClosed(S, R, n) /\ ClosesOnce
    BY <1>5 DEF CloseStep, HoldLife
  <2>2. CASE c \in S
    <3>1. /\ IsOpen(c) /\ ~IsOpen(c)' /\ closing'[c] = SettleEntry(c, n[c])
          /\ tag'[c] = TagSettled(tag[c], n[c])
      BY <1>1, <2>1, <2>2, ClosingRow
    <3>2. tag[c] = [org |-> hold[c].org, amount |-> hold[c].amount, settled |-> FALSE,
                    day |-> hold[c].day]
      BY <1>1, <3>1 DEF TagOf
    <3>3. tag'[c] = [org |-> hold[c].org, amount |-> n[c], settled |-> TRUE, day |-> today]
      <4>1. hold[c].org # None
        BY <3>1 DEF IsOpen
      <4>2. tag'[c] = [tag[c] EXCEPT !.amount = n[c], !.settled = TRUE, !.day = today]
        BY <3>1, <3>2, <4>1 DEF TagSettled
      <4>3. n[c] \in Nat
        BY <1>1 DEF Amounts
      <4>4. tag[c] \in TagRow
        BY <1>1 DEF TypeOK
      <4>5. tag[c].org = hold[c].org
        BY <3>2
      <4> QED
        BY <4>2, <4>3, <4>4, <4>5, TagRowUpdate
    <3> QED
      BY <3>1, <3>3 DEF TagOf, SettleEntry
  <2>3. CASE c \in R
    <3>1. ~IsOpen(c)' /\ closing'[c] = ReleaseEntry(c) /\ tag'[c] = NoTag
      BY <1>1, <2>1, <2>3, ClosingRow
    <3> QED
      BY <3>1 DEF TagOf, ReleaseEntry
  <2>4. CASE c \notin S \cup R
    <3>1. /\ hold'[c] = hold[c] /\ (IsOpen(c)' <=> IsOpen(c))
          /\ closing'[c] = closing[c] /\ tag'[c] = tag[c]
      BY <1>1, <2>1, <2>4, ClosingRow
    <3> QED
      BY <1>1, <3>1 DEF TagOf
  <2> QED
    BY <2>2, <2>3, <2>4
<1> QED
  BY <1>2, <1>3, <1>4, <1>5, StepShapes DEF ClosingStep

(* A tagged call is attributed exactly once, whatever settles, releases,   *)
(* batches or sweeps close its hold.                                        *)
THEOREM TagsAgree == Spec => []TagRowsAgree
<1> DEFINE Inv == TypeOK /\ HoldLife /\ TagRowsAgree
<1>1. Init => Inv
  <2>1. Init => TagRowsAgree
    BY LedgerAssumption DEF Init, TagRowsAgree, IsOpen, NoHold, NoEntry, LedgerAssumption
  <2> QED
    BY <2>1, TypeInit, LifeInit
<1>2. Inv /\ [Next]_vars => Inv'
  BY TypeStep, LifeStep, TagStep
<1>3. Inv => TagRowsAgree
  OBVIOUS
<1> QED
  BY <1>1, <1>2, <1>3, PTL DEF Spec

-----------------------------------------------------------------------------
(* The daily counter *)

(* No hold, entry or counter carries a day that has not come yet. *)
NotFuture ==
  /\ \A c \in Calls : hold[c].day <= today /\ closing[c].day <= today
  /\ \A o \in Orgs : spent[o].day # None => spent[o].day <= today

SettledToday(o) ==
  [c \in Calls |-> IF closing[c].kind = "settle" /\ closing[c].org = o /\ closing[c].day = today
                   THEN closing[c].amount ELSE 0]
HeldToday(o) ==
  [c \in Calls |-> IF hold[c].org = o /\ hold[c].day = today THEN hold[c].amount ELSE 0]

LEMMA DayTotals ==
  ASSUME TypeOK, NEW o
  PROVE  /\ SettledToday(o) \in [Calls -> Nat] /\ HeldToday(o) \in [Calls -> Nat]
         /\ Sum(SettledToday(o)) \in Nat /\ Sum(HeldToday(o)) \in Nat
         /\ SpentTodayFromLedger(o) = Sum(SettledToday(o)) + Sum(HeldToday(o))
<1>1. SettledToday(o) \in [Calls -> Nat]
  BY DEF SettledToday, TypeOK, EntryRow
<1>2. HeldToday(o) \in [Calls -> Nat]
  BY DEF HeldToday, TypeOK, HoldRow
<1>3. SpentTodayFromLedger(o) = Sum(SettledToday(o)) + Sum(HeldToday(o))
  BY DEF SpentTodayFromLedger, SettledToday, HeldToday
<1> QED
  BY <1>1, <1>2, <1>3, FiniteRows, SumType

LEMMA DayTotalsNext ==
  ASSUME TypeOK', NEW o
  PROVE  /\ SettledToday(o)' \in [Calls -> Nat] /\ HeldToday(o)' \in [Calls -> Nat]
         /\ Sum(SettledToday(o)') \in Nat /\ Sum(HeldToday(o)') \in Nat
         /\ SpentTodayFromLedger(o)' = Sum(SettledToday(o)') + Sum(HeldToday(o)')
<1>1. SettledToday(o)' \in [Calls -> Nat]
  BY DEF SettledToday, TypeOK, EntryRow
<1>2. HeldToday(o)' \in [Calls -> Nat]
  BY DEF HeldToday, TypeOK, HoldRow
<1>3. SpentTodayFromLedger(o)' = Sum(SettledToday(o)') + Sum(HeldToday(o)')
  BY DEF SpentTodayFromLedger, SettledToday, HeldToday
<1> QED
  BY <1>1, <1>2, <1>3, FiniteRows, SumType

LEMMA DaysPassed ==
  ASSUME TypeOK, HoldLife, NotFuture, [Next]_vars
  PROVE  NotFuture'
<1> USE DEF NotFuture
<1>0. today \in Nat /\ ReservesOnce /\ ClosesOnce
  BY DEF TypeOK, HoldLife
<1>1. CASE QuietStep
  <2>1. \A c \in Calls : hold'[c].day = hold[c].day /\ hold[c].day \in Nat /\ closing[c].day \in Nat
    BY <1>1, QuietHolds DEF TypeOK, HoldRow, EntryRow
  <2>2. \A o \in Orgs : spent[o].day \in Nat \cup {None}
    BY DEF TypeOK
  <2>3. UNCHANGED <<closing, spent>> /\ today' \in {today, today + 1}
    BY <1>1 DEF QuietStep
  <2> QED
    BY <1>0, <2>1, <2>2, <2>3
<1>2. CASE FundStep \/ RevokeStep
  <2>1. UNCHANGED <<hold, closing, spent, today>>
    BY <1>2 DEF FundStep, RevokeStep, Fund, Revoke
  <2> QED
    BY <2>1
<1>3. ASSUME NEW x \in Calls, ReserveDebit(x) PROVE NotFuture'
  <2>1. /\ hold'[x].day = today /\ UNCHANGED <<closing, today>>
        /\ \A y \in Calls \ {x} : hold'[y] = hold[y]
    BY <1>3 DEF ReserveDebit, TypeOK
  <2>2. \A o \in Orgs : spent'[o].day \in {spent[o].day, today}
    BY <1>3 DEF ReserveDebit, TypeOK, AddSpent
  <2> QED
    BY <1>0, <2>1, <2>2
<1>4. ASSUME NEW S \in SUBSET Calls, NEW R \in SUBSET Calls, NEW n \in Amounts, NEW take \in Takes,
             CloseStep(S, R, n, take)
      PROVE  NotFuture'
  <2>1. /\ \A o \in Orgs : spent'[o].day \in {spent[o].day, today}
        /\ today' = today
    BY <1>4 DEF CloseStep, CounterMoved, RowsClosed
  <2>2. \A c \in Calls : hold'[c].day \in {hold[c].day, 0}
    BY <1>4 DEF CloseStep, RowsClosed, NoHold
  <2>3. \A c \in Calls : closing'[c].day \in {closing[c].day, today}
    BY <1>4 DEF CloseStep, RowsClosed, SettleEntry, ReleaseEntry
  <2> QED
    BY <1>0, <2>1, <2>2, <2>3
<1> QED
  BY <1>1, <1>2, <1>3, <1>4, StepShapes DEF ClosingStep

LEMMA DayTurns ==
  ASSUME TypeOK, TypeOK', NotFuture, SpentTodayAgrees, QuietStep, NEW o \in Orgs
  PROVE  SpentToday(o)' = SpentTodayFromLedger(o)'
<1>1. today \in Nat /\ UNCHANGED <<spent, closing>> /\ today' \in {today, today + 1}
  BY DEF QuietStep, TypeOK
<1>2. SpentToday(o) = SpentTodayFromLedger(o)
  BY DEF SpentTodayAgrees
<1>3. CASE today' = today
  <2>1. SettledToday(o)' = SettledToday(o)
    BY <1>1, <1>3 DEF SettledToday
  <2>2. HeldToday(o)' = HeldToday(o)
    BY <1>3, QuietHolds DEF HeldToday
  <2>3. SpentToday(o)' = SpentToday(o)
    BY <1>1, <1>3 DEF SpentToday
  <2> QED
    BY <1>2, <2>1, <2>2, <2>3, DayTotals, DayTotalsNext
<1>4. CASE today' = today + 1
  <2>1. \A c \in Calls : SettledToday(o)'[c] = 0
    <3> TAKE c \in Calls
    <3>1. closing[c].day \in Nat /\ closing[c].day <= today
      BY DEF NotFuture, TypeOK, EntryRow
    <3> QED
      BY <1>1, <1>4, <3>1 DEF SettledToday
  <2>2. \A c \in Calls : HeldToday(o)'[c] = 0
    <3> TAKE c \in Calls
    <3>1. hold'[c].day = hold[c].day /\ hold[c].day \in Nat /\ hold[c].day <= today
      BY QuietHolds DEF NotFuture, TypeOK, HoldRow
    <3> QED
      BY <1>1, <1>4, <3>1 DEF HeldToday
  <2>3. Sum(SettledToday(o)') = 0 /\ Sum(HeldToday(o)') = 0
    BY <2>1, <2>2, DayTotalsNext, SumZero
  <2>4. SpentToday(o)' = 0
    <3>1. spent[o].day = None \/ (spent[o].day \in Nat /\ spent[o].day <= today)
      <4>1. spent[o].day \in Nat \cup {None}
        BY DEF TypeOK
      <4>2. spent[o].day # None => spent[o].day <= today
        BY DEF NotFuture
      <4> QED
        BY <4>1, <4>2
    <3>2. spent[o].day # today + 1
      BY <1>1, <3>1, LedgerAssumption DEF LedgerAssumption
    <3> QED
      BY <1>1, <1>4, <3>2 DEF SpentToday
  <2> QED
    BY <2>3, <2>4, DayTotalsNext
<1> QED
  BY <1>1, <1>3, <1>4

LEMMA DayReserves ==
  ASSUME TypeOK, TypeOK', ReservesOnce, SpentTodayAgrees, NEW x \in Calls, ReserveDebit(x), NEW o \in Orgs
  PROVE  SpentToday(o)' = SpentTodayFromLedger(o)'
<1> DEFINE p == reserving[x].org
           m == reserving[x].charged
<1>1. /\ p # None /\ m \in Nat /\ ~IsOpen(x) /\ UNCHANGED <<closing, today>>
      /\ hold'[x] = [org |-> p, amount |-> m, day |-> today, stale |-> FALSE, known |-> Funded]
      /\ \A y \in Calls \ {x} : hold'[y] = hold[y]
  BY DebitRow
<1>2. spent'[o] = IF o = p THEN AddSpent(spent[o], m) ELSE spent[o]
  BY DEF ReserveDebit, TypeOK
<1> HIDE DEF p, m
<1>3. SpentToday(o) = SpentTodayFromLedger(o)
  BY DEF SpentTodayAgrees
<1>4. SettledToday(o)' = SettledToday(o)
  BY <1>1 DEF SettledToday
<1>5. \A y \in Calls \ {x} : HeldToday(o)'[y] = HeldToday(o)[y]
  BY <1>1 DEF HeldToday
<1>6. HeldToday(o)[x] = 0
  BY <1>1, LedgerAssumption DEF HeldToday, IsOpen, LedgerAssumption
<1>7. HeldToday(o)'[x] = IF o = p THEN m ELSE 0
  BY <1>1 DEF HeldToday
<1> DEFINE f == HeldToday(o)
           g == HeldToday(o)'
<1>8. f \in [Calls -> Nat] /\ g \in [Calls -> Nat] /\ Sum(f) \in Nat /\ Sum(g) \in Nat
  BY DayTotals, DayTotalsNext
<1>9. Sum(g) = Sum(f) - f[x] + g[x]
  <2> HIDE DEF f, g
  <2>1. \A y \in Calls \ {x} : g[y] = f[y]
    BY <1>5 DEF f, g
  <2> QED
    BY <1>8, <2>1, FiniteRows, SumUpdate
<1>10. SpentToday(o)' = SpentToday(o) + IF o = p THEN m ELSE 0
  BY <1>1, <1>2 DEF SpentToday, AddSpent, TypeOK
<1> HIDE DEF f, g
<1>11. /\ SpentTodayFromLedger(o) = Sum(SettledToday(o)) + Sum(f)
       /\ SpentTodayFromLedger(o)' = Sum(SettledToday(o)) + Sum(g)
       /\ Sum(SettledToday(o)) \in Nat
  BY <1>4, DayTotals, DayTotalsNext DEF f, g
<1>12. f[x] = 0 /\ g[x] = IF o = p THEN m ELSE 0
  BY <1>6, <1>7 DEF f, g
<1> QED
  BY <1>1, <1>3, <1>8, <1>9, <1>10, <1>11, <1>12

LEMMA DayCloses ==
  ASSUME TypeOK, TypeOK', ClosesOnce, SpentTodayAgrees, NEW S \in SUBSET Calls, NEW R \in SUBSET Calls,
         NEW n \in Amounts, NEW take \in Takes, CloseStep(S, R, n, take), NEW o \in Orgs
  PROVE  SpentToday(o)' = SpentTodayFromLedger(o)'
<1> DEFINE C == S \cup R
           charged == ChargedTo(S, n, o)
           counted == UncountedOf(C, o)
           f == SettledToday(o)
           g == HeldToday(o)
           f1 == SettledToday(o)'
           g1 == HeldToday(o)'
<1>1. S \cap R = {} /\ RowsClosed(S, R, n) /\ ClosesOnce /\ today' = today /\ C \in SUBSET Calls
  BY DEF CloseStep, RowsClosed
<1>2. SpentToday(o)' = SpentToday(o) + Sum(charged) - Sum(counted)
  BY DEF CloseStep, CounterMoved
<1>3. /\ charged \in [Calls -> Nat] /\ counted \in [Calls -> Nat]
      /\ Sum(charged) \in Nat /\ Sum(counted) \in Nat
  BY <1>1, CloseTypes DEF Amounts
<1>4. /\ f \in [Calls -> Nat] /\ f1 \in [Calls -> Nat] /\ g \in [Calls -> Nat] /\ g1 \in [Calls -> Nat]
      /\ Sum(f) \in Nat /\ Sum(f1) \in Nat /\ Sum(g) \in Nat /\ Sum(g1) \in Nat
  BY DayTotals, DayTotalsNext
<1>5. ASSUME NEW c \in Calls
      PROVE  f1[c] = f[c] + charged[c] /\ g[c] = g1[c] + counted[c]
  <2>1. f1[c] = IF closing'[c].kind = "settle" /\ closing'[c].org = o /\ closing'[c].day = today
                THEN closing'[c].amount ELSE 0
    BY <1>1 DEF SettledToday
  <2>2. g1[c] = IF hold'[c].org = o /\ hold'[c].day = today THEN hold'[c].amount ELSE 0
    BY <1>1 DEF HeldToday
  <2>3. f[c] \in Nat /\ g[c] \in Nat /\ g1[c] \in Nat /\ charged[c] \in Nat /\ counted[c] \in Nat
    BY <1>3, <1>4
  <2>4. CASE c \in S
    <3>1. /\ closing[c].kind = "none" /\ hold'[c] = NoHold /\ closing'[c] = SettleEntry(c, n[c])
      BY <1>1, <2>4, ClosingRow
    <3>2. f[c] = 0
      BY <3>1 DEF SettledToday
    <3>3. f1[c] = charged[c]
      BY <2>1, <2>4, <3>1 DEF SettleEntry, ChargedTo
    <3>4. g1[c] = 0
      BY <2>2, <3>1, LedgerAssumption DEF NoHold, LedgerAssumption
    <3>5. g[c] = counted[c]
      BY <2>4 DEF HeldToday, UncountedOf, CountedToday
    <3> QED
      BY <2>3, <3>2, <3>3, <3>4, <3>5
  <2>5. CASE c \in R
    <3>1. /\ closing[c].kind = "none" /\ hold'[c] = NoHold /\ closing'[c] = ReleaseEntry(c)
      BY <1>1, <2>5, ClosingRow
    <3>2. f[c] = 0 /\ f1[c] = 0
      BY <2>1, <3>1 DEF SettledToday, ReleaseEntry
    <3>3. charged[c] = 0
      BY <1>1, <2>5 DEF ChargedTo
    <3>4. g1[c] = 0
      BY <2>2, <3>1, LedgerAssumption DEF NoHold, LedgerAssumption
    <3>5. g[c] = counted[c]
      BY <2>5 DEF HeldToday, UncountedOf, CountedToday
    <3> QED
      BY <2>3, <3>2, <3>3, <3>4, <3>5
  <2>6. CASE c \notin S \cup R
    <3>1. hold'[c] = hold[c] /\ closing'[c] = closing[c]
      BY <1>1, <2>6, ClosingRow
    <3>2. f1[c] = f[c] /\ g1[c] = g[c]
      BY <2>1, <2>2, <3>1 DEF SettledToday, HeldToday
    <3>3. charged[c] = 0 /\ counted[c] = 0
      BY <2>6 DEF ChargedTo, UncountedOf
    <3> QED
      BY <2>3, <3>2, <3>3
  <2> QED
    BY <2>4, <2>5, <2>6
<1>6. SpentToday(o) = SpentTodayFromLedger(o)
  BY DEF SpentTodayAgrees
<1>7. /\ SpentTodayFromLedger(o) = Sum(f) + Sum(g)
      /\ SpentTodayFromLedger(o)' = Sum(f1) + Sum(g1)
  BY DayTotals, DayTotalsNext
<1> HIDE DEF charged, counted, f, g, f1, g1
<1>8. Sum(f1) = Sum(f) + Sum(charged)
  BY <1>3, <1>4, <1>5, FiniteRows, SumAdd
<1>9. Sum(g) = Sum(g1) + Sum(counted)
  BY <1>3, <1>4, <1>5, FiniteRows, SumAdd
<1> QED
  BY <1>2, <1>3, <1>4, <1>6, <1>7, <1>8, <1>9

(* Any step of the ledger keeps the counter agreed with the journal.       *)
LEMMA SpentKept ==
  ASSUME TypeOK, TypeOK', ReservesOnce, ClosesOnce, NotFuture, SpentTodayAgrees, [Next]_vars
  PROVE  SpentTodayAgrees'
<1>1. ASSUME NEW o \in Orgs PROVE SpentToday(o)' = SpentTodayFromLedger(o)'
  <2>1. CASE QuietStep
    BY <2>1, DayTurns
  <2>2. CASE FundStep \/ RevokeStep
    <3>1. UNCHANGED <<hold, closing, spent, today>>
      BY <2>2 DEF FundStep, RevokeStep, Fund, Revoke
    <3>2. SpentToday(o) = SpentTodayFromLedger(o)
      BY DEF SpentTodayAgrees
    <3> QED
      BY <3>1, <3>2 DEF SpentToday, SpentTodayFromLedger
  <2>3. ASSUME NEW x \in Calls, ReserveDebit(x) PROVE SpentToday(o)' = SpentTodayFromLedger(o)'
    BY <2>3, DayReserves
  <2>4. CASE ClosingStep
    BY <2>4, DayCloses DEF ClosingStep
  <2> QED
    BY <2>1, <2>2, <2>3, <2>4, StepShapes
<1> QED
  BY <1>1 DEF SpentTodayAgrees

(* spent_today, the counter behind the daily cap, is its recomputation from*)
(* the journal, for holds opened before a midnight and closed after it too. *)
THEOREM SpentHolds == Spec => []SpentTodayAgrees
<1> DEFINE Inv == TypeOK /\ HoldLife /\ NotFuture /\ SpentTodayAgrees
<1>1. Init => Inv
  <2> SUFFICES ASSUME Init PROVE NotFuture /\ SpentTodayAgrees
    BY TypeInit, LifeInit
  <2>1. NotFuture
    BY DEF Init, NotFuture, NoHold, NoEntry
  <2>2. TypeOK
    BY TypeInit
  <2>3. ASSUME NEW o \in Orgs PROVE SpentToday(o) = SpentTodayFromLedger(o)
    <3>1. /\ \A c \in Calls : SettledToday(o)[c] = 0
          /\ \A c \in Calls : HeldToday(o)[c] = 0
      BY LedgerAssumption DEF Init, SettledToday, HeldToday, NoHold, NoEntry, LedgerAssumption
    <3>2. Sum(SettledToday(o)) = 0 /\ Sum(HeldToday(o)) = 0
      BY <2>2, <3>1, DayTotals, SumZero
    <3>3. SpentToday(o) = 0
      BY DEF Init, SpentToday
    <3> QED
      BY <2>2, <3>2, <3>3, DayTotals
  <2> QED
    BY <2>1, <2>3 DEF SpentTodayAgrees
<1>2. Inv /\ [Next]_vars => Inv'
  <2> SUFFICES ASSUME Inv, [Next]_vars PROVE Inv'
    OBVIOUS
  <2>1. TypeOK' /\ HoldLife' /\ NotFuture'
    BY TypeStep, LifeStep, DaysPassed
  <2>2. SpentTodayAgrees'
    BY <2>1, SpentKept DEF HoldLife
  <2> QED
    BY <2>1, <2>2
<1>3. Inv => SpentTodayAgrees
  OBVIOUS
<1> QED
  BY <1>1, <1>2, <1>3, PTL DEF Spec

-----------------------------------------------------------------------------
(* What a refund does to the blocks *)

RevokeShape(o, T, take) ==
  /\ take \in [T -> Nat] /\ Sum(take) \in Nat
  /\ Sum(take) <= Unheld(o)
  /\ \A b \in T : take[b] <= Sum(take)
  /\ \A p \in Orgs : balance'[p] = IF p = o THEN balance[p] - Sum(take) ELSE balance[p]
  /\ \A b \in T :
       /\ block[b].org = o
       /\ block'[b].org = o /\ block'[b].kind = block[b].kind
       /\ block'[b].amount = block[b].amount
       /\ take[b] <= block[b].remaining
       /\ block'[b].remaining = block[b].remaining - take[b]
       /\ block'[b].taken = block[b].taken + take[b]
       /\ block[b].target <= block'[b].target
       /\ block'[b].target = block[b].target \/ block'[b].target <= block[b].amount
       /\ take[b] > 0 => block'[b].taken <= block'[b].target
  /\ \A b \in BlockIds \ T : block'[b] = block[b]
  /\ UNCHANGED <<spent, hold, closing, tag, today>>

(***************************************************************************)
(* What a refund of the asked amounts writes: Revoke, whether or not there *)
(* is anything to write.                                                   *)
(***************************************************************************)
RefundGoal(asked) == [b \in DOMAIN asked |-> Lesser(asked[b], block[b].amount)]
RefundTake(o, asked) ==
  Spread([b \in DOMAIN asked |-> OnBlock(b, RefundGoal(asked)[b])], [b \in DOMAIN asked |-> b], Unheld(o))
RefundRow(b, n, goal) ==
  [block[b] EXCEPT !.remaining = @ - n, !.taken = @ + n,
                   !.target = IF n > 0 \/ goal > @ THEN IF goal > @ THEN goal ELSE @ ELSE @]

TakesBack(o, asked) ==
  /\ \A b \in DOMAIN asked : block[b].org = o
  /\ block' = [b \in BlockIds |-> IF b \in DOMAIN asked
                                 THEN RefundRow(b, RefundTake(o, asked)[b], RefundGoal(asked)[b])
                                 ELSE block[b]]
  /\ balance' = [balance EXCEPT ![o] = @ - Sum(RefundTake(o, asked))]
  /\ UNCHANGED <<spent, hold, closing, tag, today>>

LEMMA ShapeRefund ==
  ASSUME TypeOK, NEW o \in Orgs, NEW T \in SUBSET BlockIds, NEW asked \in [T -> Targets],
         TakesBack(o, asked)
  PROVE  \E take \in [T -> Nat] : RevokeShape(o, T, take)
<1> DEFINE goal == [b \in T |-> Lesser(asked[b], block[b].amount)]
           take == Spread([b \in T |-> OnBlock(b, goal[b])], [b \in T |-> b], Unheld(o))
           target(b) == IF take[b] > 0 \/ goal[b] > block[b].target
                        THEN IF goal[b] > block[b].target THEN goal[b] ELSE block[b].target
                        ELSE block[b].target
<1>1. goal \in [T -> Nat] /\ \A b \in T : goal[b] <= block[b].amount
  <2>1. \A b \in T : asked[b] \in Nat /\ block[b].amount \in Nat
    BY LedgerAssumption DEF LedgerAssumption, TypeOK, BlockRow
  <2>2. \A x, y \in Nat : Lesser(x, y) \in Nat /\ Lesser(x, y) <= y
    BY DEF Lesser
  <2> QED
    BY <2>1, <2>2
<1>2. DOMAIN asked = T
  OBVIOUS
<1>3. RefundGoal(asked) = goal
  BY <1>2 DEF RefundGoal
<1> HIDE DEF goal
<1>4. RefundTake(o, asked) = take
  BY <1>2, <1>3 DEF RefundTake
<1>5. /\ IsFiniteSet(T)
      /\ take \in [T -> Nat]
      /\ \A b \in T : take[b] <= OnBlock(b, goal[b])
      /\ \A b \in T : take[b] <= block[b].remaining
      /\ Sum(take) \in Nat /\ Sum(take) <= Unheld(o)
  BY <1>1, RevokeTake
<1> HIDE DEF take
<1>6. /\ block' = [b \in BlockIds |->
           IF b \in T
           THEN [block[b] EXCEPT !.remaining = @ - take[b],
                                 !.taken = @ + take[b], !.target = target(b)]
           ELSE block[b]]
      /\ \A b \in T : block[b].org = o
      /\ balance' = [balance EXCEPT ![o] = @ - Sum(take)]
      /\ UNCHANGED <<spent, hold, closing, tag, today>>
  BY <1>2, <1>3, <1>4 DEF TakesBack, RefundRow
<1>7. \A b \in T : take[b] <= Sum(take)
  BY <1>5, SumPart
<1>8. ASSUME NEW b \in T
      PROVE  /\ block'[b].org = o /\ block'[b].kind = block[b].kind
             /\ block'[b].amount = block[b].amount
             /\ block'[b].remaining = block[b].remaining - take[b]
             /\ block'[b].taken = block[b].taken + take[b]
             /\ block'[b].target = target(b)
  <2>1. block[b] \in BlockRow
    BY DEF TypeOK
  <2>2. block'[b] = [block[b] EXCEPT !.remaining = block[b].remaining - take[b],
                                     !.taken = block[b].taken + take[b], !.target = target(b)]
    BY <1>6
  <2> HIDE DEF target
  <2> QED
    <3> DEFINE x == block[b].remaining - take[b]
               y == block[b].taken + take[b]
               z == target(b)
               new == block'[b]
    <3>1. new = [block[b] EXCEPT !.remaining = x, !.taken = y, !.target = z]
      BY <2>2
    <3> HIDE DEF x, y, z, new
    <3>2. /\ new.org = block[b].org /\ new.kind = block[b].kind /\ new.amount = block[b].amount
          /\ new.remaining = x /\ new.taken = y /\ new.target = z
      BY <2>1, <3>1 DEF BlockRow
    <3> QED
      BY <1>6, <3>2 DEF x, y, z, new
<1>9. ASSUME NEW b \in T
      PROVE  /\ block[b].target <= target(b)
             /\ target(b) = block[b].target \/ target(b) <= block[b].amount
             /\ take[b] > 0 => block[b].taken + take[b] <= target(b)
  <2>1. /\ block[b].target \in Nat /\ block[b].taken \in Nat /\ block[b].remaining \in Nat
        /\ goal[b] \in Nat /\ goal[b] <= block[b].amount /\ block[b].amount \in Nat
        /\ take[b] \in Nat /\ take[b] <= OnBlock(b, goal[b])
    BY <1>1, <1>5 DEF TypeOK, BlockRow
  <2>2. /\ target(b) \in {goal[b], block[b].target}
        /\ block[b].target <= target(b)
        /\ take[b] > 0 => goal[b] <= target(b)
    BY <2>1
  <2>3. take[b] > 0 => block[b].taken + take[b] <= goal[b]
    BY <2>1 DEF OnBlock, Owed, Lesser, NonNeg
  <2> HIDE DEF target
  <2> QED
    BY <2>1, <2>2, <2>3
<1>10. \A p \in Orgs : balance'[p] = IF p = o THEN balance[p] - Sum(take) ELSE balance[p]
  BY <1>6 DEF TypeOK
<1>11. \A b \in BlockIds \ T : block'[b] = block[b]
  BY <1>6
<1> HIDE DEF target
<1>12. RevokeShape(o, T, take)
  BY ZenonT(60), <1>5, <1>6, <1>7, <1>8, <1>9, <1>10, <1>11 DEF RevokeShape
<1> QED
  BY <1>5, <1>12

LEMMA RefundTakeType ==
  ASSUME TypeOK, NEW o \in Orgs, NEW T \in SUBSET BlockIds, NEW asked \in [T -> Targets]
  PROVE  RefundTake(o, asked) \in [T -> Nat]
<1> DEFINE goal == RefundGoal(asked)
<1>1. DOMAIN asked = T
  OBVIOUS
<1>2. \A b \in T : asked[b] \in Nat /\ block[b].amount \in Nat
  BY LedgerAssumption DEF LedgerAssumption, TypeOK, BlockRow
<1>3. goal \in [T -> Nat]
  BY <1>1, <1>2 DEF RefundGoal, Lesser
<1> HIDE DEF goal
<1>4. RefundTake(o, asked) = Spread([b \in T |-> OnBlock(b, goal[b])], [b \in T |-> b], Unheld(o))
  BY <1>1 DEF RefundTake, goal
<1> QED
  BY <1>3, <1>4, RevokeTake

(* A block from which nothing is taken and whose goal has not risen stays. *)
LEMMA RefundRowSame ==
  ASSUME TypeOK, NEW b \in BlockIds, NEW goal \in Nat, goal <= block[b].target
  PROVE  RefundRow(b, 0, goal) = block[b]
<1> DEFINE row == block[b]
<1>1. row \in BlockRow /\ row.remaining \in Nat /\ row.taken \in Nat /\ row.target \in Nat
  BY DEF TypeOK, BlockRow
<1>2. RefundRow(b, 0, goal) = [row EXCEPT !.remaining = row.remaining - 0, !.taken = row.taken + 0,
                                          !.target = IF 0 > 0 \/ goal > row.target
                                                     THEN IF goal > row.target THEN goal ELSE row.target
                                                     ELSE row.target]
  BY DEF RefundRow
<1>3. row.remaining - 0 = row.remaining /\ row.taken + 0 = row.taken /\ ~(goal > row.target)
  BY <1>1
<1> HIDE DEF row
<1>4. RefundRow(b, 0, goal) = [row EXCEPT !.remaining = row.remaining, !.taken = row.taken,
                                          !.target = row.target]
  BY <1>2, <1>3
<1> QED
  BY <1>1, <1>4 DEF BlockRow, row

LEMMA RevokeMoves ==
  ASSUME TypeOK, RevokeStep
  PROVE  \E o \in Orgs, T \in SUBSET BlockIds : \E take \in [T -> Nat] : RevokeShape(o, T, take)
<1>1. PICK o \in Orgs, T \in SUBSET BlockIds : \E asked \in [T -> Targets] : Revoke(o, asked)
  BY DEF RevokeStep
<1>2. PICK asked \in [T -> Targets] : Revoke(o, asked)
  BY <1>1
<1>3. DOMAIN asked = T
  OBVIOUS
<1>4. TakesBack(o, asked)
  BY <1>2, <1>3 DEF Revoke, TakesBack, RefundGoal, RefundTake, RefundRow
<1>5. \E take \in [T -> Nat] : RevokeShape(o, T, take)
  BY <1>4, ShapeRefund
<1> QED
  BY <1>5

FundShape(o, kind, n, ref, x) ==
  /\ ~IsBlock(x)
  /\ block'[x] = NewBlock(o, kind, n, ref)
  /\ \A b \in BlockIds \ {x} : block'[b] = block[b]
  /\ \A p \in Orgs : balance'[p] = IF p = o THEN balance[p] + n ELSE balance[p]
  /\ UNCHANGED <<spent, hold, closing, tag, today>>

LEMMA ShapeFund ==
  ASSUME TypeOK, FundStep
  PROVE  \E o \in Orgs, kind \in Kinds, n \in Nat, ref \in Refs \cup {None}, x \in BlockIds :
           FundShape(o, kind, n, ref, x)
<1>1. PICK o \in Orgs, kind \in Kinds, n \in Nat, ref \in Refs \cup {None} : Fund(o, kind, n, ref)
  BY DEF FundStep
<1>2. PICK x \in BlockIds : /\ NextBlock(x)
                            /\ block' = [block EXCEPT ![x] = NewBlock(o, kind, n, ref)]
                            /\ balance' = [balance EXCEPT ![o] = @ + n]
                            /\ UNCHANGED <<spent, hold, closing, tag, today>>
  BY <1>1 DEF Fund
<1>3. ~IsBlock(x)
  BY <1>2 DEF NextBlock
<1>4. /\ block'[x] = NewBlock(o, kind, n, ref)
      /\ \A b \in BlockIds \ {x} : block'[b] = block[b]
      /\ \A p \in Orgs : balance'[p] = IF p = o THEN balance[p] + n ELSE balance[p]
  BY <1>2 DEF TypeOK
<1>5. FundShape(o, kind, n, ref, x)
  BY <1>2, <1>3, <1>4 DEF FundShape
<1> QED
  BY <1>5

-----------------------------------------------------------------------------
(* What a step does to the money *)

(***************************************************************************)
(* The money of a step, whatever the day: what the blocks lose, what the   *)
(* holds free and what the journal enters.  Every step of the ledger is of *)
(* one of these shapes, and so is every commit of a transaction that read  *)
(* the clock before a midnight (LedgerTxProofs).                           *)
(***************************************************************************)
Unmoved ==
  /\ UNCHANGED <<block, balance, closing>>
  /\ \A c \in Calls : hold'[c].org = hold[c].org /\ hold'[c].amount = hold[c].amount

HoldOpened(c, o, n) ==
  /\ ~IsOpen(c)
  /\ hold'[c].org = o /\ hold'[c].amount = n
  /\ \A x \in Calls \ {c} : hold'[x] = hold[x]
  /\ balance[o] >= n
  /\ \A p \in Orgs : balance'[p] = IF p = o THEN balance[p] - n ELSE balance[p]
  /\ UNCHANGED <<block, closing>>

HoldsClosed(S, R, n) ==
  /\ S \cap R = {}
  /\ \A c \in S \cup R : IsOpen(c)
  /\ hold' = [c \in Calls |-> IF c \in S \cup R THEN NoHold ELSE hold[c]]
  /\ \A c \in S : /\ closing'[c].kind = "settle" /\ closing'[c].org = hold[c].org
                  /\ closing'[c].reserved = hold[c].amount /\ closing'[c].amount = n[c]
  /\ \A c \in R : closing'[c].kind = "release"
  /\ \A c \in Calls \ (S \cup R) : closing'[c] = closing[c]

MoneyStep ==
  \/ Unmoved
  \/ \E o \in Orgs, kind \in Kinds, n \in Nat, ref \in Refs \cup {None}, x \in BlockIds :
       FundShape(o, kind, n, ref, x)
  \/ \E o \in Orgs, T \in SUBSET BlockIds : \E take \in [T -> Nat] : RevokeShape(o, T, take)
  \/ \E c \in Calls, o \in Orgs, n \in Nat : HoldOpened(c, o, n)
  \/ \E S, R \in SUBSET Calls, n \in Amounts, take \in Takes :
       HoldsClosed(S, R, n) /\ MoneyDrawn(S, R, n, take)

LEMMA MoneySteps ==
  ASSUME TypeOK, HoldLife, [Next]_vars
  PROVE  MoneyStep
<1>1. CASE QuietStep
  <2>1. UNCHANGED <<block, balance, closing>>
    BY <1>1 DEF QuietStep
  <2>2. \A c \in Calls : hold'[c].org = hold[c].org /\ hold'[c].amount = hold[c].amount
    BY <1>1, QuietHolds
  <2> QED
    BY <2>1, <2>2 DEF MoneyStep, Unmoved
<1>2. CASE FundStep
  BY <1>2, ShapeFund DEF MoneyStep
<1>3. CASE RevokeStep
  BY <1>3, RevokeMoves DEF MoneyStep
<1>4. ASSUME NEW c \in Calls, ReserveDebit(c)
      PROVE  MoneyStep
  <2>1. /\ reserving[c].org \in Orgs /\ reserving[c].charged \in Nat
        /\ ~IsOpen(c)
        /\ hold'[c] = [org |-> reserving[c].org, amount |-> reserving[c].charged, day |-> today,
                       stale |-> FALSE, known |-> Funded]
        /\ \A x \in Calls \ {c} : hold'[x] = hold[x]
        /\ balance[reserving[c].org] >= reserving[c].charged
        /\ \A p \in Orgs : balance'[p] = IF p = reserving[c].org
                                         THEN balance[p] - reserving[c].charged ELSE balance[p]
        /\ UNCHANGED <<block, closing>>
    BY <1>4, DebitRow DEF HoldLife
  <2>2. HoldOpened(c, reserving[c].org, reserving[c].charged)
    BY <2>1 DEF HoldOpened
  <2> QED
    BY <2>1, <2>2 DEF MoneyStep
<1>5. CASE ClosingStep
  <2>1. PICK S \in SUBSET Calls, R \in SUBSET Calls, n \in Amounts, take \in Takes :
          CloseStep(S, R, n, take)
    BY <1>5 DEF ClosingStep
  <2>2. S \cap R = {} /\ RowsClosed(S, R, n) /\ MoneyDrawn(S, R, n, take)
    BY <2>1 DEF CloseStep
  <2>3. /\ \A c \in S : closing'[c] = SettleEntry(c, n[c])
        /\ \A c \in R : closing'[c] = ReleaseEntry(c)
        /\ \A c \in Calls \ (S \cup R) : closing'[c] = closing[c]
    BY <2>2, ClosingRow DEF HoldLife
  <2>4. HoldsClosed(S, R, n)
    BY <2>2, <2>3 DEF HoldsClosed, RowsClosed, SettleEntry, ReleaseEntry
  <2> QED
    BY <2>2, <2>4 DEF MoneyStep
<1> QED
  BY <1>1, <1>2, <1>3, <1>4, <1>5, StepShapes

-----------------------------------------------------------------------------
(* The balance equation *)

(* Closing the holds of S and R gives their part of each held total back.  *)
LEMMA HeldClosed ==
  ASSUME TypeOK, TypeOK', NEW C \in SUBSET Calls, NEW o \in Orgs,
         hold' = [c \in Calls |-> IF c \in C THEN NoHold ELSE hold[c]]
  PROVE  Sum(WithheldOf(hold, o)) = Sum(WithheldOf(hold', o)) + Sum(FreedOf(C, o))
<1> DEFINE freed == FreedOf(C, o)
           before == WithheldOf(hold, o)
           after == WithheldOf(hold', o)
<1>1. hold \in HoldTable /\ hold' \in HoldTable
  BY DEF TypeOK, HoldTable
<1>2. before \in [Calls -> Nat] /\ after \in [Calls -> Nat]
  BY <1>1, WithheldType
<1>3. freed \in [Calls -> Nat]
  BY DEF FreedOf, TypeOK, HoldRow
<1>4. ASSUME NEW c \in Calls
      PROVE  before[c] = after[c] + freed[c]
  <2>1. hold[c].amount \in Nat
    BY DEF TypeOK, HoldRow
  <2>2. CASE c \in C
    <3>1. hold'[c].org # o
      BY <2>2, LedgerAssumption DEF NoHold, LedgerAssumption
    <3>2. after[c] = 0 /\ freed[c] = before[c]
      BY <2>2, <3>1 DEF WithheldOf, FreedOf
    <3> QED
      BY <1>3, <3>2
  <2>3. CASE c \notin C
    <3>1. after[c] = before[c] /\ freed[c] = 0
      BY <2>3 DEF WithheldOf, FreedOf
    <3> QED
      BY <1>2, <3>1
  <2> QED
    BY <2>2, <2>3
<1> HIDE DEF freed, before, after
<1>5. Sum(before) = Sum(after) + Sum(freed)
  BY <1>2, <1>3, <1>4, FiniteRows, SumAdd
<1> QED
  BY <1>5 DEF freed, before, after

(* What a draw takes from a team's blocks its credit loses.                *)
LEMMA CreditDrawn ==
  ASSUME TypeOK, NEW take \in Takes, NEW o \in Orgs,
         \A b \in BlockIds : take[b] <= block[b].remaining
  PROVE  /\ Drawn(take) \in BlockTable
         /\ \A b \in BlockIds : Drawn(take)[b].org = block[b].org
         /\ Sum(RemainingOf(Drawn(take), o)) = Sum(RemainingOf(block, o)) - Sum(TakenFrom(take, o))
<1>1. take \in [BlockIds -> Nat]
  BY DEF Takes
<1>2. ASSUME NEW b \in BlockIds
      PROVE  /\ Drawn(take)[b] \in BlockRow
             /\ Drawn(take)[b].org = block[b].org
             /\ Drawn(take)[b].remaining = block[b].remaining - take[b]
  <2>1. block[b] \in BlockRow /\ take[b] \in Nat /\ take[b] <= block[b].remaining
    BY <1>1 DEF TypeOK
  <2>2. Drawn(take)[b] = [block[b] EXCEPT !.remaining = block[b].remaining - take[b]]
    BY DEF Drawn
  <2>3. block[b].remaining - take[b] \in Nat
    BY <2>1 DEF BlockRow
  <2> QED
    BY <2>1, <2>2, <2>3 DEF BlockRow
<1>3. Drawn(take) \in BlockTable
  BY <1>2 DEF BlockTable, Drawn
<1>4. TakenFrom(take, o) \in [BlockIds -> Nat]
  BY <1>1 DEF TakenFrom
<1>5. \A b \in BlockIds : TakenFrom(take, o)[b] <= RemainingOf(block, o)[b]
  <2> SUFFICES ASSUME NEW b \in BlockIds PROVE TakenFrom(take, o)[b] <= RemainingOf(block, o)[b]
    OBVIOUS
  <2>1. /\ TakenFrom(take, o)[b] = IF block[b].org = o THEN take[b] ELSE 0
        /\ RemainingOf(block, o)[b] = IF block[b].org = o THEN block[b].remaining ELSE 0
    BY DEF TakenFrom, RemainingOf
  <2> QED
    BY <2>1
<1>6. \A b \in BlockIds :
        /\ Drawn(take)[b].org = block[b].org
        /\ block[b].org = o => Drawn(take)[b].remaining = block[b].remaining - TakenFrom(take, o)[b]
  BY <1>2 DEF TakenFrom
<1> QED
  BY <1>2, <1>3, <1>4, <1>5, <1>6, CreditDraw, Tables

LEMMA BalanceUnmoved ==
  ASSUME BalanceEquation, Unmoved
  PROVE  BalanceEquation'
<1>1. \A o : Remaining(o)' = Remaining(o)
  BY DEF Unmoved, Remaining
<1>2. \A o : Withheld(o)' = Withheld(o)
  BY DEF Unmoved, Withheld
<1> QED
  BY <1>1, <1>2 DEF Unmoved, BalanceEquation, Credit, Held

LEMMA BalanceFund ==
  ASSUME TypeOK, TypeOK', BalanceEquation, NEW o \in Orgs, NEW kind, NEW n \in Nat, NEW ref,
         NEW x \in BlockIds, FundShape(o, kind, n, ref, x)
  PROVE  BalanceEquation'
<1>1. /\ Sum(RemainingOf(block', o)) = Sum(RemainingOf(block, o)) + n
      /\ \A p \in Orgs \ {o} : Sum(RemainingOf(block', p)) = Sum(RemainingOf(block, p))
  <2>1. block \in BlockTable /\ block' \in BlockTable
    BY DEF TypeOK, BlockTable
  <2>2. block[x].org = None
    BY DEF FundShape, IsBlock
  <2>3. /\ block'[x].org = o /\ block'[x].remaining = n
        /\ \A b \in BlockIds \ {x} : block'[b] = block[b]
    BY DEF FundShape, NewBlock
  <2>4. Sum(RemainingOf(block', o)) = Sum(RemainingOf(block, o)) + n
    BY <2>1, <2>2, <2>3, CreditFund
  <2>5. \A p \in Orgs \ {o} : Sum(RemainingOf(block', p)) = Sum(RemainingOf(block, p))
    BY <2>1, <2>2, <2>3, CreditFund
  <2> QED
    BY <2>4, <2>5
<1>2. /\ hold' = hold
      /\ \A p \in Orgs : balance'[p] = IF p = o THEN balance[p] + n ELSE balance[p]
  BY DEF FundShape
<1> SUFFICES ASSUME NEW p \in Orgs
             PROVE  balance'[p] = Sum(RemainingOf(block', p)) - Sum(WithheldOf(hold', p))
  BY BalanceForms
<1>3. /\ balance[p] = Sum(RemainingOf(block, p)) - Sum(WithheldOf(hold, p))
      /\ Sum(RemainingOf(block, p)) \in Nat /\ Sum(WithheldOf(hold, p)) \in Nat
  BY BalanceForms, Tables
<1> QED
  BY <1>1, <1>2, <1>3

LEMMA BalanceRevoke ==
  ASSUME TypeOK, TypeOK', BalanceEquation, NEW o \in Orgs, NEW T \in SUBSET BlockIds,
         NEW take \in [T -> Nat], RevokeShape(o, T, take)
  PROVE  BalanceEquation'
<1> DEFINE all == [b \in BlockIds |-> IF b \in T THEN take[b] ELSE 0]
<1>1. /\ \A b \in T : /\ block[b].org = o /\ block'[b].org = o
                      /\ take[b] <= block[b].remaining
                      /\ block'[b].remaining = block[b].remaining - take[b]
      /\ \A b \in BlockIds \ T : block'[b] = block[b]
      /\ \A p \in Orgs : balance'[p] = IF p = o THEN balance[p] - Sum(take) ELSE balance[p]
      /\ hold' = hold
      /\ Sum(take) \in Nat
  BY DEF RevokeShape
<1>2. all \in [BlockIds -> Nat]
  OBVIOUS
<1>3. Sum(take) = Sum(all)
  BY <1>2, SumSupport
<1>4. \A b \in BlockIds : all[b] <= RemainingOf(block, o)[b]
  <2> SUFFICES ASSUME NEW b \in BlockIds PROVE all[b] <= RemainingOf(block, o)[b]
    OBVIOUS
  <2>1. RemainingOf(block, o)[b] \in Nat
    BY RemainingType, Tables
  <2>2. CASE b \in T
    BY <1>1, <2>2 DEF RemainingOf
  <2>3. CASE b \notin T
    BY <2>1, <2>3
  <2> QED
    BY <2>2, <2>3
<1>5. \A b \in BlockIds : /\ block'[b].org = block[b].org
                          /\ block[b].org = o => block'[b].remaining = block[b].remaining - all[b]
  <2> TAKE b \in BlockIds
  <2>1. block[b].remaining \in Nat
    BY DEF TypeOK, BlockRow
  <2> QED
    BY <1>1, <2>1
<1>6. block \in BlockTable /\ block' \in BlockTable
  BY DEF TypeOK, BlockTable
<1> HIDE DEF all
<1>7. Sum(RemainingOf(block', o)) = Sum(RemainingOf(block, o)) - Sum(all)
  BY <1>2, <1>4, <1>5, <1>6, CreditDraw
<1>8. \A p \in Orgs \ {o} : Sum(RemainingOf(block', p)) = Sum(RemainingOf(block, p))
  <2> TAKE p \in Orgs \ {o}
  <2>1. \A b \in BlockIds : \/ block'[b].org = block[b].org /\ block'[b].remaining = block[b].remaining
                            \/ block'[b].org # p /\ block[b].org # p
    BY <1>1
  <2> QED
    BY <1>6, <2>1, CreditSame
<1> SUFFICES ASSUME NEW p \in Orgs
             PROVE  balance'[p] = Sum(RemainingOf(block', p)) - Sum(WithheldOf(hold', p))
  BY BalanceForms
<1>9. /\ balance[p] = Sum(RemainingOf(block, p)) - Sum(WithheldOf(hold, p))
      /\ Sum(RemainingOf(block, p)) \in Nat /\ Sum(WithheldOf(hold, p)) \in Nat
  BY BalanceForms, Tables
<1> QED
  BY <1>1, <1>3, <1>7, <1>8, <1>9

(* A reserve opens a hold where none was, so the held total rises by it. *)
LEMMA BalanceOpen ==
  ASSUME TypeOK, TypeOK', BalanceEquation, NEW c \in Calls, NEW o \in Orgs, NEW n \in Nat,
         HoldOpened(c, o, n)
  PROVE  BalanceEquation'
<1>1. /\ ~IsOpen(c) /\ hold'[c].org = o /\ hold'[c].amount = n
      /\ \A x \in Calls \ {c} : hold'[x] = hold[x]
      /\ \A p \in Orgs : balance'[p] = IF p = o THEN balance[p] - n ELSE balance[p]
      /\ block' = block
  BY DEF HoldOpened
<1>2. hold \in HoldTable /\ hold' \in HoldTable
  BY DEF TypeOK, HoldTable
<1> SUFFICES ASSUME NEW p \in Orgs
             PROVE  balance'[p] = Sum(RemainingOf(block', p)) - Sum(WithheldOf(hold', p))
  BY BalanceForms
<1>3. /\ balance[p] = Sum(RemainingOf(block, p)) - Sum(WithheldOf(hold, p))
      /\ Sum(RemainingOf(block, p)) \in Nat /\ Sum(WithheldOf(hold, p)) \in Nat
  BY BalanceForms, Tables
<1>4. \A x \in Calls \ {c} : hold'[x].org = hold[x].org /\ hold'[x].amount = hold[x].amount
  BY <1>1
<1>5. Sum(WithheldOf(hold', p)) = Sum(WithheldOf(hold, p)) - WithheldOf(hold, p)[c] + WithheldOf(hold', p)[c]
  BY <1>2, <1>4, HeldUpdate
<1>6. WithheldOf(hold, p)[c] = 0
  BY <1>1, LedgerAssumption DEF WithheldOf, IsOpen, LedgerAssumption
<1>7. WithheldOf(hold', p)[c] = IF p = o THEN n ELSE 0
  BY <1>1 DEF WithheldOf
<1> QED
  BY <1>1, <1>3, <1>5, <1>6, <1>7

(* A close frees what was held and charges what was drawn.                 *)
LEMMA BalanceClose ==
  ASSUME TypeOK, TypeOK', BalanceEquation, NEW S \in SUBSET Calls, NEW R \in SUBSET Calls,
         NEW n \in Amounts, NEW take \in Takes, HoldsClosed(S, R, n), MoneyDrawn(S, R, n, take)
  PROVE  BalanceEquation'
<1> SUFFICES ASSUME NEW p \in Orgs
             PROVE  balance'[p] = Sum(RemainingOf(block', p)) - Sum(WithheldOf(hold', p))
  BY BalanceForms
<1> DEFINE mid == Drawn(take)
<1>1. /\ balance[p] = Sum(RemainingOf(block, p)) - Sum(WithheldOf(hold, p))
      /\ Sum(RemainingOf(block, p)) \in Nat /\ Sum(WithheldOf(hold, p)) \in Nat
  BY BalanceForms, Tables
<1>2. Sum(WithheldOf(hold, p)) = Sum(WithheldOf(hold', p)) + Sum(FreedOf(S \cup R, p))
  <2>1. S \cup R \in SUBSET Calls
    OBVIOUS
  <2> QED
    BY <2>1, HeldClosed DEF HoldsClosed
<1>3. Sum(FreedOf(S \cup R, p)) \in Nat /\ Sum(ChargedTo(S, n, p)) \in Nat
  <2>1. S \cup R \in SUBSET Calls
    OBVIOUS
  <2> QED
    BY <2>1, CloseTypes
<1>4. /\ mid \in BlockTable
      /\ \A b \in BlockIds : mid[b].org = block[b].org
      /\ Sum(RemainingOf(mid, p)) = Sum(RemainingOf(block, p)) - Sum(TakenFrom(take, p))
  BY CreditDrawn DEF MoneyDrawn
<1>5. Sum(TakenFrom(take, p)) = Sum(ChargedTo(S, n, p))
  BY DEF MoneyDrawn
<1>6. Sum(WithheldOf(hold', p)) \in Nat
  BY WithheldType DEF TypeOK, HoldTable
<1>7. Sum(RemainingOf(mid, p)) - Sum(WithheldOf(hold', p)) = Kept(S, R, n, p)
  BY <1>1, <1>2, <1>3, <1>4, <1>5, <1>6 DEF Kept
<1>8. CASE block' = mid /\ balance'[p] = Kept(S, R, n, p)
  BY <1>7, <1>8
<1>9. ASSUME NEW payee \in Orgs, NEW b \in BlockIds, NEW m \in Nat, NextBlock(b),
             block' = [mid EXCEPT ![b] = NewBlock(payee, "earned", m, None)],
             balance'[p] = Kept(S, R, n, p) + IF p = payee THEN m ELSE 0
      PROVE  balance'[p] = Sum(RemainingOf(block', p)) - Sum(WithheldOf(hold', p))
  <2>1. mid[b].org = None
    BY <1>4, <1>9 DEF NextBlock, IsBlock
  <2> HIDE DEF mid
  <2>2. /\ block'[b].org = payee /\ block'[b].remaining = m
        /\ \A x \in BlockIds \ {b} : block'[x] = mid[x]
    BY <1>4, <1>9 DEF NewBlock, BlockTable
  <2>3. block' \in BlockTable
    BY DEF TypeOK, BlockTable
  <2>4. Sum(RemainingOf(block', payee)) = Sum(RemainingOf(mid, payee)) + m
    BY <1>4, <2>1, <2>2, <2>3, CreditFund
  <2>5. \A q \in Orgs \ {payee} : Sum(RemainingOf(block', q)) = Sum(RemainingOf(mid, q))
    BY <1>4, <2>1, <2>2, <2>3, CreditFund
  <2>6. Sum(RemainingOf(mid, p)) \in Nat /\ Sum(RemainingOf(mid, payee)) \in Nat
    BY <1>4, RemainingType
  <2>7. Sum(RemainingOf(block', p)) = Sum(RemainingOf(mid, p)) + IF p = payee THEN m ELSE 0
    BY <2>4, <2>5, <2>6
  <2> QED
    BY <1>6, <1>7, <1>9, <2>6, <2>7
<1> HIDE DEF mid
<1>10. \/ block' = mid /\ balance'[p] = Kept(S, R, n, p)
       \/ \E payee \in Orgs, b \in BlockIds, m \in Nat :
            /\ NextBlock(b)
            /\ block' = [mid EXCEPT ![b] = NewBlock(payee, "earned", m, None)]
            /\ balance'[p] = Kept(S, R, n, p) + IF p = payee THEN m ELSE 0
  BY DEF MoneyDrawn, mid
<1> QED
  BY <1>8, <1>9, <1>10

LEMMA BalanceKept ==
  ASSUME TypeOK, TypeOK', BalanceEquation, MoneyStep
  PROVE  BalanceEquation'
  BY BalanceUnmoved, BalanceFund, BalanceRevoke, BalanceOpen, BalanceClose DEF MoneyStep

-----------------------------------------------------------------------------
(* Refunds *)

WithinTarget(b) ==
  /\ block[b].taken <= block[b].target
  /\ block[b].target <= block[b].amount
  /\ block[b].taken + block[b].remaining <= block[b].amount

LEMMA TargetKept ==
  ASSUME TypeOK, TypeOK', RevokedWithinTarget, MoneyStep
  PROVE  RevokedWithinTarget'
<1> SUFFICES ASSUME NEW b \in BlockIds PROVE WithinTarget(b)'
  BY DEF RevokedWithinTarget, WithinTarget
<1>0. WithinTarget(b)
  BY DEF RevokedWithinTarget, WithinTarget
<1>1. block[b] \in BlockRow /\ block'[b] \in BlockRow
  BY DEF TypeOK
<1>2. /\ block[b].taken \in Nat /\ block[b].target \in Nat /\ block[b].amount \in Nat
      /\ block[b].remaining \in Nat
  BY <1>1 DEF BlockRow
<1>3. block'[b] = block[b] => WithinTarget(b)'
  BY <1>0 DEF WithinTarget
<1>4. ASSUME NEW o, NEW kind, NEW n \in Nat, NEW ref, block'[b] = NewBlock(o, kind, n, ref)
      PROVE  WithinTarget(b)'
  BY <1>4 DEF WithinTarget, NewBlock
<1>5. CASE Unmoved
  BY <1>3, <1>5 DEF Unmoved
<1>6. ASSUME NEW o \in Orgs, NEW kind \in Kinds, NEW n \in Nat, NEW ref \in Refs \cup {None},
             NEW x \in BlockIds, FundShape(o, kind, n, ref, x)
      PROVE  WithinTarget(b)'
  BY <1>3, <1>4, <1>6 DEF FundShape
<1>7. ASSUME NEW c, NEW o, NEW n, HoldOpened(c, o, n) PROVE WithinTarget(b)'
  BY <1>3, <1>7 DEF HoldOpened
<1>8. ASSUME NEW o \in Orgs, NEW T \in SUBSET BlockIds, NEW take \in [T -> Nat],
             RevokeShape(o, T, take)
      PROVE  WithinTarget(b)'
  <2>1. CASE b \notin T
    BY <1>3, <1>8, <2>1 DEF RevokeShape
  <2>2. CASE b \in T
    <3>1. /\ take[b] \in Nat
          /\ block'[b].amount = block[b].amount
          /\ take[b] <= block[b].remaining
          /\ block'[b].remaining = block[b].remaining - take[b]
          /\ block'[b].taken = block[b].taken + take[b]
          /\ block[b].target <= block'[b].target
          /\ block'[b].target = block[b].target \/ block'[b].target <= block[b].amount
          /\ take[b] > 0 => block'[b].taken <= block'[b].target
      BY <1>8, <2>2 DEF RevokeShape
    <3>2. block'[b].target \in Nat
      BY <1>1 DEF BlockRow
    <3> QED
      BY <1>0, <1>2, <3>1, <3>2 DEF WithinTarget
  <2> QED
    BY <2>1, <2>2
<1>9. ASSUME NEW S \in SUBSET Calls, NEW R \in SUBSET Calls, NEW n \in Amounts,
             NEW take \in Takes, MoneyDrawn(S, R, n, take)
      PROVE  WithinTarget(b)'
  <2>1. /\ take[b] \in Nat /\ take[b] <= block[b].remaining
        /\ \/ SameBlock(b, block[b].remaining - take[b])
           \/ \E payee \in Orgs, m \in Nat : block'[b] = NewBlock(payee, "earned", m, None)
    BY <1>9, ClosingBlocks
  <2>2. CASE SameBlock(b, block[b].remaining - take[b])
    BY <1>0, <1>2, <2>1, <2>2 DEF SameBlock, WithinTarget
  <2> QED
    BY <1>4, <2>1, <2>2
<1> QED
  BY <1>5, <1>6, <1>7, <1>8, <1>9 DEF MoneyStep

LEMMA TargetInit == Init => RevokedWithinTarget
  BY DEF Init, RevokedWithinTarget, NoBlock

-----------------------------------------------------------------------------
(* Overdrafts *)

OverrunOf(o) ==
  [c \in Calls |-> IF closing[c].kind = "settle" /\ closing[c].org = o
                   THEN NonNeg(closing[c].amount - closing[c].reserved) ELSE 0]

LEMMA OverrunType ==
  ASSUME TypeOK, NEW o
  PROVE  OverrunOf(o) \in [Calls -> Nat] /\ Overrun(o) = Sum(OverrunOf(o)) /\ Overrun(o) \in Nat
<1>1. OverrunOf(o) \in [Calls -> Nat]
  BY DEF OverrunOf, NonNeg, TypeOK, EntryRow
<1>2. Overrun(o) = Sum(OverrunOf(o))
  BY DEF Overrun, OverrunOf
<1> QED
  BY <1>1, <1>2, FiniteRows, SumType

LEMMA OverrunTypeNext ==
  ASSUME TypeOK', NEW o
  PROVE  /\ OverrunOf(o)' \in [Calls -> Nat] /\ Overrun(o)' = Sum(OverrunOf(o)')
         /\ Overrun(o)' \in Nat
<1>1. OverrunOf(o)' \in [Calls -> Nat]
  BY DEF OverrunOf, NonNeg, TypeOK, EntryRow
<1>2. Overrun(o)' = Sum(OverrunOf(o)')
  BY DEF Overrun, OverrunOf
<1> QED
  BY <1>1, <1>2, FiniteRows, SumType

(* What a close charges beyond what it frees shows as overrun. *)
LEMMA OverrunCloses ==
  ASSUME TypeOK, TypeOK', ClosesOnce, NEW S \in SUBSET Calls, NEW R \in SUBSET Calls,
         NEW n \in Amounts, NEW take \in Takes, HoldsClosed(S, R, n), MoneyDrawn(S, R, n, take),
         NEW o \in Orgs, balance[o] + Overrun(o) >= 0
  PROVE  balance'[o] + Overrun(o)' >= 0
<1> DEFINE C == S \cup R
           charged == ChargedTo(S, n, o)
           freed == FreedOf(C, o)
           f == OverrunOf(o)
           f1 == OverrunOf(o)'
           both == [c \in Calls |-> freed[c] + f1[c]]
           part == [c \in Calls |-> charged[c] + f[c]]
<1>1. C \in SUBSET Calls
  OBVIOUS
<1>2. /\ charged \in [Calls -> Nat] /\ freed \in [Calls -> Nat]
      /\ Sum(charged) \in Nat /\ Sum(freed) \in Nat
  BY <1>1, CloseTypes DEF Amounts
<1>3. /\ f \in [Calls -> Nat] /\ f1 \in [Calls -> Nat]
      /\ Overrun(o) = Sum(f) /\ Overrun(o)' = Sum(f1) /\ Sum(f) \in Nat /\ Sum(f1) \in Nat
  BY OverrunType, OverrunTypeNext
<1>4. ASSUME NEW c \in Calls
      PROVE  charged[c] + f[c] <= freed[c] + f1[c]
  <2>1. /\ charged[c] \in Nat /\ f[c] \in Nat /\ freed[c] \in Nat /\ f1[c] \in Nat
    BY <1>2, <1>3
  <2>2. f1[c] = IF closing'[c].kind = "settle" /\ closing'[c].org = o
                THEN NonNeg(closing'[c].amount - closing'[c].reserved) ELSE 0
    BY DEF OverrunOf
  <2>3. CASE c \in S
    <3>1. /\ closing[c].kind = "none"
          /\ closing'[c].kind = "settle" /\ closing'[c].org = hold[c].org
          /\ closing'[c].reserved = hold[c].amount /\ closing'[c].amount = n[c]
      BY <2>3 DEF HoldsClosed, ClosesOnce
    <3>2. f[c] = 0
      BY <3>1 DEF OverrunOf
    <3>3. f1[c] = IF hold[c].org = o THEN NonNeg(n[c] - hold[c].amount) ELSE 0
      BY <2>2, <3>1
    <3>4. /\ charged[c] = IF hold[c].org = o THEN n[c] ELSE 0
          /\ freed[c] = IF hold[c].org = o THEN hold[c].amount ELSE 0
      BY <2>3 DEF ChargedTo, FreedOf
    <3>5. n[c] \in Nat /\ hold[c].amount \in Nat
      BY DEF Amounts, TypeOK, HoldRow
    <3> HIDE DEF charged, freed, f, f1
    <3> QED
      BY <3>2, <3>3, <3>4, <3>5 DEF NonNeg
  <2>4. CASE c \notin S
    <3>1. charged[c] = 0
      BY <2>4 DEF ChargedTo
    <3>2. f[c] <= f1[c]
      <4>1. CASE c \in R
        <5>1. closing[c].kind = "none"
          BY <4>1 DEF HoldsClosed, ClosesOnce
        <5>2. f[c] = 0
          BY <5>1 DEF OverrunOf
        <5> QED
          BY <2>1, <5>2
      <4>2. CASE c \notin R
        <5>1. closing'[c] = closing[c]
          BY <2>4, <4>2 DEF HoldsClosed
        <5>2. f1[c] = f[c]
          BY <2>2, <5>1 DEF OverrunOf
        <5> QED
          BY <2>1, <5>2
      <4> QED
        BY <4>1, <4>2
    <3> HIDE DEF charged, freed, f, f1
    <3> QED
      BY <2>1, <3>1, <3>2
  <2> QED
    BY <2>3, <2>4
<1>5. balance'[o] >= Kept(S, R, n, o) /\ Kept(S, R, n, o) \in Int
  BY ClosingBalance
<1>6. Kept(S, R, n, o) = balance[o] + Sum(freed) - Sum(charged)
  BY DEF Kept
<1> HIDE DEF C, charged, freed, f, f1
<1>7. both \in [Calls -> Nat] /\ part \in [Calls -> Nat]
  BY <1>2, <1>3
<1>8. /\ \A c \in Calls : both[c] = freed[c] + f1[c]
      /\ \A c \in Calls : part[c] = charged[c] + f[c]
  OBVIOUS
<1>9. \A c \in Calls : part[c] <= both[c]
  BY <1>4, <1>8
<1> HIDE DEF both, part
<1>10. Sum(both) = Sum(freed) + Sum(f1)
  BY <1>2, <1>3, <1>7, <1>8, FiniteRows, SumAdd
<1>11. Sum(part) = Sum(charged) + Sum(f)
  <2>1. /\ charged \in [Calls -> Nat] /\ f \in [Calls -> Nat] /\ part \in [Calls -> Nat]
        /\ \A c \in Calls : part[c] = charged[c] + f[c]
    BY <1>2, <1>3, <1>7, <1>8
  <2> QED
    BY <2>1, FiniteRows, SumAdd
<1>12. Sum(part) <= Sum(both)
  BY <1>7, <1>9, FiniteRows, SumMono
<1>13. balance[o] \in Int /\ balance'[o] \in Int
  BY DEF TypeOK
<1> QED
  BY <1>2, <1>3, <1>5, <1>6, <1>10, <1>11, <1>12, <1>13

LEMMA OverdraftKept ==
  ASSUME TypeOK, TypeOK', ClosesOnce, OverdraftBounded, MoneyStep
  PROVE  OverdraftBounded'
<1> SUFFICES ASSUME NEW o \in Orgs PROVE balance'[o] + Overrun(o)' >= 0
  BY DEF OverdraftBounded
<1>1. /\ balance[o] + Overrun(o) >= 0 /\ Overrun(o) \in Nat
      /\ balance[o] \in Int /\ balance'[o] \in Int
  BY OverrunType DEF OverdraftBounded, TypeOK
<1>2. ASSUME UNCHANGED closing, balance'[o] >= 0 \/ balance'[o] >= balance[o]
      PROVE  balance'[o] + Overrun(o)' >= 0
  <2>1. Overrun(o)' = Overrun(o)
    BY <1>2 DEF Overrun
  <2> QED
    BY <1>1, <1>2, <2>1
<1>3. CASE Unmoved
  BY <1>1, <1>2, <1>3 DEF Unmoved
<1>4. ASSUME NEW p \in Orgs, NEW kind \in Kinds, NEW n \in Nat, NEW ref \in Refs \cup {None},
             NEW x \in BlockIds, FundShape(p, kind, n, ref, x)
      PROVE  balance'[o] + Overrun(o)' >= 0
  <2>1. /\ balance'[o] = IF o = p THEN balance[o] + n ELSE balance[o]
        /\ UNCHANGED closing
    BY <1>4 DEF FundShape
  <2> QED
    BY <1>1, <1>2, <2>1
<1>5. ASSUME NEW p \in Orgs, NEW T \in SUBSET BlockIds, NEW take \in [T -> Nat],
             RevokeShape(p, T, take)
      PROVE  balance'[o] + Overrun(o)' >= 0
  <2>1. /\ balance'[o] = IF o = p THEN balance[o] - Sum(take) ELSE balance[o]
        /\ Sum(take) \in Nat /\ Sum(take) <= Unheld(p) /\ UNCHANGED closing
    BY <1>5 DEF RevokeShape
  <2>2. balance'[o] >= 0 \/ balance'[o] = balance[o]
    BY <1>1, <2>1 DEF Unheld, NonNeg
  <2> QED
    BY <1>1, <1>2, <2>1, <2>2
<1>6. ASSUME NEW c \in Calls, NEW p \in Orgs, NEW n \in Nat, HoldOpened(c, p, n)
      PROVE  balance'[o] + Overrun(o)' >= 0
  <2>1. /\ UNCHANGED closing
        /\ balance[p] >= n
        /\ balance'[o] = IF o = p THEN balance[o] - n ELSE balance[o]
    BY <1>6 DEF HoldOpened
  <2> QED
    BY <1>1, <1>2, <2>1
<1> QED
  BY <1>1, <1>3, <1>4, <1>5, <1>6, OverrunCloses DEF MoneyStep

-----------------------------------------------------------------------------
(* The journal and the blocks *)

ChargedOf(o) ==
  [c \in Calls |-> IF closing[c].kind = "settle" /\ closing[c].org = o
                   THEN closing[c].amount ELSE 0]
ConsumedOf(o) ==
  [b \in BlockIds |-> IF block[b].org = o
                      THEN block[b].amount - block[b].taken - block[b].remaining ELSE 0]

LEMMA JournalType ==
  ASSUME TypeOK, RevokedWithinTarget, NEW o
  PROVE  /\ ChargedOf(o) \in [Calls -> Nat] /\ Charged(o) = Sum(ChargedOf(o))
         /\ ConsumedOf(o) \in [BlockIds -> Nat] /\ Consumed(o) = Sum(ConsumedOf(o))
<1>1. ChargedOf(o) \in [Calls -> Nat]
  BY DEF ChargedOf, TypeOK, EntryRow
<1>2. \A b \in BlockIds : block[b].amount - block[b].taken - block[b].remaining \in Nat
  BY DEF RevokedWithinTarget, TypeOK, BlockRow
<1>3. ConsumedOf(o) \in [BlockIds -> Nat]
  BY <1>2 DEF ConsumedOf
<1> QED
  BY <1>1, <1>3 DEF Charged, ChargedOf, Consumed, ConsumedOf

LEMMA JournalTypeNext ==
  ASSUME TypeOK', RevokedWithinTarget', NEW o
  PROVE  /\ ChargedOf(o)' \in [Calls -> Nat] /\ Charged(o)' = Sum(ChargedOf(o)')
         /\ ConsumedOf(o)' \in [BlockIds -> Nat] /\ Consumed(o)' = Sum(ConsumedOf(o)')
<1>1. ChargedOf(o)' \in [Calls -> Nat]
  BY DEF ChargedOf, TypeOK, EntryRow
<1>2. \A b \in BlockIds : block'[b].amount - block'[b].taken - block'[b].remaining \in Nat
  BY DEF RevokedWithinTarget, TypeOK, BlockRow
<1>3. ConsumedOf(o)' \in [BlockIds -> Nat]
  BY <1>2 DEF ConsumedOf
<1> QED
  BY <1>1, <1>3 DEF Charged, ChargedOf, Consumed, ConsumedOf

(* What left a block by a draw; funding and refunds change none of it. *)
Used(b) == block[b].amount - block[b].taken - block[b].remaining

LEMMA ConsumedSame ==
  ASSUME NEW o \in Orgs,
         \A b \in BlockIds : \/ block'[b].org = block[b].org /\ Used(b)' = Used(b)
                             \/ ~IsBlock(b) /\ Used(b)' = 0
  PROVE  Consumed(o)' = Consumed(o)
<1>1. o # None
  BY LedgerAssumption DEF LedgerAssumption
<1>2. \A b \in BlockIds : ConsumedOf(o)'[b] = ConsumedOf(o)[b]
  BY <1>1 DEF ConsumedOf, Used, IsBlock
<1>3. ConsumedOf(o)' = ConsumedOf(o)
  BY <1>2 DEF ConsumedOf
<1> QED
  BY <1>3 DEF Consumed, ConsumedOf

LEMMA FreshUsed ==
  ASSUME NEW b, NEW o, NEW kind, NEW n \in Nat, NEW ref, block'[b] = NewBlock(o, kind, n, ref)
  PROVE  Used(b)' = 0
  BY DEF Used, NewBlock

LEMMA JournalCloses ==
  ASSUME TypeOK, TypeOK', ClosesOnce, RevokedWithinTarget, RevokedWithinTarget',
         NEW S \in SUBSET Calls, NEW R \in SUBSET Calls, NEW n \in Amounts, NEW take \in Takes,
         HoldsClosed(S, R, n), MoneyDrawn(S, R, n, take), NEW o \in Orgs,
         Charged(o) = Consumed(o)
  PROVE  Charged(o)' = Consumed(o)'
<1> DEFINE charged == ChargedTo(S, n, o)
           taken == TakenFrom(take, o)
           f == ChargedOf(o)
           f1 == ChargedOf(o)'
           g == ConsumedOf(o)
           g1 == ConsumedOf(o)'
<1>1. o # None
  BY LedgerAssumption DEF LedgerAssumption
<1>2. charged \in [Calls -> Nat]
  BY CloseTypes DEF Amounts
<1>3. taken \in [BlockIds -> Nat]
  BY DEF TakenFrom, Takes
<1>4. /\ f \in [Calls -> Nat] /\ f1 \in [Calls -> Nat]
      /\ g \in [BlockIds -> Nat] /\ g1 \in [BlockIds -> Nat]
      /\ Charged(o) = Sum(f) /\ Charged(o)' = Sum(f1)
      /\ Consumed(o) = Sum(g) /\ Consumed(o)' = Sum(g1)
  BY JournalType, JournalTypeNext
<1>5. Sum(taken) = Sum(charged)
  BY DEF MoneyDrawn
<1>6. ASSUME NEW c \in Calls PROVE f1[c] = f[c] + charged[c]
  <2>1. f1[c] = IF closing'[c].kind = "settle" /\ closing'[c].org = o THEN closing'[c].amount ELSE 0
    BY DEF ChargedOf
  <2>2. f[c] \in Nat /\ charged[c] \in Nat
    BY <1>2, <1>4
  <2>3. CASE c \in S
    <3>1. /\ closing[c].kind = "none"
          /\ closing'[c].kind = "settle" /\ closing'[c].org = hold[c].org
          /\ closing'[c].amount = n[c]
      BY <2>3 DEF HoldsClosed, ClosesOnce
    <3>2. f[c] = 0
      BY <3>1 DEF ChargedOf
    <3>3. f1[c] = charged[c]
      BY <2>1, <2>3, <3>1 DEF ChargedTo
    <3> QED
      BY <2>2, <3>2, <3>3
  <2>4. CASE c \in R
    <3>1. closing[c].kind = "none" /\ closing'[c].kind = "release"
      BY <2>4 DEF HoldsClosed, ClosesOnce
    <3>2. f[c] = 0 /\ f1[c] = 0
      BY <2>1, <3>1 DEF ChargedOf
    <3>3. charged[c] = 0
      BY <2>4 DEF HoldsClosed, ChargedTo
    <3> QED
      BY <3>2, <3>3
  <2>5. CASE c \notin S \cup R
    <3>1. closing'[c] = closing[c]
      BY <2>5 DEF HoldsClosed
    <3>2. f1[c] = f[c]
      BY <2>1, <3>1 DEF ChargedOf
    <3>3. charged[c] = 0
      BY <2>5 DEF ChargedTo
    <3> QED
      BY <2>2, <3>2, <3>3
  <2> QED
    BY <2>3, <2>4, <2>5
<1>7. ASSUME NEW b \in BlockIds PROVE g1[b] = g[b] + taken[b]
  <2>1. g[b] = IF block[b].org = o THEN Used(b) ELSE 0
    BY DEF ConsumedOf, Used
  <2>2. g1[b] = IF block'[b].org = o THEN Used(b)' ELSE 0
    BY DEF ConsumedOf, Used
  <2>3. taken[b] = IF block[b].org = o THEN take[b] ELSE 0
    BY DEF TakenFrom
  <2>4. g[b] \in Nat /\ taken[b] \in Nat /\ take[b] \in Nat
    BY <1>3, <1>4 DEF Takes
  <2>5. CASE SameBlock(b, block[b].remaining - take[b])
    <3>1. Used(b)' = Used(b) + take[b] /\ Used(b) \in Int
      BY <2>4, <2>5 DEF SameBlock, Used, TypeOK, BlockRow
    <3>2. block'[b].org = block[b].org
      BY <2>5 DEF SameBlock
    <3> HIDE DEF g, g1, taken
    <3> QED
      BY <2>1, <2>2, <2>3, <2>4, <3>1, <3>2
  <2>6. CASE /\ ~IsBlock(b) /\ take[b] = 0
             /\ \E payee \in Orgs, m \in Nat : block'[b] = NewBlock(payee, "earned", m, None)
    <3>1. Used(b)' = 0
      BY <2>6, FreshUsed
    <3>2. block[b].org # o
      BY <1>1, <2>6 DEF IsBlock
    <3> HIDE DEF g, g1, taken
    <3> QED
      BY <2>1, <2>2, <2>3, <3>1, <3>2
  <2> QED
    BY <1>1, <2>5, <2>6, ClosingBlocks
<1> HIDE DEF charged, taken, f, f1, g, g1
<1>8. Sum(f1) = Sum(f) + Sum(charged)
  BY <1>2, <1>4, <1>6, FiniteRows, SumAdd
<1>9. Sum(g1) = Sum(g) + Sum(taken)
  BY <1>3, <1>4, <1>7, FiniteRows, SumAdd
<1> QED
  BY <1>4, <1>5, <1>8, <1>9

LEMMA JournalKept ==
  ASSUME TypeOK, TypeOK', ClosesOnce, RevokedWithinTarget, RevokedWithinTarget',
         JournalBacksBlocks, MoneyStep
  PROVE  JournalBacksBlocks'
<1> SUFFICES ASSUME NEW o \in Orgs PROVE Charged(o)' = Consumed(o)'
  BY DEF JournalBacksBlocks
<1>1. Charged(o) = Consumed(o)
  BY DEF JournalBacksBlocks
<1>2. ASSUME UNCHANGED closing PROVE Charged(o)' = Charged(o)
  BY <1>2 DEF Charged
<1>3. ASSUME UNCHANGED block PROVE Consumed(o)' = Consumed(o)
  BY <1>3 DEF Consumed
<1>4. CASE Unmoved
  BY <1>1, <1>2, <1>3, <1>4 DEF Unmoved
<1>5. ASSUME NEW p \in Orgs, NEW kind \in Kinds, NEW n \in Nat, NEW ref \in Refs \cup {None},
             NEW x \in BlockIds, FundShape(p, kind, n, ref, x)
      PROVE  Charged(o)' = Consumed(o)'
  <2>1. UNCHANGED closing
    BY <1>5 DEF FundShape
  <2>2. \A b \in BlockIds : \/ block'[b].org = block[b].org /\ Used(b)' = Used(b)
                            \/ ~IsBlock(b) /\ Used(b)' = 0
    <3>1. \A b \in BlockIds : block'[b] = block[b] => Used(b)' = Used(b)
      BY DEF Used
    <3> QED
      BY <1>5, <3>1, FreshUsed DEF FundShape
  <2>3. Consumed(o)' = Consumed(o)
    BY <2>2, ConsumedSame
  <2> QED
    BY <1>1, <1>2, <2>1, <2>3
<1>6. ASSUME NEW p \in Orgs, NEW T \in SUBSET BlockIds, NEW take \in [T -> Nat],
             RevokeShape(p, T, take)
      PROVE  Charged(o)' = Consumed(o)'
  <2>1. ASSUME NEW b \in BlockIds
        PROVE  block'[b].org = block[b].org /\ Used(b)' = Used(b)
    <3>1. CASE b \notin T
      BY <1>6, <3>1 DEF RevokeShape, Used
    <3>2. CASE b \in T
      <4>1. /\ block[b].org = p /\ block'[b].org = p
            /\ block'[b].amount = block[b].amount /\ take[b] \in Nat
            /\ block'[b].remaining = block[b].remaining - take[b]
            /\ block'[b].taken = block[b].taken + take[b]
        BY <1>6, <3>2 DEF RevokeShape
      <4>2. block[b].amount \in Nat /\ block[b].remaining \in Nat /\ block[b].taken \in Nat
        BY DEF TypeOK, BlockRow
      <4> QED
        BY <4>1, <4>2 DEF Used
    <3> QED
      BY <3>1, <3>2
  <2>2. Consumed(o)' = Consumed(o)
    BY <2>1, ConsumedSame
  <2> QED
    BY <1>1, <1>2, <1>6, <2>2 DEF RevokeShape
<1>7. ASSUME NEW c \in Calls, NEW p \in Orgs, NEW n \in Nat, HoldOpened(c, p, n)
      PROVE  Charged(o)' = Consumed(o)'
  BY <1>1, <1>2, <1>3, <1>7 DEF HoldOpened
<1> QED
  BY <1>1, <1>4, <1>5, <1>6, <1>7, JournalCloses DEF MoneyStep

-----------------------------------------------------------------------------
(* What every step keeps *)

Books == /\ BalanceEquation /\ RevokedWithinTarget
         /\ JournalBacksBlocks /\ OverdraftBounded

LEMMA BooksInit == Init => Books
<1> SUFFICES ASSUME Init PROVE Books
  OBVIOUS
<1>1. TypeOK /\ RevokedWithinTarget
  BY TypeInit, TargetInit
<1>2. ASSUME NEW o \in Orgs
      PROVE  /\ balance[o] = Credit(o) - Held(o)
             /\ balance[o] + Overrun(o) >= 0
             /\ Charged(o) = Consumed(o)
  <2>1. o # None /\ balance[o] = 0
    BY LedgerAssumption DEF LedgerAssumption, Init
  <2>2. /\ Remaining(o) \in [BlockIds -> Nat] /\ \A b \in BlockIds : Remaining(o)[b] = 0
        /\ Withheld(o) \in [Calls -> Nat] /\ \A c \in Calls : Withheld(o)[c] = 0
    BY <2>1 DEF Init, Remaining, Withheld, NoBlock, NoHold
  <2>3. Credit(o) = 0
    BY <2>2, SumZero DEF Credit
  <2>4. Held(o) = 0
    BY <2>2, SumZero DEF Held
  <2>5. Overrun(o) \in Nat
    BY <1>1, OverrunType
  <2>6. /\ \A c \in Calls : ChargedOf(o)[c] = 0
        /\ \A b \in BlockIds : ConsumedOf(o)[b] = 0
    BY DEF Init, ChargedOf, ConsumedOf, NoEntry, NoBlock
  <2>7. Charged(o) = Consumed(o)
    BY <1>1, <2>6, JournalType, SumZero
  <2> QED
    BY <2>1, <2>3, <2>4, <2>5, <2>7
<1> QED
  BY <1>1, <1>2 DEF Books, BalanceEquation, OverdraftBounded, JournalBacksBlocks

LEMMA BooksKept ==
  ASSUME TypeOK, TypeOK', ClosesOnce, Books, MoneyStep
  PROVE  Books'
<1>1. RevokedWithinTarget'
  BY TargetKept DEF Books
<1>2. BalanceEquation' /\ OverdraftBounded'
  BY BalanceKept, OverdraftKept DEF Books
<1>3. JournalBacksBlocks'
  BY <1>1, JournalKept DEF Books
<1> QED
  BY <1>1, <1>2, <1>3 DEF Books

LEMMA BooksHold == Spec => []Books
<1> DEFINE Inv == TypeOK /\ HoldLife /\ Books
<1>1. Init => Inv
  BY TypeInit, LifeInit, BooksInit
<1>2. Inv /\ [Next]_vars => Inv'
  <2> SUFFICES ASSUME Inv, [Next]_vars PROVE Inv'
    OBVIOUS
  <2>1. TypeOK' /\ HoldLife'
    BY TypeStep, LifeStep
  <2>2. MoneyStep
    BY MoneySteps
  <2> QED
    BY <2>1, <2>2, BooksKept DEF HoldLife
<1>3. Inv => Books
  OBVIOUS
<1> QED
  BY <1>1, <1>2, <1>3, PTL DEF Spec

(* An organization's balance is always what is left on its blocks minus what*)
(* its open holds withhold: no interleaving of grants, refunds, overruns,   *)
(* seller payments, batches and sweeps makes or loses a micro-USD.          *)
THEOREM BalanceHolds == Spec => []BalanceEquation
<1>1. Books => BalanceEquation
  BY DEF Books
<1> QED
  BY <1>1, BooksHold, PTL

(* The journal and the blocks tell the same story: what left a team's blocks*)
(* other than by a refund is the sum of its settle entries, however calls   *)
(* overran, were batched, or paid a seller.                                 *)
THEOREM JournalHolds == Spec => []JournalBacksBlocks
<1>1. Books => JournalBacksBlocks
  BY DEF Books
<1> QED
  BY <1>1, BooksHold, PTL

(* "The next reserve is the gate that stops an overrun from compounding": a*)
(* balance is below zero only by what settled calls cost beyond their own   *)
(* reserves.                                                                *)
THEOREM OverdraftHolds == Spec => []OverdraftBounded
<1>1. Books => OverdraftBounded
  BY DEF Books
<1> QED
  BY <1>1, BooksHold, PTL

(* However often and in whatever order refunds of a payment are reported, a*)
(* block gives back no more than the largest total reported and never what *)
(* was already consumed.                                                    *)
THEOREM RefundsBounded == Spec => []RevokedWithinTarget
<1>1. Books => RevokedWithinTarget
  BY DEF Books
<1> QED
  BY <1>1, BooksHold, PTL

(* A refund takes only credit no call in flight is holding. *)
THEOREM RefundsSpareHolds == Spec => RefundSparesHolds
<1> DEFINE Spared == \A b \in BlockIds : block'[b].taken > block[b].taken => balance'[block[b].org] >= 0
<1>1. TypeOK /\ TypeOK' /\ [Next]_vars => [Spared]_vars
  <2> SUFFICES ASSUME TypeOK, TypeOK', Next, NEW b \in BlockIds, block'[b].taken > block[b].taken
               PROVE  balance'[block[b].org] >= 0
    OBVIOUS
  <2>1. block[b].taken \in Nat /\ block'[b].taken \in Nat
    BY DEF TypeOK, BlockRow
  <2>2. block'[b] # block[b] /\ \A o, kind, n, ref : block'[b] # NewBlock(o, kind, n, ref)
    BY <2>1 DEF NewBlock
  <2>3. RevokeStep
    <3>1. ~QuietStep /\ ~FundStep /\ \A c \in Calls : ~ReserveDebit(c)
      BY <2>2, ShapeFund DEF FundShape, QuietStep, ReserveDebit
    <3>2. ASSUME NEW S \in SUBSET Calls, NEW R \in SUBSET Calls, NEW n \in Amounts,
                 NEW take \in Takes, MoneyDrawn(S, R, n, take)
          PROVE  FALSE
      <4>1. \/ SameBlock(b, block[b].remaining - take[b])
            \/ \E payee \in Orgs, m \in Nat : block'[b] = NewBlock(payee, "earned", m, None)
        BY <3>2, ClosingBlocks
      <4> QED
        BY <2>1, <2>2, <4>1 DEF SameBlock
    <3> QED
      BY <3>1, <3>2, StepShapes DEF ClosingStep, CloseStep
  <2>4. PICK o \in Orgs, T \in SUBSET BlockIds : \E take \in [T -> Nat] : RevokeShape(o, T, take)
    BY <2>3, RevokeMoves
  <2>5. PICK take \in [T -> Nat] : RevokeShape(o, T, take)
    BY <2>4
  <2>6. b \in T
    BY <2>2, <2>5 DEF RevokeShape
  <2>7. /\ block[b].org = o /\ take[b] \in Nat /\ take[b] <= Sum(take) /\ Sum(take) \in Nat
        /\ Sum(take) <= Unheld(o) /\ balance'[o] = balance[o] - Sum(take)
        /\ block'[b].taken = block[b].taken + take[b]
    BY <2>5, <2>6 DEF RevokeShape
  <2>8. balance[o] \in Int
    BY <2>4 DEF TypeOK
  <2> QED
    BY <2>1, <2>7, <2>8 DEF Unheld, NonNeg
<1>2. TypeOK /\ [Next]_vars => TypeOK'
  BY TypeStep
<1> QED
  BY <1>1, <1>2, TypeInit, PTL DEF Spec, RefundSparesHolds

-----------------------------------------------------------------------------
(* The burn order *)

CheapFirst(k) ==
  /\ \A c \in Calls : IsOpen(c) /\ ~IsOpen(c)' /\ closing'[c].kind = "settle"
                     => k >= hold[c].known
  /\ \A a, b \in BlockIds :
       /\ IsBlock(b) /\ block'[b].remaining < block[b].remaining
       /\ block'[b].taken = block[b].taken
       => /\ b <= k
          /\ /\ a <= k /\ block[a].org = block[b].org
             /\ KindOrder(block[a].kind) < KindOrder(block[b].kind)
             => block'[a].remaining = 0

(* A step that settles nothing and draws nothing keeps the order. *)
LEMMA NothingDrawn ==
  ASSUME \A c \in Calls : IsOpen(c) /\ ~IsOpen(c)' => closing'[c].kind # "settle",
         \A b \in BlockIds : /\ IsBlock(b) /\ block'[b].remaining < block[b].remaining
                             => block'[b].taken # block[b].taken
  PROVE  \E k \in 0 .. MaxBlocks : CheapFirst(k)
<1>1. 0 \in 0 .. MaxBlocks
  BY LedgerAssumption DEF LedgerAssumption
<1>2. CheapFirst(0)
  BY DEF CheapFirst
<1> QED
  BY <1>1, <1>2

LEMMA CloseCheapFirst ==
  ASSUME TypeOK, HoldLife, NEW S \in SUBSET Calls, NEW R \in SUBSET Calls,
         NEW n \in Amounts, NEW take \in Takes, CloseStep(S, R, n, take)
  PROVE  \E k \in 0 .. MaxBlocks : CheapFirst(k)
<1>1. /\ S \cap R = {} /\ RowsClosed(S, R, n) /\ ClosesOnce /\ MoneyDrawn(S, R, n, take)
      /\ InBurnOrder(S, take)
  BY DEF CloseStep, HoldLife
<1>2. PICK k \in 0 .. MaxBlocks :
        /\ \A c \in S : k >= hold[c].known
        /\ \A b \in BlockIds : take[b] > 0 => b <= k
        /\ \A a, b \in BlockIds :
             /\ take[b] > 0 /\ a <= k /\ block[a].org = block[b].org
             /\ KindOrder(block[a].kind) < KindOrder(block[b].kind)
             => take[a] = block[a].remaining
  BY <1>1 DEF InBurnOrder
<1>3. ASSUME NEW c \in Calls, IsOpen(c), ~IsOpen(c)', closing'[c].kind = "settle"
      PROVE  c \in S
  <2>1. CASE c \in R
    <3>1. closing'[c] = ReleaseEntry(c)
      BY <1>1, <2>1, ClosingRow
    <3> QED
      BY <1>3, <3>1 DEF ReleaseEntry
  <2>2. CASE c \notin S \cup R
    <3>1. IsOpen(c)' <=> IsOpen(c)
      BY <1>1, <2>2, ClosingRow
    <3> QED
      BY <1>3, <3>1
  <2> QED
    BY <2>1, <2>2
<1>4. ASSUME NEW b \in BlockIds, IsBlock(b)
      PROVE  /\ take[b] \in Nat /\ block[b].remaining \in Nat
             /\ block'[b].remaining = block[b].remaining - take[b]
  BY <1>1, <1>4, ClosingBlocks DEF SameBlock, TypeOK, BlockRow
<1>5. ASSUME NEW a \in BlockIds, NEW b \in BlockIds, IsBlock(b),
             block'[b].remaining < block[b].remaining
      PROVE  /\ b <= k
             /\ /\ a <= k /\ block[a].org = block[b].org
                /\ KindOrder(block[a].kind) < KindOrder(block[b].kind)
                => block'[a].remaining = 0
  <2>1. take[b] > 0
    BY <1>4, <1>5
  <2>2. ASSUME a <= k, block[a].org = block[b].org,
               KindOrder(block[a].kind) < KindOrder(block[b].kind)
        PROVE  block'[a].remaining = 0
    <3>1. take[a] = block[a].remaining
      BY <1>2, <2>1, <2>2
    <3>2. IsBlock(a)
      BY <1>5, <2>2 DEF IsBlock
    <3> QED
      BY <1>4, <3>1, <3>2
  <2> QED
    BY <1>2, <2>1, <2>2
<1>6. CheapFirst(k)
  BY <1>2, <1>3, <1>5 DEF CheapFirst
<1> QED
  BY <1>6

(* Free credit burns before earned and earned before paid, in every draw of*)
(* every settle, seller payment and batch.                                  *)
THEOREM CheapBurnsFirst == Spec => PaidCreditLast
<1>1. TypeOK /\ TypeOK' /\ HoldLife /\ [Next]_vars => \E k \in 0 .. MaxBlocks : CheapFirst(k)
  <2> SUFFICES ASSUME TypeOK, TypeOK', HoldLife, [Next]_vars
               PROVE  \E k \in 0 .. MaxBlocks : CheapFirst(k)
    OBVIOUS
  <2>1. \A b \in BlockIds : block[b].remaining \in Nat
    BY DEF TypeOK, BlockRow
  <2>2. ASSUME UNCHANGED block, \A c \in Calls : IsOpen(c) => IsOpen(c)'
        PROVE  \E k \in 0 .. MaxBlocks : CheapFirst(k)
    BY <2>1, <2>2, NothingDrawn
  <2>3. CASE QuietStep
    <3>1. \A c \in Calls : IsOpen(c)' <=> IsOpen(c)
      BY <2>3, QuietHolds
    <3> QED
      BY <2>2, <2>3, <3>1 DEF QuietStep
  <2>4. CASE FundStep
    <3>1. \A c \in Calls : IsOpen(c) => IsOpen(c)'
      BY <2>4 DEF FundStep, Fund, IsOpen
    <3>2. \A b \in BlockIds : IsBlock(b) => block'[b] = block[b]
      BY <2>4, ShapeFund DEF FundShape
    <3> QED
      BY <2>1, <3>1, <3>2, NothingDrawn
  <2>5. CASE RevokeStep
    <3>1. \A c \in Calls : IsOpen(c) => IsOpen(c)'
      BY <2>5 DEF RevokeStep, Revoke, IsOpen
    <3>2. PICK o \in Orgs, T \in SUBSET BlockIds : \E take \in [T -> Nat] : RevokeShape(o, T, take)
      BY <2>5, RevokeMoves
    <3>3. PICK take \in [T -> Nat] : RevokeShape(o, T, take)
      BY <3>2
    <3>4. ASSUME NEW b \in BlockIds, block'[b].remaining < block[b].remaining
          PROVE  block'[b].taken # block[b].taken
      <4>1. b \in T
        BY <2>1, <3>3, <3>4 DEF RevokeShape
      <4>2. /\ take[b] \in Nat
            /\ block'[b].remaining = block[b].remaining - take[b]
            /\ block'[b].taken = block[b].taken + take[b]
        BY <3>3, <4>1 DEF RevokeShape
      <4>3. block[b].taken \in Nat
        BY DEF TypeOK, BlockRow
      <4> QED
        BY <2>1, <3>4, <4>2, <4>3
    <3> QED
      BY <3>1, <3>4, NothingDrawn
  <2>6. ASSUME NEW x \in Calls, ReserveDebit(x)
        PROVE  \E k \in 0 .. MaxBlocks : CheapFirst(k)
    <3>1. UNCHANGED block
      BY <2>6 DEF ReserveDebit
    <3>2. \A c \in Calls : IsOpen(c) => IsOpen(c)'
      BY <2>6 DEF ReserveDebit, TypeOK, IsOpen
    <3> QED
      BY <2>2, <3>1, <3>2
  <2>7. CASE ClosingStep
    BY <2>7, CloseCheapFirst DEF ClosingStep
  <2> QED
    BY <2>3, <2>4, <2>5, <2>6, <2>7, StepShapes
<1>2. TypeOK /\ HoldLife /\ [Next]_vars => (TypeOK /\ HoldLife)'
  BY TypeStep, LifeStep
<1>3. Init => TypeOK /\ HoldLife
  BY TypeInit, LifeInit
<1> QED
  BY <1>1, <1>2, <1>3, PTL DEF Spec, PaidCreditLast, CheapFirst

-----------------------------------------------------------------------------
(***************************************************************************)
(* For LedgerTx, whose commits are steps of this ledger.                   *)
(***************************************************************************)

(* Blocks are numbered in the order they are created.                      *)
Numbered == \A a, b \in BlockIds : a < b /\ IsBlock(b) => IsBlock(a)
BlocksLast == \A b \in BlockIds : IsBlock(b) => IsBlock(b)'

LEMMA FundedCount ==
  ASSUME TypeOK, Numbered
  PROVE  /\ Funded \in Nat
         /\ \A b \in BlockIds : IsBlock(b) <=> b <= Funded
<1> DEFINE B == {b \in BlockIds : IsBlock(b)}
<1>1. IsFiniteSet(B) /\ B \subseteq BlockIds /\ Funded = Cardinality(B) /\ Funded \in Nat
  BY FiniteRows, FS_Subset, FundedType DEF Funded
<1>2. ASSUME NEW m \in BlockIds, IsBlock(m), m > Funded PROVE FALSE
  <2>1. 1 .. m \subseteq B
    <3> SUFFICES ASSUME NEW x \in 1 .. m PROVE x \in BlockIds /\ IsBlock(x)
      OBVIOUS
    <3>1. x \in BlockIds /\ (x < m \/ x = m)
      BY LedgerAssumption DEF BlockIds, LedgerAssumption
    <3> QED
      BY <1>2, <3>1 DEF Numbered
  <2>2. Cardinality(1 .. m) = m
    BY FS_Interval DEF BlockIds
  <2>3. m <= Cardinality(B)
    BY <1>1, <2>1, <2>2, FS_Subset
  <2> QED
    BY <1>1, <1>2, <2>3 DEF BlockIds
<1>3. ASSUME NEW m \in BlockIds, ~IsBlock(m), m <= Funded PROVE FALSE
  <2>1. \A b \in B : b < m
    BY <1>3 DEF Numbered, BlockIds
  <2>2. B \subseteq 1 .. (m - 1)
    BY <2>1 DEF BlockIds
  <2>3. Cardinality(1 .. (m - 1)) = m - 1 /\ IsFiniteSet(1 .. (m - 1))
    BY FS_Interval DEF BlockIds
  <2>4. Cardinality(B) <= m - 1
    BY <2>2, <2>3, FS_Subset
  <2> QED
    BY <1>1, <1>3, <2>4 DEF BlockIds
<1>4. \A b \in BlockIds : b \in Int
  BY DEF BlockIds
<1> QED
  BY <1>1, <1>2, <1>3, <1>4

LEMMA FundedGrows ==
  ASSUME TypeOK, TypeOK', BlocksLast
  PROVE  Funded <= Funded' /\ Funded' \in Nat
<1> DEFINE A == {b \in BlockIds : IsBlock(b)}
           B == {b \in BlockIds : IsBlock(b)'}
<1>1. A \subseteq B /\ IsFiniteSet(B)
  BY FiniteRows, FS_Subset DEF BlocksLast
<1>2. Funded = Cardinality(A) /\ Funded' = Cardinality(B)
  BY DEF Funded
<1> QED
  BY <1>1, <1>2, FS_Subset, FS_CardinalityType

(* Only the order of the ranks matters to a spread.                        *)
SameOrder(S, r, s) == \A x, y \in S : r[x] < r[y] <=> s[x] < s[y]

LEMMA SpreadSame ==
  ASSUME NEW S, NEW cap \in [S -> Nat], NEW r, NEW s, SameOrder(S, r, s), NEW n
  PROVE  Spread(cap, r, n) = Spread(cap, s, n)
<1>1. ASSUME NEW x \in S PROVE Before(cap, r, x) = Before(cap, s, x)
  <2>1. {z \in S : r[z] < r[x]} = {z \in S : s[z] < s[x]}
    BY DEF SameOrder
  <2>2. DOMAIN cap = S
    OBVIOUS
  <2> QED
    BY <2>1, <2>2 DEF Before
<1> QED
  BY <1>1 DEF Spread

(* Any batch can be drawn in the order of its ids.                         *)
ById(S, rank) == rank \in Orders(S) /\ \A x, y \in S : rank[x] < rank[y] <=> x < y

LEMMA IdsOrder ==
  ASSUME Calls \subseteq Nat, NEW S \in SUBSET Calls
  PROVE  \E rank : ById(S, rank)
<1> DEFINE upto(c) == {x \in S : x <= c}
           rank == [c \in S |-> Cardinality(upto(c))]
<1>1. IsFiniteSet(S) /\ S \subseteq Nat
  BY FiniteRows, FS_Subset
<1>2. ASSUME NEW c \in S
      PROVE  IsFiniteSet(upto(c)) /\ Cardinality(upto(c)) \in 1 .. Cardinality(S)
  <2>1. upto(c) \subseteq S /\ c \in upto(c)
    BY <1>1
  <2>2. IsFiniteSet(upto(c)) /\ Cardinality(upto(c)) <= Cardinality(S)
    BY <1>1, <2>1, FS_Subset
  <2>3. Cardinality(upto(c)) \in Nat /\ Cardinality(S) \in Nat /\ Cardinality(upto(c)) # 0
    BY <1>1, <2>1, <2>2, FS_CardinalityType, FS_EmptySet
  <2> QED
    BY <2>2, <2>3
<1>3. ASSUME NEW x \in S, NEW y \in S, x < y PROVE rank[x] < rank[y]
  <2>1. x \in Nat /\ y \in Nat /\ \A z \in S : z \in Nat
    BY <1>1
  <2>2. (upto(x) \cup {y}) \subseteq upto(y) /\ y \notin upto(x)
    <3>1. y \notin upto(x) /\ y \in upto(y)
      BY <1>3, <2>1
    <3>2. ASSUME NEW z \in upto(x) PROVE z \in upto(y)
      <4>1. z \in S /\ z <= x /\ z \in Nat
        BY <2>1
      <4>2. z <= y
        BY <1>3, <2>1, <4>1
      <4> QED
        BY <4>1, <4>2
    <3> QED
      BY <3>1, <3>2
  <2>3. /\ IsFiniteSet(upto(x)) /\ IsFiniteSet(upto(y))
        /\ Cardinality(upto(x)) \in Nat /\ Cardinality(upto(y)) \in Nat
    BY <1>2, FS_CardinalityType
  <2> HIDE DEF upto
  <2>4. Cardinality(upto(x) \cup {y}) = Cardinality(upto(x)) + 1
    BY <2>2, <2>3, FS_AddElement
  <2>5. Cardinality(upto(x) \cup {y}) <= Cardinality(upto(y))
    BY <2>2, <2>3, FS_Subset
  <2>6. rank[x] = Cardinality(upto(x)) /\ rank[y] = Cardinality(upto(y))
    OBVIOUS
  <2> QED
    BY <2>3, <2>4, <2>5, <2>6
<1>4. rank \in [S -> 1 .. Cardinality(S)]
  BY <1>2
<1> HIDE DEF rank
<1>5. \A x \in S : rank[x] \in Int /\ x \in Int
  BY <1>1, <1>4, FS_CardinalityType
<1>6. \A x, y \in S : rank[x] < rank[y] <=> x < y
  BY <1>3, <1>5
<1>7. \A x, y \in S : rank[x] = rank[y] => x = y
  BY <1>3, <1>5
<1> QED
  BY <1>4, <1>6, <1>7 DEF ById, Orders

-----------------------------------------------------------------------------
(* A close from the rows it leaves *)

(* When a close writes the counter of o, and what it writes.               *)
Stirs(S, R, n, o) ==
  \/ \E c \in HoldsOf(S, o) : n[c] # CountedToday(c)
  \/ \E c \in HoldsOf(R, o) : CountedToday(c) # 0

CounterWritten(S, R, n) ==
  spent' = [o \in Orgs |->
    IF Stirs(S, R, n, o)
    THEN AddSpent(spent[o], Sum(ChargedTo(S, n, o)) - Sum(UncountedOf(S \cup R, o)))
    ELSE spent[o]]

PaidBack(S, R, n, back) == back \in [Orgs -> Int] /\ \A o \in Orgs : back[o] = Kept(S, R, n, o)

LEMMA KeptOne ==
  ASSUME TypeOK, NEW c \in Calls, NEW n \in Amounts, NEW p \in Orgs
  PROVE  /\ Kept({}, {c}, n, p) = balance[p] + (IF hold[c].org = p THEN hold[c].amount ELSE 0)
         /\ Kept({c}, {}, n, p) = balance[p] + (IF hold[c].org = p THEN hold[c].amount ELSE 0)
                                             - (IF hold[c].org = p THEN n[c] ELSE 0)
<1>1. /\ Sum(ChargedTo({c}, n, p)) = IF hold[c].org = p THEN n[c] ELSE 0
      /\ Sum(ChargedTo({}, n, p)) = 0
      /\ Sum(FreedOf({c}, p)) = IF hold[c].org = p THEN hold[c].amount ELSE 0
  BY CloseOne
<1>2. {} \cup {c} = {c} /\ {c} \cup {} = {c}
  OBVIOUS
<1>3. balance[p] \in Int /\ hold[c].amount \in Nat
  BY DEF TypeOK, HoldRow
<1>4. Kept({}, {c}, n, p) = balance[p] + (IF hold[c].org = p THEN hold[c].amount ELSE 0)
  BY <1>1, <1>2, <1>3 DEF Kept
<1>5. Kept({c}, {}, n, p) = balance[p] + (IF hold[c].org = p THEN hold[c].amount ELSE 0)
                                       - (IF hold[c].org = p THEN n[c] ELSE 0)
  BY <1>1, <1>2 DEF Kept
<1> QED
  BY <1>4, <1>5

LEMMA OneStirs ==
  ASSUME TypeOK, NEW c \in Calls, IsOpen(c), NEW n \in Amounts, NEW p \in Orgs
  PROVE  /\ Stirs({c}, {}, n, p) <=> p = hold[c].org /\ n[c] - CountedToday(c) # 0
         /\ Stirs({}, {c}, n, p) <=> p = hold[c].org /\ CountedToday(c) # 0
         /\ p = hold[c].org =>
              /\ Sum(ChargedTo({c}, n, p)) - Sum(UncountedOf({c} \cup {}, p)) = n[c] - CountedToday(c)
              /\ Sum(ChargedTo({}, n, p)) - Sum(UncountedOf({} \cup {c}, p)) = -CountedToday(c)
<1>1. n[c] \in Nat /\ CountedToday(c) \in Nat
  BY CountedType DEF Amounts
<1>2. HoldsOf({c}, p) = (IF p = hold[c].org THEN {c} ELSE {}) /\ HoldsOf({}, p) = {}
  BY DEF HoldsOf
<1>3. /\ Stirs({c}, {}, n, p) <=> p = hold[c].org /\ n[c] # CountedToday(c)
      /\ Stirs({}, {c}, n, p) <=> p = hold[c].org /\ CountedToday(c) # 0
  BY <1>2 DEF Stirs
<1>4. {c} \cup {} = {c} /\ {} \cup {c} = {c}
  OBVIOUS
<1>5. p = hold[c].org => /\ Sum(ChargedTo({c}, n, p)) = n[c] /\ Sum(ChargedTo({}, n, p)) = 0
                         /\ Sum(UncountedOf({c}, p)) = CountedToday(c)
  BY CloseOne
<1> QED
  BY <1>1, <1>3, <1>4, <1>5

LEMMA OneSettled ==
  ASSUME TypeOK, NEW c \in Calls, NEW n \in Amounts,
         RowsClosed({c}, {}, n), CounterWritten({c}, {}, n)
  PROVE  IsOpen(c) /\ SettleHold(c, n[c])
<1> DEFINE o == hold[c].org
           d == n[c] - CountedToday(c)
<1>1. IsOpen(c) /\ o \in Orgs
  BY OpenOrg DEF RowsClosed
<1>2. hold' = [hold EXCEPT ![c] = NoHold]
  BY DEF RowsClosed, TypeOK
<1>3. closing' = [closing EXCEPT ![c] = SettleEntry(c, n[c])]
  BY DEF RowsClosed, TypeOK
<1>4. tag' = [tag EXCEPT ![c] = TagSettled(@, n[c])]
  BY DEF RowsClosed, TypeOK
<1>5. spent' = IF d = 0 THEN spent ELSE [spent EXCEPT ![o] = AddSpent(@, d)]
  <2>1. \A p \in Orgs : spent'[p] = IF p = o /\ d # 0 THEN AddSpent(spent[p], d) ELSE spent[p]
    BY <1>1, OneStirs DEF CounterWritten
  <2>2. spent' = [p \in Orgs |-> spent'[p]] /\ spent = [p \in Orgs |-> spent[p]]
    BY DEF CounterWritten, TypeOK
  <2> HIDE DEF d, o
  <2> QED
    BY <1>1, <2>1, <2>2
<1> QED
  BY <1>1, <1>2, <1>3, <1>4, <1>5 DEF SettleHold

LEMMA OneReleased ==
  ASSUME TypeOK, NEW c \in Calls, NEW n \in Amounts,
         RowsClosed({}, {c}, n), CounterWritten({}, {c}, n),
         block' = block, PaidBack({}, {c}, n, balance')
  PROVE  IsOpen(c) /\ ReleaseHold(c)
<1> DEFINE o == hold[c].org
           d == CountedToday(c)
<1>1. IsOpen(c) /\ o \in Orgs /\ hold[c].amount \in Nat
  BY OpenOrg DEF RowsClosed
<1>2. hold' = [hold EXCEPT ![c] = NoHold]
  BY DEF RowsClosed, TypeOK
<1>3. closing' = [closing EXCEPT ![c] = ReleaseEntry(c)]
  BY DEF RowsClosed, TypeOK
<1>4. tag' = [tag EXCEPT ![c] = NoTag]
  BY DEF RowsClosed, TypeOK
<1>5. spent' = IF d = 0 THEN spent ELSE [spent EXCEPT ![o] = AddSpent(@, -d)]
  <2>1. \A p \in Orgs : spent'[p] = IF p = o /\ d # 0 THEN AddSpent(spent[p], -d) ELSE spent[p]
    BY <1>1, OneStirs DEF CounterWritten
  <2>2. spent' = [p \in Orgs |-> spent'[p]] /\ spent = [p \in Orgs |-> spent[p]]
    BY DEF CounterWritten, TypeOK
  <2> HIDE DEF d, o
  <2> QED
    BY <1>1, <2>1, <2>2
<1>6. balance' = [balance EXCEPT ![o] = @ + hold[c].amount]
  <2>2. \A p \in Orgs : balance'[p] = balance[p] + (IF o = p THEN hold[c].amount ELSE 0)
    BY KeptOne DEF PaidBack
  <2>3. balance \in [Orgs -> Int] /\ balance' \in [Orgs -> Int]
    BY DEF TypeOK, PaidBack
  <2> HIDE DEF o
  <2>4. \A p \in Orgs : balance'[p] = IF p = o THEN balance[p] + hold[c].amount ELSE balance[p]
    BY <1>1, <2>2, <2>3
  <2> QED
    BY <1>1, <2>3, <2>4
<1> QED
  BY <1>1, <1>2, <1>3, <1>4, <1>5, <1>6 DEF ReleaseHold

(* What was due for S is drawn from the blocks up to k, call by call in    *)
(* the order of their ids; take is where it came from.                     *)
DueOf(S, due, o) == [c \in HoldsOf(S, o) |-> due[c]]

DrawsSeen(S, due, k, n, take) ==
  /\ \A c \in S : k \in Views(c)
  /\ \A o \in Orgs : [c \in HoldsOf(S, o) |-> n[c]]
       = Spread(DueOf(S, due, o), [c \in HoldsOf(S, o) |-> c], Sum(Visible(o, k)))
  /\ \A b \in BlockIds :
       take[b] = IF IsBlock(b)
                 THEN Draw(block[b].org, Sum(DueOf(S, due, block[b].org)), k)[b] ELSE 0

LEMMA ZeroDrawn ==
  ASSUME TypeOK, NEW o, NEW k, NEW b \in BlockIds
  PROVE  Draw(o, 0, k)[b] = 0
<1> DEFINE take == Draw(o, 0, k)
<1>1. take \in [BlockIds -> Nat] /\ Sum(take) = Lesser(0, Sum(Visible(o, k)))
  BY DrawType
<1>2. Sum(Visible(o, k)) \in Nat
  BY TotalTypes, FiniteRows, SumType
<1>3. Sum(take) = 0
  BY <1>1, <1>2 DEF Lesser
<1> HIDE DEF take
<1>4. take[b] <= Sum(take)
  BY <1>1, FiniteRows, SumPart
<1>4a. take[b] \in Nat
  BY <1>1
<1>5. take[b] = 0
  BY <1>3, <1>4, <1>4a
<1> QED
  BY <1>5 DEF take

LEMMA NoneDrawn ==
  ASSUME TypeOK, NEW due, NEW k, NEW n, NEW take \in Takes, DrawsSeen({}, due, k, n, take)
  PROVE  Drawn(take) = block
<1>1. ASSUME NEW o PROVE Sum(DueOf({}, due, o)) = 0
  <2>1. DueOf({}, due, o) \in [{} -> Nat]
    BY DEF DueOf, HoldsOf
  <2> QED
    BY <2>1, SumZero
<1>2. \A b \in BlockIds : take[b] = 0
  BY <1>1, ZeroDrawn DEF DrawsSeen
<1>3. \A b \in BlockIds : [block[b] EXCEPT !.remaining = @ - take[b]] = block[b]
  BY <1>2, DrawnNone DEF TypeOK
<1>4. block = [b \in BlockIds |-> block[b]]
  BY DEF TypeOK
<1> QED
  BY <1>3, <1>4 DEF Drawn

LEMMA OneDrawn ==
  ASSUME TypeOK, NEW c \in Calls, IsOpen(c), c \in Int, NEW due, due[c] \in Nat, NEW k,
         NEW n \in Amounts, NEW take \in Takes, DrawsSeen({c}, due, k, n, take)
  PROVE  /\ take = Draw(hold[c].org, due[c], k)
         /\ n[c] = Sum(Draw(hold[c].org, due[c], k))
<1> DEFINE o == hold[c].org
           d == DueOf({c}, due, o)
           m == due[c]
<1>1. o \in Orgs /\ o # None /\ m \in Nat
  BY OpenOrg DEF IsOpen
<1>2. HoldsOf({c}, o) = {c} /\ \A p : p # o => HoldsOf({c}, p) = {}
  BY DEF HoldsOf
<1>3. d \in [{c} -> Nat] /\ d[c] = m
  BY <1>1, <1>2 DEF DueOf
<1> HIDE DEF m
<1>4. IsFiniteSet({c}) /\ Sum(d) = m
  <2>1. IsFiniteSet({c})
    BY FS_Singleton
  <2>2. \A y \in {c} \ {c} : d[y] = 0
    OBVIOUS
  <2> HIDE DEF d
  <2> QED
    BY <1>3, <2>1, <2>2, SumOne
<1>5. ASSUME NEW p, p # o PROVE Sum(DueOf({c}, due, p)) = 0
  <2>1. DueOf({c}, due, p) \in [{} -> Nat]
    BY <1>2, <1>5 DEF DueOf
  <2> QED
    BY <2>1, SumZero
<1>6. /\ Draw(o, m, k) \in Takes
      /\ \A b \in BlockIds : block[b].org # o => Draw(o, m, k)[b] = 0
  BY <1>1, DrawFrom
<1>7. ASSUME NEW b \in BlockIds PROVE take[b] = Draw(o, m, k)[b]
  <2>1. CASE block[b].org = o
    <3>1. IsBlock(b)
      BY <1>1, <2>1 DEF IsBlock
    <3> QED
      BY <1>4, <2>1, <3>1 DEF DrawsSeen
  <2>2. CASE block[b].org # o
    <3>1. IsBlock(b) => take[b] = Draw(block[b].org, 0, k)[b]
      BY <1>5, <2>2 DEF DrawsSeen
    <3>2. ~IsBlock(b) => take[b] = 0
      BY DEF DrawsSeen
    <3> QED
      BY <1>6, <2>2, <3>1, <3>2, ZeroDrawn
  <2> QED
    BY <2>1, <2>2
<1>8. take = Draw(o, m, k)
  BY <1>6, <1>7 DEF Takes
<1>9. n[c] = Sum(Draw(o, m, k))
  <2> DEFINE V == Sum(Visible(o, k))
             rank == [x \in {c} |-> x]
             f == Spread(d, rank, V)
  <2>1. V \in Nat
    BY TotalTypes, FiniteRows, SumType
  <2>2. rank \in [{c} -> Int] /\ \A x, y \in {c} : rank[x] = rank[y] => x = y
    OBVIOUS
  <2>3. [x \in {c} |-> n[x]] = f
    BY <1>1, <1>2 DEF DrawsSeen
  <2> HIDE DEF V, rank, d
  <2>4. f \in [{c} -> Nat] /\ Sum(f) = Lesser(V, Sum(d))
    <3>1. Spread(d, rank, V) \in [{c} -> Nat]
      BY <1>3, <1>4, <2>1, <2>2, SpreadType
    <3>2. Sum(Spread(d, rank, V)) = Lesser(V, Sum(d))
      BY <1>3, <1>4, <2>1, <2>2, SpreadTotal
    <3> QED
      BY <3>1, <3>2
  <2> HIDE DEF f
  <2>5. Sum(f) = f[c]
    <3>1. \A y \in {c} \ {c} : f[y] = 0
      OBVIOUS
    <3> QED
      BY <1>4, <2>4, <3>1, SumOne
  <2>6. n[c] = Lesser(V, m)
    BY <1>4, <2>3, <2>4, <2>5
  <2>7. Sum(Draw(o, m, k)) = Lesser(m, V)
    BY <1>1, DrawType DEF V
  <2> QED
    BY <1>1, <2>1, <2>6, <2>7 DEF Lesser
<1> QED
  BY <1>8, <1>9 DEF m

LEMMA BatchSums ==
  ASSUME TypeOK, NEW S \in SUBSET Calls, NEW n \in Amounts, NEW o
  PROVE  /\ Freed(S, o) = Sum(FreedOf(S, o))
         /\ Uncounted(S, o) = Sum(UncountedOf(S, o))
         /\ Sum([c \in HoldsOf(S, o) |-> n[c]]) = Sum(ChargedTo(S, n, o))
<1>1. /\ FreedOf(S, o) \in [Calls -> Nat] /\ UncountedOf(S, o) \in [Calls -> Nat]
      /\ ChargedTo(S, n, o) \in [Calls -> Nat]
  BY CloseTypes DEF Amounts
<1>2. Freed(S, o) = Sum(FreedOf(S, o))
  <2> DEFINE f == [c \in S |-> IF hold[c].org = o THEN hold[c].amount ELSE 0]
  <2>1. \A c \in S : f[c] = FreedOf(S, o)[c]
    BY DEF FreedOf
  <2>2. \A c \in Calls \ S : FreedOf(S, o)[c] = 0
    BY DEF FreedOf
  <2>3. f = [c \in S |-> f[c]]
    OBVIOUS
  <2>4. Freed(S, o) = Sum(f)
    BY DEF Freed
  <2> HIDE DEF f
  <2>5. f \in [S -> Nat]
    BY <1>1, <2>1, <2>3
  <2> QED
    BY <1>1, <2>1, <2>2, <2>4, <2>5, SumSupport
<1>3. Uncounted(S, o) = Sum(UncountedOf(S, o))
  <2> DEFINE f == [c \in S |-> IF hold[c].org = o THEN CountedToday(c) ELSE 0]
  <2>1. \A c \in S : f[c] = UncountedOf(S, o)[c]
    BY DEF UncountedOf
  <2>2. \A c \in Calls \ S : UncountedOf(S, o)[c] = 0
    BY DEF UncountedOf
  <2>3. f = [c \in S |-> f[c]]
    OBVIOUS
  <2>4. Uncounted(S, o) = Sum(f)
    BY DEF Uncounted
  <2> HIDE DEF f
  <2>5. f \in [S -> Nat]
    BY <1>1, <2>1, <2>3
  <2> QED
    BY <1>1, <2>1, <2>2, <2>4, <2>5, SumSupport
<1>4. Sum([c \in HoldsOf(S, o) |-> n[c]]) = Sum(ChargedTo(S, n, o))
  <2> DEFINE f == [c \in HoldsOf(S, o) |-> n[c]]
             H == HoldsOf(S, o)
  <2>1. H \in SUBSET Calls
    BY DEF HoldsOf
  <2>2. /\ \A c \in H : f[c] = ChargedTo(S, n, o)[c]
        /\ \A c \in Calls \ H : ChargedTo(S, n, o)[c] = 0
    BY DEF ChargedTo, HoldsOf
  <2>3. f \in [H -> Nat]
    BY <2>1 DEF Amounts
  <2> HIDE DEF f, H
  <2>4. Sum(f) = Sum(ChargedTo(S, n, o))
    BY <1>1, <2>1, <2>2, <2>3, SumSupport
  <2> QED
    BY <2>4 DEF f
<1> QED
  BY <1>2, <1>3, <1>4

DuesSettled(S, actual, due) == \A c \in S : due[c] = Settled(c, actual[c])

LEMMA BatchAsSeen ==
  ASSUME TypeOK, NEW S \in SUBSET Calls, NEW actual \in [S -> Actuals \cup {None}], NEW due,
         DuesSettled(S, actual, due), NEW rank, ById(S, rank), NEW k, NEW n, NEW take,
         DrawsSeen(S, due, k, n, take), NEW o
  PROVE  /\ BatchDue(S, actual, o) = DueOf(S, due, o)
         /\ o \in Orgs => BatchDrawn(S, actual, rank, k, o) = [c \in HoldsOf(S, o) |-> n[c]]
<1> DEFINE H == HoldsOf(S, o)
           ids == [c \in H |-> c]
           cap == DueOf(S, due, o)
<1>1. H \subseteq S
  BY DEF HoldsOf
<1>2. BatchDue(S, actual, o) = cap
  BY <1>1 DEF BatchDue, DueOf, DuesSettled
<1>3. cap \in [H -> Nat]
  <2>1. \A c \in H : due[c] \in Nat
    BY <1>1, SettledType DEF DuesSettled
  <2> QED
    BY <2>1 DEF DueOf
<1>4. SameOrder(H, rank, ids)
  BY <1>1 DEF ById, SameOrder
<1>5. Spread(cap, rank, Sum(Visible(o, k))) = Spread(cap, ids, Sum(Visible(o, k)))
  <2> HIDE DEF cap, H, ids
  <2> QED
    BY <1>3, <1>4, SpreadSame
<1> QED
  BY <1>2, <1>5 DEF BatchDrawn, DrawsSeen

LEMMA BatchStep ==
  ASSUME TypeOK, Calls \subseteq Nat, pending' = pending, reserving' = reserving,
         NEW S \in SUBSET Calls, NEW R \in SUBSET Calls, S \cap R = {},
         NEW actual \in [S -> Actuals \cup {None}], NEW due, DuesSettled(S, actual, due),
         NEW k \in 0 .. Funded, NEW n \in Amounts, NEW take \in Takes,
         DrawsSeen(S, due, k, n, take), RowsClosed(S, R, n), CounterWritten(S, R, n),
         block' = Drawn(take), PaidBack(S, R, n, balance'),
         NEW rank, ById(S, rank)
  PROVE  CloseBatch(S, R, actual, rank, k)
<1>1. /\ \A o : BatchDue(S, actual, o) = DueOf(S, due, o)
      /\ \A o \in Orgs : BatchDrawn(S, actual, rank, k, o) = [c \in HoldsOf(S, o) |-> n[c]]
  <2> SUFFICES ASSUME NEW o
               PROVE  /\ BatchDue(S, actual, o) = DueOf(S, due, o)
                      /\ o \in Orgs => BatchDrawn(S, actual, rank, k, o) = [c \in HoldsOf(S, o) |-> n[c]]
    OBVIOUS
  <2> QED
    BY BatchAsSeen
<1>2. \A c \in S \cup R : IsOpen(c) /\ hold[c].org \in Orgs
  BY OpenOrg DEF RowsClosed
<1>3. \A c \in S : BatchDrawn(S, actual, rank, k, hold[c].org)[c] = n[c]
  <2> TAKE c \in S
  <2>1. hold[c].org \in Orgs /\ c \in HoldsOf(S, hold[c].org)
    BY <1>2 DEF HoldsOf
  <2> QED
    BY <1>1, <2>1
<1>4. hold' = [c \in Calls |-> IF c \in S \cup R THEN NoHold ELSE hold[c]]
  BY DEF RowsClosed
<1>5. block' = [b \in BlockIds |->
        IF IsBlock(b)
        THEN [block[b] EXCEPT !.remaining =
                @ - [o \in Orgs |-> Draw(o, Sum(BatchDue(S, actual, o)), k)][block[b].org][b]]
        ELSE block[b]]
  <2> DEFINE f == [o \in Orgs |-> Draw(o, Sum(BatchDue(S, actual, o)), k)]
  <2>1. ASSUME NEW b \in BlockIds
        PROVE  [block[b] EXCEPT !.remaining = @ - take[b]]
               = IF IsBlock(b) THEN [block[b] EXCEPT !.remaining = @ - f[block[b].org][b]] ELSE block[b]
    <3>1. CASE IsBlock(b)
      <4>1. block[b].org \in Orgs
        BY <3>1 DEF TypeOK, BlockRow, IsBlock
      <4>2. f[block[b].org] = Draw(block[b].org, Sum(DueOf(S, due, block[b].org)), k)
        BY <1>1, <4>1
      <4> HIDE DEF f
      <4>3. take[b] = f[block[b].org][b]
        BY <3>1, <4>2 DEF DrawsSeen
      <4> QED
        BY <3>1, <4>3
    <3>2. CASE ~IsBlock(b)
      <4>1. take[b] = 0
        BY <3>2 DEF DrawsSeen
      <4>2. [block[b] EXCEPT !.remaining = @ - take[b]] = block[b]
        BY <4>1, DrawnNone DEF TypeOK
      <4> QED
        BY <3>2, <4>2
    <3> QED
      BY <3>1, <3>2
  <2> HIDE DEF f
  <2>2. block' = [b \in BlockIds |->
          IF IsBlock(b) THEN [block[b] EXCEPT !.remaining = @ - f[block[b].org][b]] ELSE block[b]]
    BY <2>1 DEF Drawn
  <2> QED
    BY <2>2 DEF f
<1>5a. \A o \in Orgs : /\ Sum(BatchDrawn(S, actual, rank, k, o)) = Sum(ChargedTo(S, n, o))
                       /\ Freed(S \cup R, o) = Sum(FreedOf(S \cup R, o))
                       /\ Uncounted(S \cup R, o) = Sum(UncountedOf(S \cup R, o))
  <2> TAKE o \in Orgs
  <2>1. S \cup R \in SUBSET Calls
    OBVIOUS
  <2>2. Sum([c \in HoldsOf(S, o) |-> n[c]]) = Sum(ChargedTo(S, n, o))
    BY BatchSums
  <2> QED
    BY <1>1, <2>1, <2>2, BatchSums
<1>6. balance' = [o \in Orgs |->
        balance[o] + Freed(S \cup R, o) - Sum(BatchDrawn(S, actual, rank, k, o))]
  <2>1. \A o \in Orgs : balance'[o] = balance[o] + Freed(S \cup R, o) - Sum(BatchDrawn(S, actual, rank, k, o))
    BY <1>5a DEF PaidBack, Kept
  <2>2. balance' = [o \in Orgs |-> balance'[o]]
    BY DEF PaidBack
  <2> QED
    BY <2>1, <2>2
<1>7. spent' = [o \in Orgs |->
        IF \/ \E c \in HoldsOf(S, o) : BatchDrawn(S, actual, rank, k, hold[c].org)[c] # CountedToday(c)
           \/ \E c \in HoldsOf(R, o) : CountedToday(c) # 0
        THEN AddSpent(spent[o], Sum(BatchDrawn(S, actual, rank, k, o)) - Uncounted(S \cup R, o))
        ELSE spent[o]]
  <2>1. ASSUME NEW o \in Orgs
        PROVE  /\ Stirs(S, R, n, o) <=>
                    \/ \E c \in HoldsOf(S, o) :
                         BatchDrawn(S, actual, rank, k, hold[c].org)[c] # CountedToday(c)
                    \/ \E c \in HoldsOf(R, o) : CountedToday(c) # 0
               /\ Sum(BatchDrawn(S, actual, rank, k, o)) - Uncounted(S \cup R, o)
                  = Sum(ChargedTo(S, n, o)) - Sum(UncountedOf(S \cup R, o))
    <3>1. HoldsOf(S, o) \subseteq S
      BY DEF HoldsOf
    <3> QED
      BY <1>3, <1>5a, <3>1 DEF Stirs
  <2> QED
    BY <2>1 DEF CounterWritten
<1>8. closing' = [c \in Calls |->
        IF c \in S THEN SettleEntry(c, BatchDrawn(S, actual, rank, k, hold[c].org)[c])
        ELSE IF c \in R THEN ReleaseEntry(c) ELSE closing[c]]
  BY <1>3 DEF RowsClosed
<1>9. tag' = [c \in Calls |->
        IF c \in S THEN TagSettled(tag[c], BatchDrawn(S, actual, rank, k, hold[c].org)[c])
        ELSE IF c \in R THEN NoTag ELSE tag[c]]
  BY <1>3 DEF RowsClosed
<1>10. UNCHANGED <<pending, reserving, today>>
  BY DEF RowsClosed
<1> QED
  BY ZenonT(60), <1>2, <1>4, <1>5, <1>6, <1>7, <1>8, <1>9, <1>10 DEF CloseBatch

(* A commit that closes holds is a step: one hold is settled or released,  *)
(* several are a batch.                                                    *)
LEMMA CloseIsStep ==
  ASSUME TypeOK, Calls \subseteq Nat, pending = {}, pending' = pending, reserving' = reserving,
         NEW S \in SUBSET Calls, NEW R \in SUBSET Calls, S \cap R = {}, S \cup R # {},
         NEW actual \in [S -> Actuals \cup {None}], NEW due, DuesSettled(S, actual, due),
         NEW k \in 0 .. Funded, NEW n \in Amounts, NEW take \in Takes,
         DrawsSeen(S, due, k, n, take), RowsClosed(S, R, n), CounterWritten(S, R, n),
         block' = Drawn(take), PaidBack(S, R, n, balance')
  PROVE  Next
<1>1. ASSUME NEW c \in Calls, S = {c}, R = {} PROVE Next
  <2> DEFINE a == actual[c]
             o == hold[c].org
             m == Sum(Draw(o, Settled(c, a), k))
  <2>1. a \in Actuals \cup {None} /\ due[c] = Settled(c, a) /\ due[c] \in Nat /\ c \in Int
    BY <1>1, SettledType DEF DuesSettled
  <2>2. IsOpen(c) /\ SettleHold(c, n[c])
    BY <1>1, OneSettled
  <2>3. take = Draw(o, Settled(c, a), k) /\ n[c] = m
    <3>1. take = Draw(o, due[c], k) /\ n[c] = Sum(Draw(o, due[c], k))
      BY <1>1, <2>1, <2>2, OneDrawn
    <3> QED
      BY <2>1, <3>1
  <2> HIDE DEF m
  <2>4. balance' = [balance EXCEPT ![o] = @ + Refund(c, m)]
    <3>2. \A p \in Orgs : balance'[p] = balance[p] + (IF o = p THEN hold[c].amount ELSE 0)
                                                   - (IF o = p THEN n[c] ELSE 0)
      BY <1>1, KeptOne DEF PaidBack
    <3>3. balance \in [Orgs -> Int] /\ balance' \in [Orgs -> Int]
      BY DEF TypeOK, PaidBack
    <3>4. o \in Orgs /\ hold[c].amount \in Nat /\ n[c] \in Nat
      BY <2>2, OpenOrg DEF Amounts
    <3>5. \A p \in Orgs : balance'[p] = IF p = o THEN balance[p] + (hold[c].amount - m) ELSE balance[p]
      BY <2>3, <3>2, <3>3, <3>4
    <3> HIDE DEF o
    <3> QED
      BY <3>3, <3>4, <3>5 DEF Refund
  <2>5. Settle(c, a, k)
    <3>1. pending' = pending \ {c} /\ UNCHANGED <<reserving, today>>
      BY DEF RowsClosed
    <3> QED
      BY <2>2, <2>3, <2>4, <3>1 DEF Settle, m
  <2>6. k \in Views(c)
    BY <1>1 DEF DrawsSeen
  <2> HIDE DEF a
  <2> QED
    BY <2>1, <2>5, <2>6 DEF Next
<1>2. ASSUME NEW c \in Calls, S = {}, R = {c} PROVE Next
  <2>1. block' = block
    BY <1>2, NoneDrawn
  <2>2. IsOpen(c) /\ ReleaseHold(c)
    BY <1>2, <2>1, OneReleased
  <2>3. Release(c)
    BY <2>2 DEF Release, RowsClosed
  <2> QED
    BY <2>3 DEF Next
<1>3. CASE Cardinality(S \cup R) > 1
  <2>1. PICK rank : ById(S, rank)
    BY IdsOrder
  <2>2. CloseBatch(S, R, actual, rank, k)
    BY <2>1, BatchStep
  <2>3. rank \in Orders(S)
    BY <2>1 DEF ById
  <2> DEFINE C == S \cup R
  <2>4. C \in Batches /\ S \in SUBSET C /\ C \ S = R
    BY <1>3 DEF Batches
  <2>5. k \in {x \in 0 .. Funded : \A c \in S : x \in Views(c)}
    BY DEF DrawsSeen
  <2> HIDE DEF C
  <2>6. CloseBatch(S, C \ S, actual, rank, k)
    BY <2>2, <2>4
  <2> QED
    BY <2>3, <2>4, <2>5, <2>6 DEF Next
<1>4. CASE ~(Cardinality(S \cup R) > 1)
  <2> DEFINE C == S \cup R
  <2>1. IsFiniteSet(C) /\ Cardinality(C) \in Nat /\ C # {}
    BY FiniteRows, FS_Subset, FS_CardinalityType
  <2>2. Cardinality(C) = 1
    BY <1>4, <2>1, FS_EmptySet
  <2>3. \E x : C = {x}
    BY <2>1, <2>2, FS_Singleton
  <2>4. PICK c : S \cup R = {c}
    BY <2>3
  <2>5. c \in Calls /\ ((S = {c} /\ R = {}) \/ (S = {} /\ R = {c}))
    BY <2>4
  <2> QED
    BY <1>1, <1>2, <2>5
<1> QED
  BY <1>3, <1>4

(* What the seller of a recipe is paid for.                                *)
PaidFor(c, a) == IF a = None THEN hold[c].amount ELSE Lesser(hold[c].amount, a)

LEMMA PayIsStep ==
  ASSUME TypeOK, Calls \subseteq Nat, pending = {}, pending' = pending, reserving' = reserving,
         NEW c \in Calls, NEW payee \in Orgs, NEW a \in Actuals \cup {None},
         NEW due, due[c] = PaidFor(c, a), NEW k, NEW n \in Amounts, NEW take \in Takes,
         DrawsSeen({c}, due, k, n, take), RowsClosed({c}, {}, n), CounterWritten({c}, {}, n),
         NEW back, PaidBack({c}, {}, n, back),
         \/ n[c] = 0 /\ block' = Drawn(take) /\ balance' = back
         \/ /\ n[c] > 0
            /\ \E b \in BlockIds :
                 /\ NextBlock(b)
                 /\ block' = [Drawn(take) EXCEPT ![b] = NewBlock(payee, "earned", n[c], None)]
            /\ balance' = [back EXCEPT ![payee] = @ + n[c]]
  PROVE  Next
<1> DEFINE o == hold[c].org
           pay == PaidFor(c, a)
           m == Sum(Draw(o, pay, k))
<1>1. due[c] = pay /\ due[c] \in Nat /\ c \in Int
  <2>1. (IF a = None THEN hold[c].amount ELSE Lesser(hold[c].amount, a)) \in Nat
    BY PaidType
  <2>2. PaidFor(c, a) \in Nat
    BY <2>1 DEF PaidFor
  <2> QED
    BY <2>2
<1>2. IsOpen(c) /\ SettleHold(c, n[c])
  BY OneSettled
<1>3. take = Draw(o, pay, k) /\ n[c] = m
  <2>1. take = Draw(o, due[c], k) /\ n[c] = Sum(Draw(o, due[c], k))
    BY <1>1, <1>2, OneDrawn
  <2> QED
    BY <1>1, <2>1
<1> HIDE DEF m
<1>4. back = [balance EXCEPT ![o] = @ + Refund(c, m)]
  <2>2. \A p \in Orgs : back[p] = balance[p] + (IF o = p THEN hold[c].amount ELSE 0)
                                             - (IF o = p THEN n[c] ELSE 0)
    BY KeptOne DEF PaidBack
  <2>3. balance \in [Orgs -> Int] /\ back \in [Orgs -> Int]
    BY DEF TypeOK, PaidBack
  <2>4. o \in Orgs /\ hold[c].amount \in Nat /\ n[c] \in Nat
    BY <1>2, OpenOrg DEF Amounts
  <2>5. \A p \in Orgs : back[p] = IF p = o THEN balance[p] + (hold[c].amount - m) ELSE balance[p]
    BY <1>3, <2>2, <2>3, <2>4
  <2> HIDE DEF o
  <2> QED
    BY <2>3, <2>4, <2>5 DEF Refund
<1>5. SettleTo(c, payee, a, k)
  <2>1. UNCHANGED <<pending, reserving, today>> /\ c \notin pending
    BY DEF RowsClosed
  <2>2. \/ m = 0 /\ block' = Drawn(Draw(o, pay, k)) /\ balance' = [balance EXCEPT ![o] = @ + Refund(c, m)]
        \/ /\ m > 0
           /\ \E b \in BlockIds :
                /\ NextBlock(b)
                /\ block' = [Drawn(Draw(o, pay, k)) EXCEPT ![b] = NewBlock(payee, "earned", m, None)]
           /\ balance' = [[balance EXCEPT ![o] = @ + Refund(c, m)] EXCEPT ![payee] = @ + m]
    BY <1>3, <1>4
  <2> QED
    BY <1>2, <1>3, <2>1, <2>2 DEF SettleTo, PaidFor, m
<1>6. k \in Views(c)
  BY DEF DrawsSeen
<1> QED
  BY <1>5, <1>6 DEF Next

(* A refund that moves anything is a step, and one that does not a stutter.*)
LEMMA RefundIsStep ==
  ASSUME TypeOK, pending' = pending, reserving' = reserving,
         NEW o \in Orgs, NEW T \in SUBSET Refundable(o), NEW asked \in [T -> Targets],
         TakesBack(o, asked)
  PROVE  Next \/ UNCHANGED vars
<1> DEFINE goal == RefundGoal(asked)
           take == RefundTake(o, asked)
<1>1. DOMAIN asked = T /\ T \in SUBSET BlockIds
  BY DEF Refundable
<1>2. take \in [T -> Nat]
  BY <1>1, RefundTakeType
<1>3. \A b \in T : goal[b] \in Nat /\ block[b].target \in Nat
  <2>1. \A b \in T : asked[b] \in Nat /\ block[b].amount \in Nat /\ block[b].target \in Nat
    BY <1>1, LedgerAssumption DEF LedgerAssumption, TypeOK, BlockRow
  <2> QED
    BY <1>1, <2>1 DEF RefundGoal, Lesser
<1>4. CASE \E b \in T : take[b] > 0 \/ goal[b] > block[b].target
  <2>1. Revoke(o, asked)
    BY <1>1, <1>4 DEF Revoke, TakesBack, RefundGoal, RefundTake, RefundRow
  <2> QED
    BY <2>1 DEF Next
<1>5. CASE \A b \in T : ~(take[b] > 0 \/ goal[b] > block[b].target)
  <2> HIDE DEF goal, take
  <2>1. \A b \in T : take[b] = 0 /\ goal[b] <= block[b].target /\ goal[b] \in Nat
    BY <1>2, <1>3, <1>5
  <2>2. \A b \in T : RefundRow(b, take[b], goal[b]) = block[b]
    BY <1>1, <2>1, RefundRowSame
  <2>3. block' = [b \in BlockIds |-> IF b \in T THEN RefundRow(b, take[b], goal[b]) ELSE block[b]]
    BY <1>1 DEF TakesBack, goal, take
  <2>4. block' = block
    BY <2>2, <2>3 DEF TypeOK
  <2>5. Sum(take) = 0
    BY <1>2, <2>1, SumZero
  <2>6. balance' = [balance EXCEPT ![o] = @ - Sum(take)]
    BY DEF TakesBack, take
  <2>7. balance' = balance
    BY <2>5, <2>6 DEF TypeOK
  <2>8. UNCHANGED <<spent, hold, closing, tag, today>>
    BY DEF TakesBack
  <2> QED
    BY <2>4, <2>7, <2>8 DEF vars
<1> QED
  BY <1>4, <1>5

=============================================================================
