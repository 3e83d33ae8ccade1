---------------------------- MODULE Pricing_proofs ----------------------------
(***************************************************************************)
(* Proofs about the arithmetic of a checkout: what sums of amounts are, and *)
(* that the shares of an amount add up to it.                               *)
(***************************************************************************)
EXTENDS Pricing, FiniteSetTheorems, TLAPS

-----------------------------------------------------------------------------
(* Every collection of subsets of a finite set has a smallest member.        *)
LEMMA MinimalSet ==
  ASSUME NEW S, IsFiniteSet(S), NEW B, B \subseteq SUBSET S, B # {}
  PROVE  \E T \in B : \A U \in B : ~(U \subseteq T /\ U # T)
<1>1. IsWellFoundedOn(StrictSubsetOrdering(S), SUBSET S)
  BY FS_StrictSubsetOrderingWellFounded, FS_FiniteSubsetsOfFinite
<1>2. PICK T \in B : \A U \in B : <<U, T>> \notin StrictSubsetOrdering(S)
  BY <1>1, WFMin
<1>3. \A U \in B : ~(U \subseteq T /\ U # T)
  BY <1>2 DEF StrictSubsetOrdering
<1> QED BY <1>3

(* The function that a sum over a set is a value of.                         *)
Pick(S) == CHOOSE x \in S : TRUE
Sums(g, a, S) == g = [s \in SUBSET S |-> IF s = {} THEN 0 ELSE a[Pick(s)] + g[s \ {Pick(s)}]]
SumsOf(a, S) == CHOOSE g : Sums(g, a, S)

LEMMA PickIn ==
  ASSUME NEW S, S # {}
  PROVE  Pick(S) \in S /\ S \ {Pick(S)} \subseteq S /\ S \ {Pick(S)} # S
BY DEF Pick

LEMMA TotalDef ==
  ASSUME NEW a, NEW S
  PROVE  Total(a, S) = SumsOf(a, S)[S]
BY DEF Total, MapThenSumSet, MapThenFoldSet, SumsOf, Sums, Pick

LEMMA SumsAt ==
  ASSUME NEW a, NEW S, NEW g, Sums(g, a, S), NEW U, U \subseteq S
  PROVE  /\ U = {} => g[U] = 0
         /\ U # {} => g[U] = a[Pick(U)] + g[U \ {Pick(U)}]
<1>1. U \in SUBSET S
  OBVIOUS
<1> QED BY <1>1 DEF Sums

(* Two such functions, of amounts that agree, agree.                         *)
LEMMA SumsAgree ==
  ASSUME NEW a, NEW b, NEW S, NEW T, NEW g, NEW f, Sums(g, a, S), Sums(f, b, T),
         NEW U, U \subseteq S, U \subseteq T, IsFiniteSet(U), \A x \in U : a[x] = b[x]
  PROVE  g[U] = f[U]
<1> DEFINE B == {V \in SUBSET U : g[V] # f[V]}
<1> SUFFICES ASSUME B # {} PROVE FALSE
  OBVIOUS
<1>1. B \subseteq SUBSET U /\ \A V \in B : g[V] # f[V]
  OBVIOUS
<1>2. \A V \in SUBSET U : V \notin B => g[V] = f[V]
  OBVIOUS
<1> HIDE DEF B
<1>3. PICK V \in B : \A W \in B : ~(W \subseteq V /\ W # V)
  BY <1>1, MinimalSet
<1> DEFINE W == V \ {Pick(V)}
<1>4. V \subseteq S /\ V \subseteq T /\ V \subseteq U
  BY <1>1
<1>5. (V = {} => g[V] = 0) /\ (V # {} => g[V] = a[Pick(V)] + g[W])
  BY <1>4, SumsAt
<1>6. (V = {} => f[V] = 0) /\ (V # {} => f[V] = b[Pick(V)] + f[W])
  BY <1>4, SumsAt
<1>7. CASE V # {}
  <2>1. W \subseteq V /\ W # V /\ W \in SUBSET U /\ Pick(V) \in U
    BY <1>4, <1>7, PickIn
  <2>2. g[W] = f[W]
    BY <1>2, <1>3, <2>1
  <2> QED BY <1>1, <1>5, <1>6, <1>7, <2>1, <2>2
<1> QED BY <1>1, <1>5, <1>6, <1>7

LEMMA SumsExist ==
  ASSUME NEW a, NEW S, IsFiniteSet(S)
  PROVE  Sums(SumsOf(a, S), a, S)
<1> DEFINE B == {V \in SUBSET S : ~\E g : Sums(g, a, V)}
<1> SUFFICES ASSUME B # {} PROVE FALSE
  <2>1. S \in SUBSET S
    OBVIOUS
  <2> QED BY <2>1 DEF SumsOf
<1>1. B \subseteq SUBSET S /\ (\A V \in B : \A g : ~Sums(g, a, V)) /\ (\A V \in SUBSET S : V \notin B => \E g : Sums(g, a, V))
  OBVIOUS
<1> HIDE DEF B
<1>2. PICK V \in B : \A W \in B : ~(W \subseteq V /\ W # V)
  BY <1>1, MinimalSet
<1>3. V \subseteq S
  BY <1>1
<1>4. ASSUME NEW W, W \subseteq V, W # V
      PROVE  Sums(SumsOf(a, W), a, W)
  BY <1>1, <1>2, <1>3, <1>4 DEF SumsOf
<1> DEFINE f == [W \in SUBSET V |-> IF W = {} THEN 0 ELSE a[Pick(W)] + SumsOf(a, W \ {Pick(W)})[W \ {Pick(W)}]]
<1>5. ASSUME NEW W \in SUBSET V, W # {}
      PROVE  f[W \ {Pick(W)}] = SumsOf(a, W \ {Pick(W)})[W \ {Pick(W)}]
  <2> DEFINE U == W \ {Pick(W)}
             X == U \ {Pick(U)}
  <2>1. U \subseteq V /\ U # V /\ U \in SUBSET V
    BY <1>5, PickIn
  <2>2. Sums(SumsOf(a, U), a, U)
    BY <1>4, <2>1
  <2>3. U \subseteq U /\ f[U] = IF U = {} THEN 0 ELSE a[Pick(U)] + SumsOf(a, X)[X]
    BY <2>1
  <2> HIDE DEF f
  <2>4. CASE U = {}
    <3>1. SumsOf(a, U)[U] = 0
      BY <2>2, <2>3, <2>4, SumsAt
    <3> QED BY <2>3, <2>4, <3>1
  <2>5. CASE U # {}
    <3>1. X \subseteq U /\ X # U /\ X \subseteq V /\ X # V /\ X \subseteq S
      BY <1>3, <2>1, <2>5, PickIn
    <3>2. Sums(SumsOf(a, X), a, X)
      BY <1>4, <3>1
    <3>3. IsFiniteSet(X)
      BY <3>1, FS_Subset
    <3>4. SumsOf(a, U)[X] = SumsOf(a, X)[X]
      BY <2>2, <3>1, <3>2, <3>3, SumsAgree
    <3>5. SumsOf(a, U)[U] = a[Pick(U)] + SumsOf(a, U)[X]
      <4> HIDE DEF U
      <4>1. U \subseteq U
        OBVIOUS
      <4> QED BY <2>2, <2>5, <4>1, SumsAt
    <3> QED BY <2>3, <2>5, <3>4, <3>5
  <2> QED BY <2>4, <2>5
<1>6. f = [W \in SUBSET V |-> IF W = {} THEN 0 ELSE a[Pick(W)] + f[W \ {Pick(W)}]]
  BY <1>5
<1>7. Sums(f, a, V)
  BY <1>6 DEF Sums
<1> QED BY <1>1, <1>2, <1>7

-----------------------------------------------------------------------------
(* What a sum is.                                                            *)
LEMMA TotalEmpty ==
  ASSUME NEW a
  PROVE  Total(a, {}) = 0
<1>1. IsFiniteSet({}) /\ {} \subseteq {}
  BY FS_EmptySet
<1>2. Sums(SumsOf(a, {}), a, {})
  BY <1>1, SumsExist
<1> QED BY <1>1, <1>2, SumsAt, TotalDef

LEMMA TotalAgree ==
  ASSUME NEW S, IsFiniteSet(S), NEW a, NEW b, \A x \in S : a[x] = b[x]
  PROVE  Total(a, S) = Total(b, S)
<1>1. Sums(SumsOf(a, S), a, S) /\ Sums(SumsOf(b, S), b, S)
  BY SumsExist
<1>2. S \subseteq S
  OBVIOUS
<1>3. SumsOf(a, S)[S] = SumsOf(b, S)[S]
  BY <1>1, <1>2, SumsAgree
<1> QED BY <1>3, TotalDef

LEMMA TotalPick ==
  ASSUME NEW S, IsFiniteSet(S), S # {}, NEW a
  PROVE  Total(a, S) = a[Pick(S)] + Total(a, S \ {Pick(S)})
<1> DEFINE T == S \ {Pick(S)}
<1>1. S \subseteq S /\ T \subseteq S /\ T \subseteq T /\ IsFiniteSet(T)
  BY FS_Subset
<1>2. Sums(SumsOf(a, S), a, S) /\ Sums(SumsOf(a, T), a, T)
  BY <1>1, SumsExist
<1>3. SumsOf(a, S)[S] = a[Pick(S)] + SumsOf(a, S)[T]
  BY <1>1, <1>2, SumsAt
<1> HIDE DEF T
<1>4. SumsOf(a, S)[T] = SumsOf(a, T)[T]
  BY <1>1, <1>2, SumsAgree
<1> QED BY <1>3, <1>4, TotalDef DEF T

LEMMA TotalInt ==
  ASSUME NEW S, IsFiniteSet(S), NEW a, \A x \in S : a[x] \in Int
  PROVE  Total(a, S) \in Int
<1> DEFINE B == {V \in SUBSET S : Total(a, V) \notin Int}
<1> SUFFICES ASSUME B # {} PROVE FALSE
  OBVIOUS
<1>1. B \subseteq SUBSET S /\ (\A V \in B : Total(a, V) \notin Int) /\ (\A V \in SUBSET S : V \notin B => Total(a, V) \in Int)
  OBVIOUS
<1> HIDE DEF B
<1>2. PICK V \in B : \A W \in B : ~(W \subseteq V /\ W # V)
  BY <1>1, MinimalSet
<1>3. V \subseteq S /\ IsFiniteSet(V) /\ Total(a, V) \notin Int
  BY <1>1, FS_Subset
<1>4. V # {}
  BY <1>3, TotalEmpty
<1> DEFINE W == V \ {Pick(V)}
<1>5. Pick(V) \in S /\ W \subseteq V /\ W # V /\ W \in SUBSET S
  BY <1>3, <1>4, PickIn
<1>6. Total(a, V) = a[Pick(V)] + Total(a, W)
  BY <1>3, <1>4, TotalPick
<1>7. Total(a, W) \in Int
  BY <1>1, <1>2, <1>5
<1>8. a[Pick(V)] \in Int
  BY <1>5
<1> QED BY <1>3, <1>6, <1>7, <1>8

LEMMA Distribute ==
  ASSUME NEW c \in Int, NEW x \in Int, NEW y \in Int
  PROVE  c * (x + y) = c * x + c * y
OBVIOUS

(* A bound on every amount is a bound on the sum.                            *)
LEMMA TotalBound ==
  ASSUME NEW S, IsFiniteSet(S), NEW a, NEW b, \A x \in S : a[x] \in Int /\ b[x] \in Int,
         NEW c \in Int, NEW e \in Int, NEW d \in Int, \A x \in S : c * a[x] <= e * b[x] + d
  PROVE  c * Total(a, S) <= e * Total(b, S) + d * Cardinality(S)
<1> DEFINE P(V) == c * Total(a, V) <= e * Total(b, V) + d * Cardinality(V)
           B == {V \in SUBSET S : ~P(V)}
<1> SUFFICES ASSUME B # {} PROVE FALSE
  OBVIOUS
<1>1. B \subseteq SUBSET S /\ (\A V \in B : ~P(V)) /\ (\A V \in SUBSET S : V \notin B => P(V))
  OBVIOUS
<1> HIDE DEF B, P
<1>2. PICK V \in B : \A W \in B : ~(W \subseteq V /\ W # V)
  BY <1>1, MinimalSet
<1>3. V \subseteq S /\ IsFiniteSet(V) /\ ~P(V)
  BY <1>1, FS_Subset
<1>4. V # {}
  <2> SUFFICES ASSUME V = {} PROVE P(V)
    BY <1>3
  <2>1. Total(a, V) = 0 /\ Total(b, V) = 0 /\ Cardinality(V) = 0
    BY TotalEmpty, FS_EmptySet
  <2> QED BY <2>1 DEF P
<1> DEFINE p == Pick(V)
           W == V \ {p}
<1>5. p \in V /\ p \in S /\ W \subseteq V /\ W # V /\ W \in SUBSET S
  BY <1>3, <1>4, PickIn
<1>6. Total(a, V) = a[p] + Total(a, W) /\ Total(b, V) = b[p] + Total(b, W)
  BY <1>3, <1>4, TotalPick
<1>7. P(W)
  BY <1>1, <1>2, <1>5
<1>8. IsFiniteSet(W) /\ Cardinality(V) = Cardinality(W) + 1 /\ Cardinality(W) \in Nat
  <2>1. IsFiniteSet(W) /\ Cardinality(W) = Cardinality(V) - 1
    BY <1>3, <1>5, FS_RemoveElement
  <2> QED BY <1>3, <2>1, FS_CardinalityType
<1>9. Total(a, W) \in Int /\ Total(b, W) \in Int
  BY <1>5, <1>8, TotalInt
<1>10. a[p] \in Int /\ b[p] \in Int /\ c * a[p] <= e * b[p] + d
  BY <1>5
<1> DEFINE A == a[p]
           E == b[p]
           X == Total(a, W)
           Y == Total(b, W)
           n == Cardinality(W)
<1>11. A \in Int /\ E \in Int /\ X \in Int /\ Y \in Int /\ n \in Int
  BY <1>8, <1>9, <1>10
<1>12. c * X <= e * Y + d * n /\ c * A <= e * E + d
  BY <1>7, <1>10 DEF P
<1>13. Total(a, V) = A + X /\ Total(b, V) = E + Y /\ Cardinality(V) = n + 1
  BY <1>6, <1>8
<1> HIDE DEF A, E, X, Y, n
<1>14. c * (A + X) = c * A + c * X /\ e * (E + Y) = e * E + e * Y /\ d * (n + 1) = d * n + d
  BY <1>11, Distribute
<1>15. c * A \in Int /\ c * X \in Int /\ e * E \in Int /\ e * Y \in Int /\ d * n \in Int
  BY <1>11
<1> DEFINE cA == c * A
           cX == c * X
           eE == e * E
           eY == e * Y
           dn == d * n
<1>16. /\ cA \in Int /\ cX \in Int /\ eE \in Int /\ eY \in Int /\ dn \in Int
       /\ cX <= eY + dn /\ cA <= eE + d
  BY <1>12, <1>15
<1>17. P(V) <=> cA + cX <= (eE + eY) + (dn + d)
  BY <1>13, <1>14 DEF P
<1> HIDE DEF cA, cX, eE, eY, dn
<1>18. cA + cX <= (eE + eY) + (dn + d)
  BY <1>16
<1> QED BY <1>3, <1>17, <1>18

LEMMA TotalNat ==
  ASSUME NEW S, IsFiniteSet(S), NEW a, \A x \in S : a[x] \in Nat
  PROVE  Total(a, S) \in Nat
<1> DEFINE z == [x \in S |-> 0]
<1>1. PICK c \in Int, e \in Int : c = 0 /\ e = 1
  OBVIOUS
<1>2. \A x \in S : z[x] \in Int /\ a[x] \in Int /\ c * z[x] <= e * a[x] + c
  BY <1>1
<1> HIDE DEF z
<1>3. c * Total(z, S) <= e * Total(a, S) + c * Cardinality(S)
  BY <1>2, TotalBound
<1>4. Total(a, S) \in Int /\ Total(z, S) \in Int /\ Cardinality(S) \in Nat
  BY <1>2, TotalInt, FS_CardinalityType
<1> QED BY <1>1, <1>3, <1>4

LEMMA TotalMonotone ==
  ASSUME NEW S, IsFiniteSet(S), NEW a, NEW b, \A x \in S : a[x] \in Int /\ b[x] \in Int /\ a[x] <= b[x]
  PROVE  Total(a, S) <= Total(b, S)
<1>1. PICK c \in Int, d \in Int : c = 1 /\ d = 0
  OBVIOUS
<1>2. \A x \in S : c * a[x] <= c * b[x] + d
  BY <1>1
<1>3. c * Total(a, S) <= c * Total(b, S) + d * Cardinality(S)
  BY <1>2, TotalBound
<1>4. Total(a, S) \in Int /\ Total(b, S) \in Int /\ Cardinality(S) \in Nat
  BY TotalInt, FS_CardinalityType
<1> QED BY <1>1, <1>3, <1>4

(* Any one of the amounts may be taken out of a sum.                         *)
LEMMA TotalRemove ==
  ASSUME NEW S, IsFiniteSet(S), NEW a, \A x \in S : a[x] \in Int, NEW y \in S
  PROVE  Total(a, S) = a[y] + Total(a, S \ {y})
<1> DEFINE P(V) == \A x \in V : Total(a, V) = a[x] + Total(a, V \ {x})
           B == {V \in SUBSET S : ~P(V)}
<1> SUFFICES ASSUME B # {} PROVE FALSE
  OBVIOUS
<1>1. B \subseteq SUBSET S /\ (\A V \in B : ~P(V)) /\ (\A V \in SUBSET S : V \notin B => P(V))
  OBVIOUS
<1> HIDE DEF B, P
<1>2. PICK V \in B : \A W \in B : ~(W \subseteq V /\ W # V)
  BY <1>1, MinimalSet
<1>3. V \subseteq S /\ IsFiniteSet(V) /\ ~P(V)
  BY <1>1, FS_Subset
<1>4. PICK x \in V : Total(a, V) # a[x] + Total(a, V \ {x})
  BY <1>3 DEF P
<1> DEFINE p == Pick(V)
           W == V \ {p}
           U == V \ {x}
           T == V \ {p, x}
<1>5. p \in V /\ W \subseteq V /\ W # V /\ W \in SUBSET S
  BY <1>3, <1>4, PickIn
<1>6. Total(a, V) = a[p] + Total(a, W)
  BY <1>3, <1>4, TotalPick
<1>7. x # p
  BY <1>4, <1>6
<1>8. U \subseteq V /\ U # V /\ U \in SUBSET S /\ x \in W /\ p \in U /\ W \ {x} = T /\ U \ {p} = T
  BY <1>3, <1>4, <1>5, <1>7
<1>9. P(W) /\ P(U)
  BY <1>1, <1>2, <1>5, <1>8
<1>10. Total(a, W) = a[x] + Total(a, T) /\ Total(a, U) = a[p] + Total(a, T)
  BY <1>8, <1>9 DEF P
<1>11. Total(a, T) \in Int /\ a[x] \in Int /\ a[p] \in Int
  <2>1. IsFiniteSet(T) /\ T \subseteq S
    BY <1>3, FS_Subset
  <2> QED BY <1>3, <1>4, <1>5, <2>1, TotalInt
<1> HIDE DEF W, U, T, p
<1>12. Total(a, V) = a[x] + Total(a, U)
  BY <1>6, <1>10, <1>11
<1> QED BY <1>4, <1>12 DEF U

-----------------------------------------------------------------------------
(* Division that rounds down, and what may be cancelled.                     *)
LEMMA Floor ==
  ASSUME NEW m \in Nat, NEW k \in Nat \ {0}
  PROVE  m \div k \in Nat /\ k * (m \div k) <= m /\ m <= k * (m \div k) + (k - 1)
OBVIOUS

LEMMA Cancel ==
  ASSUME NEW k \in Nat \ {0}, NEW x \in Int, NEW y \in Int, k * x <= k * y
  PROVE  x <= y
<1> SUFFICES ASSUME y + 1 <= x PROVE FALSE
  OBVIOUS
<1>1. k * (y + 1) = k * y + k
  BY Distribute
<1>2. k * (y + 1) <= k * x
  OBVIOUS
<1> QED BY <1>1, <1>2

(* A sum of less than m wholes, rounded down, is at most m - 1.              *)
LEMMA LessThanWhole ==
  ASSUME NEW k \in Nat \ {0}, NEW x \in Int, NEW m \in Nat, k * x <= (k - 1) * m
  PROVE  IF m = 0 THEN x <= 0 ELSE x <= m - 1
<1>1. CASE m = 0
  <2>1. k * x <= k * 0
    BY <1>1
  <2> QED BY <1>1, <2>1, Cancel
<1>2. CASE m # 0
  <2> SUFFICES ASSUME m <= x PROVE FALSE
    BY <1>2
  <2>1. k * m <= k * x
    OBVIOUS
  <2>2. (k - 1) * m = k * m - m
    OBVIOUS
  <2>3. k * m \in Int /\ k * x \in Int /\ m > 0
    BY <1>2
  <2> QED BY <2>1, <2>2, <2>3
<1> QED BY <1>1, <1>2

LEMMA ListFinite ==
  ASSUME NEW X, NEW list \in Seq(X)
  PROVE  IsFiniteSet(DOMAIN list) /\ IsFiniteSet({list[i] : i \in DOMAIN list})
<1> DEFINE R == {list[i] : i \in DOMAIN list}
           f == [i \in DOMAIN list |-> list[i]]
<1>1. IsFiniteSet(DOMAIN list)
  <2>1. DOMAIN list = 1..Len(list) /\ Len(list) \in Int /\ 1 \in Int
    OBVIOUS
  <2> QED BY <2>1, FS_Interval
<1>2. f \in Surjection(DOMAIN list, R)
  BY DEF Surjection
<1>3. IsFiniteSet(R)
  BY <1>1, <1>2, FS_Surjection
<1> QED BY <1>1, <1>3

(* There is a last of the parts.                                             *)
LEMMA LastIsOne ==
  ASSUME NEW X, NEW order \in Seq(X), NEW parts, parts # {}, parts \subseteq {order[i] : i \in DOMAIN order}
  PROVE  LastIn(parts, order) \in parts
<1> DEFINE I     == {i \in DOMAIN order : order[i] \in parts}
           B     == {{j \in I : j > i} : i \in I}
<1>1. IsFiniteSet(I)
  BY ListFinite, FS_Subset
<1>2. I # {} /\ \A i \in I : i \in Nat
  OBVIOUS
<1>3. B \subseteq SUBSET I /\ B # {}
  <2>1. \A U \in B : U \subseteq I
    OBVIOUS
  <2>2. PICK i : i \in I
    BY <1>2
  <2>3. {j \in I : j > i} \in B
    BY <2>2
  <2> HIDE DEF B, I
  <2> QED BY <2>1, <2>3
<1>4. PICK T \in B : \A U \in B : ~(U \subseteq T /\ U # T)
  <2> HIDE DEF B, I
  <2> QED BY <1>1, <1>3, MinimalSet
<1>5. PICK i \in I : T = {j \in I : j > i}
  OBVIOUS
<1>6. \A k \in I : ~(k > i)
  <2> SUFFICES ASSUME NEW k \in I, k > i PROVE FALSE
    OBVIOUS
  <2> DEFINE U == {j \in I : j > k}
  <2>1. U \in B
    OBVIOUS
  <2>2. U \subseteq T
    BY <1>2, <1>5
  <2>3. k \in T /\ k \notin U
    BY <1>2, <1>5
  <2> QED BY <1>4, <2>1, <2>2, <2>3
<1>7. order[i] \in parts /\ i \in DOMAIN order /\ \A j \in DOMAIN order : j > i => order[j] \notin parts
  BY <1>6
<1> QED BY <1>7 DEF LastIn

-----------------------------------------------------------------------------
(* The shares of an amount.                                                  *)
LEMMA ShareOf ==
  ASSUME NEW parts, IsFiniteSet(parts), NEW base, \A x \in parts : base[x] \in Nat,
         NEW total \in Nat, Total(base, parts) \in Nat \ {0}, NEW x \in parts
  PROVE  /\ Share(total, base, parts)[x] \in Nat
         /\ Total(base, parts) * Share(total, base, parts)[x] <= total * base[x]
         /\ total * base[x] <= Total(base, parts) * Share(total, base, parts)[x] + (Total(base, parts) - 1)
<1> DEFINE all == Total(base, parts)
           m   == total * base[x]
<1>1. Share(total, base, parts)[x] = m \div all
  BY DEF Share
<1>2. base[x] \in Nat
  OBVIOUS
<1>3. m \in Nat
  BY <1>2
<1> HIDE DEF m, all
<1>4. m \div all \in Nat /\ all * (m \div all) <= m /\ m <= all * (m \div all) + (all - 1)
  BY <1>3, Floor DEF all
<1> QED BY <1>1, <1>4 DEF m, all

(* What all but the last of them add up to: less than a unit for each is lost. *)
LEMMA Earlier ==
  ASSUME NEW parts, IsFiniteSet(parts), NEW base, \A x \in parts : base[x] \in Nat,
         NEW total \in Nat, Total(base, parts) \in Nat \ {0}, NEW last \in parts
  PROVE  LET all  == Total(base, parts)
             part == Total(Share(total, base, parts), parts \ {last})
             n    == Cardinality(parts) - 1
         IN /\ part \in Nat /\ n \in Nat
            /\ all * part <= total * (all - base[last])
            /\ total * (all - base[last]) <= all * part + (all - 1) * n
<1> DEFINE rest  == parts \ {last}
           share == Share(total, base, parts)
           all   == Total(base, parts)
<1>1. IsFiniteSet(rest) /\ Cardinality(rest) = Cardinality(parts) - 1 /\ Cardinality(rest) \in Nat
  BY FS_RemoveElement, FS_CardinalityType
<1>2. all = base[last] + Total(base, rest)
  BY TotalRemove
<1>3. Total(base, rest) \in Nat /\ base[last] \in Nat
  BY <1>1, TotalNat
<1>4. Total(base, rest) = all - base[last]
  BY <1>2, <1>3
<1>5. PICK zero \in Int, d \in Int : zero = 0 /\ d = all - 1
  OBVIOUS
<1>6. \A x \in rest : /\ share[x] \in Nat /\ base[x] \in Int /\ share[x] \in Int
                      /\ all * share[x] <= total * base[x] + zero
                      /\ total * base[x] <= all * share[x] + d
  BY <1>5, ShareOf
<1> HIDE DEF share, all, rest
<1>7. all \in Int /\ total \in Int
  BY DEF all
<1>8. all * Total(share, rest) <= total * Total(base, rest) + zero * Cardinality(rest)
  BY <1>1, <1>5, <1>6, <1>7, TotalBound
<1>9. total * Total(base, rest) <= all * Total(share, rest) + d * Cardinality(rest)
  BY <1>1, <1>5, <1>6, <1>7, TotalBound
<1>10. Total(share, rest) \in Nat
  BY <1>1, <1>6, TotalNat
<1>11. all * Total(share, rest) <= total * Total(base, rest)
  BY <1>1, <1>3, <1>5, <1>7, <1>8, <1>10
<1> QED BY <1>1, <1>4, <1>5, <1>9, <1>10, <1>11 DEF share, all, rest

(* What the last part is left with: something, and not much more than its    *)
(* own share when the whole is not more than all there is.                   *)
LEMMA LastShare ==
  ASSUME NEW parts, IsFiniteSet(parts), NEW base, \A x \in parts : base[x] \in Nat,
         NEW total \in Nat, Total(base, parts) \in Nat \ {0}, NEW last \in parts
  PROVE  LET part == Total(Share(total, base, parts), parts \ {last})
             n    == Cardinality(parts)
         IN /\ part \in Nat /\ n \in Nat /\ total - part \in Nat
            /\ total <= Total(base, parts) => total - part - base[last] <= IF n > 2 THEN n - 2 ELSE 0
<1> DEFINE all  == Total(base, parts)
           part == Total(Share(total, base, parts), parts \ {last})
           m    == Cardinality(parts) - 1
           b    == base[last]
<1>1. /\ part \in Nat /\ m \in Nat
      /\ all * part <= total * (all - b)
      /\ total * (all - b) <= all * part + (all - 1) * m
  BY Earlier
<1>2. all \in Nat \ {0} /\ total \in Nat /\ b \in Nat
  OBVIOUS
<1> HIDE DEF all, part, m, b
<1>3. total * (all - b) = total * all - total * b /\ total * b \in Nat /\ total * all = all * total
  BY <1>2
<1>4. part <= total
  <2>1. all * part <= all * total
    BY <1>1, <1>2, <1>3
  <2> QED BY <1>1, <1>2, <2>1, Cancel
<1>5. ASSUME total <= all
      PROVE  IF m = 0 THEN total - part - b <= 0 ELSE total - part - b <= m - 1
  <2> DEFINE e == total - part - b
  <2>1. total * b <= all * b
    BY <1>2, <1>5
  <2>2. all * e = all * total - all * part - all * b
    BY <1>1, <1>2
  <2>3. e \in Int
    BY <1>1, <1>2
  <2> HIDE DEF e
  <2> DEFINE at == all * total
             tb == total * b
             ab == all * b
             ap == all * part
             x  == (all - 1) * m
             ae == all * e
  <2>4. at \in Int /\ tb \in Int /\ ab \in Int /\ ap \in Int /\ x \in Int /\ ae \in Int
    BY <1>1, <1>2, <2>3
  <2>5. at - tb <= ap + x /\ tb <= ab /\ ae = at - ap - ab
    BY <1>1, <1>3, <2>1, <2>2
  <2> HIDE DEF at, tb, ab, ap, x, ae
  <2>6. ae <= x
    BY <2>4, <2>5
  <2>7. all * e <= (all - 1) * m
    BY <2>6 DEF ae, x
  <2> QED BY <1>1, <1>2, <2>3, <2>7, LessThanWhole DEF e
<1>6. Cardinality(parts) \in Nat /\ m = Cardinality(parts) - 1
  BY FS_CardinalityType DEF m
<1>7. total <= all => total - part - b <= IF Cardinality(parts) > 2 THEN Cardinality(parts) - 2 ELSE 0
  BY <1>1, <1>2, <1>5, <1>6
<1> QED BY <1>1, <1>2, <1>4, <1>6, <1>7 DEF all, part, b

(* What allocateAmount gives each part, in the case where there is something to share. *)
LEMMA Allocates ==
  ASSUME NEW parts, IsFiniteSet(parts), NEW base, \A x \in parts : base[x] \in Nat,
         NEW total \in Nat, NEW last \in parts
  PROVE  LET given == allocateAmount(total, base, parts, last)
         IN /\ given \in [parts -> Nat]
            /\ Total(base, parts) = 0 => Total(given, parts) = 0
            /\ Total(base, parts) # 0 => Total(given, parts) = total
            /\ total <= Total(base, parts) => \A x \in parts \ {last} : given[x] <= base[x]
<1> DEFINE given == allocateAmount(total, base, parts, last)
           all   == Total(base, parts)
           share == Share(total, base, parts)
           part  == Total(share, parts \ {last})
<1>1. all \in Nat
  BY TotalNat
<1>2. CASE total = 0 \/ all = 0
  <2>1. given = [x \in parts |-> 0]
    BY <1>2 DEF allocateAmount
  <2>2. Total(given, parts) = 0
    <3> DEFINE z == [x \in parts |-> 0]
    <3>1. \A x \in parts : z[x] \in Int /\ z[x] <= z[x] + z[x]
      OBVIOUS
    <3>2. PICK one \in Int, two \in Int, none \in Int : one = 1 /\ two = 2 /\ none = 0
      OBVIOUS
    <3>3. \A x \in parts : one * z[x] <= two * z[x] + none /\ two * z[x] <= one * z[x] + none
      BY <3>2
    <3> HIDE DEF z
    <3>4. one * Total(z, parts) <= two * Total(z, parts) + none * Cardinality(parts)
      BY <3>1, <3>3, TotalBound
    <3>5. two * Total(z, parts) <= one * Total(z, parts) + none * Cardinality(parts)
      BY <3>1, <3>3, TotalBound
    <3>6. Total(z, parts) \in Int /\ Cardinality(parts) \in Nat
      BY <3>1, TotalInt, FS_CardinalityType
    <3> QED BY <2>1, <3>2, <3>4, <3>5, <3>6 DEF z
  <2>3. given \in [parts -> Nat] /\ \A x \in parts : given[x] <= base[x]
    BY <2>1
  <2>4. all # 0 => Total(given, parts) = total
    BY <1>2, <2>2
  <2> QED BY <2>2, <2>3, <2>4
<1>3. CASE total # 0 /\ all # 0
  <2>1. given = [share EXCEPT ![last] = total - part] /\ DOMAIN share = parts
    BY <1>3 DEF allocateAmount, Share
  <2>2. part \in Nat /\ total - part \in Nat
    BY <1>1, <1>3, LastShare
  <2>3. \A x \in parts : share[x] \in Nat
    BY <1>1, <1>3, ShareOf
  <2> HIDE DEF share, given, all
  <2>4. given \in [parts -> Nat] /\ given[last] = total - part /\ \A x \in parts \ {last} : given[x] = share[x]
    BY <2>1, <2>2, <2>3
  <2>5. Total(given, parts) = given[last] + Total(given, parts \ {last})
    BY <2>4, TotalRemove
  <2>6. Total(given, parts \ {last}) = part
    <3>1. IsFiniteSet(parts \ {last})
      BY FS_Subset
    <3> QED BY <2>4, <3>1, TotalAgree
  <2>7. Total(given, parts) = total
    BY <2>2, <2>4, <2>5, <2>6
  <2>8. ASSUME total <= all, NEW x \in parts \ {last}
        PROVE  given[x] <= base[x]
    <3>1. all * share[x] <= total * base[x]
      BY <1>1, <1>3, ShareOf DEF share, all
    <3>2. base[x] \in Nat /\ share[x] \in Nat
      BY <2>3
    <3>3. total * base[x] <= all * base[x]
      BY <1>1, <2>8, <3>2
    <3>4. all * share[x] <= all * base[x]
      BY <1>1, <3>1, <3>2, <3>3
    <3> QED BY <1>1, <1>3, <2>4, <3>2, <3>4, Cancel
  <2> QED BY <1>3, <2>4, <2>7, <2>8 DEF given, all
<1> QED BY <1>2, <1>3

(* The shares of an amount, each rounded down but the last, add up to it: a  *)
(* discount or a tax that is spread over lines is spread entirely.           *)
THEOREM SharesAddUp ==
  ASSUME NEW parts, IsFiniteSet(parts), NEW base, \A x \in parts : base[x] \in Nat,
         NEW total \in Nat, NEW last \in parts, \E x \in parts : base[x] > 0
  PROVE  Total(allocateAmount(total, base, parts, last), parts) = total
<1>1. PICK x \in parts : base[x] > 0
  OBVIOUS
<1>2. Total(base, parts) = base[x] + Total(base, parts \ {x})
  BY TotalRemove
<1>3. Total(base, parts \ {x}) \in Nat
  <2>1. IsFiniteSet(parts \ {x})
    BY FS_Subset
  <2> QED BY <2>1, TotalNat
<1>4. Total(base, parts) # 0
  BY <1>1, <1>2, <1>3
<1> QED BY <1>4, Allocates

(* A fixed discount is given whole, up to a minor unit for each store beyond *)
(* the second, never more than whole, and no store gives more than it sells. *)
THEOREM FixedDiscountAddsUp ==
  ASSUME NEW stores, IsFiniteSet(stores), NEW subtotal, \A s \in stores : subtotal[s] \in Nat,
         NEW amount \in Nat, NEW last \in stores
  PROVE  LET all   == Total(subtotal, stores)
             whole == IF amount > all THEN all ELSE amount
             share == allocateFixedDiscount(amount, subtotal, stores, last)
             n     == Cardinality(stores)
         IN /\ share \in [stores -> Nat] /\ \A s \in stores : share[s] <= subtotal[s]
            /\ Total(share, stores) <= whole
            /\ whole - Total(share, stores) <= IF n > 2 THEN n - 2 ELSE 0
<1> DEFINE all   == Total(subtotal, stores)
           whole == IF amount > all THEN all ELSE amount
           given == allocateAmount(whole, subtotal, stores, last)
           share == allocateFixedDiscount(amount, subtotal, stores, last)
           rest  == stores \ {last}
           n     == Cardinality(stores)
<1>1. all \in Nat /\ whole \in Nat /\ whole <= all
  <2>1. all \in Nat
    BY TotalNat
  <2> HIDE DEF all
  <2> QED BY <2>1
<1>2. share = [s \in stores |-> IF given[s] > subtotal[s] THEN subtotal[s] ELSE given[s]]
  BY DEF allocateFixedDiscount
<1>3. /\ given \in [stores -> Nat]
      /\ all = 0 => Total(given, stores) = 0
      /\ all # 0 => Total(given, stores) = whole
      /\ \A s \in rest : given[s] <= subtotal[s]
  <2> HIDE DEF whole
  <2> QED BY <1>1, Allocates
<1> HIDE DEF given, share, whole
<1>4. share \in [stores -> Nat] /\ \A s \in stores : share[s] <= subtotal[s] /\ share[s] <= given[s]
  BY <1>2, <1>3
<1>5. \A s \in rest : share[s] = given[s]
  BY <1>2, <1>3, <1>4
<1>6. IsFiniteSet(rest) /\ n \in Nat
  BY FS_Subset, FS_CardinalityType
<1>7. Total(given, stores) = given[last] + Total(given, rest) /\ Total(share, stores) = share[last] + Total(share, rest)
  <2>1. \A s \in stores : given[s] \in Int /\ share[s] \in Int
    BY <1>3, <1>4
  <2> QED BY <2>1, TotalRemove
<1>8. Total(share, rest) = Total(given, rest) /\ Total(given, rest) \in Nat
  <2>1. \A s \in rest : given[s] \in Nat
    BY <1>3
  <2> QED BY <1>5, <1>6, <2>1, TotalAgree, TotalNat
<1>9. whole = Total(given, stores)
  <2>1. CASE all = 0
    BY <1>1, <1>3, <2>1
  <2> QED BY <1>3, <2>1
<1>10. given[last] \in Nat /\ share[last] \in Nat /\ share[last] <= given[last]
  BY <1>3, <1>4
<1>11. Total(share, stores) <= whole
  BY <1>7, <1>8, <1>9, <1>10
<1>12. given[last] - share[last] <= IF n > 2 THEN n - 2 ELSE 0
  <2>1. CASE given[last] <= subtotal[last]
    <3>1. share[last] = given[last]
      BY <1>2, <1>10, <2>1
    <3> QED BY <1>6, <1>10, <3>1
  <2>2. CASE ~(given[last] <= subtotal[last])
    <3>1. share[last] = subtotal[last] /\ subtotal[last] \in Nat /\ given[last] # 0
      BY <1>2, <1>10, <2>2
    <3>2. whole # 0 /\ all # 0
      <4>1. given[last] <= whole
        BY <1>7, <1>8, <1>9, <1>10
      <4> QED BY <1>1, <1>10, <3>1, <4>1
    <3> DEFINE part == Total(Share(whole, subtotal, stores), rest)
    <3>3. whole - part - subtotal[last] <= IF n > 2 THEN n - 2 ELSE 0
      BY <1>1, <3>2, LastShare
    <3>4. given[last] = whole - part
      BY <3>2 DEF given, allocateAmount, Share
    <3> QED BY <3>1, <3>3, <3>4
  <2> QED BY <2>1, <2>2
<1>13. whole - Total(share, stores) = given[last] - share[last]
  BY <1>7, <1>8, <1>9, <1>10
<1> QED BY <1>4, <1>11, <1>12, <1>13 DEF share, whole

-----------------------------------------------------------------------------
(* Sums over the parts of a partition.                                       *)
LEMMA TotalUnion ==
  ASSUME NEW S, IsFiniteSet(S), NEW a, \A x \in S : a[x] \in Int,
         NEW A, NEW C, A \cup C = S, A \cap C = {}
  PROVE  Total(a, S) = Total(a, A) + Total(a, C)
<1> DEFINE P(V) == Total(a, A \cup V) = Total(a, A) + Total(a, V)
           B == {V \in SUBSET C : ~P(V)}
<1> SUFFICES ASSUME B # {} PROVE FALSE
  <2>1. C \in SUBSET C
    OBVIOUS
  <2> QED BY <2>1
<1>1. B \subseteq SUBSET C /\ (\A V \in B : ~P(V)) /\ (\A V \in SUBSET C : V \notin B => P(V))
  OBVIOUS
<1> HIDE DEF B, P
<1>2. IsFiniteSet(A) /\ IsFiniteSet(C)
  BY FS_Subset
<1>3. PICK V \in B : \A W \in B : ~(W \subseteq V /\ W # V)
  BY <1>1, <1>2, MinimalSet
<1>4. V \subseteq C /\ IsFiniteSet(V) /\ ~P(V)
  BY <1>1, <1>2, FS_Subset
<1>5. V # {}
  <2> SUFFICES ASSUME V = {} PROVE P(V)
    BY <1>4
  <2>1. A \cup V = A /\ Total(a, V) = 0
    BY TotalEmpty
  <2>2. Total(a, A) \in Int
    BY <1>2, TotalInt
  <2> QED BY <2>1, <2>2 DEF P
<1> DEFINE p == Pick(V)
           W == V \ {p}
           U == A \cup V
<1>6. p \in V /\ W \subseteq V /\ W # V /\ W \in SUBSET C
  BY <1>4, <1>5, PickIn
<1>7. P(W)
  BY <1>1, <1>3, <1>6
<1>8. U \subseteq S /\ p \in U /\ U \ {p} = A \cup W /\ IsFiniteSet(U) /\ p \in S /\ IsFiniteSet(W) /\ W \subseteq S
  BY <1>4, <1>6, FS_Subset
<1>9. Total(a, U) = a[p] + Total(a, A \cup W)
  BY <1>8, TotalRemove
<1>10. Total(a, V) = a[p] + Total(a, W)
  BY <1>4, <1>5, TotalPick
<1>11. Total(a, A) \in Int /\ Total(a, W) \in Int /\ a[p] \in Int
  BY <1>2, <1>8, TotalInt
<1>12. Total(a, A \cup W) = Total(a, A) + Total(a, W)
  BY <1>7 DEF P
<1> HIDE DEF W, p
<1>13. Total(a, U) = Total(a, A) + Total(a, V)
  BY <1>9, <1>10, <1>11, <1>12
<1> QED BY <1>4, <1>13 DEF P

(* The sum over a whole is the sum of the sums over its parts.               *)
LEMMA TotalParts ==
  ASSUME NEW S, IsFiniteSet(S), NEW L, IsFiniteSet(L), NEW a, \A x \in L : a[x] \in Int,
         NEW f, \A x \in L : f[x] \in S, NEW sums, \A s \in S : sums[s] = Total(a, {x \in L : f[x] = s})
  PROVE  Total(a, L) = Total(sums, S)
<1> DEFINE At(V) == {x \in L : f[x] \in V}
           P(V) == Total(a, At(V)) = Total(sums, V)
           B == {V \in SUBSET S : ~P(V)}
<1> SUFFICES ASSUME B # {} PROVE FALSE
  <2>1. S \in SUBSET S /\ At(S) = L
    OBVIOUS
  <2>2. P(S)
    BY <2>1
  <2> QED BY <2>1, <2>2
<1>1. B \subseteq SUBSET S /\ (\A V \in B : ~P(V)) /\ (\A V \in SUBSET S : V \notin B => P(V))
  OBVIOUS
<1> HIDE DEF B, P
<1>2. PICK V \in B : \A W \in B : ~(W \subseteq V /\ W # V)
  BY <1>1, MinimalSet
<1>3. V \subseteq S /\ IsFiniteSet(V) /\ ~P(V)
  BY <1>1, FS_Subset
<1>4. V # {}
  <2> SUFFICES ASSUME V = {} PROVE P(V)
    BY <1>3
  <2>1. At(V) = {}
    OBVIOUS
  <2> QED BY <2>1, TotalEmpty DEF P
<1> DEFINE p == Pick(V)
           W == V \ {p}
           C == {x \in L : f[x] = p}
<1>5. p \in V /\ p \in S /\ W \subseteq V /\ W # V /\ W \in SUBSET S
  BY <1>3, <1>4, PickIn
<1>6. P(W)
  BY <1>1, <1>2, <1>5
<1>7. At(W) \cup C = At(V) /\ At(W) \cap C = {}
  BY <1>5
<1>8. IsFiniteSet(At(V)) /\ \A x \in At(V) : a[x] \in Int
  BY FS_Subset
<1>9. IsFiniteSet(At(W)) /\ IsFiniteSet(C) /\ (\A x \in At(W) : a[x] \in Int) /\ (\A x \in C : a[x] \in Int)
  BY FS_Subset
<1> HIDE DEF At
<1>10. Total(a, At(V)) = Total(a, At(W)) + Total(a, C)
  <2> DEFINE E == At(V)
             F == At(W)
  <2>1. F \cup C = E /\ F \cap C = {} /\ IsFiniteSet(E) /\ \A x \in E : a[x] \in Int
    BY <1>7, <1>8
  <2> HIDE DEF E, F, C
  <2>2. Total(a, E) = Total(a, F) + Total(a, C)
    BY <2>1, TotalUnion
  <2> QED BY <2>2 DEF E, F
<1>11. Total(sums, V) = sums[p] + Total(sums, W)
  BY <1>3, <1>4, TotalPick
<1>12. sums[p] = Total(a, C) /\ Total(a, At(W)) = Total(sums, W)
  BY <1>5, <1>6 DEF P
<1>13. Total(a, At(W)) \in Int /\ Total(a, C) \in Int
  BY <1>9, TotalInt
<1>14. Total(a, At(V)) = Total(sums, V)
  BY <1>10, <1>11, <1>12, <1>13
<1> QED BY <1>3, <1>14 DEF P

-----------------------------------------------------------------------------
(* The choice of a commission rule.                                          *)
LEMMA Specificity ==
  ASSUME NEW rule, NEW vendor, NEW category
  PROVE  specificity(rule, vendor, category) \in 0..4
<1> DEFINE A == rule.vendor = vendor   /\ category # NoneKnown /\ rule.category = category
           B == rule.vendor = vendor   /\ rule.category = Anything
           C == rule.vendor = Anything /\ category # NoneKnown /\ rule.category = category
           D == rule.vendor = Anything /\ rule.category = Anything
<1>1. specificity(rule, vendor, category) =
        CASE A -> 4 [] B -> 3 [] C -> 2 [] D -> 1 [] OTHER -> 0
  BY DEF specificity
<1> HIDE DEF A, B, C, D
<1>2. (CASE A -> 4 [] B -> 3 [] C -> 2 [] D -> 1 [] OTHER -> 0) \in 0..4
  OBVIOUS
<1> QED BY <1>1, <1>2

Ranked(rules) == \A r \in rules : r.priority \in Int /\ r.createdAt \in Int

LEMMA PrecedesOrders ==
  ASSUME NEW rules, Ranked(rules), NEW vendor, NEW category,
         NEW p \in rules, NEW q \in rules, NEW r \in rules
  PROVE  /\ ~Precedes(p, p, vendor, category)
         /\ Precedes(p, q, vendor, category) /\ Precedes(q, r, vendor, category) => Precedes(p, r, vendor, category)
BY Specificity DEF Ranked, Precedes

(* The rule that is charged fits, and no rule that fits goes before it; if    *)
(* none fits, the platform takes nothing.                                   *)
THEOREM RuleIsFirst ==
  ASSUME NEW rules, IsFiniteSet(rules), Ranked(rules), NEW vendor, NEW category
  PROVE  LET fitting == {r \in rules : specificity(r, vendor, category) > 0}
             chosen  == chooseRule(rules, vendor, category)
         IN IF fitting = {} THEN chosen = NoRule
            ELSE chosen \in fitting /\ \A q \in fitting : ~Precedes(q, chosen, vendor, category)
<1> DEFINE fitting == {r \in rules : specificity(r, vendor, category) > 0}
           Before(r) == {q \in fitting : Precedes(q, r, vendor, category)}
           B == {Before(r) : r \in fitting}
<1>1. CASE fitting = {}
  BY <1>1 DEF chooseRule
<1>2. CASE fitting # {}
  <2>1. IsFiniteSet(fitting) /\ fitting \subseteq rules
    BY FS_Subset
  <2>2. B \subseteq SUBSET fitting /\ B # {}
    <3>1. \A r \in fitting : Before(r) \in SUBSET fitting
      OBVIOUS
    <3>2. PICK r : r \in fitting
      BY <1>2
    <3>3. Before(r) \in B
      BY <3>2
    <3> HIDE DEF Before, fitting
    <3>4. \A U \in B : U \in SUBSET fitting
      BY <3>1
    <3> HIDE DEF B
    <3> QED BY <3>3, <3>4
  <2>3. PICK T \in B : \A U \in B : ~(U \subseteq T /\ U # T)
    <3> HIDE DEF B, fitting
    <3> QED BY <2>1, <2>2, MinimalSet
  <2>4. PICK r \in fitting : T = Before(r)
    OBVIOUS
  <2>5. ASSUME NEW q \in fitting, Precedes(q, r, vendor, category)
        PROVE  FALSE
    <3>1. Before(q) \in B
      OBVIOUS
    <3>2. \A p \in fitting : Precedes(p, q, vendor, category) => Precedes(p, r, vendor, category)
      BY <2>1, <2>4, <2>5, PrecedesOrders
    <3>3. ~Precedes(q, q, vendor, category)
      BY <2>1, PrecedesOrders
    <3>4. Before(q) \subseteq T /\ q \in T /\ q \notin Before(q)
      BY <2>4, <2>5, <3>2, <3>3
    <3> QED BY <2>3, <3>1, <3>4
  <2>6. \E c \in fitting : \A q \in fitting : ~Precedes(q, c, vendor, category)
    BY <2>4, <2>5
  <2>7. chooseRule(rules, vendor, category) = CHOOSE c \in fitting : \A q \in fitting : ~Precedes(q, c, vendor, category)
    BY <1>2 DEF chooseRule
  <2> HIDE DEF fitting
  <2> QED BY <1>2, <2>6, <2>7 DEF fitting
<1> QED BY <1>1, <1>2

(* The rate of the chosen rule, or of no rule, is a natural number.          *)
LEMMA RateOfRule ==
  ASSUME NEW rules, IsFiniteSet(rules), Ranked(rules),
         \A r \in rules : r.rateBps \in Nat, NEW vendor, NEW category
  PROVE  chooseRule(rules, vendor, category).rateBps \in Nat
<1>1. chooseRule(rules, vendor, category) = NoRule \/ chooseRule(rules, vendor, category) \in rules
  BY ONLY IsFiniteSet(rules), Ranked(rules), RuleIsFirst
<1>2. CASE chooseRule(rules, vendor, category) = NoRule
  BY ONLY <1>2 DEF NoRule
<1>3. CASE chooseRule(rules, vendor, category) \in rules
  BY ONLY <1>3, \A r \in rules : r.rateBps \in Nat
<1> QED BY ONLY <1>1, <1>2, <1>3

=============================================================================
