-------------------------- MODULE W4A4Kit_proofs --------------------------
(***************************************************************************)
(* Proofs about W4A4Kit.  Sums over index sets and quotients come first;   *)
(* then that each layout inverts the positions verify_kit.py computes, so  *)
(* that a file reads as its matrix unless a byte of it is bad.  From there  *)
(* the verdict of verify_kit.py on any kit with at most one bad file, and,  *)
(* of the banks whose lanes tell their kernels, what classify_output.py    *)
(* says of what the board did.                                             *)
(***************************************************************************)
EXTENDS W4A4Kit, FiniteSetTheorems, WellFoundedInduction, TLAPS

-----------------------------------------------------------------------------
(* Induction, and sums over finite sets                                     *)

(* What holds of zero, and of n + 1 if of n, holds of all naturals.         *)
LEMMA FromZero ==
  ASSUME NEW P, 0 \in P, \A n \in Nat : n \in P => n + 1 \in P
  PROVE  \A n \in Nat : n \in P
<1> DEFINE T == Nat \ P
<1>1. SUFFICES ASSUME T # {} PROVE FALSE
  OBVIOUS
<1>2. PICK x \in T : \A y \in T : ~(<<y, x>> \in OpToRel(<, Nat))
  <2>1. IsWellFoundedOn(OpToRel(<, Nat), Nat)
    BY Zenon, NatLessThanWellFounded
  <2>2. T \in SUBSET Nat
    OBVIOUS
  <2> HIDE DEF T
  <2> QED
    BY <1>1, <2>1, <2>2, WFMin, Zenon
<1>3. x \in Nat /\ x # 0
  BY <1>2
<1>4. x - 1 \in Nat /\ x - 1 < x /\ x = (x - 1) + 1
  BY <1>3
<1>5. x - 1 \notin T
  BY <1>2, <1>3, <1>4 DEF OpToRel
<1> QED
  BY <1>2, <1>4, <1>5

(* The function that the fold of Total computes from f on the subsets of D. *)
Pick(s) == CHOOSE x \in s : TRUE
(* g sums f over every subset of D. *)
IsSums(g, f, D) ==
  g = [s \in SUBSET D |-> IF s = {} THEN 0 ELSE f[Pick(s)] + g[s \ {Pick(s)}]]
SumsOf(f, D) == CHOOSE g : IsSums(g, f, D)

(* Total is that sum over the whole domain. *)
LEMMA TotalIsSum ==
  ASSUME NEW f
  PROVE  Total(f) = SumsOf(f, DOMAIN f)[DOMAIN f]
  BY DEF Total, MapThenSumSet, MapThenFoldSet, SumsOf, IsSums, Pick

(* Pick chooses a member. *)
LEMMA PickIsIn == ASSUME NEW s, s # {} PROVE Pick(s) \in s
  BY DEF Pick

(* It exists: with fewer members there is one, which one step extends.      *)
LEMMA SumsExist ==
  ASSUME NEW D, IsFiniteSet(D), NEW f \in [D -> Int]
  PROVE  IsSums(SumsOf(f, D), f, D) /\ SumsOf(f, D) \in [SUBSET D -> Int]
<1> DEFINE Small(n) == {s \in SUBSET D : Cardinality(s) <= n}
           Good(g, n) == /\ g \in [Small(n) -> Int]
                         /\ \A s \in Small(n) :
                              g[s] = IF s = {} THEN 0 ELSE f[Pick(s)] + g[s \ {Pick(s)}]
           P == {n \in Nat : \E g : Good(g, n)}
<1>1. \A s \in SUBSET D : IsFiniteSet(s) /\ Cardinality(s) \in Nat
  BY FS_Subset, FS_CardinalityType
<1>2. \A s \in SUBSET D : s # {} => /\ Pick(s) \in D /\ f[Pick(s)] \in Int
                                    /\ s \ {Pick(s)} \in SUBSET D
                                    /\ Cardinality(s \ {Pick(s)}) = Cardinality(s) - 1
  BY <1>1, PickIsIn, FS_RemoveElement
<1>3. 0 \in P
  <2> DEFINE g == [s \in Small(0) |-> 0]
  <2>1. \A s \in Small(0) : s = {}
    BY <1>1, FS_EmptySet
  <2>2. Good(g, 0)
    BY <2>1
  <2> QED
    BY <2>2
<1>4. ASSUME NEW n \in Nat, n \in P PROVE n + 1 \in P
  <2>1. PICK g : Good(g, n)
    BY <1>4
  <2> DEFINE h == [s \in Small(n + 1) |-> IF s = {} THEN 0 ELSE f[Pick(s)] + g[s \ {Pick(s)}]]
  <2>2. ASSUME NEW s \in Small(n + 1), s # {} PROVE s \ {Pick(s)} \in Small(n) /\ Pick(s) \in D
    BY <1>1, <1>2, <2>2
  <2>3. \A s \in Small(n) : s \in Small(n + 1) /\ h[s] = g[s]
    <3>1. SUFFICES ASSUME NEW s \in Small(n) PROVE s \in Small(n + 1) /\ h[s] = g[s]
      OBVIOUS
    <3>2. s \in Small(n + 1)
      BY <1>1
    <3>3. g[s] = IF s = {} THEN 0 ELSE f[Pick(s)] + g[s \ {Pick(s)}]
      BY <2>1
    <3> QED
      BY <3>2, <3>3
  <2>4. h \in [Small(n + 1) -> Int]
    BY <1>2, <2>1, <2>2
  <2>5. ASSUME NEW s \in Small(n + 1)
        PROVE  h[s] = IF s = {} THEN 0 ELSE f[Pick(s)] + h[s \ {Pick(s)}]
    <3>1. s # {} => h[s \ {Pick(s)}] = g[s \ {Pick(s)}]
      BY <2>2, <2>3
    <3> QED
      BY <3>1
  <2> HIDE DEF h
  <2>6. Good(h, n + 1)
    BY <2>4, <2>5
  <2> HIDE DEF Good, Small
  <2> QED
    BY <2>6
<1>5. Cardinality(D) \in P
  <2> HIDE DEF P
  <2> QED
    BY <1>1, <1>3, <1>4, FromZero
<1>6. PICK g : Good(g, Cardinality(D))
  BY <1>5
<1>7. Small(Cardinality(D)) = SUBSET D
  BY <1>1, FS_Subset
<1>8. g \in [SUBSET D -> Int] /\ IsSums(g, f, D)
  BY <1>6, <1>7 DEF IsSums
<1>9. IsSums(SumsOf(f, D), f, D)
  BY <1>8 DEF SumsOf
<1> DEFINE S == SumsOf(f, D)
<1>10. /\ DOMAIN S = SUBSET D /\ S = [s \in SUBSET D |-> S[s]]
       /\ \A s \in SUBSET D : S[s] = IF s = {} THEN 0 ELSE f[Pick(s)] + S[s \ {Pick(s)}]
  <2> HIDE DEF S
  <2>1. S = [s \in SUBSET D |-> IF s = {} THEN 0 ELSE f[Pick(s)] + S[s \ {Pick(s)}]]
    BY <1>9 DEF S, IsSums
  <2> QED
    BY <2>1
<1> HIDE DEF S
<1> DEFINE Q == {n \in Nat : \A s \in SUBSET D : Cardinality(s) = n => S[s] \in Int}
<1>11. 0 \in Q
  <2>1. S[{}] = 0
    BY <1>10
  <2> QED
    BY <1>1, <2>1, FS_EmptySet
<1>12. ASSUME NEW n \in Nat, n \in Q PROVE n + 1 \in Q
  <2>1. SUFFICES ASSUME NEW s \in SUBSET D, Cardinality(s) = n + 1 PROVE S[s] \in Int
    OBVIOUS
  <2>2. s # {}
    BY <1>1, <2>1, FS_EmptySet
  <2>3. s \ {Pick(s)} \in SUBSET D /\ Cardinality(s \ {Pick(s)}) = n
    BY <1>2, <2>1, <2>2
  <2>4. S[s \ {Pick(s)}] \in Int
    BY <1>12, <2>3
  <2>5. S[s] = f[Pick(s)] + S[s \ {Pick(s)}] /\ f[Pick(s)] \in Int
    BY <1>2, <1>10, <2>1, <2>2
  <2> QED
    BY <2>4, <2>5
<1>13. \A n \in Nat : n \in Q
  <2> HIDE DEF Q
  <2> QED
    BY <1>11, <1>12, FromZero
<1>14. \A s \in SUBSET D : S[s] \in Int
  BY <1>1, <1>13
<1> QED
  BY <1>9, <1>10, <1>14 DEF S

(* What it is: any member may be taken first.                               *)
AddsUp(S, f, D) ==
  /\ S \in [SUBSET D -> Int] /\ S[{}] = 0
  /\ \A s \in SUBSET D : \A x \in s : S[s] = f[x] + S[s \ {x}]

(* A set with one member less. *)
LEMMA OneLess ==
  ASSUME NEW D, IsFiniteSet(D), NEW s \in SUBSET D, NEW x \in s, NEW n \in Nat, Cardinality(s) = n + 1
  PROVE  s \ {x} \in SUBSET D /\ Cardinality(s \ {x}) = n
<1>1. IsFiniteSet(s)
  BY FS_Subset
<1>2. Cardinality(s \ {x}) = Cardinality(s) - 1
  BY <1>1, FS_RemoveElement
<1> QED
  BY <1>2

(* A set that is not empty has a member. *)
LEMMA OneMember ==
  ASSUME NEW D, IsFiniteSet(D), NEW s \in SUBSET D, NEW n \in Nat, Cardinality(s) = n + 1
  PROVE  \E x : x \in s
  BY FS_Subset, FS_EmptySet

(* The sums of f over the subsets of D add up. *)
LEMMA SumsAre ==
  ASSUME NEW D, IsFiniteSet(D), NEW f \in [D -> Int]
  PROVE  AddsUp(SumsOf(f, D), f, D)
<1> DEFINE S == SumsOf(f, D)
<1>1. \A s \in SUBSET D : IsFiniteSet(s) /\ Cardinality(s) \in Nat
  BY FS_Subset, FS_CardinalityType
<1>2. /\ S \in [SUBSET D -> Int]
      /\ \A s \in SUBSET D : S[s] = IF s = {} THEN 0 ELSE f[Pick(s)] + S[s \ {Pick(s)}]
  <2>1. S \in [SUBSET D -> Int] /\ IsSums(S, f, D)
    BY SumsExist
  <2> HIDE DEF S
  <2> QED
    BY <2>1 DEF IsSums
<1> HIDE DEF S
<1> DEFINE P == {n \in Nat : \A s \in SUBSET D : Cardinality(s) = n =>
                               \A x \in s : S[s] = f[x] + S[s \ {x}]}
<1>3. 0 \in P
  BY <1>1, FS_EmptySet
<1>4. ASSUME NEW n \in Nat, n \in P PROVE n + 1 \in P
  <2>1. SUFFICES ASSUME NEW s \in SUBSET D, Cardinality(s) = n + 1, NEW x \in s
                 PROVE  S[s] = f[x] + S[s \ {x}]
    OBVIOUS
  <2> DEFINE p == Pick(s)
  <2>2. p \in s /\ S[s] = f[p] + S[s \ {p}]
    BY <1>2, <2>1, PickIsIn
  <2> HIDE DEF p
  <2>3. CASE x = p
    BY <2>2, <2>3
  <2>4. CASE x # p
    <3>1. x \in s \ {p} /\ p \in s \ {x} /\ (s \ {p}) \ {x} = (s \ {x}) \ {p}
      BY <2>2, <2>4
    <3>2. Cardinality(s \ {p}) = n /\ Cardinality(s \ {x}) = n
      BY <2>1, <2>2, OneLess
    <3>3. S[s \ {p}] = f[x] + S[(s \ {p}) \ {x}] /\ S[s \ {x}] = f[p] + S[(s \ {x}) \ {p}]
      BY <1>4, <3>1, <3>2
    <3>4. f[x] \in Int /\ f[p] \in Int /\ S[(s \ {p}) \ {x}] \in Int
      BY <1>2, <2>2
    <3> DEFINE a == S[s]  b == S[s \ {p}]  c == S[s \ {x}]  e == S[(s \ {p}) \ {x}]
    <3>5. a = f[p] + b
      BY <2>2
    <3>6. b = f[x] + e /\ c = f[p] + e
      BY <3>1, <3>3
    <3>7. e \in Int
      BY <3>4
    <3> HIDE DEF a, b, c, e
    <3>8. a = f[x] + c
      BY <3>4, <3>5, <3>6, <3>7
    <3> QED
      BY <3>8 DEF a, c
  <2> QED
    BY <2>3, <2>4
<1>5. \A n \in Nat : n \in P
  <2> HIDE DEF P
  <2> QED
    BY <1>3, <1>4, FromZero
<1>6. \A s \in SUBSET D : \A x \in s : S[s] = f[x] + S[s \ {x}]
  BY <1>1, <1>5
<1>7. S[{}] = 0
  BY <1>2
<1> QED
  BY <1>2, <1>6, <1>7 DEF S, AddsUp

(* Two functions with the same values, each as often, have the same sums.   *)
LEMMA SameSums ==
  ASSUME NEW D, IsFiniteSet(D), NEW f \in [D -> Int],
         NEW E, IsFiniteSet(E), NEW g \in [E -> Int],
         NEW w \in [D -> E], \A e \in E : \E d \in D : w[d] = e,
         \A c, d \in D : w[c] = w[d] => c = d,
         \A d \in D : f[d] = g[w[d]]
  PROVE  SumsOf(f, D)[D] = SumsOf(g, E)[E]
<1> DEFINE S == SumsOf(f, D)
           T == SumsOf(g, E)
           Img(s) == {w[d] : d \in s}
<1>1. /\ S \in [SUBSET D -> Int] /\ S[{}] = 0
      /\ \A s \in SUBSET D : \A x \in s : S[s] = f[x] + S[s \ {x}]
  <2>1. AddsUp(S, f, D)
    BY SumsAre
  <2> HIDE DEF S
  <2> QED
    BY <2>1 DEF AddsUp
<1>2. /\ T \in [SUBSET E -> Int] /\ T[{}] = 0
      /\ \A s \in SUBSET E : \A x \in s : T[s] = g[x] + T[s \ {x}]
  <2>1. AddsUp(T, g, E)
    BY SumsAre
  <2> HIDE DEF T
  <2> QED
    BY <2>1 DEF AddsUp
<1> HIDE DEF S, T
<1>3. \A s \in SUBSET D : IsFiniteSet(s) /\ Cardinality(s) \in Nat
  BY FS_Subset, FS_CardinalityType
<1> DEFINE P == {n \in Nat : \A s \in SUBSET D : Cardinality(s) = n => S[s] = T[Img(s)]}
<1>4. 0 \in P
  <2>1. Img({}) = {}
    OBVIOUS
  <2> QED
    BY <1>1, <1>2, <1>3, <2>1, FS_EmptySet
<1>5. ASSUME NEW n \in Nat, n \in P PROVE n + 1 \in P
  <2>1. SUFFICES ASSUME NEW s \in SUBSET D, Cardinality(s) = n + 1 PROVE S[s] = T[Img(s)]
    OBVIOUS
  <2>2. PICK x \in s : TRUE
    BY <2>1, OneMember
  <2>3. S[s \ {x}] = T[Img(s \ {x})]
    <3>1. s \ {x} \in SUBSET D /\ Cardinality(s \ {x}) = n
      BY <2>1, OneLess
    <3> QED
      BY <1>5, <3>1
  <2>4. Img(s) \in SUBSET E /\ w[x] \in Img(s) /\ Img(s \ {x}) = Img(s) \ {w[x]}
    OBVIOUS
  <2> QED
    BY <1>1, <1>2, <2>3, <2>4
<1>6. \A n \in Nat : n \in P
  <2> HIDE DEF P
  <2> QED
    BY <1>4, <1>5, FromZero
<1>7. S[D] = T[Img(D)] /\ Img(D) = E
  BY <1>3, <1>6
<1> QED
  BY <1>7 DEF S, T

-----------------------------------------------------------------------------
(* Total                                                                    *)

LEMMA TotalOfNone ==
  ASSUME NEW f \in [{} -> Int]
  PROVE  Total(f) = 0
  BY TotalIsSum, SumsAre, FS_EmptySet DEF AddsUp

(* A sum of integers is an integer. *)
LEMMA TotalIsInt ==
  ASSUME NEW D, IsFiniteSet(D), NEW f \in [D -> Int]
  PROVE  Total(f) \in Int
<1>1. Total(f) = SumsOf(f, D)[D]
  BY TotalIsSum
<1>2. AddsUp(SumsOf(f, D), f, D)
  BY SumsAre
<1> QED
  BY <1>1, <1>2 DEF AddsUp

(* A sum does not depend on the order of its summands. *)
LEMMA SameTotal ==
  ASSUME NEW D, IsFiniteSet(D), NEW f \in [D -> Int],
         NEW E, IsFiniteSet(E), NEW g \in [E -> Int],
         NEW w \in [D -> E], \A e \in E : \E d \in D : w[d] = e,
         \A c, d \in D : w[c] = w[d] => c = d,
         \A d \in D : f[d] = g[w[d]]
  PROVE  Total(f) = Total(g)
  BY TotalIsSum, SameSums

(* One more summand.                                                        *)
Without(f, D, x) == [d \in D \ {x} |-> f[d]]

(* Any summand may be taken first. *)
LEMMA TotalOfOneMore ==
  ASSUME NEW D, IsFiniteSet(D), NEW f \in [D -> Int], NEW x \in D
  PROVE  Total(f) = f[x] + Total(Without(f, D, x))
<1> DEFINE E == D \ {x}
           g == [d \in E |-> f[d]]
           h == [d \in E |-> d]
           S == SumsOf(f, D)
           T == SumsOf(g, E)
           Q == {n \in Nat : \A s \in SUBSET E : Cardinality(s) = n => S[s] = T[s]}
<1>0. IsFiniteSet(E) /\ E \subseteq D /\ g \in [E -> Int] /\ DOMAIN f = D /\ DOMAIN g = E
  BY FS_RemoveElement
<1>1. /\ S \in [SUBSET D -> Int] /\ S[{}] = 0
      /\ \A s \in SUBSET D : \A d \in s : S[s] = f[d] + S[s \ {d}]
  <2>1. AddsUp(S, f, D)
    BY SumsAre
  <2> HIDE DEF S
  <2> QED
    BY <2>1 DEF AddsUp
<1>2. /\ T \in [SUBSET E -> Int] /\ T[{}] = 0
      /\ \A s \in SUBSET E : \A d \in s : T[s] = g[d] + T[s \ {d}]
  <2> HIDE DEF E, g
  <2>1. AddsUp(T, g, E)
    BY <1>0, SumsAre
  <2> HIDE DEF T
  <2> QED
    BY <2>1 DEF AddsUp
<1>3. Total(f) = S[D] /\ Total(g) = T[E]
  BY <1>0, TotalIsSum
<1>4. \A s \in SUBSET E : IsFiniteSet(s) /\ Cardinality(s) \in Nat
  <2> HIDE DEF E
  <2> QED
    BY <1>0, FS_Subset, FS_CardinalityType
<1>5. \A d \in E : g[d] = f[d]
  OBVIOUS
<1> HIDE DEF S, T, g
<1>6. 0 \in Q
  BY <1>1, <1>2, <1>4, FS_EmptySet
<1>7. ASSUME NEW n \in Nat, n \in Q PROVE n + 1 \in Q
  <2>1. SUFFICES ASSUME NEW s \in SUBSET E, Cardinality(s) = n + 1 PROVE S[s] = T[s]
    OBVIOUS
  <2>2. PICK d \in s : TRUE
    BY <1>0, <2>1, OneMember
  <2>3. S[s \ {d}] = T[s \ {d}]
    <3>1. s \ {d} \in SUBSET E /\ Cardinality(s \ {d}) = n
      <4> HIDE DEF E
      <4> QED
        BY <1>0, <2>1, OneLess
    <3> QED
      BY <1>7, <3>1
  <2> QED
    BY <1>0, <1>1, <1>2, <1>5, <2>3
<1>8. \A n \in Nat : n \in Q
  <2> HIDE DEF Q
  <2> QED
    BY <1>6, <1>7, FromZero
<1>9. S[E] = T[E]
  BY <1>4, <1>8
<1>10. S[D] = f[x] + S[E]
  BY <1>1
<1> QED
  BY <1>3, <1>9, <1>10 DEF g, Without

-----------------------------------------------------------------------------
(* Quotients                                                                *)

(* Quotient and remainder. *)
LEMMA Division ==
  ASSUME NEW g \in Nat \ {0}, NEW n \in Nat
  PROVE  /\ n \div g \in Nat /\ n % g \in Rows(g)
         /\ n = (n \div g) * g + (n % g)
<1>1. n \div g \in Nat /\ n % g \in 0 .. g - 1 /\ n = (n \div g) * g + (n % g)
  BY Z3
<1> QED
  BY <1>1 DEF Rows

(* The digits of a number: it is composed in one way only. *)
LEMMA Digits ==
  ASSUME NEW g \in Nat \ {0}, NEW q \in Nat, NEW r \in Rows(g)
  PROVE  (q * g + r) \div g = q /\ (q * g + r) % g = r
<1> DEFINE n == q * g + r
           p == n \div g
           s == n % g
<1>0. g \in Nat /\ g > 0 /\ r \in 0 .. g - 1 /\ q * g \in Nat /\ n \in Nat
  BY DEF Rows
<1>1. p \in Nat /\ s \in 0 .. g - 1 /\ q * g + r = p * g + s
  <2> HIDE DEF n
  <2>1. p \in Nat /\ s \in 0 .. g - 1 /\ n = p * g + s
    BY <1>0, Division DEF Rows
  <2> QED
    BY <2>1 DEF n
<1> HIDE DEF p, s, n
<1>2. ~(p > q)
  <2>1. SUFFICES ASSUME p >= q + 1 PROVE FALSE
    BY <1>1
  <2>2. p * g >= (q + 1) * g
    BY <1>0, <1>1, <2>1
  <2>3. (q + 1) * g = q * g + g
    BY <1>0
  <2> QED
    BY <1>0, <1>1, <2>2, <2>3
<1>3. ~(q > p)
  <2>1. SUFFICES ASSUME q >= p + 1 PROVE FALSE
    BY <1>1
  <2>2. q * g >= (p + 1) * g
    BY <1>0, <1>1, <2>1
  <2>3. (p + 1) * g = p * g + g
    BY <1>0, <1>1
  <2> QED
    BY <1>0, <1>1, <2>2, <2>3
<1>4. p = q
  BY <1>1, <1>2, <1>3
<1>5. s = r
  BY <1>0, <1>1, <1>4
<1> QED
  BY <1>4, <1>5 DEF p, s, n

(* In range. *)
LEMMA InRange ==
  ASSUME NEW g \in Nat \ {0}, NEW m \in Nat, NEW q \in Rows(m), NEW r \in Rows(g)
  PROVE  q * g + r \in Rows(m * g)
<1>1. q \in Nat /\ m - 1 - q \in Nat /\ g \in Nat /\ r \in 0 .. g - 1 /\ q * g \in Nat /\ m * g \in Nat
  BY DEF Rows
<1>2. (m - 1 - q) * g \in Nat
  BY <1>1
<1>3. m * g = (m - 1 - q) * g + q * g + g
  BY <1>1
<1> QED
  BY <1>1, <1>2, <1>3 DEF Rows

(* The quotient of a number in range is in range. *)
LEMMA QuotientInRange ==
  ASSUME NEW g \in Nat \ {0}, NEW m \in Nat, NEW n \in Rows(m * g)
  PROVE  n \div g \in Rows(m)
<1> DEFINE p == n \div g
<1>1. m * g \in Nat /\ n \in Nat /\ n < m * g
  BY DEF Rows
<1>2. p \in Nat /\ n >= p * g
  BY <1>1, Division DEF Rows
<1> HIDE DEF p
<1>3. ~(p >= m)
  <2>1. SUFFICES ASSUME p - m \in Nat PROVE FALSE
    BY <1>2
  <2>2. (p - m) * g \in Nat /\ p * g = (p - m) * g + m * g
    BY <1>2, <2>1
  <2> QED
    BY <1>1, <1>2, <2>2
<1> QED
  BY <1>2, <1>3 DEF p, Rows

(* One division after the other. *)
LEMMA Divisions ==
  ASSUME NEW u \in Nat \ {0}, NEW v \in Nat \ {0}, NEW n \in Nat
  PROVE  n \div (v * u) = (n \div u) \div v
<1> DEFINE a == n \div u
           b == n % u
           c == a \div v
           e == a % v
<1>1. a \in Nat /\ b \in Rows(u) /\ n = a * u + b
  BY Division
<1> HIDE DEF a, b
<1>2. c \in Nat /\ e \in Rows(v) /\ a = c * v + e
  BY <1>1, Division
<1> HIDE DEF c, e
<1>3. e * u + b \in Rows(v * u)
  BY <1>1, <1>2, InRange
<1>4. n = c * (v * u) + (e * u + b)
  <2>1. u \in Nat /\ v \in Nat /\ e \in Nat /\ b \in Nat
    BY <1>1, <1>2 DEF Rows
  <2>2. (c * v + e) * u = c * (v * u) + e * u
    BY <1>2, <2>1
  <2> QED
    BY <1>1, <1>2, <2>1, <2>2
<1>5. v * u \in Nat \ {0}
  OBVIOUS
<1>6. (c * (v * u) + (e * u + b)) \div (v * u) = c
  BY <1>2, <1>3, <1>5, Digits
<1>7. n \div (v * u) = c
  BY <1>4, <1>6
<1> QED
  BY <1>7 DEF a, c

(* A multiple of g. *)
LEMMA Multiple ==
  ASSUME NEW g \in Nat \ {0}, NEW n \in Nat, n % g = 0
  PROVE  n = (n \div g) * g /\ n \div g \in Nat /\ (n # 0 => n \div g # 0)
<1>1. n = (n \div g) * g + (n % g) /\ n \div g \in Nat
  BY Division
<1> QED
  BY <1>1

-----------------------------------------------------------------------------
(* Layouts                                                                  *)

(* The positions at, from 1, are the inverse of the layout lay.             *)
Inverts(at, lay, R, C) ==
  /\ lay \in [1 .. R * C -> Rows(R) \X Rows(C)]
  /\ at \in [Rows(R) \X Rows(C) -> 1 .. R * C]
  /\ \A p \in 1 .. R * C : at[lay[p]] = p
  /\ \A c \in Rows(R) \X Rows(C) : lay[at[c]] = c

(* The positions of the layouts, as verify_kit.py computes them. *)
NormalAt(R, C)      == [c \in Rows(R) \X Rows(C) |-> AtNormal(C, c[1], c[2]) + 1]
NativeAt(R, C, t)   == [c \in Rows(R) \X Rows(C) |-> AtNative(R, t, c[1], c[2]) + 1]
BNativeAt(K, M, nt) == [c \in Rows(K) \X Rows(M) |-> AtBNative(K, nt, c[1], c[2]) + 1]
BKMajorAt(K, M, nt) == [c \in Rows(K) \X Rows(M) |-> AtBKMajor(K, nt, c[1], c[2]) + 1]

(* It is enough to look at the numbers from 0. *)
LEMMA InvertsIf ==
  ASSUME NEW R \in Nat, NEW C \in Nat, NEW lay, NEW at,
         DOMAIN lay = 1 .. R * C, lay = [p \in 1 .. R * C |-> lay[p]],
         at = [c \in Rows(R) \X Rows(C) |-> at[c]],
         \A q \in Rows(R * C) : \E i \in Rows(R), j \in Rows(C) :
           lay[q + 1] = <<i, j>> /\ at[<<i, j>>] = q + 1,
         \A i \in Rows(R), j \in Rows(C) : \E q \in Rows(R * C) :
           at[<<i, j>>] = q + 1 /\ lay[q + 1] = <<i, j>>
  PROVE  Inverts(at, lay, R, C)
<1>1. R * C \in Nat
  OBVIOUS
<1>2. ASSUME NEW p \in 1 .. R * C
      PROVE  lay[p] \in Rows(R) \X Rows(C) /\ at[lay[p]] = p
  <2> DEFINE q == p - 1
  <2>1. q \in Rows(R * C) /\ q + 1 = p
    BY <1>1 DEF Rows
  <2> HIDE DEF q
  <2>2. PICK i \in Rows(R), j \in Rows(C) : lay[q + 1] = <<i, j>> /\ at[<<i, j>>] = q + 1
    BY <2>1
  <2>3. lay[p] = <<i, j>> /\ at[<<i, j>>] = p
    BY <2>1, <2>2
  <2> QED
    BY <2>3
<1>3. ASSUME NEW c \in Rows(R) \X Rows(C)
      PROVE  at[c] \in 1 .. R * C /\ lay[at[c]] = c
  <2>1. PICK i \in Rows(R), j \in Rows(C) : c = <<i, j>>
    OBVIOUS
  <2>2. PICK q \in Rows(R * C) : at[<<i, j>>] = q + 1 /\ lay[q + 1] = <<i, j>>
    OBVIOUS
  <2>3. q + 1 \in 1 .. R * C
    BY <1>1 DEF Rows
  <2> QED
    BY <2>1, <2>2, <2>3
<1> QED
  BY <1>2, <1>3 DEF Inverts

(* Row-major: the row, the column. *)
LEMMA NormalInverts ==
  ASSUME NEW R \in Nat \ {0}, NEW C \in Nat \ {0}
  PROVE  Inverts(NormalAt(R, C), Normal(R, C), R, C)
<1> DEFINE lay == Normal(R, C)
           at == NormalAt(R, C)
<1>1. /\ DOMAIN lay = 1 .. R * C /\ lay = [p \in 1 .. R * C |-> lay[p]]
      /\ at = [c \in Rows(R) \X Rows(C) |-> at[c]]
  BY DEF Normal, NormalAt
<1>2. \A i \in Rows(R), j \in Rows(C) : at[<<i, j>>] = i * C + j + 1
  BY DEF NormalAt, AtNormal
<1>3. \A q \in Rows(R * C) : lay[q + 1] = <<q \div C, q % C>>
  <2>1. ASSUME NEW q \in Rows(R * C) PROVE lay[q + 1] = <<q \div C, q % C>>
    <3>1. q + 1 \in 1 .. R * C /\ (q + 1) - 1 = q
      BY DEF Rows
    <3> QED
      BY <3>1 DEF Normal
  <2> QED
    BY <2>1
<1>4. ASSUME NEW q \in Rows(R * C)
      PROVE  \E i \in Rows(R), j \in Rows(C) : lay[q + 1] = <<i, j>> /\ at[<<i, j>>] = q + 1
  <2>1. q \in Nat
    BY DEF Rows
  <2>2. q \div C \in Rows(R) /\ q % C \in Rows(C) /\ q = (q \div C) * C + (q % C)
    BY <2>1, Division, QuotientInRange
  <2> HIDE DEF at, lay
  <2> QED
    BY <1>2, <1>3, <2>2
<1>5. ASSUME NEW i \in Rows(R), NEW j \in Rows(C)
      PROVE  \E q \in Rows(R * C) : at[<<i, j>>] = q + 1 /\ lay[q + 1] = <<i, j>>
  <2>1. i * C + j \in Rows(R * C)
    BY InRange
  <2>2. (i * C + j) \div C = i /\ (i * C + j) % C = j
    <3>1. i \in Nat
      BY DEF Rows
    <3> QED
      BY <3>1, Digits
  <2> HIDE DEF at, lay
  <2> QED
    BY <1>2, <1>3, <2>1, <2>2
<1> HIDE DEF at, lay
<1>6. Inverts(at, lay, R, C)
  BY <1>1, <1>4, <1>5, InvertsIf
<1> QED
  BY <1>6 DEF at, lay

(* a_native, c_native: the tile, the row, the place in the tile. *)
LEMMA NativeInverts ==
  ASSUME NEW R \in Nat \ {0}, NEW C \in Nat \ {0}, NEW t \in Nat \ {0}, C % t = 0
  PROVE  Inverts(NativeAt(R, C, t), Native(R, C, t), R, C)
<1> DEFINE lay == Native(R, C, t)
           at == NativeAt(R, C, t)
           m == C \div t
<1>0. m \in Nat \ {0} /\ C = m * t
  BY Multiple
<1> HIDE DEF m
<1>1. /\ DOMAIN lay = 1 .. R * C /\ lay = [p \in 1 .. R * C |-> lay[p]]
      /\ at = [c \in Rows(R) \X Rows(C) |-> at[c]]
  BY DEF Native, NativeAt
<1>2. \A i \in Rows(R), j \in Rows(C) : at[<<i, j>>] = ((j \div t) * R + i) * t + (j % t) + 1
  BY DEF NativeAt, AtNative
<1>3. \A q \in Rows(R * C) :
        lay[q + 1] = <<(q \div t) % R, ((q \div t) \div R) * t + (q % t)>>
  <2>1. ASSUME NEW q \in Rows(R * C)
        PROVE  lay[q + 1] = <<(q \div t) % R, ((q \div t) \div R) * t + (q % t)>>
    <3>1. q + 1 \in 1 .. R * C /\ (q + 1) - 1 = q /\ q \in Nat
      BY DEF Rows
    <3>2. q \div (R * t) = (q \div t) \div R
      BY <3>1, Divisions
    <3> QED
      BY <3>1, <3>2 DEF Native
  <2> QED
    BY <2>1
<1>4. R * C = (m * R) * t
  BY <1>0
<1> HIDE DEF at, lay
<1>5. ASSUME NEW q \in Rows(R * C)
      PROVE  \E i \in Rows(R), j \in Rows(C) : lay[q + 1] = <<i, j>> /\ at[<<i, j>>] = q + 1
  <2> DEFINE a == q \div t
             w == q % t
             b == a \div R
             i == a % R
             j == b * t + w
  <2>1. q \in Nat /\ q \in Rows((m * R) * t)
    BY <1>4 DEF Rows
  <2>2. a \in Rows(m * R) /\ w \in Rows(t) /\ q = a * t + w
    <3>1. m * R \in Nat
      BY <1>0
    <3> QED
      BY <2>1, <3>1, Division, QuotientInRange
  <2>3. lay[q + 1] = <<i, j>>
    BY <1>3
  <2> HIDE DEF a, w
  <2>4. a \in Nat
    BY <2>2 DEF Rows
  <2>5. b \in Rows(m) /\ i \in Rows(R) /\ a = b * R + i
    BY <1>0, <2>2, <2>4, Division, QuotientInRange
  <2> HIDE DEF b, i
  <2>6. j \in Rows(C)
    BY <1>0, <2>2, <2>5, InRange
  <2>7. j \div t = b /\ j % t = w
    <3>1. b \in Nat
      BY <2>5 DEF Rows
    <3> QED
      BY <2>2, <3>1, Digits
  <2> HIDE DEF j
  <2>8. at[<<i, j>>] = q + 1
    BY <1>2, <2>2, <2>5, <2>6, <2>7
  <2> QED
    BY <2>3, <2>5, <2>6, <2>8
<1>6. ASSUME NEW i \in Rows(R), NEW j \in Rows(C)
      PROVE  \E q \in Rows(R * C) : at[<<i, j>>] = q + 1 /\ lay[q + 1] = <<i, j>>
  <2> DEFINE b == j \div t
             w == j % t
             a == b * R + i
             q == a * t + w
  <2>1. j \in Nat /\ i \in Nat /\ j \in Rows(m * t)
    BY <1>0 DEF Rows
  <2>2. b \in Rows(m) /\ w \in Rows(t) /\ j = b * t + w
    BY <1>0, <2>1, Division, QuotientInRange
  <2>3. at[<<i, j>>] = q + 1
    BY <1>2
  <2> HIDE DEF b, w
  <2>4. b \in Nat
    BY <2>2 DEF Rows
  <2>5. a \in Rows(m * R) /\ a \div R = b /\ a % R = i
    BY <1>0, <2>2, <2>4, InRange, Digits
  <2> HIDE DEF a
  <2>6. a \in Nat
    BY <2>5 DEF Rows
  <2>7. q \in Rows((m * R) * t) /\ q \div t = a /\ q % t = w
    <3>1. m * R \in Nat
      BY <1>0
    <3> QED
      BY <2>2, <2>5, <2>6, <3>1, InRange, Digits
  <2> HIDE DEF q
  <2>8. q \in Rows(R * C)
    BY <1>4, <2>7
  <2>9. lay[q + 1] = <<i, j>>
    BY <1>3, <2>2, <2>5, <2>7, <2>8
  <2> QED
    BY <2>3, <2>8, <2>9
<1>7. Inverts(at, lay, R, C)
  BY <1>1, <1>5, <1>6, InvertsIf
<1> QED
  BY <1>7 DEF at, lay

(* A number and its four digits, the first of any size.                     *)
Spells(q, x, y, z, w, T, u, v) ==
  /\ q = ((x * T + y) * u + z) * v + w
  /\ q % v = w /\ (q \div v) % u = z
  /\ ((q \div v) \div u) % T = y /\ ((q \div v) \div u) \div T = x

(* Every number in range has its four digits, *)
LEMMA DigitsOf ==
  ASSUME NEW T \in Nat \ {0}, NEW m \in Nat \ {0}, NEW u \in Nat \ {0}, NEW v \in Nat \ {0},
         NEW q \in Rows(((m * T) * u) * v)
  PROVE  \E x \in Rows(m), y \in Rows(T), z \in Rows(u), w \in Rows(v) :
           Spells(q, x, y, z, w, T, u, v)
<1> DEFINE a == q \div v
           b == a \div u
<1>1. q \in Nat /\ m * T \in Nat /\ (m * T) * u \in Nat
  BY DEF Rows
<1>2. a \in Rows((m * T) * u) /\ q % v \in Rows(v) /\ q = a * v + (q % v)
  BY <1>1, Division, QuotientInRange
<1> HIDE DEF a
<1>3. a \in Nat
  BY <1>2 DEF Rows
<1>4. b \in Rows(m * T) /\ a % u \in Rows(u) /\ a = b * u + (a % u)
  BY <1>1, <1>2, <1>3, Division, QuotientInRange
<1> HIDE DEF b
<1>5. b \in Nat
  BY <1>4 DEF Rows
<1>6. b \div T \in Rows(m) /\ b % T \in Rows(T) /\ b = (b \div T) * T + (b % T)
  BY <1>4, <1>5, Division, QuotientInRange
<1> DEFINE x == b \div T  y == b % T  z == a % u  w == q % v
<1>7. q = ((x * T + y) * u + z) * v + w
  BY <1>2, <1>4, <1>6, Zenon
<1>8. Spells(q, x, y, z, w, T, u, v)
  BY <1>7, Zenon DEF a, b, Spells
<1> QED
  BY <1>2, <1>4, <1>6, <1>8

(* and four digits are those of their number. *)
LEMMA NumberOf ==
  ASSUME NEW T \in Nat \ {0}, NEW m \in Nat \ {0}, NEW u \in Nat \ {0}, NEW v \in Nat \ {0},
         NEW x \in Rows(m), NEW y \in Rows(T), NEW z \in Rows(u), NEW w \in Rows(v),
         NEW q, q = ((x * T + y) * u + z) * v + w
  PROVE  q \in Rows(((m * T) * u) * v) /\ Spells(q, x, y, z, w, T, u, v)
<1> DEFINE b == x * T + y
           a == b * u + z
<1>1. x \in Nat /\ m * T \in Nat /\ (m * T) * u \in Nat
  BY DEF Rows
<1>2. b \in Rows(m * T) /\ b \div T = x /\ b % T = y
  BY <1>1, InRange, Digits
<1> HIDE DEF b
<1>3. b \in Nat
  BY <1>2 DEF Rows
<1>4. a \in Rows((m * T) * u) /\ a \div u = b /\ a % u = z
  BY <1>1, <1>2, <1>3, InRange, Digits
<1> HIDE DEF a
<1>5. a \in Nat
  BY <1>4 DEF Rows
<1>6. q = a * v + w
  BY DEF a, b
<1>7. a * v + w \in Rows(((m * T) * u) * v) /\ (a * v + w) \div v = a /\ (a * v + w) % v = w
  BY <1>1, <1>4, <1>5, InRange, Digits
<1>8. q \in Rows(((m * T) * u) * v) /\ q \div v = a /\ q % v = w
  BY <1>6, <1>7, Zenon
<1> QED
  BY <1>2, <1>4, <1>8, Zenon DEF Spells

(* b_native: the block, the tile, the kernel, the row.                      *)
LEMMA BNativeInverts ==
  ASSUME NEW K \in Nat \ {0}, NEW N \in Nat \ {0}, NEW nt \in Nat \ {0},
         K % KitTile = 0, N % nt = 0, KitTile \in Nat \ {0}
  PROVE  Inverts(BNativeAt(K, N, nt), BNative(K, N, nt), K, N)
<1> DEFINE lay == BNative(K, N, nt)
           at == BNativeAt(K, N, nt)
           T == K \div KitTile
           m == N \div nt
           A(q) == q \div KitTile
           B(q) == A(q) \div nt
<1>0. /\ T \in Nat \ {0} /\ m \in Nat \ {0} /\ K = T * KitTile /\ N = m * nt
      /\ K * N = ((m * T) * nt) * KitTile
      /\ \A q \in Nat : q \div (nt * KitTile) = B(q) /\ q \div (nt * K) = B(q) \div T
  <2>1. T \in Nat \ {0} /\ m \in Nat \ {0} /\ K = T * KitTile /\ N = m * nt
    BY Multiple
  <2> HIDE DEF T, m
  <2>2. K * N = ((m * T) * nt) * KitTile
    BY <2>1
  <2>3. ASSUME NEW q \in Nat PROVE q \div (nt * KitTile) = B(q) /\ q \div (nt * K) = B(q) \div T
    <3>1. nt * KitTile = nt * KitTile /\ nt * K = T * (nt * KitTile) /\ nt * KitTile \in Nat \ {0}
      BY <2>1
    <3>2. q \div (nt * KitTile) = B(q)
      BY Divisions
    <3>3. q \div (T * (nt * KitTile)) = (q \div (nt * KitTile)) \div T
      BY <2>1, <3>1, Divisions
    <3> QED
      BY <3>1, <3>2, <3>3, Zenon
  <2> QED
    BY <2>1, <2>2, <2>3
<1>1. /\ DOMAIN lay = 1 .. K * N /\ lay = [p \in 1 .. K * N |-> lay[p]]
      /\ at = [c \in Rows(K) \X Rows(N) |-> at[c]]
  BY DEF BNative, BNativeAt
<1>2. \A i \in Rows(K), j \in Rows(N) :
        at[<<i, j>>] = ((((j \div nt) * T + (i \div KitTile)) * nt + (j % nt)) * KitTile + (i % KitTile)) + 1
  BY DEF BNativeAt, AtBNative
<1>3. ASSUME NEW q \in Rows(K * N)
      PROVE  lay[q + 1] = <<(B(q) % T) * KitTile + (q % KitTile), (B(q) \div T) * nt + ((q \div KitTile) % nt)>>
  <2>1. q + 1 \in 1 .. K * N /\ (q + 1) - 1 = q /\ q \in Nat
    BY <1>0 DEF Rows
  <2>2. q \div (nt * KitTile) = B(q) /\ q \div (nt * K) = B(q) \div T
    BY <1>0, <2>1
  <2>3. lay[q + 1] = <<((q \div (nt * KitTile)) % T) * KitTile + (q % KitTile), (q \div (nt * K)) * nt + ((q \div KitTile) % nt)>>
    <3> HIDE <1>0, <1>1, <1>2
    <3> QED
      BY <2>1 DEF BNative
  <2> QED
    BY <2>2, <2>3, Zenon
<1> HIDE DEF at, lay, T, m
<1>4. ASSUME NEW q \in Rows(K * N)
      PROVE  \E i \in Rows(K), j \in Rows(N) : lay[q + 1] = <<i, j>> /\ at[<<i, j>>] = q + 1
  <2>1. PICK x \in Rows(m), y \in Rows(T), z \in Rows(nt), w \in Rows(KitTile) :
           Spells(q, x, y, z, w, T, nt, KitTile)
    BY <1>0, DigitsOf
  <2> DEFINE i == y * KitTile + w
             j == x * nt + z
  <2>2. lay[q + 1] = <<i, j>>
    BY <1>3, <2>1 DEF Spells
  <2>3. x \in Nat /\ y \in Nat /\ T \in Nat /\ m \in Nat
    BY <1>0 DEF Rows
  <2>4. i \in Rows(K) /\ i \div KitTile = y /\ i % KitTile = w
    BY <1>0, <2>3, InRange, Digits
  <2>5. j \in Rows(N) /\ j \div nt = x /\ j % nt = z
    BY <1>0, <2>3, InRange, Digits
  <2> HIDE DEF i, j
  <2>6. at[<<i, j>>] = (((x * T + y) * nt + z) * KitTile + w) + 1
    BY <1>2, <2>4, <2>5
  <2>7. at[<<i, j>>] = q + 1
    BY <2>1, <2>6 DEF Spells
  <2> QED
    BY <2>2, <2>4, <2>5, <2>7
<1>5. ASSUME NEW i \in Rows(K), NEW j \in Rows(N)
      PROVE  \E q \in Rows(K * N) : at[<<i, j>>] = q + 1 /\ lay[q + 1] = <<i, j>>
  <2> DEFINE x == j \div nt
             y == i \div KitTile
             z == j % nt
             w == i % KitTile
             q == ((x * T + y) * nt + z) * KitTile + w
  <2>1. i \in Nat /\ j \in Nat /\ m \in Nat /\ T \in Nat
    BY <1>0 DEF Rows
  <2>2. x \in Rows(m) /\ z \in Rows(nt) /\ j = x * nt + z
    BY <1>0, <2>1, Division, QuotientInRange
  <2>3. y \in Rows(T) /\ w \in Rows(KitTile) /\ i = y * KitTile + w
    BY <1>0, <2>1, Division, QuotientInRange
  <2>4. at[<<i, j>>] = q + 1
    BY <1>2
  <2> HIDE DEF x, y, z, w
  <2>5. q \in Rows(((m * T) * nt) * KitTile) /\ Spells(q, x, y, z, w, T, nt, KitTile)
    BY <1>0, <2>2, <2>3, NumberOf
  <2> HIDE DEF q
  <2>6. q \in Rows(K * N) /\ lay[q + 1] = <<y * KitTile + w, x * nt + z>>
    BY <1>0, <1>3, <2>5 DEF Spells
  <2> QED
    BY <2>2, <2>3, <2>4, <2>6
<1>6. Inverts(at, lay, K, N)
  BY <1>0, <1>1, <1>4, <1>5, InvertsIf
<1> QED
  BY <1>6 DEF at, lay

(* k_major: the block, the tile, the row, the kernel.                       *)
LEMMA BKMajorInverts ==
  ASSUME NEW K \in Nat \ {0}, NEW N \in Nat \ {0}, NEW nt \in Nat \ {0},
         K % KitTile = 0, N % nt = 0, KitTile \in Nat \ {0}
  PROVE  Inverts(BKMajorAt(K, N, nt), BKMajor(K, N, nt), K, N)
<1> DEFINE lay == BKMajor(K, N, nt)
           at == BKMajorAt(K, N, nt)
           T == K \div KitTile
           m == N \div nt
           A(q) == q \div nt
           B(q) == A(q) \div KitTile
<1>0. /\ T \in Nat \ {0} /\ m \in Nat \ {0} /\ K = T * KitTile /\ N = m * nt
      /\ K * N = ((m * T) * KitTile) * nt
      /\ \A q \in Nat : q \div (nt * KitTile) = B(q) /\ q \div (nt * K) = B(q) \div T
  <2>1. T \in Nat \ {0} /\ m \in Nat \ {0} /\ K = T * KitTile /\ N = m * nt
    BY Multiple
  <2> HIDE DEF T, m
  <2>2. K * N = ((m * T) * KitTile) * nt
    BY <2>1
  <2>3. ASSUME NEW q \in Nat PROVE q \div (nt * KitTile) = B(q) /\ q \div (nt * K) = B(q) \div T
    <3>1. nt * KitTile = KitTile * nt /\ nt * K = T * (KitTile * nt) /\ KitTile * nt \in Nat \ {0}
      BY <2>1
    <3>2. q \div (KitTile * nt) = B(q)
      BY Divisions
    <3>3. q \div (T * (KitTile * nt)) = (q \div (KitTile * nt)) \div T
      BY <2>1, <3>1, Divisions
    <3> QED
      BY <3>1, <3>2, <3>3, Zenon
  <2> QED
    BY <2>1, <2>2, <2>3
<1>1. /\ DOMAIN lay = 1 .. K * N /\ lay = [p \in 1 .. K * N |-> lay[p]]
      /\ at = [c \in Rows(K) \X Rows(N) |-> at[c]]
  BY DEF BKMajor, BKMajorAt
<1>2. \A i \in Rows(K), j \in Rows(N) :
        at[<<i, j>>] = ((((j \div nt) * T + (i \div KitTile)) * KitTile + (i % KitTile)) * nt + (j % nt)) + 1
  BY DEF BKMajorAt, AtBKMajor
<1>3. ASSUME NEW q \in Rows(K * N)
      PROVE  lay[q + 1] = <<(B(q) % T) * KitTile + ((q \div nt) % KitTile), (B(q) \div T) * nt + (q % nt)>>
  <2>1. q + 1 \in 1 .. K * N /\ (q + 1) - 1 = q /\ q \in Nat
    BY <1>0 DEF Rows
  <2>2. q \div (nt * KitTile) = B(q) /\ q \div (nt * K) = B(q) \div T
    BY <1>0, <2>1
  <2>3. lay[q + 1] = <<((q \div (nt * KitTile)) % T) * KitTile + ((q \div nt) % KitTile), (q \div (nt * K)) * nt + (q % nt)>>
    <3> HIDE <1>0, <1>1, <1>2
    <3> QED
      BY <2>1 DEF BKMajor
  <2> QED
    BY <2>2, <2>3, Zenon
<1> HIDE DEF at, lay, T, m
<1>4. ASSUME NEW q \in Rows(K * N)
      PROVE  \E i \in Rows(K), j \in Rows(N) : lay[q + 1] = <<i, j>> /\ at[<<i, j>>] = q + 1
  <2>1. PICK x \in Rows(m), y \in Rows(T), z \in Rows(KitTile), w \in Rows(nt) :
           Spells(q, x, y, z, w, T, KitTile, nt)
    BY <1>0, DigitsOf
  <2> DEFINE i == y * KitTile + z
             j == x * nt + w
  <2>2. lay[q + 1] = <<i, j>>
    BY <1>3, <2>1 DEF Spells
  <2>3. x \in Nat /\ y \in Nat /\ T \in Nat /\ m \in Nat
    BY <1>0 DEF Rows
  <2>4. i \in Rows(K) /\ i \div KitTile = y /\ i % KitTile = z
    BY <1>0, <2>3, InRange, Digits
  <2>5. j \in Rows(N) /\ j \div nt = x /\ j % nt = w
    BY <1>0, <2>3, InRange, Digits
  <2> HIDE DEF i, j
  <2>6. at[<<i, j>>] = (((x * T + y) * KitTile + z) * nt + w) + 1
    BY <1>2, <2>4, <2>5
  <2>7. at[<<i, j>>] = q + 1
    BY <2>1, <2>6 DEF Spells
  <2> QED
    BY <2>2, <2>4, <2>5, <2>7
<1>5. ASSUME NEW i \in Rows(K), NEW j \in Rows(N)
      PROVE  \E q \in Rows(K * N) : at[<<i, j>>] = q + 1 /\ lay[q + 1] = <<i, j>>
  <2> DEFINE x == j \div nt
             y == i \div KitTile
             w == j % nt
             z == i % KitTile
             q == ((x * T + y) * KitTile + z) * nt + w
  <2>1. i \in Nat /\ j \in Nat /\ m \in Nat /\ T \in Nat
    BY <1>0 DEF Rows
  <2>2. x \in Rows(m) /\ w \in Rows(nt) /\ j = x * nt + w
    BY <1>0, <2>1, Division, QuotientInRange
  <2>3. y \in Rows(T) /\ z \in Rows(KitTile) /\ i = y * KitTile + z
    BY <1>0, <2>1, Division, QuotientInRange
  <2>4. at[<<i, j>>] = q + 1
    BY <1>2
  <2> HIDE DEF x, y, z, w
  <2>5. q \in Rows(((m * T) * KitTile) * nt) /\ Spells(q, x, y, z, w, T, KitTile, nt)
    BY <1>0, <2>2, <2>3, NumberOf
  <2> HIDE DEF q
  <2>6. q \in Rows(K * N) /\ lay[q + 1] = <<y * KitTile + z, x * nt + w>>
    BY <1>0, <1>3, <2>5 DEF Spells
  <2> QED
    BY <2>2, <2>3, <2>4, <2>6
<1>6. Inverts(at, lay, K, N)
  BY <1>0, <1>1, <1>4, <1>5, InvertsIf
<1> QED
  BY <1>6 DEF at, lay

-----------------------------------------------------------------------------
(* Packed files                                                             *)

Nibbles == 0 .. 15
(* The packed files of n nibbles. *)
Bytes(n) == [1 .. n \div 2 -> Nibbles \X Nibbles]

(* The length of a sequence on 1 .. n. *)
LEMMA LengthOf ==
  ASSUME NEW n \in Nat, NEW S, NEW s \in [1 .. n -> S]
  PROVE  Len(s) = n
  OBVIOUS

(* A nibble is read back with its sign. *)
LEMMA Int4Back ==
  ASSUME NEW x \in -8 .. 7
  PROVE  x % 16 \in Nibbles /\ Signed(x % 16) = x
  BY DEF Signed, Nibbles

(* The byte of a nibble, and its half. *)
LEMMA Halves ==
  ASSUME NEW n \in Nat, n % 2 = 0, NEW q \in Rows(n)
  PROVE  /\ q \div 2 + 1 \in 1 .. n \div 2
         /\ q % 2 = 0 => q + 1 = 2 * (q \div 2 + 1) - 1
         /\ q % 2 # 0 => q + 1 = 2 * (q \div 2 + 1)
  BY DEF Rows

(* The bytes of a packed sequence. *)
LEMMA PackIsBytes ==
  ASSUME NEW n \in Nat, n % 2 = 0, NEW s \in [1 .. n -> -8 .. 7], NEW hi \in BOOLEAN
  PROVE  /\ Pack(s, hi) \in Bytes(n)
         /\ \A i \in 1 .. n \div 2 :
              Pack(s, hi)[i] = IF hi THEN <<s[2 * i] % 16, s[2 * i - 1] % 16>>
                               ELSE <<s[2 * i - 1] % 16, s[2 * i] % 16>>
<1>1. Len(s) = n
  BY LengthOf
<1>2. \A i \in 1 .. n \div 2 : 2 * i \in 1 .. n /\ 2 * i - 1 \in 1 .. n
  OBVIOUS
<1>3. \A i \in 1 .. n \div 2 : s[2 * i] % 16 \in Nibbles /\ s[2 * i - 1] % 16 \in Nibbles
  <2>1. \A p \in 1 .. n : s[p] \in -8 .. 7
    OBVIOUS
  <2> QED
    BY <1>2, <2>1, Int4Back
<1>4. Pack(s, hi) = [i \in 1 .. n \div 2 |-> IF hi THEN <<s[2 * i] % 16, s[2 * i - 1] % 16>>
                                             ELSE <<s[2 * i - 1] % 16, s[2 * i] % 16>>]
  BY <1>1 DEF Pack
<1> QED
  BY <1>3, <1>4 DEF Bytes

(* A packed sequence is read back.                                          *)
LEMMA NibbleBack ==
  ASSUME NEW n \in Nat, n % 2 = 0, NEW s \in [1 .. n -> -8 .. 7], NEW hi \in BOOLEAN,
         NEW p \in 1 .. n
  PROVE  Nibble(Pack(s, hi), p - 1, hi) = s[p]
<1> DEFINE q == p - 1
           i == q \div 2 + 1
           b == Pack(s, hi)
<1>1. q \in Rows(n) /\ p = q + 1
  BY DEF Rows
<1>2. i \in 1 .. n \div 2 /\ (q % 2 = 0 => p = 2 * i - 1) /\ (q % 2 # 0 => p = 2 * i)
  BY <1>1, Halves
<1>3. b[i] = IF hi THEN <<s[2 * i] % 16, s[2 * i - 1] % 16>>
             ELSE <<s[2 * i - 1] % 16, s[2 * i] % 16>>
  BY <1>2, PackIsBytes
<1>4. s[p] \in -8 .. 7
  OBVIOUS
<1>5. Signed(s[p] % 16) = s[p]
  BY <1>4, Int4Back
<1>6. Nibble(b, q, hi) = Signed(b[i][IF (q % 2 = 0) = ~hi THEN 1 ELSE 2])
  BY DEF Nibble
<1> HIDE DEF b, i, q
<1>7. b[i][IF (q % 2 = 0) = ~hi THEN 1 ELSE 2] = s[p] % 16
  <2>1. CASE q % 2 = 0
    <3>1. p = 2 * i - 1
      BY <1>2, <2>1
    <3> QED
      BY <1>3, <2>1, <3>1
  <2>2. CASE q % 2 # 0
    <3>1. p = 2 * i
      BY <1>2, <2>2
    <3> QED
      BY <1>3, <2>2, <3>1
  <2> QED
    BY <2>1, <2>2
<1>8. Nibble(b, q, hi) = s[p]
  BY <1>5, <1>6, <1>7
<1> QED
  BY <1>8 DEF b, q

(* A byte with one nibble one up is read as another at one place.           *)
LEMMA SignedDiffers ==
  ASSUME NEW x \in Nibbles
  PROVE  Signed((x + 1) % 16) # Signed(x)
  BY DEF Signed, Nibbles

BadByte(b, i) == [b EXCEPT ![i] = [b[i] EXCEPT ![1 + (i % 2)] = (@ + 1) % 16]]

(* A byte with one nibble one up is read as another at some place. *)
LEMMA BadByteShows ==
  ASSUME NEW n \in Nat, n % 2 = 0, NEW b \in Bytes(n), NEW i \in 1 .. n \div 2, NEW hi \in BOOLEAN
  PROVE  \E p \in 1 .. n : Nibble(BadByte(b, i), p - 1, hi) # Nibble(b, p - 1, hi)
<1> DEFINE side == 1 + (i % 2)
           q == IF (side = 1) = ~hi THEN 2 * (i - 1) ELSE 2 * (i - 1) + 1
           c == BadByte(b, i)
           x == b[i][side]
<1>1. side \in 1 .. 2 /\ i \in Nat /\ i >= 1
  OBVIOUS
<1>2. /\ q \in Int /\ q + 1 \in 1 .. n /\ (q + 1) - 1 = q
      /\ q \div 2 + 1 = i /\ (IF (q % 2 = 0) = ~hi THEN 1 ELSE 2) = side
  <2>1. CASE (side = 1) = ~hi
    <3>1. q = 2 * (i - 1)
      BY <2>1
    <3> HIDE DEF q, side
    <3>2. q % 2 = 0 /\ q \div 2 = i - 1 /\ q + 1 \in 1 .. n /\ q \in Int
      BY <3>1
    <3> QED
      BY <1>1, <2>1, <3>2
  <2>2. CASE ~((side = 1) = ~hi)
    <3>1. q = 2 * (i - 1) + 1
      BY <2>2
    <3> HIDE DEF q, side
    <3>2. q % 2 = 1 /\ q \div 2 = i - 1 /\ q + 1 \in 1 .. n /\ q \in Int
      BY <3>1
    <3> QED
      BY <1>1, <2>2, <3>2
  <2> QED
    BY <2>1, <2>2
<1>3. b[i] \in Nibbles \X Nibbles
  BY DEF Bytes
<1>4. x \in Nibbles
  BY <1>1, <1>3
<1>5. c[i][side] = (x + 1) % 16
  <2>1. c[i] = [b[i] EXCEPT ![side] = (x + 1) % 16]
    BY DEF BadByte, Bytes
  <2>2. side \in DOMAIN b[i]
    BY <1>1, <1>3
  <2> QED
    BY <2>1, <2>2
<1>6. Nibble(c, q, hi) = Signed(c[q \div 2 + 1][IF (q % 2 = 0) = ~hi THEN 1 ELSE 2])
  BY DEF Nibble
<1>7. Nibble(b, q, hi) = Signed(b[q \div 2 + 1][IF (q % 2 = 0) = ~hi THEN 1 ELSE 2])
  BY DEF Nibble
<1> HIDE DEF c, q, side
<1>8. Nibble(c, q, hi) = Signed((x + 1) % 16) /\ Nibble(b, q, hi) = Signed(x)
  BY <1>2, <1>5, <1>6, <1>7
<1>9. Nibble(c, q, hi) # Nibble(b, q, hi)
  BY <1>4, <1>8, SignedDiffers
<1>10. Nibble(c, (q + 1) - 1, hi) # Nibble(b, (q + 1) - 1, hi)
  BY <1>2, <1>9
<1> HIDE DEF x
<1> QED
  BY <1>2, <1>10 DEF c

-----------------------------------------------------------------------------
(* The files of a kit                                                       *)

(* The elements of X in the first R rows and C columns. *)
In(X, R, C, S) == \A c \in Rows(R) \X Rows(C) : X[c] \in S

(* They are those of Y, and they are found in the sequence s at the places at. *)
Agree(X, Y, R, C) == \A c \in Rows(R) \X Rows(C) : X[c] = Y[c]
Holds(s, at, X, R, C) == \A c \in Rows(R) \X Rows(C) : s[at[c]] = X[c]

(* What is stored in a layout is found at its positions. *)
LEMMA StoredIs ==
  ASSUME NEW R \in Nat, NEW C \in Nat, NEW at, NEW lay, Inverts(at, lay, R, C),
         NEW X, NEW S, In(X, R, C, S)
  PROVE  Stored(lay, X) \in [1 .. R * C -> S] /\ Holds(Stored(lay, X), at, X, R, C)
  BY DEF Stored, Inverts, In, Holds

(* A matrix is read back from its packed file, in the file's own order.     *)
Reads(b, at, hi, X, R, C) ==
  \A c \in Rows(R) \X Rows(C) : Nibble(b, at[c] - 1, hi) = X[c]

(* A packed matrix is read back from its bytes. *)
LEMMA PackedReads ==
  ASSUME NEW R \in Nat, NEW C \in Nat, (R * C) % 2 = 0,
         NEW at, NEW lay, Inverts(at, lay, R, C),
         NEW X, In(X, R, C, -8 .. 7), NEW hi \in BOOLEAN
  PROVE  /\ Pack(Stored(lay, X), hi) \in Bytes(R * C)
         /\ Reads(Pack(Stored(lay, X), hi), at, hi, X, R, C)
<1> DEFINE s == Stored(lay, X)
<1>1. R * C \in Nat
  OBVIOUS
<1>2. s \in [1 .. R * C -> -8 .. 7] /\ \A c \in Rows(R) \X Rows(C) : s[at[c]] = X[c]
  BY StoredIs DEF Holds
<1>3. \A c \in Rows(R) \X Rows(C) : at[c] \in 1 .. R * C
  BY DEF Inverts
<1> HIDE DEF s
<1>4. \A p \in 1 .. R * C : Nibble(Pack(s, hi), p - 1, hi) = s[p]
  BY <1>1, <1>2, NibbleBack
<1>5. Pack(s, hi) \in Bytes(R * C)
  BY <1>1, <1>2, PackIsBytes
<1>6. Reads(Pack(s, hi), at, hi, X, R, C)
  BY <1>2, <1>3, <1>4 DEF Reads
<1> QED
  BY <1>5, <1>6 DEF s

(* With a bad byte it is not. *)
LEMMA BadByteMisread ==
  ASSUME NEW R \in Nat, NEW C \in Nat, (R * C) % 2 = 0,
         NEW at, NEW lay, Inverts(at, lay, R, C),
         NEW X, NEW hi \in BOOLEAN, NEW b \in Bytes(R * C), Reads(b, at, hi, X, R, C),
         NEW i \in 1 .. (R * C) \div 2
  PROVE  ~Reads(BadByte(b, i), at, hi, X, R, C)
<1>1. R * C \in Nat
  OBVIOUS
<1>2. PICK p \in 1 .. R * C : Nibble(BadByte(b, i), p - 1, hi) # Nibble(b, p - 1, hi)
  BY <1>1, BadByteShows
<1>3. lay[p] \in Rows(R) \X Rows(C) /\ at[lay[p]] = p
  BY DEF Inverts
<1> QED
  BY <1>2, <1>3 DEF Reads

(* The packed files: their order, its inverse and their shape.              *)
OfBank(f) == f[1] \in {"B_normal", "B_nat", "B_hi", "B_kmaj"}
OfInput(f) == f[1] \in {"A", "A_nat"}
HiFirst(f) == f[1] = "B_hi"
Height(f, K) == IF OfBank(f) THEN K ELSE f[2]
Width(f, K, N) == IF OfBank(f) THEN N ELSE K
Order(f, K, N) ==
  CASE f[1] = "B_normal"        -> Normal(K, N)
    [] f[1] \in {"B_nat", "B_hi"} -> BNative(K, N, f[2])
    [] f[1] = "B_kmaj"          -> BKMajor(K, N, f[2])
    [] f[1] = "A"               -> Normal(f[2], K)
    [] f[1] = "A_nat"           -> Native(f[2], K, KitTile)
Places(f, K, N) ==
  CASE f[1] = "B_normal"        -> NormalAt(K, N)
    [] f[1] \in {"B_nat", "B_hi"} -> BNativeAt(K, N, f[2])
    [] f[1] = "B_kmaj"          -> BKMajorAt(K, N, f[2])
    [] f[1] = "A"               -> NormalAt(f[2], K)
    [] f[1] = "A_nat"           -> NativeAt(f[2], K, KitTile)

(* The sum of column n. *)
ColumnSum(B, K, n) == Total([k \in Rows(K) |-> B[<<k, n>>]])

(* What a kit may be emitted from. *)
Emits(kind, A, B, K, N, ms) ==
  /\ kind \in {"shape", "kernelid", "ksweep"}
  /\ <<K, N>> \in KitShapes /\ (kind = "ksweep" => N % NLead = 0)
  /\ ms \subseteq Nat \ {0} /\ ms # {}
  /\ In(B, K, N, -8 .. 7) /\ B = [c \in Rows(K) \X Rows(N) |-> B[c]]
  /\ \A r \in ms : In(A, r, K, -8 .. 7)
  /\ kind # "shape" => /\ ms = {2}
                       /\ \A n \in Rows(N) : ColumnSum(B, K, n) = n - N \div 2
                       /\ \A i \in Rows(2), n \in Rows(N) : Product(A, B, 2, K, N)[<<i, n>>] = n - N \div 2

(* Max of a finite set is its largest member, *)
LEMMA MaxIs ==
  ASSUME NEW S, IsFiniteSet(S), S # {}, S \subseteq Int
  PROVE  Max(S) \in S /\ \A x \in S : x <= Max(S)
<1> DEFINE P == {n \in Nat : \A s \in SUBSET S : Cardinality(s) = n + 1 => \E x \in s : \A y \in s : x >= y}
<1>1. Cardinality(S) \in Nat /\ Cardinality(S) # 0
  BY FS_CardinalityType, FS_EmptySet
<1>2. 0 \in P
  <2>1. SUFFICES ASSUME NEW s \in SUBSET S, Cardinality(s) = 1
                 PROVE  \E x \in s : \A y \in s : x >= y
    OBVIOUS
  <2>2. IsFiniteSet(s)
    BY FS_Subset
  <2>3. \E x : s = {x}
    BY <2>1, <2>2, FS_Singleton
  <2> QED
    BY <2>3
<1>3. ASSUME NEW n \in Nat, n \in P PROVE n + 1 \in P
  <2>1. SUFFICES ASSUME NEW s \in SUBSET S, Cardinality(s) = (n + 1) + 1
                 PROVE  \E x \in s : \A y \in s : x >= y
    OBVIOUS
  <2>0. n + 1 \in Nat
    OBVIOUS
  <2>2. PICK z \in s : TRUE
    BY <2>0, <2>1, OneMember
  <2>3. s \ {z} \in SUBSET S /\ Cardinality(s \ {z}) = n + 1
    <3> DEFINE m == n + 1
    <3>1. m \in Nat /\ Cardinality(s) = m + 1
      BY <2>1
    <3> HIDE DEF m
    <3>2. s \ {z} \in SUBSET S /\ Cardinality(s \ {z}) = m
      BY <2>1, <3>1, OneLess
    <3> QED
      BY <3>2 DEF m
  <2>4. PICK x \in s \ {z} : \A y \in s \ {z} : x >= y
    BY <1>3, <2>3
  <2>5. CASE x >= z
    BY <2>4, <2>5
  <2>6. CASE ~(x >= z)
    <3>1. \A y \in s : z >= y
      BY <2>4, <2>6
    <3> QED
      BY <3>1
  <2> QED
    BY <2>5, <2>6
<1>4. \A n \in Nat : n \in P
  <2> HIDE DEF P
  <2> QED
    BY <1>2, <1>3, FromZero
<1>5. (Cardinality(S) - 1) \in P /\ Cardinality(S) = (Cardinality(S) - 1) + 1
  BY <1>1, <1>4
<1>6. \E x \in S : \A y \in S : x >= y
  BY <1>5
<1>7. Max(S) \in S /\ \A y \in S : Max(S) >= y
  BY <1>6 DEF Max
<1> QED
  BY <1>7

(* and Min its smallest. *)
LEMMA MinIs ==
  ASSUME NEW S, IsFiniteSet(S), S # {}, S \subseteq Int
  PROVE  Min(S) \in S /\ \A x \in S : Min(S) <= x
<1> DEFINE h == [x \in S |-> -x]
           T == {h[x] : x \in S}
<1>0. h \in [S -> Int] /\ \A x \in S : h[x] = -x
  OBVIOUS
<1> HIDE DEF h
<1>1. IsFiniteSet(T)
  <2>1. h \in Surjection(S, T)
    BY <1>0 DEF Surjection
  <2> QED
    BY <2>1, FS_Surjection
<1>2. T # {} /\ T \subseteq Int
  BY <1>0
<1>3. Max(T) \in T /\ \A x \in T : x <= Max(T)
  <2> HIDE DEF T
  <2> QED
    BY <1>1, <1>2, MaxIs
<1>4. PICK x \in S : Max(T) = -x
  BY <1>0, <1>3
<1>5. \A y \in S : x <= y
  <2>1. SUFFICES ASSUME NEW y \in S PROVE x <= y
    OBVIOUS
  <2>2. -y \in T
    BY <1>0
  <2>3. -y <= -x
    BY <1>3, <1>4, <2>2
  <2> QED
    BY <2>3
<1>6. Min(S) \in S /\ \A y \in S : Min(S) =< y
  BY <1>5 DEF Min
<1> QED
  BY <1>6

(* A multiple of a multiple. *)
LEMMA Multiples ==
  ASSUME NEW g \in Nat \ {0}, NEW q \in Nat
  PROVE  (q * g) % g = 0 /\ (q * g) \div g = q
<1>1. 0 \in Rows(g) /\ q * g = q * g + 0
  BY DEF Rows
<1>2. (q * g + 0) \div g = q /\ (q * g + 0) % g = 0
  BY <1>1, Digits
<1> QED
  BY <1>1, <1>2

(* A multiple of u is one of what divides u. *)
LEMMA MultipleOfMultiple ==
  ASSUME NEW v \in Nat \ {0}, NEW u \in Nat \ {0}, u % v = 0, NEW n \in Nat, n % u = 0
  PROVE  n % v = 0
<1> DEFINE a == n \div u
           b == u \div v
<1>1. a \in Nat /\ n = a * u
  BY Multiple
<1>2. b \in Nat /\ u = b * v
  BY Multiple
<1> HIDE DEF a, b
<1>3. a * b \in Nat /\ n = (a * b) * v
  BY <1>1, <1>2
<1> DEFINE q == a * b
<1>4. q \in Nat /\ n = q * v
  BY <1>3
<1> HIDE DEF q
<1> QED
  BY <1>4, Multiples

(* The sizes of a kit. *)
TileOf(t) == /\ t \in Nat \ {0} /\ t % CTile = 0 /\ t % 2 = 0
(* What the assumption says of the tiles, *)
LEMMA TilesAre ==
  ASSUME KitAssumption
  PROVE  /\ KitTile \in Nat \ {0} /\ CTile \in Nat \ {0}
         /\ \A t \in NTiles : TileOf(t) /\ t % (2 * CTile) = 0
         /\ NTiles # {} => NLead \in NTiles /\ \A t \in NTiles : t <= NLead
<1>1. KitTile \in Nat \ {0} /\ CTile \in Nat \ {0} /\ 2 * CTile \in Nat \ {0}
  BY DEF KitAssumption
<1>2. ASSUME NEW t \in NTiles PROVE TileOf(t) /\ t % (2 * CTile) = 0
  <2>1. t \in Nat \ {0} /\ t % (2 * CTile) = 0
    BY DEF KitAssumption
  <2>2. (2 * CTile) % CTile = 0 /\ (2 * CTile) % 2 = 0
    <3>1. 2 * CTile = CTile * 2 /\ CTile \in Nat /\ 2 \in Nat \ {0} /\ 2 \in Nat
      BY <1>1
    <3>2. (CTile * 2) % 2 = 0
      BY <3>1, Multiples
    <3> QED
      BY <1>1, <3>1, <3>2, Multiples
  <2> DEFINE u == 2 * CTile
  <2>3. u \in Nat \ {0} /\ t \in Nat /\ t % u = 0 /\ u % CTile = 0 /\ u % 2 = 0 /\ 2 \in Nat \ {0}
    BY <1>1, <2>1, <2>2
  <2> HIDE DEF u
  <2>4. t % CTile = 0 /\ t % 2 = 0
    BY <1>1, <2>3, MultipleOfMultiple
  <2> QED
    BY <2>1, <2>4 DEF TileOf
<1>3. NTiles # {} => NLead \in NTiles /\ \A t \in NTiles : t <= NLead
  <2>1. IsFiniteSet(NTiles) /\ NTiles \subseteq Int
    BY DEF KitAssumption
  <2> QED
    BY <2>1, MaxIs DEF NLead
<1> QED
  BY <1>1, <1>2, <1>3

(* and of the shapes. *)
LEMMA ShapesAre ==
  ASSUME KitAssumption, NEW K, NEW N, <<K, N>> \in KitShapes
  PROVE  /\ K \in Nat \ {0} /\ N \in Nat \ {0} /\ N <= IntMax /\ IntMax \in Nat
         /\ K % KitTile = 0 /\ K % 2 = 0 /\ N % CTile = 0 /\ N % 2 = 0
         /\ (\E t \in NTiles : N % t = 0) /\ NTiles # {}
<1>1. /\ K \in Nat \ {0} /\ N \in Nat \ {0} /\ K % KitTile = 0 /\ N <= IntMax /\ IntMax \in Nat
      /\ KitTile \in Nat \ {0} /\ KitTile % 2 = 0
  BY DEF KitAssumption
<1>2. PICK t \in NTiles : N % t = 0
  BY DEF KitAssumption
<1>3. TileOf(t)
  BY TilesAre
<1>4. N % CTile = 0 /\ N % 2 = 0
  BY <1>1, <1>2, <1>3, TilesAre, MultipleOfMultiple DEF TileOf
<1>5. K % 2 = 0
  <2>1. 2 \in Nat \ {0} /\ K \in Nat
    BY <1>1
  <2> QED
    BY <1>1, <2>1, MultipleOfMultiple
<1> QED
  BY <1>1, <1>2, <1>4, <1>5

(* A product with an even factor is even. *)
LEMMA EvenTimes ==
  ASSUME NEW a \in Nat, NEW b \in Nat, b % 2 = 0
  PROVE  (a * b) % 2 = 0 /\ (b * a) % 2 = 0
<1> DEFINE c == b \div 2
<1>1. c \in Nat /\ b = c * 2
  BY Multiple
<1> HIDE DEF c
<1>2. a * b = (a * c) * 2 /\ b * a = (a * c) * 2 /\ a * c \in Nat
  BY <1>1
<1> DEFINE q == a * c
<1>3. a * b = q * 2 /\ b * a = q * 2 /\ q \in Nat
  BY <1>2
<1> HIDE DEF q
<1> QED
  BY <1>3, Multiples

(* The bank's tilings divide N. *)
LEMMA BankTiles ==
  ASSUME KitAssumption, NEW kind, NEW A, NEW B, NEW K, NEW N, NEW ms, Emits(kind, A, B, K, N, ms),
         NEW f \in BFiles(kind, N)
  PROVE  /\ OfBank(f) /\ ~OfInput(f)
         /\ f # <<"B_normal", 0>> =>
              f[2] \in Nat \ {0} /\ N % f[2] = 0 /\ f[1] \in {"B_nat", "B_hi", "B_kmaj"}
         /\ f[1] = "B_normal" => f = <<"B_normal", 0>>
         /\ f[1] \notin {"A", "A_nat", "C_i16", "C_i32", "C_nat"}
<1>0. NTiles # {}
  BY ShapesAre DEF Emits
<1>1. NLead \in Nat \ {0} /\ NLead \div 2 \in Nat \ {0} /\ NTiles \subseteq Nat \ {0}
  <2>1. TileOf(NLead) /\ \A t \in NTiles : TileOf(t)
    BY <1>0, TilesAre
  <2> QED
    BY <2>1 DEF TileOf
<1> HIDE DEF NLead
<1>2. \/ f = <<"B_normal", 0>>
      \/ \E t \in NTiles \cup {NLead, NLead \div 2} : N % t = 0 /\ f \in {<<"B_nat", t>>, <<"B_hi", t>>, <<"B_kmaj", t>>}
  BY DEF BFiles
<1>3. CASE f = <<"B_normal", 0>>
  BY <1>3 DEF OfBank, OfInput
<1>4. CASE \E t \in NTiles \cup {NLead, NLead \div 2} : N % t = 0 /\ f \in {<<"B_nat", t>>, <<"B_hi", t>>, <<"B_kmaj", t>>}
  <2>1. PICK t \in NTiles \cup {NLead, NLead \div 2} : N % t = 0 /\ f \in {<<"B_nat", t>>, <<"B_hi", t>>, <<"B_kmaj", t>>}
    BY <1>4
  <2>2. f[1] \in {"B_nat", "B_hi", "B_kmaj"} /\ f[2] = t /\ t \in Nat \ {0}
    BY <1>1, <2>1
  <2>3. f[1] # "B_normal"
    BY <2>2
  <2> QED
    BY <2>1, <2>2, <2>3 DEF OfBank, OfInput
<1> QED
  BY <1>2, <1>3, <1>4

(* Each packed file holds its matrix in an order of its own. *)
Source(f, A, B) == IF OfBank(f) THEN B ELSE A
(* The files of packed nibbles. *)
PackedFiles(kind, N, ms) == BFiles(kind, N) \cup ({"A", "A_nat"} \X ms)

(* The order of a packed file, and its content. *)
LEMMA FileInverts ==
  ASSUME KitAssumption, NEW kind, NEW A, NEW B, NEW K, NEW N, NEW ms, Emits(kind, A, B, K, N, ms),
         NEW f \in PackedFiles(kind, N, ms)
  PROVE  /\ Height(f, K) \in Nat /\ Width(f, K, N) \in Nat
         /\ (Height(f, K) * Width(f, K, N)) % 2 = 0
         /\ Inverts(Places(f, K, N), Order(f, K, N), Height(f, K), Width(f, K, N))
         /\ In(Source(f, A, B), Height(f, K), Width(f, K, N), -8 .. 7)
         /\ Content(f, A, B, K, N) = Pack(Stored(Order(f, K, N), Source(f, A, B)), HiFirst(f))
<1>1. /\ K \in Nat \ {0} /\ N \in Nat \ {0} /\ K % KitTile = 0 /\ K % 2 = 0
      /\ KitTile \in Nat \ {0}
  BY ShapesAre, TilesAre DEF Emits
<1>2. CASE f = <<"B_normal", 0>>
  <2>1. OfBank(f) /\ Height(f, K) = K /\ Width(f, K, N) = N
    BY <1>2 DEF OfBank, Height, Width
  <2>2. Order(f, K, N) = Normal(K, N) /\ Places(f, K, N) = NormalAt(K, N) /\ Source(f, A, B) = B /\ HiFirst(f) = FALSE
    BY <1>2, <2>1 DEF Order, Places, Source, HiFirst
  <2>3. Content(f, A, B, K, N) = Pack(Stored(Normal(K, N), B), FALSE)
    BY <1>2 DEF Content
  <2> QED
    BY <1>1, <2>1, <2>2, <2>3, EvenTimes, NormalInverts DEF Emits
<1>3. CASE f \in BFiles(kind, N) /\ f # <<"B_normal", 0>>
  <2>1. OfBank(f) /\ f[2] \in Nat \ {0} /\ N % f[2] = 0 /\ f[1] \in {"B_nat", "B_hi", "B_kmaj"}
    BY <1>3, BankTiles
  <2>2. Height(f, K) = K /\ Width(f, K, N) = N /\ Source(f, A, B) = B
    BY <2>1 DEF Height, Width, Source
  <2>3. (K * N) % 2 = 0 /\ In(B, K, N, -8 .. 7)
    BY <1>1, EvenTimes DEF Emits
  <2>4. CASE f[1] = "B_kmaj"
    <3>1. Order(f, K, N) = BKMajor(K, N, f[2]) /\ Places(f, K, N) = BKMajorAt(K, N, f[2]) /\ HiFirst(f) = FALSE
      BY <2>4 DEF Order, Places, HiFirst
    <3>2. Content(f, A, B, K, N) = Pack(Stored(BKMajor(K, N, f[2]), B), FALSE)
      BY <2>4 DEF Content
    <3>3. Inverts(BKMajorAt(K, N, f[2]), BKMajor(K, N, f[2]), K, N)
      BY <1>1, <2>1, BKMajorInverts
    <3> QED
      BY <1>1, <2>2, <2>3, <3>1, <3>2, <3>3
  <2>5. CASE f[1] \in {"B_nat", "B_hi"}
    <3>1. Order(f, K, N) = BNative(K, N, f[2]) /\ Places(f, K, N) = BNativeAt(K, N, f[2])
      BY <2>5 DEF Order, Places
    <3>2. Content(f, A, B, K, N) = Pack(Stored(BNative(K, N, f[2]), B), HiFirst(f))
      BY <2>5 DEF Content, HiFirst
    <3>3. Inverts(BNativeAt(K, N, f[2]), BNative(K, N, f[2]), K, N)
      BY <1>1, <2>1, BNativeInverts
    <3> QED
      BY <1>1, <2>2, <2>3, <3>1, <3>2, <3>3
  <2> QED
    BY <2>1, <2>4, <2>5
<1>4. CASE f \in {"A", "A_nat"} \X ms
  <2>1. f[1] \in {"A", "A_nat"} /\ f[2] \in ms /\ f[2] \in Nat \ {0}
    BY <1>4 DEF Emits
  <2>2. ~OfBank(f) /\ Height(f, K) = f[2] /\ Width(f, K, N) = K /\ Source(f, A, B) = A /\ HiFirst(f) = FALSE
    BY <2>1 DEF OfBank, Height, Width, Source, HiFirst
  <2>3. (f[2] * K) % 2 = 0 /\ In(A, f[2], K, -8 .. 7)
    BY <1>1, <2>1, EvenTimes DEF Emits
  <2>4. CASE f[1] = "A"
    <3>1. Order(f, K, N) = Normal(f[2], K) /\ Places(f, K, N) = NormalAt(f[2], K)
      BY <2>4 DEF Order, Places
    <3>2. Content(f, A, B, K, N) = Pack(Stored(Normal(f[2], K), A), FALSE)
      BY <2>4 DEF Content
    <3> QED
      BY <1>1, <2>1, <2>2, <2>3, <3>1, <3>2, NormalInverts
  <2>5. CASE f[1] = "A_nat"
    <3>1. Order(f, K, N) = Native(f[2], K, KitTile) /\ Places(f, K, N) = NativeAt(f[2], K, KitTile)
      BY <2>5 DEF Order, Places
    <3>2. Content(f, A, B, K, N) = Pack(Stored(Native(f[2], K, KitTile), A), FALSE)
      BY <2>5 DEF Content
    <3> QED
      BY <1>1, <2>1, <2>2, <2>3, <3>1, <3>2, NativeInverts
  <2> QED
    BY <2>1, <2>4, <2>5
<1> QED
  BY <1>2, <1>3, <1>4 DEF PackedFiles

-----------------------------------------------------------------------------
(* verify_kit.py                                                            *)

(* The positions, counted from 0. *)
LEMMA PlacesAre ==
  ASSUME NEW R \in Nat \ {0}, NEW C \in Nat \ {0}, NEW t \in Nat \ {0}, KitTile \in Nat \ {0}
  PROVE  /\ \A i \in Rows(R), j \in Rows(C) : NormalAt(R, C)[<<i, j>>] - 1 = AtNormal(C, i, j)
         /\ \A i \in Rows(R), j \in Rows(C) : NativeAt(R, C, t)[<<i, j>>] - 1 = AtNative(R, t, i, j)
         /\ \A i \in Rows(R), j \in Rows(C) : BNativeAt(R, C, t)[<<i, j>>] - 1 = AtBNative(R, t, i, j)
         /\ \A i \in Rows(R), j \in Rows(C) : BKMajorAt(R, C, t)[<<i, j>>] - 1 = AtBKMajor(R, t, i, j)
<1>1. ASSUME NEW i \in Rows(R), NEW j \in Rows(C)
      PROVE  /\ NormalAt(R, C)[<<i, j>>] - 1 = AtNormal(C, i, j)
             /\ NativeAt(R, C, t)[<<i, j>>] - 1 = AtNative(R, t, i, j)
             /\ BNativeAt(R, C, t)[<<i, j>>] - 1 = AtBNative(R, t, i, j)
             /\ BKMajorAt(R, C, t)[<<i, j>>] - 1 = AtBKMajor(R, t, i, j)
  <2>1. i \in Nat /\ j \in Nat /\ R \in Nat /\ C \in Nat
    BY DEF Rows
  <2>2. /\ j \div t \in Nat /\ j % t \in Nat /\ i \div KitTile \in Nat /\ i % KitTile \in Nat
        /\ R \div KitTile \in Nat
    BY <2>1
  <2>3. AtNormal(C, i, j) \in Int
    BY <2>1 DEF AtNormal
  <2>4. AtNative(R, t, i, j) \in Int
    BY <2>1, <2>2 DEF AtNative
  <2>5. AtBNative(R, t, i, j) \in Int /\ AtBKMajor(R, t, i, j) \in Int
    BY <2>1, <2>2 DEF AtBNative, AtBKMajor
  <2>6. /\ NormalAt(R, C)[<<i, j>>] = AtNormal(C, i, j) + 1
        /\ NativeAt(R, C, t)[<<i, j>>] = AtNative(R, t, i, j) + 1
        /\ BNativeAt(R, C, t)[<<i, j>>] = AtBNative(R, t, i, j) + 1
        /\ BKMajorAt(R, C, t)[<<i, j>>] = AtBKMajor(R, t, i, j) + 1
    BY DEF NormalAt, NativeAt, BNativeAt, BKMajorAt
  <2> QED
    BY <2>3, <2>4, <2>5, <2>6
<1> QED
  BY <1>1

(* Reading, row by row. *)
LEMMA ReadsByIndex ==
  ASSUME NEW b, NEW at, NEW hi, NEW X, NEW R, NEW C
  PROVE  Reads(b, at, hi, X, R, C) <=>
           \A i \in Rows(R), j \in Rows(C) : Nibble(b, at[<<i, j>>] - 1, hi) = X[<<i, j>>]
<1>1. \A i \in Rows(R), j \in Rows(C) : <<i, j>> \in Rows(R) \X Rows(C)
  OBVIOUS
<1>2. \A c \in Rows(R) \X Rows(C) : \E i \in Rows(R), j \in Rows(C) : c = <<i, j>>
  OBVIOUS
<1>3. ASSUME \A i \in Rows(R), j \in Rows(C) : Nibble(b, at[<<i, j>>] - 1, hi) = X[<<i, j>>]
      PROVE  Reads(b, at, hi, X, R, C)
  <2>1. SUFFICES ASSUME NEW c \in Rows(R) \X Rows(C) PROVE Nibble(b, at[c] - 1, hi) = X[c]
    BY DEF Reads
  <2>2. PICK i \in Rows(R), j \in Rows(C) : c = <<i, j>>
    BY <1>2
  <2>3. Nibble(b, at[<<i, j>>] - 1, hi) = X[<<i, j>>]
    BY <1>3
  <2> QED
    BY <2>2, <2>3
<1>4. ASSUME Reads(b, at, hi, X, R, C), NEW i \in Rows(R), NEW j \in Rows(C)
      PROVE  Nibble(b, at[<<i, j>>] - 1, hi) = X[<<i, j>>]
  BY <1>1, <1>4 DEF Reads
<1> QED
  BY <1>3, <1>4, Zenon

(* The meta.json of a kit. *)
Describes(mt, kind, K, N) ==
  mt.kind = kind /\ mt.K = K /\ mt.N = N /\ (kind # "shape" => mt.M = 2)

(* What is taken for the bank and for the input.                            *)
LEMMA BankIsRead ==
  ASSUME NEW d, NEW mt, NEW K \in Nat \ {0}, NEW N \in Nat \ {0}, mt.K = K, mt.N = N,
         KitTile \in Nat \ {0}
  PROVE  Reads(d[<<"B_normal", 0>>], NormalAt(K, N), FALSE, BankRead(d, mt), K, N)
<1> DEFINE b == d[<<"B_normal", 0>>]
<1>1. \A c \in Rows(K) \X Rows(N) : NormalAt(K, N)[c] - 1 = AtNormal(N, c[1], c[2])
  BY PlacesAre
<1>2. BankRead(d, mt) = [c \in Rows(K) \X Rows(N) |-> Nibble(b, AtNormal(N, c[1], c[2]), FALSE)]
  BY DEF BankRead
<1> HIDE DEF b
<1>3. Reads(b, NormalAt(K, N), FALSE, BankRead(d, mt), K, N)
  BY <1>1, <1>2 DEF Reads
<1> QED
  BY <1>3 DEF b

(* and only the bank that is read agrees with it. *)
LEMMA BankReadIs ==
  ASSUME NEW d, NEW mt, NEW K \in Nat \ {0}, NEW N \in Nat \ {0}, mt.K = K, mt.N = N,
         KitTile \in Nat \ {0}, NEW X, X = [c \in Rows(K) \X Rows(N) |-> X[c]]
  PROVE  Reads(d[<<"B_normal", 0>>], NormalAt(K, N), FALSE, X, K, N) <=> BankRead(d, mt) = X
<1> DEFINE b == d[<<"B_normal", 0>>]
           Y == BankRead(d, mt)
<1>1. Reads(b, NormalAt(K, N), FALSE, Y, K, N)
  BY BankIsRead
<1>2. Y = [c \in Rows(K) \X Rows(N) |-> Y[c]]
  BY DEF BankRead
<1> HIDE DEF b, Y
<1>3. Reads(b, NormalAt(K, N), FALSE, X, K, N) => X = Y
  <2>1. SUFFICES ASSUME Reads(b, NormalAt(K, N), FALSE, X, K, N) PROVE X = Y
    OBVIOUS
  <2>2. \A c \in Rows(K) \X Rows(N) : X[c] = Y[c]
    BY <1>1, <2>1 DEF Reads
  <2> QED
    BY <1>2, <2>2
<1>4. Reads(b, NormalAt(K, N), FALSE, X, K, N) <=> Y = X
  BY <1>1, <1>3
<1> QED
  BY <1>4 DEF b, Y

(* So is the input, *)
LEMMA InputIsRead ==
  ASSUME NEW d, NEW mt, NEW K \in Nat \ {0}, NEW r \in Nat \ {0}, mt.K = K, KitTile \in Nat \ {0}
  PROVE  Reads(d[<<"A", r>>], NormalAt(r, K), FALSE, InputRead(d, mt, r), r, K)
<1> DEFINE b == d[<<"A", r>>]
<1>1. \A c \in Rows(r) \X Rows(K) : NormalAt(r, K)[c] - 1 = AtNormal(K, c[1], c[2])
  BY PlacesAre
<1>2. InputRead(d, mt, r) = [c \in Rows(r) \X Rows(K) |-> Nibble(b, AtNormal(K, c[1], c[2]), FALSE)]
  BY DEF InputRead
<1> HIDE DEF b
<1>3. Reads(b, NormalAt(r, K), FALSE, InputRead(d, mt, r), r, K)
  BY <1>1, <1>2 DEF Reads
<1> QED
  BY <1>3 DEF b

(* and what agrees with it. *)
LEMMA InputReadIs ==
  ASSUME NEW d, NEW mt, NEW K \in Nat \ {0}, NEW r \in Nat \ {0}, mt.K = K, KitTile \in Nat \ {0},
         NEW X
  PROVE  Reads(d[<<"A", r>>], NormalAt(r, K), FALSE, X, r, K) <=> Agree(InputRead(d, mt, r), X, r, K)
<1> DEFINE b == d[<<"A", r>>]
           Y == InputRead(d, mt, r)
<1>1. Reads(b, NormalAt(r, K), FALSE, Y, r, K)
  BY InputIsRead
<1> HIDE DEF b, Y
<1>2. \A c \in Rows(r) \X Rows(K) : Nibble(b, NormalAt(r, K)[c] - 1, FALSE) = Y[c]
  BY <1>1 DEF Reads
<1>3. Reads(b, NormalAt(r, K), FALSE, X, r, K) <=> Agree(Y, X, r, K)
  BY <1>2, Zenon DEF Reads, Agree
<1> QED
  BY <1>3 DEF b, Y

(* A packed file but the two row-major ones fails when it does not read as  *)
(* its row-major one.                                                       *)
LEMMA FailsPacked ==
  ASSUME KitAssumption, NEW kind, NEW A, NEW B, NEW K, NEW N, NEW ms, Emits(kind, A, B, K, N, ms),
         NEW d, NEW mt, Describes(mt, kind, K, N),
         NEW f \in PackedFiles(kind, N, ms), f[1] \notin {"B_normal", "A"}
  PROVE  Fails(d, mt, f) <=>
           ~Reads(d[f], Places(f, K, N), HiFirst(f),
                  IF OfBank(f) THEN BankRead(d, mt) ELSE InputRead(d, mt, f[2]),
                  Height(f, K), Width(f, K, N))
<1>1. K \in Nat \ {0} /\ N \in Nat \ {0} /\ KitTile \in Nat \ {0} /\ mt.K = K /\ mt.N = N
  BY ShapesAre, TilesAre DEF Emits, Describes
<1> DEFINE BB == BankRead(d, mt)
           r == f[2]
           AA == InputRead(d, mt, r)
<1>2. CASE f \in BFiles(kind, N)
  <2>1. f[1] \in {"B_nat", "B_hi", "B_kmaj"} /\ OfBank(f) /\ r \in Nat \ {0}
    BY <1>2, BankTiles
  <2>2. Height(f, K) = K /\ Width(f, K, N) = N
    BY <2>1 DEF Height, Width
  <2> HIDE DEF BB, AA
  <2>3. CASE f[1] = "B_kmaj"
    <3>1. Fails(d, mt, f) <=>
            \E k \in Rows(K), n \in Rows(N) : Nibble(d[f], AtBKMajor(K, r, k, n), FALSE) # BB[k, n]
      BY <1>1, <2>3 DEF Fails, BB
    <3>2. Places(f, K, N) = BKMajorAt(K, N, r) /\ HiFirst(f) = FALSE
      BY <2>3 DEF Places, HiFirst
    <3> HIDE DEF r
    <3>a. K \in Nat \ {0} /\ N \in Nat \ {0} /\ KitTile \in Nat \ {0}
      BY <1>1
    <3>b. r \in Nat \ {0}
      BY <2>1
    <3>3. \A k \in Rows(K), n \in Rows(N) : BKMajorAt(K, N, r)[<<k, n>>] - 1 = AtBKMajor(K, r, k, n)
      BY <3>a, <3>b, PlacesAre, Zenon
    <3>4. Fails(d, mt, f) <=> ~Reads(d[f], BKMajorAt(K, N, r), FALSE, BB, K, N)
      BY <3>1, <3>3, ReadsByIndex, Zenon
    <3> QED
      BY <2>1, <2>2, <3>2, <3>4 DEF BB
  <2>4. CASE f[1] # "B_kmaj"
    <3>0. f[1] \in {"B_nat", "B_hi"}
      BY <2>1, <2>4
    <3>1. Fails(d, mt, f) <=>
            \E k \in Rows(K), n \in Rows(N) : Nibble(d[f], AtBNative(K, r, k, n), HiFirst(f)) # BB[k, n]
      BY <1>1, <3>0 DEF Fails, BB, HiFirst
    <3>2. Places(f, K, N) = BNativeAt(K, N, r)
      BY <3>0 DEF Places
    <3> HIDE DEF r
    <3>a. K \in Nat \ {0} /\ N \in Nat \ {0} /\ KitTile \in Nat \ {0}
      BY <1>1
    <3>b. r \in Nat \ {0}
      BY <2>1
    <3>3. \A k \in Rows(K), n \in Rows(N) : BNativeAt(K, N, r)[<<k, n>>] - 1 = AtBNative(K, r, k, n)
      BY <3>a, <3>b, PlacesAre, Zenon
    <3>4. Fails(d, mt, f) <=> ~Reads(d[f], BNativeAt(K, N, r), HiFirst(f), BB, K, N)
      BY <3>1, <3>3, ReadsByIndex, Zenon
    <3> QED
      BY <2>1, <2>2, <3>2, <3>4 DEF BB
  <2> QED
    BY <2>3, <2>4
<1>3. CASE f \in {"A", "A_nat"} \X ms
  <2>1. f[1] = "A_nat" /\ r \in Nat \ {0}
    BY <1>3 DEF Emits
  <2>2. ~OfBank(f) /\ Height(f, K) = r /\ Width(f, K, N) = K /\ HiFirst(f) = FALSE
        /\ Places(f, K, N) = NativeAt(r, K, KitTile)
    BY <2>1 DEF OfBank, Height, Width, HiFirst, Places
  <2> HIDE DEF BB, AA
  <2>3. Fails(d, mt, f) <=>
          \E i \in Rows(r), k \in Rows(K) : Nibble(d[f], AtNative(r, KitTile, i, k), FALSE) # AA[i, k]
    BY <1>1, <2>1 DEF Fails, AA
  <2> HIDE DEF r
  <2>a. K \in Nat \ {0} /\ KitTile \in Nat \ {0}
    BY <1>1
  <2>b. r \in Nat \ {0}
    BY <2>1
  <2>4. \A i \in Rows(r), k \in Rows(K) : NativeAt(r, K, KitTile)[<<i, k>>] - 1 = AtNative(r, KitTile, i, k)
    BY <2>a, <2>b, PlacesAre, Zenon
  <2>5. Fails(d, mt, f) <=> ~Reads(d[f], NativeAt(r, K, KitTile), FALSE, AA, r, K)
    BY <2>3, <2>4, ReadsByIndex, Zenon
  <2> QED
    BY <2>2, <2>5 DEF AA, r
<1> QED
  BY <1>2, <1>3 DEF PackedFiles

(* Rows are finite. *)
LEMMA RowsFinite == ASSUME NEW n \in Nat PROVE IsFiniteSet(Rows(n))
  BY FS_Interval DEF Rows

(* A remainder is in range. *)
LEMMA ModuloInRange ==
  ASSUME NEW x \in Int, NEW m \in Nat \ {0}
  PROVE  x % m \in Rows(m)
  BY Z3 DEF Rows

(* int16 conversion: in range, the identity there, and one up it differs. *)
LEMMA WrapIs ==
  ASSUME IntMax \in Nat, NEW v \in Int
  PROVE  /\ Wrap(v) \in -IntMax - 1 .. IntMax
         /\ v \in -IntMax - 1 .. IntMax => Wrap(v) = v
         /\ Wrap(v + 1) # v
<1> DEFINE m == 2 * (IntMax + 1)
<1>1. m \in Nat \ {0}
  OBVIOUS
<1>2. ASSUME NEW x \in Int
      PROVE  /\ Wrap(x) \in -IntMax - 1 .. IntMax
             /\ x \in -IntMax - 1 .. IntMax => Wrap(x) = x
  <2> DEFINE y == x + IntMax + 1
  <2>0. y \in Int
    OBVIOUS
  <2>1. y % m \in Rows(m)
    <3> HIDE DEF y, m
    <3> QED
      BY <1>1, <2>0, ModuloInRange
  <2>2. Wrap(x) = (y % m) - (IntMax + 1)
    BY DEF Wrap
  <2>3. x \in -IntMax - 1 .. IntMax => y % m = y
    <3>1. SUFFICES ASSUME x \in -IntMax - 1 .. IntMax PROVE y % m = y
      OBVIOUS
    <3>2. y \in Rows(m) /\ 0 * m + y = y /\ 0 \in Nat
      <4>1. y >= 0 /\ y <= m - 1
        BY <3>1
      <4> HIDE DEF y, m
      <4> QED
        BY <1>1, <2>0, <4>1 DEF Rows
    <3> HIDE DEF y, m
    <3> QED
      BY <1>1, <3>2, Digits
  <2> HIDE DEF m
  <2>4. m = 2 * (IntMax + 1)
    BY DEF m
  <2> DEFINE z == y % m
  <2>5. z \in 0 .. m - 1 /\ Wrap(x) = z - (IntMax + 1)
    BY <2>1, <2>2 DEF Rows
  <2>6. x \in -IntMax - 1 .. IntMax => z = x + IntMax + 1
    BY <2>3
  <2> HIDE DEF z, y
  <2> QED
    BY <2>4, <2>5, <2>6
<1>3. Wrap(v + 1) # v
  <2>1. v + 1 \in Int
    OBVIOUS
  <2>2. CASE v + 1 \in -IntMax - 1 .. IntMax
    BY <1>2, <2>1, <2>2
  <2>3. CASE v = IntMax
    <3>1. Wrap(v + 1) = (m % m) - (IntMax + 1)
      BY <2>3 DEF Wrap
    <3>2. m % m = 0
      <4>1. m = 1 * m
        OBVIOUS
      <4> HIDE DEF m
      <4> QED
        BY <1>1, <4>1, Multiples
    <3> QED
      BY <2>3, <3>1, <3>2
  <2>4. CASE v \notin -IntMax - 1 .. IntMax
    BY <1>2, <2>1, <2>4
  <2>5. CASE v \in -IntMax - 1 .. IntMax /\ v # IntMax /\ v + 1 \notin -IntMax - 1 .. IntMax
    BY <2>5
  <2> QED
    BY <2>2, <2>3, <2>4, <2>5
<1> QED
  BY <1>2, <1>3

(* A product depends on the elements it is of, which are integers.          *)
LEMMA ProductIs ==
  ASSUME NEW r \in Nat, NEW K \in Nat, NEW N \in Nat, NEW A, NEW B,
         In(A, r, K, Int), In(B, K, N, Int)
  PROVE  Product(A, B, r, K, N) \in [Rows(r) \X Rows(N) -> Int]
<1>1. ASSUME NEW i \in Rows(r), NEW n \in Rows(N)
      PROVE  Total([k \in Rows(K) |-> A[<<i, k>>] * B[<<k, n>>]]) \in Int
  <2>1. [k \in Rows(K) |-> A[<<i, k>>] * B[<<k, n>>]] \in [Rows(K) -> Int]
    BY DEF In
  <2> QED
    BY <2>1, RowsFinite, TotalIsInt
<1> QED
  BY <1>1 DEF Product

(* A product depends on the rows that are multiplied. *)
LEMMA SameProduct ==
  ASSUME NEW r, NEW K, NEW N, NEW A, NEW AA, NEW B,
         Agree(A, AA, r, K)
  PROVE  Product(A, B, r, K, N) = Product(AA, B, r, K, N)
<1>1. ASSUME NEW i \in Rows(r), NEW n \in Rows(N)
      PROVE  [k \in Rows(K) |-> A[<<i, k>>] * B[<<k, n>>]] = [k \in Rows(K) |-> AA[<<i, k>>] * B[<<k, n>>]]
  BY DEF Agree
<1>2. ASSUME NEW c \in Rows(r) \X Rows(N)
      PROVE  Total([k \in Rows(K) |-> A[<<c[1], k>>] * B[<<k, c[2]>>]]) = Total([k \in Rows(K) |-> AA[<<c[1], k>>] * B[<<k, c[2]>>]])
  <2>1. c[1] \in Rows(r) /\ c[2] \in Rows(N)
    OBVIOUS
  <2>2. [k \in Rows(K) |-> A[<<c[1], k>>] * B[<<k, c[2]>>]] = [k \in Rows(K) |-> AA[<<c[1], k>>] * B[<<k, c[2]>>]]
    BY <1>1, <2>1
  <2> QED
    BY <2>2
<1> QED
  BY <1>2, Zenon DEF Product

(* The products of a kit are integers. *)
LEMMA EmitsProducts ==
  ASSUME KitAssumption, NEW kind, NEW A, NEW B, NEW K, NEW N, NEW ms, Emits(kind, A, B, K, N, ms),
         NEW r \in ms
  PROVE  Product(A, B, r, K, N) \in [Rows(r) \X Rows(N) -> Int]
<1>1. K \in Nat /\ N \in Nat /\ r \in Nat
  BY ShapesAre DEF Emits
<1>2. In(A, r, K, Int) /\ In(B, K, N, Int)
  BY DEF Emits, In
<1> QED
  BY <1>1, <1>2, ProductIs

(* The files of the products. *)
Wrapped(C, R, N) == [c \in Rows(R) \X Rows(N) |-> Wrap(C[c])]

(* The files of a product hold it, the int16 ones wrapped. *)
LEMMA ProductFiles ==
  ASSUME KitAssumption, NEW kind, NEW A, NEW B, NEW K, NEW N, NEW ms, Emits(kind, A, B, K, N, ms),
         NEW r \in ms, NEW C, C = Product(A, B, r, K, N)
  PROVE  /\ Content(<<"C_i32", r>>, A, B, K, N) \in [1 .. r * N -> Int]
         /\ Holds(Content(<<"C_i32", r>>, A, B, K, N), NormalAt(r, N), C, r, N)
         /\ Content(<<"C_nat", r>>, A, B, K, N) \in [1 .. r * N -> Int]
         /\ Holds(Content(<<"C_nat", r>>, A, B, K, N), NativeAt(r, N, CTile), Wrapped(C, r, N), r, N)
<1>1. N \in Nat \ {0} /\ r \in Nat \ {0} /\ CTile \in Nat \ {0} /\ N % CTile = 0 /\ IntMax \in Nat
  BY ShapesAre, TilesAre DEF Emits
<1> DEFINE lay == Native(r, N, CTile)
           nor == Normal(r, N)
<1>2. C \in [Rows(r) \X Rows(N) -> Int]
  BY EmitsProducts
<1>3. Inverts(NormalAt(r, N), nor, r, N) /\ Inverts(NativeAt(r, N, CTile), lay, r, N)
  BY <1>1, NormalInverts, NativeInverts
<1>4. Content(<<"C_i32", r>>, A, B, K, N) = Stored(nor, C)
  BY DEF Content
<1>5. Content(<<"C_nat", r>>, A, B, K, N) = [p \in DOMAIN Stored(lay, C) |-> Wrap(Stored(lay, C)[p])]
  BY DEF Content
<1> HIDE DEF lay, nor
<1>6. In(C, r, N, Int) /\ r \in Nat /\ N \in Nat
  BY <1>1, <1>2 DEF In
<1>7. Stored(nor, C) \in [1 .. r * N -> Int] /\ Holds(Stored(nor, C), NormalAt(r, N), C, r, N)
  <2>1. Inverts(NormalAt(r, N), nor, r, N)
    BY <1>3
  <2> QED
    BY <1>6, <2>1, StoredIs
<1>8. Stored(lay, C) \in [1 .. r * N -> Int] /\ Holds(Stored(lay, C), NativeAt(r, N, CTile), C, r, N)
  BY <1>3, <1>6, StoredIs
<1> DEFINE s == Stored(lay, C)
           w == Content(<<"C_nat", r>>, A, B, K, N)
<1>9. w = [p \in 1 .. r * N |-> Wrap(s[p])] /\ s \in [1 .. r * N -> Int]
  BY <1>5, <1>8
<1>10. \A c \in Rows(r) \X Rows(N) : NativeAt(r, N, CTile)[c] \in 1 .. r * N /\ s[NativeAt(r, N, CTile)[c]] = C[c]
  BY <1>3, <1>8 DEF Inverts, Holds
<1> HIDE DEF s, w
<1>11. \A v \in Int : Wrap(v) \in Int
  BY <1>1, WrapIs
<1>12. w \in [1 .. r * N -> Int] /\ Holds(w, NativeAt(r, N, CTile), Wrapped(C, r, N), r, N)
  BY <1>9, <1>10, <1>11 DEF Holds, Wrapped
<1> QED
  BY <1>4, <1>7, <1>12 DEF w

(* The checks of the products are against the product of what was read. *)
LEMMA FailsProducts ==
  ASSUME KitAssumption, NEW K, NEW N, <<K, N>> \in KitShapes,
         NEW d, NEW mt, mt.K = K, mt.N = N, NEW r \in Nat \ {0}, NEW C,
         C = Product(InputRead(d, mt, r), BankRead(d, mt), r, K, N)
  PROVE  /\ Fails(d, mt, <<"C_i32", r>>) <=> ~Holds(d[<<"C_i32", r>>], NormalAt(r, N), C, r, N)
         /\ Fails(d, mt, <<"C_nat", r>>) <=>
              ~(/\ Holds(d[<<"C_nat", r>>], NativeAt(r, N, CTile), C, r, N)
                /\ In(C, r, N, -IntMax .. IntMax))
<1> DEFINE a == d[<<"C_i32", r>>]
           b == d[<<"C_nat", r>>]
<1>1. Fails(d, mt, <<"C_i32", r>>) <=>
        \E i \in Rows(r), n \in Rows(N) : a[AtNormal(N, i, n) + 1] # C[<<i, n>>]
  BY DEF Fails
<1>2. Fails(d, mt, <<"C_nat", r>>) <=>
        \E i \in Rows(r), n \in Rows(N) :
          b[AtNative(r, CTile, i, n) + 1] # C[<<i, n>>] \/ C[<<i, n>>] \notin -IntMax .. IntMax
  BY DEF Fails
<1>3. \A c \in Rows(r) \X Rows(N) : NormalAt(r, N)[c] = AtNormal(N, c[1], c[2]) + 1
  BY DEF NormalAt
<1>4. \A c \in Rows(r) \X Rows(N) : NativeAt(r, N, CTile)[c] = AtNative(r, CTile, c[1], c[2]) + 1
  BY DEF NativeAt
<1>5. \A i \in Rows(r), n \in Rows(N) : <<i, n>> \in Rows(r) \X Rows(N) /\ <<i, n>>[1] = i /\ <<i, n>>[2] = n
  OBVIOUS
<1>6. \A c \in Rows(r) \X Rows(N) : c[1] \in Rows(r) /\ c[2] \in Rows(N) /\ c = <<c[1], c[2]>>
  OBVIOUS
<1> HIDE DEF a, b
<1>7. Fails(d, mt, <<"C_i32", r>>) <=> ~Holds(a, NormalAt(r, N), C, r, N)
  <2>1. (\E i \in Rows(r), n \in Rows(N) : a[AtNormal(N, i, n) + 1] # C[<<i, n>>])
          => ~Holds(a, NormalAt(r, N), C, r, N)
    BY <1>3, <1>5 DEF Holds
  <2>2. ~Holds(a, NormalAt(r, N), C, r, N)
          => \E i \in Rows(r), n \in Rows(N) : a[AtNormal(N, i, n) + 1] # C[<<i, n>>]
    BY <1>3, <1>6 DEF Holds
  <2> QED
    BY <1>1, <2>1, <2>2, Zenon
<1>8. Fails(d, mt, <<"C_nat", r>>) <=>
        ~(Holds(b, NativeAt(r, N, CTile), C, r, N) /\ In(C, r, N, -IntMax .. IntMax))
  <2>1. ASSUME NEW i \in Rows(r), NEW n \in Rows(N),
               b[AtNative(r, CTile, i, n) + 1] # C[<<i, n>>] \/ C[<<i, n>>] \notin -IntMax .. IntMax
        PROVE  ~(Holds(b, NativeAt(r, N, CTile), C, r, N) /\ In(C, r, N, -IntMax .. IntMax))
    BY <1>4, <1>5, <2>1 DEF Holds, In
  <2>2. ASSUME ~(Holds(b, NativeAt(r, N, CTile), C, r, N) /\ In(C, r, N, -IntMax .. IntMax))
        PROVE  \E i \in Rows(r), n \in Rows(N) :
                 b[AtNative(r, CTile, i, n) + 1] # C[<<i, n>>] \/ C[<<i, n>>] \notin -IntMax .. IntMax
    <3>1. PICK c \in Rows(r) \X Rows(N) :
            b[AtNative(r, CTile, c[1], c[2]) + 1] # C[c] \/ C[c] \notin -IntMax .. IntMax
      BY <1>4, <2>2 DEF Holds, In
    <3> QED
      BY <1>6, <3>1
  <2> QED
    BY <1>2, <2>1, <2>2, Zenon
<1> QED
  BY <1>7, <1>8 DEF a, b

(* No other file is checked. *)
LEMMA FailsNone ==
  ASSUME NEW d, NEW mt, NEW f, f[1] \in {"B_normal", "A", "C_i16"}
  PROVE  ~Fails(d, mt, f)
  BY DEF Fails

(* The products fit int16. *)
Fit(A, B, K, N, ms) ==
  \A r \in ms : In(Product(A, B, r, K, N), r, N, -IntMax .. IntMax)

(* File f of the directory d is as it was written. *)
AsWritten(d, f, A, B, K, N) == d[f] = Content(f, A, B, K, N)

(* The bank is read back. *)
LEMMA BankIsBack ==
  ASSUME KitAssumption, NEW kind, NEW A, NEW B, NEW K, NEW N, NEW ms, Emits(kind, A, B, K, N, ms),
         NEW d, NEW mt, Describes(mt, kind, K, N),
         AsWritten(d, <<"B_normal", 0>>, A, B, K, N)
  PROVE  BankRead(d, mt) = B
<1> DEFINE f == <<"B_normal", 0>>
<1>1. K \in Nat \ {0} /\ N \in Nat \ {0} /\ KitTile \in Nat \ {0} /\ mt.K = K /\ mt.N = N
  BY ShapesAre, TilesAre DEF Emits, Describes
<1>2. f \in PackedFiles(kind, N, ms)
  BY DEF PackedFiles, BFiles
<1>3. /\ Height(f, K) = K /\ Width(f, K, N) = N /\ Places(f, K, N) = NormalAt(K, N)
      /\ Source(f, A, B) = B /\ HiFirst(f) = FALSE
  BY DEF Height, Width, Places, Source, HiFirst, OfBank
<1> HIDE DEF f
<1>4. Reads(d[f], Places(f, K, N), HiFirst(f), Source(f, A, B), Height(f, K), Width(f, K, N))
  <2>1. HiFirst(f) \in BOOLEAN
    BY <1>3
  <2>2. d[f] = Content(f, A, B, K, N)
    BY DEF f, AsWritten
  <2> QED
    BY <1>2, <2>1, <2>2, FileInverts, PackedReads
<1>5. Reads(d[<<"B_normal", 0>>], NormalAt(K, N), FALSE, B, K, N)
  BY <1>3, <1>4 DEF f
<1>6. K \in Nat \ {0} /\ N \in Nat \ {0} /\ KitTile \in Nat \ {0}
  BY <1>1
<1>7. mt.K = K /\ mt.N = N
  BY <1>1
<1>8. B = [c \in Rows(K) \X Rows(N) |-> B[c]]
  BY DEF Emits
<1> QED
  BY <1>5, <1>6, <1>7, <1>8, BankReadIs

(* A packed file that is as written reads as its matrix. *)
LEMMA WrittenReads ==
  ASSUME KitAssumption, NEW kind, NEW A, NEW B, NEW K, NEW N, NEW ms, Emits(kind, A, B, K, N, ms),
         NEW d, NEW f \in PackedFiles(kind, N, ms), AsWritten(d, f, A, B, K, N)
  PROVE  /\ Reads(d[f], Places(f, K, N), HiFirst(f), Source(f, A, B), Height(f, K), Width(f, K, N))
         /\ d[f] \in Bytes(Height(f, K) * Width(f, K, N))
<1> DEFINE R == Height(f, K)
           C == Width(f, K, N)
           at == Places(f, K, N)
           lay == Order(f, K, N)
           X == Source(f, A, B)
           hi == HiFirst(f)
           b == Content(f, A, B, K, N)
<1>1. /\ R \in Nat /\ C \in Nat /\ (R * C) % 2 = 0 /\ Inverts(at, lay, R, C)
      /\ In(X, R, C, -8 .. 7) /\ b = Pack(Stored(lay, X), hi)
  BY FileInverts
<1>2. hi \in BOOLEAN
  BY DEF HiFirst
<1> HIDE DEF R, C, at, lay, X, hi, b
<1>3. Pack(Stored(lay, X), hi) \in Bytes(R * C) /\ Reads(Pack(Stored(lay, X), hi), at, hi, X, R, C)
  BY <1>1, <1>2, PackedReads
<1>4. b \in Bytes(R * C) /\ Reads(b, at, hi, X, R, C)
  BY <1>1, <1>3
<1>5. d[f] = b
  BY DEF AsWritten, b
<1>6. d[f] \in Bytes(R * C) /\ Reads(d[f], at, hi, X, R, C)
  BY <1>4, <1>5, Zenon
<1> QED
  BY <1>6 DEF R, C, at, X, hi

(* The input too is read back, as far as there are rows. *)
LEMMA InputIsBack ==
  ASSUME KitAssumption, NEW kind, NEW A, NEW B, NEW K, NEW N, NEW ms, Emits(kind, A, B, K, N, ms),
         NEW d, NEW mt, Describes(mt, kind, K, N), NEW r \in ms,
         AsWritten(d, <<"A", r>>, A, B, K, N)
  PROVE  Agree(InputRead(d, mt, r), A, r, K)
<1> DEFINE f == <<"A", r>>
<1>1. K \in Nat \ {0} /\ KitTile \in Nat \ {0} /\ mt.K = K /\ r \in Nat \ {0}
  BY ShapesAre, TilesAre DEF Emits, Describes
<1>2. f \in PackedFiles(kind, N, ms)
  BY DEF PackedFiles
<1>3. /\ Height(f, K) = r /\ Width(f, K, N) = K /\ Places(f, K, N) = NormalAt(r, K)
      /\ Source(f, A, B) = A /\ HiFirst(f) = FALSE
  BY DEF Height, Width, Places, Source, HiFirst, OfBank
<1>4. AsWritten(d, f, A, B, K, N)
  OBVIOUS
<1> HIDE DEF f
<1>5. Reads(d[f], Places(f, K, N), HiFirst(f), Source(f, A, B), Height(f, K), Width(f, K, N))
  BY <1>2, <1>4, WrittenReads
<1>6. Reads(d[<<"A", r>>], NormalAt(r, K), FALSE, A, r, K)
  BY <1>3, <1>5 DEF f
<1> QED
  BY <1>1, <1>6, InputReadIs

(* So the product of what is read is the product. *)
LEMMA ProductIsBack ==
  ASSUME KitAssumption, NEW kind, NEW A, NEW B, NEW K, NEW N, NEW ms, Emits(kind, A, B, K, N, ms),
         NEW d, NEW mt, Describes(mt, kind, K, N), NEW r \in ms,
         AsWritten(d, <<"B_normal", 0>>, A, B, K, N), AsWritten(d, <<"A", r>>, A, B, K, N)
  PROVE  Product(InputRead(d, mt, r), BankRead(d, mt), r, K, N) = Product(A, B, r, K, N)
<1>1. BankRead(d, mt) = B
  BY BankIsBack
<1>2. Agree(InputRead(d, mt, r), A, r, K)
  BY InputIsBack
<1>3. Product(InputRead(d, mt, r), B, r, K, N) = Product(A, B, r, K, N)
  BY <1>2, SameProduct
<1> QED
  BY <1>1, <1>3

(* The packed files pass,                                                   *)
LEMMA PackedPass ==
  ASSUME KitAssumption, NEW kind, NEW A, NEW B, NEW K, NEW N, NEW ms, Emits(kind, A, B, K, N, ms),
         NEW d, NEW mt, Describes(mt, kind, K, N), NEW f \in PackedFiles(kind, N, ms),
         f[1] \notin {"B_normal", "A"}, AsWritten(d, f, A, B, K, N),
         OfBank(f) => AsWritten(d, <<"B_normal", 0>>, A, B, K, N),
         ~OfBank(f) => AsWritten(d, <<"A", f[2]>>, A, B, K, N)
  PROVE  ~Fails(d, mt, f)
<1>1. Reads(d[f], Places(f, K, N), HiFirst(f), Source(f, A, B), Height(f, K), Width(f, K, N))
  BY WrittenReads
<1>2. CASE OfBank(f)
  <2>1. BankRead(d, mt) = B
    BY <1>2, BankIsBack
  <2>2. Source(f, A, B) = BankRead(d, mt)
    BY <1>2, <2>1 DEF Source
  <2> QED
    BY <1>1, <1>2, <2>2, FailsPacked
<1>3. CASE ~OfBank(f)
  <2>1. f[2] \in ms
    BY <1>3, BankTiles DEF PackedFiles
  <2>2. Height(f, K) = f[2] /\ Width(f, K, N) = K /\ Source(f, A, B) = A
    BY <1>3 DEF Height, Width, Source
  <2>3. Agree(InputRead(d, mt, f[2]), A, f[2], K)
    BY <1>3, <2>1, InputIsBack
  <2>4. Reads(d[f], Places(f, K, N), HiFirst(f), InputRead(d, mt, f[2]), Height(f, K), Width(f, K, N))
    BY <1>1, <2>2, <2>3 DEF Reads, Agree
  <2> QED
    BY <1>3, <2>4, FailsPacked
<1> QED
  BY <1>2, <1>3

(* and of the products, those that fit int16. *)
LEMMA ProductsPass ==
  ASSUME KitAssumption, NEW kind, NEW A, NEW B, NEW K, NEW N, NEW ms, Emits(kind, A, B, K, N, ms),
         NEW d, NEW mt, Describes(mt, kind, K, N), NEW r \in ms,
         AsWritten(d, <<"B_normal", 0>>, A, B, K, N), AsWritten(d, <<"A", r>>, A, B, K, N)
  PROVE  /\ AsWritten(d, <<"C_i32", r>>, A, B, K, N) => ~Fails(d, mt, <<"C_i32", r>>)
         /\ AsWritten(d, <<"C_nat", r>>, A, B, K, N) =>
              (Fails(d, mt, <<"C_nat", r>>) <=> ~In(Product(A, B, r, K, N), r, N, -IntMax .. IntMax))
<1> DEFINE C == Product(A, B, r, K, N)
           f == <<"C_i32", r>>
           g == <<"C_nat", r>>
           a == Content(f, A, B, K, N)
           b == Content(g, A, B, K, N)
<1>1. /\ <<K, N>> \in KitShapes /\ mt.K = K /\ mt.N = N /\ r \in Nat \ {0} /\ IntMax \in Nat
  BY ShapesAre DEF Emits, Describes
<1>2. C \in [Rows(r) \X Rows(N) -> Int]
  BY EmitsProducts
<1>3. C = Product(InputRead(d, mt, r), BankRead(d, mt), r, K, N)
  BY ProductIsBack
<1>4. Holds(a, NormalAt(r, N), C, r, N) /\ Holds(b, NativeAt(r, N, CTile), Wrapped(C, r, N), r, N)
  BY ProductFiles
<1> HIDE DEF C
<1>5. /\ Fails(d, mt, f) <=> ~Holds(d[f], NormalAt(r, N), C, r, N)
      /\ Fails(d, mt, g) <=>
           ~(Holds(d[g], NativeAt(r, N, CTile), C, r, N) /\ In(C, r, N, -IntMax .. IntMax))
  BY <1>1, <1>3, FailsProducts
<1> HIDE DEF a, b, f, g
<1>6. ASSUME AsWritten(d, f, A, B, K, N) PROVE ~Fails(d, mt, f)
  <2>1. d[f] = a
    BY <1>6 DEF AsWritten, a
  <2> QED
    BY <1>4, <1>5, <2>1
<1>7. ASSUME AsWritten(d, g, A, B, K, N)
      PROVE  Fails(d, mt, g) <=> ~In(C, r, N, -IntMax .. IntMax)
  <2>1. d[g] = b
    BY <1>7 DEF AsWritten, b
  <2>2. \A c \in Rows(r) \X Rows(N) : C[c] \in -IntMax .. IntMax => Wrap(C[c]) = C[c]
    BY <1>1, <1>2, WrapIs
  <2>3. In(C, r, N, -IntMax .. IntMax) => Holds(b, NativeAt(r, N, CTile), C, r, N)
    BY <1>4, <2>2 DEF Holds, Wrapped, In
  <2> QED
    BY <1>5, <2>1, <2>3
<1> QED
  BY <1>6, <1>7 DEF C, f, g

(* The lanes of a kernel-id kit tell their kernels. *)
LEMMA LanesTell ==
  ASSUME KitAssumption, NEW kind, NEW A, NEW B, NEW K, NEW N, NEW ms, Emits(kind, A, B, K, N, ms),
         NEW d, NEW mt, Describes(mt, kind, K, N), kind # "shape",
         AsWritten(d, <<"C_i32", 2>>, A, B, K, N)
  PROVE  ~LanesFail(d, mt)
<1> DEFINE f == <<"C_i32", 2>>
           C == Product(A, B, 2, K, N)
           a == Content(f, A, B, K, N)
<1>1. 2 \in ms /\ mt.M = 2 /\ mt.N = N
  BY DEF Emits, Describes
<1>2. \A c \in Rows(2) \X Rows(N) : C[c] = c[2] - N \div 2
  <2>1. \A i \in Rows(2), n \in Rows(N) : C[<<i, n>>] = n - N \div 2
    BY DEF Emits
  <2>2. \A c \in Rows(2) \X Rows(N) : c[1] \in Rows(2) /\ c[2] \in Rows(N) /\ c = <<c[1], c[2]>>
    OBVIOUS
  <2> HIDE DEF C
  <2> QED
    BY <2>1, <2>2
<1>3. Holds(a, NormalAt(2, N), C, 2, N)
  BY <1>1, ProductFiles
<1> HIDE DEF C
<1>4. d[f] = a
  BY DEF AsWritten
<1> HIDE DEF a, f
<1>5. ASSUME NEW i \in Rows(2), NEW n \in Rows(N) PROVE d[f][AtNormal(N, i, n) + 1] = n - N \div 2
  <2>1. <<i, n>> \in Rows(2) \X Rows(N) /\ <<i, n>>[2] = n
    OBVIOUS
  <2>2. NormalAt(2, N)[<<i, n>>] = AtNormal(N, i, n) + 1
    BY <2>1 DEF NormalAt
  <2>3. a[NormalAt(2, N)[<<i, n>>]] = C[<<i, n>>]
    BY <1>3, <2>1 DEF Holds
  <2>4. C[<<i, n>>] = n - N \div 2
    BY <1>2, <2>1
  <2> QED
    BY <1>4, <2>2, <2>3, <2>4
<1> QED
  BY <1>1, <1>5 DEF LanesFail, f

(* What verify_kit.py says when nothing it reads is damaged.                *)
FilesOf(kind, N, ms) == BFiles(kind, N) \cup ACFiles(ms)

(* The files of a kit: packed ones and products. *)
LEMMA FileKinds ==
  ASSUME NEW kind, NEW N, NEW ms, NEW f \in FilesOf(kind, N, ms)
  PROVE  \/ f \in PackedFiles(kind, N, ms)
         \/ \E r \in ms : f \in {<<"C_i16", r>>, <<"C_i32", r>>, <<"C_nat", r>>}
<1>1. CASE f \in BFiles(kind, N)
  BY <1>1 DEF PackedFiles
<1>2. CASE f \in ACFiles(ms)
  <2>1. PICK x \in {"A", "A_nat", "C_i16", "C_i32", "C_nat"}, r \in ms : f = <<x, r>>
    BY <1>2 DEF ACFiles
  <2> QED
    BY <2>1 DEF PackedFiles
<1> QED
  BY <1>1, <1>2 DEF FilesOf

(* The files that every kit has. *)
LEMMA AllFiles ==
  ASSUME NEW kind, NEW N, NEW ms, NEW r \in ms
  PROVE  /\ <<"B_normal", 0>> \in FilesOf(kind, N, ms)
         /\ <<"A", r>> \in FilesOf(kind, N, ms) /\ <<"A_nat", r>> \in FilesOf(kind, N, ms)
         /\ <<"C_i32", r>> \in FilesOf(kind, N, ms) /\ <<"C_nat", r>> \in FilesOf(kind, N, ms)
  BY DEF FilesOf, BFiles, ACFiles

(* An undamaged kit passes when its products fit, and only then. *)
LEMMA Verdict ==
  ASSUME KitAssumption, NEW kind, NEW A, NEW B, NEW K, NEW N, NEW ms, Emits(kind, A, B, K, N, ms),
         NEW d, NEW mt, Describes(mt, kind, K, N), DOMAIN d = FilesOf(kind, N, ms),
         \A f \in FilesOf(kind, N, ms) : f[1] # "C_i16" => AsWritten(d, f, A, B, K, N)
  PROVE  Failed(d, mt) = {} <=> Fit(A, B, K, N, ms)
<1>1. AsWritten(d, <<"B_normal", 0>>, A, B, K, N)
  BY DEF FilesOf, BFiles
<1>2. ASSUME NEW r \in ms
      PROVE  /\ AsWritten(d, <<"A", r>>, A, B, K, N) /\ AsWritten(d, <<"C_i32", r>>, A, B, K, N)
             /\ AsWritten(d, <<"C_nat", r>>, A, B, K, N)
  BY AllFiles
<1>3. ASSUME NEW f \in PackedFiles(kind, N, ms) PROVE ~Fails(d, mt, f)
  <2>1. CASE f[1] \in {"B_normal", "A"}
    BY <2>1, FailsNone
  <2>2. CASE f[1] \notin {"B_normal", "A"}
    <3>1. f \in FilesOf(kind, N, ms) /\ f[1] # "C_i16"
      BY BankTiles DEF PackedFiles, FilesOf, ACFiles
    <3>2. AsWritten(d, f, A, B, K, N)
      BY <3>1
    <3>3. ~OfBank(f) => f[2] \in ms
      BY BankTiles DEF PackedFiles
    <3> QED
      BY <1>1, <1>2, <2>2, <3>2, <3>3, PackedPass
  <2> QED
    BY <2>1, <2>2
<1>4. ASSUME NEW r \in ms
      PROVE  /\ ~Fails(d, mt, <<"C_i16", r>>) /\ ~Fails(d, mt, <<"C_i32", r>>)
             /\ Fails(d, mt, <<"C_nat", r>>) <=> ~In(Product(A, B, r, K, N), r, N, -IntMax .. IntMax)
  <2>1. ~Fails(d, mt, <<"C_i16", r>>)
    <3> DEFINE f == <<"C_i16", r>>
    <3>1. f[1] \in {"B_normal", "A", "C_i16"}
      OBVIOUS
    <3> HIDE DEF f
    <3>2. ~Fails(d, mt, f)
      BY <3>1, FailsNone
    <3> QED
      BY <3>2 DEF f
  <2>2. /\ ~Fails(d, mt, <<"C_i32", r>>)
        /\ Fails(d, mt, <<"C_nat", r>>) <=> ~In(Product(A, B, r, K, N), r, N, -IntMax .. IntMax)
    BY <1>1, <1>2, ProductsPass
  <2> QED
    BY <2>1, <2>2
<1>5. ~LanesFail(d, mt)
  <2>1. CASE kind = "shape"
    BY <2>1 DEF LanesFail, Describes
  <2>2. CASE kind # "shape"
    <3>1. 2 \in ms
      BY <2>2 DEF Emits
    <3> QED
      BY <1>2, <2>2, <3>1, LanesTell
  <2> QED
    BY <2>1, <2>2
<1>6. Failed(d, mt) = {f \in FilesOf(kind, N, ms) : Fails(d, mt, f)}
  BY <1>5 DEF Failed
<1>7. ASSUME Failed(d, mt) = {} PROVE Fit(A, B, K, N, ms)
  BY <1>4, <1>6, <1>7, AllFiles DEF Fit
<1>8. ASSUME Fit(A, B, K, N, ms) PROVE Failed(d, mt) = {}
  <2>1. SUFFICES ASSUME NEW f \in FilesOf(kind, N, ms) PROVE ~Fails(d, mt, f)
    BY <1>6
  <2>2. CASE f \in PackedFiles(kind, N, ms)
    BY <1>3, <2>2
  <2>3. CASE \E r \in ms : f \in {<<"C_i16", r>>, <<"C_i32", r>>, <<"C_nat", r>>}
    <3>1. PICK r \in ms : f \in {<<"C_i16", r>>, <<"C_i32", r>>, <<"C_nat", r>>}
      BY <2>3
    <3>2. In(Product(A, B, r, K, N), r, N, -IntMax .. IntMax)
      BY <1>8 DEF Fit
    <3> QED
      BY <1>4, <3>1, <3>2
  <2> QED
    BY <2>2, <2>3, FileKinds
<1> QED
  BY <1>7, <1>8

(* The int32 goldens show whether the products fit. *)
LEMMA GoldensShow ==
  ASSUME KitAssumption, NEW kind, NEW A, NEW B, NEW K, NEW N, NEW ms, Emits(kind, A, B, K, N, ms),
         NEW d, DOMAIN d = FilesOf(kind, N, ms),
         \A r \in ms : AsWritten(d, <<"C_i32", r>>, A, B, K, N)
  PROVE  (\A f \in DOMAIN d : f[1] = "C_i32" => \A p \in DOMAIN d[f] : d[f][p] \in -IntMax .. IntMax)
           <=> Fit(A, B, K, N, ms)
<1>1. ASSUME NEW r \in ms
      PROVE  (\A p \in DOMAIN d[<<"C_i32", r>>] : d[<<"C_i32", r>>][p] \in -IntMax .. IntMax)
               <=> In(Product(A, B, r, K, N), r, N, -IntMax .. IntMax)
  <2> DEFINE f == <<"C_i32", r>>
             C == Product(A, B, r, K, N)
             a == Content(f, A, B, K, N)
             at == NormalAt(r, N)
  <2>1. a \in [1 .. r * N -> Int] /\ Holds(a, at, C, r, N)
    BY ProductFiles
  <2>2. Inverts(at, Normal(r, N), r, N)
    <3>1. r \in Nat \ {0} /\ N \in Nat \ {0}
      BY ShapesAre DEF Emits
    <3> QED
      BY <3>1, NormalInverts
  <2>3. d[f] = a
    BY DEF AsWritten
  <2> HIDE DEF a, C, at
  <2>4. (\A p \in 1 .. r * N : a[p] \in -IntMax .. IntMax) <=> In(C, r, N, -IntMax .. IntMax)
    <3>1. \A p \in 1 .. r * N : Normal(r, N)[p] \in Rows(r) \X Rows(N) /\ a[p] = C[Normal(r, N)[p]]
      BY <2>1, <2>2 DEF Inverts, Holds
    <3>2. \A c \in Rows(r) \X Rows(N) : at[c] \in 1 .. r * N /\ a[at[c]] = C[c]
      BY <2>1, <2>2 DEF Inverts, Holds
    <3> QED
      BY <3>1, <3>2 DEF In
  <2>5. DOMAIN a = 1 .. r * N
    BY <2>1
  <2> HIDE DEF f
  <2>6. (\A p \in DOMAIN d[f] : d[f][p] \in -IntMax .. IntMax) <=> In(C, r, N, -IntMax .. IntMax)
    BY <2>3, <2>4, <2>5
  <2> QED
    BY <2>6 DEF f, C
<1>2. ASSUME NEW f \in FilesOf(kind, N, ms), f[1] = "C_i32" PROVE \E r \in ms : f = <<"C_i32", r>>
  <2>1. f \notin PackedFiles(kind, N, ms)
    BY <1>2, BankTiles DEF PackedFiles
  <2> QED
    BY <1>2, <2>1, FileKinds
<1>3. \A r \in ms : <<"C_i32", r>> \in FilesOf(kind, N, ms) /\ <<"C_i32", r>>[1] = "C_i32"
  BY AllFiles
<1> QED
  BY <1>1, <1>2, <1>3 DEF Fit

(* One file of a kit went bad at i. *)
BadWord(s, i) == [s EXCEPT ![i] = Wrap(s[i] + 1)]
OneBad(d, g, i, kind, A, B, K, N, ms) ==
  /\ g \in FilesOf(kind, N, ms) /\ DOMAIN d = FilesOf(kind, N, ms)
  /\ i \in DOMAIN Content(g, A, B, K, N)
  /\ \A f \in FilesOf(kind, N, ms) : f # g => AsWritten(d, f, A, B, K, N)
  /\ d[g] = IF g[1] \in {"C_i16", "C_i32", "C_nat"} THEN BadWord(Content(g, A, B, K, N), i)
            ELSE BadByte(Content(g, A, B, K, N), i)

(* A bad packed file does not read as what was written, *)
LEMMA BadMisread ==
  ASSUME KitAssumption, NEW kind, NEW A, NEW B, NEW K, NEW N, NEW ms, Emits(kind, A, B, K, N, ms),
         NEW d, NEW i, NEW g \in PackedFiles(kind, N, ms), OneBad(d, g, i, kind, A, B, K, N, ms)
  PROVE  ~Reads(d[g], Places(g, K, N), HiFirst(g), Source(g, A, B), Height(g, K), Width(g, K, N))
<1> DEFINE R == Height(g, K)
           C == Width(g, K, N)
           at == Places(g, K, N)
           lay == Order(g, K, N)
           X == Source(g, A, B)
           hi == HiFirst(g)
           b == Content(g, A, B, K, N)
<1>1. /\ R \in Nat /\ C \in Nat /\ (R * C) % 2 = 0 /\ Inverts(at, lay, R, C)
      /\ In(X, R, C, -8 .. 7) /\ b = Pack(Stored(lay, X), hi)
  BY FileInverts
<1>2. hi \in BOOLEAN
  BY DEF HiFirst
<1>3. d[g] = BadByte(b, i) /\ i \in DOMAIN b
  BY BankTiles DEF OneBad, PackedFiles
<1> HIDE DEF R, C, at, lay, X, hi, b
<1>4. b \in Bytes(R * C) /\ Reads(b, at, hi, X, R, C)
  <2>1. Pack(Stored(lay, X), hi) \in Bytes(R * C) /\ Reads(Pack(Stored(lay, X), hi), at, hi, X, R, C)
    BY <1>1, <1>2, PackedReads
  <2> QED
    BY <1>1, <2>1
<1>5. i \in 1 .. (R * C) \div 2
  BY <1>3, <1>4 DEF Bytes
<1>6. ~Reads(BadByte(b, i), at, hi, X, R, C)
  BY <1>1, <1>2, <1>4, <1>5, BadByteMisread
<1>7. ~Reads(d[g], at, hi, X, R, C)
  BY <1>3, <1>6, Zenon
<1> QED
  BY <1>7 DEF R, C, at, X, hi

(* There is a tiling the bank is written in. *)
LEMMA SomeTiling ==
  ASSUME KitAssumption, NEW kind, NEW A, NEW B, NEW K, NEW N, NEW ms, Emits(kind, A, B, K, N, ms)
  PROVE  \E t : <<"B_nat", t>> \in BFiles(kind, N)
<1>1. CASE kind = "ksweep"
  BY <1>1 DEF BFiles, Emits
<1>2. CASE kind # "ksweep"
  <2>1. \E t \in NTiles : N % t = 0
    BY ShapesAre DEF Emits
  <2> QED
    BY <1>2, <2>1 DEF BFiles
<1> QED
  BY <1>1, <1>2

(* so that a file fails: itself, or of the row-major ones a native one. *)
LEMMA BadBankFails ==
  ASSUME KitAssumption, NEW kind, NEW A, NEW B, NEW K, NEW N, NEW ms, Emits(kind, A, B, K, N, ms),
         NEW d, NEW mt, Describes(mt, kind, K, N),
         NEW i, NEW g \in PackedFiles(kind, N, ms), OneBad(d, g, i, kind, A, B, K, N, ms), OfBank(g)
  PROVE  \E f \in FilesOf(kind, N, ms) : Fails(d, mt, f)
<1>1. g \in BFiles(kind, N)
  BY DEF PackedFiles, OfBank
<1>2. Source(g, A, B) = B /\ Height(g, K) = K /\ Width(g, K, N) = N
  BY DEF Source, Height, Width
<1>3. ~Reads(d[g], Places(g, K, N), HiFirst(g), B, K, N)
  BY <1>2, BadMisread
<1>4. CASE g[1] = "B_normal"
  <2>1. PICK t : <<"B_nat", t>> \in BFiles(kind, N)
    BY SomeTiling
  <2> DEFINE f == <<"B_nat", t>>
  <2>2. /\ g = <<"B_normal", 0>> /\ f # g /\ OfBank(f) /\ f \in PackedFiles(kind, N, ms)
        /\ f \in FilesOf(kind, N, ms) /\ f[1] \notin {"B_normal", "A"}
        /\ Source(f, A, B) = B /\ Height(f, K) = K /\ Width(f, K, N) = N
    BY <1>1, <1>4, <2>1, BankTiles DEF PackedFiles, FilesOf, OfBank, Source, Height, Width
  <2> HIDE DEF f
  <2>3. AsWritten(d, f, A, B, K, N)
    BY <2>2 DEF OneBad
  <2>4. Reads(d[f], Places(f, K, N), HiFirst(f), B, K, N)
    BY <2>2, <2>3, WrittenReads
  <2>5. BankRead(d, mt) # B
    <3>1. Places(g, K, N) = NormalAt(K, N) /\ HiFirst(g) = FALSE
      BY <1>4 DEF Places, HiFirst
    <3>2. ~Reads(d[<<"B_normal", 0>>], NormalAt(K, N), FALSE, B, K, N)
      BY <1>3, <2>2, <3>1
    <3>3. K \in Nat \ {0} /\ N \in Nat \ {0} /\ KitTile \in Nat \ {0} /\ mt.K = K /\ mt.N = N
      BY ShapesAre, TilesAre DEF Emits, Describes
    <3>4. B = [c \in Rows(K) \X Rows(N) |-> B[c]]
      BY DEF Emits
    <3> QED
      BY <3>2, <3>3, <3>4, BankReadIs
  <2>6. ~Reads(d[f], Places(f, K, N), HiFirst(f), BankRead(d, mt), K, N)
    <3> DEFINE Y == BankRead(d, mt)
    <3>1. Y = [c \in Rows(K) \X Rows(N) |-> Y[c]] /\ B = [c \in Rows(K) \X Rows(N) |-> B[c]]
      BY DEF BankRead, Describes, Emits
    <3>2. Y # B
      BY <2>5
    <3> HIDE DEF Y
    <3>3. PICK c \in Rows(K) \X Rows(N) : Y[c] # B[c]
      BY <3>1, <3>2
    <3>4. ~Reads(d[f], Places(f, K, N), HiFirst(f), Y, K, N)
      BY <2>4, <3>3 DEF Reads
    <3> QED
      BY <3>4 DEF Y
  <2>7. Fails(d, mt, f)
    BY <2>2, <2>6, FailsPacked
  <2> QED
    BY <2>2, <2>7
<1>5. CASE g[1] # "B_normal"
  <2>1. AsWritten(d, <<"B_normal", 0>>, A, B, K, N)
    <3>1. <<"B_normal", 0>> \in FilesOf(kind, N, ms) /\ <<"B_normal", 0>> # g
      BY <1>5 DEF FilesOf, BFiles
    <3> QED
      BY <3>1 DEF OneBad
  <2>2. BankRead(d, mt) = B
    BY <2>1, BankIsBack
  <2>3. g[1] \notin {"B_normal", "A"}
    BY <1>5 DEF OfBank
  <2>4. Fails(d, mt, g)
    BY <1>2, <1>3, <2>2, <2>3, FailsPacked
  <2> QED
    BY <2>4 DEF OneBad
<1> QED
  BY <1>4, <1>5

(* The same of the input. *)
LEMMA BadInputFails ==
  ASSUME KitAssumption, NEW kind, NEW A, NEW B, NEW K, NEW N, NEW ms, Emits(kind, A, B, K, N, ms),
         NEW d, NEW mt, Describes(mt, kind, K, N),
         NEW i, NEW g \in PackedFiles(kind, N, ms), OneBad(d, g, i, kind, A, B, K, N, ms), ~OfBank(g)
  PROVE  \E f \in FilesOf(kind, N, ms) : Fails(d, mt, f)
<1>1. PICK r \in ms : g \in {<<"A", r>>, <<"A_nat", r>>}
  BY BankTiles DEF PackedFiles
<1> DEFINE a == <<"A", r>>
           b == <<"A_nat", r>>
<1>2. /\ Height(b, K) = r /\ Width(b, K, N) = K /\ Source(b, A, B) = A /\ ~OfBank(b) /\ b[2] = r
      /\ Height(a, K) = r /\ Width(a, K, N) = K /\ Source(a, A, B) = A /\ ~OfBank(a)
      /\ a # b /\ a \in FilesOf(kind, N, ms) /\ b \in FilesOf(kind, N, ms)
      /\ a \in PackedFiles(kind, N, ms) /\ b \in PackedFiles(kind, N, ms)
      /\ b[1] \notin {"B_normal", "A"} /\ Places(a, K, N) = NormalAt(r, K) /\ HiFirst(a) = FALSE
  BY AllFiles DEF Height, Width, Source, OfBank, PackedFiles, Places, HiFirst
<1> DEFINE Y == InputRead(d, mt, r)
<1>3. Fails(d, mt, b) <=> ~Reads(d[b], Places(b, K, N), HiFirst(b), Y, r, K)
  BY <1>2, FailsPacked
<1>4. Agree(Y, A, r, K) => ((Reads(d[b], Places(b, K, N), HiFirst(b), Y, r, K)
                               <=> Reads(d[b], Places(b, K, N), HiFirst(b), A, r, K)))
  <2> HIDE DEF Y, b
  <2> QED
    BY Zenon DEF Reads, Agree
<1>5. ~Agree(Y, A, r, K) => ~(/\ Reads(d[b], Places(b, K, N), HiFirst(b), Y, r, K)
                              /\ Reads(d[b], Places(b, K, N), HiFirst(b), A, r, K))
  <2> HIDE DEF Y, b
  <2> QED
    BY Zenon DEF Reads, Agree
<1>6. Reads(d[a], NormalAt(r, K), FALSE, A, r, K) <=> Agree(Y, A, r, K)
  <2>1. K \in Nat \ {0} /\ KitTile \in Nat \ {0} /\ mt.K = K /\ r \in Nat \ {0}
    BY ShapesAre, TilesAre DEF Emits, Describes
  <2> QED
    BY <2>1, InputReadIs
<1> HIDE DEF a, b, Y
<1>7. CASE g = a
  <2>1. ~Reads(d[a], NormalAt(r, K), FALSE, A, r, K)
    BY <1>2, <1>7, BadMisread
  <2>2. AsWritten(d, b, A, B, K, N)
    BY <1>2, <1>7 DEF OneBad
  <2>3. Reads(d[b], Places(b, K, N), HiFirst(b), A, r, K)
    BY <1>2, <2>2, WrittenReads
  <2> QED
    BY <1>2, <1>3, <1>5, <1>6, <2>1, <2>3
<1>8. CASE g = b
  <2>1. ~Reads(d[b], Places(b, K, N), HiFirst(b), A, r, K)
    BY <1>2, <1>8, BadMisread
  <2>2. AsWritten(d, a, A, B, K, N)
    BY <1>2, <1>8 DEF OneBad
  <2>3. Reads(d[a], NormalAt(r, K), FALSE, A, r, K)
    BY <1>2, <2>2, WrittenReads
  <2> QED
    BY <1>2, <1>3, <1>4, <1>6, <2>1, <2>3
<1> QED
  BY <1>1, <1>7, <1>8 DEF a, b

(* A bad product fails. *)
LEMMA BadProductFails ==
  ASSUME KitAssumption, NEW kind, NEW A, NEW B, NEW K, NEW N, NEW ms, Emits(kind, A, B, K, N, ms),
         NEW d, NEW mt, Describes(mt, kind, K, N), NEW r \in ms,
         NEW i, NEW g \in {<<"C_i32", r>>, <<"C_nat", r>>}, OneBad(d, g, i, kind, A, B, K, N, ms)
  PROVE  Fails(d, mt, g)
<1> DEFINE C == Product(A, B, r, K, N)
           a == Content(g, A, B, K, N)
<1>1. /\ r \in Nat \ {0} /\ N \in Nat \ {0} /\ CTile \in Nat \ {0} /\ N % CTile = 0 /\ IntMax \in Nat
      /\ <<K, N>> \in KitShapes /\ mt.K = K /\ mt.N = N
  BY ShapesAre, TilesAre DEF Emits, Describes
<1>2. AsWritten(d, <<"B_normal", 0>>, A, B, K, N) /\ AsWritten(d, <<"A", r>>, A, B, K, N)
  <2>1. <<"B_normal", 0>> # g /\ <<"A", r>> # g
    OBVIOUS
  <2> QED
    BY <2>1, AllFiles DEF OneBad
<1>3. C = Product(InputRead(d, mt, r), BankRead(d, mt), r, K, N)
  BY <1>2, ProductIsBack
<1>4. C \in [Rows(r) \X Rows(N) -> Int]
  BY EmitsProducts
<1>5. d[g] = BadWord(a, i) /\ i \in DOMAIN a
  BY DEF OneBad
<1>6. CASE g = <<"C_i32", r>>
  <2>1. a \in [1 .. r * N -> Int] /\ Holds(a, NormalAt(r, N), C, r, N)
    BY <1>6, ProductFiles
  <2>2. Fails(d, mt, g) <=> ~Holds(d[g], NormalAt(r, N), C, r, N)
    BY <1>1, <1>3, <1>6, FailsProducts
  <2>3. Inverts(NormalAt(r, N), Normal(r, N), r, N)
    BY <1>1, NormalInverts
  <2> HIDE DEF a, C
  <2>4. PICK c \in Rows(r) \X Rows(N) : NormalAt(r, N)[c] = i
    BY <1>5, <2>1, <2>3 DEF Inverts
  <2>5. d[g][i] = Wrap(a[i] + 1) /\ a[i] \in Int /\ a[i] = C[c]
    BY <1>5, <2>1, <2>4 DEF BadWord, Holds
  <2>6. d[g][i] # C[c]
    BY <1>1, <2>5, WrapIs
  <2> QED
    BY <2>2, <2>4, <2>6 DEF Holds
<1>7. CASE g = <<"C_nat", r>>
  <2>1. a \in [1 .. r * N -> Int] /\ Holds(a, NativeAt(r, N, CTile), Wrapped(C, r, N), r, N)
    BY <1>7, ProductFiles
  <2>2. Fails(d, mt, g) <=> ~(Holds(d[g], NativeAt(r, N, CTile), C, r, N) /\ In(C, r, N, -IntMax .. IntMax))
    BY <1>1, <1>3, <1>7, FailsProducts
  <2>3. Inverts(NativeAt(r, N, CTile), Native(r, N, CTile), r, N)
    BY <1>1, NativeInverts
  <2> HIDE DEF a, C
  <2>4. PICK c \in Rows(r) \X Rows(N) : NativeAt(r, N, CTile)[c] = i
    BY <1>5, <2>1, <2>3 DEF Inverts
  <2>5. d[g][i] = Wrap(a[i] + 1) /\ a[i] \in Int /\ a[i] = Wrap(C[c])
    BY <1>5, <2>1, <2>4 DEF BadWord, Holds, Wrapped
  <2>6. d[g][i] # a[i]
    BY <1>1, <2>5, WrapIs
  <2>7. C[c] \in -IntMax .. IntMax => a[i] = C[c]
    BY <1>1, <1>4, <2>5, WrapIs
  <2> QED
    BY <2>2, <2>4, <2>6, <2>7 DEF Holds, In
<1> QED
  BY <1>6, <1>7

(* The verdict on a kit with a bad file that is read. *)
LEMMA DamageShows ==
  ASSUME KitAssumption, NEW kind, NEW A, NEW B, NEW K, NEW N, NEW ms, Emits(kind, A, B, K, N, ms),
         NEW d, NEW mt, Describes(mt, kind, K, N),
         NEW g, NEW i, OneBad(d, g, i, kind, A, B, K, N, ms), g[1] # "C_i16"
  PROVE  Failed(d, mt) # {}
<1>1. g \in FilesOf(kind, N, ms) /\ DOMAIN d = FilesOf(kind, N, ms)
  BY DEF OneBad
<1>2. \E f \in FilesOf(kind, N, ms) : Fails(d, mt, f)
  <2>1. CASE g \in PackedFiles(kind, N, ms)
    BY <2>1, BadBankFails, BadInputFails
  <2>2. CASE g \notin PackedFiles(kind, N, ms)
    <3>1. PICK r \in ms : g \in {<<"C_i32", r>>, <<"C_nat", r>>}
      BY <1>1, <2>2, FileKinds
    <3>2. Fails(d, mt, g)
      BY <3>1, BadProductFails
    <3> QED
      BY <1>1, <3>2
  <2> QED
    BY <2>1, <2>2
<1> QED
  BY <1>1, <1>2 DEF Failed

-----------------------------------------------------------------------------
(* The kits that are emitted                                                *)

(* A sum in the order of the indices. *)
LEMMA RowsGrow ==
  ASSUME NEW j \in Nat
  PROVE  Rows(j + 1) \ {j} = Rows(j) /\ j \in Rows(j + 1) /\ Rows(j) \subseteq Rows(j + 1)
  BY DEF Rows

(* A sum over one more index, *)
LEMMA TotalGrows ==
  ASSUME NEW j \in Nat, NEW f, \A k \in Rows(j + 1) : f[k] \in Int
  PROVE  Total([k \in Rows(j + 1) |-> f[k]]) = Total([k \in Rows(j) |-> f[k]]) + f[j]
<1> DEFINE D == Rows(j + 1)
           h == [k \in D |-> f[k]]
           g == [k \in Rows(j) |-> f[k]]
<1>1. D \ {j} = Rows(j) /\ j \in D /\ Rows(j) \subseteq D
  BY RowsGrow
<1>2. IsFiniteSet(D) /\ IsFiniteSet(Rows(j))
  BY RowsFinite
<1>3. h \in [D -> Int] /\ h[j] = f[j]
  BY <1>1
<1>4. Without(h, D, j) = g
  BY <1>1 DEF Without
<1>5. g \in [Rows(j) -> Int]
  BY <1>1
<1>6. Total(g) \in Int
  <2> HIDE DEF g
  <2> QED
    BY <1>2, <1>5, TotalIsInt
<1>7. Total(h) = h[j] + Total(Without(h, D, j))
  <2> HIDE DEF h, D
  <2> QED
    BY <1>1, <1>2, <1>3, TotalOfOneMore
<1>8. Total(h) = f[j] + Total(g)
  BY <1>3, <1>4, <1>7
<1>9. f[j] \in Int
  BY <1>1
<1> HIDE DEF h, g
<1>10. Total(h) = Total(g) + f[j]
  BY <1>6, <1>8, <1>9
<1> QED
  BY <1>10 DEF h, g

(* so that a sum is what its partial sums say. *)
LEMMA SumUpTo ==
  ASSUME NEW n \in Nat, NEW f \in [Rows(n) -> Int], NEW g, g[0] = 0,
         \A j \in Rows(n) : g[j + 1] = g[j] + f[j]
  PROVE  Total(f) = g[n]
<1> DEFINE S(j) == Total([k \in Rows(j) |-> f[k]])
           P == {j \in Nat : j <= n => S(j) = g[j]}
<1>1. 0 \in P
  <2>1. Rows(0) = {}
    BY DEF Rows
  <2> DEFINE h == [k \in Rows(0) |-> f[k]]
  <2>2. h \in [{} -> Int]
    BY <2>1
  <2>3. Total(h) = 0
    <3> HIDE DEF h
    <3> QED
      BY <2>2, TotalOfNone
  <2> QED
    BY <2>3
<1>2. ASSUME NEW j \in Nat, j \in P PROVE j + 1 \in P
  <2>1. SUFFICES ASSUME j + 1 <= n PROVE S(j + 1) = g[j + 1]
    OBVIOUS
  <2>2. j \in Rows(n) /\ S(j) = g[j] /\ \A k \in Rows(j + 1) : k \in Rows(n)
    BY <1>2, <2>1 DEF Rows
  <2>3. \A k \in Rows(j + 1) : f[k] \in Int
    BY <2>2
  <2>4. S(j + 1) = S(j) + f[j]
    BY <2>3, TotalGrows
  <2> HIDE DEF S
  <2> QED
    BY <2>2, <2>4
<1>3. \A j \in Nat : j \in P
  <2> HIDE DEF P
  <2> QED
    BY <1>1, <1>2, FromZero
<1>4. S(n) = g[n]
  BY <1>3
<1>5. f = [k \in Rows(n) |-> f[k]]
  OBVIOUS
<1> QED
  BY <1>4, <1>5

(* Division of an integer, which may be negative. *)
LEMMA IntDivision ==
  ASSUME NEW g \in Nat \ {0}, NEW n \in Int
  PROVE  n \div g \in Int /\ n % g \in Rows(g) /\ n = (n \div g) * g + (n % g)
<1>1. n \div g \in Int /\ n % g \in 0 .. g - 1 /\ n = (n \div g) * g + (n % g)
  BY Z3
<1> QED
  BY <1>1 DEF Rows

(* encode_sum: the column sums to its target. *)
LEMMA EncodedSumIs ==
  ASSUME NEW K \in Nat \ {0}, NEW t \in Int
  PROVE  EncodedSum(t, K) \in [Rows(K) -> Int] /\ Total(EncodedSum(t, K)) = t
<1> DEFINE q == t \div K
           m == t % K
           f == EncodedSum(t, K)
           g == [j \in 0 .. K |-> j * q + (IF j < m THEN j ELSE m)]
<1>1. q \in Int /\ m \in Rows(K) /\ t = q * K + m
  BY IntDivision
<1>2. f = [k \in Rows(K) |-> q + (IF k < m THEN 1 ELSE 0)]
  BY DEF EncodedSum
<1> HIDE DEF q, m, f
<1>3. m \in Nat /\ m < K
  BY <1>1 DEF Rows
<1>4. f \in [Rows(K) -> Int]
  BY <1>1, <1>2
<1>5. g[0] = 0 /\ g[K] = t
  <2>1. g[0] = 0 * q + (IF 0 < m THEN 0 ELSE m) /\ g[K] = K * q + (IF K < m THEN K ELSE m)
    OBVIOUS
  <2>2. 0 * q = 0 /\ K * q = q * K
    BY <1>1
  <2> HIDE DEF g
  <2> QED
    BY <1>1, <1>3, <2>1, <2>2
<1>6. ASSUME NEW j \in Rows(K) PROVE g[j + 1] = g[j] + f[j]
  <2>1. j \in Nat /\ j + 1 \in 0 .. K /\ j \in 0 .. K
    BY DEF Rows
  <2>2. /\ g[j + 1] = (j + 1) * q + (IF j + 1 < m THEN j + 1 ELSE m)
        /\ g[j] = j * q + (IF j < m THEN j ELSE m) /\ f[j] = q + (IF j < m THEN 1 ELSE 0)
    BY <1>2, <2>1
  <2>3. (j + 1) * q = j * q + q /\ j * q \in Int
    BY <1>1, <2>1
  <2> HIDE DEF g
  <2> QED
    BY <1>1, <1>3, <2>1, <2>2, <2>3
<1> HIDE DEF g
<1>7. Total(f) = g[K]
  BY <1>4, <1>5, <1>6, SumUpTo
<1> QED
  BY <1>4, <1>5, <1>7 DEF f

(* encode_sum_dense too. *)
LEMMA DenseSumIs ==
  ASSUME NEW K \in Nat \ {0}, NEW t \in Int, NEW u \in [Rows(K) -> Int]
  PROVE  DenseSum(t, K, u) \in [Rows(K) -> Int] /\ Total(DenseSum(t, K, u)) = t
<1> DEFINE d == t - Total(u)
           q == d \div K
           m == d % K
           f == DenseSum(t, K, u)
           U(j) == Total([k \in Rows(j) |-> u[k]])
           g == [j \in 0 .. K |-> U(j) + (j * q + (IF j <= K - m THEN 0 ELSE j - (K - m)))]
<1>0. Total(u) \in Int
  BY RowsFinite, TotalIsInt
<1>1. q \in Int /\ m \in Rows(K) /\ d = q * K + m
  <2>1. d \in Int
    BY <1>0
  <2> HIDE DEF d
  <2> QED
    BY <2>1, IntDivision
<1>2. f = [k \in Rows(K) |-> u[k] + q + (IF k >= K - m THEN 1 ELSE 0)]
  BY DEF DenseSum
<1> HIDE DEF q, m, f
<1>3. m \in Nat /\ m < K
  BY <1>1 DEF Rows
<1>4. f \in [Rows(K) -> Int]
  BY <1>1, <1>2
<1>5. \A j \in 0 .. K : U(j) \in Int
  <2>1. SUFFICES ASSUME NEW j \in 0 .. K PROVE U(j) \in Int
    OBVIOUS
  <2> DEFINE h == [k \in Rows(j) |-> u[k]]
  <2>2. h \in [Rows(j) -> Int] /\ j \in Nat
    BY DEF Rows
  <2> HIDE DEF h
  <2>3. Total(h) \in Int
    BY <2>2, RowsFinite, TotalIsInt
  <2> QED
    BY <2>3 DEF h
<1>6. U(0) = 0 /\ U(K) = Total(u)
  <2>1. Rows(0) = {}
    BY DEF Rows
  <2> DEFINE h == [k \in Rows(0) |-> u[k]]
  <2>2. h \in [{} -> Int]
    BY <2>1
  <2>3. Total(h) = 0
    <3> HIDE DEF h
    <3> QED
      BY <2>2, TotalOfNone
  <2>4. [k \in Rows(K) |-> u[k]] = u
    OBVIOUS
  <2> QED
    BY <2>3, <2>4
<1>7. \A j \in Rows(K) : U(j + 1) = U(j) + u[j]
  <2>1. SUFFICES ASSUME NEW j \in Rows(K) PROVE U(j + 1) = U(j) + u[j]
    OBVIOUS
  <2>2. j \in Nat /\ \A k \in Rows(j + 1) : k \in Rows(K)
    BY DEF Rows
  <2>3. \A k \in Rows(j + 1) : u[k] \in Int
    BY <2>2
  <2> QED
    BY <2>2, <2>3, TotalGrows
<1> HIDE DEF U
<1>8. g[0] = 0 /\ g[K] = t
  <2>1. /\ g[0] = U(0) + (0 * q + (IF 0 <= K - m THEN 0 ELSE 0 - (K - m)))
        /\ g[K] = U(K) + (K * q + (IF K <= K - m THEN 0 ELSE K - (K - m)))
    OBVIOUS
  <2>2. 0 * q = 0 /\ K * q = q * K /\ q * K \in Int
    BY <1>1
  <2> HIDE DEF g
  <2>3. (IF K <= K - m THEN 0 ELSE K - (K - m)) = m /\ (IF 0 <= K - m THEN 0 ELSE 0 - (K - m)) = 0
    BY <1>3
  <2>4. Total(u) + d = t
    BY <1>0
  <2> HIDE DEF d
  <2> QED
    BY <1>0, <1>1, <1>3, <1>6, <2>1, <2>2, <2>3, <2>4
<1>9. ASSUME NEW j \in Rows(K) PROVE g[j + 1] = g[j] + f[j]
  <2>1. j \in Nat /\ j + 1 \in 0 .. K /\ j \in 0 .. K
    BY DEF Rows
  <2>2. /\ g[j + 1] = U(j + 1) + ((j + 1) * q + (IF j + 1 <= K - m THEN 0 ELSE (j + 1) - (K - m)))
        /\ g[j] = U(j) + (j * q + (IF j <= K - m THEN 0 ELSE j - (K - m)))
        /\ f[j] = u[j] + q + (IF j >= K - m THEN 1 ELSE 0)
    BY <1>2, <2>1
  <2>3. (j + 1) * q = j * q + q /\ j * q \in Int
    BY <1>1, <2>1
  <2>4. U(j + 1) = U(j) + u[j] /\ U(j) \in Int /\ u[j] \in Int
    BY <1>5, <1>7, <2>1
  <2> DEFINE e == (IF j + 1 <= K - m THEN 0 ELSE (j + 1) - (K - m))
             e0 == (IF j <= K - m THEN 0 ELSE j - (K - m))
             e1 == (IF j >= K - m THEN 1 ELSE 0)
  <2>5. e = e0 + e1 /\ e \in Int /\ e0 \in Int /\ e1 \in Int
    BY <1>3, <2>1
  <2>6. /\ g[j + 1] = U(j + 1) + ((j + 1) * q + e)
        /\ g[j] = U(j) + (j * q + e0)
        /\ f[j] = u[j] + q + e1
    BY <2>2
  <2> HIDE DEF g, e, e0, e1
  <2> QED
    BY <1>1, <2>3, <2>4, <2>5, <2>6
<1> HIDE DEF g
<1>10. Total(f) = g[K]
  BY <1>4, <1>8, <1>9, SumUpTo
<1> QED
  BY <1>4, <1>8, <1>10 DEF f

(* A pair is finite. *)
LEMMA PairFinite ==
  ASSUME NEW a, NEW b
  PROVE  IsFiniteSet({a, b})
<1>1. IsFiniteSet({a})
  BY FS_Singleton
<1>2. IsFiniteSet({a} \cup {b})
  BY <1>1, FS_AddElement
<1>3. {a, b} = {a} \cup {b}
  OBVIOUS
<1> QED
  BY <1>2, <1>3

(* The spread of the dense values is positive. *)
LEMMA SpreadIs ==
  ASSUME NEW K \in Nat \ {0}, NEW N \in Nat \ {0}
  PROVE  Spread(K, N) \in Int /\ Spread(K, N) >= 1
<1> DEFINE h == [n \in Rows(N) |-> Abs((n - N \div 2) \div K)]
           S == {Abs((n - N \div 2) \div K) : n \in Rows(N)}
           T == {4, 6 - (Max(S) + 1)}
           V == {1, Min(T)}
<1>1. \A n \in Rows(N) : Abs((n - N \div 2) \div K) \in Int
  <2>1. SUFFICES ASSUME NEW n \in Rows(N) PROVE Abs((n - N \div 2) \div K) \in Int
    OBVIOUS
  <2> DEFINE x == n - N \div 2
             y == x \div K
  <2>2. x \in Int
    BY DEF Rows
  <2>3. y \in Int
    <3> HIDE DEF x
    <3> QED
      BY <2>2, IntDivision
  <2> HIDE DEF y
  <2>4. Abs(y) \in Int
    BY <2>3 DEF Abs
  <2> QED
    BY <2>4 DEF y
<1>2. S \subseteq Int /\ S # {}
  <2>1. 0 \in Rows(N)
    BY DEF Rows
  <2> QED
    BY <1>1, <2>1
<1>3. IsFiniteSet(S)
  <2>1. h \in Surjection(Rows(N), S)
    BY DEF Surjection
  <2> HIDE DEF h, S
  <2> QED
    BY <2>1, RowsFinite, FS_Surjection
<1> HIDE DEF S
<1>4. Max(S) \in Int
  BY <1>2, <1>3, MaxIs
<1>5. T \subseteq Int /\ T # {} /\ IsFiniteSet(T)
  <2>1. IsFiniteSet(T)
    BY PairFinite, Zenon
  <2> QED
    BY <1>4, <2>1
<1> HIDE DEF T
<1>6. Min(T) \in Int
  BY <1>5, MinIs
<1>7. V \subseteq Int /\ V # {} /\ IsFiniteSet(V) /\ 1 \in V
  <2>1. IsFiniteSet(V)
    BY PairFinite, Zenon
  <2> QED
    BY <1>6, <2>1
<1> HIDE DEF V
<1>8. Max(V) \in Int /\ 1 <= Max(V)
  BY <1>7, MaxIs
<1>9. Spread(K, N) = Max(V)
  BY DEF Spread, V, T, S
<1> QED
  BY <1>8, <1>9

(* The bank of a kernel-id kit: column n sums to n - N \div 2. *)
LEMMA SumBankIs ==
  ASSUME NEW K \in Nat \ {0}, NEW N \in Nat \ {0}, NEW dense, NEW n \in Rows(N), NEW B,
         B = SumBank(K, N, dense)
  PROVE  /\ [k \in Rows(K) |-> B[<<k, n>>]] \in [Rows(K) -> Int]
         /\ Total([k \in Rows(K) |-> B[<<k, n>>]]) = n - N \div 2
<1> DEFINE s == Spread(K, N)
           t == n - N \div 2
           u == [k \in Rows(K) |-> ((3 * k + n) % (2 * s + 1)) - s]
           f == IF dense THEN DenseSum(t, K, u) ELSE EncodedSum(t, K)
<1>1. t \in Int /\ n \in Nat
  BY DEF Rows
<1>2. u \in [Rows(K) -> Int]
  <2>1. s \in Int /\ s >= 1
    BY SpreadIs
  <2> HIDE DEF s
  <2>2. 2 * s + 1 \in Nat \ {0}
    BY <2>1
  <2>3. ASSUME NEW k \in Rows(K) PROVE ((3 * k + n) % (2 * s + 1)) - s \in Int
    <3> DEFINE x == 3 * k + n
               m == 2 * s + 1
    <3>1. x \in Int /\ m \in Nat \ {0}
      BY <1>1, <2>2 DEF Rows
    <3> HIDE DEF x, m
    <3>2. x % m \in Rows(m)
      BY <3>1, ModuloInRange
    <3>3. x % m \in Int
      BY <3>2 DEF Rows
    <3>4. (x % m) - s \in Int
      BY <2>1, <3>3
    <3> QED
      BY <3>4 DEF x, m
  <2> QED
    BY <2>3
<1> HIDE DEF u
<1>3. f \in [Rows(K) -> Int] /\ Total(f) = t
  <2>1. DenseSum(t, K, u) \in [Rows(K) -> Int] /\ Total(DenseSum(t, K, u)) = t
    <3> HIDE DEF t
    <3> QED
      BY <1>1, <1>2, DenseSumIs
  <2>2. EncodedSum(t, K) \in [Rows(K) -> Int] /\ Total(EncodedSum(t, K)) = t
    <3> HIDE DEF t
    <3> QED
      BY <1>1, EncodedSumIs
  <2> QED
    BY <2>1, <2>2
<1>4. \A k \in Rows(K) : B[<<k, n>>] = f[k]
  BY DEF SumBank, u
<1> HIDE DEF f, t
<1>5. [k \in Rows(K) |-> B[<<k, n>>]] = f
  BY <1>3, <1>4
<1> QED
  BY <1>3, <1>5 DEF t

(* The kit of a shape, of mixed or of extreme values,                       *)
LEMMA ShapeEmits ==
  ASSUME KitAssumption, NEW K, NEW N, <<K, N>> \in KitShapes, NEW A, NEW B,
         \/ A = Mixed(Max(Ms), K) /\ B = Mixed(K, N)
         \/ A = Extreme(Max(Ms), K) /\ B = Extreme(K, N)
  PROVE  Emits("shape", A, B, K, N, Ms)
<1>1. K \in Nat \ {0} /\ N \in Nat \ {0}
  BY ShapesAre
<1>2. /\ Ms \subseteq Nat \ {0} /\ Ms # {} /\ Max(Ms) \in Nat
      /\ \A r \in Ms : r <= Max(Ms)
  <2>1. Ms \subseteq Nat \ {0} /\ IsFiniteSet(Ms) /\ Ms # {}
    BY DEF KitAssumption
  <2>2. Ms \subseteq Int
    BY <2>1
  <2>3. Max(Ms) \in Ms /\ \A r \in Ms : r <= Max(Ms)
    BY <2>1, <2>2, MaxIs
  <2> QED
    BY <2>1, <2>3
<1>3. ASSUME NEW R \in Nat, NEW C \in Nat, NEW X, X = Mixed(R, C) \/ X = Extreme(R, C)
      PROVE  X \in [Rows(R) \X Rows(C) -> -8 .. 7]
  <2>1. CASE X = Extreme(R, C)
    BY <2>1 DEF Extreme
  <2>2. CASE X = Mixed(R, C)
    <3>1. ASSUME NEW i \in Rows(R), NEW j \in Rows(C)
          PROVE  ((5 * i + 3 * j) % 16) - 8 \in -8 .. 7
      BY DEF Rows
    <3> QED
      BY <2>2, <3>1 DEF Mixed
  <2> QED
    BY <1>3, <2>1, <2>2
<1>4. A \in [Rows(Max(Ms)) \X Rows(K) -> -8 .. 7] /\ B \in [Rows(K) \X Rows(N) -> -8 .. 7]
  BY <1>1, <1>2, <1>3
<1>5. In(B, K, N, -8 .. 7) /\ B = [c \in Rows(K) \X Rows(N) |-> B[c]]
  BY <1>4 DEF In
<1>6. ASSUME NEW r \in Ms PROVE In(A, r, K, -8 .. 7)
  <2>1. Rows(r) \subseteq Rows(Max(Ms))
    BY <1>2 DEF Rows
  <2> QED
    BY <1>4, <2>1 DEF In
<1> QED
  BY <1>2, <1>5, <1>6 DEF Emits

(* and of a kernel id. *)
Ones(K) == [c \in Rows(2) \X Rows(K) |-> 1]

(* A kernel-id kit may be emitted. *)
LEMMA KernelIdEmits ==
  ASSUME KitAssumption, NEW K, NEW N, <<K, N>> \in KitShapes, NEW kind \in {"kernelid", "ksweep"},
         kind = "ksweep" => N % NLead = 0, NEW dense, IsInt4(SumBank(K, N, dense))
  PROVE  Emits(kind, Ones(K), SumBank(K, N, dense), K, N, {2})
<1> DEFINE B == SumBank(K, N, dense)
           A == Ones(K)
<1>1. K \in Nat \ {0} /\ N \in Nat \ {0}
  BY ShapesAre
<1>2. B = [c \in Rows(K) \X Rows(N) |-> B[c]] /\ DOMAIN B = Rows(K) \X Rows(N)
  BY DEF SumBank
<1>3. In(B, K, N, -8 .. 7)
  BY <1>2 DEF In, IsInt4
<1>4. \A n \in Rows(N) : ColumnSum(B, K, n) = n - N \div 2
  BY <1>1, SumBankIs DEF ColumnSum
<1> HIDE DEF B
<1>5. In(A, 2, K, -8 .. 7)
  BY DEF In, Ones
<1>6. ASSUME NEW i \in Rows(2), NEW n \in Rows(N) PROVE Product(A, B, 2, K, N)[<<i, n>>] = n - N \div 2
  <2>1. <<i, n>> \in Rows(2) \X Rows(N)
    OBVIOUS
  <2>2. Product(A, B, 2, K, N)[<<i, n>>] = Total([k \in Rows(K) |-> A[<<i, k>>] * B[<<k, n>>]])
    BY <2>1 DEF Product
  <2>3. \A k \in Rows(K) : A[<<i, k>>] = 1 /\ B[<<k, n>>] \in Int
    BY <1>3 DEF In, Ones
  <2>4. \A k \in Rows(K) : A[<<i, k>>] * B[<<k, n>>] = B[<<k, n>>]
    BY <2>3
  <2>5. [k \in Rows(K) |-> A[<<i, k>>] * B[<<k, n>>]] = [k \in Rows(K) |-> B[<<k, n>>]]
    BY <2>4
  <2> QED
    BY <1>4, <2>2, <2>5 DEF ColumnSum
<1> HIDE DEF A
<1>7. Emits(kind, A, B, K, N, {2})
  <2>1. {2} \subseteq Nat \ {0} /\ {2} # {} /\ kind \in {"shape", "kernelid", "ksweep"}
    OBVIOUS
  <2>2. \A r \in {2} : In(A, r, K, -8 .. 7)
    BY <1>5
  <2>3. B = [c \in Rows(K) \X Rows(N) |-> B[c]]
    BY <1>2
  <2> QED
    BY <1>3, <1>4, <1>6, <2>1, <2>2, <2>3 DEF Emits
<1> QED
  BY <1>7 DEF A, B

-----------------------------------------------------------------------------
(* The invariant                                                            *)

(* A kit of a bank and an input, as written or with one bad file. *)
KitOf(kind, A, B, K, N, ms) ==
  /\ Emits(kind, A, B, K, N, ms) /\ Describes(meta, kind, K, N)
  /\ \/ damage = NoFile /\ kit = Files(kind, A, B, K, N, ms)
     \/ \E i : OneBad(kit, damage, i, kind, A, B, K, N, ms)
  /\ fails \in {NotRun, Failed(kit, meta)}

(* The invariant: there is no kit, or one of some bank and input. *)
KitInv == KitInit \/ \E kind, A, B, K, N, ms : KitOf(kind, A, B, K, N, ms)

(* The files of a kit are as they were written. *)
LEMMA FilesAre ==
  ASSUME NEW kind, NEW A, NEW B, NEW K, NEW N, NEW ms
  PROVE  /\ DOMAIN Files(kind, A, B, K, N, ms) = FilesOf(kind, N, ms)
         /\ \A f \in FilesOf(kind, N, ms) :
              AsWritten(Files(kind, A, B, K, N, ms), f, A, B, K, N)
  BY DEF Files, FilesOf, AsWritten

(* A kit has files. *)
LEMMA KitNotEmpty ==
  ASSUME NEW kind, NEW A, NEW B, NEW K, NEW N, NEW ms, KitOf(kind, A, B, K, N, ms)
  PROVE  kit # << >>
<1>1. DOMAIN kit = FilesOf(kind, N, ms)
  BY FilesAre DEF KitOf, OneBad
<1>2. <<"B_normal", 0>> \in FilesOf(kind, N, ms)
  BY DEF FilesOf, BFiles
<1>3. DOMAIN << >> = {}
  OBVIOUS
<1> QED
  BY <1>1, <1>2, <1>3, Zenon

(* A newly emitted kit. *)
LEMMA NewKit ==
  ASSUME NEW kind, NEW A, NEW B, NEW K, NEW N, NEW ms, Emits(kind, A, B, K, N, ms),
         kit' = Files(kind, A, B, K, N, ms), Describes(meta', kind, K, N),
         damage' = NoFile, fails' = NotRun
  PROVE  KitInv'
  BY DEF KitInv, KitOf

(* NoFile is the name of no file. *)
LEMMA NoFileIsNone ==
  ASSUME KitAssumption, NEW kind, NEW A, NEW B, NEW K, NEW N, NEW ms, Emits(kind, A, B, K, N, ms)
  PROVE  NoFile \notin FilesOf(kind, N, ms)
<1>1. SUFFICES ASSUME NoFile \in FilesOf(kind, N, ms) PROVE FALSE
  OBVIOUS
<1>2. NoFile[1] = "none"
  BY DEF NoFile
<1>3. CASE NoFile \in BFiles(kind, N)
  <2>1. OfBank(NoFile)
    BY <1>3, BankTiles
  <2> QED
    BY <1>2, <2>1 DEF OfBank
<1>4. CASE NoFile \in ACFiles(ms)
  <2>1. NoFile[1] \in {"A", "A_nat", "C_i16", "C_i32", "C_nat"}
    BY <1>4 DEF ACFiles
  <2> QED
    BY <1>2, <2>1
<1> QED
  BY <1>1, <1>3, <1>4 DEF FilesOf

(* Every step keeps it. *)
LEMMA KitInvInductive ==
  ASSUME KitAssumption, KitInv, [KitNext]_kitVars
  PROVE  KitInv'
<1>1. CASE UNCHANGED kitVars
  <2>1. CASE KitInit
    BY <1>1, <2>1 DEF kitVars, KitInit, KitInv
  <2>2. CASE ~KitInit
    BY <1>1, <2>2 DEF kitVars, KitInv, KitOf
  <2> QED
    BY <2>1, <2>2
<1>2. ASSUME kit = << >>, NEW s \in KitShapes, NEW A, NEW B,
             \/ A = Mixed(Max(Ms), s[1]) /\ B = Mixed(s[1], s[2])
             \/ A = Extreme(Max(Ms), s[1]) /\ B = Extreme(s[1], s[2]),
             EmitShape(s[1], s[2], A, B)
      PROVE  KitInv'
  <2>1. <<s[1], s[2]>> \in KitShapes
    BY DEF KitAssumption
  <2>2. Emits("shape", A, B, s[1], s[2], Ms)
    BY <1>2, <2>1, ShapeEmits
  <2>3. damage = NoFile /\ fails = NotRun
    BY <1>2, KitNotEmpty DEF KitInv, KitInit
  <2>4. /\ kit' = Files("shape", A, B, s[1], s[2], Ms) /\ damage' = damage /\ fails' = fails
        /\ meta' = [kind |-> "shape", K |-> s[1], N |-> s[2], M |-> 0]
    BY <1>2 DEF EmitShape
  <2>5. Describes(meta', "shape", s[1], s[2])
    BY <2>4 DEF Describes
  <2> QED
    BY <2>2, <2>3, <2>4, <2>5, NewKit
<1>3. ASSUME NEW s \in KitShapes, NEW kind \in {"kernelid", "ksweep"}, NEW dense,
             kind = "ksweep" => s[2] % NLead = 0, KernelIdKit(kind, s[1], s[2], dense)
      PROVE  KitInv'
  <2>1. <<s[1], s[2]>> \in KitShapes
    BY DEF KitAssumption
  <2>2. /\ kit = << >> /\ IsInt4(SumBank(s[1], s[2], dense)) /\ damage' = damage /\ fails' = fails
        /\ kit' = Files(kind, Ones(s[1]), SumBank(s[1], s[2], dense), s[1], s[2], {2})
        /\ meta' = [kind |-> kind, K |-> s[1], N |-> s[2], M |-> 2]
    BY <1>3 DEF KernelIdKit, Ones
  <2>3. Emits(kind, Ones(s[1]), SumBank(s[1], s[2], dense), s[1], s[2], {2})
    BY <1>3, <2>1, <2>2, KernelIdEmits
  <2>4. damage = NoFile /\ fails = NotRun
    BY <2>2, KitNotEmpty DEF KitInv, KitInit
  <2>5. Describes(meta', kind, s[1], s[2])
    BY <2>2 DEF Describes
  <2> QED
    BY <2>2, <2>3, <2>4, <2>5, NewKit
<1>4. ASSUME NEW f \in DOMAIN kit, NEW i \in DOMAIN kit[f], Damage(f, i) PROVE KitInv'
  <2>1. damage = NoFile /\ fails = NotRun /\ damage' = f /\ meta' = meta /\ fails' = fails
    BY <1>4 DEF Damage
  <2>2. ~KitInit
    <3>1. DOMAIN << >> = {}
      OBVIOUS
    <3> QED
      BY <3>1, Zenon DEF KitInit
  <2>3. PICK kind, A, B, K, N, ms : KitOf(kind, A, B, K, N, ms)
    BY <2>2 DEF KitInv
  <2>4. kit = Files(kind, A, B, K, N, ms)
    <3>1. NoFile \notin FilesOf(kind, N, ms)
      BY <2>3, NoFileIsNone DEF KitOf
    <3> QED
      BY <2>1, <2>3, <3>1 DEF KitOf, OneBad
  <2>5. /\ DOMAIN kit = FilesOf(kind, N, ms)
        /\ \A g \in FilesOf(kind, N, ms) : AsWritten(kit, g, A, B, K, N)
    BY <2>4, FilesAre
  <2>6. kit[f] = Content(f, A, B, K, N) /\ f \in FilesOf(kind, N, ms)
    BY <2>5 DEF AsWritten
  <2>7. PICK v : /\ kit' = [kit EXCEPT ![f][i] = v]
                 /\ v = IF f[1] \in {"C_i16", "C_i32", "C_nat"} THEN Wrap(kit[f][i] + 1)
                        ELSE [kit[f][i] EXCEPT ![1 + (i % 2)] = (@ + 1) % 16]
    BY <1>4 DEF Damage
  <2>8. DOMAIN kit' = DOMAIN kit /\ kit'[f] = [kit[f] EXCEPT ![i] = v]
        /\ \A g \in DOMAIN kit : g # f => kit'[g] = kit[g]
    BY <2>7
  <2>9. kit'[f] = IF f[1] \in {"C_i16", "C_i32", "C_nat"} THEN BadWord(kit[f], i) ELSE BadByte(kit[f], i)
    BY <2>7, <2>8 DEF BadWord, BadByte
  <2>10. \A g \in FilesOf(kind, N, ms) : g # f => AsWritten(kit', g, A, B, K, N)
    BY <2>5, <2>8 DEF AsWritten
  <2>11. OneBad(kit', f, i, kind, A, B, K, N, ms)
    BY <2>5, <2>6, <2>8, <2>9, <2>10 DEF OneBad
  <2> QED
    BY <2>1, <2>3, <2>11 DEF KitInv, KitOf
<1>5. ASSUME Verify PROVE KitInv'
  BY <1>5 DEF Verify, KitInv, KitOf, KitInit
<1>6. ASSUME NEW fl, NEW native, NEW form, meta.M = 2, RunBoard(fl, native, form) PROVE KitInv'
  <2>1. ~KitInit
    BY <1>6 DEF KitInit, NoMeta
  <2> QED
    BY <1>6, <2>1 DEF RunBoard, KitInv, KitOf
<1>7. ASSUME Classify PROVE KitInv'
  <2>1. ~KitInit
    BY <1>7 DEF KitInit, Classify
  <2> QED
    BY <1>7, <2>1 DEF Classify, KitInv, KitOf
<1> QED
  <2>1. CASE \E s \in KitShapes :
              \/ EmitShape(s[1], s[2], Mixed(Max(Ms), s[1]), Mixed(s[1], s[2]))
              \/ EmitShape(s[1], s[2], Extreme(Max(Ms), s[1]), Extreme(s[1], s[2]))
    BY <1>2, <2>1 DEF EmitShape
  <2>2. CASE \E s \in KitShapes :
              \/ EmitKernelId(s[1], s[2])
              \/ \E dense \in BOOLEAN : EmitKSweep(s[1], s[2], dense)
    BY <1>3, <2>2 DEF EmitKernelId, EmitKSweep
  <2> QED
    BY <1>1, <1>4, <1>5, <1>6, <1>7, <2>1, <2>2 DEF KitNext

(* It implies that damage is caught. *)
LEMMA KitInvCatches ==
  ASSUME KitAssumption, KitInv
  PROVE  CatchesDamage
<1>1. SUFFICES ASSUME fails # NotRun PROVE CatchesDamage
  BY DEF CatchesDamage
<1>2. PICK kind, A, B, K, N, ms : KitOf(kind, A, B, K, N, ms)
  BY <1>1 DEF KitInv, KitInit
<1> DEFINE Low == \A f \in DOMAIN kit : f[1] = "C_i32" =>
                    \A p \in DOMAIN kit[f] : kit[f][p] \in -IntMax .. IntMax
<1>3. /\ Emits(kind, A, B, K, N, ms) /\ Describes(meta, kind, K, N) /\ fails = Failed(kit, meta)
  BY <1>1, <1>2 DEF KitOf
<1>4. ASSUME damage[1] \in {"none", "C_i16"}, DOMAIN kit = FilesOf(kind, N, ms),
             \A f \in FilesOf(kind, N, ms) : f[1] # "C_i16" => AsWritten(kit, f, A, B, K, N)
      PROVE  fails = {} <=> Low
  <2>1. Failed(kit, meta) = {} <=> Fit(A, B, K, N, ms)
    BY <1>3, <1>4, Verdict
  <2>2. \A r \in ms : AsWritten(kit, <<"C_i32", r>>, A, B, K, N)
    BY <1>4, AllFiles
  <2>3. Low <=> Fit(A, B, K, N, ms)
    BY <1>3, <1>4, <2>2, GoldensShow
  <2> QED
    BY <1>3, <2>1, <2>3
<1>5. CASE damage = NoFile /\ kit = Files(kind, A, B, K, N, ms)
  <2>1. damage[1] = "none"
    BY <1>5 DEF NoFile
  <2>2. fails = {} <=> Low
    BY <1>4, <1>5, <2>1, FilesAre
  <2> HIDE DEF Low
  <2>3. CatchesDamage <=> (fails = {} <=> damage[1] \in {"none", "C_i16"} /\ Low)
    BY <1>1 DEF CatchesDamage, Low
  <2> QED
    BY <2>1, <2>2, <2>3
<1>6. ASSUME NEW i, OneBad(kit, damage, i, kind, A, B, K, N, ms) PROVE CatchesDamage
  <2>1. CatchesDamage <=> (fails = {} <=> damage[1] \in {"none", "C_i16"} /\ Low)
    BY <1>1 DEF CatchesDamage, Low
  <2> HIDE DEF Low
  <2>2. CASE damage[1] = "C_i16"
    <3>1. DOMAIN kit = FilesOf(kind, N, ms) /\
          \A f \in FilesOf(kind, N, ms) : f[1] # "C_i16" => AsWritten(kit, f, A, B, K, N)
      BY <1>6, <2>2 DEF OneBad
    <3> QED
      BY <1>4, <2>1, <2>2, <3>1
  <2>3. CASE damage[1] # "C_i16"
    <3>1. fails # {}
      BY <1>3, <1>6, <2>3, DamageShows
    <3>2. damage[1] # "none"
      <4>1. damage \in FilesOf(kind, N, ms)
        BY <1>6 DEF OneBad
      <4> QED
        BY <1>3, <4>1, FileKinds, BankTiles DEF PackedFiles, OfBank
    <3> QED
      BY <2>1, <2>3, <3>1, <3>2
  <2> QED
    BY <2>2, <2>3
<1> QED
  BY <1>2, <1>5, <1>6 DEF KitOf

(* verify_kit.py passes exactly the kits that are as they were written and  *)
(* whose products fit int16, save the goldens it does not read.             *)
THEOREM DamageCaught ==
  ASSUME KitAssumption
  PROVE  KitSpec => []CatchesDamage
<1>1. KitInit => KitInv
  BY DEF KitInv
<1>2. KitInv /\ [KitNext]_kitVars => KitInv'
  BY KitInvInductive
<1>3. KitInv => CatchesDamage
  BY KitInvCatches
<1> QED
  BY <1>1, <1>2, <1>3, PTL DEF KitSpec

-----------------------------------------------------------------------------
(* A bank read on the board                                                 *)

(* The other nibble of a byte: it is in the same tile. *)
Other(i) == IF i % 2 = 0 THEN i + 1 ELSE i - 1

(* The other nibble: of the same byte, and its other is the first. *)
LEMMA OtherIs ==
  ASSUME NEW i \in Nat
  PROVE  /\ Other(i) \in Nat /\ Other(Other(i)) = i /\ Other(i) # i
         /\ Other(i) \div 2 = i \div 2 /\ (Other(i) % 2 = 0 <=> i % 2 # 0)
  BY DEF Other

(* It stays in a tile of an even number of rows. *)
LEMMA OtherInTile ==
  ASSUME NEW g \in Nat \ {0}, g % 2 = 0, NEW a \in Nat, NEW r \in Rows(g)
  PROVE  Other(r) \in Rows(g) /\ Other(a * g + r) = a * g + Other(r)
<1> DEFINE m == g \div 2
<1>1. m \in Nat /\ g = 2 * m
  OBVIOUS
<1>2. PICK z \in Nat : z = a * m
  BY <1>1
<1>3. a * g = 2 * z
  BY <1>1, <1>2
<1>4. r \in Nat /\ r < g
  BY DEF Rows
<1> HIDE DEF m
<1>5. Other(r) \in Rows(g)
  BY <1>1, <1>4 DEF Other, Rows
<1>6. Other(2 * z + r) = 2 * z + Other(r)
  BY <1>2, <1>4 DEF Other
<1> QED
  BY <1>3, <1>5, <1>6

(* Nibbles swapped, the other is read. *)
LEMMA OtherNibble ==
  ASSUME NEW b, NEW i \in Nat
  PROVE  Nibble(b, Other(i), TRUE) = Nibble(b, i, FALSE)
  BY OtherIs DEF Nibble

(* The row that is read in the place of row k. *)
Turned(swap, k) == IF swap THEN Other(k) ELSE k

(* It is a row, and it is exchanged with the first. *)
LEMMA TurnedIs ==
  ASSUME NEW K \in Nat \ {0}, K % 2 = 0, NEW swap \in BOOLEAN, NEW k \in Rows(K)
  PROVE  Turned(swap, k) \in Rows(K) /\ Turned(swap, Turned(swap, k)) = k
<1>1. k \in Nat
  BY DEF Rows
<1>2. Other(k) \in Rows(K)
  BY OtherInTile
<1> QED
  BY <1>1, <1>2, OtherIs DEF Turned

(* The other row of a tile is stored in the other nibble. *)
LEMMA OtherPlace ==
  ASSUME KitTile \in Nat \ {0}, KitTile % 2 = 0, NEW K \in Nat \ {0}, K % KitTile = 0,
         NEW h \in Nat \ {0}, NEW k \in Nat, NEW n \in Nat
  PROVE  /\ AtBNative(K, h, k, n) \in Nat
         /\ AtBNative(K, h, Other(k), n) = Other(AtBNative(K, h, k, n))
<1> DEFINE a == k \div KitTile
           r == k % KitTile
           X == ((n \div h) * (K \div KitTile) + a) * h + (n % h)
<1>1. a \in Nat /\ r \in Rows(KitTile) /\ k = a * KitTile + r
  BY Division
<1>2. X \in Nat
  <2>1. n \div h \in Nat /\ n % h \in Nat
    BY Division DEF Rows
  <2>2. K \div KitTile \in Nat
    BY Division
  <2> QED
    BY <1>1, <2>1, <2>2
<1>3. AtBNative(K, h, k, n) = X * KitTile + r
  BY DEF AtBNative
<1>4. Other(r) \in Rows(KitTile) /\ Other(k) = a * KitTile + Other(r) /\ Other(X * KitTile + r) = X * KitTile + Other(r)
  <2> HIDE DEF X, a, r
  <2>1. Other(r) \in Rows(KitTile) /\ Other(a * KitTile + r) = a * KitTile + Other(r)
    BY <1>1, OtherInTile
  <2>2. Other(X * KitTile + r) = X * KitTile + Other(r)
    BY <1>1, <1>2, OtherInTile
  <2>3. Other(k) = a * KitTile + Other(r)
    BY <1>1, <2>1
  <2> QED
    BY <2>1, <2>2, <2>3
<1>5. Other(k) \div KitTile = a /\ Other(k) % KitTile = Other(r)
  <2> DEFINE o == Other(r)
  <2>1. o \in Rows(KitTile) /\ Other(k) = a * KitTile + o
    BY <1>4
  <2> HIDE DEF a, r, o
  <2>2. (a * KitTile + o) \div KitTile = a /\ (a * KitTile + o) % KitTile = o
    BY <1>1, <2>1, Digits
  <2>3. Other(k) \div KitTile = a /\ Other(k) % KitTile = o
    BY <2>1, <2>2
  <2> QED
    BY <2>3 DEF o
<1>6. AtBNative(K, h, Other(k), n) = X * KitTile + Other(r)
  BY <1>5 DEF AtBNative
<1>7. X * KitTile + r \in Nat
  BY <1>1, <1>2 DEF Rows
<1> QED
  BY <1>3, <1>4, <1>6, <1>7

(* The bytes of the bank in tiling nt. *)
BankBytes(K, N, nt, B) == Pack(Stored(BNative(K, N, nt), B), FALSE)

(* Lane n of a bank of tiling h that is read as one sums up column n.       *)
LEMMA OwnTiling ==
  ASSUME KitAssumption, NEW K, NEW N, <<K, N>> \in KitShapes, NEW B, In(B, K, N, -8 .. 7),
         NEW h \in Nat \ {0}, N % h = 0, NEW swap \in BOOLEAN, NEW n \in Rows(N),
         NEW b, b = BankBytes(K, N, h, B)
  PROVE  LaneSum(b, K, N, h, swap, n) = ColumnSum(B, K, n)
<1> DEFINE lay == BNative(K, N, h)
           at  == BNativeAt(K, N, h)
           E   == {q \in DOMAIN lay : lay[q][2] = n}
           g   == [p \in E |-> Nibble(b, p - 1, swap)]
           f   == [k \in Rows(K) |-> B[<<k, n>>]]
           w   == [k \in Rows(K) |-> at[<<Turned(swap, k), n>>]]
<1>1. /\ K \in Nat \ {0} /\ N \in Nat \ {0} /\ K % KitTile = 0 /\ K % 2 = 0 /\ N % 2 = 0
      /\ KitTile \in Nat \ {0} /\ KitTile % 2 = 0
  BY ShapesAre DEF KitAssumption
<1>2. Inverts(at, lay, K, N)
  BY <1>1, BNativeInverts
<1>3. Reads(b, at, FALSE, B, K, N)
  <2>1. (K * N) % 2 = 0
    BY <1>1, EvenTimes
  <2> HIDE DEF lay, at
  <2>2. b = Pack(Stored(lay, B), FALSE)
    BY DEF lay, BankBytes
  <2> QED
    BY <1>1, <1>2, <2>1, <2>2, PackedReads
<1>4. \A k \in Rows(K) : /\ Turned(swap, k) \in Rows(K) /\ Turned(swap, Turned(swap, k)) = k
  BY <1>1, TurnedIs
<1>5. \A k \in Rows(K) : Nibble(b, at[<<Turned(swap, k), n>>] - 1, swap) = B[<<k, n>>]
  <2> SUFFICES ASSUME NEW k \in Rows(K)
               PROVE  Nibble(b, at[<<Turned(swap, k), n>>] - 1, swap) = B[<<k, n>>]
    OBVIOUS
  <2>1. k \in Nat /\ n \in Nat
    BY DEF Rows
  <2>2. at[<<k, n>>] - 1 = AtBNative(K, h, k, n)
    BY <1>1, PlacesAre
  <2>3. at[<<Turned(swap, k), n>>] - 1 = AtBNative(K, h, Turned(swap, k), n)
    BY <1>1, <1>4, PlacesAre
  <2>4. Nibble(b, at[<<k, n>>] - 1, FALSE) = B[<<k, n>>]
    BY <1>3 DEF Reads
  <2> HIDE DEF at
  <2>5. CASE swap
    <3>1. /\ AtBNative(K, h, k, n) \in Nat
          /\ AtBNative(K, h, Other(k), n) = Other(AtBNative(K, h, k, n))
      BY <1>1, <2>1, OtherPlace
    <3>2. Nibble(b, Other(AtBNative(K, h, k, n)), TRUE) = Nibble(b, AtBNative(K, h, k, n), FALSE)
      BY <3>1, OtherNibble
    <3>3. Turned(swap, k) = Other(k) /\ swap = TRUE
      BY <2>5 DEF Turned
    <3> QED
      BY <2>2, <2>3, <2>4, <3>1, <3>2, <3>3
  <2>6. CASE ~swap
    BY <2>4, <2>6 DEF Turned
  <2> QED
    BY <2>5, <2>6
<1>6. f \in [Rows(K) -> Int]
  <2>1. \A k \in Rows(K) : B[<<k, n>>] \in Int
    BY DEF In
  <2> QED
    BY <2>1
<1>7. w \in [Rows(K) -> E]
  <2>1. \A k \in Rows(K) : at[<<Turned(swap, k), n>>] \in 1 .. K * N /\ lay[at[<<Turned(swap, k), n>>]] = <<Turned(swap, k), n>>
    <3> HIDE DEF at, lay
    <3> QED
      BY <1>2, <1>4 DEF Inverts
  <2>2. DOMAIN lay = 1 .. K * N
    <3> HIDE DEF at, lay
    <3> QED
      BY <1>2 DEF Inverts
  <2> HIDE DEF at, lay
  <2> QED
    BY <2>1, <2>2
<1>8. \A k \in Rows(K) : w[k] = at[<<Turned(swap, k), n>>]
  OBVIOUS
<1>9. \A e \in E : \E k \in Rows(K) : w[k] = e
  <2> SUFFICES ASSUME NEW e \in E PROVE \E k \in Rows(K) : w[k] = e
    OBVIOUS
  <2> HIDE DEF at, lay
  <2>1. /\ e \in 1 .. K * N /\ lay[e] \in Rows(K) \X Rows(N) /\ lay[e][2] = n /\ at[lay[e]] = e
    BY <1>2 DEF Inverts
  <2>2. PICK k \in Rows(K) : lay[e] = <<k, n>>
    BY <2>1
  <2>3. w[Turned(swap, k)] = e
    BY <1>4, <1>8, <2>1, <2>2
  <2> QED
    BY <1>4, <2>3
<1>10. \A c, d \in Rows(K) : w[c] = w[d] => c = d
  <2> SUFFICES ASSUME NEW c \in Rows(K), NEW d \in Rows(K), w[c] = w[d] PROVE c = d
    OBVIOUS
  <2> HIDE DEF at, lay
  <2>1. lay[at[<<Turned(swap, c), n>>]] = <<Turned(swap, c), n>> /\ lay[at[<<Turned(swap, d), n>>]] = <<Turned(swap, d), n>>
    BY <1>2, <1>4 DEF Inverts
  <2>2. at[<<Turned(swap, c), n>>] = at[<<Turned(swap, d), n>>]
    BY <1>8
  <2>3. Turned(swap, c) = Turned(swap, d)
    BY <2>1, <2>2
  <2>4. Turned(swap, Turned(swap, c)) = Turned(swap, Turned(swap, d))
    BY <2>3
  <2> QED
    BY <1>4, <2>4
<1>11. \A k \in Rows(K) : f[k] = g[w[k]]
  <2> SUFFICES ASSUME NEW k \in Rows(K) PROVE f[k] = g[w[k]]
    OBVIOUS
  <2>1. w[k] \in E
    BY <1>7
  <2>2. g[w[k]] = Nibble(b, w[k] - 1, swap)
    <3> HIDE DEF E, w
    <3> QED
      BY <2>1
  <2>3. f[k] = B[<<k, n>>]
    OBVIOUS
  <2> HIDE DEF g, f, w, E
  <2> QED
    BY <1>5, <1>8, <2>2, <2>3
<1>12. g \in [E -> Int]
  <2>1. \A e \in E : g[e] \in Int
    <3> SUFFICES ASSUME NEW e \in E PROVE g[e] \in Int
      OBVIOUS
    <3>1. PICK k \in Rows(K) : w[k] = e
      BY <1>9
    <3>2. f[k] \in Int
      BY <1>6
    <3> HIDE DEF g, f, w, E
    <3> QED
      BY <1>11, <3>1, <3>2
  <2> QED
    BY <2>1
<1>13. IsFiniteSet(Rows(K)) /\ IsFiniteSet(E)
  <2>1. DOMAIN lay = 1 .. K * N /\ K * N \in Nat
    <3> HIDE DEF lay, at
    <3> QED
      BY <1>1, <1>2 DEF Inverts
  <2>2. IsFiniteSet(1 .. K * N)
    BY <2>1, FS_Interval
  <2>3. E \in SUBSET (1 .. K * N)
    BY <2>1
  <2> HIDE DEF E
  <2> QED
    BY <1>1, <2>2, <2>3, RowsFinite, FS_Subset
<1>14. LaneSum(b, K, N, h, swap, n) = Total(g)
  BY DEF LaneSum
<1>15. ColumnSum(B, K, n) = Total(f)
  BY DEF ColumnSum
<1> HIDE DEF g, f, w, E
<1>16. Total(f) = Total(g)
  BY <1>6, <1>7, <1>9, <1>10, <1>11, <1>12, <1>13, SameTotal
<1> QED
  BY <1>14, <1>15, <1>16

(* A bank of a single tile of rows is the same in every tiling.             *)
LEMMA SingleTile ==
  ASSUME KitTile \in Nat \ {0}, NEW N \in Nat \ {0}, NEW nt \in Nat \ {0}
  PROVE  BNative(KitTile, N, nt) = [p \in 1 .. KitTile * N |-> <<(p - 1) % KitTile, (p - 1) \div KitTile>>]
<1>1. SUFFICES ASSUME NEW p \in 1 .. KitTile * N
               PROVE  BNative(KitTile, N, nt)[p] = <<(p - 1) % KitTile, (p - 1) \div KitTile>>
  BY DEF BNative
<1> DEFINE q == p - 1
<1>2. q \in Nat
  BY <1>1
<1>3. KitTile \div KitTile = 1
  <2>1. 1 * KitTile = KitTile /\ (1 * KitTile) \div KitTile = 1
    BY Multiples
  <2> QED
    BY <2>1
<1>4. \A x \in Nat : x % 1 = 0
  OBVIOUS
<1>5. q \div (nt * KitTile) = (q \div KitTile) \div nt /\ q \div (nt * KitTile) \in Nat
      /\ q \div KitTile \in Nat
  <2>1. q \div (nt * KitTile) = (q \div KitTile) \div nt
    <3> HIDE DEF q
    <3> QED
      BY <1>2, Divisions
  <2>2. q \div KitTile \in Nat
    <3> HIDE DEF q
    <3> QED
      BY <1>2, Division
  <2>3. (q \div KitTile) \div nt \in Nat
    <3> DEFINE x == q \div KitTile
    <3>1. x \in Nat
      BY <2>2
    <3> HIDE DEF x
    <3>2. x \div nt \in Nat
      BY <3>1, Division
    <3> QED
      BY <3>2 DEF x
  <2> QED
    BY <2>1, <2>2, <2>3
<1>6. ((q \div (nt * KitTile)) % (KitTile \div KitTile)) * KitTile + (q % KitTile) = q % KitTile
  <2>1. (q \div (nt * KitTile)) % 1 = 0
    <3> HIDE DEF q
    <3> QED
      BY <1>4, <1>5
  <2>2. 0 * KitTile = 0 /\ q % KitTile \in Int
    BY <1>2
  <2> QED
    BY <1>3, <2>1, <2>2
<1>7. (q \div (nt * KitTile)) * nt + ((q \div KitTile) % nt) = q \div KitTile
  <2> DEFINE x == q \div KitTile
  <2>1. x \in Nat
    BY <1>5
  <2>2. q \div (nt * KitTile) = x \div nt
    BY <1>5
  <2> HIDE DEF x
  <2>3. x = (x \div nt) * nt + (x % nt)
    BY <2>1, Division
  <2> HIDE DEF q
  <2>4. (q \div (nt * KitTile)) * nt + (x % nt) = x
    BY <2>2, <2>3
  <2> QED
    BY <2>4 DEF x
<1>8. BNative(KitTile, N, nt)[p] =
        <<((q \div (nt * KitTile)) % (KitTile \div KitTile)) * KitTile + (q % KitTile),
          (q \div (nt * KitTile)) * nt + ((q \div KitTile) % nt)>>
  BY <1>1 DEF BNative
<1> QED
  BY <1>6, <1>7, <1>8

(* Two tilings, the same or of a single tile of rows, are the same. *)
LEMMA SameTile ==
  ASSUME KitAssumption, NEW K, NEW N, <<K, N>> \in KitShapes, NEW nt \in Nat \ {0}, NEW h \in Nat \ {0},
         nt = h \/ K = KitTile
  PROVE  BNative(K, N, nt) = BNative(K, N, h)
<1>1. KitTile \in Nat \ {0} /\ N \in Nat \ {0}
  BY ShapesAre DEF KitAssumption
<1> QED
  BY <1>1, SingleTile

-----------------------------------------------------------------------------
(* The buffer                                                               *)

(* The lane the word at position q, from 0, of a buffer of R rows is of.    *)
Column(native, R, N, q) == IF native THEN (q \div (R * CTile)) * CTile + (q % CTile) ELSE q % N

(* The words of a buffer of R rows of the lanes c. *)
Words(c, N, native, R) ==
  Stored(IF native THEN Native(R, N, CTile) ELSE Normal(R, N), [x \in Rows(R) \X Rows(N) |-> c[x[2]]])

(* Each place holds the word of its lane. *)
Filled(c, N, native, R, s) ==
  \A q \in Rows(R * N) : /\ Column(native, R, N, q) \in Rows(N)
                         /\ s[q + 1] = c[Column(native, R, N, q)]

(* Each is that of its lane. *)
LEMMA WordsAre ==
  ASSUME CTile \in Nat \ {0}, NEW N \in Nat \ {0}, N % CTile = 0, NEW c \in [Rows(N) -> Int],
         NEW native \in BOOLEAN, NEW R \in Nat \ {0}
  PROVE  /\ Words(c, N, native, R) \in [1 .. R * N -> Int]
         /\ Filled(c, N, native, R, Words(c, N, native, R))
<1> DEFINE lay == IF native THEN Native(R, N, CTile) ELSE Normal(R, N)
           X   == [x \in Rows(R) \X Rows(N) |-> c[x[2]]]
<1>1. PICK at : Inverts(at, lay, R, N)
  <2>1. CASE native
    BY <2>1, NativeInverts
  <2>2. CASE ~native
    BY <2>2, NormalInverts
  <2> QED
    BY <2>1, <2>2
<1>2. lay \in [1 .. R * N -> Rows(R) \X Rows(N)]
  <2> HIDE DEF lay
  <2> QED
    BY <1>1 DEF Inverts
<1>3. Words(c, N, native, R) = [p \in 1 .. R * N |-> X[lay[p]]]
  <2>1. Words(c, N, native, R) = Stored(lay, X)
    BY DEF Words
  <2> HIDE DEF lay, X
  <2> QED
    BY <1>2, <2>1 DEF Stored
<1>4. \A p \in 1 .. R * N : X[lay[p]] = c[lay[p][2]] /\ lay[p][2] \in Rows(N)
  <2> HIDE DEF lay
  <2> QED
    BY <1>2
<1>5. \A q \in Rows(R * N) : q + 1 \in 1 .. R * N /\ lay[q + 1][2] = Column(native, R, N, q)
  <2> SUFFICES ASSUME NEW q \in Rows(R * N)
               PROVE  q + 1 \in 1 .. R * N /\ lay[q + 1][2] = Column(native, R, N, q)
    OBVIOUS
  <2>1. R * N \in Nat
    OBVIOUS
  <2>2. q + 1 \in 1 .. R * N /\ (q + 1) - 1 = q
    <3> DEFINE m == R * N
    <3>1. m \in Nat /\ q \in Rows(m)
      BY <2>1
    <3> HIDE DEF m
    <3>2. q + 1 \in 1 .. m /\ (q + 1) - 1 = q
      BY <3>1 DEF Rows
    <3> QED
      BY <3>2 DEF m
  <2>3. CASE native
    <3>1. lay = [p \in 1 .. R * N |-> <<((p - 1) \div CTile) % R, ((p - 1) \div (R * CTile)) * CTile + ((p - 1) % CTile)>>]
      BY <2>3 DEF Native
    <3> HIDE DEF lay
    <3> DEFINE e == (q + 1) - 1
    <3>2. lay[q + 1][2] = (e \div (R * CTile)) * CTile + (e % CTile)
      BY <2>2, <3>1, Zenon
    <3>4. e = q
      BY <2>2
    <3> HIDE DEF e
    <3>3. Column(native, R, N, q) = (q \div (R * CTile)) * CTile + (q % CTile)
      BY <2>3 DEF Column
    <3> QED
      BY <2>2, <3>2, <3>3, <3>4
  <2>4. CASE ~native
    <3>1. lay = [p \in 1 .. R * N |-> <<(p - 1) \div N, (p - 1) % N>>]
      BY <2>4 DEF Normal
    <3> HIDE DEF lay
    <3>2. lay[q + 1][2] = ((q + 1) - 1) % N
      BY <2>2, <3>1
    <3> QED
      BY <2>2, <2>4, <3>2 DEF Column
  <2> QED
    BY <2>2, <2>3, <2>4
<1> DEFINE W == Words(c, N, native, R)
<1> HIDE DEF lay, X
<1>6. \A p \in 1 .. R * N : W[p] = c[lay[p][2]] /\ lay[p][2] \in Rows(N)
  BY <1>3, <1>4
<1>7. W \in [1 .. R * N -> Int]
  <2>1. \A p \in 1 .. R * N : W[p] \in Int
    BY <1>6
  <2>2. W = [p \in 1 .. R * N |-> W[p]]
    BY <1>3
  <2> QED
    BY <2>1, <2>2
<1> HIDE DEF W
<1>8. \A q \in Rows(R * N) : Column(native, R, N, q) \in Rows(N) /\ W[q + 1] = c[Column(native, R, N, q)]
  BY <1>5, <1>6
<1> QED
  BY <1>7, <1>8 DEF W, Filled

(* A buffer of that many words reads right in the form it was written in,   *)
(* unless an earlier form has its size.                                     *)
Legible(form, native) == form \in {<<2, 1>>, <<2, 2>>, <<1, 1>>} \/ (form = <<3, 1>> /\ ~native)
RowsRead(form) == IF form[1] = 2 THEN 2 ELSE 1

(* The buffer has the size of its form and its words in place. *)
LEMMA BufferIs ==
  ASSUME CTile \in Nat \ {0}, NEW N \in Nat \ {0}, N % CTile = 0, NEW c \in [Rows(N) -> Int],
         NEW native \in BOOLEAN, NEW R \in 1 .. 3, NEW width \in {1, 2},
         NEW buf, buf = Buffer(c, N, native, R, width)
  PROVE  /\ Len(buf) = R * N * width
         /\ \A p \in 1 .. R * N : buf[width * (p - 1) + 1] = Words(c, N, native, R)[p]
<1> DEFINE s == Words(c, N, native, R)
<1>1. s \in [1 .. R * N -> Int]
  BY WordsAre
<1>2. buf = [i \in 1 .. R * N * width |->
        IF width = 1 THEN s[i]
        ELSE IF i % 2 = 1 THEN s[(i + 1) \div 2] ELSE IF s[i \div 2] < 0 THEN -1 ELSE 0]
  BY DEF Buffer, Words
<1> HIDE DEF s
<1>3. PICK m \in Nat : m = R * N
  OBVIOUS
<1>4. CASE width = 1
  <2>1. R * N * width = m
    BY <1>3, <1>4
  <2>2. buf = [i \in 1 .. m |-> s[i]]
    BY <1>2, <1>4, <2>1
  <2>3. buf \in [1 .. m -> Int]
    BY <1>1, <1>3, <2>2
  <2>4. Len(buf) = m
    BY <2>3, LengthOf
  <2>5. \A p \in 1 .. m : buf[p] = s[p] /\ width * (p - 1) + 1 = p
    BY <1>4, <2>2
  <2> QED
    BY <1>3, <2>1, <2>4, <2>5 DEF s
<1>5. CASE width = 2
  <2>1. R * N * width = 2 * m
    BY <1>3, <1>5
  <2>2. buf = [i \in 1 .. 2 * m |-> IF i % 2 = 1 THEN s[(i + 1) \div 2]
                                    ELSE IF s[i \div 2] < 0 THEN -1 ELSE 0]
    BY <1>2, <1>5, <2>1
  <2>3. buf \in [1 .. 2 * m -> Int]
    <3>1. \A i \in 1 .. 2 * m : i % 2 = 1 => (i + 1) \div 2 \in 1 .. m
      OBVIOUS
    <3> QED
      BY <1>1, <1>3, <2>2, <3>1
  <2>4. Len(buf) = 2 * m
    BY <2>3, LengthOf
  <2>5. \A p \in 1 .. m : /\ width * (p - 1) + 1 \in 1 .. 2 * m
                          /\ (width * (p - 1) + 1) % 2 = 1
                          /\ ((width * (p - 1) + 1) + 1) \div 2 = p
    BY <1>5
  <2>6. \A p \in 1 .. m : buf[width * (p - 1) + 1] = s[p]
    BY <2>2, <2>5
  <2> QED
    BY <1>3, <2>1, <2>4, <2>6 DEF s
<1> QED
  BY <1>4, <1>5

(* The first form that has the buffer's size. *)
LEMMA FirstFits ==
  ASSUME NEW buf, NEW N, NEW forms, IsFiniteSet(DOMAIN forms), DOMAIN forms \subseteq Int,
         NEW i \in DOMAIN forms, Len(buf) = forms[i][1] * N * forms[i][2],
         \A j \in DOMAIN forms : j < i => Len(buf) # forms[j][1] * N * forms[j][2]
  PROVE  ReadAs(buf, N, forms) =
           [rows |-> forms[i][1], at |-> [p \in 1 .. forms[i][1] * N |-> buf[forms[i][2] * (p - 1) + 1]]]
<1> DEFINE fits == {j \in DOMAIN forms : Len(buf) = forms[j][1] * N * forms[j][2]}
<1>1. IsFiniteSet(fits) /\ fits # {} /\ fits \subseteq Int /\ i \in fits
  <2>1. fits \in SUBSET (DOMAIN forms)
    OBVIOUS
  <2>2. i \in fits
    OBVIOUS
  <2> HIDE DEF fits
  <2> QED
    BY <2>1, <2>2, FS_Subset
<1>2. \A j \in fits : ~(j < i)
  OBVIOUS
<1>3. Min(fits) = i
  <2> HIDE DEF fits
  <2>1. Min(fits) \in fits /\ Min(fits) <= i /\ ~(Min(fits) < i) /\ Min(fits) \in Int /\ i \in Int
    BY <1>1, <1>2, MinIs
  <2> QED
    BY <2>1
<1>4. (IF fits # {} THEN forms[Min(fits)] ELSE <<1, 1>>) = forms[i]
  <2> HIDE DEF fits
  <2> QED
    BY <1>1, <1>3
<1> QED
  BY <1>4 DEF ReadAs

(* If none has, one row of int16 is read. *)
LEMMA NoneFits ==
  ASSUME NEW buf, NEW N, NEW forms, \A j \in DOMAIN forms : Len(buf) # forms[j][1] * N * forms[j][2]
  PROVE  ReadAs(buf, N, forms) = [rows |-> 1, at |-> [p \in 1 .. 1 * N |-> buf[1 * (p - 1) + 1]]]
<1> DEFINE fits == {j \in DOMAIN forms : Len(buf) = forms[j][1] * N * forms[j][2]}
<1>1. fits = {}
  OBVIOUS
<1>2. (IF fits # {} THEN forms[Min(fits)] ELSE <<1, 1>>) = <<1, 1>>
  BY <1>1
<1> QED
  BY <1>2 DEF ReadAs

(* load_c of a buffer of L words: the rows and the width that it takes.     *)
LEMMA LoadCIs ==
  ASSUME NEW buf, NEW N \in Nat \ {0}
  PROVE  /\ Len(buf) = 2 * N => LoadC(buf, N, 2) = [rows |-> 2, at |-> [p \in 1 .. 2 * N |-> buf[1 * (p - 1) + 1]]]
         /\ Len(buf) = 4 * N => LoadC(buf, N, 2) = [rows |-> 2, at |-> [p \in 1 .. 2 * N |-> buf[2 * (p - 1) + 1]]]
         /\ Len(buf) \in {1 * N, 3 * N} =>
              LoadC(buf, N, 2) = [rows |-> 1, at |-> [p \in 1 .. 1 * N |-> buf[1 * (p - 1) + 1]]]
<1> DEFINE forms == <<<<2, 1>>, <<2, 2>>, <<1, 1>>, <<1, 2>>>>
<1>1. DOMAIN forms = 1 .. 4 /\ DOMAIN forms \subseteq Int /\ IsFiniteSet(DOMAIN forms)
  <2>1. DOMAIN forms = 1 .. 4
    OBVIOUS
  <2>2. IsFiniteSet(1 .. 4)
    <3>1. 1 \in Int /\ 4 \in Int
      OBVIOUS
    <3> QED
      BY <3>1, FS_Interval, Zenon
  <2> QED
    BY <2>1, <2>2
<1>2. LoadC(buf, N, 2) = ReadAs(buf, N, forms)
  BY DEF LoadC
<1>3. /\ forms[1][1] = 2 /\ forms[1][2] = 1 /\ forms[2][1] = 2 /\ forms[2][2] = 2
      /\ forms[3][1] = 1 /\ forms[3][2] = 1 /\ forms[4][1] = 1 /\ forms[4][2] = 2
  OBVIOUS
<1> HIDE DEF forms
<1>4. ASSUME Len(buf) = 2 * N
      PROVE  LoadC(buf, N, 2) = [rows |-> 2, at |-> [p \in 1 .. 2 * N |-> buf[1 * (p - 1) + 1]]]
  <2>1. 1 \in DOMAIN forms /\ Len(buf) = forms[1][1] * N * forms[1][2]
        /\ \A j \in DOMAIN forms : j < 1 => Len(buf) # forms[j][1] * N * forms[j][2]
    BY <1>1, <1>3, <1>4
  <2>2. ReadAs(buf, N, forms) =
          [rows |-> forms[1][1], at |-> [p \in 1 .. forms[1][1] * N |-> buf[forms[1][2] * (p - 1) + 1]]]
    BY <1>1, <2>1, FirstFits
  <2> QED
    BY <1>2, <1>3, <2>2
<1>5. ASSUME Len(buf) = 4 * N
      PROVE  LoadC(buf, N, 2) = [rows |-> 2, at |-> [p \in 1 .. 2 * N |-> buf[2 * (p - 1) + 1]]]
  <2>1. 2 \in DOMAIN forms /\ Len(buf) = forms[2][1] * N * forms[2][2]
        /\ \A j \in DOMAIN forms : j < 2 => Len(buf) # forms[j][1] * N * forms[j][2]
    <3>1. \A j \in DOMAIN forms : j < 2 => j = 1
      BY <1>1
    <3> QED
      BY <1>1, <1>3, <1>5, <3>1
  <2>2. ReadAs(buf, N, forms) =
          [rows |-> forms[2][1], at |-> [p \in 1 .. forms[2][1] * N |-> buf[forms[2][2] * (p - 1) + 1]]]
    BY <1>1, <2>1, FirstFits
  <2> QED
    BY <1>2, <1>3, <2>2
<1>6. ASSUME Len(buf) = 1 * N
      PROVE  LoadC(buf, N, 2) = [rows |-> 1, at |-> [p \in 1 .. 1 * N |-> buf[1 * (p - 1) + 1]]]
  <2>1. 3 \in DOMAIN forms /\ Len(buf) = forms[3][1] * N * forms[3][2]
        /\ \A j \in DOMAIN forms : j < 3 => Len(buf) # forms[j][1] * N * forms[j][2]
    <3>1. \A j \in DOMAIN forms : j < 3 => j \in {1, 2}
      BY <1>1
    <3> QED
      BY <1>1, <1>3, <1>6, <3>1
  <2>2. ReadAs(buf, N, forms) =
          [rows |-> forms[3][1], at |-> [p \in 1 .. forms[3][1] * N |-> buf[forms[3][2] * (p - 1) + 1]]]
    BY <1>1, <2>1, FirstFits
  <2> QED
    BY <1>2, <1>3, <2>2
<1>7. ASSUME Len(buf) = 3 * N
      PROVE  LoadC(buf, N, 2) = [rows |-> 1, at |-> [p \in 1 .. 1 * N |-> buf[1 * (p - 1) + 1]]]
  <2>1. \A j \in DOMAIN forms : Len(buf) # forms[j][1] * N * forms[j][2]
    <3>1. \A j \in DOMAIN forms : j \in {1, 2, 3, 4}
      BY <1>1
    <3> QED
      BY <1>3, <1>7, <3>1
  <2> QED
    BY <1>2, <2>1, NoneFits
<1> QED
  BY <1>4, <1>5, <1>6, <1>7

(* The buffer, read back: as many rows, and in each place the word of its   *)
(* lane.                                                                    *)
Loaded(c, N, native, R, ld) ==
  /\ ld.rows = R
  /\ Filled(c, N, native, R, ld.at)

(* A legible buffer is read back. *)
LEMMA ReadBack ==
  ASSUME CTile \in Nat \ {0}, NEW N \in Nat \ {0}, N % CTile = 0, NEW c \in [Rows(N) -> Int],
         NEW native \in BOOLEAN, NEW form, Legible(form, native),
         NEW buf, buf = Buffer(c, N, native, form[1], form[2])
  PROVE  Loaded(c, N, native, RowsRead(form), LoadC(buf, N, 2))
<1> DEFINE W(r) == Words(c, N, native, r)
           ld   == LoadC(buf, N, 2)
<1>1. \A r \in 1 .. 3 : Filled(c, N, native, r, W(r))
  <2> SUFFICES ASSUME NEW r \in 1 .. 3
               PROVE  Filled(c, N, native, r, Words(c, N, native, r))
    OBVIOUS
  <2>1. r \in Nat \ {0}
    OBVIOUS
  <2> QED
    BY <2>1, WordsAre
<1>2. CASE form = <<2, 1>>
  <2>1. /\ Len(buf) = 2 * N * 1
        /\ \A p \in 1 .. 2 * N : buf[1 * (p - 1) + 1] = W(2)[p]
    BY <1>2, BufferIs
  <2>2. ld = [rows |-> 2, at |-> [p \in 1 .. 2 * N |-> buf[1 * (p - 1) + 1]]]
    BY <2>1, LoadCIs
  <2>3. ld.rows = 2 /\ \A p \in 1 .. 2 * N : ld.at[p] = W(2)[p]
    BY <2>1, <2>2
  <2>4. \A q \in Rows(2 * N) : q + 1 \in 1 .. 2 * N
    BY DEF Rows
  <2>5. RowsRead(form) = 2
    BY <1>2 DEF RowsRead
  <2> HIDE DEF W, ld
  <2> QED
    BY <1>1, <2>3, <2>4, <2>5 DEF Loaded, Filled, ld
<1>3. CASE form = <<2, 2>>
  <2>1. /\ Len(buf) = 2 * N * 2
        /\ \A p \in 1 .. 2 * N : buf[2 * (p - 1) + 1] = W(2)[p]
    <3>1. 2 \in 1 .. 3 /\ 2 \in {1, 2} /\ buf = Buffer(c, N, native, 2, 2)
      BY <1>3
    <3>2. /\ Len(buf) = 2 * N * 2
          /\ \A p \in 1 .. 2 * N : buf[2 * (p - 1) + 1] = Words(c, N, native, 2)[p]
      BY <3>1, BufferIs
    <3> QED
      BY <3>2
  <2>2. ld = [rows |-> 2, at |-> [p \in 1 .. 2 * N |-> buf[2 * (p - 1) + 1]]]
    BY <2>1, LoadCIs
  <2>3. ld.rows = 2 /\ \A p \in 1 .. 2 * N : ld.at[p] = W(2)[p]
    BY <2>1, <2>2
  <2>4. \A q \in Rows(2 * N) : q + 1 \in 1 .. 2 * N
    BY DEF Rows
  <2>5. RowsRead(form) = 2
    BY <1>3 DEF RowsRead
  <2> HIDE DEF W, ld
  <2> QED
    BY <1>1, <2>3, <2>4, <2>5 DEF Loaded, Filled, ld
<1>4. CASE form = <<1, 1>>
  <2>1. /\ Len(buf) = 1 * N * 1
        /\ \A p \in 1 .. 1 * N : buf[1 * (p - 1) + 1] = W(1)[p]
    BY <1>4, BufferIs
  <2>2. ld = [rows |-> 1, at |-> [p \in 1 .. 1 * N |-> buf[1 * (p - 1) + 1]]]
    BY <2>1, LoadCIs
  <2>3. ld.rows = 1 /\ \A p \in 1 .. 1 * N : ld.at[p] = W(1)[p]
    BY <2>1, <2>2
  <2>4. \A q \in Rows(1 * N) : q + 1 \in 1 .. 1 * N
    BY DEF Rows
  <2>5. RowsRead(form) = 1
    BY <1>4 DEF RowsRead
  <2> HIDE DEF W, ld
  <2> QED
    BY <1>1, <2>3, <2>4, <2>5 DEF Loaded, Filled, ld
<1>5. CASE form = <<3, 1>> /\ native = FALSE
  <2>1. /\ Len(buf) = 3 * N * 1
        /\ \A p \in 1 .. 3 * N : buf[1 * (p - 1) + 1] = W(3)[p]
    BY <1>5, BufferIs
  <2>2. ld = [rows |-> 1, at |-> [p \in 1 .. 1 * N |-> buf[1 * (p - 1) + 1]]]
    BY <2>1, LoadCIs
  <2>3. ld.rows = 1 /\ \A p \in 1 .. 1 * N : ld.at[p] = W(3)[p]
    <3>1. \A p \in 1 .. 1 * N : p \in 1 .. 3 * N
      OBVIOUS
    <3> QED
      BY <2>1, <2>2, <3>1
  <2>4. \A q \in Rows(1 * N) : q + 1 \in 1 .. 1 * N /\ q \in Rows(3 * N)
    BY DEF Rows
  <2>5. RowsRead(form) = 1
    BY <1>5 DEF RowsRead
  <2>6. \A q : Column(native, 1, N, q) = Column(native, 3, N, q)
    BY <1>5 DEF Column
  <2> HIDE DEF W, ld
  <2>7. \A q \in Rows(1 * N) : /\ Column(native, 1, N, q) \in Rows(N)
                               /\ ld.at[q + 1] = c[Column(native, 1, N, q)]
    <3>1. Filled(c, N, native, 3, W(3))
      BY <1>1
    <3> QED
      BY <2>3, <2>4, <2>6, <3>1 DEF Filled
  <2> QED
    BY <2>3, <2>5, <2>7 DEF Loaded, Filled, ld
<1> QED
  BY <1>2, <1>3, <1>4, <1>5 DEF Legible

-----------------------------------------------------------------------------
(* Row 0 of the buffer                                                      *)

(* The position, from 0, that is read for lane n with tiles of t. *)
Where(R, t, n) == IF t = 0 THEN n ELSE AtNative(R, t, 0, n)

(* One row is read in place, two at most twice as far. *)
LEMMA WhereIs ==
  ASSUME NEW t \in Nat, NEW n \in Nat
  PROVE  /\ Where(1, t, n) = n
         /\ Where(2, t, n) \in Nat /\ Where(2, t, n) <= 2 * n
         /\ t # 0 => Where(2, t, n) = (n \div t) * (2 * t) + (n % t)
<1>1. CASE t = 0
  BY <1>1 DEF Where
<1>2. CASE t # 0
  <2> DEFINE a == n \div t
             b == n % t
  <2>1. a \in Nat /\ b \in Rows(t) /\ n = a * t + b
    BY <1>2, Division
  <2>2. /\ Where(1, t, n) = ((a * 1) + 0) * t + b
        /\ Where(2, t, n) = ((a * 2) + 0) * t + b
    BY <1>2 DEF Where, AtNative
  <2>3. PICK z \in Nat : z = a * t
    BY <2>1
  <2>4. b \in Nat
    BY <2>1 DEF Rows
  <2> HIDE DEF a, b
  <2>5. ((a * 1) + 0) * t = z /\ ((a * 2) + 0) * t = 2 * z /\ a * (2 * t) = 2 * z
    BY <2>1, <2>3
  <2>6. Where(1, t, n) = n /\ Where(2, t, n) \in Nat /\ Where(2, t, n) <= 2 * n
        /\ Where(2, t, n) = a * (2 * t) + b
    BY <2>1, <2>2, <2>3, <2>4, <2>5
  <2> QED
    BY <2>6 DEF a, b
<1> QED
  BY <1>1, <1>2

(* Where a reading finds lane n. *)
Found(native, R, N, t, n) == Column(native, R, N, Where(R, t, n))

(* The reading that undoes the layout. *)
Right(native, R) == IF native /\ R = 2 THEN CTile ELSE 0

(* One row is read right with any tiles, *)
LEMMA OneRow ==
  ASSUME CTile \in Nat \ {0}, NEW N \in Nat \ {0}, NEW native \in BOOLEAN, NEW t \in Nat, NEW n \in Rows(N)
  PROVE  Found(native, 1, N, t, n) = n
<1>1. n \in Nat /\ Where(1, t, n) = n
  <2>1. n \in Nat
    BY DEF Rows
  <2> QED
    BY <2>1, WhereIs
<1>2. n % N = n
  BY DEF Rows
<1>3. (n \div (1 * CTile)) * CTile + (n % CTile) = n
  <2>1. n = (n \div CTile) * CTile + (n % CTile)
    BY <1>1, Division
  <2> QED
    BY <2>1
<1> QED
  BY <1>1, <1>2, <1>3 DEF Found, Column

(* two with the right ones. *)
LEMMA RightReading ==
  ASSUME CTile \in Nat \ {0}, NEW N \in Nat \ {0}, NEW native \in BOOLEAN, NEW R \in {1, 2}, NEW n \in Rows(N)
  PROVE  Found(native, R, N, Right(native, R), n) = n
<1>1. n \in Nat /\ n < N
  BY DEF Rows
<1>2. CASE R = 1
  BY <1>2, OneRow DEF Right
<1>3. CASE R = 2 /\ native = FALSE
  <2>1. Right(native, R) = 0 /\ Where(R, 0, n) = n /\ n % N = n
    BY <1>1, <1>3 DEF Right, Where
  <2> QED
    BY <1>3, <2>1 DEF Found, Column
<1>4. CASE R = 2 /\ native = TRUE
  <2> DEFINE a == n \div CTile
             b == n % CTile
             q == Where(2, CTile, n)
  <2>1. a \in Nat /\ b \in Rows(CTile) /\ n = a * CTile + b
    BY <1>1, Division
  <2>2. q = a * (2 * CTile) + b
    BY <1>1, WhereIs
  <2>3. b \in Rows(2 * CTile) /\ 2 * CTile \in Nat \ {0}
    BY <2>1 DEF Rows
  <2> HIDE DEF a, b, q
  <2>4. q \div (2 * CTile) = a
    <3> DEFINE g == 2 * CTile
    <3>1. g \in Nat \ {0} /\ b \in Rows(g) /\ q = a * g + b
      BY <2>2, <2>3
    <3> HIDE DEF g
    <3>2. q \div g = a
      BY <2>1, <3>1, Digits
    <3> QED
      BY <3>2 DEF g
  <2>5. q % CTile = b
    <3> DEFINE e == a * 2
    <3>1. e \in Nat /\ q = e * CTile + b
      BY <2>1, <2>2, <2>3
    <3> HIDE DEF e
    <3> QED
      BY <2>1, <3>1, Digits
  <2>6. Right(native, R) = CTile
    BY <1>4 DEF Right
  <2>7. Column(TRUE, 2, N, q) = a * CTile + b
    BY <2>4, <2>5 DEF Column
  <2> QED
    BY <1>4, <2>1, <2>6, <2>7 DEF Found, q
<1> QED
  BY <1>2, <1>3, <1>4

(* Another reads one lane twice. *)
LEMMA WrongReading ==
  ASSUME CTile \in Nat \ {0}, CTile % 2 = 0, NEW N \in Nat \ {0}, N % (2 * CTile) = 0,
         NEW native \in BOOLEAN, NEW t \in {0, CTile, CTile \div 2}, t # Right(native, 2)
  PROVE  /\ Found(native, 2, N, t, 0) = 0
         /\ \E m \in Rows(N) : /\ m # 0 /\ Found(native, 2, N, t, m) = 0
                               /\ native /\ t = 0 => m = CTile
<1>1. CTile \div 2 \in Nat \ {0} /\ CTile = 2 * (CTile \div 2) /\ t \in Nat
  OBVIOUS
<1>2. N = (N \div (2 * CTile)) * (2 * CTile) /\ N \div (2 * CTile) \in Nat \ {0}
  <2> DEFINE g == 2 * CTile
  <2>1. g \in Nat \ {0} /\ N % g = 0
    OBVIOUS
  <2> HIDE DEF g
  <2>2. N = (N \div g) * g /\ N \div g \in Nat \ {0}
    BY <2>1, Multiple
  <2> QED
    BY <2>2 DEF g
<1>3. 2 * CTile <= N
  <2> DEFINE g == 2 * CTile
             e == N \div g
  <2>1. g \in Nat /\ e \in Nat \ {0} /\ N = e * g
    BY <1>2
  <2> HIDE DEF g, e
  <2>2. g <= e * g
    BY <2>1
  <2> QED
    BY <2>1, <2>2 DEF g
<1>4. Found(native, 2, N, t, 0) = 0
  <2>1. Where(2, t, 0) = 0
    <3>1. Where(2, t, 0) \in Nat /\ Where(2, t, 0) <= 2 * 0
      BY <1>1, WhereIs
    <3> QED
      BY <3>1
  <2>2. 0 % N = 0 /\ 0 \div (2 * CTile) = 0 /\ 0 % CTile = 0 /\ 0 * CTile + 0 = 0
    OBVIOUS
  <2> QED
    BY <2>1, <2>2 DEF Found, Column
<1>5. CASE native = TRUE /\ t = 0
  <2>1. Where(2, t, CTile) = CTile
    BY <1>5 DEF Where
  <2>2. CTile \div (2 * CTile) = 0 /\ CTile % CTile = 0 /\ 0 * CTile + 0 = 0
    OBVIOUS
  <2>3. Found(native, 2, N, t, CTile) = 0
    BY <1>5, <2>1, <2>2 DEF Found, Column
  <2>4. CTile \in Rows(N) /\ CTile # 0
    BY <1>3 DEF Rows
  <2> QED
    BY <1>4, <2>3, <2>4
<1>6. CASE native = TRUE /\ t = CTile \div 2
  <2>1. t \in Nat \ {0} /\ CTile = 2 * t /\ t \in Rows(N) /\ t # 0
    BY <1>1, <1>3, <1>6 DEF Rows
  <2>2. Where(2, t, t) = CTile
    <3>1. Where(2, t, t) = (t \div t) * (2 * t) + (t % t)
      BY <2>1, WhereIs
    <3>2. t \div t = 1 /\ t % t = 0
      BY <2>1
    <3> QED
      BY <2>1, <3>1, <3>2
  <2>3. CTile \div (2 * CTile) = 0 /\ CTile % CTile = 0 /\ 0 * CTile + 0 = 0
    OBVIOUS
  <2>4. Found(native, 2, N, t, t) = 0
    BY <1>6, <2>2, <2>3 DEF Found, Column
  <2> QED
    BY <1>4, <2>1, <2>4
<1>7. CASE native = FALSE
  <2> DEFINE m == N \div 2
             e == N \div (2 * CTile)
  <2>1. t \in {CTile, CTile \div 2} /\ t \in Nat \ {0}
    BY <1>1, <1>7 DEF Right
  <2>2. e \in Nat /\ N = e * (2 * CTile)
    BY <1>2
  <2>3. m \in Rows(N) /\ m # 0 /\ N = 2 * m
    <3>1. PICK z \in Nat : z = e * CTile
      BY <2>2
    <3>2. N = 2 * z
      <4> HIDE DEF e
      <4> QED
        BY <2>2, <3>1
    <3> QED
      BY <3>2 DEF Rows
  <2>4. m % t = 0 /\ m = (m \div t) * t /\ m \div t \in Nat
    <3>1. PICK y \in Nat : m = y * t
      <4>1. m = e * CTile
        <5>1. PICK z \in Nat : z = e * CTile
          BY <2>2
        <5> HIDE DEF e, m
        <5>2. N = 2 * z
          BY <2>2, <5>1
        <5>3. m \in Nat
          BY <2>3 DEF Rows
        <5> QED
          BY <2>3, <5>1, <5>2, <5>3
      <4>2. m = (2 * e) * (CTile \div 2)
        <5> HIDE DEF e, m
        <5> QED
          BY <1>1, <2>2, <4>1
      <4> HIDE DEF e, m
      <4>3. 2 * e \in Nat
        BY <2>2
      <4> QED
        BY <2>1, <2>2, <4>1, <4>2, <4>3
    <3> HIDE DEF m
    <3> QED
      BY <2>1, <3>1, Multiples
  <2>5. Where(2, t, m) = N
    <3>1. m \in Nat
      BY <2>3 DEF Rows
    <3>2. Where(2, t, m) = (m \div t) * (2 * t) + (m % t)
      BY <2>1, <3>1, WhereIs
    <3>3. (m \div t) * (2 * t) = 2 * m
      <4> DEFINE x == m \div t
      <4>1. x \in Nat /\ m = x * t
        BY <2>4
      <4> HIDE DEF x, m
      <4>2. x * (2 * t) = 2 * m
        BY <2>1, <4>1
      <4> QED
        BY <4>2 DEF x
    <3> HIDE DEF m
    <3> QED
      BY <2>3, <2>4, <3>1, <3>2, <3>3
  <2>6. N % N = 0
    OBVIOUS
  <2>7. Found(native, 2, N, t, m) = 0
    <3> HIDE DEF m
    <3> QED
      BY <1>7, <2>5, <2>6 DEF Found, Column
  <2> HIDE DEF m
  <2> QED
    BY <1>4, <1>7, <2>3, <2>7
<1> QED
  <2>1. native = TRUE => t # CTile
    BY DEF Right
  <2> QED
    BY <1>5, <1>6, <1>7, <2>1

(* The score is the number of right lanes. *)
LEMMA ScoreIs ==
  ASSUME NEW N \in Nat, NEW idx
  PROVE  /\ IsFiniteSet({n \in Rows(N) : idx[n] = n}) /\ Score(idx, N) \in Nat
         /\ Score(idx, N) = Cardinality({n \in Rows(N) : idx[n] = n})
<1>1. IsFiniteSet(Rows(N))
  BY RowsFinite
<1> DEFINE S == {n \in Rows(N) : idx[n] = n}
<1>2. S \in SUBSET Rows(N)
  OBVIOUS
<1>3. Score(idx, N) = Cardinality(S)
  BY DEF Score
<1> HIDE DEF S
<1>4. IsFiniteSet(S) /\ Cardinality(S) \in Nat
  BY <1>1, <1>2, FS_Subset, FS_CardinalityType
<1> QED
  BY <1>3, <1>4 DEF S

(* The score when the lanes below h, and no other, may be right.            *)
LEMMA ScoreAtMost ==
  ASSUME NEW N \in Nat, NEW idx, NEW h \in Nat, \A n \in Rows(N) : idx[n] = n => n < h
  PROVE  /\ Score(idx, N) <= h
         /\ \A m \in Rows(h) : idx[m] # m => Score(idx, N) < h
         /\ h <= N /\ (\A n \in Rows(h) : idx[n] = n) => Score(idx, N) = h
<1> DEFINE S == {n \in Rows(N) : idx[n] = n}
<1>1. IsFiniteSet(Rows(h)) /\ Cardinality(Rows(h)) = h
  <2>1. 0 \in Int /\ h - 1 \in Int
    OBVIOUS
  <2>2. IsFiniteSet(0 .. h - 1) /\ Cardinality(0 .. h - 1) = IF 0 > h - 1 THEN 0 ELSE (h - 1) - 0 + 1
    <3> DEFINE k == h - 1
    <3>1. k \in Int
      OBVIOUS
    <3> HIDE DEF k
    <3>2. IsFiniteSet(0 .. k) /\ Cardinality(0 .. k) = IF 0 > k THEN 0 ELSE k - 0 + 1
      BY <2>1, <3>1, FS_Interval
    <3> QED
      BY <3>2 DEF k
  <2> QED
    BY <2>2 DEF Rows
<1>2. S \subseteq Rows(h)
  BY DEF Rows
<1>3. Score(idx, N) = Cardinality(S)
  BY ScoreIs
<1>4. Cardinality(S) <= h /\ (Cardinality(S) = h => S = Rows(h)) /\ Cardinality(S) \in Nat
  <2> HIDE DEF S
  <2>1. S \in SUBSET Rows(h)
    BY <1>2
  <2>2. IsFiniteSet(S) /\ Cardinality(S) <= Cardinality(Rows(h))
        /\ (Cardinality(S) = Cardinality(Rows(h)) => S = Rows(h))
    BY <1>1, <2>1, FS_Subset
  <2>3. Cardinality(S) \in Nat
    BY <2>2, FS_CardinalityType
  <2> QED
    BY <1>1, <2>2, <2>3
<1>5. \A m \in Rows(h) : idx[m] # m => Cardinality(S) < h
  <2> SUFFICES ASSUME NEW m \in Rows(h), idx[m] # m PROVE Cardinality(S) < h
    OBVIOUS
  <2>1. m \notin S
    OBVIOUS
  <2> HIDE DEF S
  <2> QED
    BY <1>4, <2>1
<1>6. ASSUME h <= N, \A n \in Rows(h) : idx[n] = n PROVE Cardinality(S) = h
  <2>1. S = Rows(h)
    <3>1. Rows(h) \subseteq Rows(N)
      BY <1>6 DEF Rows
    <3> QED
      BY <1>2, <1>6, <3>1
  <2> QED
    BY <1>1, <2>1
<1> QED
  BY <1>3, <1>4, <1>5, <1>6

(* The interpretation chosen: no worse than the others, better than the     *)
(* earlier ones.                                                            *)
BestAt(ld, N, M, t) ==
  /\ BestReading(ld, N, M) = RowZero(ld, N, t)
  /\ Score(RowZero(ld, N, 0), N) <= Score(RowZero(ld, N, t), N)
  /\ t # 0 => Score(RowZero(ld, N, 0), N) < Score(RowZero(ld, N, t), N)
  /\ (ld.rows * N) % (CTile * M) = 0 =>
       /\ Score(RowZero(ld, N, CTile), N) <= Score(RowZero(ld, N, t), N)
       /\ t = CTile \div 2 => Score(RowZero(ld, N, CTile), N) < Score(RowZero(ld, N, t), N)

(* BestReading chooses such an interpretation. *)
LEMMA BestIs ==
  ASSUME CTile \in Nat \ {0}, CTile % 2 = 0, NEW N \in Nat, NEW M, NEW ld
  PROVE  \E t \in {0, CTile, CTile \div 2} : BestAt(ld, N, M, t)
<1> DEFINE ts == <<0, CTile, CTile \div 2>>
           tried == {i \in DOMAIN ts : ts[i] = 0 \/ (ld.rows * N) % (ts[i] * M) = 0}
           s(i) == Score(RowZero(ld, N, ts[i]), N)
           top == {i \in tried : \A j \in tried : s(j) <= s(i)}
           first == Min(top)
<1>1. BestReading(ld, N, M) = RowZero(ld, N, ts[first])
  BY DEF BestReading
<1>2. ts[1] = 0 /\ ts[2] = CTile /\ ts[3] = CTile \div 2 /\ DOMAIN ts = 1 .. 3
  OBVIOUS
<1>3. /\ 1 \in tried /\ tried \subseteq {1, 2, 3}
      /\ (ld.rows * N) % (CTile * M) = 0 => 2 \in tried
  <2> HIDE DEF ts
  <2> QED
    BY <1>2
<1>4. s(1) \in Nat /\ s(2) \in Nat /\ s(3) \in Nat
  BY ScoreIs
<1>5. /\ s(1) = Score(RowZero(ld, N, 0), N) /\ s(2) = Score(RowZero(ld, N, CTile), N)
      /\ s(3) = Score(RowZero(ld, N, CTile \div 2), N)
  BY <1>2
<1> HIDE DEF ts, tried, s
<1>6. top # {} /\ top \subseteq {1, 2, 3}
  <2>1. \E i \in tried : \A j \in tried : s(j) <= s(i)
    <3>1. \A j \in tried : j = 1 \/ j = 2 \/ j = 3
      BY <1>3
    <3> QED
      BY <1>3, <1>4, <3>1
  <2> QED
    BY <1>3, <2>1
<1>7. first \in top /\ \A i \in top : first <= i
  <2> HIDE DEF top
  <2>1. top \in SUBSET (1 .. 3) /\ top \subseteq Int
    BY <1>6
  <2>2. IsFiniteSet(1 .. 3)
    <3>1. 1 \in Int /\ 3 \in Int
      OBVIOUS
    <3> QED
      BY <3>1, FS_Interval, Zenon
  <2>3. IsFiniteSet(top)
    BY <2>1, <2>2, FS_Subset
  <2> QED
    BY <1>6, <2>1, <2>3, MinIs
<1> HIDE DEF first
<1>8. first \in tried /\ \A j \in tried : s(j) <= s(first)
  BY <1>7
<1>9. \A j \in tried : j < first => s(j) < s(first)
  <2> SUFFICES ASSUME NEW j \in tried, j < first PROVE s(j) < s(first)
    OBVIOUS
  <2>1. j \notin top
    BY <1>3, <1>6, <1>7
  <2>2. PICK i \in tried : ~(s(i) <= s(j))
    BY <2>1
  <2>3. s(i) \in Nat /\ s(j) \in Nat /\ s(first) \in Nat
    BY <1>3, <1>4, <1>8
  <2>4. s(i) <= s(first)
    BY <1>8
  <2> QED
    BY <2>2, <2>3, <2>4
<1>10. first = 1 \/ first = 2 \/ first = 3
  BY <1>3, <1>8
<1>11. /\ s(1) <= s(first) /\ (first # 1 => s(1) < s(first))
       /\ (ld.rows * N) % (CTile * M) = 0 =>
            s(2) <= s(first) /\ (first = 3 => s(2) < s(first))
  BY <1>3, <1>8, <1>9, <1>10
<1>12. CTile # 0 /\ CTile # CTile \div 2 /\ CTile \div 2 # 0
  OBVIOUS
<1>13. CASE first = 1
  BY <1>1, <1>2, <1>5, <1>11, <1>12, <1>13 DEF BestAt, s
<1>14. CASE first = 2
  BY <1>1, <1>2, <1>5, <1>11, <1>12, <1>14 DEF BestAt, s
<1>15. CASE first = 3
  <2> DEFINE t == CTile \div 2
  <2>1. BestReading(ld, N, M) = RowZero(ld, N, t) /\ s(first) = Score(RowZero(ld, N, t), N)
    BY <1>1, <1>2, <1>5, <1>15
  <2>2. /\ Score(RowZero(ld, N, 0), N) < Score(RowZero(ld, N, t), N)
        /\ Score(RowZero(ld, N, 0), N) <= Score(RowZero(ld, N, t), N)
    BY <1>5, <1>11, <1>15, <2>1
  <2>3. (ld.rows * N) % (CTile * M) = 0 =>
          /\ Score(RowZero(ld, N, CTile), N) <= Score(RowZero(ld, N, t), N)
          /\ Score(RowZero(ld, N, CTile), N) < Score(RowZero(ld, N, t), N)
    BY <1>5, <1>11, <1>15, <2>1
  <2> HIDE DEF t
  <2>4. BestAt(ld, N, M, t)
    BY <2>1, <2>2, <2>3 DEF BestAt
  <2> QED
    BY <2>4 DEF t
<1> QED
  BY <1>10, <1>13, <1>14, <1>15

(* The lanes that row 0 shows when it is read with tiles of t. *)
RowRead(c, native, R, N, t, idx) ==
  /\ idx = [n \in Rows(N) |-> idx[n]]
  /\ \A n \in Rows(N) : /\ Found(native, R, N, t, n) \in Rows(N)
                        /\ idx[n] = c[Found(native, R, N, t, n)] + N \div 2

(* Row 0 of a buffer that is read back shows these lanes. *)
LEMMA RowZeroIs ==
  ASSUME NEW N \in Nat \ {0}, NEW c, NEW native, NEW R \in {1, 2}, NEW t \in Nat,
         NEW ld, Loaded(c, N, native, R, ld)
  PROVE  RowRead(c, native, R, N, t, RowZero(ld, N, t))
<1> DEFINE idx == RowZero(ld, N, t)
<1>1. idx = [n \in Rows(N) |-> ld.at[Where(R, t, n) + 1] + N \div 2]
  BY DEF RowZero, Where, Loaded
<1>2. \A n \in Rows(N) : Where(R, t, n) \in Rows(R * N)
  <2> SUFFICES ASSUME NEW n \in Rows(N) PROVE Where(R, t, n) \in Rows(R * N)
    OBVIOUS
  <2>1. n \in Nat /\ n < N
    BY DEF Rows
  <2>2. Where(1, t, n) = n /\ Where(2, t, n) \in Nat /\ Where(2, t, n) <= 2 * n
    BY <2>1, WhereIs
  <2>3. CASE R = 1
    BY <2>1, <2>2, <2>3 DEF Rows
  <2>4. CASE R = 2
    BY <2>1, <2>2, <2>4 DEF Rows
  <2> QED
    BY <2>3, <2>4
<1>3. \A n \in Rows(N) : /\ Found(native, R, N, t, n) \in Rows(N)
                         /\ ld.at[Where(R, t, n) + 1] = c[Found(native, R, N, t, n)]
  BY <1>2 DEF Loaded, Filled, Found
<1> HIDE DEF idx
<1>4. idx = [n \in Rows(N) |-> idx[n]]
  BY <1>1
<1>5. \A n \in Rows(N) : idx[n] = c[Found(native, R, N, t, n)] + N \div 2
  BY <1>1, <1>3
<1> QED
  BY <1>3, <1>4, <1>5 DEF RowRead, idx

(* What classify_output.py should see, from the lanes c. *)
Shown(c, N) == [n \in Rows(N) |-> c[n] + N \div 2]

(* The right reading shows the lanes as they are. *)
LEMMA RightRowZero ==
  ASSUME CTile \in Nat \ {0}, NEW N \in Nat \ {0}, NEW c, NEW native \in BOOLEAN, NEW R \in {1, 2},
         NEW ld, Loaded(c, N, native, R, ld)
  PROVE  /\ RowZero(ld, N, Right(native, R)) = Shown(c, N)
         /\ R = 1 => \A t \in Nat : RowZero(ld, N, t) = Shown(c, N)
<1>1. ASSUME NEW t \in Nat, \A n \in Rows(N) : Found(native, R, N, t, n) = n
      PROVE  RowZero(ld, N, t) = Shown(c, N)
  <2> DEFINE idx == RowZero(ld, N, t)
  <2>1. RowRead(c, native, R, N, t, idx)
    BY RowZeroIs
  <2> HIDE DEF idx
  <2>2. idx = [n \in Rows(N) |-> idx[n]] /\ \A n \in Rows(N) : idx[n] = c[n] + N \div 2
    BY <1>1, <2>1 DEF RowRead
  <2>3. idx = Shown(c, N)
    BY <2>2 DEF Shown
  <2> QED
    BY <2>3 DEF idx
<1>2. RowZero(ld, N, Right(native, R)) = Shown(c, N)
  <2>1. Right(native, R) \in Nat
    BY DEF Right
  <2>2. \A n \in Rows(N) : Found(native, R, N, Right(native, R), n) = n
    BY RightReading
  <2> QED
    BY <1>1, <2>1, <2>2
<1>3. ASSUME R = 1, NEW t \in Nat PROVE RowZero(ld, N, t) = Shown(c, N)
  <2>1. \A n \in Rows(N) : Found(native, R, N, t, n) = n
    BY <1>3, OneRow
  <2> QED
    BY <1>1, <2>1
<1> QED
  BY <1>2, <1>3

(* A wrong reading of two rows shows two lanes the same. *)
LEMMA WrongRowZero ==
  ASSUME CTile \in Nat \ {0}, CTile % 2 = 0, NEW N \in Nat \ {0}, N % (2 * CTile) = 0,
         NEW c, NEW native \in BOOLEAN, NEW t \in {0, CTile, CTile \div 2}, t # Right(native, 2),
         NEW ld, Loaded(c, N, native, 2, ld)
  PROVE  \E m \in Rows(N) : /\ m # 0 /\ 0 \in Rows(N) /\ RowZero(ld, N, t)[m] = RowZero(ld, N, t)[0]
                            /\ native /\ t = 0 => m = CTile
<1>1. t \in Nat
  OBVIOUS
<1> DEFINE idx == RowZero(ld, N, t)
<1>2. RowRead(c, native, 2, N, t, idx)
  BY <1>1, RowZeroIs
<1>3. Found(native, 2, N, t, 0) = 0
      /\ \E m \in Rows(N) : /\ m # 0 /\ Found(native, 2, N, t, m) = 0
                            /\ native /\ t = 0 => m = CTile
  BY WrongReading
<1>4. PICK m \in Rows(N) : /\ m # 0 /\ Found(native, 2, N, t, m) = 0
                           /\ native /\ t = 0 => m = CTile
  BY <1>3
<1>5. 0 \in Rows(N)
  BY DEF Rows
<1> HIDE DEF idx
<1>6. idx[m] = idx[0]
  BY <1>2, <1>3, <1>4, <1>5 DEF RowRead
<1> QED
  BY <1>4, <1>5, <1>6 DEF idx

(* So if all lanes of the interpretation chosen are right, all lanes were.  *)
LEMMA AllRight ==
  ASSUME CTile \in Nat \ {0}, CTile % 2 = 0, NEW N \in Nat \ {0}, N % (2 * CTile) = 0,
         NEW c, NEW native \in BOOLEAN, NEW R \in {1, 2},
         NEW ld, Loaded(c, N, native, R, ld), Score(BestReading(ld, N, 2), N) = N
  PROVE  \A n \in Rows(N) : Shown(c, N)[n] = n
<1>1. PICK t \in {0, CTile, CTile \div 2} : BestReading(ld, N, 2) = RowZero(ld, N, t)
  BY BestIs DEF BestAt
<1> DEFINE idx == RowZero(ld, N, t)
<1>2. \A n \in Rows(N) : idx[n] = n
  <2> HIDE DEF idx
  <2>1. Score(idx, N) = N
    BY <1>1 DEF idx
  <2>2. \A n \in Rows(N) : idx[n] = n => n < N
    BY DEF Rows
  <2>3. \A m \in Rows(N) : idx[m] # m => Score(idx, N) < N
    BY <2>2, ScoreAtMost
  <2> QED
    BY <2>1, <2>3
<1>3. CASE R = 1 \/ t = Right(native, R)
  <2>1. t \in Nat
    OBVIOUS
  <2>2. idx = Shown(c, N)
    BY <1>3, <2>1, RightRowZero
  <2> QED
    BY <1>2, <2>2
<1>4. CASE R = 2 /\ t # Right(native, R)
  <2>1. \E m \in Rows(N) : m # 0 /\ 0 \in Rows(N) /\ idx[m] = idx[0]
    BY <1>4, WrongRowZero
  <2> QED
    BY <1>2, <2>1
<1> QED
  BY <1>3, <1>4

(* The lanes below h tell their kernel, and no lane tells another.          *)
TellBelow(c, N, h) ==
  /\ \A n \in Rows(h) : Shown(c, N)[n] = n
  /\ \A n \in Rows(N) : Shown(c, N)[n] \in Rows(N) => Shown(c, N)[n] < h

(* Then they are what the chosen interpretation shows. *)
LEMMA BestTells ==
  ASSUME CTile \in Nat \ {0}, CTile % 2 = 0, NEW N \in Nat \ {0}, N % (2 * CTile) = 0,
         NEW c, NEW native \in BOOLEAN, NEW R \in {1, 2},
         NEW ld, Loaded(c, N, native, R, ld), NEW h \in Nat, CTile < h, h <= N, TellBelow(c, N, h)
  PROVE  BestReading(ld, N, 2) = Shown(c, N) /\ Score(Shown(c, N), N) = h
<1>1. PICK t \in {0, CTile, CTile \div 2} : BestAt(ld, N, 2, t)
  BY BestIs
<1>2. t \in Nat /\ Right(native, R) \in Nat /\ CTile # 0 /\ CTile \div 2 # CTile /\ CTile \div 2 # 0
  BY DEF Right
<1>3. \A u \in Nat : \A n \in Rows(N) : RowZero(ld, N, u)[n] = n => n < h
  <2> SUFFICES ASSUME NEW u \in Nat, NEW n \in Rows(N), RowZero(ld, N, u)[n] = n PROVE n < h
    OBVIOUS
  <2> DEFINE idx == RowZero(ld, N, u)
             x == Found(native, R, N, u, n)
  <2>1. RowRead(c, native, R, N, u, idx)
    BY RowZeroIs
  <2> HIDE DEF idx
  <2>2. x \in Rows(N) /\ idx[n] = c[x] + N \div 2
    BY <2>1 DEF RowRead
  <2>3. idx[n] = Shown(c, N)[x]
    <3> HIDE DEF x
    <3> QED
      BY <2>2 DEF Shown
  <2>4. idx[n] = n
    BY DEF idx
  <2> HIDE DEF x
  <2> QED
    BY <2>2, <2>3, <2>4 DEF TellBelow
<1>4. \A u \in Nat : Score(RowZero(ld, N, u), N) <= h /\ Score(RowZero(ld, N, u), N) \in Nat
  <2> SUFFICES ASSUME NEW u \in Nat
               PROVE  Score(RowZero(ld, N, u), N) <= h /\ Score(RowZero(ld, N, u), N) \in Nat
    OBVIOUS
  <2> DEFINE idx == RowZero(ld, N, u)
  <2>1. \A n \in Rows(N) : idx[n] = n => n < h
    BY <1>3
  <2> HIDE DEF idx
  <2>2. Score(idx, N) <= h /\ Score(idx, N) \in Nat
    BY <2>1, ScoreAtMost, ScoreIs
  <2> QED
    BY <2>2 DEF idx
<1>5. RowZero(ld, N, Right(native, R)) = Shown(c, N)
  BY RightRowZero
<1>6. Score(Shown(c, N), N) = h
  <2> DEFINE idx == Shown(c, N)
  <2>1. \A n \in Rows(N) : idx[n] = n => n < h
    BY <1>2, <1>3, <1>5
  <2>2. \A n \in Rows(h) : idx[n] = n
    BY DEF TellBelow
  <2> HIDE DEF idx
  <2>3. Score(idx, N) = h
    BY <2>1, <2>2, ScoreAtMost
  <2> QED
    BY <2>3 DEF idx
<1>7. BestReading(ld, N, 2) = RowZero(ld, N, t)
  BY <1>1 DEF BestAt
<1>8. CASE R = 1
  BY <1>2, <1>6, <1>7, <1>8, RightRowZero
<1>9. CASE R = 2 /\ native = FALSE
  <2>1. Right(native, R) = 0
    BY <1>9 DEF Right
  <2>2. Score(RowZero(ld, N, 0), N) = h
    BY <1>5, <1>6, <2>1
  <2>3. t # 0 => Score(RowZero(ld, N, 0), N) < Score(RowZero(ld, N, t), N)
    BY <1>1 DEF BestAt
  <2>4. t = 0
    BY <1>2, <1>4, <2>2, <2>3
  <2> QED
    BY <1>5, <1>6, <1>7, <2>1, <2>4
<1>10. CASE R = 2 /\ native = TRUE
  <2>1. Right(native, R) = CTile
    BY <1>10 DEF Right
  <2>2. Score(RowZero(ld, N, CTile), N) = h
    BY <1>5, <1>6, <2>1
  <2>3. (ld.rows * N) % (CTile * 2) = 0
    <3> DEFINE g == 2 * CTile
               e == N \div g
    <3>1. g \in Nat \ {0} /\ N % g = 0 /\ CTile * 2 = g
      OBVIOUS
    <3> HIDE DEF g
    <3>2. N = e * g /\ e \in Nat
      BY <3>1, Multiple
    <3>3. ld.rows = 2
      BY <1>10 DEF Loaded
    <3> HIDE DEF e
    <3> DEFINE y == 2 * e
    <3>4. 2 * N = y * g /\ y \in Nat
      BY <3>1, <3>2
    <3> HIDE DEF y
    <3>5. (2 * N) % g = 0
      BY <3>1, <3>4, Multiples
    <3> QED
      BY <3>1, <3>3, <3>5
  <2>4. /\ Score(RowZero(ld, N, CTile), N) <= Score(RowZero(ld, N, t), N)
        /\ t = CTile \div 2 => Score(RowZero(ld, N, CTile), N) < Score(RowZero(ld, N, t), N)
    BY <1>1, <2>3 DEF BestAt
  <2>5. Score(RowZero(ld, N, 0), N) < h
    <3> DEFINE idx == RowZero(ld, N, 0)
    <3>1. 0 \in {0, CTile, CTile \div 2} /\ 0 # Right(native, 2)
      BY <1>2, <1>10, <2>1
    <3>2. idx[CTile] = idx[0]
      <4>1. Loaded(c, N, native, 2, ld) /\ 0 # Right(native, 2)
        BY <1>10, <3>1
      <4> DEFINE u == 0
      <4>2. u \in {0, CTile, CTile \div 2} /\ u # Right(native, 2) /\ u = 0
        BY <3>1
      <4> HIDE DEF u
      <4>3. PICK m \in Rows(N) : /\ m # 0 /\ 0 \in Rows(N) /\ RowZero(ld, N, u)[m] = RowZero(ld, N, u)[0]
                                 /\ native /\ u = 0 => m = CTile
        BY <4>1, <4>2, WrongRowZero
      <4>4. m = CTile
        BY <1>10, <4>2, <4>3
      <4>5. RowZero(ld, N, u) = idx
        BY <4>2
      <4> HIDE DEF idx
      <4> QED
        BY <4>3, <4>4, <4>5
    <3>3. \A n \in Rows(N) : idx[n] = n => n < h
      BY <1>3
    <3>4. 0 \in Rows(h) /\ CTile \in Rows(h)
      BY DEF Rows
    <3> HIDE DEF idx
    <3>5. \A m \in Rows(h) : idx[m] # m => Score(idx, N) < h
      BY <3>3, ScoreAtMost
    <3> QED
      BY <1>2, <3>2, <3>4, <3>5 DEF idx
  <2>6. t # 0
    BY <1>4, <2>2, <2>4, <2>5
  <2>7. t # CTile \div 2
    BY <1>2, <1>4, <2>2, <2>4
  <2>8. t = CTile
    BY <2>6, <2>7
  <2> QED
    BY <1>5, <1>6, <1>7, <2>1, <2>8
<1> QED
  BY <1>8, <1>9, <1>10

-----------------------------------------------------------------------------
(* The lanes of a fault                                                     *)

(* The kernel-id kit of a bank, as it was written. *)
Probe(kind, K, N, dense) ==
  /\ kind \in {"kernelid", "ksweep"} /\ dense \in BOOLEAN /\ <<K, N>> \in KitShapes
  /\ kind = "ksweep" => N % NLead = 0
  /\ IsInt4(SumBank(K, N, dense))
  /\ kit = Files(kind, Ones(K), SumBank(K, N, dense), K, N, {2})
  /\ meta = [kind |-> kind, K |-> K, N |-> N, M |-> 2]

(* It is a kit as it may be emitted, and intact. *)
LEMMA ProbeIs ==
  ASSUME KitAssumption, NEW kind, NEW K, NEW N, NEW dense, Probe(kind, K, N, dense)
  PROVE  /\ Emits(kind, Ones(K), SumBank(K, N, dense), K, N, {2}) /\ kind # "shape"
         /\ DOMAIN kit = FilesOf(kind, N, {2})
         /\ \A f \in FilesOf(kind, N, {2}) : AsWritten(kit, f, Ones(K), SumBank(K, N, dense), K, N)
<1>1. Emits(kind, Ones(K), SumBank(K, N, dense), K, N, {2})
  BY KernelIdEmits DEF Probe
<1> DEFINE B == SumBank(K, N, dense)
<1>2. kit = Files(kind, Ones(K), B, K, N, {2})
  BY DEF Probe
<1>3. DOMAIN kit = FilesOf(kind, N, {2}) /\ \A f \in FilesOf(kind, N, {2}) : AsWritten(kit, f, Ones(K), B, K, N)
  <2> HIDE DEF B
  <2> QED
    BY <1>2, FilesAre
<1>4. kind # "shape"
  BY DEF Probe
<1> QED
  BY <1>1, <1>3, <1>4

(* What the fault of a board says of the tilings. *)
BankFault(fl, N) ==
  /\ fl.nt \in Nat \ {0} /\ N % fl.nt = 0 /\ fl.nt \in NTiles \cup {NLead \div 2}
  /\ fl.h \in NTiles /\ N % fl.h = 0 /\ fl.swap \in BOOLEAN

(* Each fault is of a kind, with the tilings it is of. *)
LEMMA FaultsAre ==
  ASSUME KitAssumption, NEW kind, NEW K, NEW N, NEW dense, Probe(kind, K, N, dense),
         NEW fl \in Faults(N)
  PROVE  \/ fl.kind = "bank" /\ BankFault(fl, N) /\ <<"B_nat", fl.nt>> \in BFiles(kind, N)
         \/ fl.kind = "tiled" /\ fl.h \in NTiles /\ N % fl.h = 0 /\ fl.h # N
         \/ fl.kind = "first tile" /\ N > NLead
         \/ fl.kind = "stride"
<1> DEFINE B == SumBank(K, N, dense)
           tiles == {t \in NTiles : N % t = 0}
<1>0. Emits(kind, Ones(K), B, K, N, {2}) /\ DOMAIN kit = FilesOf(kind, N, {2})
  BY ProbeIs
<1>1. CASE \E f \in {g \in DOMAIN kit : g[1] = "B_nat"}, h \in tiles, swap \in BOOLEAN :
             fl = Fault("bank", f[2], h, swap)
  <2>1. PICK f \in DOMAIN kit, h \in tiles, swap \in BOOLEAN :
          f[1] = "B_nat" /\ fl = Fault("bank", f[2], h, swap)
    BY <1>1
  <2>2. f \in BFiles(kind, N)
    <3>1. f \notin ACFiles({2})
      BY <2>1 DEF ACFiles
    <3> QED
      BY <1>0, <2>1, <3>1 DEF FilesOf
  <2>3. f # <<"B_normal", 0>>
    BY <2>1
  <2>4. f[2] \in Nat \ {0} /\ N % f[2] = 0
    <3> HIDE DEF B
    <3> QED
      BY <1>0, <2>2, <2>3, BankTiles
  <2>5. f = <<"B_nat", f[2]>> /\ f[2] \in NTiles \cup {NLead, NLead \div 2}
    BY <2>1, <2>2 DEF BFiles
  <2>6. NLead \in NTiles
    <3>1. NTiles # {}
      BY ShapesAre DEF Probe
    <3> QED
      BY <3>1, TilesAre
  <2>7. fl.kind = "bank" /\ fl.nt = f[2] /\ fl.h = h /\ fl.swap = swap
    BY <2>1 DEF Fault
  <2>8. <<"B_nat", f[2]>> \in BFiles(kind, N)
    BY <2>2, <2>5
  <2>9. BankFault(fl, N)
    BY <2>4, <2>5, <2>6, <2>7 DEF BankFault
  <2> QED
    BY <2>7, <2>8, <2>9
<1>2. CASE \E h \in tiles \ {N} : fl = Fault("tiled", 0, h, FALSE)
  BY <1>2 DEF Fault
<1>3. CASE N > NLead /\ fl = Fault("first tile", 0, 0, FALSE)
  BY <1>3 DEF Fault
<1>4. CASE fl = Fault("stride", 0, 0, FALSE)
  BY <1>4 DEF Fault
<1>5. fl \in BankFaults(N) =>
        \E f \in {g \in DOMAIN kit : g[1] = "B_nat"}, h \in tiles, swap \in BOOLEAN :
          fl = Fault("bank", f[2], h, swap)
  BY DEF BankFaults
<1>6. \/ fl \in BankFaults(N)
      \/ \E h \in tiles \ {N} : fl = Fault("tiled", 0, h, FALSE)
      \/ N > NLead /\ fl = Fault("first tile", 0, 0, FALSE)
      \/ fl = Fault("stride", 0, 0, FALSE)
  BY DEF Faults
<1> QED
  BY <1>1, <1>2, <1>3, <1>4, <1>5, <1>6

(* A lane is an integer. *)
LEMMA LaneSumIsInt ==
  ASSUME KitAssumption, NEW K, NEW N, <<K, N>> \in KitShapes, NEW h \in Nat \ {0}, N % h = 0,
         NEW swap \in BOOLEAN, NEW n \in Rows(N), NEW b \in Bytes(K * N)
  PROVE  LaneSum(b, K, N, h, swap, n) \in Int
<1> DEFINE lay == BNative(K, N, h)
           E   == {q \in DOMAIN lay : lay[q][2] = n}
           g   == [p \in E |-> Nibble(b, p - 1, swap)]
<1>1. /\ K \in Nat \ {0} /\ N \in Nat \ {0} /\ N % 2 = 0
  BY ShapesAre
<1>2. PICK m \in Nat : m = K * N
  BY <1>1
<1>3. m % 2 = 0
  BY <1>1, <1>2, EvenTimes
<1>4. DOMAIN lay = 1 .. m
  BY <1>2 DEF BNative
<1>5. \A p \in 1 .. m : Nibble(b, p - 1, swap) \in Int
  <2> SUFFICES ASSUME NEW p \in 1 .. m PROVE Nibble(b, p - 1, swap) \in Int
    OBVIOUS
  <2> DEFINE q == p - 1
  <2>1. q \in Rows(m)
    BY DEF Rows
  <2> HIDE DEF q
  <2>2. q \div 2 + 1 \in 1 .. m \div 2
    BY <1>3, <2>1, Halves
  <2>3. b[q \div 2 + 1] \in Nibbles \X Nibbles
    BY <1>2, <2>2 DEF Bytes
  <2>4. b[q \div 2 + 1][1] \in Int /\ b[q \div 2 + 1][2] \in Int
    BY <2>3 DEF Nibbles
  <2>5. Nibble(b, q, swap) \in Int
    BY <2>4 DEF Nibble, Signed
  <2> QED
    BY <2>5 DEF q
<1>6. E \in SUBSET (1 .. m) /\ g \in [E -> Int]
  <2>1. E \in SUBSET (1 .. m)
    BY <1>4
  <2> HIDE DEF E
  <2>2. \A p \in E : Nibble(b, p - 1, swap) \in Int
    BY <1>5, <2>1
  <2> QED
    BY <2>1, <2>2
<1>7. IsFiniteSet(E)
  <2>1. IsFiniteSet(1 .. m)
    BY FS_Interval
  <2> HIDE DEF E
  <2> QED
    BY <1>6, <2>1, FS_Subset
<1>8. LaneSum(b, K, N, h, swap, n) = Total(g)
  BY DEF LaneSum
<1> HIDE DEF g, E
<1>9. Total(g) \in Int
  BY <1>6, <1>7, TotalIsInt
<1> QED
  BY <1>8, <1>9

(* The lanes of a fault. *)
Lanes(fl, K, N) == [n \in Rows(N) |-> Lane(fl, K, N, n)]

(* A tiled file of the bank holds the bytes of the bank. *)
LEMMA BankContent ==
  ASSUME KitAssumption, NEW kind, NEW K, NEW N, NEW dense, Probe(kind, K, N, dense),
         NEW nt, <<"B_nat", nt>> \in BFiles(kind, N), NEW B, B = SumBank(K, N, dense),
         NEW b, b = kit[<<"B_nat", nt>>]
  PROVE  b = BankBytes(K, N, nt, B) /\ b \in Bytes(K * N)
<1> DEFINE f == <<"B_nat", nt>>
<1>1. Emits(kind, Ones(K), B, K, N, {2}) /\ AsWritten(kit, f, Ones(K), B, K, N)
  <2>1. f \in FilesOf(kind, N, {2})
    BY DEF FilesOf
  <2> HIDE DEF f
  <2> QED
    BY <2>1, ProbeIs
<1>2. kit[f] = Pack(Stored(BNative(K, N, nt), B), FALSE)
  BY <1>1 DEF AsWritten, Content
<1>3. OfBank(f) /\ f \in PackedFiles(kind, N, {2})
  BY DEF OfBank, PackedFiles
<1>4. kit[f] \in Bytes(Height(f, K) * Width(f, K, N))
  <2> HIDE DEF f
  <2> QED
    BY <1>1, <1>3, WrittenReads
<1>5. Height(f, K) = K /\ Width(f, K, N) = N
  BY <1>3 DEF Height, Width
<1> QED
  BY <1>2, <1>4, <1>5 DEF BankBytes

(* The lanes of every fault are integers. *)
LEMMA LanesAre ==
  ASSUME KitAssumption, NEW kind, NEW K, NEW N, NEW dense, Probe(kind, K, N, dense),
         NEW fl \in Faults(N)
  PROVE  Lanes(fl, K, N) \in [Rows(N) -> Int]
<1>1. SUFFICES ASSUME NEW n \in Rows(N) PROVE Lane(fl, K, N, n) \in Int
  BY DEF Lanes
<1>2. K \in Nat \ {0} /\ N \in Nat \ {0} /\ IntMax \in Nat /\ n \in Nat /\ <<K, N>> \in KitShapes
  BY ShapesAre DEF Probe, Rows
<1>3. CASE fl.kind = "bank" /\ BankFault(fl, N) /\ <<"B_nat", fl.nt>> \in BFiles(kind, N)
  <2> DEFINE nt == fl.nt
             h == fl.h
             swap == fl.swap
             b == kit[<<"B_nat", nt>>]
             B == SumBank(K, N, dense)
  <2>1. b \in Bytes(K * N)
    <3>1. <<"B_nat", nt>> \in BFiles(kind, N) /\ B = SumBank(K, N, dense) /\ b = kit[<<"B_nat", nt>>]
      BY <1>3
    <3> HIDE DEF nt, B, b
    <3> QED
      BY <3>1, BankContent
  <2>2. h \in Nat \ {0} /\ N % h = 0 /\ swap \in BOOLEAN
    BY <1>3, TilesAre DEF BankFault, TileOf
  <2>3. Lane(fl, K, N, n) = LaneSum(b, K, N, h, swap, n)
    BY <1>3 DEF Lane
  <2> HIDE DEF b, h, swap
  <2> QED
    BY <1>2, <2>1, <2>2, <2>3, LaneSumIsInt
<1>4. CASE fl.kind = "tiled" /\ fl.h \in NTiles
  <2>1. fl.h \in Nat \ {0}
    BY <1>4, TilesAre DEF TileOf
  <2>2. Lane(fl, K, N, n) = (n % fl.h) - N \div 2
    BY <1>4 DEF Lane
  <2> QED
    BY <1>2, <2>1, <2>2
<1>5. CASE fl.kind = "first tile"
  <2>1. Lane(fl, K, N, n) = IF n < NLead THEN n - N \div 2 ELSE -IntMax
    BY <1>5 DEF Lane
  <2> QED
    BY <1>2, <2>1
<1>6. CASE fl.kind = "stride"
  <2>1. Lane(fl, K, N, n) = ((2 * n) % N) - N \div 2
    BY <1>6 DEF Lane
  <2> QED
    BY <1>2, <2>1
<1> QED
  BY <1>3, <1>4, <1>5, <1>6, FaultsAre

-----------------------------------------------------------------------------
(* classify_output.py                                                       *)

(* It says correct when all lanes are right, and only then. *)
LEMMA CorrectIff ==
  ASSUME NEW N, NEW idx
  PROVE  Diagnose(idx, N) = <<"correct", 0>> <=> Score(idx, N) = N
<1>1. CASE Score(idx, N) = N
  BY <1>1 DEF Diagnose
<1>2. CASE Score(idx, N) # N /\ TiledAt(idx, N) # {}
  <2>1. Diagnose(idx, N) = <<"tiled", Max(TiledAt(idx, N))>>
    BY <1>2 DEF Diagnose
  <2> QED
    BY <1>2, <2>1
<1>3. CASE Score(idx, N) # N /\ TiledAt(idx, N) = {}
  <2>1. Diagnose(idx, N)[1] \in {"stride", "first tile", "unrecognised"}
    BY <1>3 DEF Diagnose
  <2>2. <<"correct", 0>>[1] = "correct"
    OBVIOUS
  <2>3. Diagnose(idx, N) # <<"correct", 0>>
    BY <2>1, <2>2
  <2> QED
    BY <1>3, <2>3
<1> QED
  BY <1>1, <1>2, <1>3

(* The kernel modulo the tiling: it is that of no other tiling. *)
LEMMA TiledNamed ==
  ASSUME KitAssumption, NEW N \in Nat \ {0}, NEW h \in NTiles, N % h = 0, h # N, NEW idx,
         \A n \in Rows(N) : idx[n] = n % h, Score(idx, N) = h
  PROVE  Diagnose(idx, N) = <<"tiled", h>>
<1>1. h \in Nat \ {0} /\ \A b \in NTiles : b \in Nat \ {0}
  BY TilesAre DEF TileOf
<1>2. h < N
  <2> DEFINE e == N \div h
  <2>1. N = e * h /\ e \in Nat /\ e # 0
    BY <1>1, Multiple
  <2> HIDE DEF e
  <2>2. h <= e * h
    BY <1>1, <2>1
  <2> QED
    BY <1>1, <2>1, <2>2
<1>3. TiledAt(idx, N) = {h}
  <2>1. h \in TiledAt(idx, N)
    BY DEF TiledAt
  <2>2. ASSUME NEW b \in TiledAt(idx, N) PROVE b = h
    <3>1. b \in Nat \ {0} /\ \A n \in Rows(N) : n % h = n % b
      BY <1>1 DEF TiledAt
    <3>2. CASE b < h
      <4>1. b \in Rows(N) /\ b % b = 0 /\ b % h = b
        BY <1>1, <1>2, <3>1, <3>2 DEF Rows
      <4> QED
        BY <3>1, <4>1
    <3>3. CASE h < b
      <4>1. h \in Rows(N) /\ h % h = 0 /\ h % b = h
        BY <1>1, <1>2, <3>1, <3>3 DEF Rows
      <4> QED
        BY <1>1, <3>1, <4>1
    <3> QED
      BY <1>1, <3>1, <3>2, <3>3
  <2> QED
    BY <2>1, <2>2
<1>4. Max({h}) = h
  <2> DEFINE S == {h}
  <2>1. IsFiniteSet(S) /\ S # {} /\ S \subseteq Int
    <3>1. IsFiniteSet({h})
      BY FS_Singleton
    <3> QED
      BY <1>1, <3>1
  <2>2. \A x \in S : x = h
    OBVIOUS
  <2> HIDE DEF S
  <2>3. Max(S) = h
    BY <2>1, <2>2, MaxIs
  <2> QED
    BY <2>3 DEF S
<1>5. Score(idx, N) # N
  BY <1>1, <1>2
<1> QED
  BY <1>3, <1>4, <1>5 DEF Diagnose

(* The kernel in the first tile, and past it none. *)
LEMMA FirstTileNamed ==
  ASSUME KitAssumption, NEW N \in Nat \ {0}, NLead \in NTiles, N > NLead, NEW idx,
         \A n \in Rows(NLead) : idx[n] = n,
         \A n \in Rows(N) : ~(n < NLead) => idx[n] \in Int /\ idx[n] < 0,
         Score(idx, N) = NLead
  PROVE  Diagnose(idx, N) = <<"first tile", 0>>
<1> DEFINE L == NLead
<1>1. L \in Nat \ {0} /\ L % (2 * CTile) = 0 /\ CTile \in Nat \ {0} /\ L \in Rows(N)
  BY TilesAre DEF TileOf, Rows
<1>2. 2 <= L
  <2> DEFINE g == 2 * CTile
             e == L \div g
  <2>1. g \in Nat \ {0} /\ L % g = 0 /\ 2 <= g
    BY <1>1
  <2> HIDE DEF g, L
  <2>2. L = e * g /\ e \in Nat /\ e # 0
    BY <1>1, <2>1, Multiple
  <2> HIDE DEF e
  <2>3. g <= e * g
    BY <2>1, <2>2
  <2> QED
    BY <2>1, <2>2, <2>3
<1>3. TiledAt(idx, N) = {}
  <2>1. ASSUME NEW b \in TiledAt(idx, N) PROVE FALSE
    <3>1. b \in Nat \ {0} /\ \A n \in Rows(N) : idx[n] = n % b
      BY TilesAre DEF TiledAt, TileOf
    <3>2. idx[L] < 0 /\ idx[L] = L % b
      BY <1>1, <3>1
    <3> QED
      BY <1>1, <3>1, <3>2
  <2> QED
    BY <2>1
<1>4. ~\A n \in Rows((N - 1) \div 2) : idx[n + 1] - idx[n] = 2
  <2>1. 0 \in Rows((N - 1) \div 2)
    BY <1>1, <1>2 DEF Rows
  <2>2. idx[0] = 0 /\ idx[0 + 1] = 1
    BY <1>1, <1>2 DEF Rows
  <2> QED
    BY <2>1, <2>2
<1>5. {n \in Rows(N) : idx[n] \in Rows(N)} = Rows(Min({L, N}))
  <2>1. Min({L, N}) = L
    <3> DEFINE S == {L, N}
    <3>1. IsFiniteSet(S)
      BY PairFinite, Zenon
    <3>2. S # {} /\ S \subseteq Int /\ L \in S /\ \A x \in S : L <= x
      BY <1>1
    <3> HIDE DEF S, L
    <3>3. Min(S) \in S /\ Min(S) <= L /\ L <= Min(S) /\ Min(S) \in Int
      BY <3>1, <3>2, MinIs
    <3>4. Min(S) = L
      BY <1>1, <3>3
    <3> QED
      BY <3>4 DEF S
  <2>2. \A n \in Rows(N) : idx[n] \in Rows(N) <=> n < L
    BY <1>1 DEF Rows
  <2>3. {n \in Rows(N) : idx[n] \in Rows(N)} = Rows(L)
    BY <1>1, <2>2 DEF Rows
  <2> QED
    BY <2>1, <2>3
<1>6. Score(idx, N) # N
  BY <1>1
<1> QED
  BY <1>3, <1>4, <1>5, <1>6 DEF Diagnose

(* What load_c and the interpretations make of the buffer. *)
SaidOf(fl, K, N, native, form) ==
  Diagnose(BestReading(LoadC(Buffer(Lanes(fl, K, N), N, native, form[1], form[2]), N, 2), N, 2), N)

(* The sizes the buffer depends on. *)
LEMMA KitSizes ==
  ASSUME KitAssumption, NEW K, NEW N, <<K, N>> \in KitShapes
  PROVE  /\ K \in Nat \ {0} /\ N \in Nat \ {0} /\ N % (2 * CTile) = 0 /\ N % CTile = 0
         /\ CTile \in Nat \ {0} /\ CTile % 2 = 0
         /\ \A t \in NTiles : t \in Nat \ {0} /\ CTile < t
<1>1. K \in Nat \ {0} /\ N \in Nat \ {0} /\ N % CTile = 0 /\ CTile \in Nat \ {0} /\ CTile % 2 = 0
  BY ShapesAre, TilesAre DEF KitAssumption
<1>2. PICK t \in NTiles : N % t = 0
  BY ShapesAre
<1> DEFINE g == 2 * CTile
<1>3. g \in Nat \ {0} /\ CTile < g
  BY <1>1
<1>4. \A u \in NTiles : u \in Nat \ {0} /\ u % g = 0
  BY TilesAre DEF TileOf
<1> HIDE DEF g
<1>5. N % g = 0
  BY <1>1, <1>2, <1>3, <1>4, MultipleOfMultiple
<1>6. \A u \in NTiles : CTile < u
  <2> SUFFICES ASSUME NEW u \in NTiles PROVE CTile < u
    OBVIOUS
  <2> DEFINE e == u \div g
  <2>1. u = e * g /\ e \in Nat /\ e # 0 /\ u \in Nat
    BY <1>3, <1>4, Multiple
  <2> HIDE DEF e
  <2>2. g <= e * g
    BY <1>3, <2>1
  <2> QED
    BY <1>1, <1>3, <2>1, <2>2
<1> QED
  BY <1>1, <1>4, <1>5, <1>6 DEF g

(* What is said is said of the lanes as they are. *)
LEMMA ShownNamed ==
  ASSUME KitAssumption, NEW kind, NEW K, NEW N, NEW dense, Probe(kind, K, N, dense),
         NEW fl \in Faults(N), NEW native \in BOOLEAN, NEW form, Legible(form, native)
  PROVE  /\ \A h \in Nat : CTile < h /\ h <= N /\ TellBelow(Lanes(fl, K, N), N, h) =>
              /\ SaidOf(fl, K, N, native, form) = Diagnose(Shown(Lanes(fl, K, N), N), N)
              /\ Score(Shown(Lanes(fl, K, N), N), N) = h
         /\ SaidOf(fl, K, N, native, form) = <<"correct", 0>> =>
              \A n \in Rows(N) : Shown(Lanes(fl, K, N), N)[n] = n
<1> DEFINE c == Lanes(fl, K, N)
           R == RowsRead(form)
           buf == Buffer(c, N, native, form[1], form[2])
           ld == LoadC(buf, N, 2)
<1>1. /\ K \in Nat \ {0} /\ N \in Nat \ {0} /\ N % (2 * CTile) = 0 /\ N % CTile = 0
      /\ CTile \in Nat \ {0} /\ CTile % 2 = 0
  BY KitSizes DEF Probe
<1>2. c \in [Rows(N) -> Int]
  BY LanesAre
<1>3. R \in {1, 2}
  BY DEF RowsRead
<1>4. SaidOf(fl, K, N, native, form) = Diagnose(BestReading(ld, N, 2), N)
  BY DEF SaidOf
<1> HIDE DEF c, R
<1>5. Loaded(c, N, native, R, ld)
  <2>1. buf = Buffer(c, N, native, form[1], form[2])
    OBVIOUS
  <2> HIDE DEF buf
  <2> QED
    BY <1>1, <1>2, <2>1, ReadBack DEF R
<1> HIDE DEF ld
<1>6. ASSUME NEW h \in Nat, CTile < h, h <= N, TellBelow(c, N, h)
      PROVE  BestReading(ld, N, 2) = Shown(c, N) /\ Score(Shown(c, N), N) = h
  BY <1>1, <1>3, <1>5, <1>6, BestTells
<1>7. ASSUME Diagnose(BestReading(ld, N, 2), N) = <<"correct", 0>>
      PROVE  \A n \in Rows(N) : Shown(c, N)[n] = n
  <2>1. Score(BestReading(ld, N, 2), N) = N
    BY <1>7, CorrectIff
  <2> QED
    BY <1>1, <1>3, <1>5, <2>1, AllRight
<1> QED
  BY <1>4, <1>6, <1>7 DEF c

(* A divisor is not larger. *)
LEMMA DivisorAtMost ==
  ASSUME NEW N \in Nat \ {0}, NEW h \in Nat \ {0}, N % h = 0
  PROVE  h <= N
<1> DEFINE e == N \div h
<1>1. N = e * h /\ e \in Nat /\ e # 0
  BY Multiple
<1> HIDE DEF e
<1>2. h <= e * h
  BY <1>1
<1> QED
  BY <1>1, <1>2

(* A bank that is read as one of its own bytes is called correct, *)
LEMMA OwnTilingNamed ==
  ASSUME KitAssumption, NEW kind, NEW K, NEW N, NEW dense, Probe(kind, K, N, dense),
         NEW fl \in Faults(N), NEW native \in BOOLEAN, NEW form, Legible(form, native),
         fl.kind = "bank", fl.nt = fl.h \/ K = KitTile
  PROVE  SaidOf(fl, K, N, native, form) = <<"correct", 0>>
<1> DEFINE c == Lanes(fl, K, N)
           B == SumBank(K, N, dense)
           h == fl.h
           nt == fl.nt
           b == kit[<<"B_nat", nt>>]
           swap == fl.swap
<1>1. BankFault(fl, N) /\ <<"B_nat", nt>> \in BFiles(kind, N)
  BY FaultsAre
<1>2. Emits(kind, Ones(K), B, K, N, {2}) /\ kind # "shape"
  BY ProbeIs
<1>3. /\ <<K, N>> \in KitShapes /\ K \in Nat \ {0} /\ N \in Nat \ {0}
      /\ \A t \in NTiles : t \in Nat \ {0} /\ CTile < t
  BY KitSizes DEF Probe
<1>4. h \in Nat \ {0} /\ N % h = 0 /\ nt \in Nat \ {0} /\ swap \in BOOLEAN /\ CTile < h
  BY <1>1, <1>3 DEF BankFault
<1>5. b = BankBytes(K, N, h, B)
  <2>1. b = BankBytes(K, N, nt, B)
    <3>1. B = SumBank(K, N, dense) /\ b = kit[<<"B_nat", nt>>]
      OBVIOUS
    <3> HIDE DEF B, nt, b
    <3> QED
      BY <1>1, <3>1, BankContent
  <2>2. BNative(K, N, nt) = BNative(K, N, h)
    <3>1. nt = h \/ K = KitTile
      OBVIOUS
    <3> HIDE DEF nt, h
    <3> QED
      BY <1>3, <1>4, <3>1, SameTile
  <2> QED
    BY <2>1, <2>2 DEF BankBytes
<1>6. In(B, K, N, -8 .. 7) /\ \A n \in Rows(N) : ColumnSum(B, K, n) = n - N \div 2
  <2> HIDE DEF B
  <2> QED
    BY <1>2 DEF Emits
<1>7. \A n \in Rows(N) : c[n] = LaneSum(b, K, N, h, swap, n)
  BY DEF Lanes, Lane
<1> HIDE DEF B, b, h, swap, nt
<1>8. \A n \in Rows(N) : LaneSum(b, K, N, h, swap, n) = ColumnSum(B, K, n)
  BY <1>3, <1>4, <1>5, <1>6, OwnTiling
<1> HIDE DEF c
<1>9. \A n \in Rows(N) : c[n] = n - N \div 2
  BY <1>6, <1>7, <1>8
<1>10. \A n \in Rows(N) : Shown(c, N)[n] = n /\ n < N
  BY <1>3, <1>9 DEF Shown, Rows
<1>11. TellBelow(c, N, N)
  BY <1>10 DEF TellBelow
<1>12. CTile < N
  <2>1. h <= N
    BY <1>3, <1>4, DivisorAtMost
  <2>2. CTile \in Nat
    BY DEF KitAssumption
  <2> QED
    BY <1>3, <1>4, <2>1, <2>2
<1>13. N \in Nat /\ N <= N
  BY <1>3
<1>14. SaidOf(fl, K, N, native, form) = Diagnose(Shown(c, N), N) /\ Score(Shown(c, N), N) = N
  BY <1>11, <1>12, <1>13, ShownNamed DEF c
<1> QED
  BY <1>14, CorrectIff

(* a wrong tiling is not, if the banks tell their tilings, *)
LEMMA WrongTilingNamed ==
  ASSUME KitAssumption, TilingsTold, NEW kind, NEW K, NEW N, NEW dense, Probe(kind, K, N, dense),
         NEW fl \in Faults(N), NEW native \in BOOLEAN, NEW form, Legible(form, native),
         fl.kind = "bank", fl.nt # fl.h, K # KitTile
  PROVE  SaidOf(fl, K, N, native, form) # <<"correct", 0>>
<1> DEFINE c == Lanes(fl, K, N)
           B == SumBank(K, N, dense)
           b == kit[<<"B_nat", fl.nt>>]
<1>1. BankFault(fl, N) /\ <<"B_nat", fl.nt>> \in BFiles(kind, N)
  BY FaultsAre
<1>2. b = Pack(Stored(BNative(K, N, fl.nt), B), FALSE)
  <2> DEFINE nt == fl.nt
  <2>1. B = SumBank(K, N, dense) /\ <<"B_nat", nt>> \in BFiles(kind, N) /\ b = kit[<<"B_nat", nt>>]
    BY <1>1
  <2> HIDE DEF B, nt, b
  <2>2. b = BankBytes(K, N, nt, B)
    BY <2>1, BankContent
  <2> QED
    BY <2>2 DEF nt, BankBytes
<1>3. \A n \in Rows(N) : c[n] = LaneSum(b, K, N, fl.h, fl.swap, n)
  BY DEF Lanes, Lane
<1>4. <<K, N>> \in KitShapes /\ dense \in BOOLEAN /\ IsInt4(B) /\ N \in Nat \ {0}
  BY KitSizes DEF Probe
<1>5. TellsTilings(K, N, dense)
  <2> DEFINE s == <<K, N>>
  <2>1. s \in KitShapes /\ s[1] = K /\ s[2] = N
    BY <1>4
  <2> HIDE DEF s
  <2>2. TellsTilings(s[1], s[2], dense)
    BY <1>4, <2>1 DEF TilingsTold
  <2> QED
    BY <2>1, <2>2
<1>6. \E n \in Rows(N) : LaneSum(b, K, N, fl.h, fl.swap, n) # n - N \div 2
  <2> DEFINE nt == fl.nt
             h == fl.h
             swap == fl.swap
  <2>1. /\ nt \in {t \in NTiles \cup {NLead \div 2} : t # 0 /\ N % t = 0}
        /\ h \in {t \in NTiles : N % t = 0} /\ swap \in BOOLEAN /\ nt # h
    BY <1>1 DEF BankFault
  <2>2. b = Pack(Stored(BNative(K, N, nt), B), FALSE)
    BY <1>2
  <2> HIDE DEF nt, h, swap, b
  <2>3. \E n \in Rows(N) : LaneSum(b, K, N, h, swap, n) # n - N \div 2
    BY <1>5, <2>1, <2>2 DEF TellsTilings
  <2> QED
    BY <2>3 DEF h, swap
<1>7. PICK n \in Rows(N) : LaneSum(b, K, N, fl.h, fl.swap, n) # n - N \div 2
  BY <1>6
<1> HIDE DEF b
<1>8. Shown(c, N)[n] # n
  <2>1. c \in [Rows(N) -> Int]
    BY LanesAre
  <2> HIDE DEF c
  <2>2. c[n] # n - N \div 2 /\ c[n] \in Int
    BY <1>3, <1>7, <2>1
  <2>3. Shown(c, N)[n] = c[n] + N \div 2
    BY DEF Shown
  <2>4. n \in Nat /\ N \div 2 \in Nat
    BY <1>4 DEF Rows
  <2> QED
    BY <2>2, <2>3, <2>4
<1> QED
  BY <1>8, ShownNamed DEF c

(* and the faults of the fetch are named. *)
LEMMA FetchNamed ==
  ASSUME KitAssumption, NEW kind, NEW K, NEW N, NEW dense, Probe(kind, K, N, dense),
         NEW fl \in Faults(N), NEW native \in BOOLEAN, NEW form, Legible(form, native)
  PROVE  /\ fl.kind = "tiled"      => SaidOf(fl, K, N, native, form) = <<"tiled", fl.h>>
         /\ fl.kind = "first tile" => SaidOf(fl, K, N, native, form) = <<"first tile", 0>>
<1> DEFINE c == Lanes(fl, K, N)
<1>1. /\ K \in Nat \ {0} /\ N \in Nat \ {0} /\ N <= IntMax /\ IntMax \in Nat /\ NLead \in NTiles
      /\ \A t \in NTiles : t \in Nat \ {0} /\ CTile < t
  <2>1. <<K, N>> \in KitShapes
    BY DEF Probe
  <2>2. NTiles # {} /\ N <= IntMax /\ IntMax \in Nat
    BY <2>1, ShapesAre
  <2> QED
    BY <2>1, <2>2, KitSizes, TilesAre
<1>2. CASE fl.kind = "tiled"
  <2> DEFINE h == fl.h
  <2>1. h \in NTiles /\ N % h = 0 /\ h # N
    BY <1>2, FaultsAre
  <2>2. h \in Nat /\ h # 0 /\ CTile < h
    BY <1>1, <2>1
  <2>3. h <= N
    <3> HIDE DEF h
    <3> QED
      BY <1>1, <2>1, <2>2, DivisorAtMost
  <2>4. \A n \in Rows(N) : c[n] = (n % h) - N \div 2
    BY <1>2 DEF Lanes, Lane
  <2> HIDE DEF c, h
  <2>5. \A n \in Rows(N) : Shown(c, N)[n] = n % h /\ n % h \in Nat /\ n % h < h
    <3> SUFFICES ASSUME NEW n \in Rows(N)
                 PROVE  Shown(c, N)[n] = n % h /\ n % h \in Nat /\ n % h < h
      OBVIOUS
    <3>1. n \in Nat
      BY DEF Rows
    <3>2. n % h \in Nat /\ n % h < h
      BY <2>2, <3>1
    <3>3. Shown(c, N)[n] = ((n % h) - N \div 2) + N \div 2
      BY <2>4 DEF Shown
    <3> QED
      BY <1>1, <3>2, <3>3
  <2>6. \A n \in Rows(h) : n \in Rows(N) /\ n % h = n
    BY <1>1, <2>2, <2>3 DEF Rows
  <2>7. TellBelow(c, N, h)
    BY <2>5, <2>6 DEF TellBelow
  <2>8. SaidOf(fl, K, N, native, form) = Diagnose(Shown(c, N), N) /\ Score(Shown(c, N), N) = h
    BY <2>2, <2>3, <2>7, ShownNamed DEF c
  <2> DEFINE idx == Shown(c, N)
  <2>9. \A n \in Rows(N) : idx[n] = n % h
    BY <2>5
  <2> HIDE DEF idx
  <2>10. Diagnose(idx, N) = <<"tiled", h>>
    BY <1>1, <2>1, <2>8, <2>9, TiledNamed DEF idx
  <2> QED
    BY <1>2, <2>8, <2>10 DEF idx, h
<1>3. CASE fl.kind = "first tile"
  <2> DEFINE L == NLead
  <2>1. L \in Nat /\ L # 0 /\ CTile < L /\ L \in NTiles
    BY <1>1
  <2>2. L < N
    BY <1>1, <1>3, FaultsAre
  <2>3. \A n \in Rows(N) : c[n] = IF n < L THEN n - N \div 2 ELSE -IntMax
    BY <1>3 DEF Lanes, Lane
  <2> HIDE DEF c, L
  <2> DEFINE idx == Shown(c, N)
  <2>4. \A n \in Rows(N) : idx[n] = c[n] + N \div 2
    BY DEF Shown
  <2> HIDE DEF idx
  <2>5. \A n \in Rows(N) : /\ n < L => idx[n] = n
                           /\ ~(n < L) => idx[n] \in Int /\ idx[n] < 0
    BY <1>1, <2>3, <2>4 DEF Rows
  <2>6. \A n \in Rows(L) : n \in Rows(N) /\ n < L /\ n \in Nat
    BY <1>1, <2>1, <2>2 DEF Rows
  <2>7. TellBelow(c, N, L)
    <3>1. \A n \in Rows(N) : idx[n] \in Rows(N) => idx[n] < L
      <4>1. \A n \in Rows(N) : idx[n] \in Rows(N) => n < L
        BY <2>5 DEF Rows
      <4> QED
        BY <2>5, <4>1
    <3>2. \A n \in Rows(L) : idx[n] = n
      BY <2>5, <2>6
    <3> QED
      BY <3>1, <3>2 DEF TellBelow, idx
  <2>8. SaidOf(fl, K, N, native, form) = Diagnose(idx, N) /\ Score(idx, N) = L
    <3>1. L <= N
      BY <1>1, <2>1, <2>2
    <3> QED
      BY <2>1, <2>7, <3>1, ShownNamed DEF c, idx
  <2>9. Diagnose(idx, N) = <<"first tile", 0>>
    <3>1. \A n \in Rows(NLead) : idx[n] = n
      BY <2>5, <2>6 DEF L
    <3>2. \A n \in Rows(N) : ~(n < NLead) => idx[n] \in Int /\ idx[n] < 0
      BY <2>5 DEF L
    <3>3. NLead \in NTiles /\ N > NLead /\ Score(idx, N) = NLead
      BY <1>1, <2>1, <2>2, <2>8 DEF L
    <3> QED
      BY <1>1, <3>1, <3>2, <3>3, FirstTileNamed
  <2> QED
    BY <1>3, <2>8, <2>9
<1> QED
  BY <1>2, <1>3

-----------------------------------------------------------------------------
(* The invariant of the board                                               *)

(* The board ran the kit. *)
Ran(K, N) ==
  \E fl \in Faults(N), native \in BOOLEAN, form \in Forms :
    board = [fault |-> fl, native |-> native, form |-> form,
             buf |-> Buffer(Lanes(fl, K, N), N, native, form[1], form[2])]

(* The invariant: the board did not run and a kernel-id kit is intact       *)
(* unless damaged, or it ran one.                                           *)
BoardInv ==
  \/ /\ board = NoBoard /\ said = NoFile
     /\ meta.M = 2 /\ damage = NoFile => \E kind, K, N, dense : Probe(kind, K, N, dense)
  \/ \E kind, K, N, dense :
       /\ Probe(kind, K, N, dense) /\ Ran(K, N)
       /\ said \in {NoFile, Diagnose(BestReading(LoadC(board.buf, N, 2), N, 2), N)}

(* A board that ran has something to show. *)
LEMMA BoardRan ==
  ASSUME NEW K, NEW N, Ran(K, N)
  PROVE  board # NoBoard
<1>1. PICK fl \in Faults(N), native \in BOOLEAN, form \in Forms :
        board = [fault |-> fl, native |-> native, form |-> form,
                 buf |-> Buffer(Lanes(fl, K, N), N, native, form[1], form[2])]
  BY DEF Ran
<1>2. "native" \in DOMAIN board
  BY <1>1
<1>3. "native" \notin DOMAIN NoBoard
  BY DEF NoBoard
<1> QED
  BY <1>2, <1>3

(* A kernel-id kit has files. *)
LEMMA ProbeNotEmpty ==
  ASSUME KitAssumption, NEW kind, NEW K, NEW N, NEW dense, Probe(kind, K, N, dense)
  PROVE  kit # << >>
<1>1. DOMAIN kit = FilesOf(kind, N, {2})
  BY ProbeIs
<1>2. <<"B_normal", 0>> \in FilesOf(kind, N, {2})
  BY DEF FilesOf, BFiles
<1>3. DOMAIN << >> = {}
  OBVIOUS
<1> QED
  BY <1>1, <1>2, <1>3, Zenon

(* They depend on the kit alone, and the kit is not changed. *)
LEMMA SameKit ==
  ASSUME kit' = kit, NEW N, NEW K
  PROVE  Faults(N)' = Faults(N) /\ \A fl : Lanes(fl, K, N)' = Lanes(fl, K, N)
<1>1. BankFaults(N)' = BankFaults(N)
  BY SMT DEF BankFaults
<1>2. Faults(N)' = Faults(N)
  BY <1>1, Zenon DEF Faults
<1>3. ASSUME NEW fl PROVE Lanes(fl, K, N)' = Lanes(fl, K, N)
  <2>1. \A n : Lane(fl, K, N, n)' = Lane(fl, K, N, n)
    BY Zenon DEF Lane
  <2> QED
    BY <2>1, Zenon DEF Lanes
<1> QED
  BY <1>2, <1>3

(* So the run of a kit stays one. *)
LEMMA SameRun ==
  ASSUME kit' = kit, meta' = meta, board' = board, NEW kind, NEW K, NEW N, NEW dense,
         Probe(kind, K, N, dense), Ran(K, N)
  PROVE  Probe(kind, K, N, dense)' /\ Ran(K, N)'
<1>1. Probe(kind, K, N, dense)'
  BY DEF Probe
<1>2. Faults(N)' = Faults(N) /\ \A fl : Lanes(fl, K, N)' = Lanes(fl, K, N)
  BY SameKit
<1>3. Ran(K, N)'
  BY <1>2 DEF Ran
<1> QED
  BY <1>1, <1>3

(* Every step keeps the invariant. *)
LEMMA BoardInvInductive ==
  ASSUME KitAssumption, BoardInv, [KitNext]_kitVars
  PROVE  BoardInv'
<1>0. ASSUME kit' = kit, meta' = meta, damage' = damage, board' = board, said' = said PROVE BoardInv'
  <2>1. CASE /\ board = NoBoard /\ said = NoFile
             /\ meta.M = 2 /\ damage = NoFile => \E kind, K, N, dense : Probe(kind, K, N, dense)
    <3>1. (\E kind, K, N, dense : Probe(kind, K, N, dense)) =>
            \E kind, K, N, dense : Probe(kind, K, N, dense)'
      BY <1>0 DEF Probe
    <3> QED
      BY <1>0, <2>1, <3>1 DEF BoardInv
  <2>2. CASE ~(/\ board = NoBoard /\ said = NoFile
               /\ meta.M = 2 /\ damage = NoFile => \E kind, K, N, dense : Probe(kind, K, N, dense))
    <3>1. PICK kind, K, N, dense :
            /\ Probe(kind, K, N, dense) /\ Ran(K, N)
            /\ said \in {NoFile, Diagnose(BestReading(LoadC(board.buf, N, 2), N, 2), N)}
      BY <2>2 DEF BoardInv
    <3>2. Probe(kind, K, N, dense)' /\ Ran(K, N)'
      BY <1>0, <3>1, SameRun
    <3>3. said' \in {NoFile, Diagnose(BestReading(LoadC(board'.buf, N, 2), N, 2), N)}
      BY <1>0, <3>1
    <3> QED
      BY <3>2, <3>3 DEF BoardInv
  <2> QED
    BY <2>1, <2>2
<1>1. CASE UNCHANGED kitVars
  BY <1>0, <1>1 DEF kitVars
<1>2. ASSUME kit = << >> PROVE board = NoBoard /\ said = NoFile
  BY <1>2, ProbeNotEmpty DEF BoardInv
<1>3. ASSUME NEW K, NEW N, NEW A, NEW B, EmitShape(K, N, A, B) PROVE BoardInv'
  <2>1. kit = << >> /\ meta'.M = 0 /\ board' = board /\ said' = said
    BY <1>3 DEF EmitShape
  <2> QED
    BY <1>2, <2>1 DEF BoardInv
<1>4. ASSUME NEW s \in KitShapes, NEW kind \in {"kernelid", "ksweep"}, NEW dense \in BOOLEAN,
             kind = "ksweep" => s[2] % NLead = 0, KernelIdKit(kind, s[1], s[2], dense)
      PROVE  BoardInv'
  <2>1. <<s[1], s[2]>> \in KitShapes
    BY DEF KitAssumption
  <2>2. /\ kit = << >> /\ IsInt4(SumBank(s[1], s[2], dense)) /\ board' = board /\ said' = said
        /\ kit' = Files(kind, Ones(s[1]), SumBank(s[1], s[2], dense), s[1], s[2], {2})
        /\ meta' = [kind |-> kind, K |-> s[1], N |-> s[2], M |-> 2]
    BY <1>4 DEF KernelIdKit, Ones
  <2>3. Probe(kind, s[1], s[2], dense)'
    BY <1>4, <2>1, <2>2 DEF Probe
  <2> QED
    BY <1>2, <2>2, <2>3 DEF BoardInv
<1>5. ASSUME NEW f \in DOMAIN kit, NEW i \in DOMAIN kit[f], Damage(f, i) PROVE BoardInv'
  <2>1. /\ damage = NoFile /\ board = NoBoard /\ damage' = f
        /\ meta' = meta /\ board' = board /\ said' = said
    BY <1>5 DEF Damage
  <2>2. said = NoFile /\ (meta.M = 2 => \E kind, K, N, dense : Probe(kind, K, N, dense))
    BY <2>1, BoardRan DEF BoardInv
  <2>3. CASE meta.M # 2
    BY <2>1, <2>2, <2>3 DEF BoardInv
  <2>4. CASE meta.M = 2
    <3>1. PICK kind, K, N, dense : Probe(kind, K, N, dense)
      BY <2>2, <2>4
    <3> DEFINE A == Ones(K)
               B == SumBank(K, N, dense)
    <3>2. Emits(kind, A, B, K, N, {2}) /\ DOMAIN kit = FilesOf(kind, N, {2})
      BY <3>1, ProbeIs
    <3> HIDE DEF A, B
    <3>3. f # NoFile
      BY <3>2, NoFileIsNone
    <3> QED
      BY <2>1, <2>2, <3>3 DEF BoardInv
  <2> QED
    BY <2>3, <2>4
<1>6. ASSUME Verify PROVE BoardInv'
  BY <1>0, <1>6 DEF Verify
<1>7. ASSUME NEW fl \in Faults(meta.N), NEW native \in BOOLEAN, NEW form \in Forms, meta.M = 2,
             RunBoard(fl, native, form)
      PROVE  BoardInv'
  <2>1. /\ board = NoBoard /\ damage = NoFile
        /\ board' = [fault |-> fl, native |-> native, form |-> form,
                     buf |-> Buffer(Lanes(fl, meta.K, meta.N), meta.N, native, form[1], form[2])]
        /\ kit' = kit /\ meta' = meta /\ said' = said
    BY <1>7 DEF RunBoard, Lanes
  <2>2. said = NoFile /\ \E kind, K, N, dense : Probe(kind, K, N, dense)
    BY <1>7, <2>1, BoardRan DEF BoardInv
  <2>3. PICK kind, K, N, dense : Probe(kind, K, N, dense)
    BY <2>2
  <2>4. meta.K = K /\ meta.N = N
    BY <2>3 DEF Probe
  <2>5. Probe(kind, K, N, dense)'
    BY <2>1, <2>3 DEF Probe
  <2>6. Ran(K, N)'
    <3>1. Faults(N)' = Faults(N) /\ \A g : Lanes(g, K, N)' = Lanes(g, K, N)
      BY <2>1, SameKit
    <3> QED
      BY <1>7, <2>1, <2>4, <3>1 DEF Ran
  <2> QED
    BY <2>1, <2>2, <2>5, <2>6 DEF BoardInv
<1>8. ASSUME Classify PROVE BoardInv'
  <2>1. /\ board # NoBoard /\ kit' = kit /\ meta' = meta /\ board' = board
        /\ said' = Diagnose(BestReading(LoadC(board.buf, meta.N, meta.M), meta.N, meta.M), meta.N)
    BY <1>8 DEF Classify
  <2>2. PICK kind, K, N, dense : Probe(kind, K, N, dense) /\ Ran(K, N)
    BY <2>1 DEF BoardInv
  <2>3. meta.N = N /\ meta.M = 2
    BY <2>2 DEF Probe
  <2>4. Probe(kind, K, N, dense)' /\ Ran(K, N)'
    BY <2>1, <2>2, SameRun
  <2>5. said' = Diagnose(BestReading(LoadC(board'.buf, N, 2), N, 2), N)
    BY <2>1, <2>3
  <2> QED
    BY <2>4, <2>5 DEF BoardInv
<1> QED
  <2>1. CASE \E s \in KitShapes :
              \/ EmitShape(s[1], s[2], Mixed(Max(Ms), s[1]), Mixed(s[1], s[2]))
              \/ EmitShape(s[1], s[2], Extreme(Max(Ms), s[1]), Extreme(s[1], s[2]))
    BY <1>3, <2>1
  <2>2. CASE \E s \in KitShapes :
              \/ EmitKernelId(s[1], s[2])
              \/ \E dense \in BOOLEAN : EmitKSweep(s[1], s[2], dense)
    BY <1>4, <2>2 DEF EmitKernelId, EmitKSweep
  <2> QED
    BY <1>1, <1>5, <1>6, <1>7, <1>8, <2>1, <2>2 DEF KitNext

(* It holds at first. *)
LEMMA InitBoard == ASSUME KitInit PROVE BoardInv
  BY DEF KitInit, BoardInv, NoMeta

(* It implies the diagnosis. *)
LEMMA BoardInvSays ==
  ASSUME KitAssumption, BoardInv, said # NoFile, Readable
  PROVE  BankNamed /\ FaultNamed /\ (TilingsTold => WrongTilingShows)
<1>1. PICK kind, K, N, dense :
        /\ Probe(kind, K, N, dense) /\ Ran(K, N)
        /\ said = Diagnose(BestReading(LoadC(board.buf, N, 2), N, 2), N)
  BY DEF BoardInv
<1>2. PICK fl \in Faults(N), native \in BOOLEAN, form \in Forms :
        board = [fault |-> fl, native |-> native, form |-> form,
                 buf |-> Buffer(Lanes(fl, K, N), N, native, form[1], form[2])]
  BY <1>1 DEF Ran
<1>3. board.fault = fl /\ board.native = native /\ board.form = form /\ meta.K = K
      /\ board.buf = Buffer(Lanes(fl, K, N), N, native, form[1], form[2])
  BY <1>1, <1>2 DEF Probe
<1>4. said = SaidOf(fl, K, N, native, form)
  BY <1>1, <1>3 DEF SaidOf
<1>5. Legible(form, native)
  BY <1>3 DEF Readable, Legible
<1>6. BankNamed
  BY <1>1, <1>3, <1>4, <1>5, OwnTilingNamed DEF BankNamed
<1>7. FaultNamed
  <2>1. /\ fl.kind = "tiled"      => SaidOf(fl, K, N, native, form) = <<"tiled", fl.h>>
        /\ fl.kind = "first tile" => SaidOf(fl, K, N, native, form) = <<"first tile", 0>>
    BY <1>1, <1>5, FetchNamed
  <2> QED
    BY <1>3, <1>4, <2>1 DEF FaultNamed
<1>8. TilingsTold => WrongTilingShows
  BY <1>1, <1>3, <1>4, <1>5, WrongTilingNamed DEF WrongTilingShows
<1> QED
  BY <1>6, <1>7, <1>8

(* The interpretation of a readable buffer does not depend on how it was    *)
(* laid out: the right tiling of a bank, the tiling fault and the fetch of  *)
(* one tile are called by their names.                                      *)
THEOREM FaultsNamed ==
  ASSUME KitAssumption
  PROVE  KitSpec => [](said # NoFile /\ Readable => BankNamed /\ FaultNamed)
<1>1. KitInit => BoardInv
  BY InitBoard
<1>2. BoardInv /\ [KitNext]_kitVars => BoardInv'
  BY BoardInvInductive
<1>3. BoardInv => (said # NoFile /\ Readable => BankNamed /\ FaultNamed)
  BY BoardInvSays
<1> QED
  BY <1>1, <1>2, <1>3, PTL DEF KitSpec

(* The diagnosis is true of every kit whose banks tell their tilings. *)
THEOREM DiagnosisIsTrue ==
  ASSUME KitAssumption, TilingsTold
  PROVE  KitSpec => []DiagnosisTrue
<1>1. KitInit => BoardInv
  BY InitBoard
<1>2. BoardInv /\ [KitNext]_kitVars => BoardInv'
  BY BoardInvInductive
<1>3. BoardInv => DiagnosisTrue
  BY BoardInvSays DEF DiagnosisTrue
<1> QED
  BY <1>1, <1>2, <1>3, PTL DEF KitSpec

=============================================================================
