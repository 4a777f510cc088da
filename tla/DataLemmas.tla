----------------------------- MODULE DataLemmas ------------------------------
(*****************************************************************************)
(* What the proofs need of the models' data: the least of a set of numbers,  *)
(* remainders and the multiples of a number, the paths of a tree, and the    *)
(* sums that SumFunctionOnSet stands for.  Induction on numbers and sets is  *)
(* a search for the least counterexample.                                    *)
(*****************************************************************************)
EXTENDS Integers, FiniteSets, FiniteSetsExt, Functions, FiniteSetTheorems,
        WellFoundedInduction, TLAPS

(* Leaves are for Zenon, unless they name the SMT solver.                  *)
USE Zenon

(* The order of the natural numbers, as a relation.                          *)
Less == {ss \in Nat \X Nat : ss[1] < ss[2]}

(* A set of numbers has a least one.                                       *)
LEMMA Least ==
  ASSUME NEW S \in SUBSET Nat, S # {}
  PROVE  \E n \in S : \A k \in S : n <= k
<1>1. IsWellFoundedOn(Less, Nat)
  BY NatLessThanWellFounded DEF OpToRel, Less
<1>2. PICK n \in S : \A k \in S : ~(<<k, n>> \in Less)
  BY <1>1, WFMin
<1>3. ASSUME NEW k \in S, k < n PROVE FALSE
  <2>1. <<k, n>> \in Less
    BY <1>3, SMT DEF Less
  <2> QED BY <2>1, <1>2
<1>4. \A k \in S : n <= k
  BY <1>3, SMT
<1> QED BY <1>4

(* A set of numbers contains its Min.                                       *)
LEMMA Smallest ==
  ASSUME NEW S \in SUBSET Nat, S # {}
  PROVE  Min(S) \in S /\ \A k \in S : Min(S) <= k
<1>1. PICK x \in S : \A k \in S : x <= k
  BY Least
<1> QED BY <1>1 DEF Min

(* The largest of a set of numbers up to n.                                  *)
LEMMA Largest ==
  ASSUME NEW n \in Nat, NEW S \in SUBSET (0..n), S # {}
  PROVE  Max(S) \in S /\ \A s \in S : Max(S) >= s
<1> DEFINE R == {k \in Nat : n - k \in S}
<1>1. R # {}
  <2>1. PICK s \in S : TRUE
    OBVIOUS
  <2>2. n - s \in Nat /\ n - (n - s) = s
    BY SMT
  <2> QED BY <2>1, <2>2
<1>2. PICK k \in R : \A j \in R : k <= j
  BY <1>1, Least
<1>3. ASSUME NEW s \in S PROVE n - k >= s
  <2>1. n - s \in Nat /\ n - (n - s) = s /\ s \in Int
    BY SMT
  <2>2. k <= n - s
    BY <1>2, <2>1
  <2> QED BY <2>1, <2>2, SMT
<1>4. \E m \in S : \A s \in S : m >= s
  BY <1>2, <1>3
<1> QED BY <1>4 DEF Max

-----------------------------------------------------------------------------
(* What a remainder is.                                                      *)
LEMMA Divided ==
  ASSUME NEW M \in Nat \ {0}, NEW h \in Nat
  PROVE  h % M \in 0..M - 1 /\ \E q \in Int : h = (M * q) + (h % M)
<1>1. h % M \in 0..M - 1
  BY SMT
<1>2. h = (M * (h \div M)) + (h % M)
  BY SMT
<1>3. h \div M \in Int
  BY SMT
<1> QED BY <1>1, <1>2, <1>3

(* A number less than M away from a multiple of M below it has that          *)
(* distance for its remainder.                                               *)
LEMMA RemainderIs ==
  ASSUME NEW M \in Nat \ {0}, NEW q \in Int, NEW r \in 0..M - 1, (M * q) + r \in Nat
  PROVE  ((M * q) + r) % M = r
<1> DEFINE h == (M * q) + r
<1>1. PICK p \in Int : h = (M * p) + (h % M)
  BY Divided
<1>2. h % M \in 0..M - 1
  BY Divided
<1> DEFINE s == h % M
<1>3. (M * q) + r = (M * p) + s /\ s \in 0..M - 1
  BY <1>1, <1>2
<1> HIDE DEF s, h
<1>4. M \in Int /\ M > 0 /\ r \in Int /\ s \in Int /\ M * q \in Int /\ M * p \in Int
  BY <1>3, SMT
<1>5. CASE q = p
  BY <1>3, <1>4, <1>5, SMT DEF s, h
<1>6. CASE q > p
  <2>1. M * q >= M * (p + 1)
    BY <1>4, <1>6, SMT
  <2>2. M * (p + 1) = (M * p) + M
    BY <1>4, SMT
  <2> QED BY <2>1, <2>2, <1>3, <1>4, SMT
<1>7. CASE q < p
  <2>1. M * p >= M * (q + 1)
    BY <1>4, <1>7, SMT
  <2>2. M * (q + 1) = (M * q) + M
    BY <1>4, SMT
  <2> QED BY <2>1, <2>2, <1>3, <1>4, SMT
<1> QED BY <1>5, <1>6, <1>7, SMT

(* Different multiples of M are at least M apart.                            *)
LEMMA MultiplesApart ==
  ASSUME NEW M \in Nat \ {0}, NEW h \in Nat, NEW k \in Nat, h % M = 0, k % M = 0, h < k
  PROVE  h + M <= k
<1>1. PICK p \in Int : h = (M * p) + (h % M)
  BY Divided
<1>2. PICK q \in Int : k = (M * q) + (k % M)
  BY Divided
<1>3. h = M * p /\ k = M * q /\ M * p \in Int /\ M * q \in Int
  BY <1>1, <1>2, SMT
<1>4. p < q
  <2>1. SUFFICES ASSUME q <= p PROVE FALSE
    BY SMT
  <2>2. M * q <= M * p
    BY <2>1, SMT
  <2> QED BY <1>3, <2>2, SMT
<1>5. M * (p + 1) <= M * q
  BY <1>4, SMT
<1>6. M * (p + 1) = (M * p) + M
  BY SMT
<1> QED BY <1>3, <1>5, <1>6, SMT

(* Every number is less than M above a multiple of M.                        *)
LEMMA MultipleBelow ==
  ASSUME NEW M \in Nat \ {0}, NEW k \in Nat
  PROVE  /\ k - (k % M) \in 0..k /\ (k - (k % M)) % M = 0
         /\ k <= (k - (k % M)) + M - 1
<1>1. PICK q \in Int : k = (M * q) + (k % M)
  BY Divided
<1>2. k % M \in 0..M - 1
  BY Divided
<1> DEFINE r == k % M
<1>3. k = (M * q) + r /\ r \in 0..M - 1 /\ M * q \in Int
  BY <1>1, <1>2, SMT
<1> HIDE DEF r
<1>4. q >= 0
  <2>1. SUFFICES ASSUME q <= -1 PROVE FALSE
    BY SMT
  <2>2. M * q <= M * (-1)
    BY <2>1, SMT
  <2> QED BY <1>3, <2>2, SMT
<1>5. M * q >= 0
  BY <1>4, SMT
<1>6. (M * q) + 0 \in Nat /\ 0 \in 0..M - 1
  BY <1>3, <1>5, SMT
<1>7. ((M * q) + 0) % M = 0
  BY <1>6, RemainderIs
<1>8. (M * q) + 0 = k - r
  BY <1>3, SMT
<1>9. (k - r) % M = 0
  BY <1>7, <1>8
<1>10. k - r \in 0..k /\ k <= (k - r) + M - 1
  BY <1>3, <1>5, SMT
<1> QED BY <1>9, <1>10 DEF r

-----------------------------------------------------------------------------
(* A tree, given by the parents of its nodes B, their heights and the paths  *)
(* from the root G.                                                          *)
IsTree(B, G, Up, Ht, P) ==
  /\ G \in B /\ Up \in [B \ {G} -> B] /\ Ht \in [B -> Nat] /\ P \in [B -> SUBSET B]
  /\ Ht[G] = 0 /\ P[G] = {G}
  /\ \A b \in B \ {G} : Ht[b] = Ht[Up[b]] + 1 /\ P[b] = P[Up[b]] \cup {b}

(* The path to b has one node for each height up to its own, and contains    *)
(* the paths to its nodes.                                                   *)
IsPathTo(b, G, Ht, P) ==
  /\ b \in P[b] /\ G \in P[b]
  /\ \A h \in 0..Ht[b] : \E a \in P[b] : Ht[a] = h
  /\ \A a \in P[b] : Ht[a] <= Ht[b] /\ P[a] \subseteq P[b]
  /\ \A a, c \in P[b] : Ht[a] <= Ht[c] => a \in P[c]
  /\ \A a, c \in P[b] : Ht[a] = Ht[c] => a = c

(* One step of the induction: the path to a node from the one to its parent. *)
LEMMA PathGrows ==
  ASSUME NEW B, NEW G, NEW Up, NEW Ht, NEW P, IsTree(B, G, Up, Ht, P),
         NEW b \in B \ {G}, IsPathTo(Up[b], G, Ht, P)
  PROVE  IsPathTo(b, G, Ht, P)
<1> DEFINE p == Up[b]
<1>1. /\ p \in B /\ P[b] = P[p] \cup {b} /\ P[p] \subseteq B
      /\ Ht[p] \in Nat /\ Ht[b] = Ht[p] + 1 /\ \A a \in P[p] : Ht[a] \in Nat
  BY DEF IsTree
<1>2. IsPathTo(p, G, Ht, P)
  OBVIOUS
<1> HIDE DEF p
<1>3. Ht[b] \in Nat /\ \A a \in P[p] : Ht[a] <= Ht[p] /\ ~(Ht[b] <= Ht[a])
  <2>1. \A a \in P[p] : Ht[a] <= Ht[p]
    BY <1>2 DEF IsPathTo
  <2> QED BY <1>1, <2>1, SMT
<1>4. \A a \in P[b] : Ht[a] <= Ht[b]
  BY <1>1, <1>3, SMT
<1>5. \A h \in 0..Ht[b] : h \in 0..Ht[p] \/ h = Ht[b]
  BY <1>1, SMT
<1>6. \A h \in 0..Ht[b] : \E a \in P[b] : Ht[a] = h
  BY <1>1, <1>2, <1>5 DEF IsPathTo
<1>7. b \in P[b] /\ G \in P[b]
  BY <1>1, <1>2 DEF IsPathTo
<1>8. \A a \in P[b] : P[a] \subseteq P[b]
  BY <1>1, <1>2 DEF IsPathTo
<1>9. ASSUME NEW a \in P[b], NEW c \in P[b], Ht[a] <= Ht[c] PROVE a \in P[c]
  <2>1. CASE c = b
    BY <2>1
  <2>2. CASE c # b
    BY <1>1, <1>2, <1>3, <1>9, <2>2 DEF IsPathTo
  <2> QED BY <2>1, <2>2
<1>10. ASSUME NEW a \in P[b], NEW c \in P[b], Ht[a] = Ht[c] PROVE a = c
  <2>1. \A d \in P[p] : Ht[d] # Ht[b]
    BY <1>1, <1>3, SMT
  <2> QED BY <1>1, <1>2, <1>10, <2>1 DEF IsPathTo
<1> QED BY <1>4, <1>6, <1>7, <1>8, <1>9, <1>10 DEF IsPathTo

(* The paths of a tree are what they should be: the node of least height     *)
(* whose path is not would have a parent whose path is.                      *)
LEMMA PathsOfTree ==
  ASSUME NEW B, NEW G, NEW Up, NEW Ht, NEW P, IsTree(B, G, Up, Ht, P)
  PROVE  \A b \in B : IsPathTo(b, G, Ht, P)
<1> DEFINE Bad == {b \in B : ~IsPathTo(b, G, Ht, P)}
           S == {n \in Nat : \E b \in Bad : Ht[b] = n}
<1>1. ASSUME Bad # {} PROVE FALSE
  <2>1. S \in SUBSET Nat /\ S # {}
    BY <1>1 DEF IsTree
  <2>2. PICK n \in S : \A k \in S : n <= k
    <3> HIDE DEF S
    <3> QED BY <2>1, Least
  <2>3. PICK b \in Bad : Ht[b] = n
    BY <2>2
  <2>4. IsPathTo(G, G, Ht, P)
    <3>1. \A h \in 0..0 : h = 0
      BY SMT
    <3>2. 0 <= 0
      BY SMT
    <3>3. Ht[G] = 0 /\ P[G] = {G}
      BY DEF IsTree
    <3> QED BY <3>1, <3>2, <3>3 DEF IsPathTo
  <2>5. b \in B \ {G}
    BY <2>3, <2>4
  <2>6. Up[b] \in B /\ Ht[Up[b]] \in Nat /\ Ht[b] = Ht[Up[b]] + 1
    BY <2>5 DEF IsTree
  <2>7. ~IsPathTo(Up[b], G, Ht, P)
    BY <2>3, <2>5, PathGrows
  <2>8. Ht[Up[b]] \in S
    BY <2>6, <2>7
  <2>9. n <= Ht[Up[b]] /\ n = Ht[Up[b]] + 1
    BY <2>2, <2>3, <2>6, <2>8
  <2> QED BY <2>6, <2>9, SMT
<1> QED BY <1>1

-----------------------------------------------------------------------------
(* One step of the fold behind SumFunctionOnSet.                           *)
First(s) == CHOOSE x \in s : TRUE
SumStep(f, g, s) == IF s = {} THEN 0 ELSE f[First(s)] + g[s \ {First(s)}]
SumsUp(f, g, D) == g = [s \in D |-> SumStep(f, g, s)]

(* The element a fold takes first is one of the set.                         *)
LEMMA FirstIs ==
  ASSUME NEW s, s # {}
  PROVE  First(s) \in s
BY DEF First

(* The subsets with at most n elements.                                    *)
UpTo(S, n) == {s \in SUBSET S : Cardinality(s) <= n}

(* Without it the set has one element less.                                  *)
LEMMA SmallerIs ==
  ASSUME NEW S, IsFiniteSet(S), NEW s \in SUBSET S, s # {}
  PROVE  /\ s \ {First(s)} \in SUBSET S
         /\ Cardinality(s) \in Nat \ {0} /\ IsFiniteSet(s)
         /\ Cardinality(s \ {First(s)}) = Cardinality(s) - 1
<1>1. IsFiniteSet(s) /\ First(s) \in s
  BY FS_Subset, FirstIs
<1>2. Cardinality(s) \in Nat /\ Cardinality(s) # 0
  BY <1>1, FS_CardinalityType, FS_EmptySet
<1>3. Cardinality(s \ {First(s)}) = Cardinality(s) - 1
  BY <1>1, FS_RemoveElement
<1> QED BY <1>1, <1>2, <1>3

(* The recursion has a solution: one for the subsets of up to n elements,  *)
(* for every n.                                                            *)
LEMMA SumUpTo ==
  ASSUME NEW f, NEW S, IsFiniteSet(S)
  PROVE  \A n \in Nat : \E g : SumsUp(f, g, UpTo(S, n))
<1> DEFINE Bad == {n \in Nat : ~\E g : SumsUp(f, g, UpTo(S, n))}
<1>1. SUFFICES ASSUME Bad # {} PROVE FALSE
  OBVIOUS
<1>2. PICK n \in Bad : \A k \in Bad : n <= k
  BY <1>1, Least
<1>3. CASE n = 0
  <2> DEFINE zeros == [s \in UpTo(S, 0) |-> 0]
  <2>1. ASSUME NEW s \in UpTo(S, 0) PROVE s = {}
    <3>1. s \in SUBSET S /\ Cardinality(s) <= 0
      BY DEF UpTo
    <3>2. IsFiniteSet(s) /\ Cardinality(s) \in Nat
      BY <3>1, FS_Subset, FS_CardinalityType
    <3>3. Cardinality(s) = 0
      BY <3>1, <3>2, SMT
    <3> QED BY <3>2, <3>3, FS_EmptySet
  <2>2. SumsUp(f, zeros, UpTo(S, 0))
    BY <2>1 DEF SumsUp, SumStep
  <2> QED BY <1>3, <2>2
<1>4. CASE n # 0
  <2>1. n - 1 \in Nat /\ ~(n <= n - 1)
    BY <1>4, SMT
  <2>2. n - 1 \notin Bad
    BY <1>2, <2>1
  <2>3. PICK g : SumsUp(f, g, UpTo(S, n - 1))
    BY <2>1, <2>2
  <2> DEFINE D == UpTo(S, n)
             e == [s \in D |-> SumStep(f, g, s)]
  <2>4. ASSUME NEW s \in D PROVE SumStep(f, g, s) = SumStep(f, e, s)
    <3>1. CASE s = {}
      BY <3>1 DEF SumStep
    <3>2. CASE s # {}
      <4> DEFINE r == s \ {First(s)}
      <4>1. s \in SUBSET S /\ Cardinality(s) <= n
        BY DEF UpTo
      <4>2. r \in SUBSET S /\ Cardinality(s) \in Nat \ {0} /\ Cardinality(r) = Cardinality(s) - 1
        BY <3>2, <4>1, SmallerIs
      <4>3. Cardinality(r) <= n - 1 /\ Cardinality(r) <= n
        BY <4>1, <4>2, SMT
      <4>4. r \in UpTo(S, n - 1) /\ r \in D
        BY <4>2, <4>3 DEF UpTo
      <4>5. g[r] = SumStep(f, g, r)
        BY <2>3, <4>4 DEF SumsUp
      <4>6. e[r] = SumStep(f, g, r)
        BY <4>4
      <4>7. e[r] = g[r]
        BY <4>5, <4>6
      <4> HIDE DEF e
      <4> QED BY <3>2, <4>7 DEF SumStep
    <3> QED BY <3>1, <3>2
  <2>5. SumsUp(f, e, D)
    <3>1. e = [s \in D |-> SumStep(f, e, s)]
      BY <2>4
    <3> QED BY <3>1 DEF SumsUp
  <2> QED BY <2>5
<1> QED BY <1>3, <1>4

(* SumFunctionOnSet is the value of that solution.                         *)
LEMMA SumIs ==
  ASSUME NEW f, NEW S, IsFiniteSet(S)
  PROVE  \E g : SumsUp(f, g, SUBSET S) /\ SumFunctionOnSet(f, S) = g[S]
<1>1. Cardinality(S) \in Nat
  BY FS_CardinalityType
<1>2. UpTo(S, Cardinality(S)) = SUBSET S
  BY FS_Subset DEF UpTo
<1>3. \E g : SumsUp(f, g, SUBSET S)
  <2>1. \A n \in Nat : \E g : SumsUp(f, g, UpTo(S, n))
    BY SumUpTo
  <2>2. \E g : SumsUp(f, g, UpTo(S, Cardinality(S)))
    BY <1>1, <2>1
  <2> QED BY <1>2, <2>2, SMT
<1> DEFINE G == CHOOSE g : SumsUp(f, g, SUBSET S)
<1>4. SumsUp(f, G, SUBSET S)
  BY <1>3
<1>5. SumFunctionOnSet(f, S) = G[S]
  BY DEF SumFunctionOnSet, FoldFunctionOnSet, MapThenFoldSet, SumsUp, SumStep, First
<1> QED BY <1>4, <1>5

(* Solutions for two functions agree where the functions do.               *)
Alike(e, f, T) == \A x \in T : e[x] = f[x]
SameAt(g, h, T) == g[T] = h[T]

(* By induction on the size of the set.                                      *)
LEMMA SumsAgree ==
  ASSUME NEW S, IsFiniteSet(S), NEW T \in SUBSET S, NEW e, NEW f, Alike(e, f, T),
         NEW g, SumsUp(f, g, SUBSET S), NEW h, SumsUp(e, h, SUBSET T)
  PROVE  SameAt(g, h, T)
<1> DEFINE Bad == {n \in Nat : \E s \in SUBSET T : Cardinality(s) = n /\ g[s] # h[s]}
<1>1. \A s \in SUBSET T : IsFiniteSet(s) /\ Cardinality(s) \in Nat
  BY FS_Subset, FS_CardinalityType
<1>2. SUFFICES ASSUME Bad # {} PROVE FALSE
  BY <1>1 DEF SameAt
<1>3. PICK n \in Bad : \A k \in Bad : n <= k
  BY <1>2, Least
<1>4. PICK s \in SUBSET T : Cardinality(s) = n /\ g[s] # h[s]
  OBVIOUS
<1>5. /\ g[s] = SumStep(f, g, s) /\ h[s] = SumStep(e, h, s)
  <2>1. s \in SUBSET S
    OBVIOUS
  <2> QED BY <2>1 DEF SumsUp
<1>6. s # {}
  BY <1>4, <1>5 DEF SumStep
<1> DEFINE r == s \ {First(s)}
<1>7. r \in SUBSET T /\ First(s) \in T /\ Cardinality(r) = n - 1 /\ n \in Nat \ {0}
  <2>1. IsFiniteSet(T)
    BY FS_Subset
  <2> QED BY <1>4, <1>6, <2>1, SmallerIs, FirstIs
<1>8. g[r] = h[r]
  <2>1. n - 1 \in Nat /\ ~(n <= n - 1)
    BY <1>7, SMT
  <2>2. n - 1 \notin Bad
    BY <1>3, <2>1
  <2> QED BY <1>7, <2>1, <2>2
<1>9. SumStep(f, g, s) = SumStep(e, h, s)
  BY <1>6, <1>7, <1>8 DEF SumStep, Alike
<1> QED BY <1>4, <1>5, <1>9

(* The sum of nothing.                                                       *)
LEMMA SumEmpty == ASSUME NEW f PROVE SumFunctionOnSet(f, {}) = 0
<1>1. IsFiniteSet({})
  BY FS_EmptySet
<1>2. PICK g : SumsUp(f, g, SUBSET {}) /\ SumFunctionOnSet(f, {}) = g[{}]
  BY <1>1, SumIs
<1> QED BY <1>2 DEF SumsUp, SumStep

(* A sum depends on the values of its function on the set only.              *)
LEMMA SumSame ==
  ASSUME NEW e, NEW f, NEW S, IsFiniteSet(S), \A x \in S : e[x] = f[x]
  PROVE  SumFunctionOnSet(e, S) = SumFunctionOnSet(f, S)
<1>1. PICK g : SumsUp(f, g, SUBSET S) /\ SumFunctionOnSet(f, S) = g[S]
  BY SumIs
<1>2. PICK h : SumsUp(e, h, SUBSET S) /\ SumFunctionOnSet(e, S) = h[S]
  BY SumIs
<1>3. S \in SUBSET S
  OBVIOUS
<1>4. Alike(e, f, S)
  BY DEF Alike
<1>5. SameAt(g, h, S)
  BY <1>1, <1>2, <1>3, <1>4, SumsAgree
<1> QED BY <1>1, <1>2, <1>5 DEF SameAt

(* The first summand taken out.                                              *)
LEMMA SumFirst ==
  ASSUME NEW f, NEW S, IsFiniteSet(S), S # {}
  PROVE  SumFunctionOnSet(f, S) = f[First(S)] + SumFunctionOnSet(f, S \ {First(S)})
<1> DEFINE r == S \ {First(S)}
<1>1. PICK g : SumsUp(f, g, SUBSET S) /\ SumFunctionOnSet(f, S) = g[S]
  BY SumIs
<1>2. IsFiniteSet(r) /\ r \in SUBSET S
  BY FS_Subset
<1>3. PICK h : SumsUp(f, h, SUBSET r) /\ SumFunctionOnSet(f, r) = h[r]
  BY <1>2, SumIs
<1>4. g[r] = h[r]
  <2>1. Alike(f, f, r)
    BY DEF Alike
  <2>2. SameAt(g, h, r)
    BY <1>1, <1>2, <1>3, <2>1, SumsAgree
  <2> QED BY <2>2 DEF SameAt
<1>5. g[S] = f[First(S)] + g[r]
  <2>1. S \in SUBSET S
    OBVIOUS
  <2> QED BY <1>1, <2>1 DEF SumsUp, SumStep
<1> QED BY <1>1, <1>3, <1>4, <1>5

(* Natural numbers add up to one.                                            *)
LEMMA SumNat ==
  ASSUME NEW f, NEW S, IsFiniteSet(S), \A x \in S : f[x] \in Nat
  PROVE  SumFunctionOnSet(f, S) \in Nat
<1> DEFINE Bad == {n \in Nat : \E s \in SUBSET S : Cardinality(s) = n /\ SumFunctionOnSet(f, s) \notin Nat}
<1>1. \A s \in SUBSET S : IsFiniteSet(s) /\ Cardinality(s) \in Nat
  BY FS_Subset, FS_CardinalityType
<1>2. SUFFICES ASSUME Bad # {} PROVE FALSE
  BY <1>1
<1>3. PICK n \in Bad : \A k \in Bad : n <= k
  BY <1>2, Least
<1>4. PICK s \in SUBSET S : Cardinality(s) = n /\ SumFunctionOnSet(f, s) \notin Nat
  OBVIOUS
<1>5. s # {}
  BY <1>4, SumEmpty, SMT
<1> DEFINE r == s \ {First(s)}
<1>6. r \in SUBSET S /\ First(s) \in S /\ Cardinality(r) = n - 1 /\ n \in Nat \ {0}
  BY <1>4, <1>5, SmallerIs, FirstIs
<1>7. SumFunctionOnSet(f, r) \in Nat
  <2>1. n - 1 \in Nat /\ ~(n <= n - 1)
    BY <1>6, SMT
  <2>2. n - 1 \notin Bad
    BY <1>3, <2>1
  <2> QED BY <1>6, <2>1, <2>2
<1>8. SumFunctionOnSet(f, s) = f[First(s)] + SumFunctionOnSet(f, r)
  BY <1>1, <1>5, SumFirst
<1>9. f[First(s)] \in Nat
  BY <1>6
<1> QED BY <1>4, <1>7, <1>8, <1>9, SMT

(* Any summand taken out.                                                    *)
TakenOut(f, S, x) == SumFunctionOnSet(f, S) = f[x] + SumFunctionOnSet(f, S \ {x})

(* The order of the fold does not matter.                                    *)
LEMMA SumWithout ==
  ASSUME NEW f, NEW S, IsFiniteSet(S), \A y \in S : f[y] \in Nat, NEW x \in S
  PROVE  TakenOut(f, S, x)
<1> DEFINE Bad == {n \in Nat : \E s \in SUBSET S : /\ Cardinality(s) = n
                                                 /\ \E y \in s : ~TakenOut(f, s, y)}
<1>1. \A s \in SUBSET S : IsFiniteSet(s) /\ Cardinality(s) \in Nat
  BY FS_Subset, FS_CardinalityType
<1>2. SUFFICES ASSUME Bad # {} PROVE FALSE
  BY <1>1
<1>3. PICK n \in Bad : \A k \in Bad : n <= k
  BY <1>2, Least
<1>4. PICK s \in SUBSET S : /\ Cardinality(s) = n
                           /\ \E y \in s : ~TakenOut(f, s, y)
  OBVIOUS
<1>5. PICK y \in s : ~TakenOut(f, s, y)
  BY <1>4
<1> DEFINE c == First(s)
           sc == s \ {c}
           sy == s \ {y}
           rest == s \ {c, y}
<1>6. s # {} /\ c \in s
  BY FirstIs
<1>7. SumFunctionOnSet(f, s) = f[c] + SumFunctionOnSet(f, sc)
  BY <1>1, <1>6, SumFirst
<1>8. c # y
  BY <1>5, <1>7 DEF TakenOut
<1>9. Cardinality(sc) = n - 1 /\ Cardinality(sy) = n - 1 /\ n \in Nat \ {0}
  <2>1. Cardinality(sc) = n - 1 /\ Cardinality(sy) = n - 1
    BY <1>1, <1>4, <1>6, FS_RemoveElement
  <2>2. n # 0
    BY <1>1, <1>4, <1>6, FS_EmptySet
  <2> QED BY <2>1, <2>2
<1>10. n - 1 \notin Bad /\ n - 1 \in Nat
  <2>1. n - 1 \in Nat /\ ~(n <= n - 1)
    BY <1>9, SMT
  <2> QED BY <1>3, <2>1
<1>a. ASSUME NEW r \in SUBSET S, Cardinality(r) = n - 1, NEW z \in r
      PROVE  TakenOut(f, r, z)
  BY <1>10, <1>a
<1>11. SumFunctionOnSet(f, sc) = f[y] + SumFunctionOnSet(f, rest)
  <2>1. sc \ {y} = rest /\ y \in sc /\ sc \in SUBSET S
    BY <1>8
  <2>2. SumFunctionOnSet(f, sc) = f[y] + SumFunctionOnSet(f, sc \ {y})
    BY <1>9, <1>a, <2>1 DEF TakenOut
  <2> QED BY <2>1, <2>2
<1>12. SumFunctionOnSet(f, sy) = f[c] + SumFunctionOnSet(f, rest)
  <2>1. sy \ {c} = rest /\ c \in sy /\ sy \in SUBSET S
    BY <1>6, <1>8
  <2>2. SumFunctionOnSet(f, sy) = f[c] + SumFunctionOnSet(f, sy \ {c})
    BY <1>9, <1>a, <2>1 DEF TakenOut
  <2> QED BY <2>1, <2>2
<1>13. f[c] \in Nat /\ f[y] \in Nat /\ SumFunctionOnSet(f, rest) \in Nat
  <2>1. rest \in SUBSET S /\ c \in S /\ y \in S
    BY <1>6
  <2>2. IsFiniteSet(rest)
    BY <1>1, <2>1
  <2> QED BY <2>1, <2>2, SumNat
<1> HIDE DEF c, sc, sy, rest
<1>14. SumFunctionOnSet(f, s) = f[y] + SumFunctionOnSet(f, sy)
  BY <1>7, <1>11, <1>12, <1>13, SMT
<1> QED BY <1>5, <1>14 DEF sy, TakenOut

(* A sum over two disjoint sets.                                           *)
LEMMA SumUnion ==
  ASSUME NEW f, NEW A, NEW B, IsFiniteSet(A), IsFiniteSet(B), A \cap B = {},
         \A y \in A \cup B : f[y] \in Nat
  PROVE  SumFunctionOnSet(f, A \cup B) = SumFunctionOnSet(f, A) + SumFunctionOnSet(f, B)
<1> DEFINE Splits(s) == SumFunctionOnSet(f, A \cup s) = SumFunctionOnSet(f, A) + SumFunctionOnSet(f, s)
           Bad == {n \in Nat : \E s \in SUBSET B : Cardinality(s) = n /\ ~Splits(s)}
<1>1. \A s \in SUBSET B : IsFiniteSet(s) /\ Cardinality(s) \in Nat
  BY FS_Subset, FS_CardinalityType
<1>2. SUFFICES ASSUME Bad # {} PROVE FALSE
  BY <1>1
<1>3. PICK n \in Bad : \A k \in Bad : n <= k
  BY <1>2, Least
<1>4. PICK s \in SUBSET B : Cardinality(s) = n /\ ~Splits(s)
  OBVIOUS
<1>5. SumFunctionOnSet(f, A) \in Nat
  BY SumNat
<1>6. s # {}
  <2>1. SUFFICES ASSUME s = {} PROVE Splits(s)
    BY <1>4
  <2>2. A \cup s = A /\ SumFunctionOnSet(f, s) = 0
    BY <2>1, SumEmpty
  <2>3. SumFunctionOnSet(f, A \cup s) = SumFunctionOnSet(f, A)
    BY <2>2
  <2> QED BY <1>5, <2>2, <2>3, SMT
<1> DEFINE c == First(s)
           r == s \ {c}
<1>7. r \in SUBSET B /\ c \in s /\ Cardinality(r) = n - 1 /\ n \in Nat \ {0}
  BY <1>4, <1>6, SmallerIs, FirstIs
<1>8. Splits(r)
  <2>1. n - 1 \in Nat /\ ~(n <= n - 1)
    BY <1>7, SMT
  <2>2. n - 1 \notin Bad
    BY <1>3, <2>1
  <2> QED BY <1>7, <2>1, <2>2
<1>9. SumFunctionOnSet(f, A \cup s) = f[c] + SumFunctionOnSet(f, A \cup r)
  <2> DEFINE U == A \cup s
  <2>1. U \ {c} = A \cup r /\ c \in U
    BY <1>7
  <2>2. IsFiniteSet(U) /\ \A y \in U : f[y] \in Nat
    BY <1>1, FS_Union
  <2> HIDE DEF U, c
  <2>3. TakenOut(f, U, c)
    BY <2>1, <2>2, SumWithout
  <2>4. SumFunctionOnSet(f, U) = f[c] + SumFunctionOnSet(f, A \cup r)
    BY <2>1, <2>3 DEF TakenOut
  <2> QED BY <2>4 DEF U
<1>10. SumFunctionOnSet(f, s) = f[c] + SumFunctionOnSet(f, r)
  BY <1>1, <1>6, SumFirst
<1>11. f[c] \in Nat /\ SumFunctionOnSet(f, r) \in Nat
  <2>1. IsFiniteSet(r) /\ c \in B /\ \A y \in r : f[y] \in Nat
    BY <1>1, <1>7
  <2> QED BY <2>1, SumNat
<1> HIDE DEF c, r
<1> QED BY <1>4, <1>5, <1>8, <1>9, <1>10, <1>11, SMT
==============================================================================
