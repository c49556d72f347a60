----------------------------- MODULE SumLemmas -----------------------------
(***************************************************************************)
(* Sums of integers over finite sets: what the amounts of rows add up to.  *)
(*                                                                         *)
(* SumFunctionOnSet is a fold, that is, a recursive function on subsets.   *)
(* The induction principles of the library take an operator as parameter;  *)
(* here induction is over a set of subsets instead (FiniteInduction), and  *)
(* what has to be shown by it is stated as membership in such a set.       *)
(* The same holds of induction and recursion over the first numbers.        *)
(***************************************************************************)
EXTENDS Integers, FiniteSets, Folds, Functions, FiniteSetTheorems, TLAPS

(* Every set of natural numbers has a least one.                            *)
LEMMA LeastNumber ==
    ASSUME NEW N \in SUBSET Nat, N # {}
    PROVE  \E n \in N : \A m \in N : n <= m
<1>1. \A m, n \in Nat : m < n => <<m, n>> \in OpToRel(<, Nat)
  BY DEF OpToRel
<1>2. PICK R : IsWellFoundedOn(R, Nat) /\ \A m, n \in Nat : m < n => <<m, n>> \in R
  BY <1>1, NatLessThanWellFounded, Zenon
<1>3. IsWellFoundedOn(R, Nat)
  BY <1>2
<1>4. N \subseteq Nat
  OBVIOUS
<1>5. \E n \in N : \A m \in N : ~ (<<m, n>> \in R)
  BY <1>3, <1>4, WFMin, Zenon
<1>6. PICK n \in N : \A m \in N : ~ (<<m, n>> \in R)
  BY <1>5
<1>7. \A m \in N : ~ (m < n)
  BY <1>2, <1>6
<1>8. \A m \in N : n <= m
  BY <1>7
<1>. QED BY <1>8

(* A set of subsets has them all if it has the empty one, and each one that *)
(* it has whenever any of its elements is taken away.                       *)
LEMMA FiniteInduction ==
    ASSUME NEW S, IsFiniteSet(S),
           NEW P \in SUBSET SUBSET S,
           {} \in P,
           \A T \in SUBSET S : T # {} /\ (\A x \in T : T \ {x} \in P) => T \in P
    PROVE  SUBSET S \subseteq P
<1>. SUFFICES ASSUME ~ (SUBSET S \subseteq P) PROVE FALSE
  OBVIOUS
<1>. DEFINE N == {Cardinality(T) : T \in (SUBSET S) \ P}
<1>1. \A T \in SUBSET S : IsFiniteSet(T) /\ Cardinality(T) \in Nat
  BY FS_Subset, FS_CardinalityType
<1>2. N \in SUBSET Nat /\ N # {}
  BY <1>1
<1>3. PICK n \in N : \A m \in N : n <= m
  BY <1>2, LeastNumber
<1>4. PICK T \in (SUBSET S) \ P : Cardinality(T) = n
  BY <1>3
<1>5. PICK x \in T : T \ {x} \notin P
  BY <1>4
<1>6. T \ {x} \in SUBSET S /\ Cardinality(T \ {x}) = Cardinality(T) - 1
  BY <1>1, FS_RemoveElement
<1>7. Cardinality(T \ {x}) \in N
  BY <1>5, <1>6
<1>8. n <= n - 1 /\ n \in Nat
  BY <1>2, <1>3, <1>4, <1>6, <1>7
<1>. QED BY <1>8

-----------------------------------------------------------------------------
(* Induction and recursion over 0 .. N.                                     *)

LEMMA UpTo ==
    ASSUME NEW N \in Nat, NEW P, 0 \in P, \A n \in 1 .. N : n - 1 \in P => n \in P
    PROVE  0 .. N \subseteq P
<1>. DEFINE B == (0 .. N) \ P
<1>. SUFFICES ASSUME B # {} PROVE FALSE
  OBVIOUS
<1>1. B \in SUBSET Nat
  OBVIOUS
<1>2. PICK n \in B : \A m \in B : n <= m
  <2>. HIDE DEF B
  <2>. QED BY <1>1, LeastNumber, Zenon
<1>3. n \in 1 .. N /\ n - 1 \in 0 .. N
  BY <1>2
<1>4. n - 1 \notin B
  BY <1>2, <1>3
<1>. QED BY <1>2, <1>3, <1>4

Iterates(f, N, a, G) == f[0] = a /\ \A n \in 1 .. N : f[n] = G[f[n - 1]]

LEMMA Iteration ==
    ASSUME NEW N \in Nat, NEW X, NEW a \in X, NEW G \in [X -> X]
    PROVE  \E f \in [0 .. N -> X] : Iterates(f, N, a, G)
<1>. DEFINE Upon(f, k) == [n \in 0 .. k |-> IF n = 0 THEN a ELSE G[f[n - 1]]]
            P == {k \in 0 .. N : \E f \in [0 .. k -> X] : f = Upon(f, k)}
<1>1. 0 \in P
  <2>. DEFINE f == [n \in 0 .. 0 |-> a]
  <2>1. f \in [0 .. 0 -> X] /\ f = Upon(f, 0)
    OBVIOUS
  <2>2. \E q \in [0 .. 0 -> X] : q = Upon(q, 0)
    BY <2>1, Zenon
  <2>. QED BY <2>2
<1>2. ASSUME NEW k \in 1 .. N, k - 1 \in P PROVE k \in P
  <2>1. PICK f \in [0 .. k - 1 -> X] : f = Upon(f, k - 1)
    BY <1>2
  <2>. DEFINE h == Upon(f, k)
  <2>2. \A n \in 0 .. k : n # 0 => n - 1 \in 0 .. k - 1
    OBVIOUS
  <2>3. h \in [0 .. k -> X]
    BY <2>2
  <2>4. \A n \in 0 .. k - 1 : h[n] = f[n]
    BY <2>1
  <2>5. \A n \in 0 .. k : n # 0 => h[n - 1] = f[n - 1]
    BY <2>2, <2>4
  <2>6. h = Upon(h, k)
    <3>1. \A n \in 0 .. k : h[n] = IF n = 0 THEN a ELSE G[f[n - 1]]
      OBVIOUS
    <3>. HIDE DEF h
    <3>2. \A n \in 0 .. k : h[n] = IF n = 0 THEN a ELSE G[h[n - 1]]
      BY <2>5, <3>1
    <3>. QED BY <2>3, <3>2
  <2>7. \E q \in [0 .. k -> X] : q = Upon(q, k)
    BY <2>3, <2>6, Zenon
  <2>. QED BY <2>7
<1>3. 0 .. N \subseteq P
  <2>. HIDE DEF P
  <2>. QED BY <1>1, <1>2, UpTo
<1>4. PICK f \in [0 .. N -> X] : f = Upon(f, N)
  BY <1>3
<1>5. \A n \in 0 .. N : f[n] = IF n = 0 THEN a ELSE G[f[n - 1]]
  BY <1>4, Zenon
<1>6. Iterates(f, N, a, G)
  BY <1>5 DEF Iterates
<1>. QED BY <1>6

-----------------------------------------------------------------------------
(* The recursive function behind a sum exists and is the only one.          *)

Pick(T) == CHOOSE x \in T : TRUE

SumOf(g, f, T) == IF T = {} THEN 0 ELSE f[Pick(T)] + g[T \ {Pick(T)}]

IsSum(g, f, S) == g = [T \in SUBSET S |-> SumOf(g, f, T)]

LEMMA PickIn == \A T : T # {} => Pick(T) \in T
  BY DEF Pick

(* It is built for larger and larger subsets.                               *)
Small(S, n) == {T \in SUBSET S : Cardinality(T) <= n}
OnSmall(g, f, S, n) == g = [T \in Small(S, n) |-> SumOf(g, f, T)]

LEMMA SumExists ==
    ASSUME NEW S, IsFiniteSet(S), NEW f
    PROVE  \E g : IsSum(g, f, S)
<1>. DEFINE N == {n \in Nat : ~ \E g : OnSmall(g, f, S, n)}
<1>1. \A T \in SUBSET S : IsFiniteSet(T) /\ Cardinality(T) \in Nat
  BY FS_Subset, FS_CardinalityType
<1>2. \A T \in SUBSET S : /\ Cardinality(T) <= Cardinality(S)
                          /\ Cardinality(T) = 0 <=> T = {}
                          /\ \A x \in T : Cardinality(T \ {x}) = Cardinality(T) - 1
  BY <1>1, FS_Subset, FS_RemoveElement, FS_EmptySet
<1>3. N = {}
  <2>1. SUFFICES ASSUME N # {} PROVE FALSE
    OBVIOUS
  <2>2. PICK n \in N : \A m \in N : n <= m
    <3>1. N \in SUBSET Nat
      OBVIOUS
    <3>. HIDE DEF N
    <3>. QED BY <2>1, <3>1, LeastNumber, Zenon
  <2>3. n \in Nat /\ ~ \E g : OnSmall(g, f, S, n)
    OBVIOUS
  <2>4. n # 0
    <3>. DEFINE g == [T \in {{}} |-> 0]
    <3>1. Small(S, 0) = {{}}
      BY <1>1, <1>2 DEF Small
    <3>2. \A T \in {{}} : SumOf(g, f, T) = 0
      BY DEF SumOf
    <3>3. OnSmall(g, f, S, 0)
      BY <3>1, <3>2 DEF OnSmall
    <3>. QED BY <2>3, <3>3
  <2>5. n - 1 \in Nat /\ ~ (n <= n - 1)
    BY <2>3, <2>4
  <2>6. PICK g : OnSmall(g, f, S, n - 1)
    BY <2>2, <2>5
  <2>. DEFINE h == [T \in Small(S, n) |-> SumOf(g, f, T)]
  <2>7. \A T \in Small(S, n) : T # {} => T \ {Pick(T)} \in Small(S, n - 1)
    <3>1. SUFFICES ASSUME NEW T \in Small(S, n), T # {}
                   PROVE  T \ {Pick(T)} \in Small(S, n - 1)
      OBVIOUS
    <3>2. T \in SUBSET S /\ Pick(T) \in T /\ Cardinality(T) <= n
      BY <3>1, PickIn DEF Small
    <3>. HIDE DEF N
    <3>3. Cardinality(T \ {Pick(T)}) = Cardinality(T) - 1 /\ Cardinality(T) \in Nat
      BY <1>1, <1>2, <3>2, Zenon
    <3>. QED BY <2>3, <3>2, <3>3 DEF Small
  <2>8. Small(S, n - 1) \subseteq Small(S, n)
    BY <1>1, <2>3 DEF Small
  <2>9. \A T \in Small(S, n - 1) : h[T] = g[T]
    BY <2>6, <2>8 DEF OnSmall
  <2>10. \A T \in Small(S, n) : SumOf(h, f, T) = SumOf(g, f, T)
    <3>. HIDE DEF h
    <3>. QED BY <2>7, <2>9 DEF SumOf
  <2>11. OnSmall(h, f, S, n)
    BY <2>10 DEF OnSmall
  <2>. QED BY <2>3, <2>11
<1>4. PICK g : OnSmall(g, f, S, Cardinality(S))
  BY <1>1, <1>3
<1>5. Small(S, Cardinality(S)) = SUBSET S
  <2>1. \A T \in SUBSET S : Cardinality(T) <= Cardinality(S)
    BY <1>2, Zenon
  <2>. QED BY <2>1 DEF Small
<1>. QED BY <1>4, <1>5 DEF IsSum, OnSmall

LEMMA SumUnique ==
    ASSUME NEW S, IsFiniteSet(S), NEW T \in SUBSET S, NEW f, NEW g, NEW h,
           IsSum(g, f, S), IsSum(h, f, T)
    PROVE  g[T] = h[T]
<1>. DEFINE P == {U \in SUBSET T : g[U] = h[U]}
<1>1. IsFiniteSet(T) /\ P \in SUBSET SUBSET T
  BY FS_Subset
<1>2. \A U \in SUBSET T : g[U] = SumOf(g, f, U) /\ h[U] = SumOf(h, f, U)
  BY DEF IsSum
<1>3. {} \in P
  BY <1>2 DEF SumOf
<1>4. ASSUME NEW U \in SUBSET T, U # {}, \A x \in U : U \ {x} \in P
      PROVE  U \in P
  <2>1. U \ {Pick(U)} \in P
    BY <1>4, PickIn
  <2>. QED BY <1>2, <2>1 DEF SumOf
<1>5. SUBSET T \subseteq P
  <2>. HIDE DEF P
  <2>. QED BY <1>1, <1>3, <1>4, FiniteInduction, Zenon
<1>. QED BY <1>5

LEMMA SumIs ==
    ASSUME NEW S, IsFiniteSet(S), NEW f
    PROVE  \E g : IsSum(g, f, S) /\ SumFunctionOnSet(f, S) = g[S]
<1>. DEFINE g == CHOOSE g : IsSum(g, f, S)
<1>1. IsSum(g, f, S)
  BY SumExists, Zenon
<1>2. SumFunctionOnSet(f, S) = g[S]
  BY Zenon DEF SumFunctionOnSet, FoldFunctionOnSet, MapThenFoldSet, IsSum, SumOf, Pick
<1>. QED BY <1>1, <1>2

(* So a sum over a non-empty set is that of one element, and the rest.      *)
LEMMA SumStep ==
    ASSUME NEW S, IsFiniteSet(S), NEW f
    PROVE  /\ S = {} => SumFunctionOnSet(f, S) = 0
           /\ S # {} => SumFunctionOnSet(f, S)
                           = f[Pick(S)] + SumFunctionOnSet(f, S \ {Pick(S)})
<1>1. PICK g : IsSum(g, f, S) /\ SumFunctionOnSet(f, S) = g[S]
  BY SumIs
<1>2. g[S] = SumOf(g, f, S)
  BY <1>1 DEF IsSum
<1>3. ASSUME S # {} PROVE SumFunctionOnSet(f, S \ {Pick(S)}) = g[S \ {Pick(S)}]
  <2>1. IsFiniteSet(S \ {Pick(S)}) /\ S \ {Pick(S)} \in SUBSET S
    BY FS_Subset
  <2>2. PICK h : /\ IsSum(h, f, S \ {Pick(S)})
                 /\ SumFunctionOnSet(f, S \ {Pick(S)}) = h[S \ {Pick(S)}]
    BY <2>1, SumIs
  <2>. QED BY <1>1, <2>1, <2>2, SumUnique
<1>. QED BY <1>1, <1>2, <1>3 DEF SumOf

-----------------------------------------------------------------------------
(* What the other modules use.                                              *)

LEMMA SumEmpty == \A f : SumFunctionOnSet(f, {}) = 0
  BY SumStep, FS_EmptySet

LEMMA SumType ==
    ASSUME NEW S, IsFiniteSet(S), NEW f, \A x \in S : f[x] \in Int
    PROVE  \A T \in SUBSET S : SumFunctionOnSet(f, T) \in Int
<1>. DEFINE P == {T \in SUBSET S : SumFunctionOnSet(f, T) \in Int}
<1>1. {} \in P
  BY SumEmpty
<1>2. ASSUME NEW T \in SUBSET S, T # {}, \A x \in T : T \ {x} \in P
      PROVE  T \in P
  <2>1. Pick(T) \in T /\ IsFiniteSet(T)
    BY <1>2, PickIn, FS_Subset
  <2>2. SumFunctionOnSet(f, T) = f[Pick(T)] + SumFunctionOnSet(f, T \ {Pick(T)})
    BY <1>2, <2>1, SumStep
  <2>3. T \ {Pick(T)} \in P
    BY <1>2, <2>1
  <2>. QED BY <2>1, <2>2, <2>3
<1>3. P \in SUBSET SUBSET S
  OBVIOUS
<1>4. SUBSET S \subseteq P
  <2>. HIDE DEF P
  <2>. QED BY <1>1, <1>2, <1>3, FiniteInduction, Zenon
<1>. QED BY <1>4

LEMMA SumNat ==
    ASSUME NEW S, IsFiniteSet(S), NEW f, \A x \in S : f[x] \in Nat
    PROVE  \A T \in SUBSET S : SumFunctionOnSet(f, T) \in Nat
<1>. DEFINE P == {T \in SUBSET S : SumFunctionOnSet(f, T) \in Nat}
<1>1. {} \in P
  BY SumEmpty
<1>2. ASSUME NEW T \in SUBSET S, T # {}, \A x \in T : T \ {x} \in P
      PROVE  T \in P
  <2>1. Pick(T) \in T /\ IsFiniteSet(T)
    BY <1>2, PickIn, FS_Subset
  <2>2. SumFunctionOnSet(f, T) = f[Pick(T)] + SumFunctionOnSet(f, T \ {Pick(T)})
    BY <1>2, <2>1, SumStep
  <2>3. T \ {Pick(T)} \in P
    BY <1>2, <2>1
  <2>. QED BY <2>1, <2>2, <2>3
<1>3. P \in SUBSET SUBSET S
  OBVIOUS
<1>4. SUBSET S \subseteq P
  <2>. HIDE DEF P
  <2>. QED BY <1>1, <1>2, <1>3, FiniteInduction, Zenon
<1>. QED BY <1>4

(* Any element may be taken out first.                                      *)
LEMMA SumRemove ==
    ASSUME NEW S, IsFiniteSet(S), NEW f, \A x \in S : f[x] \in Int, NEW d \in S
    PROVE  SumFunctionOnSet(f, S) = f[d] + SumFunctionOnSet(f, S \ {d})
<1>. DEFINE P == {T \in SUBSET S : \A e \in T :
                     SumFunctionOnSet(f, T) = f[e] + SumFunctionOnSet(f, T \ {e})}
<1>1. {} \in P
  OBVIOUS
<1>2. ASSUME NEW T \in SUBSET S, T # {}, \A x \in T : T \ {x} \in P
      PROVE  T \in P
  <2>. DEFINE x == Pick(T)
  <2>1. x \in T /\ IsFiniteSet(T)
    BY <1>2, PickIn, FS_Subset
  <2>2. SumFunctionOnSet(f, T) = f[x] + SumFunctionOnSet(f, T \ {x})
    BY <1>2, <2>1, SumStep
  <2>. HIDE DEF x
  <2>3. SUFFICES ASSUME NEW e \in T, e # x
                 PROVE  SumFunctionOnSet(f, T) = f[e] + SumFunctionOnSet(f, T \ {e})
    BY <2>2
  <2>4. (T \ {x}) \ {e} = (T \ {e}) \ {x}
    OBVIOUS
  <2>5. SumFunctionOnSet(f, T \ {x}) = f[e] + SumFunctionOnSet(f, (T \ {x}) \ {e})
    BY <1>2, <2>1, <2>3
  <2>6. SumFunctionOnSet(f, T \ {e}) = f[x] + SumFunctionOnSet(f, (T \ {e}) \ {x})
    BY <1>2, <2>1, <2>3
  <2>7. SumFunctionOnSet(f, (T \ {e}) \ {x}) \in Int /\ f[e] \in Int /\ f[x] \in Int
    BY <2>1, SumType
  <2>8. SumFunctionOnSet(f, T \ {x}) = f[e] + SumFunctionOnSet(f, (T \ {e}) \ {x})
    BY <2>4, <2>5, Zenon
  <2>. QED BY <2>2, <2>6, <2>7, <2>8
<1>3. P \in SUBSET SUBSET S
  OBVIOUS
<1>4. SUBSET S \subseteq P
  <2>. HIDE DEF P
  <2>. QED BY <1>1, <1>2, <1>3, FiniteInduction, Zenon
<1>5. S \in P
  BY <1>4
<1>. QED BY <1>5

LEMMA SumAgree ==
    ASSUME NEW S, IsFiniteSet(S), NEW f, NEW h, \A x \in S : f[x] = h[x]
    PROVE  SumFunctionOnSet(f, S) = SumFunctionOnSet(h, S)
<1>. DEFINE P == {T \in SUBSET S : SumFunctionOnSet(f, T) = SumFunctionOnSet(h, T)}
<1>1. {} \in P
  BY SumEmpty
<1>2. ASSUME NEW T \in SUBSET S, T # {}, \A x \in T : T \ {x} \in P
      PROVE  T \in P
  <2>1. Pick(T) \in T /\ IsFiniteSet(T)
    BY <1>2, PickIn, FS_Subset
  <2>2. /\ SumFunctionOnSet(f, T) = f[Pick(T)] + SumFunctionOnSet(f, T \ {Pick(T)})
        /\ SumFunctionOnSet(h, T) = h[Pick(T)] + SumFunctionOnSet(h, T \ {Pick(T)})
    BY <1>2, <2>1, SumStep
  <2>3. T \ {Pick(T)} \in P
    BY <1>2, <2>1
  <2>. QED BY <2>1, <2>2, <2>3
<1>3. P \in SUBSET SUBSET S
  OBVIOUS
<1>4. SUBSET S \subseteq P
  <2>. HIDE DEF P
  <2>. QED BY <1>1, <1>2, <1>3, FiniteInduction, Zenon
<1>5. S \in P
  BY <1>4
<1>. QED BY <1>5

LEMMA SumZero ==
    ASSUME NEW S, IsFiniteSet(S), NEW f, \A x \in S : f[x] = 0
    PROVE  SumFunctionOnSet(f, S) = 0
<1>. DEFINE P == {T \in SUBSET S : SumFunctionOnSet(f, T) = 0}
<1>1. {} \in P
  BY SumEmpty
<1>2. ASSUME NEW T \in SUBSET S, T # {}, \A x \in T : T \ {x} \in P
      PROVE  T \in P
  <2>1. Pick(T) \in T /\ IsFiniteSet(T)
    BY <1>2, PickIn, FS_Subset
  <2>2. SumFunctionOnSet(f, T) = f[Pick(T)] + SumFunctionOnSet(f, T \ {Pick(T)})
    BY <1>2, <2>1, SumStep
  <2>3. T \ {Pick(T)} \in P
    BY <1>2, <2>1
  <2>. QED BY <2>1, <2>2, <2>3
<1>3. P \in SUBSET SUBSET S
  OBVIOUS
<1>4. SUBSET S \subseteq P
  <2>. HIDE DEF P
  <2>. QED BY <1>1, <1>2, <1>3, FiniteInduction, Zenon
<1>5. S \in P
  BY <1>4
<1>. QED BY <1>5

(* A sum in which one term changes changes by as much.                      *)
LEMMA SumPoint ==
    ASSUME NEW S, IsFiniteSet(S), NEW f, NEW h, NEW d \in S,
           \A x \in S : f[x] \in Int, h[d] \in Int,
           \A x \in S \ {d} : h[x] = f[x]
    PROVE  /\ SumFunctionOnSet(h, S) = SumFunctionOnSet(f, S) + (h[d] - f[d])
           /\ SumFunctionOnSet(f, S) \in Int
<1>1. SumFunctionOnSet(f, S) = f[d] + SumFunctionOnSet(f, S \ {d})
  BY SumRemove
<1>2. \A x \in S : h[x] \in Int
  OBVIOUS
<1>3. SumFunctionOnSet(h, S) = h[d] + SumFunctionOnSet(h, S \ {d})
  BY <1>2, SumRemove
<1>4. IsFiniteSet(S \ {d})
  BY FS_Subset
<1>5. SumFunctionOnSet(h, S \ {d}) = SumFunctionOnSet(f, S \ {d})
  BY <1>4, SumAgree
<1>6. SumFunctionOnSet(f, S \ {d}) \in Int
  BY SumType
<1>. QED BY <1>1, <1>3, <1>5, <1>6

(* A sum over one element more.                                             *)
LEMMA SumInsert ==
    ASSUME NEW S, IsFiniteSet(S), NEW f, NEW d, d \notin S,
           \A x \in S \cup {d} : f[x] \in Int
    PROVE  SumFunctionOnSet(f, S \cup {d}) = SumFunctionOnSet(f, S) + f[d]
<1>1. IsFiniteSet(S \cup {d})
  BY FS_AddElement
<1>2. SumFunctionOnSet(f, S \cup {d}) = f[d] + SumFunctionOnSet(f, (S \cup {d}) \ {d})
  BY <1>1, SumRemove
<1>3. (S \cup {d}) \ {d} = S
  OBVIOUS
<1>4. SumFunctionOnSet(f, S \cup {d}) = f[d] + SumFunctionOnSet(f, S)
  BY <1>2, <1>3, Zenon
<1>5. SumFunctionOnSet(f, S) \in Int /\ f[d] \in Int
  BY SumType
<1>. QED BY <1>4, <1>5

(* A sum in two parts.                                                      *)
LEMMA SumSplit ==
    ASSUME NEW S, IsFiniteSet(S), NEW f, \A x \in S : f[x] \in Int, NEW T \in SUBSET S
    PROVE  /\ SumFunctionOnSet(f, S) = SumFunctionOnSet(f, T) + SumFunctionOnSet(f, S \ T)
           /\ SumFunctionOnSet(f, T) \in Int /\ SumFunctionOnSet(f, S \ T) \in Int
<1>. DEFINE P == {U \in SUBSET S :
                     SumFunctionOnSet(f, S) = SumFunctionOnSet(f, U) + SumFunctionOnSet(f, S \ U)}
<1>t. \A U \in SUBSET S : SumFunctionOnSet(f, U) \in Int
  BY SumType
<1>1. {} \in P
  <2>1. SumFunctionOnSet(f, {}) = 0 /\ SumFunctionOnSet(f, S) \in Int /\ S \ {} = S
    BY <1>t, SumEmpty
  <2>2. SumFunctionOnSet(f, S) = 0 + SumFunctionOnSet(f, S)
    BY <2>1
  <2>. QED BY <2>1, <2>2
<1>2. ASSUME NEW U \in SUBSET S, U # {}, \A x \in U : U \ {x} \in P
      PROVE  U \in P
  <2>. DEFINE x == Pick(U)
  <2>1. x \in U /\ IsFiniteSet(U)
    BY <1>2, PickIn, FS_Subset
  <2>. HIDE DEF x
  <2>2. SumFunctionOnSet(f, S)
          = SumFunctionOnSet(f, U \ {x}) + SumFunctionOnSet(f, S \ (U \ {x}))
    BY <1>2, <2>1
  <2>3. SumFunctionOnSet(f, U) = f[x] + SumFunctionOnSet(f, U \ {x})
    BY <2>1, SumRemove
  <2>4. IsFiniteSet(S \ (U \ {x})) /\ x \in S \ (U \ {x}) /\ (S \ (U \ {x})) \ {x} = S \ U
    BY <2>1, FS_Subset
  <2>5. SumFunctionOnSet(f, S \ (U \ {x}))
          = f[x] + SumFunctionOnSet(f, (S \ (U \ {x})) \ {x})
    BY <2>4, SumRemove
  <2>6. SumFunctionOnSet(f, S \ (U \ {x})) = f[x] + SumFunctionOnSet(f, S \ U)
    BY <2>4, <2>5, Zenon
  <2>7. /\ SumFunctionOnSet(f, S \ U) \in Int /\ f[x] \in Int
        /\ SumFunctionOnSet(f, U \ {x}) \in Int
    BY <1>t, <2>1
  <2>. QED BY <2>2, <2>3, <2>6, <2>7
<1>3. P \in SUBSET SUBSET S
  OBVIOUS
<1>4. SUBSET S \subseteq P
  <2>. HIDE DEF P
  <2>. QED BY <1>1, <1>2, <1>3, FiniteInduction, Zenon
<1>5. T \in P
  BY <1>4
<1>. QED BY <1>t, <1>5

(* Terms that are 0 may be left out.                                        *)
LEMMA SumSupport ==
    ASSUME NEW S, IsFiniteSet(S), NEW f, \A x \in S : f[x] \in Int, NEW T \in SUBSET S,
           \A x \in S \ T : f[x] = 0
    PROVE  SumFunctionOnSet(f, S) = SumFunctionOnSet(f, T)
<1>1. SumFunctionOnSet(f, S \ T) = 0
  <2>1. IsFiniteSet(S \ T)
    BY FS_Subset
  <2>. QED BY <2>1, SumZero
<1>2. /\ SumFunctionOnSet(f, S) = SumFunctionOnSet(f, T) + SumFunctionOnSet(f, S \ T)
      /\ SumFunctionOnSet(f, T) \in Int
  BY SumSplit
<1>. QED BY <1>1, <1>2

(* A part of a sum of natural numbers is at most the sum.                   *)
LEMMA SumPart ==
    ASSUME NEW S, IsFiniteSet(S), NEW f, \A x \in S : f[x] \in Nat, NEW T \in SUBSET S
    PROVE  /\ SumFunctionOnSet(f, T) \in Nat /\ SumFunctionOnSet(f, S) \in Nat
           /\ SumFunctionOnSet(f, T) <= SumFunctionOnSet(f, S)
<1>1. SumFunctionOnSet(f, S) = SumFunctionOnSet(f, T) + SumFunctionOnSet(f, S \ T)
  BY SumSplit
<1>2. \A U \in SUBSET S : SumFunctionOnSet(f, U) \in Nat
  BY SumNat
<1>3. /\ SumFunctionOnSet(f, T) \in Nat /\ SumFunctionOnSet(f, S \ T) \in Nat
      /\ SumFunctionOnSet(f, S) \in Nat
  BY <1>2
<1>. QED BY <1>1, <1>3

(* Terms that are each covered by a term of their own in another sum.       *)
LEMMA SumCovered ==
    ASSUME NEW S, IsFiniteSet(S), NEW f, \A x \in S : f[x] \in Int,
           NEW R, IsFiniteSet(R), NEW h, \A y \in R : h[y] \in Nat,
           NEW g \in [S -> R], \A x, y \in S : g[x] = g[y] => x = y,
           \A x \in S : f[x] <= h[g[x]]
    PROVE  SumFunctionOnSet(f, S) <= SumFunctionOnSet(h, R)
<1>. DEFINE Image(U) == {g[x] : x \in U}
            P == {U \in SUBSET S : SumFunctionOnSet(f, U) <= SumFunctionOnSet(h, Image(U))}
<1>t. /\ \A U \in SUBSET S : SumFunctionOnSet(f, U) \in Int
      /\ \A V \in SUBSET R : SumFunctionOnSet(h, V) \in Nat
  BY SumType, SumNat
<1>1. {} \in P
  <2>1. Image({}) = {}
    OBVIOUS
  <2>2. SumFunctionOnSet(h, Image({})) = 0 /\ SumFunctionOnSet(f, {}) = 0
    BY <2>1, SumEmpty
  <2>. QED BY <2>2
<1>2. ASSUME NEW U \in SUBSET S, U # {}, \A x \in U : U \ {x} \in P
      PROVE  U \in P
  <2>. DEFINE x == Pick(U)
  <2>1. x \in U /\ IsFiniteSet(U)
    BY <1>2, PickIn, FS_Subset
  <2>. HIDE DEF x
  <2>2. SumFunctionOnSet(f, U) = f[x] + SumFunctionOnSet(f, U \ {x})
    BY <2>1, SumRemove
  <2>3. Image(U) \in SUBSET R /\ g[x] \in Image(U) /\ Image(U) \ {g[x]} = Image(U \ {x})
    BY <2>1
  <2>. HIDE DEF Image
  <2>4. IsFiniteSet(Image(U)) /\ \A y \in Image(U) : h[y] \in Int
    BY <2>3, FS_Subset
  <2>5. SumFunctionOnSet(h, Image(U)) = h[g[x]] + SumFunctionOnSet(h, Image(U) \ {g[x]})
    BY <2>3, <2>4, SumRemove
  <2>6. SumFunctionOnSet(h, Image(U)) = h[g[x]] + SumFunctionOnSet(h, Image(U \ {x}))
    BY <2>3, <2>5, Zenon
  <2>7. SumFunctionOnSet(f, U \ {x}) <= SumFunctionOnSet(h, Image(U \ {x}))
    BY <1>2, <2>1
  <2>8. /\ f[x] \in Int /\ h[g[x]] \in Nat /\ f[x] <= h[g[x]]
        /\ SumFunctionOnSet(f, U \ {x}) \in Int
    BY <1>t, <2>1
  <2>9. SumFunctionOnSet(h, Image(U \ {x})) \in Nat
    <3>1. Image(U \ {x}) \in SUBSET R
      BY <2>3
    <3>. QED BY <3>1, <1>t
  <2>10. SumFunctionOnSet(f, U) <= SumFunctionOnSet(h, Image(U))
    BY <2>2, <2>6, <2>7, <2>8, <2>9
  <2>. QED BY <2>10
<1>3. P \in SUBSET SUBSET S
  OBVIOUS
<1>4. SUBSET S \subseteq P
  <2>. HIDE DEF P
  <2>. QED BY <1>1, <1>2, <1>3, FiniteInduction, Zenon
<1>5. SumFunctionOnSet(f, S) <= SumFunctionOnSet(h, Image(S))
  BY <1>4
<1>6. Image(S) \in SUBSET R
  OBVIOUS
<1>. HIDE DEF Image
<1>7. SumFunctionOnSet(h, Image(S)) <= SumFunctionOnSet(h, R)
  BY <1>6, SumPart
<1>. QED BY <1>5, <1>6, <1>7, <1>t

(* A sum of one term.                                                       *)
LEMMA SumOne ==
    ASSUME NEW f, NEW d, f[d] \in Int
    PROVE  SumFunctionOnSet(f, {d}) = f[d]
<1>1. IsFiniteSet({d}) /\ {d} \ {d} = {}
  BY FS_Singleton
<1>2. SumFunctionOnSet(f, {d}) = f[d] + SumFunctionOnSet(f, {d} \ {d})
  BY <1>1, SumRemove
<1>3. SumFunctionOnSet(f, {d}) = f[d] + SumFunctionOnSet(f, {})
  BY <1>1, <1>2, Zenon
<1>. QED BY <1>3, SumEmpty

(* A sum may be taken class by class.                                       *)
LEMMA SumClasses ==
    ASSUME NEW S, IsFiniteSet(S), NEW f, \A x \in S : f[x] \in Int,
           NEW C, IsFiniteSet(C), NEW g \in [S -> C]
    PROVE  SumFunctionOnSet([c \in C |-> SumFunctionOnSet(f, {x \in S : g[x] = c})], C)
               = SumFunctionOnSet(f, S)
<1>. DEFINE Class(U, c) == {x \in U : g[x] = c}
            By(U) == [c \in C |-> SumFunctionOnSet(f, Class(U, c))]
            P == {U \in SUBSET S : SumFunctionOnSet(By(U), C) = SumFunctionOnSet(f, U)}
<1>t. \A U \in SUBSET S : SumFunctionOnSet(f, U) \in Int
  BY SumType
<1>b. \A U \in SUBSET S, c \in C : By(U)[c] = SumFunctionOnSet(f, Class(U, c))
                                   /\ By(U)[c] \in Int
  <2>. TAKE U \in SUBSET S, c \in C
  <2>1. Class(U, c) \in SUBSET S
    OBVIOUS
  <2>. HIDE DEF Class
  <2>. QED BY <1>t, <2>1
<1>1. {} \in P
  <2>1. \A c \in C : By({})[c] = 0
    <3>. TAKE c \in C
    <3>1. Class({}, c) = {}
      OBVIOUS
    <3>2. SumFunctionOnSet(f, Class({}, c)) = 0
      BY <3>1, SumEmpty, Zenon
    <3>. QED BY <3>2
  <2>. HIDE DEF By
  <2>2. SumFunctionOnSet(By({}), C) = 0
    BY <2>1, SumZero
  <2>. QED BY <2>2, SumEmpty
<1>2. ASSUME NEW U \in SUBSET S, U # {}, \A x \in U : U \ {x} \in P
      PROVE  U \in P
  <2>. DEFINE x == Pick(U)
              V == U \ {x}
  <2>1. x \in U /\ IsFiniteSet(U) /\ V \in SUBSET S
    BY <1>2, PickIn, FS_Subset
  <2>. HIDE DEF x
  <2>2. SumFunctionOnSet(f, U) = f[x] + SumFunctionOnSet(f, V)
    BY <2>1, SumRemove
  <2>3. SumFunctionOnSet(By(V), C) = SumFunctionOnSet(f, V)
    BY <1>2, <2>1
  <2>4. g[x] \in C
    BY <2>1
  <2>5. \A c \in C \ {g[x]} : Class(U, c) = Class(V, c)
    OBVIOUS
  <2>6. /\ IsFiniteSet(Class(U, g[x])) /\ x \in Class(U, g[x])
        /\ Class(U, g[x]) \ {x} = Class(V, g[x])
        /\ \A y \in Class(U, g[x]) : f[y] \in Int
    BY <2>1, FS_Subset
  <2>. HIDE DEF Class, V
  <2>7. \A c \in C \ {g[x]} : By(U)[c] = By(V)[c]
    BY <2>5, Zenon
  <2>8. SumFunctionOnSet(f, Class(U, g[x])) = f[x] + SumFunctionOnSet(f, Class(U, g[x]) \ {x})
    BY <2>6, SumRemove
  <2>9. By(U)[g[x]] = f[x] + By(V)[g[x]]
    <3>1. SumFunctionOnSet(f, Class(U, g[x])) = f[x] + SumFunctionOnSet(f, Class(V, g[x]))
      BY <2>6, <2>8, Zenon
    <3>. QED BY <2>4, <3>1
  <2>10. /\ \A c \in C : By(V)[c] \in Int
         /\ By(U)[g[x]] \in Int /\ By(V)[g[x]] \in Int /\ f[x] \in Int
    BY <1>b, <2>1, <2>4
  <2>. HIDE DEF By
  <2>a. PICK u, v : u = By(U) /\ v = By(V)
    OBVIOUS
  <2>b. /\ \A c \in C \ {g[x]} : u[c] = v[c]
        /\ \A c \in C : v[c] \in Int
        /\ u[g[x]] \in Int /\ f[x] \in Int
    BY <2>7, <2>10, <2>a, Zenon
  <2>11. /\ SumFunctionOnSet(u, C) = SumFunctionOnSet(v, C) + (u[g[x]] - v[g[x]])
         /\ SumFunctionOnSet(v, C) \in Int
    BY <2>4, <2>b, SumPoint
  <2>12. u[g[x]] = f[x] + v[g[x]] /\ v[g[x]] \in Int
    BY <2>4, <2>9, <2>a, <2>b, Zenon
  <2>13. SumFunctionOnSet(u, C) = SumFunctionOnSet(f, U)
    BY <2>2, <2>3, <2>a, <2>b, <2>11, <2>12
  <2>. QED BY <2>a, <2>13, Zenon
<1>3. P \in SUBSET SUBSET S
  OBVIOUS
<1>4. SUBSET S \subseteq P
  <2>. HIDE DEF P
  <2>. QED BY <1>1, <1>2, <1>3, FiniteInduction, Zenon
<1>5. S \in P
  BY <1>4
<1>. QED BY <1>5

(* The sum of the first n terms of a sequence of numbers.                   *)
LEMMA SumFirst ==
    ASSUME NEW n \in Nat \ {0}, NEW f, \A k \in 1 .. n : f[k] \in Int
    PROVE  SumFunctionOnSet(f, 1 .. n) = SumFunctionOnSet(f, 1 .. n - 1) + f[n]
<1>1. IsFiniteSet(1 .. n) /\ n \in 1 .. n
  BY FS_Interval
<1>2. (1 .. n) \ {n} = 1 .. n - 1
  OBVIOUS
<1>3. SumFunctionOnSet(f, 1 .. n) = f[n] + SumFunctionOnSet(f, (1 .. n) \ {n})
  BY <1>1, SumRemove
<1>4. SumFunctionOnSet(f, 1 .. n) = f[n] + SumFunctionOnSet(f, 1 .. n - 1)
  BY <1>2, <1>3, Zenon
<1>5. SumFunctionOnSet(f, 1 .. n - 1) \in Int
  <2>1. 1 .. n - 1 \in SUBSET (1 .. n)
    OBVIOUS
  <2>. QED BY <1>1, <2>1, SumType
<1>6. f[n] \in Int
  BY <1>1
<1>. QED BY <1>4, <1>5, <1>6
=============================================================================
