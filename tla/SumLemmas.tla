------------------------------ MODULE SumLemmas ------------------------------
(***************************************************************************)
(* Lemmas about MapThenSumSet over finite sets of natural numbers, which   *)
(* RoomStats uses for the clicks of a batch and OnlineHeartbeat for the    *)
(* clients of a room.  Induction is over sets of numbers and sets of sets, *)
(* not over predicates, and so stays first-order.                          *)
(***************************************************************************)
EXTENDS Integers, FiniteSets, FiniteSetsExt, FiniteSetTheorems, WellFoundedInduction, TLAPS

(* The elements of s in the order in which a fold takes them. *)
Chosen(s) == CHOOSE x \in s : TRUE
Rest(s) == s \ {Chosen(s)}

(* What a fold that adds up f has computed for a subset of S. *)
IsSum(h, f, S) ==
    h = [s \in SUBSET S |-> IF s = {} THEN 0 ELSE f[Chosen(s)] + h[Rest(s)]]

(* A sum over S, as the modules write it. *)
Total(f, S) == MapThenSumSet(LAMBDA t : f[t], S)

----------------------------------------------------------------------------
(* Induction. *)

LEMMA NumberInduction ==
    ASSUME NEW G \in SUBSET Nat, 0 \in G, \A n \in G : n + 1 \in G
    PROVE  G = Nat
<1> SUFFICES ASSUME Nat \ G # {} PROVE FALSE
    OBVIOUS
<1>1. \E x \in Nat \ G : \A y \in Nat \ G : ~(<<y, x>> \in OpToRel(<, Nat))
    BY WFMin, NatLessThanWellFounded
<1>2. PICK x \in Nat \ G : \A y \in Nat \ G : ~(y < x)
    BY <1>1 DEF OpToRel
<1>3. x # 0 /\ x - 1 \in Nat /\ (x - 1) + 1 = x
    BY <1>2
<1>4. x - 1 \in G
    BY <1>2, <1>3
<1> QED
    BY <1>2, <1>3, <1>4

LEMMA ChosenIn == \A s : s # {} => Chosen(s) \in s
BY DEF Chosen

LEMMA SubsetSize ==
    ASSUME NEW S, IsFiniteSet(S), NEW s \in SUBSET S
    PROVE  /\ IsFiniteSet(s) /\ Cardinality(s) \in Nat
           /\ Cardinality(s) = 0 <=> s = {}
           /\ \A x \in s : Cardinality(s \ {x}) = Cardinality(s) - 1
<1>1. IsFiniteSet(s)
    BY FS_Subset
<1>2. Cardinality(s) \in Nat /\ (Cardinality(s) = 0 <=> s = {})
    BY <1>1, FS_CardinalityType, FS_EmptySet
<1>3. \A x \in s : Cardinality(s \ {x}) = Cardinality(s) - 1
    BY <1>1, FS_RemoveElement
<1> QED
    BY <1>1, <1>2, <1>3

(* A property of the subsets of a finite set that goes from the subsets     *)
(* with one element less.                                                   *)
LEMMA SubsetInduction ==
    ASSUME NEW S, IsFiniteSet(S), NEW Good \in SUBSET (SUBSET S),
           {} \in Good,
           \A s \in SUBSET S : (s # {} /\ \A x \in s : s \ {x} \in Good) => s \in Good
    PROVE  \A s \in SUBSET S : s \in Good
<1> DEFINE G == {n \in Nat : \A s \in SUBSET S : Cardinality(s) = n => s \in Good}
<1>1. G \in SUBSET Nat
    OBVIOUS
<1>2. 0 \in G
    BY SubsetSize
<1>3. ASSUME NEW n \in G PROVE n + 1 \in G
  <2> SUFFICES ASSUME NEW s \in SUBSET S, Cardinality(s) = n + 1 PROVE s \in Good
      OBVIOUS
  <2>1. n \in Nat /\ n + 1 # 0 /\ (n + 1) - 1 = n
      OBVIOUS
  <2>2. s # {}
      BY <2>1, SubsetSize
  <2>3. \A x \in s : Cardinality(s \ {x}) = n /\ s \ {x} \in SUBSET S
      BY <2>1, SubsetSize
  <2>4. \A x \in s : s \ {x} \in Good
      BY <2>3
  <2> QED
      BY <2>2, <2>4
<1> HIDE DEF G
<1>4. G = Nat
    BY <1>1, <1>2, <1>3, NumberInduction
<1> QED
    BY <1>4, SubsetSize DEF G

----------------------------------------------------------------------------
(* The fold is well defined. *)

LEMMA SumExists ==
    ASSUME NEW S, IsFiniteSet(S), NEW f, \A x \in S : f[x] \in Nat
    PROVE  \E h : IsSum(h, f, S)
<1> DEFINE Small(n) == {s \in SUBSET S : Cardinality(s) <= n}
           Value(g, s) == IF s = {} THEN 0 ELSE f[Chosen(s)] + g[Rest(s)]
           G == {n \in Nat : \E g \in [Small(n) -> Nat] : \A s \in Small(n) : g[s] = Value(g, s)}
<1>1. G \in SUBSET Nat
    OBVIOUS
<1>2. 0 \in G
  <2>1. \A s \in Small(0) : s = {}
      BY SubsetSize
  <2>2. [s \in Small(0) |-> 0] \in [Small(0) -> Nat]
      OBVIOUS
  <2>3. \A s \in Small(0) : [t \in Small(0) |-> 0][s] = Value([t \in Small(0) |-> 0], s)
      BY <2>1
  <2> QED
      BY <2>2, <2>3
<1>3. ASSUME NEW n \in G PROVE n + 1 \in G
  <2>1. PICK g \in [Small(n) -> Nat] : \A s \in Small(n) : g[s] = Value(g, s)
      OBVIOUS
  <2>2. PICK k : k = [s \in Small(n + 1) |-> Value(g, s)]
      OBVIOUS
  <2>3. \A s \in Small(n + 1) : s # {} => Rest(s) \in Small(n) /\ f[Chosen(s)] \in Nat
    <3> SUFFICES ASSUME NEW s \in Small(n + 1), s # {}
                 PROVE  Rest(s) \in Small(n) /\ f[Chosen(s)] \in Nat
        OBVIOUS
    <3>1. Chosen(s) \in s /\ Chosen(s) \in S
        BY ChosenIn
    <3>2. Cardinality(Rest(s)) = Cardinality(s) - 1 /\ Cardinality(s) \in Nat
        BY <3>1, SubsetSize DEF Rest
    <3>3. n \in Nat /\ Cardinality(s) <= n + 1
        OBVIOUS
    <3>4. Cardinality(Rest(s)) <= n
        BY <3>2, <3>3
    <3> QED
        BY <3>1, <3>4 DEF Rest
  <2>4. k \in [Small(n + 1) -> Nat]
      BY <2>2, <2>3
  <2>5. \A s \in Small(n) : s \in Small(n + 1) /\ k[s] = g[s]
    <3>1. \A s \in Small(n) : s \in Small(n + 1)
        BY SubsetSize
    <3> QED
        BY <2>1, <2>2, <3>1
  <2>6. \A s \in Small(n + 1) : k[s] = Value(k, s)
      BY <2>2, <2>3, <2>5
  <2>7. n + 1 \in Nat
      OBVIOUS
  <2> QED
      BY <2>4, <2>6, <2>7
<1>4. G = Nat
  <2> HIDE DEF G
  <2> QED
      BY <1>1, <1>2, <1>3, NumberInduction
<1>5. Cardinality(S) \in G
    BY <1>4, SubsetSize
<1>6. PICK g \in [Small(Cardinality(S)) -> Nat] :
         \A s \in Small(Cardinality(S)) : g[s] = Value(g, s)
    BY <1>5
<1>7. Small(Cardinality(S)) = SUBSET S
    BY FS_Subset
<1>8. g = [s \in SUBSET S |-> Value(g, s)]
    BY <1>6, <1>7
<1> QED
    BY <1>8 DEF IsSum

LEMMA SumOfFold ==
    ASSUME NEW S, IsFiniteSet(S), NEW f, \A x \in S : f[x] \in Nat
    PROVE  \E h : IsSum(h, f, S) /\ Total(f, S) = h[S]
<1>1. IsSum(CHOOSE h : IsSum(h, f, S), f, S)
    BY SumExists
<1>2. Total(f, S) = (CHOOSE h : IsSum(h, f, S))[S]
    BY DEF Total, MapThenSumSet, MapThenFoldSet, IsSum, Chosen, Rest
<1> QED
    BY <1>1, <1>2

(* What the fold has computed for a set does not depend on what it goes on  *)
(* to.                                                                      *)
LEMMA SumUnique ==
    ASSUME NEW S, IsFiniteSet(S), NEW T \in SUBSET S, NEW f, NEW h, NEW k,
           IsSum(h, f, S), IsSum(k, f, T)
    PROVE  \A s \in SUBSET T : h[s] = k[s]
<1> DEFINE Good == {s \in SUBSET T : h[s] = k[s]}
<1>0. IsFiniteSet(T)
    BY FS_Subset
<1>1. \A s \in SUBSET T : /\ h[s] = IF s = {} THEN 0 ELSE f[Chosen(s)] + h[Rest(s)]
                          /\ k[s] = IF s = {} THEN 0 ELSE f[Chosen(s)] + k[Rest(s)]
  <2> TAKE s \in SUBSET T
  <2>1. s \in SUBSET S
      OBVIOUS
  <2>2. h[s] = IF s = {} THEN 0 ELSE f[Chosen(s)] + h[Rest(s)]
      BY <2>1 DEF IsSum
  <2>3. k[s] = IF s = {} THEN 0 ELSE f[Chosen(s)] + k[Rest(s)]
      BY DEF IsSum
  <2> QED
      BY <2>2, <2>3
<1>2. {} \in Good
    BY <1>1
<1>3. ASSUME NEW s \in SUBSET T, s # {}, \A x \in s : s \ {x} \in Good
      PROVE  s \in Good
    BY <1>1, <1>3, ChosenIn DEF Rest
<1>4. Good \in SUBSET (SUBSET T)
    OBVIOUS
<1>5. \A s \in SUBSET T : s \in Good
  <2> HIDE DEF Good
  <2> QED
      BY <1>0, <1>2, <1>3, <1>4, SubsetInduction
<1> QED
    BY <1>5

----------------------------------------------------------------------------
(* Sums. *)

LEMMA TotalStep ==
    ASSUME NEW S, IsFiniteSet(S), NEW f, \A x \in S : f[x] \in Nat
    PROVE  Total(f, S) = IF S = {} THEN 0 ELSE f[Chosen(S)] + Total(f, Rest(S))
<1>1. PICK h : IsSum(h, f, S) /\ Total(f, S) = h[S]
    BY SumOfFold
<1>2. h[S] = IF S = {} THEN 0 ELSE f[Chosen(S)] + h[Rest(S)]
    BY <1>1 DEF IsSum
<1>3. Rest(S) \in SUBSET S /\ IsFiniteSet(Rest(S)) /\ \A x \in Rest(S) : f[x] \in Nat
    BY FS_Subset DEF Rest
<1>4. PICK k : IsSum(k, f, Rest(S)) /\ Total(f, Rest(S)) = k[Rest(S)]
    BY <1>3, SumOfFold
<1>5. h[Rest(S)] = k[Rest(S)]
    BY <1>1, <1>3, <1>4, SumUnique
<1> QED
    BY <1>1, <1>2, <1>4, <1>5

LEMMA TotalIsNat ==
    ASSUME NEW S, IsFiniteSet(S), NEW f, \A x \in S : f[x] \in Nat
    PROVE  Total(f, S) \in Nat
<1> DEFINE Good == {s \in SUBSET S : Total(f, s) \in Nat}
<1>1. \A s \in SUBSET S : IsFiniteSet(s) /\ \A x \in s : f[x] \in Nat
    BY FS_Subset
<1>2. \A s \in SUBSET S : Total(f, s) = IF s = {} THEN 0 ELSE f[Chosen(s)] + Total(f, Rest(s))
    BY <1>1, TotalStep
<1>3. {} \in Good
  <2>1. Total(f, {}) = 0
      BY <1>2
  <2> QED
      BY <2>1
<1>4. ASSUME NEW s \in SUBSET S, s # {}, \A x \in s : s \ {x} \in Good PROVE s \in Good
  <2>1. Chosen(s) \in s
      BY <1>4, ChosenIn
  <2>2. Total(f, Rest(s)) \in Nat /\ f[Chosen(s)] \in Nat
      BY <1>1, <1>4, <2>1 DEF Rest
  <2>3. Total(f, s) = f[Chosen(s)] + Total(f, Rest(s))
      BY <1>2, <1>4
  <2> QED
      BY <2>2, <2>3
<1>5. Good \in SUBSET (SUBSET S)
    OBVIOUS
<1>6. S \in Good
  <2> HIDE DEF Good
  <2> QED
      BY <1>3, <1>4, <1>5, SubsetInduction
<1> QED
    BY <1>6

(* The elements may be taken in any order. *)
LEMMA TotalRemove ==
    ASSUME NEW S, IsFiniteSet(S), NEW f, \A x \in S : f[x] \in Nat, NEW y \in S
    PROVE  Total(f, S) = f[y] + Total(f, S \ {y})
<1> DEFINE Good == {s \in SUBSET S : \A x \in s : Total(f, s) = f[x] + Total(f, s \ {x})}
<1>1. \A s \in SUBSET S : IsFiniteSet(s) /\ \A x \in s : f[x] \in Nat
    BY FS_Subset
<1>2. \A s \in SUBSET S : Total(f, s) = IF s = {} THEN 0 ELSE f[Chosen(s)] + Total(f, Rest(s))
    BY <1>1, TotalStep
<1>3. \A s \in SUBSET S : Total(f, s) \in Nat
    BY <1>1, TotalIsNat
<1>4. {} \in Good
    OBVIOUS
<1>5. ASSUME NEW s \in SUBSET S, s # {}, \A x \in s : s \ {x} \in Good PROVE s \in Good
  <2> SUFFICES ASSUME NEW x \in s PROVE Total(f, s) = f[x] + Total(f, s \ {x})
      OBVIOUS
  <2>1. PICK c : c = Chosen(s)
      OBVIOUS
  <2>2. c \in s /\ Total(f, s) = f[c] + Total(f, s \ {c})
      BY <1>2, <1>5, <2>1, ChosenIn DEF Rest
  <2>3. CASE x # c
    <3>1. PICK r : r = (s \ {c}) \ {x}
        OBVIOUS
    <3>2. Total(f, s \ {c}) = f[x] + Total(f, r)
        BY <1>5, <2>2, <2>3, <3>1
    <3>3. r = (s \ {x}) \ {c}
        BY <3>1
    <3>4. Total(f, s \ {x}) = f[c] + Total(f, r)
        BY <1>5, <2>2, <2>3, <3>3
    <3>5. f[x] \in Nat /\ f[c] \in Nat /\ Total(f, r) \in Nat
        BY <1>1, <1>3, <2>2, <3>1
    <3>6. f[c] + (f[x] + Total(f, r)) = f[x] + (f[c] + Total(f, r))
        BY <3>5
    <3> QED
        BY <2>2, <3>2, <3>4, <3>6
  <2> QED
      BY <2>2, <2>3
<1>6. Good \in SUBSET (SUBSET S)
    OBVIOUS
<1>7. S \in Good
  <2> HIDE DEF Good
  <2> QED
      BY <1>4, <1>5, <1>6, SubsetInduction
<1> QED
    BY <1>7

LEMMA TotalPositive ==
    ASSUME NEW S, IsFiniteSet(S), NEW f, \A x \in S : f[x] \in Nat \ {0}, S # {}
    PROVE  Total(f, S) > 0
<1>1. PICK y \in S : TRUE
    OBVIOUS
<1>2. IsFiniteSet(S \ {y})
    BY FS_Subset
<1>3. Total(f, S \ {y}) \in Nat
    BY <1>2, TotalIsNat
<1>4. Total(f, S) = f[y] + Total(f, S \ {y})
    BY TotalRemove
<1> QED
    BY <1>3, <1>4

LEMMA TotalMonotone ==
    ASSUME NEW S, IsFiniteSet(S), NEW f, \A x \in S : f[x] \in Nat, NEW T \in SUBSET S
    PROVE  Total(f, T) <= Total(f, S)
<1> DEFINE Good == {s \in SUBSET S : \A t \in SUBSET s : Total(f, t) <= Total(f, s)}
<1>1. \A s \in SUBSET S : IsFiniteSet(s) /\ \A x \in s : f[x] \in Nat
    BY FS_Subset
<1>2. \A s \in SUBSET S : Total(f, s) \in Nat
    BY <1>1, TotalIsNat
<1>3. {} \in Good
  <2>1. Total(f, {}) \in Nat
      BY <1>2
  <2>2. \A t \in SUBSET {} : t = {}
      OBVIOUS
  <2> QED
      BY <2>1, <2>2
<1>4. ASSUME NEW s \in SUBSET S, s # {}, \A x \in s : s \ {x} \in Good PROVE s \in Good
  <2> SUFFICES ASSUME NEW t \in SUBSET s, t # s PROVE Total(f, t) <= Total(f, s)
    <3>1. Total(f, s) <= Total(f, s)
        BY <1>2
    <3> QED
        BY <3>1
  <2>1. PICK x \in s : x \notin t
      OBVIOUS
  <2>2. Total(f, t) <= Total(f, s \ {x})
      BY <1>4, <2>1
  <2>3. Total(f, s) = f[x] + Total(f, s \ {x})
      BY <1>1, TotalRemove
  <2>4. Total(f, t) \in Nat /\ Total(f, s \ {x}) \in Nat /\ f[x] \in Nat
      BY <1>1, <1>2
  <2> HIDE DEF Good
  <2> QED
      BY <2>2, <2>3, <2>4
<1>5. Good \in SUBSET (SUBSET S)
    OBVIOUS
<1>6. S \in Good
  <2> HIDE DEF Good
  <2> QED
      BY <1>3, <1>4, <1>5, SubsetInduction
<1> QED
    BY <1>6

LEMMA TotalBound ==
    ASSUME NEW S, IsFiniteSet(S), NEW M \in Nat, NEW f, \A x \in S : f[x] \in 0..M
    PROVE  Total(f, S) <= M * Cardinality(S)
<1> DEFINE Good == {s \in SUBSET S : Total(f, s) <= M * Cardinality(s)}
<1>1. \A s \in SUBSET S : IsFiniteSet(s) /\ \A x \in s : f[x] \in Nat
    BY FS_Subset
<1>2. \A s \in SUBSET S : Total(f, s) = IF s = {} THEN 0 ELSE f[Chosen(s)] + Total(f, Rest(s))
    BY <1>1, TotalStep
<1>3. {} \in Good
  <2>1. Cardinality({}) = 0 /\ M * 0 = 0
      BY FS_EmptySet
  <2>2. Total(f, {}) = 0
      BY <1>2
  <2> QED
      BY <2>1, <2>2
<1>4. ASSUME NEW s \in SUBSET S, s # {}, \A x \in s : s \ {x} \in Good PROVE s \in Good
  <2>1. Chosen(s) \in s
      BY <1>4, ChosenIn
  <2>2. /\ Total(f, Rest(s)) <= M * Cardinality(Rest(s)) /\ f[Chosen(s)] \in 0..M
        /\ Total(f, s) = f[Chosen(s)] + Total(f, Rest(s))
      BY <1>2, <1>4, <2>1 DEF Rest
  <2>3. Cardinality(Rest(s)) = Cardinality(s) - 1 /\ Cardinality(s) \in Nat
      BY <2>1, SubsetSize DEF Rest
  <2>4. Total(f, Rest(s)) \in Nat
      BY <1>1, TotalIsNat DEF Rest
  <2>5. \A c \in Nat : M * (c - 1) = M * c - M /\ M * c \in Int
      OBVIOUS
  <2>6. Total(f, s) <= M * Cardinality(s)
    <3> HIDE DEF Good
    <3> QED
        BY <2>2, <2>3, <2>4, <2>5
  <2> QED
      BY <2>6
<1>5. Good \in SUBSET (SUBSET S)
    OBVIOUS
<1>6. S \in Good
  <2> HIDE DEF Good
  <2> QED
      BY <1>3, <1>4, <1>5, SubsetInduction
<1> QED
    BY <1>6
=============================================================================
