---------------------------- MODULE TupleLemmas ----------------------------
(***************************************************************************)
(* Facts about numbers, tuples and finite ordered sets that the proofs     *)
(* about the components have in common.                                    *)
(***************************************************************************)
EXTENDS Integers, Sequences, FiniteSets, FiniteSetTheorems, WellFoundedInduction, TLAPS

-----------------------------------------------------------------------------
(* Induction and tuples.                                                   *)

(* A nonempty set of naturals has a least element.                         *)
LEMMA LeastNumber ==
  ASSUME NEW T, T \subseteq Nat, T # {}
  PROVE  \E x \in T : \A y \in T : x <= y
<1> DEFINE R == {ss \in Nat \X Nat : ss[1] < ss[2]}
<1>1. IsWellFoundedOn(OpToRel(<, Nat), Nat)
  BY NatLessThanWellFounded
<1>2. OpToRel(<, Nat) = R
  BY DEF OpToRel
<1>3. IsWellFoundedOn(R, Nat)
  BY <1>1, <1>2
<1> HIDE DEF R
<1>4. PICK x \in T : \A y \in T : ~(<<y, x>> \in R)
  BY <1>3, WFMin
<1>5. \A y \in T : ~(y < x)
  BY <1>4 DEF R
<1>6. \A y \in T : x <= y
  BY <1>5
<1> QED
  BY <1>6

IsTuple(s) == s \in Seq({s[i] : i \in DOMAIN s})

LEMMA TupleType ==
  ASSUME NEW s, IsTuple(s)
  PROVE  Len(s) \in Nat /\ DOMAIN s = 1..Len(s) /\ s = [i \in 1..Len(s) |-> s[i]]
BY DEF IsTuple

LEMMA TupleAppend ==
  ASSUME NEW s, IsTuple(s), NEW e
  PROVE  /\ IsTuple(Append(s, e)) /\ Len(Append(s, e)) = Len(s) + 1
         /\ Append(s, e)[Len(s) + 1] = e
         /\ \A i \in 1..Len(s) : Append(s, e)[i] = s[i]
<1> DEFINE T == {s[i] : i \in DOMAIN s} \cup {e}
           a == Append(s, e)
<1>1. s \in Seq(T) /\ e \in T
  BY DEF IsTuple
<1>2. /\ a \in Seq(T) /\ Len(a) = Len(s) + 1 /\ a[Len(s) + 1] = e
      /\ \A i \in 1..Len(s) : a[i] = s[i]
  BY <1>1
<1>3. IsTuple(a)
  BY <1>2 DEF IsTuple
<1> QED
  BY <1>2, <1>3

LEMMA FunctionTuple ==
  ASSUME NEW k \in Nat, NEW b, b = [i \in 1..k |-> b[i]]
  PROVE  IsTuple(b) /\ Len(b) = k
<1> DEFINE T == {b[i] : i \in 1..k}
<1>1. b \in [1..k -> T]
  OBVIOUS
<1>2. b \in Seq(T) /\ Len(b) = k
  BY <1>1
<1> QED
  BY <1>2 DEF IsTuple

(* Tuples of one length with the same elements are equal.                  *)
LEMMA TupleEqual ==
  ASSUME NEW s, NEW t, IsTuple(s), IsTuple(t), Len(s) = Len(t),
         \A i \in 1..Len(s) : s[i] = t[i]
  PROVE  s = t
<1>1. s = [i \in 1..Len(s) |-> s[i]] /\ t = [i \in 1..Len(t) |-> t[i]]
  BY TupleType
<1> QED
  BY <1>1

LEMMA EmptyTuple == IsTuple(<<>>) /\ Len(<<>>) = 0 /\ DOMAIN <<>> = {}
<1>1. <<>> \in Seq({<<>>[i] : i \in DOMAIN <<>>})
  OBVIOUS
<1> QED
  BY <1>1 DEF IsTuple

(* Induction from k to n, over the set of the numbers with the property.   *)
LEMMA UpTo ==
  ASSUME NEW k \in Nat, NEW n \in Nat, NEW S, k \in S,
         \A i \in k..n : i < n /\ i \in S => i + 1 \in S
  PROVE  \A i \in k..n : i \in S
<1> DEFINE T == {i \in k..n : i \notin S}
<1> SUFFICES ASSUME T # {} PROVE FALSE
  OBVIOUS
<1>1. T \subseteq Nat
  OBVIOUS
<1>2. PICK m \in T : \A y \in T : m <= y
  BY <1>1, LeastNumber
<1>3. m \in Nat /\ m \in k..n /\ m # k /\ m \notin S
  OBVIOUS
<1>4. m - 1 \in k..n /\ m - 1 < n /\ (m - 1) + 1 = m
  BY <1>3
<1>5. m - 1 \notin T
  BY <1>2, <1>3, <1>4
<1>6. m - 1 \in S
  BY <1>4, <1>5
<1> QED BY <1>3, <1>4, <1>6

(* A bijection keeps the number of elements.                               *)
LEMMA SameSize ==
  ASSUME NEW S, NEW T, IsFiniteSet(S), NEW f, f \in [S -> T],
         \A a, b \in S : f[a] = f[b] => a = b,
         \A t \in T : \E s \in S : f[s] = t
  PROVE  IsFiniteSet(T) /\ Cardinality(T) = Cardinality(S)
<1>1. f \in Injection(S, T) /\ f \in Surjection(S, T)
  BY DEF Injection, Surjection, IsInjective
<1>2. ExistsBijection(S, T)
  BY <1>1 DEF ExistsBijection, Bijection
<1> QED
  BY <1>2, FS_Bijection

-----------------------------------------------------------------------------
(* Counting.                                                               *)

(* An order on a finite set, as a set of pairs, and the elements before x. *)
IsOrder(S, R) ==
  /\ \A x \in S : <<x, x>> \notin R
  /\ \A x, y, z \in S : <<x, y>> \in R /\ <<y, z>> \in R => <<x, z>> \in R
  /\ \A x, y \in S : x = y \/ <<x, y>> \in R \/ <<y, x>> \in R
Before(S, R, x) == {y \in S : <<y, x>> \in R}

(* Ranks tell the elements apart and leave no gap.                         *)
LEMMA RanksAreDense ==
  ASSUME NEW S, NEW R, IsFiniteSet(S), IsOrder(S, R)
  PROVE  LET rank == [x \in S |-> Cardinality(Before(S, R, x))] IN
         /\ Cardinality(S) \in Nat
         /\ rank \in [S -> 0..(Cardinality(S) - 1)]
         /\ \A x, y \in S : rank[x] = rank[y] => x = y
         /\ \A k \in 0..(Cardinality(S) - 1) : \E x \in S : rank[x] = k
<1> DEFINE rank == [x \in S |-> Cardinality(Before(S, R, x))]
           n == Cardinality(S)
           T == 0..(n - 1)
<1>1. n \in Nat
  BY FS_CardinalityType
<1>2. ASSUME NEW x \in S
      PROVE  IsFiniteSet(Before(S, R, x)) /\ Cardinality(Before(S, R, x)) \in T
  <2>1. Before(S, R, x) \in SUBSET S /\ x \notin Before(S, R, x)
    BY DEF Before, IsOrder
  <2>2. IsFiniteSet(Before(S, R, x)) /\ Cardinality(Before(S, R, x)) <= n /\ Cardinality(Before(S, R, x)) # n
    BY <2>1, FS_Subset
  <2>3. Cardinality(Before(S, R, x)) \in Nat
    BY <2>2, FS_CardinalityType
  <2> QED
    BY <1>1, <2>2, <2>3
<1>3. rank \in [S -> T]
  BY <1>2
<1>4. ASSUME NEW x \in S, NEW y \in S, <<x, y>> \in R
      PROVE  Cardinality(Before(S, R, x)) # Cardinality(Before(S, R, y))
  <2>1. Before(S, R, x) \in SUBSET Before(S, R, y)
    BY <1>4 DEF Before, IsOrder
  <2>2. x \in Before(S, R, y) /\ x \notin Before(S, R, x)
    BY <1>4 DEF Before, IsOrder
  <2> QED
    BY <1>2, <2>1, <2>2, FS_Subset
<1>5. \A x, y \in S : rank[x] = rank[y] => x = y
  <2> SUFFICES ASSUME NEW x \in S, NEW y \in S, x # y, rank[x] = rank[y]
               PROVE  FALSE
    OBVIOUS
  <2>1. Cardinality(Before(S, R, x)) = Cardinality(Before(S, R, y))
    OBVIOUS
  <2>2. <<x, y>> \in R \/ <<y, x>> \in R
    BY DEF IsOrder
  <2> HIDE DEF rank
  <2> QED
    BY <1>4, <2>1, <2>2
<1>6. IsFiniteSet(T) /\ Cardinality(T) = n
  <2>1. 0 \in Int /\ n - 1 \in Int /\ (0 > n - 1 => n = 0) /\ (n - 1) - 0 + 1 = n
    <3> HIDE DEF n
    <3> QED
      BY <1>1
  <2>2. /\ IsFiniteSet(0..(n - 1))
        /\ Cardinality(0..(n - 1)) = IF 0 > n - 1 THEN 0 ELSE (n - 1) - 0 + 1
    <3> HIDE DEF n
    <3> QED
      BY <2>1, FS_Interval
  <2> HIDE DEF n
  <2> QED
    BY <2>1, <2>2
<1> HIDE DEF T
<1>7. rank \in Injection(S, T)
  BY <1>3, <1>5 DEF Injection, IsInjective
<1> HIDE DEF rank
<1>8. rank \in Surjection(S, T)
  BY <1>6, <1>7, FS_Injection
<1>9. \A k \in T : \E x \in S : rank[x] = k
  BY <1>8 DEF Surjection
<1> QED
  BY <1>1, <1>3, <1>5, <1>9 DEF rank, T
=============================================================================
