--------------------------- MODULE InductionProofs ---------------------------
(***************************************************************************)
(* Induction over the natural numbers and recursion along 1..n, stated     *)
(* with sets and functions instead of operators.  The proofs about what a  *)
(* loop or a fold computes for every input rest on them.                   *)
(***************************************************************************)
EXTENDS Integers, FiniteSetsExt, WellFoundedInduction, FiniteSetTheorems, TLAPS

(* A set of numbers that is not empty has a least member.                  *)
LEMMA LeastNumber ==
  ASSUME NEW T, T \subseteq Nat, T # {}
  PROVE  \E x \in T : \A y \in T : x <= y
<1> DEFINE Below == {ss \in Nat \X Nat : ss[1] < ss[2]}
<1>1. IsWellFoundedOn(Below, Nat)
  BY NatLessThanWellFounded DEF OpToRel
<1>2. PICK x \in T : \A y \in T : ~ (<<y, x>> \in Below)
  BY <1>1, WFMin
<1>3. \A y \in T : ~ (y < x)
  BY <1>2
<1> QED
  BY <1>3

(* Induction: what holds of 0 and passes from k to k + 1 holds up to n.    *)
LEMMA InductionTo ==
  ASSUME NEW n \in Nat, NEW T, 0 \in T, \A k \in 0..n : k < n /\ k \in T => k + 1 \in T
  PROVE  0..n \subseteq T
<1> DEFINE Out == (0..n) \ T
<1>1. ASSUME Out # {}
      PROVE  FALSE
  <2>0. Out \subseteq Nat
    OBVIOUS
  <2>1. PICK x \in Out : \A y \in Out : x <= y
    <3> HIDE DEF Out
    <3> QED
      BY <1>1, <2>0, LeastNumber
  <2>2. x - 1 \in 0..n /\ x - 1 \in T /\ x - 1 < n
    BY <2>1
  <2> QED
    BY <2>1, <2>2
<1> QED
  BY <1>1

(* The greatest of a set of numbers.                                       *)
LEMMA GreatestOfInterval ==
  ASSUME NEW n \in Nat, NEW s \in SUBSET (1..n), NEW m \in s, \A x \in s : x <= m
  PROVE  Max(s) = m
<1>1. \A x \in s : m >= x /\ x \in Int
  OBVIOUS
<1>2. Max(s) \in s /\ \A x \in s : Max(s) >= x
  BY <1>1, Zenon DEF Max
<1>3. Max(s) \in Int /\ m \in Int /\ Max(s) >= m /\ m >= Max(s)
  BY <1>1, <1>2
<1> QED
  BY <1>3

LEMMA MaxIsAMember ==
  ASSUME NEW n \in Nat, NEW s \in SUBSET (1..n), s # {}
  PROVE  Max(s) \in s
<1> DEFINE T == {n - x : x \in s}
<1>0. T \subseteq Nat /\ T # {}
  <2>1. \A x \in s : n - x \in Nat
    OBVIOUS
  <2> QED
    BY <2>1
<1>1. PICK y \in T : \A z \in T : y <= z
  <2> HIDE DEF T
  <2> QED
    BY <1>0, LeastNumber
<1>2. PICK m \in s : y = n - m
  BY <1>1
<1>3. \A x \in s : x <= m
  BY <1>1, <1>2
<1> QED
  BY <1>3, GreatestOfInterval

(* 1..k is 1..(k - 1) with k added as its greatest member.                 *)
LEMMA IntervalsGrow ==
  ASSUME NEW n \in Nat, NEW k \in 1..n
  PROVE  /\ (1..k) \in SUBSET (1..n) /\ (1..k) # {}
         /\ (1..k) \ {k} = 1..(k - 1) /\ Max(1..k) = k
<1>1. (1..k) \in SUBSET (1..n) /\ (1..k) # {} /\ (1..k) \ {k} = 1..(k - 1)
  OBVIOUS
<1>2. k \in 1..k /\ \A x \in 1..k : x <= k
  OBVIOUS
<1> QED
  BY <1>1, <1>2, GreatestOfInterval

(* A function on the subsets of 1..n can be defined by what it gives the   *)
(* empty set and by what it makes, with the greatest member of a set, of   *)
(* its value without that member: the recursion of FoldLeft.               *)
Folds(g, n, base, F) ==
  g = [s \in SUBSET (1..n) |-> IF s = {} THEN base ELSE F[<<g[s \ {Max(s)}], Max(s)>>]]

LEMMA FoldsExist ==
  ASSUME NEW n \in Nat, NEW D, NEW base \in D, NEW F \in [D \X (1..n) -> D]
  PROVE  \E g \in [SUBSET (1..n) -> D] : Folds(g, n, base, F)
<1> DEFINE T == {k \in 0..n : \E g \in [SUBSET (1..k) -> D] : Folds(g, k, base, F)}
<1>1. 0 \in T
  <2> DEFINE g == [s \in SUBSET (1..0) |-> base]
  <2>1. SUBSET (1..0) = {{}}
    OBVIOUS
  <2>2. Folds(g, 0, base, F)
    BY <2>1 DEF Folds
  <2>3. g \in [SUBSET (1..0) -> D]
    OBVIOUS
  <2> QED
    BY <2>2, <2>3
<1>2. ASSUME NEW k \in 0..n, k < n, k \in T
      PROVE  k + 1 \in T
  <2>1. PICK g \in [SUBSET (1..k) -> D] : Folds(g, k, base, F)
    BY <1>2
  <2> DEFINE d == [s \in SUBSET (1..(k + 1)) |->
                     IF k + 1 \in s THEN F[<<g[s \ {k + 1}], k + 1>>] ELSE g[s]]
  <2>2. ASSUME NEW s \in SUBSET (1..(k + 1))
        PROVE  /\ d[s] \in D
               /\ d[s] = IF s = {} THEN base ELSE F[<<d[s \ {Max(s)}], Max(s)>>]
    <3>1. CASE k + 1 \in s
      <4>1. s \ {k + 1} \in SUBSET (1..k)
        OBVIOUS
      <4>2. Max(s) = k + 1
        <5>1. k + 1 \in Nat /\ \A x \in s : x <= k + 1
          OBVIOUS
        <5> HIDE DEF d
        <5> QED
          BY <3>1, <5>1, GreatestOfInterval
      <4>3. d[s] = F[<<g[s \ {k + 1}], k + 1>>] /\ d[s \ {k + 1}] = g[s \ {k + 1}]
        BY <3>1, <4>1
      <4> QED
        BY <1>2, <3>1, <4>1, <4>2, <4>3
    <3>2. CASE k + 1 \notin s
      <4>1. s \in SUBSET (1..k)
        BY <3>2
      <4>2. d[s] = g[s]
        BY <3>2
      <4>3. g[s] = IF s = {} THEN base ELSE F[<<g[s \ {Max(s)}], Max(s)>>]
        BY <2>1, <4>1 DEF Folds
      <4>4. s \ {Max(s)} \in SUBSET (1..k)
        BY <4>1
      <4>5. d[s \ {Max(s)}] = g[s \ {Max(s)}]
        BY <3>2, <4>4
      <4> QED
        BY <4>1, <4>2, <4>3, <4>5
    <3> QED
      BY <3>1, <3>2
  <2> HIDE DEF d
  <2>3. d = [s \in SUBSET (1..(k + 1)) |-> d[s]]
    BY DEF d
  <2>4. Folds(d, k + 1, base, F)
    BY <2>2, <2>3 DEF Folds
  <2>5. d \in [SUBSET (1..(k + 1)) -> D]
    BY <2>2, <2>3
  <2> QED
    BY <1>2, <2>4, <2>5
<1> HIDE DEF T
<1>3. 0..n \subseteq T
  BY <1>1, <1>2, InductionTo
<1>4. n \in T
  BY <1>3
<1> QED
  BY <1>4 DEF T

==============================================================================
