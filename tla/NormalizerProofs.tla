--------------------------- MODULE NormalizerProofs ---------------------------
(***************************************************************************)
(* Theorems about Normalizer, for every alphabet of names and inputs of    *)
(* any length.                                                             *)
(***************************************************************************)
EXTENDS Normalizer, SequenceTheorems, InductionProofs

(* Inputs are sequences of segments.                                       *)
LEMMA SpellingsAreSequences == Spelling \subseteq Seq(Segment)
<1>1. ASSUME NEW n \in Nat, NEW s \in [1..n -> Segment]
      PROVE  s \in Seq(Segment)
  OBVIOUS
<1> QED
  BY <1>1, MaxSegmentsAssumption DEF Spelling

(* No blank segment, "." or ".." is pushed, and there are never more names *)
(* on the stack than segments behind the loop.                             *)
CleanStack ==
  /\ stack \in Seq(Names)
  /\ Len(stack) < next

(* The inductive invariant: where the loop stands, and what it has pushed. *)
IInv ==
  /\ spelling \in Spelling
  /\ next \in 1..(Len(spelling) + 1)
  /\ CleanStack

(* Whatever the input, the stack holds names only and never more of them   *)
(* than segments visited, and the loop never runs past the input's end.    *)
LEMMA Inductive == Spec => []IInv
<1>1. Init => IInv
  <2> SUFFICES ASSUME Init
               PROVE  IInv
    OBVIOUS
  <2>1. spelling \in Seq(Segment)
    BY SpellingsAreSequences DEF Init
  <2> QED
    BY <2>1 DEF Init, IInv, CleanStack
<1>2. IInv /\ [Next]_vars => IInv'
  <2> SUFFICES ASSUME IInv, [Next]_vars
               PROVE  IInv'
    OBVIOUS
  <2>1. spelling \in Seq(Segment) /\ stack \in Seq(Names) /\ Len(stack) < next /\ next \in Nat
    BY SpellingsAreSequences DEF IInv, CleanStack
  <2>2. CASE Skip
    BY <2>1, <2>2 DEF Skip, IInv, CleanStack
  <2>3. CASE Pop
    <3>1. CASE stack = << >>
      BY <2>1, <2>3, <3>1 DEF Pop, IInv, CleanStack
    <3>2. CASE stack # << >>
      <4>1. /\ SubSeq(stack, 1, Len(stack) - 1) \in Seq(Names)
            /\ Len(SubSeq(stack, 1, Len(stack) - 1)) = Len(stack) - 1
        <5> DEFINE n == Len(stack) - 1
        <5>1. n \in Nat /\ 1 \in Int /\ n \in Int /\ \A i \in 1..n : stack[i] \in Names
          BY <2>1, <3>2, EmptySeq
        <5> HIDE DEF n
        <5>2. SubSeq(stack, 1, n) \in Seq(Names)
          BY <5>1, SubSeqProperties
        <5>3. Len(SubSeq(stack, 1, n)) = n
          BY <5>1, SubSeqProperties
        <5> QED
          BY <5>2, <5>3 DEF n
      <4> QED
        BY <2>1, <2>3, <3>2, <4>1 DEF Pop, IInv, CleanStack
    <3> QED
      BY <3>1, <3>2
  <2>4. CASE Push
    <3>1. /\ Append(stack, spelling[next]) \in Seq(Names)
          /\ Len(Append(stack, spelling[next])) = Len(stack) + 1
      BY <2>1, <2>4 DEF Push
    <3> QED
      BY <2>1, <2>4, <3>1 DEF Push, IInv, CleanStack
  <2>5. CASE UNCHANGED vars
    BY <2>5 DEF vars, IInv, CleanStack
  <2> QED
    BY <2>2, <2>3, <2>4, <2>5 DEF Next
<1> QED
  BY <1>1, <1>2, PTL DEF Spec

(* The state stays well formed.                                            *)
THEOREM NormalizerTyping == Spec => []TypeOK
<1>1. IInv => TypeOK
  <2>1. Seq(Names) \subseteq Seq(Segment)
    BY DEF Segment
  <2> QED
    BY <2>1 DEF IInv, TypeOK, CleanStack
<1> QED
  BY <1>1, Inductive, PTL

------------------------------------------------------------------------------
(* What is left standing.                                                  *)

(* One more segment changes the balance by at most one.                    *)
LEMMA BalanceOfOneMore ==
  ASSUME NEW path \in Seq(Segment), NEW n \in Nat, n + 1 \in 1..Len(path), NEW from \in 1..(n + 1)
  PROVE  /\ Balance(path, from, n) \in Int
         /\ path[n + 1] \in Names => Balance(path, from, n + 1) = Balance(path, from, n) + 1
         /\ path[n + 1] = DotDot => Balance(path, from, n + 1) = Balance(path, from, n) - 1
         /\ path[n + 1] \in {Blank, Dot} => Balance(path, from, n + 1) = Balance(path, from, n)
<1> DEFINE A == Ascents(path, from, n)
           D == Descents(path, from, n)
<1>1. from..(n + 1) = (from..n) \cup {n + 1} /\ n + 1 \notin from..n
  OBVIOUS
<1>2. IsFiniteSet(A) /\ IsFiniteSet(D) /\ n + 1 \notin A /\ n + 1 \notin D
  <2>1. IsFiniteSet(from..n)
    BY FS_Interval
  <2>2. A \in SUBSET (from..n) /\ D \in SUBSET (from..n)
    BY DEF Ascents, Descents
  <2> QED
    BY <1>1, <2>1, <2>2, FS_Subset
<1>3. Cardinality(A) \in Nat /\ Cardinality(D) \in Nat
  BY <1>2, FS_CardinalityType
<1>4. /\ Cardinality(A \cup {n + 1}) = Cardinality(A) + 1
      /\ Cardinality(D \cup {n + 1}) = Cardinality(D) + 1
  BY <1>2, FS_AddElement
<1>5. /\ Ascents(path, from, n + 1) = IF path[n + 1] = DotDot THEN A \cup {n + 1} ELSE A
      /\ Descents(path, from, n + 1) = IF path[n + 1] \in Names THEN D \cup {n + 1} ELSE D
  BY <1>1 DEF Ascents, Descents
<1> HIDE DEF A, D
<1>6. Balance(path, from, n) = Cardinality(D) - Cardinality(A)
  BY DEF Balance, A, D
<1>7. Balance(path, from, n + 1) =
        (IF path[n + 1] \in Names THEN Cardinality(D) + 1 ELSE Cardinality(D)) -
        (IF path[n + 1] = DotDot THEN Cardinality(A) + 1 ELSE Cardinality(A))
  BY <1>4, <1>5 DEF Balance
<1> QED
  BY <1>3, <1>6, <1>7, SegmentAssumption

(* Nothing stands between a position and itself.                           *)
LEMMA BalanceOfNone ==
  ASSUME NEW path, NEW n \in Nat, NEW from, from = n + 1
  PROVE  Balance(path, from, n) = 0
<1>1. Ascents(path, from, n) = {} /\ Descents(path, from, n) = {}
  BY DEF Ascents, Descents
<1>2. Cardinality({}) = 0
  BY FS_EmptySet
<1> QED
  BY <1>1, <1>2 DEF Balance

(* What one more segment makes of the names that stand: a name stands, a   *)
(* ".." takes those that were only just balanced.                          *)
LEMMA StandingOfOneMore ==
  ASSUME NEW path \in Seq(Segment), NEW n \in Nat, n + 1 \in 1..Len(path)
  PROVE  /\ path[n + 1] \in Names =>
              Standing(path, n + 1) = Standing(path, n) \cup {n + 1}
         /\ path[n + 1] = DotDot =>
              Standing(path, n + 1) = {j \in Standing(path, n) : Balance(path, j + 1, n) >= 1}
         /\ path[n + 1] \in {Blank, Dot} => Standing(path, n + 1) = Standing(path, n)
<1>1. \A j \in 1..n : /\ Balance(path, j + 1, n) \in Int
                      /\ path[n + 1] \in Names =>
                           Balance(path, j + 1, n + 1) = Balance(path, j + 1, n) + 1
                      /\ path[n + 1] = DotDot =>
                           Balance(path, j + 1, n + 1) = Balance(path, j + 1, n) - 1
                      /\ path[n + 1] \in {Blank, Dot} =>
                           Balance(path, j + 1, n + 1) = Balance(path, j + 1, n)
  BY BalanceOfOneMore
<1>2. \A j \in 1..n : j \in Standing(path, n + 1) <=>
                        j \in Standing(path, n) /\ Balance(path, j + 1, n + 1) >= 0
  <2>1. \A j \in 1..n : j..(n + 1) = (j..n) \cup {n + 1}
    OBVIOUS
  <2> QED
    BY <2>1 DEF Standing
<1>3. n + 1 \in Standing(path, n + 1) <=> path[n + 1] \in Names
  <2>1. Balance(path, (n + 1) + 1, n + 1) = 0
    <3>1. n + 1 \in Nat
      OBVIOUS
    <3> QED
      BY <3>1, BalanceOfNone
  <2>2. (n + 1)..(n + 1) = {n + 1}
    OBVIOUS
  <2> QED
    BY <2>1, <2>2 DEF Standing
<1>4. Standing(path, n) \subseteq 1..n /\ Standing(path, n + 1) \subseteq 1..(n + 1)
  BY DEF Standing
<1>5. \A j \in Standing(path, n) : j \in 1..n /\ Balance(path, j + 1, n) >= 0
  BY DEF Standing
<1>6. 1..(n + 1) = (1..n) \cup {n + 1}
  OBVIOUS
<1>7. CASE path[n + 1] \in Names
  <2>1. \A j \in 1..n : j \in Standing(path, n + 1) <=> j \in Standing(path, n)
    BY <1>1, <1>2, <1>5, <1>7
  <2>2. n + 1 \in Standing(path, n + 1)
    BY <1>3, <1>7
  <2>3. Standing(path, n + 1) = Standing(path, n) \cup {n + 1}
    BY <1>4, <1>6, <2>1, <2>2
  <2> QED
    BY <1>7, <2>3, SegmentAssumption
<1>8. CASE path[n + 1] = DotDot
  <2>1. \A j \in 1..n : j \in Standing(path, n + 1) <=>
                          j \in Standing(path, n) /\ Balance(path, j + 1, n) >= 1
    BY <1>1, <1>2, <1>8
  <2>2. n + 1 \notin Standing(path, n + 1)
    BY <1>3, <1>8, SegmentAssumption
  <2>3. Standing(path, n + 1) = {j \in Standing(path, n) : Balance(path, j + 1, n) >= 1}
    BY <1>4, <1>6, <2>1, <2>2
  <2> QED
    BY <1>8, <2>3, SegmentAssumption
<1>9. CASE path[n + 1] \in {Blank, Dot}
  <2>1. \A j \in 1..n : j \in Standing(path, n + 1) <=> j \in Standing(path, n)
    BY <1>1, <1>2, <1>5, <1>9
  <2>2. n + 1 \notin Standing(path, n + 1)
    BY <1>3, <1>9, SegmentAssumption
  <2>3. Standing(path, n + 1) = Standing(path, n)
    BY <1>4, <1>6, <2>1, <2>2
  <2> QED
    BY <1>9, <2>3, SegmentAssumption
<1>10. path[n + 1] \in Segment
  BY ElementOfSeq
<1> QED
  BY <1>7, <1>8, <1>9, <1>10 DEF Segment

(* The stack is the resolved form, and after the i-th name of a stack      *)
(* there have been as many more names than ".." as there are names above   *)
(* it.  That is what makes a ".." take the top of the stack and no other.  *)
Stacked(at, names, path, n) ==
  /\ at \in [1..Len(names) -> Standing(path, n)]
  /\ \A j \in Standing(path, n) : \E i \in 1..Len(names) : at[i] = j
  /\ \A i, j \in 1..Len(names) : i < j => at[i] < at[j]
  /\ \A i \in 1..Len(names) : names[i] = path[at[i]]
  /\ \A i \in 1..Len(names) : Balance(path, at[i] + 1, n) = Len(names) - i

LEMMA PushStacks ==
  ASSUME NEW path \in Seq(Segment), NEW n \in Nat, n + 1 \in 1..Len(path), NEW names \in Seq(Names),
         NEW at, Stacked(at, names, path, n), path[n + 1] \in Names
  PROVE  \E new : Stacked(new, Append(names, path[n + 1]), path, n + 1)
<1> DEFINE m   == Len(names)
           new == [i \in 1..(m + 1) |-> IF i = m + 1 THEN n + 1 ELSE at[i]]
<1>1. Standing(path, n + 1) = Standing(path, n) \cup {n + 1} /\ Standing(path, n) \subseteq 1..n
  BY StandingOfOneMore DEF Standing
<1>2. /\ m \in Nat /\ Len(Append(names, path[n + 1])) = m + 1
      /\ \A i \in 1..m : Append(names, path[n + 1])[i] = names[i]
      /\ Append(names, path[n + 1])[m + 1] = path[n + 1]
  OBVIOUS
<1>3. /\ at \in [1..m -> Standing(path, n)]
      /\ \A j \in Standing(path, n) : \E i \in 1..m : at[i] = j
      /\ \A i, j \in 1..m : i < j => at[i] < at[j]
      /\ \A i \in 1..m : names[i] = path[at[i]]
      /\ \A i \in 1..m : Balance(path, at[i] + 1, n) = m - i
  BY DEF Stacked
<1> HIDE DEF m
<1>4. \A i \in 1..m : i # m + 1 /\ i \in 1..(m + 1) /\ at[i] \in 1..n
  BY <1>1, <1>2, <1>3
<1>5. /\ new = [i \in 1..(m + 1) |-> new[i]]
      /\ new[m + 1] = n + 1 /\ m + 1 \in 1..(m + 1)
      /\ \A i \in 1..m : new[i] = at[i]
      /\ \A i \in 1..(m + 1) : i = m + 1 \/ i \in 1..m
  BY <1>2, <1>4
<1> HIDE DEF new
<1>6. \A i \in 1..(m + 1) : new[i] \in Standing(path, n + 1)
  BY <1>1, <1>3, <1>5
<1>7. \A j \in Standing(path, n + 1) : \E i \in 1..(m + 1) : new[i] = j
  BY <1>1, <1>3, <1>4, <1>5
<1>8. ASSUME NEW i \in 1..(m + 1), NEW j \in 1..(m + 1), i < j
      PROVE  new[i] < new[j]
  <2>0. i # m + 1
    BY <1>2, <1>8
  <2>1. i \in 1..m /\ new[i] = at[i] /\ at[i] \in 1..n
    BY <1>4, <1>5, <2>0
  <2>2. CASE j = m + 1
    BY <1>5, <2>1, <2>2
  <2>3. CASE j \in 1..m
    BY <1>3, <1>5, <1>8, <2>1, <2>3
  <2> QED
    BY <1>5, <2>2, <2>3
<1>9. \A i \in 1..(m + 1) : Append(names, path[n + 1])[i] = path[new[i]]
  BY <1>2, <1>3, <1>5
<1>10. ASSUME NEW i \in 1..m
       PROVE  Balance(path, new[i] + 1, n + 1) = m + 1 - i
  <2>1. new[i] = at[i] /\ at[i] \in 1..n
    BY <1>4, <1>5
  <2>0. at[i] + 1 \in 1..(n + 1)
    BY <2>1
  <2>2. Balance(path, at[i] + 1, n + 1) = Balance(path, at[i] + 1, n) + 1
    BY <2>0, BalanceOfOneMore
  <2> QED
    BY <1>2, <1>3, <2>1, <2>2
<1>11. Balance(path, new[m + 1] + 1, n + 1) = m + 1 - (m + 1)
  <2>1. n + 1 \in Nat /\ new[m + 1] + 1 = (n + 1) + 1
    BY <1>5
  <2>2. Balance(path, new[m + 1] + 1, n + 1) = 0
    BY <2>1, BalanceOfNone
  <2> QED
    BY <1>2, <2>2
<1>12. \A i \in 1..(m + 1) : Balance(path, new[i] + 1, n + 1) = m + 1 - i
  BY <1>5, <1>10, <1>11
<1>13. new \in [1..(m + 1) -> Standing(path, n + 1)]
  BY <1>5, <1>6
<1>14. Stacked(new, Append(names, path[n + 1]), path, n + 1)
  BY <1>2, <1>7, <1>8, <1>9, <1>12, <1>13 DEF Stacked
<1> QED
  BY <1>14

LEMMA PopStacks ==
  ASSUME NEW path \in Seq(Segment), NEW n \in Nat, n + 1 \in 1..Len(path), NEW names \in Seq(Names),
         NEW at, Stacked(at, names, path, n), path[n + 1] = DotDot,
         NEW popped, popped = IF names = << >> THEN << >> ELSE SubSeq(names, 1, Len(names) - 1)
  PROVE  \E new : Stacked(new, popped, path, n + 1)
<1> DEFINE m   == Len(names)
           new == [i \in 1..Len(popped) |-> at[i]]
<1>1. /\ Standing(path, n + 1) = {j \in Standing(path, n) : Balance(path, j + 1, n) >= 1}
      /\ Standing(path, n) \subseteq 1..n
  BY StandingOfOneMore DEF Standing
<1>2. /\ m \in Nat
      /\ Len(popped) = IF m = 0 THEN 0 ELSE m - 1
      /\ \A i \in 1..Len(popped) : popped[i] = names[i]
  <2>1. CASE names = << >>
    BY <2>1
  <2>2. CASE names # << >>
    <3>1. m \in Nat /\ m # 0 /\ m - 1 \in Nat
      BY <2>2, EmptySeq
    <3>2. popped = SubSeq(names, 1, m - 1)
      BY <2>2
    <3> HIDE DEF m
    <3>3. \A i \in 1..(m - 1) : names[i] \in Names
      BY <3>1, ElementOfSeq DEF m
    <3>4. Len(popped) = m - 1 /\ \A i \in 1..(m - 1) : popped[i] = names[i]
      BY <3>1, <3>2, <3>3, SubSeqProperties
    <3> QED
      BY <3>1, <3>4
  <2> QED
    BY <2>1, <2>2
<1>3. /\ at \in [1..m -> Standing(path, n)]
      /\ \A j \in Standing(path, n) : \E i \in 1..m : at[i] = j
      /\ \A i, j \in 1..m : i < j => at[i] < at[j]
      /\ \A i \in 1..m : names[i] = path[at[i]]
      /\ \A i \in 1..m : Balance(path, at[i] + 1, n) = m - i
  BY DEF Stacked
<1> HIDE DEF m
<1>4. ASSUME NEW i \in 1..m
      PROVE  at[i] \in Standing(path, n + 1) <=> i \in 1..Len(popped)
  <2>1. at[i] \in Standing(path, n) /\ Balance(path, at[i] + 1, n) = m - i
    BY <1>3
  <2>2. at[i] \in Standing(path, n + 1) <=> m - i >= 1
    BY <1>1, <2>1
  <2> QED
    BY <1>2, <2>2
<1>5. 1..Len(popped) \subseteq 1..m
  BY <1>2
<1>6. new \in [1..Len(popped) -> Standing(path, n + 1)]
  BY <1>4, <1>5
<1>7. \A j \in Standing(path, n + 1) : \E i \in 1..Len(popped) : new[i] = j
  BY <1>1, <1>3, <1>4
<1>8. \A i, j \in 1..Len(popped) : i < j => new[i] < new[j]
  BY <1>3, <1>5
<1>9. \A i \in 1..Len(popped) : popped[i] = path[new[i]]
  BY <1>2, <1>3, <1>5
<1>10. ASSUME NEW i \in 1..Len(popped)
       PROVE  Balance(path, new[i] + 1, n + 1) = Len(popped) - i
  <2>1. new[i] = at[i] /\ i \in 1..m
    BY <1>5
  <2>0. at[i] \in 1..n
    BY <1>1, <1>3, <2>1
  <2>2. Balance(path, at[i] + 1, n + 1) = Balance(path, at[i] + 1, n) - 1
    <3>1. at[i] + 1 \in 1..(n + 1)
      BY <2>0
    <3> QED
      BY <3>1, BalanceOfOneMore
  <2>3. Balance(path, at[i] + 1, n) = m - i
    BY <1>3, <2>1
  <2> QED
    BY <1>2, <2>1, <2>2, <2>3
<1> HIDE DEF new
<1>11. Stacked(new, popped, path, n + 1)
  BY <1>6, <1>7, <1>8, <1>9, <1>10 DEF Stacked
<1> QED
  BY <1>11

LEMMA SkipStacks ==
  ASSUME NEW path \in Seq(Segment), NEW n \in Nat, n + 1 \in 1..Len(path), NEW names \in Seq(Names),
         NEW at, Stacked(at, names, path, n), path[n + 1] \in {Blank, Dot}
  PROVE  Stacked(at, names, path, n + 1)
<1>1. Standing(path, n + 1) = Standing(path, n) /\ Standing(path, n) \subseteq 1..n
  BY StandingOfOneMore DEF Standing
<1>2. ASSUME NEW i \in 1..Len(names)
      PROVE  Balance(path, at[i] + 1, n + 1) = Balance(path, at[i] + 1, n)
  <2>1. at[i] + 1 \in 1..(n + 1)
    BY <1>1 DEF Stacked
  <2> QED
    BY <2>1, BalanceOfOneMore
<1> QED
  BY <1>1, <1>2 DEF Stacked

(* The stack is, at every turn of the loop, the resolved form of what has  *)
(* been read: whatever the input and however long, a ".." cancels the      *)
(* nearest name still standing, and nothing at the root.                   *)
THEOREM StackIsResolved == Spec => []StackIsResolvedPrefix
<1> DEFINE SInv == \E at : Stacked(at, stack, spelling, next - 1)
<1>1. Init => SInv
  <2> SUFFICES ASSUME Init
               PROVE  SInv
    OBVIOUS
  <2>1. Standing(spelling, 0) = {}
    BY DEF Standing
  <2>2. Stacked(<< >>, << >>, spelling, 0)
    BY <2>1 DEF Stacked
  <2> QED
    BY <2>2 DEF Init
<1>2. IInv /\ SInv /\ [Next]_vars => SInv'
  <2> SUFFICES ASSUME IInv, SInv, [Next]_vars
               PROVE  SInv'
    OBVIOUS
  <2>1. /\ spelling \in Seq(Segment) /\ stack \in Seq(Names) /\ next \in Nat
        /\ next - 1 \in Nat /\ (next - 1) + 1 = next
    BY SpellingsAreSequences DEF IInv, CleanStack
  <2>2. PICK at : Stacked(at, stack, spelling, next - 1)
    OBVIOUS
  <2>3. ASSUME Next
        PROVE  /\ (next - 1) + 1 \in 1..Len(spelling)
               /\ spelling' = spelling /\ next' - 1 = (next - 1) + 1
    BY <2>1, <2>3 DEF Next, Skip, Pop, Push
  <2>4. CASE Skip
    <3>1. Stacked(at, stack, spelling, (next - 1) + 1)
      BY <2>1, <2>2, <2>3, <2>4, SkipStacks DEF Next, Skip
    <3> QED
      BY <2>3, <2>4, <3>1 DEF Next, Skip
  <2>5. CASE Pop
    <3>1. \E new : Stacked(new, stack', spelling, (next - 1) + 1)
      BY <2>1, <2>2, <2>3, <2>5, PopStacks DEF Next, Pop
    <3> QED
      BY <2>3, <2>5, <3>1 DEF Next
  <2>6. CASE Push
    <3>1. \E new : Stacked(new, stack', spelling, (next - 1) + 1)
      BY <2>1, <2>2, <2>3, <2>6, PushStacks DEF Next, Push
    <3> QED
      BY <2>3, <2>6, <3>1 DEF Next
  <2>7. CASE UNCHANGED vars
    BY <2>2, <2>7 DEF vars
  <2> QED
    BY <2>4, <2>5, <2>6, <2>7 DEF Next
<1>3. SInv => StackIsResolvedPrefix
  BY DEF Stacked, StackIsResolvedPrefix, IsResolved
<1> QED
  BY <1>1, <1>2, <1>3, Inductive, PTL DEF Spec

------------------------------------------------------------------------------
(* What normalize_path returns.                                            *)

(* One turn of the loop leaves only names on the stack.                    *)
LEMMA VisitTyped ==
  ASSUME NEW names \in Seq(Names), NEW segment \in Segment
  PROVE  Visit(names, segment) \in Seq(Names)
<1>1. CASE segment = DotDot /\ names # << >>
  <2> DEFINE m == Len(names) - 1
  <2>1. m \in Nat /\ 1 \in Int /\ m \in Int /\ \A i \in 1..m : names[i] \in Names
    BY <1>1, EmptySeq
  <2> HIDE DEF m
  <2>2. SubSeq(names, 1, m) \in Seq(Names)
    BY <2>1, SubSeqProperties
  <2> QED
    BY <1>1, <2>2, SegmentAssumption DEF Visit, Front, m
<1>2. CASE ~ (segment = DotDot /\ names # << >>)
  BY <1>2, SegmentAssumption DEF Visit, Segment
<1> QED
  BY <1>1, <1>2

(* The stacks of the loop over s, from the empty one on.                   *)
Stacks(h, s) ==
  /\ h[0] = << >>
  /\ \A k \in 1..Len(s) : h[k] = Visit(h[k - 1], s[k])

(* The fold returns the last of these stacks.                              *)
LEMMA NormalizePathByStacks ==
  ASSUME NEW s \in Seq(Segment)
  PROVE  \E h \in [0..Len(s) -> Seq(Names)] : Stacks(h, s) /\ NormalizePath(s) = h[Len(s)]
<1> DEFINE n == Len(s)
           F == [p \in Seq(Names) \X (1..n) |-> Visit(p[1], s[p[2]])]
           Loop(g) == g = [t \in SUBSET (1..n) |->
                             IF t = {} THEN << >> ELSE Visit(g[t \ {Max(t)}], s[Max(t)])]
<1>1. n \in Nat /\ DOMAIN s = 1..n /\ \A k \in 1..n : s[k] \in Segment
  BY LenProperties, ElementOfSeq
<1>2. NormalizePath(s) = (CHOOSE g : Loop(g))[1..n]
  BY <1>1 DEF NormalizePath, FoldLeft, MapThenFoldSet
<1>3. F \in [Seq(Names) \X (1..n) -> Seq(Names)]
  BY <1>1, VisitTyped
<1> HIDE DEF n
<1>4. PICK f \in [SUBSET (1..n) -> Seq(Names)] : Folds(f, n, << >>, F)
  <2>1. << >> \in Seq(Names)
    OBVIOUS
  <2> HIDE DEF F
  <2> QED
    BY <1>1, <1>3, <2>1, FoldsExist
<1>5. Loop(f)
  <2>1. ASSUME NEW t \in SUBSET (1..n), t # {}
        PROVE  f[t] = Visit(f[t \ {Max(t)}], s[Max(t)])
    <3>1. Max(t) \in 1..n
      BY <1>1, <2>1, MaxIsAMember
    <3>2. f[t \ {Max(t)}] \in Seq(Names)
      BY <1>4
    <3>3. f[t] = F[<<f[t \ {Max(t)}], Max(t)>>]
      BY <1>4, <2>1 DEF Folds
    <3> QED
      BY <3>1, <3>2, <3>3
  <2>2. f[{}] = << >>
    BY <1>4 DEF Folds
  <2> QED
    BY <1>4, <2>1, <2>2
<1> DEFINE g == CHOOSE g : Loop(g)
<1>6. Loop(g)
  BY <1>5
<1> HIDE DEF g
<1> DEFINE h == [k \in 0..n |-> g[1..k]]
<1>7. g[{}] = << >>
  BY <1>6
<1>8. h[0] = << >>
  <2>1. 1..0 = {} /\ 0 \in 0..n
    BY <1>1
  <2> QED
    BY <1>7, <2>1
<1>9. ASSUME NEW k \in 1..n
      PROVE  h[k] = Visit(h[k - 1], s[k])
  <2> HIDE DEF F, h, Loop
  <2>1. k \in Nat /\ k \in 0..n /\ k - 1 \in 0..n
    BY <1>1
  <2>2. /\ (1..k) \in SUBSET (1..n) /\ (1..k) # {}
        /\ (1..k) \ {k} = 1..(k - 1) /\ Max(1..k) = k
    BY <1>1, IntervalsGrow
  <2>4. g[1..k] = Visit(g[1..(k - 1)], s[k])
    BY <1>6, <2>2 DEF Loop
  <2> QED
    BY <2>1, <2>4 DEF h
<1> HIDE DEF h, Loop, F
<1>10. Stacks(h, s)
  BY <1>8, <1>9 DEF Stacks, n
<1> DEFINE T == {k \in 0..n : h[k] \in Seq(Names)}
<1>11. 0..n \subseteq T
  <2>1. 0 \in T
    <3>1. 0 \in 0..n /\ << >> \in Seq(Names)
      BY <1>1
    <3> QED
      BY <1>8, <3>1
  <2>2. ASSUME NEW k \in 0..n, k < n, k \in T
        PROVE  k + 1 \in T
    <3>1. k + 1 \in 1..n /\ k + 1 \in 0..n /\ (k + 1) - 1 = k
      BY <1>1, <2>2
    <3>2. h[k + 1] = Visit(h[k], s[k + 1])
      BY <1>9, <3>1
    <3> QED
      BY <1>1, <2>2, <3>1, <3>2, VisitTyped
  <2> HIDE DEF T
  <2> QED
    BY <1>1, <2>1, <2>2, InductionTo
<1>12. h \in [0..n -> Seq(Names)]
  <2>1. h = [k \in 0..n |-> h[k]]
    BY DEF h
  <2> QED
    BY <1>11, <2>1
<1>13. NormalizePath(s) = h[n]
  <2>1. n \in 0..n
    BY <1>1
  <2> QED
    BY <1>2, <2>1 DEF h, g
<1> QED
  BY <1>10, <1>12, <1>13 DEF n

(* The key of a key is that key.                                           *)
LEMMA KeysAreTheirOwnKeys ==
  ASSUME NEW key \in Seq(Names)
  PROVE  NormalizePath(key) = key
<1>1. key \in Seq(Segment) /\ Len(key) \in Nat /\ \A k \in 1..Len(key) : key[k] \in Names
  BY DEF Segment
<1>2. PICK h \in [0..Len(key) -> Seq(Names)] : Stacks(h, key) /\ NormalizePath(key) = h[Len(key)]
  BY <1>1, NormalizePathByStacks
<1> DEFINE T == {k \in 0..Len(key) : h[k] = SubSeq(key, 1, k)}
<1>3. 0 \in T
  BY <1>1, <1>2 DEF Stacks
<1>4. ASSUME NEW k \in 0..Len(key), k < Len(key), k \in T
      PROVE  k + 1 \in T
  <2>1. k + 1 \in 1..Len(key) /\ k + 1 \in 0..Len(key) /\ (k + 1) - 1 = k
    BY <1>1, <1>4
  <2>2. h[k + 1] = Visit(h[k], key[k + 1]) /\ key[k + 1] \in Names
    BY <1>1, <1>2, <2>1 DEF Stacks
  <2>3. h[k + 1] = Append(SubSeq(key, 1, k), key[k + 1])
    BY <1>4, <2>2, SegmentAssumption DEF Visit
  <2>4. SubSeq(key, 1, k + 1) = Append(SubSeq(key, 1, k), key[k + 1])
    BY <1>1, <2>1, SubSeqRecursiveSecond
  <2> QED
    BY <2>1, <2>3, <2>4
<1> HIDE DEF T
<1>5. 0..Len(key) \subseteq T
  BY <1>1, <1>3, <1>4, InductionTo
<1>6. NormalizePath(key) = SubSeq(key, 1, Len(key))
  BY <1>1, <1>2, <1>5 DEF T
<1> QED
  BY <1>6, SubSeqFull

(* The loop ends with the key that the overlay files the path under, and   *)
(* a stored key is found again under itself.                               *)
THEOREM ResultIsTheKey == Spec => []ResultIsAFixedPoint
<1> DEFINE RInv == \A h : Stacks(h, spelling) => stack = h[next - 1]
<1>1. Init => RInv
  BY DEF Init, Stacks
<1>2. IInv /\ RInv /\ [Next]_vars => RInv'
  <2> SUFFICES ASSUME IInv, RInv, [Next]_vars, NEW h, Stacks(h, spelling')
               PROVE  stack' = h[next' - 1]
    OBVIOUS
  <2>1. /\ spelling \in Seq(Segment) /\ stack \in Seq(Names) /\ next \in Nat
        /\ next \in 1..(Len(spelling) + 1)
    BY SpellingsAreSequences DEF IInv, CleanStack
  <2>2. spelling' = spelling /\ stack = h[next - 1]
    BY DEF Next, Skip, Pop, Push, vars
  <2>3. ASSUME Next
        PROVE  stack' = h[next' - 1]
    <3>1. next \in 1..Len(spelling) /\ next' - 1 = next
      BY <2>1, <2>3 DEF Next, Skip, Pop, Push
    <3>2. h[next] = Visit(stack, spelling[next])
      BY <2>2, <3>1 DEF Stacks
    <3>3. stack' = Visit(stack, spelling[next])
      BY <2>1, <2>3, SegmentAssumption DEF Next, Skip, Pop, Push, Visit, Front
    <3> QED
      BY <3>1, <3>2, <3>3
  <2> QED
    BY <2>2, <2>3 DEF vars
<1>3. IInv /\ RInv => ResultIsAFixedPoint
  <2> SUFFICES ASSUME IInv, RInv, next > Len(spelling)
               PROVE  stack = NormalizePath(spelling) /\ NormalizePath(stack) = stack
    BY DEF ResultIsAFixedPoint
  <2>1. /\ spelling \in Seq(Segment) /\ stack \in Seq(Names)
        /\ next - 1 = Len(spelling)
    BY SpellingsAreSequences DEF IInv, CleanStack
  <2>2. stack = NormalizePath(spelling)
    BY <2>1, NormalizePathByStacks
  <2> QED
    BY <2>1, <2>2, KeysAreTheirOwnKeys
<1> QED
  BY <1>1, <1>2, <1>3, Inductive, PTL DEF Spec

(* normalize_path of any path is a sequence of names, and normalising that *)
(* changes nothing.  The overlay's keys are such sequences, so every       *)
(* spelling has a key and every key is filed under itself: what Overlay    *)
(* and MountPaths assume of their keys holds of all sequences of names.    *)
THEOREM EverySpellingHasAKey ==
  \A s \in Seq(Segment) :
     NormalizePath(s) \in Seq(Names) /\ NormalizePath(NormalizePath(s)) = NormalizePath(s)
<1> SUFFICES ASSUME NEW s \in Seq(Segment)
             PROVE  /\ NormalizePath(s) \in Seq(Names)
                    /\ NormalizePath(NormalizePath(s)) = NormalizePath(s)
  OBVIOUS
<1>1. Len(s) \in 0..Len(s)
  OBVIOUS
<1>2. NormalizePath(s) \in Seq(Names)
  BY <1>1, NormalizePathByStacks
<1> QED
  BY <1>2, KeysAreTheirOwnKeys

==============================================================================
