------------------------------ MODULE Normalizer ------------------------------
(***************************************************************************)
(* normalize_path of overlay.rs as the loop it is: one step per segment,   *)
(* pushing to or popping from the stack the key is then joined from.       *)
(* Bound: spellings have at most MaxSegments segments.                     *)
(***************************************************************************)
EXTENDS Paths, Integers

CONSTANT MaxSegments

ASSUME MaxSegmentsAssumption == MaxSegments \in Nat

VARIABLES spelling,  \* the segments of the input
          next,      \* index of the segment the loop visits next
          stack      \* names resolved so far

vars == <<spelling, next, stack>>

Spelling == UNION {[1..n -> Segment] : n \in 0..MaxSegments}

TypeOK ==
  /\ spelling \in Spelling
  /\ next \in 1..(Len(spelling) + 1)
  /\ stack \in Seq(Segment)

Init ==
  /\ spelling \in Spelling
  /\ next = 1
  /\ stack = << >>

Skip ==
  /\ next <= Len(spelling)
  /\ spelling[next] \in {Blank, Dot}
  /\ next' = next + 1
  /\ UNCHANGED <<spelling, stack>>

(* Mutant: a ".." clears the whole stack.                                  *)
PopClearsTheStack ==
  /\ next <= Len(spelling)
  /\ spelling[next] = DotDot
  /\ stack' = << >>
  /\ next' = next + 1
  /\ UNCHANGED spelling

Pop ==
  /\ next <= Len(spelling)
  /\ spelling[next] = DotDot
  /\ stack' = IF stack = << >> THEN << >> ELSE SubSeq(stack, 1, Len(stack) - 1)
  /\ next' = next + 1
  /\ UNCHANGED spelling

(* Mutant: the segment after a name is skipped.                            *)
PushSkipsASegment ==
  /\ next <= Len(spelling)
  /\ spelling[next] \in Names
  /\ stack' = Append(stack, spelling[next])
  /\ next' = next + 2
  /\ UNCHANGED spelling

Push ==
  /\ next <= Len(spelling)
  /\ spelling[next] \in Names
  /\ stack' = Append(stack, spelling[next])
  /\ next' = next + 1
  /\ UNCHANGED spelling

Next == Skip \/ Pop \/ Push

Spec == Init /\ [][Next]_vars

------------------------------------------------------------------------------
(* What the resolved path is, said without a stack: a name stays unless    *)
(* some stretch after it holds more ".." than names, in which case one of  *)
(* those ".." is the one that cancels it.                                  *)

Ascents(path, from, to)  == {k \in from..to : path[k] = DotDot}
Descents(path, from, to) == {k \in from..to : path[k] \in Names}

Balance(path, from, to) ==
  Cardinality(Descents(path, from, to)) - Cardinality(Ascents(path, from, to))

(* The positions of the names that stand after the first n segments.       *)
Standing(path, n) ==
  {j \in 1..n : path[j] \in Names /\ \A k \in j..n : Balance(path, j + 1, k) >= 0}

(* The names at those positions, in their order.                           *)
IsResolved(names, path, n) ==
  \E at \in [1..Len(names) -> Standing(path, n)] :
     /\ \A j \in Standing(path, n) : \E i \in 1..Len(names) : at[i] = j
     /\ \A i, j \in 1..Len(names) : i < j => at[i] < at[j]
     /\ \A i \in 1..Len(names) : names[i] = path[at[i]]

(* After every step of the loop the stack is the resolved form of the part *)
(* of the input already visited: a ".." cancels the nearest name that is   *)
(* still standing, and one with nothing to cancel is dropped rather than   *)
(* kept as a leading ".." of the key.                                      *)
StackIsResolvedPrefix == IsResolved(stack, spelling, next - 1)

(* When the loop ends the stack is the key the overlay uses, and           *)
(* normalising that key again leaves it alone: a stored key always finds   *)
(* its own entry.                                                          *)
ResultIsAFixedPoint ==
  next > Len(spelling) =>
     /\ stack = NormalizePath(spelling)
     /\ NormalizePath(stack) = stack

==============================================================================
