-------------------------------- MODULE Paths --------------------------------
(***************************************************************************)
(* Path spellings and the keys overlay.rs files them under.                *)
(*                                                                         *)
(* A spelling is a callback's path after `\` has become `/` and the string *)
(* has been split at `/`: a sequence of segments.  Blank is the empty      *)
(* segment a leading, doubled or trailing separator leaves.  A key is the  *)
(* sequence of names left once Blank, "." and ".." are resolved; the root  *)
(* is the empty sequence.                                                  *)
(***************************************************************************)
EXTENDS Naturals, SequencesExt

CONSTANTS Names,    \* ordinary path segments
          Blank,    \* ""
          Dot,      \* "."
          DotDot    \* ".."

ASSUME SegmentAssumption ==
  /\ Names \cap {Blank, Dot, DotDot} = {}
  /\ Blank # Dot /\ Dot # DotDot /\ Blank # DotDot

Segment == Names \cup {Blank, Dot, DotDot}

(* The body of the loop in normalize_path: what one segment does to the    *)
(* stack of names resolved so far.  Popping an empty stack is a no-op, so  *)
(* a ".." above the root is dropped.                                       *)
Visit(stack, segment) ==
  CASE segment \in {Blank, Dot}            -> stack
    [] segment = DotDot /\ stack = << >>  -> << >>
    [] segment = DotDot /\ stack # << >>  -> Front(stack)
    [] OTHER                              -> Append(stack, segment)

NormalizePath(spelling) == FoldLeft(Visit, << >>, spelling)

==============================================================================
