------------------------------ MODULE MCAdapter ------------------------------
(* Two handles, a file the image has and a name it does not have.          *)
EXTENDS Adapter, FiniteSets, TLC

CONSTANTS f, n

MCKeys == {f, n}
MCUnderlay == [k \in MCKeys |-> IF k = f THEN File({f}) ELSE Absent]
MCContents == SUBSET Token
MCEmpty == {}

(* Nothing has been opened, created, renamed or staged but f.              *)
OnlyFIsTouched ==
  /\ Lookup(entries, n) = "Miss"
  /\ \A h \in Handles :
       /\ file[h].status = "open" => file[h].path = f /\ file[h].name = f
       /\ call[h].step # "idle" => call[h].at = f /\ call[h].step \notin Renaming

(* A bound: a second write only in behaviours that have stayed at f, and   *)
(* one write where the other name is in play.                              *)
Writing == {h \in Handles : call[h].step = "write_insert"}
SecondWriteAtOneName == writes + Cardinality(Writing) > 1 => OnlyFIsTouched

HandleSymmetry == Permutations(Handles)

(* No guard reads the two sets of destroyed bytes and no property but the  *)
(* type invariant tells one from the other, so states that only differ in  *)
(* which of the two a byte is in count as one.                             *)
LossesAsOne == <<readOnly, entries, file, call, writes, forgone \cup swept, raced, excused, seen>>
==============================================================================
