---------------------------- MODULE MCDirListing ----------------------------
(* The directory 1, which the image has with a file and a directory in it; *)
(* a third name that only the overlay can have, and a path deeper down     *)
(* whose last name is not one of the directory's.                          *)
EXTENDS DirListing

CONSTANT nothing

MCDir == <<1>>
MCKeys == {<<1>>, <<1, 1>>, <<1, 2>>, <<1, 3>>, <<1, 2, 4>>}
MCTouched == {<<1, 1>>, <<1, 3>>, <<1, 2, 4>>}
MCUnderlay ==
  [k \in MCKeys |-> CASE k \in {<<1>>, <<1, 2>>} -> Directory
                      [] k = <<1, 1>> -> File(nothing)
                      [] OTHER -> Absent]
==============================================================================
