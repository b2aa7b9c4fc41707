------------------------------ MODULE OverlayMap ------------------------------
(***************************************************************************)
(* The map inside overlay.rs's Overlay and what each method, run under the *)
(* map's lock, makes of it.                                                *)
(*                                                                         *)
(* The BTreeMap is a total function on Keys; a key it does not hold is     *)
(* mapped to Uncovered.  Entry contents are abstract; mode bits and mtime  *)
(* are left out, since no method decides anything by them.  `at` is an     *)
(* already normalised path.                                                *)
(***************************************************************************)
EXTENDS Nodes

CONSTANT Underlay   \* the read-only image: Keys -> Node, never written

ASSUME UnderlayAssumption ==
  /\ Underlay \in [Keys -> Node]
  /\ \A k \in Keys : Underlay[k].kind # "file" => Underlay[k].content = Empty

EntryKinds == {"None", "Created", "Modified", "Deleted", "CreatedDir"}
Entry == [kind : EntryKinds, content : Contents]
Map == [Keys -> Entry]

Uncovered   == [kind |-> "None",       content |-> Empty]
Tombstone   == [kind |-> "Deleted",    content |-> Empty]
CreatedDir  == [kind |-> "CreatedDir", content |-> Empty]
Created(c)  == [kind |-> "Created",    content |-> c]
Modified(c) == [kind |-> "Modified",   content |-> c]

EmptyMap == [k \in Keys |-> Uncovered]

(* Overlay::lookup: Hit, Deleted or Miss.                                  *)
Lookup(map, at) ==
  CASE map[at].kind = "None"    -> "Miss"
    [] map[at].kind = "Deleted" -> "Deleted"
    [] OTHER                    -> "Hit"

HoldsFile(entry) == entry.kind \in {"Created", "Modified"}

(* write_file: an overlay-only file stays Created, anything else becomes   *)
(* Modified.                                                               *)
WithWrittenFile(map, at, c) ==
  [map EXCEPT ![at] = IF map[at].kind = "Created" THEN Created(c) ELSE Modified(c)]

WithCreatedFile(map, at, c) == [map EXCEPT ![at] = Created(c)]

WithCreatedDir(map, at) == [map EXCEPT ![at] = CreatedDir]

(* Mutant: deleting what the overlay created drops the entry.              *)
WithDeletedDroppingCreations(map, at) ==
  [map EXCEPT ![at] = IF map[at].kind = "Created" THEN Uncovered ELSE Tombstone]

WithDeleted(map, at) == [map EXCEPT ![at] = Tombstone]

(* Overlay::rename on two different keys, the source being a live entry.   *)
WithRenamed(map, from, to) == [map EXCEPT ![to] = map[from], ![from] = Tombstone]

------------------------------------------------------------------------------
(* What a reader who consults the overlay first is shown at a key.         *)

Shown(entry, node) ==
  CASE entry.kind = "None"       -> node
    [] entry.kind = "Deleted"    -> Absent
    [] entry.kind = "CreatedDir" -> Directory
    [] OTHER                     -> File(entry.content)

View(map) == [k \in Keys |-> Shown(map[k], Underlay[k])]

Covered(map) == {k \in Keys : map[k].kind # "None"}

==============================================================================
