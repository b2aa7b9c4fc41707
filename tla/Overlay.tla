------------------------------- MODULE Overlay -------------------------------
(***************************************************************************)
(* overlay.rs: the in-memory overlay, one action per public method that    *)
(* takes the write lock.  Each method holds the lock from its lookup to    *)
(* its last insertion, so each is one step; methods that return early      *)
(* leave the map as it is.  Callers name a path by any of its Spellings.   *)
(***************************************************************************)
EXTENDS OverlayMap, Paths

CONSTANT Spellings

ASSUME SpellingsAssumption ==
  \A s \in Spellings : s \in Seq(Segment) /\ NormalizePath(s) \in Keys

VARIABLES entries,  \* the map
          did       \* history: the method that has just changed it, in Volume's terms

vars == <<entries, did>>

TypeOK ==
  /\ entries \in Map
  /\ did.op \in {"nothing", "put", "mkdir", "remove", "move", "discard"}

Init ==
  /\ entries = EmptyMap
  /\ did = [op |-> "nothing"]

(* Mutant: the entry is filed under the caller's spelling.                 *)
WriteFileUnderItsSpelling(path, c) ==
  /\ entries' = (path :> Modified(c)) @@ entries
  /\ did' = [op |-> "put", at |-> NormalizePath(path), content |-> c]

WriteFile(path, c) ==
  /\ entries' = WithWrittenFile(entries, NormalizePath(path), c)
  /\ did' = [op |-> "put", at |-> NormalizePath(path), content |-> c]

CreateFile(path, c) ==
  /\ entries' = WithCreatedFile(entries, NormalizePath(path), c)
  /\ did' = [op |-> "put", at |-> NormalizePath(path), content |-> c]

CreateDir(path) ==
  /\ entries' = WithCreatedDir(entries, NormalizePath(path))
  /\ did' = [op |-> "mkdir", at |-> NormalizePath(path)]

(* Mutant: deleting an overlay-only file drops its entry.                  *)
DeleteForgetsACreation(path) ==
  /\ entries' = IF entries[NormalizePath(path)].kind = "Created"
                THEN [entries EXCEPT ![NormalizePath(path)] = Uncovered]
                ELSE WithDeleted(entries, NormalizePath(path))
  /\ did' = [op |-> "remove", at |-> NormalizePath(path)]

Delete(path) ==
  /\ entries' = WithDeleted(entries, NormalizePath(path))
  /\ did' = [op |-> "remove", at |-> NormalizePath(path)]

(* Mutant: the source's entry is taken out of the map, no tombstone left.  *)
RenameTakesTheEntryAway(from, to) ==
  /\ NormalizePath(from) # NormalizePath(to)
  /\ Lookup(entries, NormalizePath(from)) = "Hit"
  /\ entries' = [entries EXCEPT ![NormalizePath(to)] = entries[NormalizePath(from)],
                                ![NormalizePath(from)] = Uncovered]
  /\ did' = [op |-> "move", from |-> NormalizePath(from), to |-> NormalizePath(to)]

Rename(from, to) ==
  /\ NormalizePath(from) # NormalizePath(to)
  /\ Lookup(entries, NormalizePath(from)) = "Hit"
  /\ entries' = WithRenamed(entries, NormalizePath(from), NormalizePath(to))
  /\ did' = [op |-> "move", from |-> NormalizePath(from), to |-> NormalizePath(to)]

Clear ==
  /\ entries' = EmptyMap
  /\ did' = [op |-> "discard"]

Next ==
  \/ \E path \in Spellings, c \in Contents : WriteFile(path, c) \/ CreateFile(path, c)
  \/ \E path \in Spellings : CreateDir(path) \/ Delete(path)
  \/ \E from, to \in Spellings : Rename(from, to)
  \/ Clear

Spec == Init /\ [][Next]_vars

------------------------------------------------------------------------------

Promise == INSTANCE Volume WITH Image <- Underlay, tree <- View(entries), did <- did

(* The overlay over the underlay is a plain volume: each method does what  *)
(* the volume's operation of its purpose does to the path it names, by any *)
(* spelling, and nothing anywhere else.  In particular a deleted path      *)
(* stays gone through creations and renames around it.                     *)
ImplementsVolume == Promise!Spec

(* A path the overlay has an answer for is never answered from the image   *)
(* again, except when the whole overlay is dropped: not even deleting a    *)
(* file the overlay itself created gives the image's file back.            *)
CoverageOnlyGrows ==
  [][entries' # EmptyMap => Covered(entries) \subseteq Covered(entries')]_vars

==============================================================================
