------------------------------ MODULE MountPaths ------------------------------
(***************************************************************************)
(* The portable half of mount.rs: the path operations of Mount that the    *)
(* integration tests drive, on bytes, over the overlay and the image.      *)
(* They run one after another here; Adapter interleaves them.  A read of   *)
(* the image may fail at any time: `fault` says which path's, if any, the  *)
(* device refuses during a call.                                           *)
(*                                                                         *)
(* Contents are byte sequences.  Bounds: a file holds at most MaxLen bytes *)
(* (the host's memory), and MaxOffset stands for u64::MAX.                 *)
(***************************************************************************)
EXTENDS OverlayMap, Paths

CONSTANTS Spellings,   \* how callers write paths
          Bytes, Zero, \* byte values, and the one that fills gaps
          Buffers,     \* what callers write
          MaxLen, MaxOffset

ASSUME MountAssumption ==
  /\ \A s \in Spellings : s \in Seq(Segment) /\ NormalizePath(s) \in Keys
  /\ Zero \in Bytes
  /\ Buffers \subseteq Seq(Bytes)
  /\ MaxLen \in Nat /\ MaxOffset \in Nat /\ MaxLen <= MaxOffset
  /\ Contents = UNION {[1..n -> Bytes] : n \in 0..MaxLen}

VARIABLES entries,  \* the overlay's map
          call      \* history: the last call, its arguments, and whether it returned Ok

vars == <<entries, call>>

TypeOK ==
  /\ entries \in Map
  /\ call.op \in {"mount", "write", "set_size", "rename", "discard"}
  /\ call.ok \in BOOLEAN

Init ==
  /\ entries = EmptyMap
  /\ call = [op |-> "mount", ok |-> TRUE]

(* The device can only refuse a read that is made, and the image is only   *)
(* read for a path the overlay does not cover.                             *)
FaultsAt(k, which) == {"none"} \cup IF Lookup(entries, k) = "Miss" THEN {which} ELSE {}

------------------------------------------------------------------------------
(* The Vec<u8> operations the calls patch a file with.                     *)

(* Mutant: the new length is one too many.                                 *)
ResizeOneTooFar(c, size) == [i \in 1..(size + 1) |-> IF i <= Len(c) THEN c[i] ELSE Zero]

Resize(c, size) == [i \in 1..size |-> IF i <= Len(c) THEN c[i] ELSE Zero]

CopyInto(c, offset, buf) ==
  [i \in 1..Len(c) |-> IF i \in (offset + 1)..(offset + Len(buf)) THEN buf[i - offset] ELSE c[i]]

(* Mutant: the file always ends where the write ends.                      *)
PatchedAndCut(c, offset, buf) == CopyInto(Resize(c, offset + Len(buf)), offset, buf)

Patched(c, offset, buf) ==
  LET end == offset + Len(buf)
  IN  CopyInto(IF end > Len(c) THEN Resize(c, end) ELSE c, offset, buf)

(* The file lookup_path and read_whole find in the image: at most one.     *)
UnderlayFile(k, fault) ==
  IF Underlay[k].kind = "file" /\ fault # "source" THEN {Underlay[k].content} ELSE {}

(* Mutant: a tombstone falls through to the image.                         *)
FileAtThroughTombstones(k, fault) ==
  IF Lookup(entries, k) = "Hit"
  THEN IF HoldsFile(entries[k]) THEN {entries[k].content} ELSE {}
  ELSE UnderlayFile(k, fault)

(* The content read_path, write_path and set_size_path find at a key; none *)
(* when they return an error instead.                                      *)
FileAt(k, fault) ==
  CASE Lookup(entries, k) = "Hit"     -> IF HoldsFile(entries[k]) THEN {entries[k].content} ELSE {}
    [] Lookup(entries, k) = "Deleted" -> {}
    [] Lookup(entries, k) = "Miss"    -> UnderlayFile(k, fault)

WritePath(path, offset, buf, fault) ==
  LET k == NormalizePath(path)
      returns(ok) == call' = [op |-> "write", path |-> path, offset |-> offset, buf |-> buf, ok |-> ok]
  IN  \/ \E c \in FileAt(k, fault) :
           /\ offset + Len(buf) <= MaxOffset
           /\ offset + Len(buf) <= MaxLen
           /\ entries' = WithWrittenFile(entries, k, Patched(c, offset, buf))
           /\ returns(TRUE)
      \/ /\ FileAt(k, fault) = {} \/ offset + Len(buf) > MaxOffset
         /\ UNCHANGED entries
         /\ returns(FALSE)

SetSizePath(path, size, fault) ==
  LET k == NormalizePath(path)
      returns(ok) == call' = [op |-> "set_size", path |-> path, size |-> size, ok |-> ok]
  IN  \/ \E c \in FileAt(k, fault) :
           /\ entries' = WithWrittenFile(entries, k, Resize(c, size))
           /\ returns(TRUE)
      \/ /\ FileAt(k, fault) = {}
         /\ UNCHANGED entries
         /\ returns(FALSE)

------------------------------------------------------------------------------
(* rename_path.  A directory is moved as an empty CreatedDir.              *)

(* The node rename_path carries over; none when it finds no source.        *)
SourceAt(k, fault) ==
  LET isDir == \/ entries[k].kind = "CreatedDir"
               \/ Lookup(entries, k) = "Miss" /\ Underlay[k].kind = "dir" /\ fault # "source"
  IN  IF isDir THEN {Directory} ELSE {File(c) : c \in FileAt(k, fault)}

(* Mutant: the destination counts as free unless the overlay covers it.    *)
OccupiedInOverlay(k, fault) == Lookup(entries, k) = "Hit"

(* Mutant: a tombstoned destination still counts if the image has it.      *)
OccupiedInEither(k, fault) ==
  \/ Lookup(entries, k) = "Hit"
  \/ Underlay[k].kind # "absent" /\ fault # "destination"

(* dest_exists: any error of lookup_path counts as "not there".            *)
Occupied(k, fault) ==
  \/ Lookup(entries, k) = "Hit"
  \/ Lookup(entries, k) = "Miss" /\ Underlay[k].kind # "absent" /\ fault # "destination"

(* Mutant: the source keeps what it shows.                                 *)
WithCopied(map, node, from, to) ==
  IF node = Directory THEN WithCreatedDir(map, to) ELSE WithCreatedFile(map, to, node.content)

(* create_dir or create_file at the destination, delete at the source.     *)
WithMoved(map, node, from, to) ==
  WithDeleted(IF node = Directory
              THEN WithCreatedDir(map, to)
              ELSE WithCreatedFile(map, to, node.content), from)

RenamePath(from, to, replace, fault) ==
  LET source == NormalizePath(from)
      target == NormalizePath(to)
      returns(ok) == call' = [op |-> "rename", from |-> from, to |-> to, replace |-> replace,
                              fault |-> fault, ok |-> ok]
  IN  \/ /\ from = to
         /\ UNCHANGED entries
         /\ returns(TRUE)
      \/ \E node \in SourceAt(source, fault) :
           /\ from # to
           /\ Occupied(target, fault) => replace
           /\ entries' = WithMoved(entries, node, source, target)
           /\ returns(TRUE)
      \/ /\ from # to
         /\ SourceAt(source, fault) = {} \/ (Occupied(target, fault) /\ ~ replace)
         /\ UNCHANGED entries
         /\ returns(FALSE)

(* apply_dismount_policy under the default policy, Discard.                *)
DiscardOverlay ==
  /\ entries' = EmptyMap
  /\ call' = [op |-> "discard", ok |-> TRUE]

Next ==
  \/ \E path \in Spellings : \E fault \in FaultsAt(NormalizePath(path), "source") :
        \/ \E offset \in 0..MaxOffset, buf \in Buffers : WritePath(path, offset, buf, fault)
        \/ \E size \in 0..MaxLen : SetSizePath(path, size, fault)
  \/ \E from, to \in Spellings, replace \in BOOLEAN :
        \E fault \in FaultsAt(NormalizePath(from), "source")
                       \cup FaultsAt(NormalizePath(to), "destination") :
           RenamePath(from, to, replace, fault)
  \/ DiscardOverlay

Spec == Init /\ [][Next]_vars

------------------------------------------------------------------------------
(* Properties.  They speak of what is shown, not of entries.               *)

(* The volume's operation that the last call amounts to.  A rename between *)
(* two spellings of one path that is not refused amounts to a removal: it  *)
(* tombstones the key it has just inserted.                                *)
Did ==
  CASE ~ call.ok \/ call.op = "mount" -> [op |-> "nothing"]
    [] call.ok /\ call.op \in {"write", "set_size"} ->
         LET k == NormalizePath(call.path)
         IN  [op |-> "put", at |-> k, content |-> View(entries)[k].content]
    [] call.ok /\ call.op = "discard" -> [op |-> "discard"]
    [] call.ok /\ call.op = "rename" ->
         LET source == NormalizePath(call.from)
             target == NormalizePath(call.to)
         IN  IF call.from = call.to THEN [op |-> "nothing"]
             ELSE IF source = target THEN [op |-> "remove", at |-> source]
             ELSE [op |-> "move", from |-> source, to |-> target]

Promise == INSTANCE Volume WITH Image <- Underlay, tree <- View(entries), did <- Did

(* Every call is the volume's operation of its purpose, or changes nothing *)
(* if it fails: a write or a resize touches the named path only, a rename  *)
(* moves the node even when it has to be read out of the image first, and  *)
(* leaves nothing at either path when it is refused half way.              *)
ImplementsVolume == Promise!Spec

(* Only a path that shows a regular file can be written or resized; in     *)
(* particular a deleted file of the image is not written back to life.     *)
WritesNeverCreate ==
  [][call'.op \in {"write", "set_size"} =>
       \A k \in Keys : View(entries)[k].kind # "file" => View(entries')[k] = View(entries)[k]]_vars

(* A write puts its bytes at its offset, fills what lies between the old   *)
(* end and the offset with zeros, and changes no other byte and no length  *)
(* it does not reach past, wherever the file's content came from.          *)
WritesLandExactly ==
  [][call'.op = "write" /\ call'.ok =>
       LET k    == NormalizePath(call'.path)
           old  == View(entries)[k].content
           new  == View(entries')[k].content
           from == call'.offset
           end  == call'.offset + Len(call'.buf)
       IN  /\ Len(new) = IF end > Len(old) THEN end ELSE Len(old)
           /\ SubSeq(new, from + 1, end) = call'.buf
           /\ \A i \in 1..Len(new) :
                i <= from \/ i > end => new[i] = IF i <= Len(old) THEN old[i] ELSE Zero]_vars

(* A rename without replace_if_exists never costs a file, as long as the   *)
(* device answers when asked about the destination: everything stays where *)
(* it is shown, but for the node that is moved, which is shown at the      *)
(* destination.  So the tombstone of the old name, which comes last, never *)
(* falls on the new one, although rename_path compares spellings and the   *)
(* overlay's keys are normalised: another spelling of a path is refused,   *)
(* as its own destination.                                                 *)
RenameSparesTheDestination ==
  [][call'.op = "rename" /\ ~ call'.replace /\ call'.fault # "destination" =>
       \A k \in Keys : View(entries)[k] # Absent =>
          \/ View(entries')[k] = View(entries)[k]
          \/ /\ k = NormalizePath(call'.from)
             /\ View(entries')[NormalizePath(call'.to)] = View(entries)[k]]_vars

(* A name freed by a delete or a rename can be taken again without         *)
(* replace_if_exists, although the image still has something there.        *)
FreedNamesAreFree ==
  [][call'.op = "rename" =>
       \/ call'.ok
       \/ call'.fault = "source"
       \/ View(entries)[NormalizePath(call'.to)] # Absent
       \/ View(entries)[NormalizePath(call'.from)].kind \notin {"file", "dir"}]_vars

(* "A destination that already exists is refused unless the caller says to *)
(* replace it" (tests/overlay_integration.rs:161), whatever the device     *)
(* does.  Violated: dest_exists is `lookup_path(to).is_ok()`, so a read    *)
(* error makes an existing destination look free and the rename hides it.  *)
ExistingDestinationIsRefused ==
  [][call'.op = "rename" /\ ~ call'.replace =>
       \A k \in Keys \ {NormalizePath(call'.from)} :
          View(entries)[k] # Absent => View(entries')[k] = View(entries)[k]]_vars

==============================================================================
