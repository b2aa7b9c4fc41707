------------------------------ MODULE DirListing ------------------------------
(***************************************************************************)
(* Listing one directory through one handle: read_directory of mount.rs    *)
(* with underlay_children, Overlay::iter_dir and the resume after WinFsp's *)
(* marker, while other handles go on changing the overlay.                 *)
(*                                                                         *)
(* A listing is a sequence of calls; each returns a page of names in order *)
(* and the next one resumes after the last name of the page.  Inside a     *)
(* call the overlay is consulted once per child the image's directory has  *)
(* and once for all the overlay's entries.  WinFsp's guard keeps creates,  *)
(* renames and deletes out of a call, not out of the time between calls;   *)
(* writes, resizes and overwrites may land anywhere.                       *)
(*                                                                         *)
(* Keys are paths; names are numbers, which is the order of the listing.   *)
(* The client takes a page without names, or one that WinFsp's             *)
(* end-of-listing marker follows, for the end of the listing.              *)
(* Bounds: a page holds at most PageSize names; only Touched paths change. *)
(***************************************************************************)
EXTENDS OverlayMap, Naturals, SequencesExt

CONSTANTS Dir,       \* the directory the handle is open on
          Touched,   \* the paths other handles change; a bound
          PageSize

ASSUME ListingAssumption ==
  /\ Keys \subseteq Seq(Nat \ {0})
  /\ Dir \in Seq(Nat \ {0})
  /\ Touched \subseteq Keys
  /\ PageSize \in Nat \ {0}
  /\ IsFiniteSet({k \in Keys : Underlay[k].kind # "absent"})

VARIABLES
  entries,  \* the overlay's map
  inode,    \* whether the handle holds an inode of the image; it does not if its
            \* directory was made in the overlay, where the image may once have had one
  call,     \* "none", or "reading", or how the listing ended: "over", "failed"
  todo,     \* children of the image's directory still to be looked up
  found,    \* children underlay_children keeps
  marker,   \* the name to resume after; 0 before the first call
  listed,   \* what the client has been given so far, in order
  steady,   \* history: names that were there ever since the listing began
  alive,    \* history: names that were there at some moment of this call
  lost,     \* history: the marker's name was gone when a call resumed there
  cut       \* history: the end was announced although the page had no room left

reader  == <<inode, call, todo, found, marker, listed>>
history == <<steady, alive, lost, cut>>
vars == <<entries, reader, history>>

Child(k) == Len(k) = Len(Dir) + 1 /\ SubSeq(k, 1, Len(Dir)) = Dir
Name(k) == k[Len(k)]
At(name) == Append(Dir, name)
Names == {Name(k) : k \in {k \in Keys : Child(k)}}

(* The names that are in the directory: those a lookup finds, except that  *)
(* what the image has at the path of a directory made in the overlay is    *)
(* not in that directory, although its own path still finds it.            *)
Present(map) ==
  {x \in Names : /\ Shown(map[At(x)], Underlay[At(x)]) # Absent
                 /\ inode \/ map[At(x)].kind # "None"}

TypeOK ==
  /\ entries \in Map
  /\ inode \in BOOLEAN
  /\ call \in {"none", "reading", "over", "failed"}
  /\ todo \subseteq Names /\ found \subseteq Names
  /\ marker \in Names \cup {0}
  /\ listed \in Seq(Names)
  /\ steady \subseteq Names /\ alive \subseteq Names
  /\ lost \in BOOLEAN /\ cut \in BOOLEAN

Init ==
  /\ entries = EmptyMap
  /\ inode \in BOOLEAN
  /\ call = "none"
  /\ todo = {} /\ found = {}
  /\ marker = 0
  /\ listed = << >>
  /\ steady = Present(EmptyMap)
  /\ alive = {}
  /\ lost = FALSE /\ cut = FALSE

------------------------------------------------------------------------------
(* Other handles.                                                          *)

Install(map) ==
  /\ entries' = map
  /\ steady' = steady \cap Present(map)
  /\ alive' = alive \cup Present(map)
  /\ UNCHANGED <<reader, lost, cut>>

(* A write, a resize or an overwrite.  A handle opened before its path was *)
(* deleted or taken by a directory may still write there; which handles    *)
(* there are is not kept, so any path that has an entry may be written to. *)
Write(k) ==
  /\ Lookup(entries, k) # "Miss" \/ Underlay[k].kind = "file"
  /\ Install(WithWrittenFile(entries, k, Empty))

Guarded == call \in {"none", "over", "failed"}

Delete(k) == Guarded /\ Install(WithDeleted(entries, k))

Create(k) ==
  /\ Guarded
  /\ Shown(entries[k], Underlay[k]) = Absent
  /\ Install(WithCreatedFile(entries, k, Empty)) \/ Install(WithCreatedDir(entries, k))

(* A rename; a destination that exists is replaced.                        *)
Rename(k, l) ==
  LET node == Shown(entries[k], Underlay[k])
      created == IF node = Directory THEN WithCreatedDir(entries, l)
                                     ELSE WithCreatedFile(entries, l, node.content)
  IN  /\ Guarded /\ k # l
      /\ node.kind \in {"file", "dir"}
      /\ Install(WithDeleted(created, k))

------------------------------------------------------------------------------
(* One call of read_directory.                                             *)

(* Mutant: the image is listed by the path, not through the inode.         *)
ChildrenByPath == {x \in Names : Underlay[At(x)].kind # "absent"}

(* What the directory of the handle's inode has in the image.              *)
Children == IF inode THEN {x \in Names : Underlay[At(x)].kind # "absent"} ELSE {}

ReadDirectory ==
  /\ call = "none"
  /\ call' = "reading"
  /\ todo' = Children
  /\ found' = {}
  /\ alive' = Present(entries)
  /\ UNCHANGED <<entries, inode, marker, listed, steady, lost, cut>>

(* Mutant: tombstones of the image's children are not looked for.          *)
LookUpChildBlindly(x) ==
  /\ call = "reading" /\ x \in todo
  /\ todo' = todo \ {x}
  /\ found' = found \cup {x}
  /\ UNCHANGED <<entries, inode, call, marker, listed, history>>

(* Mutant: a tombstoned child is skipped without being passed over.        *)
LookUpChildAgain(x) ==
  /\ call = "reading" /\ x \in todo
  /\ Lookup(entries, At(x)) # "Deleted"
  /\ todo' = todo \ {x}
  /\ found' = found \cup {x}
  /\ UNCHANGED <<entries, inode, call, marker, listed, history>>

(* underlay_children's loop, in the order the image's directory has.       *)
LookUpChild(x) ==
  /\ call = "reading" /\ x \in todo
  /\ todo' = todo \ {x}
  /\ found' = IF Lookup(entries, At(x)) = "Deleted" THEN found ELSE found \cup {x}
  /\ UNCHANGED <<entries, inode, call, marker, listed, history>>

(* An inode or a directory block that cannot be read fails the whole call; *)
(* the client is given an error and no listing.                            *)
Fail ==
  /\ call = "reading" /\ inode
  /\ call' = "failed"
  /\ todo' = {} /\ found' = {}
  /\ UNCHANGED <<entries, inode, marker, listed, history>>

(* Mutant: every path below the directory is taken for a child of it.      *)
IterDirByPrefix(map) ==
  {Name(k) : k \in {k \in Keys : /\ Len(k) > Len(Dir)
                                 /\ SubSeq(k, 1, Len(Dir)) = Dir
                                 /\ map[k].kind # "None"}}

(* Overlay::iter_dir: the names of the directory's own entries.            *)
IterDir(map) == {Name(k) : k \in {k \in Keys : Child(k) /\ map[k].kind # "None"}}

(* Mutant: a modified file is left to the pass over the image.             *)
CreationsStaged(map) ==
  {x \in IterDir(map) : map[At(x)].kind \in {"Created", "CreatedDir"}}

(* The entries of the overlay that are listed: all but the tombstones.     *)
Staged(map) == {x \in IterDir(map) : At(x) \in Keys => map[At(x)].kind # "Deleted"}

(* Mutant: an entry of the overlay does not replace the image's.           *)
MergedTwice(image, staged) == {<<x, "image">> : x \in image} \cup {<<x, "overlay">> : x \in staged}

(* The merge of the two passes; an entry of the overlay replaces the       *)
(* image's of the same name.                                               *)
Merged(image, staged) ==
  {<<x, "image">> : x \in image \ staged} \cup {<<x, "overlay">> : x \in staged}

(* The names of the merged entries, sorted: fewer than i of the entries    *)
(* come before the i-th name, and no fewer than i up to it.                *)
Ascending(merged) ==
  [i \in 1..Cardinality(merged) |->
     CHOOSE x \in {e[1] : e \in merged} :
            /\ Cardinality({e \in merged : e[1] < x}) < i
            /\ Cardinality({e \in merged : e[1] <= x}) >= i]

(* Mutant: the listing resumes at the marker, not after it.                *)
ResumedAtTheMarker(all) ==
  LET at == IF marker = 0 THEN 1 ELSE SelectInSeq(all, LAMBDA x : x = marker)
  IN  IF at = 0 THEN << >> ELSE SubSeq(all, at, Len(all))

(* What is left of the listing for this call: all of it on the first, then *)
(* what follows the entry of exactly the marker's name, if there is one.   *)
Resumed(all) ==
  LET at == SelectInSeq(all, LAMBDA x : x = marker)
  IN  IF marker = 0 THEN all
      ELSE IF at = 0 THEN << >> ELSE SubSeq(all, at + 1, Len(all))

(* As much of the listing as the client's buffer holds, which is one entry *)
(* at least.                                                               *)
Pages(rest) ==
  {SubSeq(rest, 1, IF size < Len(rest) THEN size ELSE Len(rest)) : size \in 1..PageSize}

(* The merged and sorted listing, cut at the marker and at the size of the *)
(* client's buffer.  finalize_buffer puts WinFsp's end-of-listing marker   *)
(* behind every page, also one that more was to follow, as long as the     *)
(* page leaves it room; a page without names ends the listing anyhow.      *)
Answer ==
  /\ call = "reading" /\ todo = {}
  /\ \E all \in {Ascending(Merged(found, Staged(entries)))} :
       /\ \E page \in Pages(Resumed(all)), ended \in BOOLEAN :
            /\ page = << >> => ended
            /\ listed' = listed \o page
            /\ call' = IF ended THEN "over" ELSE "none"
            /\ marker' = IF page = << >> THEN marker ELSE page[Len(page)]
            /\ cut' = (ended /\ page # Resumed(all))
       /\ lost' = (lost \/ (marker # 0 /\ ~ Contains(all, marker)))
  /\ todo' = {} /\ found' = {}
  /\ UNCHANGED <<entries, inode, steady, alive>>

(* The client, having seen the end or an error, lists again.               *)
Restart ==
  /\ call \in {"over", "failed"}
  /\ call' = "none"
  /\ marker' = 0
  /\ listed' = << >>
  /\ steady' = Present(entries)
  /\ alive' = {}
  /\ lost' = FALSE /\ cut' = FALSE
  /\ UNCHANGED <<entries, inode, todo, found>>

Next ==
  \/ \E k \in Touched : Write(k) \/ Delete(k) \/ Create(k)
  \/ \E k, l \in Touched : Rename(k, l)
  \/ ReadDirectory
  \/ \E x \in Names : LookUpChild(x)
  \/ Fail
  \/ Answer
  \/ Restart

Spec == Init /\ [][Next]_vars

(* A call that has begun ends, and the client keeps asking.                *)
Listing == ReadDirectory \/ (\E x \in Names : LookUpChild(x)) \/ Answer

FairSpec == Spec /\ WF_vars(Listing)

------------------------------------------------------------------------------
(* Properties.                                                             *)

(* Whatever changes between or during the calls, the client is given every *)
(* name at most once and in order: an entry in both passes is one entry,   *)
(* and no page goes back behind the page before it.                        *)
ListedOnceInOrder == \A i, j \in 1..Len(listed) : i < j => listed[i] < listed[j]

(* A name is only listed if it was there at some moment of the call that   *)
(* lists it: tombstones, including those of an earlier call, hide the      *)
(* image's children, a directory that was deleted and made again does not  *)
(* bring them back, and nothing from deeper in the tree is taken for one.  *)
OnlyWhatWasThere ==
  call = "reading" => found \cup Staged(entries) \subseteq alive

(* A name that is there all through the calls made so far is listed if it  *)
(* is not behind the marker; and one that is there all through the listing *)
(* is in it, wherever it is, unless a call resumed after a name that had   *)
(* gone or the end was announced after a page that more was to follow.     *)
NothingLeftOut ==
  /\ \A x \in steady : x <= marker => x \in Range(listed)
  /\ call = "over" /\ ~ lost /\ ~ cut => steady \subseteq Range(listed)

(* A listing ends, however fast other handles add names: each page begins  *)
(* behind the last.                                                        *)
ListingEnds == call = "none" ~> call \in {"over", "failed"}

(* "reporting an empty or a short listing instead is the one answer a user *)
(* cannot tell from a correct one" (mount.rs:1132).  Violated: if the entry*)
(* a page ended with is deleted before the next call, no entry has the     *)
(* marker's name, all are skipped, and the listing ends short.             *)
NoShortListing == call = "over" /\ ~ cut => steady \subseteq Range(listed)

==============================================================================
