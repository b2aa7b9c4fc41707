--------------------------- MODULE MountPathsProofs ---------------------------
(***************************************************************************)
(* Theorems about MountPaths, for every image, set of paths and spellings, *)
(* all bytes, buffers and bounds, and a device that may refuse any read.   *)
(***************************************************************************)
EXTENDS MountPaths, OverlayMapProofs, SequenceTheorems

------------------------------------------------------------------------------
(* Contents.                                                               *)

(* A content is a byte sequence of at most MaxLen bytes, and conversely.   *)
LEMMA ContentsAreSequences ==
  /\ \A c \in Contents : /\ c \in Seq(Bytes) /\ Len(c) \in 0..MaxLen
                         /\ \A i \in 1..Len(c) : c[i] \in Bytes
  /\ \A n \in 0..MaxLen : \A c \in [1..n -> Bytes] : c \in Contents /\ Len(c) = n
<1>1. \A n \in 0..MaxLen : \A c \in [1..n -> Bytes] : c \in Seq(Bytes) /\ Len(c) = n
  BY MountAssumption
<1>2. \A n \in 0..MaxLen : \A c \in [1..n -> Bytes] : c \in Contents
  BY MountAssumption
<1>3. ASSUME NEW c \in Contents
      PROVE  /\ c \in Seq(Bytes) /\ Len(c) \in 0..MaxLen
             /\ \A i \in 1..Len(c) : c[i] \in Bytes
  <2>1. PICK n \in 0..MaxLen : c \in [1..n -> Bytes]
    BY MountAssumption
  <2> QED
    BY <1>1, <2>1
<1> QED
  BY <1>1, <1>2, <1>3

(* Resizing makes a content of the size asked for.                         *)
LEMMA ResizeMakesContents ==
  ASSUME NEW c \in Contents, NEW size \in 0..MaxLen
  PROVE  /\ Resize(c, size) \in Contents
         /\ Len(Resize(c, size)) = size
         /\ \A i \in 1..size : Resize(c, size)[i] = IF i <= Len(c) THEN c[i] ELSE Zero
<1>1. Resize(c, size) \in [1..size -> Bytes]
  BY ContentsAreSequences, MountAssumption DEF Resize
<1>2. \A i \in 1..size : Resize(c, size)[i] = IF i <= Len(c) THEN c[i] ELSE Zero
  BY DEF Resize
<1> QED
  BY <1>1, <1>2, ContentsAreSequences

(* Patching puts the buffer at its offset, zeros before it where there was *)
(* nothing, and leaves the rest.                                           *)
LEMMA PatchedMakesContents ==
  ASSUME NEW c \in Contents, NEW offset \in Nat, NEW buf \in Buffers,
         offset + Len(buf) <= MaxLen
  PROVE  LET end == offset + Len(buf)
             new == Patched(c, offset, buf)
         IN  /\ new \in Contents
             /\ Len(new) = IF end > Len(c) THEN end ELSE Len(c)
             /\ \A i \in 1..Len(new) :
                  new[i] = IF i \in (offset + 1)..end THEN buf[i - offset]
                           ELSE IF i <= Len(c) THEN c[i] ELSE Zero
<1> DEFINE end  == offset + Len(buf)
           base == IF end > Len(c) THEN Resize(c, end) ELSE c
           new  == CopyInto(base, offset, buf)
<1>1. buf \in Seq(Bytes) /\ Len(buf) \in Nat /\ end \in 0..MaxLen
  BY MountAssumption
<1>2. Len(c) \in 0..MaxLen
  BY ContentsAreSequences
<1>3. /\ base \in Contents
      /\ Len(base) = IF end > Len(c) THEN end ELSE Len(c)
      /\ \A i \in 1..Len(base) : base[i] = IF i <= Len(c) THEN c[i] ELSE Zero
  <2>1. CASE end > Len(c)
    BY <1>1, <2>1, ResizeMakesContents
  <2>2. CASE ~ (end > Len(c))
    BY <1>2, <2>2
  <2> QED
    BY <2>1, <2>2
<1> HIDE DEF base
<1>4. Len(base) \in 0..MaxLen /\ \A i \in 1..Len(base) : base[i] \in Bytes
  BY <1>3, ContentsAreSequences
<1>5. \A i \in (offset + 1)..end : buf[i - offset] \in Bytes
  BY <1>1
<1>6. new \in [1..Len(base) -> Bytes]
  BY <1>4, <1>5 DEF CopyInto
<1>7. new \in Contents /\ Len(new) = Len(base)
  BY <1>4, <1>6, ContentsAreSequences
<1>8. \A i \in 1..Len(base) :
        new[i] = IF i \in (offset + 1)..end THEN buf[i - offset] ELSE base[i]
  BY DEF CopyInto
<1>9. Patched(c, offset, buf) = new
  BY DEF Patched, base
<1> HIDE DEF new
<1> QED
  BY <1>3, <1>7, <1>8, <1>9

------------------------------------------------------------------------------
(* What the calls find.                                                    *)

(* read_path, write_path and set_size_path find the file that is shown.    *)
LEMMA FileAtIsShown ==
  ASSUME entries \in Map, NEW k \in Keys, NEW fault, NEW c \in FileAt(k, fault)
  PROVE  c \in Contents /\ View(entries)[k] = File(c)
<1>1. entries[k] \in Entry /\ Underlay[k] \in Node
  BY UnderlayAssumption DEF Map
<1>2. CASE Lookup(entries, k) = "Hit"
  <2>1. HoldsFile(entries[k]) /\ c = entries[k].content
    BY <1>2 DEF FileAt
  <2> QED
    BY <1>1, <2>1 DEF HoldsFile, Entry, View, Shown
<1>3. CASE Lookup(entries, k) = "Miss"
  <2>1. Underlay[k].kind = "file" /\ c = Underlay[k].content
    BY <1>3 DEF FileAt, UnderlayFile
  <2>2. View(entries)[k] = Underlay[k]
    BY <1>3 DEF Lookup, View, Shown
  <2> QED
    BY <1>1, <2>1, <2>2 DEF Node, File
<1>4. CASE Lookup(entries, k) = "Deleted"
  BY <1>4 DEF FileAt
<1> QED
  BY <1>2, <1>3, <1>4 DEF Lookup

(* rename_path carries over the file or the directory that is shown.       *)
LEMMA SourceAtIsShown ==
  ASSUME entries \in Map, NEW k \in Keys, NEW fault, NEW node \in SourceAt(k, fault)
  PROVE  /\ View(entries)[k] = node /\ node # Absent
         /\ node = Directory \/ \E c \in Contents : node = File(c)
<1>1. CASE entries[k].kind = "CreatedDir"
  BY <1>1 DEF SourceAt, View, Shown, Directory, Absent
<1>2. CASE Lookup(entries, k) = "Miss" /\ Underlay[k].kind = "dir" /\ fault # "source"
  <2>1. Underlay[k] = Directory
    BY <1>2, UnderlayAssumption DEF Node, Directory
  <2> QED
    BY <1>2, <2>1 DEF SourceAt, Lookup, View, Shown, Directory, Absent
<1>3. CASE \E c \in FileAt(k, fault) : node = File(c)
  <2>1. PICK c \in FileAt(k, fault) : node = File(c)
    BY <1>3
  <2> QED
    BY <2>1, FileAtIsShown DEF File, Absent
<1> QED
  BY <1>1, <1>2, <1>3 DEF SourceAt

(* Staging at one key and a tombstone at another is a move.                *)
LEMMA ViewOfMove ==
  ASSUME NEW map \in Map, NEW k \in Keys, NEW l \in Keys, NEW node,
         node = Directory \/ \E c \in Contents : node = File(c)
  PROVE  /\ WithMoved(map, node, k, l) \in Map
         /\ View(WithMoved(map, node, k, l)) = [View(map) EXCEPT ![l] = node, ![k] = Absent]
<1> DEFINE staged == IF node = Directory THEN WithCreatedDir(map, l)
                                         ELSE WithCreatedFile(map, l, node.content)
<1>1. staged \in Map /\ View(staged) = [View(map) EXCEPT ![l] = node]
  <2>1. CASE node = Directory
    BY <2>1, MethodsMakeMaps, ViewOfUpdate, EmptyAssumption
  <2>2. ASSUME NEW c \in Contents, node = File(c)
        PROVE  staged \in Map /\ View(staged) = [View(map) EXCEPT ![l] = node]
    <3>1. node # Directory /\ node.content = c
      BY <2>2 DEF File, Directory
    <3>2. staged = WithCreatedFile(map, l, c)
      BY <3>1
    <3> HIDE DEF staged
    <3> QED
      BY <2>2, <3>2, MethodsMakeMaps, ViewOfUpdate
  <2> QED
    BY <2>1, <2>2
<1> HIDE DEF staged
<1>2. WithMoved(map, node, k, l) = WithDeleted(staged, k)
  BY DEF WithMoved, staged
<1>3. /\ WithDeleted(staged, k) \in Map
      /\ View(WithDeleted(staged, k)) = [View(staged) EXCEPT ![k] = Absent]
  BY <1>1, MethodsMakeMaps, ViewOfUpdate, EmptyAssumption
<1> QED
  BY <1>1, <1>2, <1>3

(* What a free destination shows, if the device answers.                   *)
LEMMA FreeShowsNothing ==
  ASSUME entries \in Map, NEW k \in Keys
  PROVE  /\ \A fault : ~ Occupied(k, fault) /\ fault # "destination" => View(entries)[k] = Absent
         /\ \A fault : Occupied(k, fault) => View(entries)[k] # Absent
<1>1. entries[k] \in Entry /\ Underlay[k] \in Node
  BY UnderlayAssumption DEF Map
<1>2. CASE Lookup(entries, k) = "Hit"
  BY <1>1, <1>2 DEF Occupied, Lookup, View, Shown, Entry, EntryKinds, Directory, File, Absent
<1>3. CASE Lookup(entries, k) = "Deleted"
  BY <1>3 DEF Occupied, Lookup, View, Shown
<1>4. CASE Lookup(entries, k) = "Miss"
  <2>1. View(entries)[k] = Underlay[k]
    BY <1>4 DEF Lookup, View, Shown
  <2>2. Underlay[k].kind = "absent" <=> Underlay[k] = Absent
    BY <1>1, UnderlayAssumption DEF Node, Absent
  <2> QED
    BY <1>4, <2>1, <2>2 DEF Occupied
<1> QED
  BY <1>2, <1>3, <1>4 DEF Lookup

------------------------------------------------------------------------------
(* The calls.                                                              *)

(* What each call does if it returns Ok, and what it leaves if it fails.   *)
LEMMA WriteStep ==
  ASSUME TypeOK, NEW path \in Spellings, NEW offset \in Nat, NEW buf \in Buffers, NEW fault,
         WritePath(path, offset, buf, fault)
  PROVE  LET k == NormalizePath(path)
         IN  /\ call' = [op |-> "write", path |-> path, offset |-> offset, buf |-> buf, ok |-> call'.ok]
             /\ call'.ok \in BOOLEAN /\ k \in Keys
             /\ ~ call'.ok => entries' = entries
             /\ call'.ok => \E c \in Contents :
                  /\ offset + Len(buf) <= MaxLen
                  /\ View(entries)[k] = File(c)
                  /\ entries' \in Map
                  /\ Patched(c, offset, buf) \in Contents
                  /\ View(entries') = [View(entries) EXCEPT ![k] = File(Patched(c, offset, buf))]
<1> DEFINE k == NormalizePath(path)
           returns(ok) == call' = [op |-> "write", path |-> path, offset |-> offset,
                                   buf |-> buf, ok |-> ok]
<1>0. k \in Keys /\ entries \in Map
  BY MountAssumption DEF TypeOK
<1>1. ASSUME NEW c \in FileAt(k, fault), offset + Len(buf) <= MaxLen,
             entries' = WithWrittenFile(entries, k, Patched(c, offset, buf)), returns(TRUE)
      PROVE  /\ c \in Contents /\ View(entries)[k] = File(c)
             /\ entries' \in Map
             /\ Patched(c, offset, buf) \in Contents
             /\ View(entries') = [View(entries) EXCEPT ![k] = File(Patched(c, offset, buf))]
             /\ call'.ok = TRUE
  <2>1. c \in Contents /\ View(entries)[k] = File(c)
    BY <1>0, FileAtIsShown
  <2>2. Patched(c, offset, buf) \in Contents
    BY <1>1, <2>1, PatchedMakesContents
  <2>3. /\ WithWrittenFile(entries, k, Patched(c, offset, buf)) \in Map
        /\ View(WithWrittenFile(entries, k, Patched(c, offset, buf)))
             = [View(entries) EXCEPT ![k] = File(Patched(c, offset, buf))]
    BY <1>0, <2>2, MethodsMakeMaps, ViewOfUpdate
  <2> QED
    BY <1>1, <2>1, <2>2, <2>3
<1>2. \/ \E c \in FileAt(k, fault) :
            /\ offset + Len(buf) <= MaxLen
            /\ entries' = WithWrittenFile(entries, k, Patched(c, offset, buf))
            /\ returns(TRUE)
      \/ entries' = entries /\ returns(FALSE)
  BY DEF WritePath
<1> HIDE DEF k
<1>3. CASE entries' = entries /\ returns(FALSE)
  BY <1>0, <1>3 DEF k
<1>4. ASSUME NEW c \in FileAt(k, fault), offset + Len(buf) <= MaxLen,
             entries' = WithWrittenFile(entries, k, Patched(c, offset, buf)), returns(TRUE)
      PROVE  /\ call' = [op |-> "write", path |-> path, offset |-> offset, buf |-> buf, ok |-> call'.ok]
             /\ call'.ok \in BOOLEAN
             /\ ~ call'.ok => entries' = entries
             /\ \E d \in Contents :
                  /\ offset + Len(buf) <= MaxLen
                  /\ View(entries)[k] = File(d)
                  /\ entries' \in Map
                  /\ Patched(d, offset, buf) \in Contents
                  /\ View(entries') = [View(entries) EXCEPT ![k] = File(Patched(d, offset, buf))]
  <2>1. c \in Contents
    BY <1>1, <1>4
  <2> QED
    BY <1>1, <1>4, <2>1
<1> QED
  BY <1>0, <1>2, <1>3, <1>4 DEF k

LEMMA SetSizeStep ==
  ASSUME TypeOK, NEW path \in Spellings, NEW size \in 0..MaxLen, NEW fault,
         SetSizePath(path, size, fault)
  PROVE  LET k == NormalizePath(path)
         IN  /\ call' = [op |-> "set_size", path |-> path, size |-> size, ok |-> call'.ok]
             /\ call'.ok \in BOOLEAN /\ k \in Keys
             /\ ~ call'.ok => entries' = entries
             /\ call'.ok => \E c \in Contents :
                  /\ View(entries)[k] = File(c)
                  /\ entries' \in Map
                  /\ Resize(c, size) \in Contents
                  /\ View(entries') = [View(entries) EXCEPT ![k] = File(Resize(c, size))]
<1> DEFINE k == NormalizePath(path)
           returns(ok) == call' = [op |-> "set_size", path |-> path, size |-> size, ok |-> ok]
<1>0. k \in Keys /\ entries \in Map
  BY MountAssumption DEF TypeOK
<1>1. \/ \E c \in FileAt(k, fault) :
            entries' = WithWrittenFile(entries, k, Resize(c, size)) /\ returns(TRUE)
      \/ entries' = entries /\ returns(FALSE)
  BY DEF SetSizePath
<1> HIDE DEF k
<1>2. CASE entries' = entries /\ returns(FALSE)
  BY <1>0, <1>2 DEF k
<1>3. ASSUME NEW c \in FileAt(k, fault), returns(TRUE),
             entries' = WithWrittenFile(entries, k, Resize(c, size))
      PROVE  /\ c \in Contents /\ View(entries)[k] = File(c)
             /\ entries' \in Map
             /\ Resize(c, size) \in Contents
             /\ View(entries') = [View(entries) EXCEPT ![k] = File(Resize(c, size))]
             /\ call' = [op |-> "set_size", path |-> path, size |-> size, ok |-> call'.ok]
             /\ call'.ok = TRUE
  <2>1. c \in Contents /\ View(entries)[k] = File(c)
    BY <1>0, FileAtIsShown
  <2>2. Resize(c, size) \in Contents
    BY <2>1, ResizeMakesContents
  <2>3. /\ WithWrittenFile(entries, k, Resize(c, size)) \in Map
        /\ View(WithWrittenFile(entries, k, Resize(c, size)))
             = [View(entries) EXCEPT ![k] = File(Resize(c, size))]
    BY <1>0, <2>2, MethodsMakeMaps, ViewOfUpdate
  <2> QED
    BY <1>3, <2>1, <2>2, <2>3
<1> QED
  BY <1>0, <1>1, <1>2, <1>3 DEF k

LEMMA RenameStep ==
  ASSUME TypeOK, NEW from \in Spellings, NEW to \in Spellings, NEW replace \in BOOLEAN, NEW fault,
         RenamePath(from, to, replace, fault)
  PROVE  LET source == NormalizePath(from)
             target == NormalizePath(to)
         IN  /\ call' = [op |-> "rename", from |-> from, to |-> to, replace |-> replace,
                         fault |-> fault, ok |-> call'.ok]
             /\ call'.ok \in BOOLEAN /\ source \in Keys /\ target \in Keys
             /\ ~ call'.ok =>
                  /\ entries' = entries
                  /\ SourceAt(source, fault) = {} \/ (Occupied(target, fault) /\ ~ replace)
             /\ call'.ok /\ from = to => entries' = entries
             /\ call'.ok /\ from # to =>
                  /\ View(entries)[source] # Absent
                  /\ Occupied(target, fault) => replace
                  /\ entries' \in Map
                  /\ View(entries') = [View(entries) EXCEPT ![target] = View(entries)[source],
                                                            ![source] = Absent]
<1> DEFINE source == NormalizePath(from)
           target == NormalizePath(to)
           returns(ok) == call' = [op |-> "rename", from |-> from, to |-> to, replace |-> replace,
                                   fault |-> fault, ok |-> ok]
<1>0. source \in Keys /\ target \in Keys /\ entries \in Map
  BY MountAssumption DEF TypeOK
<1>1. \/ from = to /\ entries' = entries /\ returns(TRUE)
      \/ \E node \in SourceAt(source, fault) :
           /\ from # to
           /\ Occupied(target, fault) => replace
           /\ entries' = WithMoved(entries, node, source, target)
           /\ returns(TRUE)
      \/ /\ from # to
         /\ SourceAt(source, fault) = {} \/ (Occupied(target, fault) /\ ~ replace)
         /\ entries' = entries
         /\ returns(FALSE)
  BY DEF RenamePath
<1> HIDE DEF source, target
<1>2. ASSUME NEW node \in SourceAt(source, fault),
             entries' = WithMoved(entries, node, source, target)
      PROVE  /\ View(entries)[source] # Absent
             /\ entries' \in Map
             /\ View(entries') = [View(entries) EXCEPT ![target] = View(entries)[source],
                                                       ![source] = Absent]
  BY <1>0, <1>2, SourceAtIsShown, ViewOfMove
<1>3. returns(TRUE) => /\ returns(call'.ok) /\ call'.ok = TRUE
  OBVIOUS
<1>4. returns(FALSE) => /\ returns(call'.ok) /\ call'.ok = FALSE
  OBVIOUS
<1> HIDE DEF returns
<1>5. /\ returns(call'.ok)
      /\ call'.ok \in BOOLEAN
      /\ ~ call'.ok =>
           /\ entries' = entries
           /\ SourceAt(source, fault) = {} \/ (Occupied(target, fault) /\ ~ replace)
      /\ call'.ok /\ from = to => entries' = entries
      /\ call'.ok /\ from # to =>
           /\ View(entries)[source] # Absent
           /\ Occupied(target, fault) => replace
           /\ entries' \in Map
           /\ View(entries') = [View(entries) EXCEPT ![target] = View(entries)[source],
                                                     ![source] = Absent]
  BY <1>1, <1>2, <1>3, <1>4
<1> QED
  BY <1>0, <1>5 DEF source, target, returns

LEMMA DiscardStep ==
  ASSUME DiscardOverlay
  PROVE  /\ call' = [op |-> "discard", ok |-> TRUE] /\ call'.ok \in BOOLEAN
         /\ entries' \in Map /\ View(entries') = Underlay
BY EmptyMapTyped, ViewOfEmpty DEF DiscardOverlay

(* Each call keeps the overlay's map a map.                                *)
LEMMA MountNextTyped == TypeOK /\ [Next]_vars => TypeOK'
<1> SUFFICES ASSUME TypeOK, [Next]_vars
             PROVE  TypeOK'
  OBVIOUS
<1>1. ASSUME NEW path \in Spellings, NEW offset \in 0..MaxOffset, NEW buf \in Buffers, NEW fault,
             WritePath(path, offset, buf, fault)
      PROVE  TypeOK'
  BY <1>1, WriteStep, MountAssumption DEF TypeOK
<1>2. ASSUME NEW path \in Spellings, NEW size \in 0..MaxLen, NEW fault,
             SetSizePath(path, size, fault)
      PROVE  TypeOK'
  BY <1>2, SetSizeStep DEF TypeOK
<1>3. ASSUME NEW from \in Spellings, NEW to \in Spellings, NEW replace \in BOOLEAN, NEW fault,
             RenamePath(from, to, replace, fault)
      PROVE  TypeOK'
  BY <1>3, RenameStep DEF TypeOK
<1>4. CASE DiscardOverlay
  BY <1>4, DiscardStep DEF TypeOK
<1>5. CASE UNCHANGED vars
  BY <1>5 DEF vars, TypeOK
<1> QED
  BY <1>1, <1>2, <1>3, <1>4, <1>5 DEF Next

(* Through every call, spelling and fault, the overlay files well-formed   *)
(* entries, whose contents fit, under normalised paths.                    *)
THEOREM MountTyping == Spec => []TypeOK
<1>1. Init => TypeOK
  BY EmptyMapTyped DEF Init, TypeOK
<1> QED
  BY <1>1, MountNextTyped, PTL DEF Spec

------------------------------------------------------------------------------
(* Properties.                                                             *)

(* Writes and resizes never make, revive or turn into a file what is not   *)
(* one, whatever is shown there and whatever the device does.              *)
THEOREM WritesCreateNothing == Spec => WritesNeverCreate
<1>1. ASSUME TypeOK, [Next]_vars, call' # call \/ entries' # entries,
             call'.op \in {"write", "set_size"},
             NEW k \in Keys, View(entries)[k].kind # "file"
      PROVE  View(entries')[k] = View(entries)[k]
  <2> DEFINE PatchesAFile(l, c, n) == /\ View(entries)[l] = File(c)
                                      /\ View(entries') = [View(entries) EXCEPT ![l] = n]
  <2>a. ASSUME NEW l, NEW c, NEW n, PatchesAFile(l, c, n)
        PROVE  View(entries')[k] = View(entries)[k]
    BY <1>1, <2>a DEF File, View
  <2>1. ASSUME NEW path \in Spellings, NEW offset \in 0..MaxOffset, NEW buf \in Buffers, NEW fault,
               WritePath(path, offset, buf, fault)
        PROVE  View(entries')[k] = View(entries)[k]
    <3>0. offset \in Nat
      BY MountAssumption
    <3>1. \/ entries' = entries
          \/ \E c \in Contents : \E n : PatchesAFile(NormalizePath(path), c, n)
      BY <1>1, <2>1, <3>0, WriteStep
    <3> QED
      BY <2>a, <3>1
  <2>2. ASSUME NEW path \in Spellings, NEW size \in 0..MaxLen, NEW fault,
               SetSizePath(path, size, fault)
        PROVE  View(entries')[k] = View(entries)[k]
    <3>1. \/ entries' = entries
          \/ \E c \in Contents : \E n : PatchesAFile(NormalizePath(path), c, n)
      BY <1>1, <2>2, SetSizeStep
    <3> QED
      BY <2>a, <3>1
  <2>3. ASSUME NEW from \in Spellings, NEW to \in Spellings, NEW replace \in BOOLEAN, NEW fault,
               RenamePath(from, to, replace, fault)
        PROVE  FALSE
    <3>1. call'.op = "rename"
      BY <1>1, <2>3, RenameStep
    <3> QED
      BY <1>1, <3>1
  <2>4. ~ DiscardOverlay
    BY <1>1, DiscardStep
  <2> QED
    BY <1>1, <2>1, <2>2, <2>3, <2>4 DEF Next, vars
<1>2. TypeOK /\ [Next]_vars =>
        [call'.op \in {"write", "set_size"} =>
           \A k \in Keys : View(entries)[k].kind # "file" => View(entries')[k] = View(entries)[k]]_vars
  BY <1>1 DEF vars
<1> QED
  BY <1>2, MountTyping, PTL DEF Spec, WritesNeverCreate

(* A rename not told to replace costs nothing: what is shown stays or is   *)
(* what is moved, as long as the device answers for the destination.       *)
THEOREM RenamesSpare == Spec => RenameSparesTheDestination
<1> DEFINE Kept(l) ==
      \/ View(entries')[l] = View(entries)[l]
      \/ /\ l = NormalizePath(call'.from)
         /\ View(entries')[NormalizePath(call'.to)] = View(entries)[l]
<1>1. ASSUME TypeOK, [Next]_vars, call' # call \/ entries' # entries,
             call'.op = "rename", ~ call'.replace, call'.fault # "destination",
             NEW k \in Keys, View(entries)[k] # Absent
      PROVE  Kept(k)
  <2>0. DOMAIN View(entries) = Keys /\ entries \in Map
    BY <1>1 DEF View, TypeOK
  <2>1. ASSUME NEW from \in Spellings, NEW to \in Spellings, NEW replace \in BOOLEAN, NEW fault,
               RenamePath(from, to, replace, fault)
        PROVE  Kept(k)
    <3>1. call'.from = from /\ call'.to = to /\ call'.replace = replace /\ call'.fault = fault
      BY <1>1, <2>1, RenameStep
    <3>2. CASE entries' = entries
      BY <3>2
    <3>3. CASE entries' # entries
      <4>1. /\ NormalizePath(to) \in Keys
            /\ ~ Occupied(NormalizePath(to), fault)
            /\ View(entries') = [View(entries) EXCEPT
                                   ![NormalizePath(to)] = View(entries)[NormalizePath(from)],
                                   ![NormalizePath(from)] = Absent]
        BY <1>1, <2>1, <3>1, <3>3, RenameStep
      <4>2. k # NormalizePath(to)
        BY <1>1, <2>0, <3>1, <4>1, FreeShowsNothing
      <4>3. CASE k # NormalizePath(from)
        BY <2>0, <4>1, <4>2, <4>3
      <4>4. CASE k = NormalizePath(from)
        BY <2>0, <3>1, <4>1, <4>2, <4>4
      <4> QED
        BY <4>3, <4>4
    <3> QED
      BY <3>2, <3>3
  <2>2. ASSUME NEW path \in Spellings, NEW offset \in 0..MaxOffset, NEW buf \in Buffers, NEW fault,
               WritePath(path, offset, buf, fault)
        PROVE  FALSE
    <3>1. call'.op = "write"
      BY <1>1, <2>2, WriteStep, MountAssumption
    <3> QED
      BY <1>1, <3>1
  <2>3. ASSUME NEW path \in Spellings, NEW size \in 0..MaxLen, NEW fault,
               SetSizePath(path, size, fault)
        PROVE  FALSE
    <3>1. call'.op = "set_size"
      BY <1>1, <2>3, SetSizeStep
    <3> QED
      BY <1>1, <3>1
  <2>4. ~ DiscardOverlay
    BY <1>1, DiscardStep
  <2> QED
    BY <1>1, <2>1, <2>2, <2>3, <2>4 DEF Next, vars
<1>2. TypeOK /\ [Next]_vars =>
        [call'.op = "rename" /\ ~ call'.replace /\ call'.fault # "destination" =>
           \A k \in Keys : View(entries)[k] # Absent =>
              \/ View(entries')[k] = View(entries)[k]
              \/ /\ k = NormalizePath(call'.from)
                 /\ View(entries')[NormalizePath(call'.to)] = View(entries)[k]]_vars
  BY <1>1 DEF vars
<1> QED
  BY <1>2, MountTyping, PTL DEF Spec, RenameSparesTheDestination

(* A file or directory that is shown is found, if the device answers.      *)
LEMMA ShownSourceIsFound ==
  ASSUME entries \in Map, NEW k \in Keys, NEW fault, fault # "source",
         View(entries)[k].kind \in {"file", "dir"}
  PROVE  SourceAt(k, fault) # {}
<1>1. entries[k] \in Entry
  BY DEF Map
<1>2. CASE entries[k].kind = "CreatedDir"
  BY <1>2 DEF SourceAt
<1>3. CASE HoldsFile(entries[k])
  <2>1. FileAt(k, fault) = {entries[k].content}
    BY <1>3 DEF FileAt, Lookup, HoldsFile
  <2> QED
    BY <2>1 DEF SourceAt
<1>4. CASE entries[k].kind = "Deleted"
  BY <1>4 DEF View, Shown, Absent
<1>5. CASE entries[k].kind = "None"
  <2>1. Lookup(entries, k) = "Miss" /\ Underlay[k].kind \in {"file", "dir"}
    BY <1>5 DEF Lookup, View, Shown
  <2>2. CASE Underlay[k].kind = "dir"
    BY <2>1, <2>2 DEF SourceAt
  <2>3. CASE Underlay[k].kind = "file"
    <3>1. FileAt(k, fault) = {Underlay[k].content}
      BY <2>1, <2>3 DEF FileAt, UnderlayFile
    <3> QED
      BY <3>1 DEF SourceAt
  <2> QED
    BY <2>1, <2>2, <2>3
<1> QED
  BY <1>1, <1>2, <1>3, <1>4, <1>5 DEF Entry, EntryKinds, HoldsFile

(* A rename fails only because the destination shows something, or the     *)
(* source is no file or directory, or the device refused the source.       *)
THEOREM FreedNames == Spec => FreedNamesAreFree
<1>1. ASSUME TypeOK, [Next]_vars, call' # call \/ entries' # entries,
             call'.op = "rename", ~ call'.ok, call'.fault # "source"
      PROVE  \/ View(entries)[NormalizePath(call'.to)] # Absent
             \/ View(entries)[NormalizePath(call'.from)].kind \notin {"file", "dir"}
  <2>1. ASSUME NEW from \in Spellings, NEW to \in Spellings, NEW replace \in BOOLEAN, NEW fault,
               RenamePath(from, to, replace, fault)
        PROVE  \/ View(entries)[NormalizePath(call'.to)] # Absent
               \/ View(entries)[NormalizePath(call'.from)].kind \notin {"file", "dir"}
    <3>1. /\ call'.from = from /\ call'.to = to /\ call'.fault = fault
          /\ NormalizePath(from) \in Keys /\ NormalizePath(to) \in Keys
          /\ \/ SourceAt(NormalizePath(from), fault) = {}
             \/ Occupied(NormalizePath(to), fault)
      BY <1>1, <2>1, RenameStep
    <3> QED
      BY <1>1, <3>1, FreeShowsNothing, ShownSourceIsFound DEF TypeOK
  <2>2. ASSUME NEW path \in Spellings, NEW offset \in 0..MaxOffset, NEW buf \in Buffers, NEW fault,
               WritePath(path, offset, buf, fault)
        PROVE  FALSE
    <3>1. call'.op = "write"
      BY <1>1, <2>2, WriteStep, MountAssumption
    <3> QED
      BY <1>1, <3>1
  <2>3. ASSUME NEW path \in Spellings, NEW size \in 0..MaxLen, NEW fault,
               SetSizePath(path, size, fault)
        PROVE  FALSE
    <3>1. call'.op = "set_size"
      BY <1>1, <2>3, SetSizeStep
    <3> QED
      BY <1>1, <3>1
  <2>4. ~ DiscardOverlay
    BY <1>1, DiscardStep
  <2> QED
    BY <1>1, <2>1, <2>2, <2>3, <2>4 DEF Next, vars
<1>2. TypeOK /\ [Next]_vars =>
        [call'.op = "rename" =>
           \/ call'.ok
           \/ call'.fault = "source"
           \/ View(entries)[NormalizePath(call'.to)] # Absent
           \/ View(entries)[NormalizePath(call'.from)].kind \notin {"file", "dir"}]_vars
  BY <1>1 DEF vars
<1> QED
  BY <1>2, MountTyping, PTL DEF Spec, FreedNamesAreFree

(* A write's bytes are where they were put, what was not there before is   *)
(* zero, and nothing else of the file has changed.                         *)
THEOREM WritesAreExact == Spec => WritesLandExactly
<1> DEFINE key  == NormalizePath(call'.path)
           old  == View(entries)[key].content
           new  == View(entries')[key].content
           from == call'.offset
           end  == call'.offset + Len(call'.buf)
           Exact == /\ Len(new) = IF end > Len(old) THEN end ELSE Len(old)
                    /\ SubSeq(new, from + 1, end) = call'.buf
                    /\ \A i \in 1..Len(new) :
                         i <= from \/ i > end => new[i] = IF i <= Len(old) THEN old[i] ELSE Zero
<1>1. ASSUME TypeOK, [Next]_vars, call' # call \/ entries' # entries,
             call'.op = "write", call'.ok
      PROVE  Exact
  <2>1. ASSUME NEW path \in Spellings, NEW offset \in 0..MaxOffset, NEW buf \in Buffers, NEW fault,
               WritePath(path, offset, buf, fault)
        PROVE  Exact
    <3>0. offset \in Nat /\ buf \in Seq(Bytes)
      BY MountAssumption
    <3>1. /\ call'.path = path /\ call'.offset = offset /\ call'.buf = buf
          /\ NormalizePath(path) \in Keys
      BY <1>1, <2>1, <3>0, WriteStep
    <3>2. PICK c \in Contents :
            /\ offset + Len(buf) <= MaxLen
            /\ View(entries)[NormalizePath(path)] = File(c)
            /\ Patched(c, offset, buf) \in Contents
            /\ View(entries') = [View(entries) EXCEPT
                                   ![NormalizePath(path)] = File(Patched(c, offset, buf))]
      BY <1>1, <2>1, <3>0, WriteStep
    <3>3. old = c /\ new = Patched(c, offset, buf)
      BY <3>1, <3>2 DEF File, View
    <3>4. from = offset /\ end = offset + Len(buf) /\ call'.buf = buf
      BY <3>1
    <3> HIDE DEF old, new, from, end
    <3>5. /\ Len(new) = IF end > Len(old) THEN end ELSE Len(old)
          /\ \A i \in 1..Len(new) :
               new[i] = IF i \in (from + 1)..end THEN buf[i - from]
                        ELSE IF i <= Len(old) THEN old[i] ELSE Zero
      BY <3>0, <3>2, <3>3, <3>4, PatchedMakesContents
    <3>6. /\ new \in Seq(Bytes) /\ Len(old) \in Nat /\ Len(buf) \in Nat
          /\ from \in Nat /\ end = from + Len(buf) /\ end <= Len(new)
      BY <3>0, <3>2, <3>3, <3>4, <3>5, ContentsAreSequences
    <3>7. SubSeq(new, from + 1, end) = buf
      <4>0. /\ from + 1 \in 1..(Len(new) + 1) /\ end \in 0..Len(new)
            /\ end - (from + 1) + 1 = Len(buf) /\ from + 1 <= end + 1
        BY <3>6
      <4>1. /\ SubSeq(new, from + 1, end) \in Seq(Bytes)
            /\ Len(SubSeq(new, from + 1, end)) = Len(buf)
            /\ \A i \in 1..Len(buf) : SubSeq(new, from + 1, end)[i] = new[from + i]
        <5>1. /\ SubSeq(new, from + 1, end) \in Seq(Bytes)
              /\ Len(SubSeq(new, from + 1, end)) =
                   IF from + 1 <= end THEN end - (from + 1) + 1 ELSE 0
              /\ \A i \in 1..(end - (from + 1) + 1) :
                   SubSeq(new, from + 1, end)[i] = new[from + 1 + i - 1]
          BY <3>6, <4>0, SubSeqProperties
        <5>2. Len(SubSeq(new, from + 1, end)) = Len(buf)
          BY <3>6, <4>0, <5>1
        <5>3. ASSUME NEW i \in 1..Len(buf)
              PROVE  SubSeq(new, from + 1, end)[i] = new[from + i]
          <6>1. i \in 1..(end - (from + 1) + 1) /\ from + 1 + i - 1 = from + i
            BY <3>6, <4>0
          <6> QED
            BY <5>1, <6>1, Zenon
        <5> QED
          BY <5>1, <5>2, <5>3, Zenon
      <4>2. \A i \in 1..Len(buf) : new[from + i] = buf[i]
        <5> SUFFICES ASSUME NEW i \in 1..Len(buf)
                     PROVE  new[from + i] = buf[i]
          OBVIOUS
        <5>1. /\ from + i \in 1..Len(new) /\ from + i \in (from + 1)..end
              /\ (from + i) - from = i
          BY <3>6
        <5>2. new[from + i] = buf[(from + i) - from]
          BY <3>5, <5>1, Zenon
        <5> QED
          BY <5>1, <5>2
      <4> QED
        BY <3>0, <4>1, <4>2, SeqEqual
    <3> QED
      BY <3>4, <3>5, <3>6, <3>7
  <2>2. ASSUME NEW path \in Spellings, NEW size \in 0..MaxLen, NEW fault,
               SetSizePath(path, size, fault)
        PROVE  FALSE
    <3>1. call'.op = "set_size"
      BY <1>1, <2>2, SetSizeStep
    <3> QED
      BY <1>1, <3>1
  <2>3. ASSUME NEW from_ \in Spellings, NEW to \in Spellings, NEW replace \in BOOLEAN, NEW fault,
               RenamePath(from_, to, replace, fault)
        PROVE  FALSE
    <3>1. call'.op = "rename"
      BY <1>1, <2>3, RenameStep
    <3> QED
      BY <1>1, <3>1
  <2>4. ~ DiscardOverlay
    BY <1>1, DiscardStep
  <2> HIDE DEF Exact
  <2> QED
    BY <1>1, <2>1, <2>2, <2>3, <2>4 DEF Next, vars
<1>2. TypeOK /\ [Next]_vars => [call'.op = "write" /\ call'.ok => Exact]_vars
  <2> HIDE DEF Exact
  <2> QED
    BY <1>1 DEF vars
<1> QED
  BY <1>2, MountTyping, PTL DEF Spec, WritesLandExactly

------------------------------------------------------------------------------
(* The refinement.                                                         *)

(* Each call is the volume's operation of its purpose, or changes nothing. *)
LEMMA CallsRefine == TypeOK /\ [Next]_vars => [Promise!Next]_<<View(entries), Did>>
<1> SUFFICES ASSUME TypeOK, [Next]_vars
             PROVE  [Promise!Next]_<<View(entries), Did>>
  OBVIOUS
<1>a. View(entries)' = View(entries')
  BY DEF View
<1>r. ASSUME entries' = entries, ~ call'.ok
      PROVE  Promise!Refuse
  <2>1. Did' = [op |-> "nothing"]
    BY <1>r DEF Did
  <2> QED
    BY <1>a, <1>r, <2>1 DEF Promise!Refuse, Promise!Nothing
<1>p. ASSUME NEW k \in Keys, NEW c \in Contents, call'.ok,
             call'.op \in {"write", "set_size"}, NormalizePath(call'.path) = k,
             View(entries') = [View(entries) EXCEPT ![k] = File(c)]
      PROVE  Promise!Put(k, c)
  <2>1. View(entries')[k].content = c
    BY <1>p DEF View, File
  <2>2. Did' = [op |-> "put", at |-> k, content |-> c]
    BY <1>a, <1>p, <2>1 DEF Did
  <2> QED
    BY <1>a, <1>p, <2>2 DEF Promise!Put, Promise!File, File
<1>1. ASSUME NEW path \in Spellings, NEW offset \in 0..MaxOffset, NEW buf \in Buffers, NEW fault,
             WritePath(path, offset, buf, fault)
      PROVE  Promise!Refuse \/ \E k \in Keys, c \in Contents : Promise!Put(k, c)
  <2>0. offset \in Nat
    BY MountAssumption
  <2>1. /\ call'.op = "write" /\ call'.path = path /\ NormalizePath(path) \in Keys
        /\ call'.ok \in BOOLEAN
        /\ ~ call'.ok => entries' = entries
        /\ call'.ok => \E c \in Contents :
             View(entries') = [View(entries) EXCEPT ![NormalizePath(path)] = File(c)]
    BY <1>1, <2>0, WriteStep
  <2> QED
    BY <1>r, <1>p, <2>1
<1>2. ASSUME NEW path \in Spellings, NEW size \in 0..MaxLen, NEW fault,
             SetSizePath(path, size, fault)
      PROVE  Promise!Refuse \/ \E k \in Keys, c \in Contents : Promise!Put(k, c)
  <2>1. /\ call'.op = "set_size" /\ call'.path = path /\ NormalizePath(path) \in Keys
        /\ call'.ok \in BOOLEAN
        /\ ~ call'.ok => entries' = entries
        /\ call'.ok => \E c \in Contents :
             View(entries') = [View(entries) EXCEPT ![NormalizePath(path)] = File(c)]
    BY <1>2, SetSizeStep
  <2> QED
    BY <1>r, <1>p, <2>1
<1>3. ASSUME NEW from \in Spellings, NEW to \in Spellings, NEW replace \in BOOLEAN, NEW fault,
             RenamePath(from, to, replace, fault)
      PROVE  \/ Promise!Refuse
             \/ \E k \in Keys : Promise!Remove(k)
             \/ \E k, l \in Keys : Promise!Move(k, l)
  <2> DEFINE source == NormalizePath(from)
             target == NormalizePath(to)
  <2>1. /\ call'.op = "rename" /\ call'.from = from /\ call'.to = to
        /\ call'.ok \in BOOLEAN /\ source \in Keys /\ target \in Keys
        /\ ~ call'.ok => entries' = entries
        /\ call'.ok /\ from = to => entries' = entries
        /\ call'.ok /\ from # to =>
             /\ View(entries)[source] # Absent
             /\ View(entries') = [View(entries) EXCEPT ![target] = View(entries)[source],
                                                       ![source] = Absent]
    BY <1>3, RenameStep
  <2>d. call'.ok => Did' = IF from = to THEN [op |-> "nothing"]
                           ELSE IF source = target THEN [op |-> "remove", at |-> source]
                           ELSE [op |-> "move", from |-> source, to |-> target]
    BY <2>1 DEF Did
  <2>s. DOMAIN View(entries) = Keys
    BY DEF View
  <2> HIDE DEF source, target
  <2>2. CASE ~ call'.ok
    BY <1>r, <2>1, <2>2
  <2>3. CASE call'.ok /\ from = to
    BY <1>a, <2>1, <2>3, <2>d DEF Promise!Refuse, Promise!Nothing
  <2>4. CASE call'.ok /\ from # to /\ source = target
    <3>1. View(entries') = [View(entries) EXCEPT ![source] = Absent]
      BY <2>1, <2>4, <2>s
    <3>2. Did' = [op |-> "remove", at |-> source]
      BY <2>4, <2>d
    <3> QED
      BY <1>a, <2>1, <3>1, <3>2 DEF Promise!Remove, Promise!Absent, Absent
  <2>5. CASE call'.ok /\ from # to /\ source # target
    <3>1. Did' = [op |-> "move", from |-> source, to |-> target]
      BY <2>5, <2>d
    <3> QED
      BY <1>a, <2>1, <2>5, <3>1 DEF Promise!Move, Promise!Absent, Absent
  <2> QED
    BY <2>1, <2>2, <2>3, <2>4, <2>5
<1>4. ASSUME DiscardOverlay
      PROVE  Promise!Discard
  <2>1. Did' = [op |-> "discard"]
    BY <1>4, DiscardStep DEF Did
  <2> QED
    BY <1>a, <1>4, <2>1, DiscardStep DEF Promise!Discard
<1>5. CASE UNCHANGED vars
  BY <1>5 DEF vars, View, Did
<1>6. CASE Next
  <2>1. Promise!Next
    BY <1>1, <1>2, <1>3, <1>4, <1>6 DEF Next, Promise!Next
  <2> QED
    BY <2>1
<1> QED
  BY <1>5, <1>6

(* The path operations implement a plain volume: whether the node has to   *)
(* be read out of the image or not, whichever spellings are used and       *)
(* whichever reads fail, each call is one operation of the volume at the   *)
(* paths it names, or nothing.                                             *)
THEOREM PathsImplementVolume == Spec => ImplementsVolume
<1>1. Init => Promise!Init
  BY ViewOfEmpty DEF Init, Did, Promise!Init, Promise!Nothing
<1> QED
  BY <1>1, CallsRefine, MountTyping, PTL DEF Spec, ImplementsVolume, Promise!Spec

==============================================================================
