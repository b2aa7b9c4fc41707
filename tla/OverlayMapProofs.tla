--------------------------- MODULE OverlayMapProofs ---------------------------
(***************************************************************************)
(* Lemmas about OverlayMap: what each overlay method makes of the map, and *)
(* of what is shown through it.                                            *)
(***************************************************************************)
EXTENDS OverlayMap, TLAPS

(* The constructors build entries.                                         *)
LEMMA EntriesAreEntries ==
  ASSUME NEW c \in Contents
  PROVE  /\ Uncovered \in Entry
         /\ Tombstone \in Entry
         /\ CreatedDir \in Entry
         /\ Created(c) \in Entry
         /\ Modified(c) \in Entry
BY EmptyAssumption DEF Uncovered, Tombstone, CreatedDir, Created, Modified, Entry, EntryKinds

(* An empty overlay is a map.                                              *)
LEMMA EmptyMapTyped == EmptyMap \in Map
BY EmptyAssumption DEF EmptyMap, Map, Entry, EntryKinds, Uncovered

(* Each overlay method, at any path, makes a map of a map.                 *)
LEMMA MethodsMakeMaps ==
  ASSUME NEW map \in Map, NEW k \in Keys, NEW c \in Contents
  PROVE  /\ WithWrittenFile(map, k, c) \in Map
         /\ WithCreatedFile(map, k, c) \in Map
         /\ WithCreatedDir(map, k) \in Map
         /\ WithDeleted(map, k) \in Map
<1>1. \A e \in Entry : [map EXCEPT ![k] = e] \in Map
  BY DEF Map
<1> QED
  BY <1>1, EntriesAreEntries DEF WithWrittenFile, WithCreatedFile, WithCreatedDir, WithDeleted

(* An empty overlay shows the image.                                       *)
LEMMA ViewOfEmpty == View(EmptyMap) = Underlay
BY UnderlayAssumption DEF View, EmptyMap, Shown, Uncovered

(* Each method changes the view at the key it names and nowhere else.      *)
LEMMA ViewOfUpdate ==
  ASSUME NEW map \in Map, NEW k \in Keys, NEW c \in Contents
  PROVE  /\ View(WithWrittenFile(map, k, c)) = [View(map) EXCEPT ![k] = File(c)]
         /\ View(WithCreatedFile(map, k, c)) = [View(map) EXCEPT ![k] = File(c)]
         /\ View(WithCreatedDir(map, k)) = [View(map) EXCEPT ![k] = Directory]
         /\ View(WithDeleted(map, k)) = [View(map) EXCEPT ![k] = Absent]
<1> DEFINE Shows(e, n) == View([map EXCEPT ![k] = e]) = [View(map) EXCEPT ![k] = n]
<1>1. ASSUME NEW e, NEW n, Shown(e, Underlay[k]) = n
      PROVE  Shows(e, n)
  BY <1>1 DEF View, Map
<1>2. /\ Shown(Created(c), Underlay[k]) = File(c)
      /\ Shown(Modified(c), Underlay[k]) = File(c)
      /\ Shown(CreatedDir, Underlay[k]) = Directory
      /\ Shown(Tombstone, Underlay[k]) = Absent
  BY DEF Shown, Created, Modified, CreatedDir, Tombstone, File
<1>3. /\ Shows(Created(c), File(c))
      /\ Shows(Modified(c), File(c))
      /\ Shows(CreatedDir, Directory)
      /\ Shows(Tombstone, Absent)
  BY <1>1, <1>2
<1> QED
  BY <1>3 DEF WithWrittenFile, WithCreatedFile, WithCreatedDir, WithDeleted

==============================================================================
