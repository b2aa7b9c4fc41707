----------------------------- MODULE OverlayProofs -----------------------------
(***************************************************************************)
(* Theorems about Overlay, for every set of keys, contents and spellings   *)
(* and every image.                                                        *)
(***************************************************************************)
EXTENDS Overlay, OverlayMapProofs

(* Every method keeps the map a map from keys to entries.                  *)
LEMMA NextTyped == TypeOK /\ [Next]_vars => TypeOK'
<1> SUFFICES ASSUME TypeOK, [Next]_vars
             PROVE  TypeOK'
  OBVIOUS
<1> USE EmptyAssumption, SpellingsAssumption, EntriesAreEntries DEF TypeOK, Map
<1>1. ASSUME NEW path \in Spellings, NEW c \in Contents, WriteFile(path, c)
      PROVE  TypeOK'
  BY <1>1 DEF WriteFile, WithWrittenFile
<1>2. ASSUME NEW path \in Spellings, NEW c \in Contents, CreateFile(path, c)
      PROVE  TypeOK'
  BY <1>2 DEF CreateFile, WithCreatedFile
<1>3. ASSUME NEW path \in Spellings, CreateDir(path)
      PROVE  TypeOK'
  BY <1>3 DEF CreateDir, WithCreatedDir
<1>4. ASSUME NEW path \in Spellings, Delete(path)
      PROVE  TypeOK'
  BY <1>4 DEF Delete, WithDeleted
<1>5. ASSUME NEW from \in Spellings, NEW to \in Spellings, Rename(from, to)
      PROVE  TypeOK'
  BY <1>5 DEF Rename, WithRenamed
<1>6. CASE Clear
  BY <1>6 DEF Clear, EmptyMap
<1>7. CASE UNCHANGED vars
  BY <1>7 DEF vars
<1> QED
  BY <1>1, <1>2, <1>3, <1>4, <1>5, <1>6, <1>7 DEF Next

(* Every key holds a well-formed entry: a method stores an entry under a   *)
(* normalised key and nothing else.                                        *)
THEOREM Typing == Spec => []TypeOK
<1>1. Init => TypeOK
  BY EmptyAssumption, EntriesAreEntries DEF Init, TypeOK, Map, EmptyMap
<1> QED
  BY <1>1, NextTyped, PTL DEF Spec

------------------------------------------------------------------------------
(* What each method does to the view of the map.                           *)

(* rename moves what is shown at the source and leaves nothing there.      *)
LEMMA ViewOfRename ==
  ASSUME NEW map \in Map, NEW k \in Keys, NEW l \in Keys, k # l,
         Lookup(map, k) = "Hit"
  PROVE  /\ View(WithRenamed(map, k, l)) = [View(map) EXCEPT ![l] = View(map)[k], ![k] = Absent]
         /\ View(map)[k] # Absent
<1>1. map[k].kind \notin {"None", "Deleted"} /\ map[k] \in Entry
  BY DEF Lookup, Map
<1>2. /\ Shown(map[k], Underlay[l]) = Shown(map[k], Underlay[k])
      /\ Shown(map[k], Underlay[k]) # Absent
  BY <1>1 DEF Shown, Entry, EntryKinds, File, Directory, Absent
<1>3. Shown(Tombstone, Underlay[k]) = Absent
  BY DEF Shown, Tombstone
<1> QED
  BY <1>2, <1>3 DEF View, Map, WithRenamed

(* Each method is the volume's operation of the same purpose.              *)
LEMMA NextRefines == TypeOK /\ [Next]_vars => [Promise!Next]_<<View(entries), did>>
<1> SUFFICES ASSUME TypeOK, [Next]_vars
             PROVE  [Promise!Next]_<<View(entries), did>>
  OBVIOUS
<1> DEFINE key(path) == NormalizePath(path)
<1>a. View(entries)' = View(entries')
  BY DEF View
<1>b. entries \in Map /\ \A path \in Spellings : key(path) \in Keys
  BY SpellingsAssumption DEF TypeOK
<1> HIDE DEF key
<1>1. ASSUME NEW path \in Spellings, NEW c \in Contents, WriteFile(path, c)
      PROVE  Promise!Put(key(path), c)
  <2>1. entries' = WithWrittenFile(entries, key(path), c)
    BY <1>1 DEF WriteFile, key
  <2>2. View(entries)' = [View(entries) EXCEPT ![key(path)] = File(c)]
    BY <1>a, <1>b, <2>1, ViewOfUpdate
  <2> QED
    BY <1>1, <2>2 DEF WriteFile, key, Promise!Put, Promise!File, File
<1>2. ASSUME NEW path \in Spellings, NEW c \in Contents, CreateFile(path, c)
      PROVE  Promise!Put(key(path), c)
  <2>1. entries' = WithCreatedFile(entries, key(path), c)
    BY <1>2 DEF CreateFile, key
  <2>2. View(entries)' = [View(entries) EXCEPT ![key(path)] = File(c)]
    BY <1>a, <1>b, <2>1, ViewOfUpdate
  <2> QED
    BY <1>2, <2>2 DEF CreateFile, key, Promise!Put, Promise!File, File
<1>3. ASSUME NEW path \in Spellings, CreateDir(path)
      PROVE  Promise!MakeDirectory(key(path))
  <2>1. entries' = WithCreatedDir(entries, key(path))
    BY <1>3 DEF CreateDir, key
  <2>2. View(entries)' = [View(entries) EXCEPT ![key(path)] = Directory]
    BY <1>a, <1>b, <2>1, ViewOfUpdate, EmptyAssumption
  <2> QED
    BY <1>3, <2>2 DEF CreateDir, key, Promise!MakeDirectory, Promise!Directory, Directory
<1>4. ASSUME NEW path \in Spellings, Delete(path)
      PROVE  Promise!Remove(key(path))
  <2>1. entries' = WithDeleted(entries, key(path))
    BY <1>4 DEF Delete, key
  <2>2. View(entries)' = [View(entries) EXCEPT ![key(path)] = Absent]
    BY <1>a, <1>b, <2>1, ViewOfUpdate, EmptyAssumption
  <2> QED
    BY <1>4, <2>2 DEF Delete, key, Promise!Remove, Promise!Absent, Absent
<1>5. ASSUME NEW from \in Spellings, NEW to \in Spellings, Rename(from, to)
      PROVE  Promise!Move(key(from), key(to))
  <2>1. /\ key(from) # key(to)
        /\ Lookup(entries, key(from)) = "Hit"
        /\ entries' = WithRenamed(entries, key(from), key(to))
    BY <1>5 DEF Rename, key
  <2>2. /\ View(entries)' = [View(entries) EXCEPT ![key(to)] = View(entries)[key(from)],
                                                 ![key(from)] = Absent]
        /\ View(entries)[key(from)] # Absent
    BY <1>a, <1>b, <2>1, ViewOfRename
  <2> QED
    BY <1>5, <2>1, <2>2 DEF Rename, key, Promise!Move, Promise!Absent, Absent
<1>6. ASSUME Clear
      PROVE  Promise!Discard
  BY <1>a, <1>6, ViewOfEmpty DEF Clear, Promise!Discard
<1>7. CASE UNCHANGED vars
  BY <1>a, <1>7 DEF vars
<1>8. CASE Next
  <2>1. Promise!Next
    BY <1>b, <1>1, <1>2, <1>3, <1>4, <1>5, <1>6, <1>8 DEF Next, Promise!Next
  <2> QED
    BY <2>1
<1> QED
  BY <1>7, <1>8

(* The overlay over any image is a plain volume: what is shown at a path   *)
(* is changed only by a method that names it, and to exactly what that     *)
(* method staged.                                                          *)
THEOREM OverlayImplementsVolume == Spec => ImplementsVolume
<1>1. Init => Promise!Init
  BY ViewOfEmpty DEF Init, Promise!Init, Promise!Nothing
<1> QED
  BY <1>1, NextRefines, Typing, PTL DEF Spec, ImplementsVolume, Promise!Spec

------------------------------------------------------------------------------
(* Once the overlay answers for a path, the image does not answer for it   *)
(* again until the overlay is cleared.                                     *)
THEOREM OverlayCoverageOnlyGrows == Spec => CoverageOnlyGrows
<1>1. ASSUME TypeOK, [Next]_vars, entries' # EmptyMap
      PROVE  Covered(entries) \subseteq Covered(entries')
  <2> USE SpellingsAssumption DEF TypeOK, Map, Covered
  <2>1. ASSUME NEW path \in Spellings, NEW c \in Contents, WriteFile(path, c)
        PROVE  Covered(entries) \subseteq Covered(entries')
    BY <2>1 DEF WriteFile, WithWrittenFile, Created, Modified
  <2>2. ASSUME NEW path \in Spellings, NEW c \in Contents, CreateFile(path, c)
        PROVE  Covered(entries) \subseteq Covered(entries')
    BY <2>2 DEF CreateFile, WithCreatedFile, Created
  <2>3. ASSUME NEW path \in Spellings, CreateDir(path)
        PROVE  Covered(entries) \subseteq Covered(entries')
    BY <2>3 DEF CreateDir, WithCreatedDir, CreatedDir
  <2>4. ASSUME NEW path \in Spellings, Delete(path)
        PROVE  Covered(entries) \subseteq Covered(entries')
    BY <2>4 DEF Delete, WithDeleted, Tombstone
  <2>5. ASSUME NEW from \in Spellings, NEW to \in Spellings, Rename(from, to)
        PROVE  Covered(entries) \subseteq Covered(entries')
    <3> DEFINE k == NormalizePath(from)
               l == NormalizePath(to)
    <3>1. k \in Keys /\ l \in Keys /\ entries \in [Keys -> Entry]
      BY <1>1
    <3>2. /\ entries[k].kind # "None"
          /\ entries' = [entries EXCEPT ![l] = entries[k], ![k] = Tombstone]
      BY <2>5 DEF Rename, WithRenamed, Lookup
    <3> QED
      BY <3>1, <3>2 DEF Tombstone
  <2> QED
    BY <1>1, <2>1, <2>2, <2>3, <2>4, <2>5 DEF Next, Clear, vars
<1> QED
  BY <1>1, Typing, PTL DEF Spec, CoverageOnlyGrows

==============================================================================
