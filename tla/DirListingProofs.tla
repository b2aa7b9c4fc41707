--------------------------- MODULE DirListingProofs ---------------------------
(***************************************************************************)
(* Theorems about DirListing, for every directory, image and tree of       *)
(* paths, whatever paths the other handles change and whatever a page      *)
(* holds.                                                                  *)
(***************************************************************************)
EXTENDS DirListing, OverlayMapProofs, SequenceTheorems, InductionProofs

(* What a call has kept of the image's children, and whatever the overlay  *)
(* holds, was there at some moment of the call.                            *)
KeptWasThere ==
  call = "reading" => found \subseteq alive /\ Present(entries) \subseteq alive

ListingInv ==
  /\ entries \in Map
  /\ todo \subseteq Children
  /\ KeptWasThere

------------------------------------------------------------------------------

(* A child of the directory is found again under its own name.             *)
LEMMA ChildrenHaveTheirNames ==
  \A k \in Keys : Child(k) => At(Name(k)) = k
<1> SUFFICES ASSUME NEW k \in Keys, Child(k)
             PROVE  At(Name(k)) = k
  OBVIOUS
<1>1. k \in Seq(Nat \ {0}) /\ Dir \in Seq(Nat \ {0})
  BY ListingAssumption
<1>2. Len(k) = Len(Dir) + 1 /\ SubSeq(k, 1, Len(Dir)) = Dir
  BY DEF Child
<1>3. \A i \in 1..Len(Dir) : Dir[i] = k[i]
  BY <1>1, <1>2
<1>4. Len(k) \in 1..Len(k) /\ Name(k) = k[Len(k)] /\ Name(k) \in Nat \ {0}
  BY <1>1, <1>2 DEF Name
<1>5. /\ At(Name(k)) \in Seq(Nat \ {0})
      /\ Len(At(Name(k))) = Len(k)
  BY <1>1, <1>2, <1>4 DEF At
<1>6. ASSUME NEW i \in 1..Len(k)
      PROVE  At(Name(k))[i] = k[i]
  <2>1. CASE i \in 1..Len(Dir)
    BY <1>1, <1>3, <1>4, <2>1 DEF At
  <2>2. CASE i = Len(Dir) + 1
    BY <1>1, <1>2, <1>4, <2>2 DEF At
  <2> QED
    BY <1>1, <1>2, <2>1, <2>2
<1> QED
  BY <1>1, <1>5, <1>6, SeqEqual

(* A path that has an entry other than a tombstone shows something.        *)
LEMMA EntriesShow ==
  ASSUME NEW map \in Map, NEW k \in Keys, map[k].kind \notin {"None", "Deleted"}
  PROVE  Shown(map[k], Underlay[k]) # Absent
<1>1. map[k] \in Entry
  BY DEF Map
<1> QED
  BY <1>1 DEF Shown, Entry, EntryKinds, Directory, File, Absent

(* The overlay's part of a listing is there.                               *)
LEMMA StagedIsPresent ==
  ASSUME NEW map \in Map
  PROVE  Staged(map) \subseteq Present(map)
<1> SUFFICES ASSUME NEW x \in Staged(map)
             PROVE  x \in Present(map)
  OBVIOUS
<1>1. PICK k \in Keys : Child(k) /\ map[k].kind # "None" /\ x = Name(k)
  BY DEF Staged, IterDir
<1>2. At(x) = k
  BY <1>1, ChildrenHaveTheirNames
<1>3. map[k].kind # "Deleted"
  BY <1>2 DEF Staged
<1>4. Shown(map[At(x)], Underlay[At(x)]) # Absent
  BY <1>1, <1>2, <1>3, EntriesShow
<1>5. x \in Names /\ map[At(x)].kind # "None"
  BY <1>1, <1>2 DEF Names
<1> QED
  BY <1>4, <1>5, Zenon DEF Present

(* A child of the image's directory is there unless it has a tombstone.    *)
LEMMA ChildrenArePresent ==
  ASSUME NEW map \in Map, NEW x \in Children, Lookup(map, At(x)) # "Deleted"
  PROVE  x \in Present(map)
<1>1. x \in Names /\ Underlay[At(x)].kind # "absent" /\ inode
  BY DEF Children
<1>2. PICK k \in Keys : Child(k) /\ x = Name(k)
  BY <1>1 DEF Names
<1>3. At(x) = k
  BY <1>2, ChildrenHaveTheirNames
<1>4. map[k].kind # "Deleted"
  BY <1>3 DEF Lookup
<1>5. CASE map[k].kind = "None"
  <2>1. Shown(map[At(x)], Underlay[At(x)]) = Underlay[At(x)]
    BY <1>3, <1>5 DEF Shown
  <2> QED
    BY <1>1, <2>1 DEF Present, Absent
<1>6. CASE map[k].kind # "None"
  <2>1. Shown(map[At(x)], Underlay[At(x)]) # Absent
    BY <1>3, <1>4, <1>6, EntriesShow
  <2> QED
    BY <1>1, <2>1 DEF Present
<1> QED
  BY <1>5, <1>6

------------------------------------------------------------------------------

(* Each step, of the listing or of another handle, keeps the invariant.    *)
LEMMA ListingStep == ListingInv /\ [Next]_vars => ListingInv'
<1> SUFFICES ASSUME ListingInv, [Next]_vars
             PROVE  ListingInv'
  OBVIOUS
<1>i. inode' = inode
  BY DEF Next, Write, Delete, Create, Rename, Install, ReadDirectory, LookUpChild, Fail, Answer,
         Restart, reader, vars
<1>0. entries \in Map /\ Children' = Children
  BY <1>i DEF ListingInv, Children
<1>1. ASSUME NEW map \in Map, Install(map)
      PROVE  ListingInv'
  <2>1. /\ entries' = map /\ alive' = alive \cup Present(map)
        /\ call' = call /\ todo' = todo /\ found' = found
    BY <1>1 DEF Install, reader
  <2>2. Present(entries)' = Present(map)
    BY <1>i, <2>1 DEF Present
  <2> QED
    BY <1>0, <2>1, <2>2 DEF ListingInv, KeptWasThere
<1>2. ASSUME NEW k \in Keys, NEW l \in Keys, Write(k) \/ Delete(k) \/ Create(k) \/ Rename(k, l)
      PROVE  ListingInv'
  <2>1. CASE Write(k)
    BY <1>0, <1>1, <2>1, MethodsMakeMaps, EmptyAssumption DEF Write
  <2>2. CASE Delete(k)
    BY <1>0, <1>1, <2>2, MethodsMakeMaps, EmptyAssumption DEF Delete
  <2>3. CASE Create(k)
    BY <1>0, <1>1, <2>3, MethodsMakeMaps, EmptyAssumption DEF Create
  <2>4. CASE Rename(k, l)
    <3> DEFINE node == Shown(entries[k], Underlay[k])
               created == IF node = Directory THEN WithCreatedDir(entries, l)
                                              ELSE WithCreatedFile(entries, l, node.content)
    <3>1. node.content \in Contents
      BY <1>0, EmptyAssumption, UnderlayAssumption
      DEF Shown, Map, Entry, Node, Absent, Directory, File
    <3>2. created \in Map
      BY <1>0, <3>1, MethodsMakeMaps
    <3>3. Install(WithDeleted(created, k))
      BY <2>4 DEF Rename
    <3> QED
      BY <1>1, <3>2, <3>3, MethodsMakeMaps, EmptyAssumption
  <2> QED
    BY <1>2, <2>1, <2>2, <2>3, <2>4
<1>3. CASE ReadDirectory
  BY <1>0, <1>3 DEF ReadDirectory, ListingInv, KeptWasThere, Present
<1>4. ASSUME NEW x \in Names, LookUpChild(x)
      PROVE  ListingInv'
  <2>1. /\ call = "reading" /\ x \in todo /\ todo' = todo \ {x}
        /\ found' = IF Lookup(entries, At(x)) = "Deleted" THEN found ELSE found \cup {x}
        /\ entries' = entries /\ call' = call /\ alive' = alive
    BY <1>4 DEF LookUpChild, history
  <2>2. Present(entries)' = Present(entries)
    BY <1>i, <2>1 DEF Present
  <2>3. Lookup(entries, At(x)) # "Deleted" => x \in alive
    BY <1>0, <2>1, ChildrenArePresent DEF ListingInv, KeptWasThere
  <2> QED
    BY <1>0, <2>1, <2>2, <2>3 DEF ListingInv, KeptWasThere
<1>5. CASE Fail \/ Answer \/ Restart
  <2>1. /\ entries' = entries /\ todo' \subseteq todo
        /\ call' # "reading"
    BY <1>5 DEF Fail, Answer, Restart, history
  <2> QED
    BY <1>0, <2>1 DEF ListingInv, KeptWasThere
<1>6. CASE UNCHANGED vars
  BY <1>0, <1>6 DEF vars, reader, history, ListingInv, KeptWasThere, Present
<1> QED
  BY <1>2, <1>3, <1>4, <1>5, <1>6, ListingAssumption DEF Next

(* Whatever other handles do meanwhile, a listing names nothing that was   *)
(* not there at some moment of the call that lists it.                     *)
THEOREM OnlyWhatWasThereIsListed == Spec => []OnlyWhatWasThere
<1>1. Init => ListingInv
  BY EmptyMapTyped DEF Init, ListingInv, KeptWasThere
<1>2. ListingInv => OnlyWhatWasThere
  BY StagedIsPresent DEF ListingInv, KeptWasThere, OnlyWhatWasThere
<1> QED
  BY <1>1, <1>2, ListingStep, PTL DEF Spec

------------------------------------------------------------------------------
(* The sort.                                                               *)

LEMMA NamesAreNumbers ==
  /\ Names \subseteq Nat \ {0}
  /\ \A x \in Names : At(x) \in Keys
  /\ \A x, y \in Names : At(x) = At(y) => x = y
<1>1. ASSUME NEW k \in Keys, Child(k)
      PROVE  Name(k) \in Nat \ {0}
  <2>1. k \in Seq(Nat \ {0}) /\ Dir \in Seq(Nat \ {0}) /\ Len(k) = Len(Dir) + 1
    BY <1>1, ListingAssumption DEF Child
  <2>2. Len(k) \in 1..Len(k)
    BY <2>1
  <2> QED
    BY <2>1, <2>2 DEF Name
<1>2. ASSUME NEW x \in Names
      PROVE  x \in Nat \ {0} /\ At(x) \in Keys
  BY <1>1, ChildrenHaveTheirNames DEF Names
<1>3. ASSUME NEW x \in Names, NEW y \in Names, At(x) = At(y)
      PROVE  x = y
  <2>1. Dir \in Seq(Nat \ {0}) /\ x \in Nat \ {0} /\ y \in Nat \ {0}
    BY <1>2, ListingAssumption
  <2>2. Append(Dir, x)[Len(Dir) + 1] = x /\ Append(Dir, y)[Len(Dir) + 1] = y
    BY <2>1
  <2> QED
    BY <1>3, <2>2 DEF At
<1> QED
  BY <1>2, <1>3

(* Of finitely many entries with a name each of their own, the sort lists  *)
(* every name once and in order.                                           *)
LEMMA SortListsEachNameOnce ==
  ASSUME NEW M, IsFiniteSet(M), \A e \in M : e[1] \in Names,
         \A d, e \in M : d[1] = e[1] => d = e
  PROVE  /\ Ascending(M) \in Seq(Names)
         /\ \A i, j \in 1..Len(Ascending(M)) : i < j => Ascending(M)[i] < Ascending(M)[j]
         /\ Range(Ascending(M)) = {e[1] : e \in M}
<1> DEFINE n == Cardinality(M)
           Lt(x) == {e \in M : e[1] < x}
           Le(x) == {e \in M : e[1] <= x}
           Firsts == {e[1] : e \in M}
           pick(i) == CHOOSE y \in Firsts : Cardinality(Lt(y)) < i /\ Cardinality(Le(y)) >= i
           rank == [e \in M |-> Cardinality(Le(e[1]))]
<1>0. Ascending(M) = [i \in 1..n |-> pick(i)]
  BY DEF Ascending
<1>1. n \in Nat /\ \A e \in M : e[1] \in Nat
  BY FS_CardinalityType, NamesAreNumbers
<1>2. ASSUME NEW x
      PROVE  /\ IsFiniteSet(Lt(x)) /\ Cardinality(Lt(x)) \in Nat
             /\ IsFiniteSet(Le(x)) /\ Cardinality(Le(x)) \in Nat /\ Cardinality(Le(x)) <= n
  <2>1. Lt(x) \in SUBSET M /\ Le(x) \in SUBSET M
    OBVIOUS
  <2> HIDE DEF Lt, Le
  <2> QED
    BY <2>1, FS_Subset, FS_CardinalityType
<1>3. ASSUME NEW e \in M
      PROVE  Cardinality(Le(e[1])) = Cardinality(Lt(e[1])) + 1
  <2>1. Le(e[1]) = Lt(e[1]) \cup {e} /\ e \notin Lt(e[1])
    BY <1>1
  <2> HIDE DEF Lt, Le
  <2> QED
    BY <1>2, <2>1, FS_AddElement
<1>4. ASSUME NEW x \in Nat, NEW y \in Nat
      PROVE  /\ x < y => Cardinality(Le(x)) <= Cardinality(Lt(y))
             /\ x <= y => Cardinality(Le(x)) <= Cardinality(Le(y))
  <2>1. /\ x < y => Le(x) \in SUBSET Lt(y)
        /\ x <= y => Le(x) \in SUBSET Le(y)
    BY <1>1
  <2> HIDE DEF Lt, Le
  <2> QED
    BY <1>2, <2>1, FS_Subset
<1>5. ASSUME NEW x \in Nat, Cardinality(Lt(x)) < Cardinality(Le(x))
      PROVE  \E e \in M : e[1] = x
  <2>1. Lt(x) # Le(x)
    <3> HIDE DEF Lt, Le
    <3> QED
      BY <1>2, <1>5
  <2> QED
    BY <1>1, <2>1
<1>f. Firsts \subseteq Names /\ \A e \in M : e[1] \in Firsts
  OBVIOUS
<1> HIDE DEF n, Lt, Le, pick, Firsts
<1>6. rank \in Injection(M, 1..n)
  <2>1. ASSUME NEW e \in M
        PROVE  rank[e] \in 1..n
    BY <1>1, <1>2, <1>3
  <2>2. ASSUME NEW d \in M, NEW e \in M, d # e
        PROVE  rank[d] # rank[e]
    <3>1. d[1] < e[1] \/ e[1] < d[1]
      BY <1>1, <2>2
    <3> QED
      BY <1>1, <1>2, <1>3, <1>4, <3>1
  <2>3. rank \in [M -> 1..n]
    BY <2>1
  <2> QED
    BY <2>2, <2>3 DEF Injection, IsInjective
<1>7. rank \in Surjection(M, 1..n)
  <2>1. IsFiniteSet(1..n) /\ Cardinality(1..n) = n
    BY <1>1, FS_Interval
  <2> QED
    BY <1>6, <2>1, FS_Injection DEF n
<1>8. ASSUME NEW i \in 1..n
      PROVE  /\ Ascending(M)[i] \in Names
             /\ \E e \in M : e[1] = Ascending(M)[i] /\ rank[e] = i
  <2>1. PICK e \in M : rank[e] = i
    BY <1>7 DEF Surjection
  <2>2. e[1] \in Firsts /\ Cardinality(Lt(e[1])) < i /\ Cardinality(Le(e[1])) >= i
    BY <1>2, <1>3, <1>f, <2>1
  <2> DEFINE x == Ascending(M)[i]
  <2>3. x \in Firsts /\ Cardinality(Lt(x)) < i /\ Cardinality(Le(x)) >= i
    <3>1. x = CHOOSE y \in Firsts : Cardinality(Lt(y)) < i /\ Cardinality(Le(y)) >= i
      BY <1>0 DEF pick
    <3> HIDE DEF x
    <3> QED
      BY <2>2, <3>1, Zenon
  <2> HIDE DEF x
  <2>4. PICK d \in M : d[1] = x
    BY <2>3 DEF Firsts
  <2>5. Cardinality(Le(x)) = Cardinality(Lt(x)) + 1
    BY <1>3, <2>4
  <2>6. rank[d] = i
    BY <1>2, <2>3, <2>4, <2>5
  <2> QED
    BY <1>f, <2>3, <2>4, <2>6 DEF x
<1>9. Ascending(M) \in [1..n -> Names]
  BY <1>0, <1>8
<1>10. Ascending(M) \in Seq(Names) /\ Len(Ascending(M)) = n /\ DOMAIN Ascending(M) = 1..n
  BY <1>1, <1>9
<1>11. ASSUME NEW i \in 1..n, NEW j \in 1..n, i < j
       PROVE  Ascending(M)[i] < Ascending(M)[j]
  <2>1. PICK d \in M : d[1] = Ascending(M)[i] /\ rank[d] = i
    BY <1>8
  <2>2. PICK e \in M : e[1] = Ascending(M)[j] /\ rank[e] = j
    BY <1>8
  <2>3. ~ (e[1] <= d[1])
    BY <1>1, <1>2, <1>4, <1>11, <2>1, <2>2
  <2> QED
    BY <1>1, <2>1, <2>2, <2>3
<1>12. ASSUME NEW e \in M
       PROVE  \E i \in 1..n : Ascending(M)[i] = e[1]
  <2>1. rank[e] \in 1..n
    BY <1>6 DEF Injection
  <2>2. PICK d \in M : d[1] = Ascending(M)[rank[e]] /\ rank[d] = rank[e]
    BY <1>8, <2>1
  <2>3. d = e
    BY <1>6, <2>2 DEF Injection, IsInjective
  <2> QED
    BY <2>1, <2>2, <2>3
<1>13. Range(Ascending(M)) = {e[1] : e \in M}
  BY <1>8, <1>10, <1>12 DEF Range
<1> QED
  BY <1>10, <1>11, <1>13

------------------------------------------------------------------------------
(* What is merged.                                                         *)

(* The image is finite, and so is the directory's part of it.              *)
LEMMA ChildrenAreFinite == IsFiniteSet(Children)
<1> DEFINE image == {k \in Keys : Underlay[k].kind # "absent"}
           path == [x \in Children |-> At(x)]
<1>1. path \in Injection(Children, image)
  <2>1. \A x \in Children : x \in Names /\ Underlay[At(x)].kind # "absent"
    BY DEF Children
  <2>2. path \in [Children -> image]
    BY <2>1, NamesAreNumbers
  <2> QED
    BY <2>1, <2>2, NamesAreNumbers DEF Injection, IsInjective
<1>2. IsFiniteSet(image)
  BY ListingAssumption
<1> HIDE DEF image, path
<1> QED
  BY <1>1, <1>2, FS_Injection

(* As long as the overlay has finitely many entries, a listing has.        *)
LEMMA StagedIsFinite ==
  ASSUME NEW map, IsFiniteSet(Covered(map))
  PROVE  IsFiniteSet(Staged(map)) /\ Staged(map) \subseteq Names
<1> DEFINE path == [x \in Staged(map) |-> At(x)]
<1>1. ASSUME NEW x \in Staged(map)
      PROVE  x \in Names /\ At(x) \in Covered(map)
  BY ChildrenHaveTheirNames DEF Staged, IterDir, Names, Covered
<1>2. path \in Injection(Staged(map), Covered(map))
  <2>1. path \in [Staged(map) -> Covered(map)]
    BY <1>1
  <2> QED
    BY <1>1, <2>1, NamesAreNumbers DEF Injection, IsInjective
<1> HIDE DEF path
<1> QED
  BY <1>1, <1>2, FS_Injection

(* Each overlay method adds one entry at most.                             *)
LEMMA MethodsCoverOneMore ==
  ASSUME NEW map \in Map, NEW k \in Keys, NEW c \in Contents, IsFiniteSet(Covered(map))
  PROVE  /\ IsFiniteSet(Covered(WithWrittenFile(map, k, c)))
         /\ IsFiniteSet(Covered(WithCreatedFile(map, k, c)))
         /\ IsFiniteSet(Covered(WithCreatedDir(map, k)))
         /\ IsFiniteSet(Covered(WithDeleted(map, k)))
<1>1. IsFiniteSet(Covered(map) \cup {k})
  BY FS_AddElement
<1>2. /\ Covered(WithWrittenFile(map, k, c)) \in SUBSET (Covered(map) \cup {k})
      /\ Covered(WithCreatedFile(map, k, c)) \in SUBSET (Covered(map) \cup {k})
      /\ Covered(WithCreatedDir(map, k)) \in SUBSET (Covered(map) \cup {k})
      /\ Covered(WithDeleted(map, k)) \in SUBSET (Covered(map) \cup {k})
  BY DEF Covered, Map, WithWrittenFile, WithCreatedFile, WithCreatedDir, WithDeleted
<1> QED
  BY <1>1, <1>2, FS_Subset

(* The merge of finite passes is sorted into one list of all their names.  *)
LEMMA MergeListsEachNameOnce ==
  ASSUME NEW image, NEW staged, IsFiniteSet(image), IsFiniteSet(staged),
         image \subseteq Names, staged \subseteq Names
  PROVE  LET all == Ascending(Merged(image, staged))
         IN  /\ all \in Seq(Names)
             /\ \A i, j \in 1..Len(all) : i < j => all[i] < all[j]
             /\ Range(all) = image \cup staged
<1> DEFINE M == Merged(image, staged)
           passes == {"image", "overlay"}
<1>1. IsFiniteSet(M)
  <2>1. IsFiniteSet(passes)
    <3>1. IsFiniteSet({} \cup {"image"})
      BY FS_EmptySet, FS_AddElement
    <3>2. IsFiniteSet(({} \cup {"image"}) \cup {"overlay"})
      BY <3>1, FS_AddElement
    <3>3. ({} \cup {"image"}) \cup {"overlay"} = passes
      OBVIOUS
    <3> QED
      BY <3>2, <3>3
  <2>2. IsFiniteSet(image \cup staged)
    BY FS_Union
  <2>3. M \in SUBSET ((image \cup staged) \X passes)
    BY DEF Merged
  <2> HIDE DEF M, passes
  <2>4. IsFiniteSet((image \cup staged) \X passes)
    BY <2>1, <2>2, FS_Product
  <2> QED
    BY <2>3, <2>4, FS_Subset
<1>2. /\ \A e \in M : e[1] \in Names
      /\ \A d, e \in M : d[1] = e[1] => d = e
  BY DEF Merged
<1>3. {e[1] : e \in M} = image \cup staged
  <2>1. \A x \in staged : <<x, "overlay">> \in M
    BY DEF Merged
  <2>2. \A x \in image \ staged : <<x, "image">> \in M
    BY DEF Merged
  <2>3. \A e \in M : e[1] \in image \cup staged
    BY DEF Merged
  <2>4. \A x \in image \cup staged : \E e \in M : e[1] = x
    <3> SUFFICES ASSUME NEW x \in image \cup staged
                 PROVE  \E e \in M : e[1] = x
      OBVIOUS
    <3>1. <<x, "overlay">>[1] = x /\ <<x, "image">>[1] = x
      OBVIOUS
    <3> HIDE DEF M
    <3> QED
      BY <2>1, <2>2, <3>1
  <2> HIDE DEF M
  <2> QED
    BY <2>3, <2>4
<1> HIDE DEF M
<1>4. /\ Ascending(M) \in Seq(Names)
      /\ \A i, j \in 1..Len(Ascending(M)) : i < j => Ascending(M)[i] < Ascending(M)[j]
      /\ Range(Ascending(M)) = {e[1] : e \in M}
  BY <1>1, <1>2, SortListsEachNameOnce
<1> QED
  BY <1>3, <1>4 DEF M

------------------------------------------------------------------------------
(* What a page is.                                                         *)

(* A page is the stretch of the sorted list from behind the marker on, so  *)
(* many names of it as fit; if the marker's name is in the list, or there  *)
(* is a page at all, nothing that is skipped lies behind the marker.       *)
LEMMA PagesAreStretches ==
  ASSUME NEW all \in Seq(Names), \A i, j \in 1..Len(all) : i < j => all[i] < all[j],
         marker \in Names \cup {0}, NEW page \in Pages(Resumed(all))
  PROVE  \E a \in 0..Len(all), b \in 0..Len(all) :
           /\ a <= b
           /\ a = b \/ page = Resumed(all) => b = Len(all)
           /\ page \in Seq(Names) /\ Len(page) = b - a
           /\ \A i \in 1..(b - a) : page[i] = all[a + i]
           /\ \A i \in (a + 1)..Len(all) : marker < all[i]
           /\ a < b \/ marker = 0 \/ Contains(all, marker) => \A i \in 1..a : all[i] <= marker
<1> DEFINE n == Len(all)
           I == {i \in 1..n : all[i] = marker}
           at == SelectInSeq(all, LAMBDA x : x = marker)
           a == IF marker = 0 THEN 0 ELSE IF at = 0 THEN n ELSE at
<1>1. /\ n \in Nat /\ marker \in Nat /\ 0 \notin Names
      /\ \A i \in 1..n : all[i] \in Names /\ all[i] \in Nat
  <2> HIDE DEF at, I, a
  <2>1. n \in Nat /\ \A i \in 1..n : all[i] \in Names
    OBVIOUS
  <2>2. \A x \in Names : x \in Nat /\ x # 0
    BY NamesAreNumbers
  <2> HIDE DEF n
  <2> QED
    BY <2>1, <2>2
<1>2. at = IF I # {} THEN Min(I) ELSE 0
  BY DEF SelectInSeq
<1>3. I # {} => Min(I) \in I
  <2> HIDE DEF I
  <2>1. I \subseteq Nat
    BY <1>1 DEF I
  <2>2. I # {} => \E x \in I : \A y \in I : x <= y
    BY <2>1, LeastNumber
  <2> QED
    BY <2>2, Zenon DEF Min
<1>4. at = 0 \/ (at \in 1..n /\ all[at] = marker)
  BY <1>2, <1>3
<1>5. Contains(all, marker) => at # 0
  BY <1>1, <1>2, <1>3 DEF Contains
<1>6. at = 0 => a = 0 \/ \A i \in 1..n : all[i] # marker
  BY <1>1, <1>2, <1>3
<1> HIDE DEF at, I
<1>7. /\ a \in 0..n
      /\ \A i \in (a + 1)..n : marker < all[i]
      /\ a < n \/ marker = 0 \/ Contains(all, marker) => \A i \in 1..a : all[i] <= marker
  <2>1. CASE marker = 0
    BY <1>1, <2>1
  <2>2. CASE marker # 0 /\ at = 0
    BY <1>1, <1>5, <2>2
  <2>3. CASE marker # 0 /\ at # 0
    BY <1>1, <1>4, <2>3
  <2> QED
    BY <2>1, <2>2, <2>3
<1>8. Resumed(all) = SubSeq(all, a + 1, n)
  <2>1. CASE marker = 0
    BY <2>1, SubSeqFull DEF Resumed
  <2>2. CASE marker # 0 /\ at = 0
    <3>1. SubSeq(all, n + 1, n) = << >>
      BY <1>1, SubSeqEmpty
    <3> QED
      BY <2>2, <3>1 DEF Resumed, at
  <2>3. CASE marker # 0 /\ at # 0
    BY <2>3 DEF Resumed, at
  <2> QED
    BY <2>1, <2>2, <2>3
<1> HIDE DEF a
<1> DEFINE rest == SubSeq(all, a + 1, n)
<1>9. /\ rest \in Seq(Names) /\ Len(rest) = n - a
      /\ \A i \in 1..(n - a) : rest[i] = all[a + i]
  BY <1>1, <1>7, SubSeqProperties
<1> HIDE DEF rest
<1>10. PICK m \in Nat : /\ m <= n - a /\ (m = 0 => n - a = 0)
                        /\ page = SubSeq(rest, 1, m)
  <2>1. PICK size \in 1..PageSize :
          page = SubSeq(rest, 1, IF size < Len(rest) THEN size ELSE Len(rest))
    BY <1>8 DEF Pages, rest
  <2> DEFINE m == IF size < Len(rest) THEN size ELSE Len(rest)
  <2>2. m \in Nat /\ m <= n - a /\ (m = 0 => n - a = 0)
    BY <1>1, <1>7, <1>9, ListingAssumption
  <2> QED
    BY <2>1, <2>2
<1>11. page \in Seq(Names) /\ Len(page) = m /\ \A i \in 1..m : page[i] = rest[i]
  BY <1>1, <1>7, <1>9, <1>10, SubSeqProperties
<1>12. /\ a + m \in 0..n /\ a <= a + m /\ (a + m) - a = m
       /\ a = a + m \/ page = Resumed(all) => a + m = n
       /\ a < a + m => a < n
  <2>1. page = Resumed(all) => m = n - a
    BY <1>8, <1>9, <1>11 DEF rest
  <2> QED
    BY <1>1, <1>7, <1>10, <2>1
<1>13. \A i \in 1..m : page[i] = all[a + i]
  BY <1>1, <1>7, <1>9, <1>10, <1>11
<1> QED
  BY <1>7, <1>11, <1>12, <1>13

------------------------------------------------------------------------------
(* What the pages amount to.                                               *)

(* What has been listed ends at the marker.                                *)
ListedToTheMarker ==
  IF listed = << >> THEN marker = 0 ELSE marker = listed[Len(listed)]

(* In a call, a name that was there all along and that the image's         *)
(* directory has is kept, or is still to be looked up.                     *)
SteadyIsKept == call = "reading" => steady \cap Children \subseteq todo \cup found

PagesInv ==
  /\ TypeOK
  /\ IsFiniteSet(Covered(entries))
  /\ todo \subseteq Children /\ found \subseteq Children
  /\ steady \subseteq Present(entries)
  /\ SteadyIsKept
  /\ ListedToTheMarker
  /\ ListedOnceInOrder
  /\ NothingLeftOut

LEMMA PagesInit == Init => PagesInv
<1> SUFFICES ASSUME Init
             PROVE  PagesInv
  OBVIOUS
<1>1. TypeOK
  <2>1. Present(EmptyMap) \subseteq Names /\ << >> \in Seq(Names)
    BY EmptySeq DEF Present
  <2> QED
    BY <2>1, EmptyMapTyped DEF Init, TypeOK
<1>2. IsFiniteSet(Covered(entries))
  <2>1. Covered(EmptyMap) = {}
    BY DEF Covered, EmptyMap, Uncovered
  <2> QED
    BY <2>1, FS_EmptySet DEF Init
<1>3. NothingLeftOut
  BY NamesAreNumbers DEF Init, Present, NothingLeftOut
<1> QED
  BY <1>1, <1>2, <1>3
  DEF Init, PagesInv, SteadyIsKept, ListedToTheMarker, ListedOnceInOrder

(* A change of the overlay by another handle.                              *)
LEMMA InstallKeepsPages ==
  ASSUME PagesInv, NEW map \in Map, IsFiniteSet(Covered(map)), Install(map)
  PROVE  PagesInv'
<1>1. /\ entries' = map /\ steady' = steady \cap Present(map)
      /\ alive' = alive \cup Present(map)
      /\ inode' = inode /\ call' = call /\ todo' = todo /\ found' = found
      /\ marker' = marker /\ listed' = listed /\ lost' = lost /\ cut' = cut
  BY DEF Install, reader
<1>2. Present(entries)' = Present(map) /\ Children' = Children /\ Present(map) \subseteq Names
  BY <1>1 DEF Present, Children
<1>3. TypeOK'
  BY <1>1, <1>2 DEF PagesInv, TypeOK
<1>4. SteadyIsKept' /\ ListedToTheMarker' /\ ListedOnceInOrder' /\ NothingLeftOut'
  BY <1>1, <1>2 DEF PagesInv, SteadyIsKept, ListedToTheMarker, ListedOnceInOrder, NothingLeftOut
<1> QED
  BY <1>1, <1>2, <1>3, <1>4 DEF PagesInv

(* What is there all through the listing and is there when a call answers  *)
(* is merged: it is the image's and was kept, or the overlay has it.       *)
LEMMA SteadyIsMerged ==
  ASSUME PagesInv, call = "reading", todo = {}
  PROVE  steady \subseteq found \cup Staged(entries)
<1> SUFFICES ASSUME NEW x \in steady, x \notin Staged(entries)
             PROVE  x \in found
  OBVIOUS
<1>1. /\ entries \in Map /\ x \in Names
      /\ Shown(entries[At(x)], Underlay[At(x)]) # Absent
      /\ inode \/ entries[At(x)].kind # "None"
  BY DEF PagesInv, TypeOK, Present
<1>2. PICK k \in Keys : Child(k) /\ Name(k) = x
  BY <1>1 DEF Names
<1>3. At(x) = k
  BY <1>2, ChildrenHaveTheirNames
<1>4. entries[k].kind # "Deleted"
  BY <1>1, <1>3 DEF Shown
<1>5. entries[k].kind = "None"
  BY <1>2, <1>3, <1>4 DEF Staged, IterDir
<1>6. Underlay[At(x)] # Absent /\ inode
  BY <1>1, <1>3, <1>5 DEF Shown
<1>7. Underlay[At(x)].kind # "absent"
  BY <1>3, <1>6, UnderlayAssumption DEF Node, Absent
<1>8. x \in Children
  BY <1>1, <1>6, <1>7 DEF Children
<1> QED
  BY <1>8 DEF PagesInv, SteadyIsKept

(* A page.                                                                 *)
LEMMA AnswerKeepsPages ==
  ASSUME PagesInv, Answer
  PROVE  PagesInv'
<1> DEFINE all == Ascending(Merged(found, Staged(entries)))
<1>1. PICK page \in Pages(Resumed(all)), ended \in BOOLEAN :
        /\ page = << >> => ended
        /\ listed' = listed \o page
        /\ call' = IF ended THEN "over" ELSE "none"
        /\ marker' = IF page = << >> THEN marker ELSE page[Len(page)]
        /\ cut' = (ended /\ page # Resumed(all))
        /\ lost' = (lost \/ (marker # 0 /\ ~ Contains(all, marker)))
  BY DEF Answer
<1>2. /\ call = "reading" /\ todo = {} /\ todo' = {} /\ found' = {}
      /\ entries' = entries /\ inode' = inode /\ steady' = steady /\ alive' = alive
  BY DEF Answer
<1>3. /\ all \in Seq(Names)
      /\ \A i, j \in 1..Len(all) : i < j => all[i] < all[j]
      /\ Range(all) = found \cup Staged(entries)
  <2>1. IsFiniteSet(found) /\ found \subseteq Names
    BY ChildrenAreFinite, FS_Subset DEF PagesInv, TypeOK
  <2>2. IsFiniteSet(Staged(entries)) /\ Staged(entries) \subseteq Names
    BY StagedIsFinite DEF PagesInv
  <2> QED
    BY <2>1, <2>2, MergeListsEachNameOnce
<1>4. \A x \in steady : \E i \in 1..Len(all) : all[i] = x
  BY <1>2, <1>3, SteadyIsMerged DEF Range
<1> HIDE DEF all
<1>5. /\ marker \in Names \cup {0} /\ listed \in Seq(Names) /\ lost \in BOOLEAN
      /\ 0 \notin Names /\ Names \subseteq Nat /\ Len(listed) \in Nat /\ Len(all) \in Nat
  BY <1>3, NamesAreNumbers DEF PagesInv, TypeOK
<1>e. /\ \A i \in 1..Len(all) : all[i] \in Names /\ all[i] \in Nat
      /\ \A i \in 1..Len(listed) : listed[i] \in Names /\ listed[i] \in Nat
      /\ DOMAIN listed = 1..Len(listed) /\ marker \in Nat
  <2>1. \A i \in 1..Len(all) : all[i] \in Names
    BY <1>3, ElementOfSeq
  <2>2. DOMAIN listed = 1..Len(listed) /\ \A i \in 1..Len(listed) : listed[i] \in Names
    BY <1>5, ElementOfSeq, LenProperties
  <2>3. \A x \in Names \cup {0} : x \in Nat
    BY <1>5
  <2> QED
    BY <1>5, <2>1, <2>2, <2>3
<1>6. PICK a \in 0..Len(all), b \in 0..Len(all) :
        /\ a <= b
        /\ a = b \/ page = Resumed(all) => b = Len(all)
        /\ page \in Seq(Names) /\ Len(page) = b - a
        /\ \A i \in 1..(b - a) : page[i] = all[a + i]
        /\ \A i \in (a + 1)..Len(all) : marker < all[i]
        /\ a < b \/ marker = 0 \/ Contains(all, marker) => \A i \in 1..a : all[i] <= marker
  BY <1>3, <1>5, PagesAreStretches
<1>7. /\ listed' \in Seq(Names) /\ Len(listed') = Len(listed) + (b - a)
      /\ \A i \in 1..Len(listed) : listed'[i] = listed[i]
      /\ \A i \in 1..(b - a) : listed'[Len(listed) + i] = all[a + i]
      /\ DOMAIN listed' = 1..Len(listed')
  <2>1. /\ listed' \in Seq(Names) /\ Len(listed') = Len(listed) + Len(page)
        /\ \A i \in 1..(Len(listed) + Len(page)) :
             listed'[i] = IF i <= Len(listed) THEN listed[i] ELSE page[i - Len(listed)]
    <3>1. listed \in Seq(Names) /\ page \in Seq(Names) /\ listed' = listed \o page
      BY <1>1, <1>5, <1>6
    <3> QED
      BY <3>1, ConcatProperties
  <2>2. DOMAIN listed' = 1..Len(listed')
    BY <2>1, LenProperties
  <2>3. \A i \in 1..Len(listed) : i \in 1..(Len(listed) + Len(page)) /\ i <= Len(listed)
    BY <1>5, <1>6
  <2>4. ASSUME NEW i \in 1..(b - a)
        PROVE  listed'[Len(listed) + i] = all[a + i]
    <3>1. /\ Len(listed) + i \in 1..(Len(listed) + Len(page))
          /\ ~ (Len(listed) + i <= Len(listed)) /\ (Len(listed) + i) - Len(listed) = i
      BY <1>5, <1>6, <2>4
    <3> QED
      BY <1>6, <2>1, <2>4, <3>1
  <2> QED
    BY <1>6, <2>1, <2>2, <2>3, <2>4
<1>f. /\ a \in Nat /\ b \in Nat /\ a <= b /\ b <= Len(all)
      /\ Len(listed') = Len(listed) + (b - a)
  BY <1>5, <1>6, <1>7
<1>8. /\ a = b => marker' = marker
      /\ a < b => marker' = all[b]
      /\ call' = "over" /\ ~ cut' => b = Len(all)
  <2>1. page = << >> <=> Len(page) = 0
    BY <1>6, EmptySeq
  <2>2. a < b => b - a \in 1..(b - a) /\ a + (b - a) = b
    BY <1>6
  <2> QED
    BY <1>1, <1>6, <2>1, <2>2
<1>9. \A i \in 1..Len(listed) : listed[i] <= marker
  <2>1. ASSUME NEW i \in 1..Len(listed)
        PROVE  listed[i] <= marker
    <3>1. Len(listed) \in 1..Len(listed) /\ listed # << >>
      BY <1>5, <2>1, EmptySeq
    <3>2. marker = listed[Len(listed)]
      BY <3>1 DEF PagesInv, ListedToTheMarker
    <3>3. i < Len(listed) => listed[i] < listed[Len(listed)]
      BY <2>1, <3>1 DEF PagesInv, ListedOnceInOrder
    <3> QED
      BY <1>5, <1>e, <2>1, <3>2, <3>3
  <2> QED
    BY <2>1
<1>10. ListedToTheMarker'
  <2>1. CASE a = b
    <3>1. listed' = listed /\ marker' = marker
      <4>1. page = << >>
        BY <1>6, <2>1, EmptySeq
      <4> QED
        BY <1>1, <1>5, <4>1, ConcatEmptySeq
    <3> QED
      BY <3>1 DEF PagesInv, ListedToTheMarker
  <2>2. CASE a < b
    <3>1. b - a \in 1..(b - a) /\ a + (b - a) = b /\ Len(listed') # 0
      BY <1>5, <1>6, <1>7, <2>2
    <3>2. listed'[Len(listed')] = all[b] /\ marker' = all[b] /\ listed' # << >>
      BY <1>7, <1>8, <2>2, <3>1, EmptySeq
    <3> QED
      BY <3>2 DEF ListedToTheMarker
  <2> QED
    BY <1>6, <2>1, <2>2
<1>11. ListedOnceInOrder'
  <2> SUFFICES ASSUME NEW i \in 1..Len(listed'), NEW j \in 1..Len(listed'), i < j
               PROVE  listed'[i] < listed'[j]
    BY DEF ListedOnceInOrder
  <2>1. CASE j <= Len(listed)
    <3>1. i \in 1..Len(listed) /\ j \in 1..Len(listed)
      BY <1>5, <2>1
    <3> QED
      BY <1>7, <3>1 DEF PagesInv, ListedOnceInOrder
  <2>2. CASE i <= Len(listed) /\ j > Len(listed)
    <3>1. /\ j - Len(listed) \in 1..(b - a) /\ a + (j - Len(listed)) \in (a + 1)..Len(all)
          /\ Len(listed) + (j - Len(listed)) = j
      BY <1>5, <1>f, <2>2
    <3>2. listed'[j] = all[a + (j - Len(listed))] /\ listed'[j] \in Nat
      <4>1. a + (j - Len(listed)) \in 1..Len(all)
        BY <1>5, <1>6, <3>1
      <4> QED
        BY <1>e, <1>7, <3>1, <4>1
    <3>3. marker < listed'[j]
      BY <1>6, <3>1, <3>2
    <3>4. i \in 1..Len(listed) /\ listed'[i] = listed[i] /\ listed[i] <= marker /\ listed[i] \in Nat
      BY <1>5, <1>e, <1>7, <1>9, <2>2
    <3> QED
      BY <1>e, <3>2, <3>3, <3>4
  <2>3. CASE i > Len(listed) /\ j > Len(listed)
    <3>1. /\ j - Len(listed) \in 1..(b - a) /\ i - Len(listed) \in 1..(b - a)
          /\ Len(listed) + (j - Len(listed)) = j /\ Len(listed) + (i - Len(listed)) = i
          /\ a + (i - Len(listed)) \in 1..Len(all) /\ a + (j - Len(listed)) \in 1..Len(all)
          /\ a + (i - Len(listed)) < a + (j - Len(listed))
      BY <1>5, <1>f, <2>3
    <3> QED
      BY <1>3, <1>7, <3>1
  <2> QED
    BY <1>5, <2>1, <2>2, <2>3
<1>12. \A x \in Range(listed) : x \in Range(listed')
  <2>1. \A i \in 1..Len(listed) : i \in 1..Len(listed')
    BY <1>5, <1>6, <1>7
  <2> QED
    BY <1>e, <1>7, <2>1 DEF Range
<1>13. ASSUME NEW x \in steady
       PROVE  /\ x <= marker' => x \in Range(listed')
              /\ ~ lost' /\ b = Len(all) => x \in Range(listed')
  <2>1. PICK i \in 1..Len(all) : all[i] = x
    BY <1>4
  <2>2. x \in Nat
    BY <1>e, <2>1
  <2>3. x <= marker => x \in Range(listed')
    BY <1>12 DEF PagesInv, NothingLeftOut
  <2>4. CASE i <= a
    <3>1. i \in 1..a
      BY <1>6, <2>1, <2>4
    <3>2. ~ lost' => marker = 0 \/ Contains(all, marker)
      BY <1>1
    <3>3. a < b \/ ~ lost' => x <= marker
      BY <1>6, <2>1, <3>1, <3>2
    <3>4. a < b \/ marker' = marker
      BY <1>6, <1>8
    <3> QED
      BY <2>3, <3>3, <3>4
  <2>5. CASE a < i /\ i <= b
    <3>1. i - a \in 1..(b - a) /\ a + (i - a) = i /\ Len(listed) + (i - a) \in 1..Len(listed')
      BY <1>5, <1>6, <1>7, <2>5
    <3>2. listed'[Len(listed) + (i - a)] = x
      BY <1>7, <2>1, <3>1
    <3> QED
      BY <1>7, <3>1, <3>2 DEF Range
  <2>6. CASE b < i
    <3>0. a < b /\ b \in 1..Len(all) /\ b < i
      BY <1>6, <2>1, <2>6
    <3>1. marker' = all[b] /\ all[b] < all[i] /\ all[b] \in Nat
      BY <1>3, <1>e, <1>8, <2>1, <3>0
    <3> QED
      BY <2>1, <2>2, <3>0, <3>1
  <2> QED
    BY <1>6, <2>1, <2>4, <2>5, <2>6
<1>14. NothingLeftOut'
  BY <1>2, <1>8, <1>13 DEF NothingLeftOut
<1>15. TypeOK'
  <2>1. /\ marker' \in Names \cup {0} /\ call' \in {"none", "over"}
        /\ lost' \in BOOLEAN /\ cut' \in BOOLEAN
    BY <1>1, <1>5, <1>e, <1>6, <1>8
  <2> QED
    BY <1>2, <1>7, <2>1 DEF PagesInv, TypeOK
<1>16. Present(entries)' = Present(entries) /\ call' # "reading"
  BY <1>1, <1>2 DEF Present
<1> QED
  BY <1>2, <1>10, <1>11, <1>14, <1>15, <1>16 DEF PagesInv, SteadyIsKept

(* Every other step of the listing.                                        *)
LEMMA CallKeepsPages ==
  ASSUME PagesInv,
         ReadDirectory \/ (\E x \in Names : LookUpChild(x)) \/ Fail \/ Restart
  PROVE  PagesInv'
<1>1. entries' = entries /\ inode' = inode
  BY DEF ReadDirectory, LookUpChild, Fail, Restart, history
<1>2. Present(entries)' = Present(entries) /\ Children' = Children
  BY <1>1 DEF Present, Children
<1>3. Present(entries) \subseteq Names /\ Children \subseteq Names
  BY DEF Present, Children
<1>4. CASE ReadDirectory
  <2>1. /\ call = "none" /\ call' = "reading" /\ todo' = Children /\ found' = {}
        /\ alive' = Present(entries) /\ marker' = marker /\ listed' = listed
        /\ steady' = steady /\ lost' = lost /\ cut' = cut
    BY <1>4 DEF ReadDirectory
  <2>2. TypeOK'
    BY <1>1, <1>3, <2>1 DEF PagesInv, TypeOK
  <2> QED
    BY <1>1, <1>2, <2>1, <2>2 DEF PagesInv, SteadyIsKept, ListedToTheMarker, ListedOnceInOrder,
                                  NothingLeftOut
<1>5. ASSUME NEW x \in Names, LookUpChild(x)
      PROVE  PagesInv'
  <2>1. /\ call = "reading" /\ call' = call /\ x \in todo /\ todo' = todo \ {x}
        /\ found' = IF Lookup(entries, At(x)) = "Deleted" THEN found ELSE found \cup {x}
        /\ alive' = alive /\ marker' = marker /\ listed' = listed
        /\ steady' = steady /\ lost' = lost /\ cut' = cut
    BY <1>5 DEF LookUpChild, history
  <2>2. Lookup(entries, At(x)) = "Deleted" => x \notin steady
    BY DEF PagesInv, Lookup, Present, Shown
  <2>3. SteadyIsKept'
    BY <1>2, <2>1, <2>2 DEF PagesInv, SteadyIsKept
  <2>4. TypeOK' /\ todo' \subseteq Children /\ found' \subseteq Children
    BY <1>1, <2>1 DEF PagesInv, TypeOK
  <2> QED
    BY <1>1, <1>2, <2>1, <2>3, <2>4 DEF PagesInv, ListedToTheMarker, ListedOnceInOrder,
                                        NothingLeftOut
<1>6. CASE Fail
  <2>1. /\ call' = "failed" /\ todo' = {} /\ found' = {}
        /\ alive' = alive /\ marker' = marker /\ listed' = listed
        /\ steady' = steady /\ lost' = lost /\ cut' = cut
    BY <1>6 DEF Fail, history
  <2>2. TypeOK'
    BY <1>1, <2>1 DEF PagesInv, TypeOK
  <2> QED
    BY <1>1, <1>2, <2>1, <2>2 DEF PagesInv, SteadyIsKept, ListedToTheMarker, ListedOnceInOrder,
                                  NothingLeftOut
<1>7. CASE Restart
  <2>1. /\ call' = "none" /\ todo' = todo /\ found' = found
        /\ alive' = {} /\ marker' = 0 /\ listed' = << >>
        /\ steady' = Present(entries) /\ lost' = FALSE /\ cut' = FALSE
    BY <1>7 DEF Restart
  <2>2. TypeOK'
    <3>1. listed' \in Seq(Names)
      BY <2>1, EmptySeq
    <3> QED
      BY <1>1, <1>3, <2>1, <3>1 DEF PagesInv, TypeOK
  <2>3. NothingLeftOut'
    <3>1. \A x \in Names : ~ (x <= 0)
      BY NamesAreNumbers
    <3> QED
      BY <1>3, <2>1, <3>1 DEF NothingLeftOut
  <2>4. ListedOnceInOrder' /\ ListedToTheMarker' /\ SteadyIsKept'
    <3>1. Len(<< >>) = 0
      OBVIOUS
    <3> QED
      BY <2>1, <3>1 DEF ListedOnceInOrder, ListedToTheMarker, SteadyIsKept
  <2> QED
    BY <1>1, <1>2, <2>1, <2>2, <2>3, <2>4 DEF PagesInv
<1> QED
  BY <1>4, <1>5, <1>6, <1>7

LEMMA PagesStep == PagesInv /\ [Next]_vars => PagesInv'
<1> SUFFICES ASSUME PagesInv, [Next]_vars
             PROVE  PagesInv'
  OBVIOUS
<1>1. entries \in Map /\ IsFiniteSet(Covered(entries))
  BY DEF PagesInv, TypeOK
<1>2. ASSUME NEW k \in Keys, NEW l \in Keys, Write(k) \/ Delete(k) \/ Create(k) \/ Rename(k, l)
      PROVE  PagesInv'
  <2>1. CASE Write(k)
    BY <1>1, <2>1, MethodsMakeMaps, MethodsCoverOneMore, InstallKeepsPages, EmptyAssumption
    DEF Write
  <2>2. CASE Delete(k)
    BY <1>1, <2>2, MethodsMakeMaps, MethodsCoverOneMore, InstallKeepsPages, EmptyAssumption
    DEF Delete
  <2>3. CASE Create(k)
    BY <1>1, <2>3, MethodsMakeMaps, MethodsCoverOneMore, InstallKeepsPages, EmptyAssumption
    DEF Create
  <2>4. CASE Rename(k, l)
    <3> DEFINE node == Shown(entries[k], Underlay[k])
               created == IF node = Directory THEN WithCreatedDir(entries, l)
                                              ELSE WithCreatedFile(entries, l, node.content)
    <3>1. node.content \in Contents
      BY <1>1, EmptyAssumption, UnderlayAssumption
      DEF Shown, Map, Entry, Node, Absent, Directory, File
    <3>2. created \in Map /\ IsFiniteSet(Covered(created))
      BY <1>1, <3>1, MethodsMakeMaps, MethodsCoverOneMore
    <3>3. Install(WithDeleted(created, k))
      BY <2>4 DEF Rename
    <3> HIDE DEF created
    <3>4. WithDeleted(created, k) \in Map /\ IsFiniteSet(Covered(WithDeleted(created, k)))
      BY <3>2, MethodsMakeMaps, MethodsCoverOneMore, EmptyAssumption
    <3> QED
      BY <3>3, <3>4, InstallKeepsPages
  <2> QED
    BY <1>2, <2>1, <2>2, <2>3, <2>4
<1>3. CASE UNCHANGED vars
  <2>1. Present(entries)' = Present(entries) /\ Children' = Children
    BY <1>3 DEF vars, reader, Present, Children
  <2> QED
    BY <1>3, <2>1 DEF vars, reader, history, PagesInv, TypeOK, Covered, SteadyIsKept,
                      ListedToTheMarker, ListedOnceInOrder, NothingLeftOut
<1> QED
  BY <1>2, <1>3, CallKeepsPages, AnswerKeepsPages, ListingAssumption DEF Next

LEMMA PagesStayComplete == Spec => []PagesInv
BY PagesInit, PagesStep, PTL DEF Spec

(* The listing's state stays well-formed: every page holds names of the    *)
(* directory, and the marker is one of them.                               *)
THEOREM ListingTyping == Spec => []TypeOK
<1>1. PagesInv => TypeOK
  BY DEF PagesInv
<1> QED
  BY <1>1, PagesStayComplete, PTL

(* No name is listed twice or out of order, whatever other handles do      *)
(* during and between the calls.                                           *)
THEOREM ListingIsInOrder == Spec => []ListedOnceInOrder
<1>1. PagesInv => ListedOnceInOrder
  BY DEF PagesInv
<1> QED
  BY <1>1, PagesStayComplete, PTL

(* Up to the marker, a listing has every name that is there all through    *)
(* the calls made so far, and when it ends it has every name that is there *)
(* all through, unless a call resumed after a name that had gone or the    *)
(* end was announced after a page that more was to follow.                 *)
THEOREM ListingIsComplete == Spec => []NothingLeftOut
<1>1. PagesInv => NothingLeftOut
  BY DEF PagesInv
<1> QED
  BY <1>1, PagesStayComplete, PTL

==============================================================================
