---------------------------- MODULE AdapterProofs ----------------------------
(***************************************************************************)
(* Theorems about Adapter, for every set of handles and keys, any number   *)
(* of writes, every image, writable or not.                                *)
(***************************************************************************)
EXTENDS Adapter, OverlayMapProofs

(* The handles inside a callback that changes names.                       *)
Naming == {h \in Handles : call[h].step \in Creating \cup Renaming}

(* The inductive invariant: besides types, what FineGuard, create's first  *)
(* lookup and ensure_writable leave behind for the steps that follow them. *)
OneNamesAtATime == \A g, h \in Naming : g = h

CreatorFoundNoCreation ==
  \A h \in Handles :
     call[h].step \in {"create_check", "create_insert"} =>
        entries[call[h].at].kind \notin {"Created", "CreatedDir"}

ReadOnlyOnlyReads ==
  readOnly => /\ entries = EmptyMap
              /\ \A h \in Handles : call[h].step \in {"idle", "read_recheck"}

------------------------------------------------------------------------------
(* Types.                                                                  *)

(* The constants the records are built from have the types they need.      *)
LEMMA ConstantsTyped ==
  /\ AnyKey \in Keys
  /\ Absent \in Node /\ Directory \in Node
  /\ \A c \in Contents : File(c) \in Node
  /\ Closed \in Context
  /\ Idle \in Call
  /\ \A k \in Keys : Underlay[k] \in Node
<1>1. AnyKey \in Keys
  BY AdapterAssumption DEF AnyKey
<1> QED
  BY <1>1, EmptyAssumption, UnderlayAssumption
  DEF Absent, Directory, File, Node, NodeKinds, Closed, Context, Idle, Call, Step

(* What an overlay method that names one key can make of the map.          *)
Updates(map, k, c) ==
  {WithWrittenFile(map, k, c), WithCreatedFile(map, k, c),
   WithCreatedDir(map, k), WithDeleted(map, k)}

(* What a method makes of a well-formed map is well formed, differs from   *)
(* it at one key, and no key it covered goes back to being uncovered.      *)
LEMMA MapUpdates ==
  ASSUME NEW map \in Map, NEW k \in Keys, NEW c \in Contents,
         NEW new \in Updates(map, k, c)
  PROVE  /\ new \in Map
         /\ new[k].kind # "None"
         /\ \A l \in Keys \ {k} : new[l] = map[l]
<1> USE EmptyAssumption DEF Map, Entry, EntryKinds, Created, Modified, CreatedDir, Tombstone
<1>1. CASE new = WithWrittenFile(map, k, c)
  BY <1>1 DEF WithWrittenFile
<1>2. CASE new = WithCreatedFile(map, k, c)
  BY <1>2 DEF WithCreatedFile
<1>3. CASE new = WithCreatedDir(map, k)
  BY <1>3 DEF WithCreatedDir
<1>4. CASE new = WithDeleted(map, k)
  BY <1>4 DEF WithDeleted
<1> QED
  BY <1>1, <1>2, <1>3, <1>4 DEF Updates

(* A path shows a node.                                                    *)
LEMMA ShownIsANode ==
  ASSUME NEW map \in Map, NEW k \in Keys
  PROVE  /\ ShownAt(map, k) \in Node
         /\ ShownAt(map, k).content \subseteq Token
<1>1. ShownAt(map, k) \in Node
  BY ConstantsTyped DEF ShownAt, Shown, Map, Entry
<1>2. \A x \in Node : x.content \subseteq Token
  BY AdapterAssumption DEF Node
<1> QED
  BY <1>1, <1>2

(* Installing a well-formed map keeps the map and the history well formed. *)
LEMMA InstallTyped ==
  ASSUME TypeOK, NEW h, NEW k \in Keys, NEW map \in Map,
         NEW asked \in SUBSET Token, NEW unasked \in SUBSET Token,
         Install(h, k, map, asked, unasked)
  PROVE  /\ entries' \in Map
         /\ forgone' \subseteq Token /\ swept' \subseteq Token
         /\ raced' \subseteq Handles
         /\ excused' \subseteq Handles
         /\ seen' \in [Handles -> SUBSET Node]
<1>1. entries' = map /\ forgone' = forgone \cup asked /\ swept' = swept \cup unasked
  BY DEF Install
<1>2. raced' \subseteq Handles /\ excused' \subseteq Handles
  BY DEF Install, TypeOK
<1>3. \A g \in Handles : seen[g] \cup {ShownAt(map, k)} \subseteq Node
  BY ShownIsANode DEF TypeOK
<1>4. seen' \in [Handles -> SUBSET Node]
  BY <1>3 DEF Install, TypeOK
<1> QED
  BY <1>1, <1>2, <1>4 DEF TypeOK

(* Each callback's steps keep all of the state well formed.                *)
LEMMA NextTyped == TypeOK /\ [Next]_vars => TypeOK'
<1> SUFFICES ASSUME TypeOK, [Next]_vars
             PROVE  TypeOK'
  OBVIOUS
<1>m. readOnly' \in BOOLEAN /\ readOnly' = readOnly
  BY DEF Next, vars, TypeOK
<1> USE ConstantsTyped, <1>m
<1>0. /\ entries \in Map
      /\ \A k \in Keys : entries[k].content \in Contents
      /\ Empty \in Contents /\ {} \in Contents
  BY EmptyAssumption, AdapterAssumption DEF TypeOK, Map, Entry
<1>1. ASSUME NEW h \in Handles, NEW k \in Keys, Open(h, k)
      PROVE  TypeOK'
  <2>1. \A inode, isDir \in BOOLEAN : Opened(k, inode, isDir) \in Context
    BY DEF Opened, Context
  <2>2. file' \in [Handles -> Context]
    BY <1>1, <2>1 DEF Open, TypeOK
  <2>3. \A g \in Handles : file'[g] = file[g] \/ ~ file'[g].pending
    BY <1>1 DEF Open, Opened, TypeOK
  <2> QED
    BY <1>1, <2>2, <2>3 DEF Open, TypeOK, history
<1>2. ASSUME NEW h \in Handles, NEW delete \in BOOLEAN, SetDelete(h, delete)
      PROVE  TypeOK'
  <2>1. file' \in [Handles -> Context]
    BY <1>2 DEF TypeOK, SetDelete, Context
  <2>2. /\ file[h].status = "open" /\ ~ readOnly
        /\ file'[h].status = file[h].status
        /\ \A g \in Handles \ {h} : file'[g] = file[g]
    BY <1>2 DEF TypeOK, SetDelete, Context, Ready
  <2> QED
    BY <1>2, <2>1, <2>2 DEF TypeOK, SetDelete, history
<1>3. ASSUME NEW h \in Handles, Cleanup(h)
      PROVE  TypeOK'
  <2> DEFINE k == file[h].path
  <2>1. k \in Keys
    BY DEF TypeOK, Context
  <2>2. file' \in [Handles -> Context] /\ UNCHANGED <<call, writes>>
    BY <1>3 DEF Cleanup, TypeOK, Context
  <2>3. \A g \in Handles : file'[g] = file[g] \/ ~ file'[g].pending
    BY <1>3 DEF Cleanup, Closed, TypeOK
  <2>4. CASE NothingInstalled
    BY <2>2, <2>3, <2>4 DEF NothingInstalled, TypeOK
  <2>5. CASE Install(h, k, WithDeleted(entries, k), ShownAt(entries, k).content, {})
    <3>1. WithDeleted(entries, k) \in Map
      BY <1>0, <2>1, EmptyAssumption, MapUpdates DEF Updates
    <3>2. ShownAt(entries, k).content \in SUBSET Token /\ {} \in SUBSET Token
      BY <1>0, <2>1, ShownIsANode
    <3> HIDE DEF k
    <3>3. /\ entries' \in Map /\ forgone' \subseteq Token /\ swept' \subseteq Token
          /\ raced' \subseteq Handles /\ excused' \subseteq Handles
          /\ seen' \in [Handles -> SUBSET Node]
      BY <2>1, <2>2, <2>5, <3>1, <3>2, InstallTyped DEF TypeOK
    <3> QED
      BY <2>2, <2>3, <3>3 DEF TypeOK
  <2> QED
    BY <1>3, <2>4, <2>5 DEF Cleanup
<1>4. ASSUME NEW h \in Handles, Close(h)
      PROVE  TypeOK'
  <2>1. file' \in [Handles -> Context]
    BY <1>4 DEF TypeOK, Close
  <2>2. \A g \in Handles : file'[g] = file[g] \/ ~ file'[g].pending
    BY <1>4 DEF Close, Closed, TypeOK
  <2> QED
    BY <1>4, <2>1, <2>2 DEF TypeOK, Close, history
<1>5. ASSUME NEW h \in Handles, Read(h)
      PROVE  TypeOK'
  <2>1. file[h].path \in Keys
    BY DEF TypeOK, Context
  <2>2. call' \in [Handles -> Call]
    BY <1>5, <2>1 DEF Read, Proceed, Call, Step, TypeOK
  <2>3. seen' \in [Handles -> SUBSET Node]
    BY <1>0, <1>5, <2>1, ShownIsANode DEF Read, TypeOK
  <2> QED
    BY <1>5, <2>2, <2>3 DEF Read, TypeOK
<1>6. ASSUME NEW h \in Handles, ReadRecheck(h)
      PROVE  TypeOK'
  BY <1>6 DEF TypeOK, ReadRecheck, Return, Proceed
<1>7. ASSUME NEW h \in Handles, NEW step \in Patching, ReadFull(h, step)
      PROVE  TypeOK'
  <2>1. file[h].path \in Keys
    BY DEF TypeOK, Context
  <2>2. \A k \in Keys : \A c \in FullContent(k) : c \in Contents
    BY <1>0 DEF FullContent, Lookup, Node
  <2>3. PICK c \in Contents :
           Proceed(h, [Idle EXCEPT !.step = step, !.at = file[h].path, !.got = File(c)])
    BY <1>7, <2>1, <2>2 DEF ReadFull
  <2>4. call' \in [Handles -> Call]
    BY <2>1, <2>3 DEF Proceed, Call, Step, TypeOK
  <2> QED
    BY <1>7, <2>4 DEF ReadFull, TypeOK, history
<1>8. ASSUME NEW h \in Handles, WriteInsert(h)
      PROVE  TypeOK'
  <2> DEFINE k == file[h].path
             c == call[h].got.content \cup {writes + 1}
  <2>1. k \in Keys
    BY DEF TypeOK, Context
  <2>2. writes + 1 \in 1..MaxWrites /\ writes' \in 0..MaxWrites
    BY <1>8, AdapterAssumption DEF WriteInsert, TypeOK
  <2>3. c \in Contents
    BY <2>2, AdapterAssumption DEF TypeOK, Call, Node, Token
  <2>4. DroppedByRace(h, k) \subseteq Token
    BY <1>0, <2>1, ShownIsANode DEF DroppedByRace, NotHeld
  <2>5. file' = file /\ call' \in [Handles -> Call]
    BY <1>8 DEF WriteInsert, Return, Proceed, TypeOK
  <2>6. Install(h, k, WithWrittenFile(entries, k, c), {}, DroppedByRace(h, k))
    BY <1>8 DEF WriteInsert
  <2> QED
    BY <1>0, <2>1, <2>2, <2>3, <2>4, <2>5, <2>6, MapUpdates, InstallTyped DEF Updates, TypeOK
<1>9. ASSUME NEW h \in Handles, SetFileSizeInsert(h)
      PROVE  TypeOK'
  <2> DEFINE k == file[h].path
             old == call[h].got.content
  <2>1. k \in Keys /\ old \in Contents /\ old \subseteq Token
    BY AdapterAssumption DEF TypeOK, Context, Call, Node
  <2>2. file' = file /\ writes' = writes /\ call' \in [Handles -> Call]
    BY <1>9 DEF SetFileSizeInsert, Return, Proceed, TypeOK
  <2>3. PICK c \in SUBSET old :
           Install(h, k, WithWrittenFile(entries, k, c), old \ c, DroppedByRace(h, k))
    BY <1>9 DEF SetFileSizeInsert
  <2>4. c \in Contents /\ old \ c \subseteq Token /\ DroppedByRace(h, k) \subseteq Token
    BY <1>0, <2>1, AdapterAssumption, ShownIsANode DEF DroppedByRace, NotHeld
  <2> QED
    BY <1>0, <2>1, <2>2, <2>3, <2>4, MapUpdates, InstallTyped DEF Updates, TypeOK
<1>10. ASSUME NEW h \in Handles, Overwrite(h)
       PROVE  TypeOK'
  <2> DEFINE k == file[h].path
  <2>1. k \in Keys
    BY DEF TypeOK, Context
  <2>2. Install(h, k, WithWrittenFile(entries, k, {}), ShownAt(entries, k).content, {})
    BY <1>10 DEF Overwrite
  <2> QED
    <3>1. WithWrittenFile(entries, k, {}) \in Map
      BY <1>0, <2>1, MapUpdates, AdapterAssumption DEF Updates
    <3>2. ShownAt(entries, k).content \in SUBSET Token /\ {} \in SUBSET Token
      BY <1>0, <2>1, ShownIsANode
    <3>3. UNCHANGED <<file, call, writes>>
      BY <1>10 DEF Overwrite
    <3> HIDE DEF k
    <3> QED
      BY <2>1, <2>2, <3>1, <3>2, <3>3, InstallTyped DEF TypeOK
<1>11. ASSUME NEW h \in Handles, NEW k \in Keys, Create(h, k)
       PROVE  TypeOK'
  BY <1>11 DEF Create, Proceed, Call, Step, Creating, TypeOK, history
<1>12. ASSUME NEW h \in Handles, CreateCheck(h)
       PROVE  TypeOK'
  <2>1. [call[h] EXCEPT !.step = "create_insert"] \in Call
    BY DEF Call, Step, Creating, TypeOK
  <2>2. call' \in [Handles -> Call]
    BY <1>12, <2>1 DEF CreateCheck, Return, Proceed, TypeOK
  <2>3. excused' \subseteq Handles
    BY <1>12 DEF CreateCheck, Excuse, TypeOK
  <2> QED
    BY <1>12, <2>2, <2>3 DEF CreateCheck, TypeOK
<1>13. ASSUME NEW h \in Handles, CreateInsert(h)
       PROVE  TypeOK'
  <2> DEFINE k == call[h].at
             lost == Forfeited(h, k)
  <2>1. k \in Keys
    BY DEF TypeOK, Call
  <2>2. file' = file /\ writes' = writes /\ call' \in [Handles -> Call]
    <3>1. \A node \in Node :
             [call[h] EXCEPT !.step = "create_reread", !.got = node] \in Call
      BY DEF Call, Step, Creating, TypeOK
    <3>2. PICK node \in {File({}), Directory} :
             Proceed(h, [call[h] EXCEPT !.step = "create_reread", !.got = node])
      BY <1>13 DEF CreateInsert
    <3>3. node \in Node
      BY <1>0, <3>2
    <3> QED
      BY <1>13, <3>1, <3>2, <3>3 DEF CreateInsert, Proceed, TypeOK
  <2>3. PICK map \in {WithCreatedFile(entries, k, {}), WithCreatedDir(entries, k)} :
           Install(h, k, map, {}, lost)
    BY <1>13 DEF CreateInsert
  <2>4. map \in Map
    <3>1. WithCreatedFile(entries, k, {}) \in Map /\ WithCreatedDir(entries, k) \in Map
      BY <1>0, <2>1, MapUpdates DEF Updates
    <3> QED
      BY <3>1
  <2>5. lost \in SUBSET Token /\ {} \in SUBSET Token
    BY <1>0, <2>1, ShownIsANode DEF Forfeited, NotHeld
  <2> HIDE DEF k, lost
  <2>6. /\ entries' \in Map
        /\ forgone' \subseteq Token /\ swept' \subseteq Token
        /\ raced' \subseteq Handles
        /\ excused' \subseteq Handles
        /\ seen' \in [Handles -> SUBSET Node]
    BY <2>1, <2>3, <2>4, <2>5, InstallTyped
  <2> QED
    BY <2>2, <2>6 DEF TypeOK
<1>14. ASSUME NEW h \in Handles, CreateReread(h)
       PROVE  TypeOK'
  <2>1. file' \in [Handles -> Context] /\ call' \in [Handles -> Call]
    BY <1>14 DEF CreateReread, Return, Proceed, Opened, Context, Call, TypeOK
  <2>2. \A g \in Handles : file'[g] = file[g] \/ ~ file'[g].pending
    BY <1>14 DEF CreateReread, Opened, TypeOK
  <2> QED
    BY <1>14, <2>1, <2>2 DEF CreateReread, TypeOK, history
<1>15. ASSUME NEW h \in Handles, NEW to \in Keys, Rename(h, to)
       PROVE  TypeOK'
  <2>1. file[h].name \in Keys
    BY DEF TypeOK, Context
  <2>2. \A k \in Keys : \A node \in Source(k) : node \in Node
    BY <1>0, ShownIsANode DEF Source, Lookup
  <2>3. PICK node \in Node :
           Proceed(h, [Idle EXCEPT !.step = "rename_check", !.at = file[h].name, !.to = to,
                                   !.got = node])
    BY <1>15, <2>1, <2>2 DEF Rename
  <2>4. call' \in [Handles -> Call]
    BY <2>1, <2>3 DEF Proceed, Call, Step, Renaming, TypeOK
  <2> QED
    BY <1>15, <2>4 DEF Rename, TypeOK, history
<1>16. ASSUME NEW h \in Handles, RenameCheck(h)
       PROVE  TypeOK'
  <2>1. \A replace \in BOOLEAN :
           [call[h] EXCEPT !.step = "rename_insert", !.replace = replace] \in Call
    BY DEF Call, Step, Renaming, TypeOK
  <2>2. call' \in [Handles -> Call]
    BY <1>16, <2>1 DEF RenameCheck, Return, Proceed, TypeOK
  <2>3. excused' \subseteq Handles
    BY <1>16 DEF RenameCheck, Excuse, TypeOK
  <2> QED
    BY <1>16, <2>2, <2>3 DEF RenameCheck, TypeOK
<1>17. ASSUME NEW h \in Handles, RenameInsert(h)
       PROVE  TypeOK'
  <2> DEFINE t == call[h].to
             c == call[h].got.content
             map == IF call[h].got.kind = "dir" THEN WithCreatedDir(entries, t)
                                                ELSE WithCreatedFile(entries, t, c)
  <2>1. t \in Keys /\ c \in Contents
    BY DEF TypeOK, Call, Node
  <2>2. file' = file /\ writes' = writes /\ call' \in [Handles -> Call]
    BY <1>17 DEF RenameInsert, Proceed, Call, Step, Renaming, TypeOK
  <2>3. Install(h, t, map, NotHeld(h, t), {}) \/ Install(h, t, map, {}, Forfeited(h, t))
    BY <1>17 DEF RenameInsert
  <2>4. map \in Map
    BY <1>0, <2>1, MapUpdates DEF Updates
  <2>5. /\ NotHeld(h, t) \in SUBSET Token /\ Forfeited(h, t) \in SUBSET Token
        /\ {} \in SUBSET Token
    BY <1>0, <2>1, ShownIsANode DEF Forfeited, NotHeld
  <2> HIDE DEF map, t
  <2>6. /\ entries' \in Map /\ forgone' \subseteq Token /\ swept' \subseteq Token
        /\ raced' \subseteq Handles /\ excused' \subseteq Handles
        /\ seen' \in [Handles -> SUBSET Node]
    <3>1. CASE Install(h, t, map, NotHeld(h, t), {})
      BY <2>1, <2>2, <3>1, <2>4, <2>5, InstallTyped
    <3>2. CASE Install(h, t, map, {}, Forfeited(h, t))
      BY <2>1, <2>2, <3>2, <2>4, <2>5, InstallTyped
    <3> QED
      BY <2>3, <3>1, <3>2
  <2> QED
    BY <2>2, <2>6 DEF TypeOK
<1>18. ASSUME NEW h \in Handles, RenameDelete(h)
       PROVE  TypeOK'
  <2> DEFINE k == call[h].at
             lost == DroppedByRace(h, k)
  <2>1. k \in Keys
    BY DEF TypeOK, Call
  <2>2. writes' = writes /\ call' \in [Handles -> Call]
    BY <1>18 DEF RenameDelete, Return, Proceed, TypeOK
  <2>3. file' \in [Handles -> Context]
    <3>1. call[h].to \in Keys
      BY DEF Call, TypeOK
    <3>2. \A g \in Handles : [file[g] EXCEPT !.name = call[h].to] \in Context
      BY <3>1 DEF Context, TypeOK
    <3> QED
      BY <1>18, <3>2 DEF RenameDelete, TypeOK
  <2>4. \A g \in Handles : file'[g].pending = file[g].pending /\ file'[g].status = file[g].status
    BY <1>18 DEF RenameDelete, Context, TypeOK
  <2>5. Install(h, k, WithDeleted(entries, k), {}, lost) /\ lost \subseteq Token
    BY <1>0, <1>18, <2>1, ShownIsANode DEF RenameDelete, DroppedByRace, NotHeld
  <2> QED
    BY <1>0, <2>1, <2>2, <2>3, <2>4, <2>5, MapUpdates, InstallTyped DEF Updates, TypeOK
<1>19. CASE UNCHANGED vars
  BY <1>19 DEF vars, history, TypeOK
<1> QED
  BY <1>1, <1>2, <1>3, <1>4, <1>5, <1>6, <1>7, <1>8, <1>9, <1>10, <1>11, <1>12, <1>13,
     <1>14, <1>15, <1>16, <1>17, <1>18, <1>19
  DEF Next, Begin, Continue, Write, SetFileSize, Patching

(* The whole state stays well formed.  In particular what read_full and    *)
(* rename's first step carry over to a later step is a content the         *)
(* overlay can hold, and a tombstone or an entry is always filed under a   *)
(* path of the volume.                                                     *)
THEOREM AdapterTyping == Spec => []TypeOK
<1>1. Init => TypeOK
  BY EmptyMapTyped, ConstantsTyped, AdapterAssumption DEF Init, TypeOK, Closed
<1> QED
  BY <1>1, NextTyped, PTL DEF Spec

------------------------------------------------------------------------------
(* What any step does to the map.                                          *)

(* Every step leaves the map alone or is one overlay method on one key.    *)
LEMMA StepUpdatesTheMap ==
  ASSUME TypeOK, [Next]_vars
  PROVE  entries' = entries \/ \E k \in Keys, c \in Contents : entries' \in Updates(entries, k, c)
<1> USE DEF Updates
<1>0. /\ Empty \in Contents /\ {} \in Contents
      /\ \A h \in Handles : /\ file[h].path \in Keys
                            /\ call[h].at \in Keys
                            /\ call[h].to \in Keys
                            /\ call[h].got.content \in Contents
  BY EmptyAssumption, AdapterAssumption DEF TypeOK, Context, Call, Node
<1>1. ASSUME NEW h \in Handles, NEW k \in Keys, Open(h, k) \/ Create(h, k) \/ Rename(h, k)
      PROVE  entries' = entries
  BY <1>1 DEF Open, Create, Rename
<1>2. ASSUME NEW h \in Handles, NEW delete \in BOOLEAN, SetDelete(h, delete)
      PROVE  entries' = entries
  BY <1>2 DEF SetDelete
<1>3. ASSUME NEW h \in Handles, Cleanup(h)
      PROVE  entries' = entries \/ \E k \in Keys, c \in Contents : entries' \in Updates(entries, k, c)
  BY <1>0, <1>3 DEF Cleanup, Install, NothingInstalled
<1>4. ASSUME NEW h \in Handles,
             \/ Close(h) \/ Read(h) \/ Write(h) \/ SetFileSize(h)
             \/ ReadRecheck(h) \/ CreateCheck(h) \/ CreateReread(h) \/ RenameCheck(h)
      PROVE  entries' = entries
  BY <1>4 DEF Close, Read, Write, SetFileSize, ReadFull, ReadRecheck, CreateCheck,
              CreateReread, RenameCheck
<1>5. ASSUME NEW h \in Handles, Overwrite(h)
      PROVE  \E k \in Keys, c \in Contents : entries' \in Updates(entries, k, c)
  BY <1>0, <1>5 DEF Overwrite, Install
<1>6. ASSUME NEW h \in Handles, WriteInsert(h)
      PROVE  \E k \in Keys, c \in Contents : entries' \in Updates(entries, k, c)
  <2>1. call[h].got.content \cup {writes + 1} \in Contents
    BY <1>0, <1>6, AdapterAssumption DEF WriteInsert, TypeOK, Token
  <2> QED
    BY <1>0, <1>6, <2>1 DEF WriteInsert, Install
<1>7. ASSUME NEW h \in Handles, SetFileSizeInsert(h)
      PROVE  \E k \in Keys, c \in Contents : entries' \in Updates(entries, k, c)
  <2>1. SUBSET call[h].got.content \subseteq Contents
    BY <1>0, AdapterAssumption
  <2> QED
    BY <1>0, <1>7, <2>1 DEF SetFileSizeInsert, Install
<1>8. ASSUME NEW h \in Handles, CreateInsert(h)
      PROVE  \E k \in Keys, c \in Contents : entries' \in Updates(entries, k, c)
  BY <1>0, <1>8 DEF CreateInsert, Install
<1>9. ASSUME NEW h \in Handles, RenameInsert(h)
      PROVE  \E k \in Keys, c \in Contents : entries' \in Updates(entries, k, c)
  BY <1>0, <1>9 DEF RenameInsert, Install
<1>10. ASSUME NEW h \in Handles, RenameDelete(h)
       PROVE  \E k \in Keys, c \in Contents : entries' \in Updates(entries, k, c)
  BY <1>0, <1>10 DEF RenameDelete, Install
<1>11. CASE UNCHANGED vars
  BY <1>11 DEF vars
<1> QED
  BY <1>1, <1>2, <1>3, <1>4, <1>5, <1>6, <1>7, <1>8, <1>9, <1>10, <1>11
  DEF Next, Begin, Continue

(* The overlay never stops answering for a key it has answered for.        *)
LEMMA CoverageGrows ==
  ASSUME TypeOK, [Next]_vars, NEW k \in Keys, Lookup(entries, k) # "Miss"
  PROVE  Lookup(entries', k) # "Miss"
<1>1. entries \in Map /\ entries[k].kind # "None"
  BY DEF TypeOK, Lookup
<1>2. entries'[k].kind # "None"
  <2>1. ASSUME NEW l \in Keys, NEW c \in Contents, entries' \in Updates(entries, l, c)
        PROVE  entries'[k].kind # "None"
    <3>1. /\ entries'[l].kind # "None"
          /\ \A m \in Keys \ {l} : entries'[m] = entries[m]
      BY <1>1, <2>1, MapUpdates
    <3> QED
      BY <1>1, <3>1
  <2> QED
    BY <1>1, <2>1, StepUpdatesTheMap
<1> QED
  BY <1>2 DEF Lookup

(* A handle open without an inode after a step either was one before it,   *)
(* at the same path, or has just been given a path the overlay holds.      *)
LEMMA HandlesWithoutInode ==
  ASSUME TypeOK, [Next]_vars, NEW g \in Handles,
         file'[g].status = "open", ~ file'[g].inode
  PROVE  \/ /\ file[g].status = "open" /\ ~ file[g].inode
            /\ file'[g].path = file[g].path
         \/ /\ Lookup(entries, file'[g].path) = "Hit"
            /\ file'[g].path \in Keys
<1> DEFINE Goal == \/ /\ file[g].status = "open" /\ ~ file[g].inode
                      /\ file'[g].path = file[g].path
                   \/ /\ Lookup(entries, file'[g].path) = "Hit"
                      /\ file'[g].path \in Keys
<1>0. file \in [Handles -> Context] /\ \A h \in Handles : call[h].at \in Keys
  BY DEF TypeOK, Call
<1>1. ASSUME file' = file
      PROVE  Goal
  BY <1>1
<1>2. ASSUME NEW h \in Handles, NEW k \in Keys, Open(h, k)
      PROVE  Goal
  BY <1>0, <1>2 DEF Open, Opened, Context
<1>3. ASSUME NEW h \in Handles, NEW delete \in BOOLEAN, SetDelete(h, delete)
      PROVE  Goal
  BY <1>0, <1>3 DEF SetDelete, Context
<1>4. ASSUME NEW h \in Handles, Cleanup(h) \/ Close(h)
      PROVE  Goal
  BY <1>0, <1>4 DEF Cleanup, Close, Closed
<1>5. ASSUME NEW h \in Handles, CreateReread(h)
      PROVE  Goal
  BY <1>0, <1>5 DEF CreateReread, Opened
<1>6. ASSUME NEW h \in Handles, RenameDelete(h)
      PROVE  Goal
  BY <1>0, <1>6 DEF RenameDelete, Context
<1>7. ASSUME NEW h \in Handles, NEW k \in Keys, Create(h, k) \/ Rename(h, k)
      PROVE  Goal
  BY <1>1, <1>7 DEF Create, Rename
<1>8. ASSUME NEW h \in Handles,
             \/ Read(h) \/ Write(h) \/ SetFileSize(h) \/ Overwrite(h) \/ ReadRecheck(h)
             \/ WriteInsert(h) \/ SetFileSizeInsert(h) \/ CreateCheck(h) \/ CreateInsert(h)
             \/ RenameCheck(h) \/ RenameInsert(h)
      PROVE  Goal
  BY <1>1, <1>8 DEF Read, Write, SetFileSize, ReadFull, Overwrite, ReadRecheck, WriteInsert,
                    SetFileSizeInsert, CreateCheck, CreateInsert, RenameCheck, RenameInsert
<1> HIDE DEF Goal
<1>9. ASSUME UNCHANGED vars
      PROVE  Goal
  BY <1>1, <1>9 DEF vars
<1>10. Goal
  BY <1>2, <1>3, <1>4, <1>5, <1>6, <1>7, <1>8, <1>9 DEF Next, Begin, Continue
<1> QED
  BY <1>10 DEF Goal

(* A handle that has no inode of the image to fall back on always has the  *)
(* overlay's answer: nothing that is deleted, renamed, created or written, *)
(* in any interleaving, makes the entry it was opened from vanish.         *)
THEOREM HandlesStayCovered == Spec => []OverlayHandlesStayCovered
<1>1. Init => OverlayHandlesStayCovered
  BY DEF Init, OverlayHandlesStayCovered, Closed
<1>2. TypeOK /\ OverlayHandlesStayCovered /\ [Next]_vars => OverlayHandlesStayCovered'
  <2> SUFFICES ASSUME TypeOK, OverlayHandlesStayCovered, [Next]_vars,
                      NEW g \in Handles, file'[g].status = "open", ~ file'[g].inode
               PROVE  Lookup(entries', file'[g].path) # "Miss"
    BY DEF OverlayHandlesStayCovered
  <2> DEFINE k == file'[g].path
  <2>1. k \in Keys /\ Lookup(entries, k) # "Miss"
    BY HandlesWithoutInode DEF OverlayHandlesStayCovered, TypeOK, Context
  <2> QED
    BY <2>1, CoverageGrows
<1> QED
  BY <1>1, <1>2, AdapterTyping, PTL DEF Spec

------------------------------------------------------------------------------
(* The read-only volume.                                                   *)

(* On a read-only volume no callback gets as far as a step that stages.    *)
LEMMA ReadOnlyStep == TypeOK /\ ReadOnlyOnlyReads /\ [Next]_vars => ReadOnlyOnlyReads'
<1> SUFFICES ASSUME TypeOK, readOnly, [Next]_vars, entries = EmptyMap,
                    \A h \in Handles : call[h].step \in {"idle", "read_recheck"}
             PROVE  /\ entries' = EmptyMap
                    /\ \A h \in Handles : call'[h].step \in {"idle", "read_recheck"}
  <2>1. TypeOK /\ [Next]_vars => readOnly' = readOnly
    BY DEF Next, vars
  <2> QED
    BY <2>1 DEF ReadOnlyOnlyReads
<1> DEFINE Quiet == \A h \in Handles : call'[h].step \in {"idle", "read_recheck"}
<1>0. call \in [Handles -> Call]
  BY DEF TypeOK
<1>1. ASSUME NEW h \in Handles, Begin(h)
      PROVE  entries' = EmptyMap /\ Quiet
  <2>1. ASSUME NEW k \in Keys, Open(h, k)
        PROVE  entries' = EmptyMap /\ Quiet
    BY <2>1 DEF Open
  <2>2. CASE Cleanup(h)
    BY <2>2 DEF Cleanup, NothingInstalled
  <2>3. CASE Close(h)
    BY <2>3 DEF Close
  <2>4. CASE Read(h)
    BY <1>0, <2>4 DEF Read, Proceed, Idle, Call
  <2> QED
    BY <1>1, <2>1, <2>2, <2>3, <2>4
    DEF Begin, Create, Rename, SetDelete, Write, SetFileSize, ReadFull, Overwrite
<1>2. ASSUME NEW h \in Handles, Continue(h)
      PROVE  entries' = EmptyMap /\ Quiet
  <2>1. ReadRecheck(h)
    BY <1>2 DEF Continue, WriteInsert, SetFileSizeInsert, CreateCheck, CreateInsert,
                CreateReread, RenameCheck, RenameInsert, RenameDelete
  <2> QED
    BY <1>0, <2>1 DEF ReadRecheck, Return, Proceed, Idle
<1>3. CASE UNCHANGED vars
  BY <1>3 DEF vars
<1> QED
  BY <1>1, <1>2, <1>3 DEF Next

(* A read-only mount never stages anything, whatever callbacks run: not    *)
(* through a handle marked for delete, nor through a callback whose own    *)
(* check stands several overlay calls before its insertion.                *)
THEOREM ReadOnlyVolumeStagesNothing == Spec => []ReadOnlyStagesNothing
<1>1. Init => ReadOnlyOnlyReads
  BY DEF Init, ReadOnlyOnlyReads, Idle
<1>2. ReadOnlyOnlyReads => ReadOnlyStagesNothing
  BY DEF ReadOnlyOnlyReads, ReadOnlyStagesNothing
<1> QED
  BY <1>1, <1>2, ReadOnlyStep, AdapterTyping, PTL DEF Spec

------------------------------------------------------------------------------
(* Free names.                                                             *)

(* What a handle on its way to an insertion knows of its destination: a    *)
(* create in mid-check that the overlay has nothing live there, a handle   *)
(* about to insert, unless it is told to replace, that nothing is shown    *)
(* there.                                                                  *)
Knows(map, c) ==
  /\ c.step = "create_check" => Lookup(map, c.at) # "Hit"
  /\ c.step = "create_insert" \/ (c.step = "rename_insert" /\ ~ c.replace) =>
       ShownAt(map, Destination(c)).kind = "absent"

CheckedNamesAreFree == \A h \in Handles : h \notin excused => Knows(entries, call[h])

(* Another handle's overlay call leaves a handle's knowledge true, or that *)
(* handle is excused from then on.                                         *)
LEMMA InstallKeepsKnowledge ==
  ASSUME TypeOK, CheckedNamesAreFree, NEW g \in Handles, NEW k \in Keys, NEW map,
         NEW asked, NEW unasked, Install(g, k, map, asked, unasked), \A l \in Keys \ {k} : map[l] = entries[l],
         NEW h \in Handles \ {g}, call'[h] = call[h], h \notin excused'
  PROVE  Knows(entries', call'[h])
<1>1. entries' = map /\ excused' = {i \in excused \cup {j \in Handles \ {g} :
                                      Destination(call[j]) = k} : call'[i].step \in Claiming}
  BY DEF Install
<1>2. CASE call[h].step \notin Claiming
  BY <1>2 DEF Knows, Claiming
<1>3. CASE call[h].step \in Claiming
  <2>1. h \notin excused /\ Destination(call[h]) # k
    BY <1>1, <1>3
  <2>2. call[h].at \in Keys /\ Destination(call[h]) \in Keys
    BY DEF TypeOK, Call, Destination
  <2>3. map[Destination(call[h])] = entries[Destination(call[h])]
    BY <2>1, <2>2
  <2>4. call[h].step = "create_check" => Destination(call[h]) = call[h].at
    BY DEF Destination, Renaming
  <2> QED
    BY <1>1, <2>1, <2>3, <2>4 DEF CheckedNamesAreFree, Knows, ShownAt, Lookup
<1> QED
  BY <1>2, <1>3

(* A callback outside the ones that claim a name knows nothing.            *)
LEMMA OthersKnowNothing ==
  ASSUME NEW map, NEW c, c.step \notin Claiming
  PROVE  Knows(map, c)
BY DEF Knows, Claiming

(* Each callback's steps keep what the handles know true.                  *)
LEMMA CheckedNamesStep ==
  TypeOK /\ CheckedNamesAreFree /\ [Next]_vars => CheckedNamesAreFree'
<1> SUFFICES ASSUME TypeOK, CheckedNamesAreFree, [Next]_vars,
                    NEW h \in Handles, h \notin excused'
             PROVE  Knows(entries', call'[h])
  BY DEF CheckedNamesAreFree
<1> DEFINE Goal == Knows(entries', call'[h])
<1>0. /\ call \in [Handles -> Call] /\ entries \in Map /\ file \in [Handles -> Context]
      /\ \A g \in Handles : /\ call[g].at \in Keys /\ call[g].to \in Keys
                            /\ file[g].path \in Keys
  BY DEF TypeOK, Call, Context
<1>1. ASSUME entries' = entries, call'[h] = call[h],
             h \in excused => call[h].step \notin Claiming
      PROVE  Goal
  BY <1>1, OthersKnowNothing DEF CheckedNamesAreFree
<1>2. ASSUME call'[h].step \notin Claiming
      PROVE  Goal
  BY <1>2, OthersKnowNothing
<1>3. ASSUME NEW g \in Handles \ {h}, NEW k \in Keys, NEW map, NEW asked, NEW unasked,
             Install(g, k, map, asked, unasked), call'[h] = call[h],
             \A l \in Keys \ {k} : map[l] = entries[l]
      PROVE  Goal
  BY <1>3, InstallKeepsKnowledge
<1>4. ASSUME NEW g \in Handles \ {h}, call'[h] = call[h],
             \E k \in Keys : \E x, asked, unasked :
                Install(g, k, [entries EXCEPT ![k] = x], asked, unasked)
      PROVE  Goal
  <2>1. PICK k \in Keys : \E x, asked, unasked :
                Install(g, k, [entries EXCEPT ![k] = x], asked, unasked)
    BY <1>4
  <2>2. PICK x, asked, unasked : Install(g, k, [entries EXCEPT ![k] = x], asked, unasked)
    BY <2>1
  <2>3. \A l \in Keys \ {k} : [entries EXCEPT ![k] = x][l] = entries[l]
    BY <1>0 DEF Map
  <2> QED
    BY <1>3, <1>4, <2>2, <2>3
<1>5. \A g \in Handles : \A c : Proceed(g, c) => /\ g = h => call'[h] = c
                                                 /\ g # h => call'[h] = call[h]
  BY <1>0 DEF Proceed
<1> HIDE DEF Goal
<1>6. ASSUME NEW g \in Handles, Begin(g)
      PROVE  Goal
  <2>1. ASSUME \/ \E k \in Keys : Open(g, k)
               \/ \E delete \in BOOLEAN : SetDelete(g, delete)
               \/ Close(g)
        PROVE  Goal
    BY <1>1, <2>1 DEF Open, SetDelete, Close, history
  <2>2. ASSUME NEW k \in Keys, Create(g, k)
        PROVE  Goal
    <3>1. CASE g = h
      <4>1. call'[h] = [Idle EXCEPT !.step = "create_check", !.at = k]
        BY <1>5, <2>2, <3>1 DEF Create
      <4>2. call'[h].step = "create_check" /\ call'[h].at = k
        BY <4>1 DEF Idle
      <4>3. entries' = entries /\ Lookup(entries, k) # "Hit"
        BY <2>2 DEF Create
      <4> QED
        BY <4>2, <4>3 DEF Goal, Knows
    <3> QED
      BY <1>1, <1>5, <2>2, <3>1 DEF Create, history
  <2>3. ASSUME NEW k \in Keys, Rename(g, k)
        PROVE  Goal
    <3>1. CASE g = h
      <4>1. PICK node : call'[h] = [Idle EXCEPT !.step = "rename_check", !.at = file[h].name,
                                                !.to = k, !.got = node]
        BY <1>5, <2>3, <3>1 DEF Rename
      <4>2. call'[h].step = "rename_check"
        BY <4>1 DEF Idle
      <4> QED
        BY <1>2, <4>2 DEF Claiming
    <3> QED
      BY <1>1, <1>5, <2>3, <3>1 DEF Rename, history
  <2>4. ASSUME Read(g)
        PROVE  Goal
    <3>1. CASE g = h
      <4>1. [Idle EXCEPT !.step = "read_recheck", !.at = file[g].path].step = "read_recheck"
        BY DEF Idle
      <4> QED
        BY <1>2, <1>5, <2>4, <3>1, <4>1 DEF Read, Claiming
    <3> QED
      BY <1>1, <1>5, <2>4, <3>1 DEF Read
  <2>5. ASSUME NEW step \in Patching, ReadFull(g, step)
        PROVE  Goal
    <3>1. CASE g = h
      <4>1. PICK c : Proceed(g, [Idle EXCEPT !.step = step, !.at = file[g].path, !.got = File(c)])
        BY <2>5 DEF ReadFull
      <4>2. [Idle EXCEPT !.step = step, !.at = file[g].path, !.got = File(c)].step = step
        BY DEF Idle
      <4>3. call'[h].step = step
        BY <1>5, <3>1, <4>1, <4>2
      <4> QED
        BY <1>2, <4>3 DEF Claiming, Patching
    <3> QED
      BY <1>1, <1>5, <2>5, <3>1 DEF ReadFull, history
  <2>6. ASSUME Cleanup(g) \/ Overwrite(g)
        PROVE  Goal
    <3>1. CASE g = h
      BY <1>2, <2>6, <3>1 DEF Cleanup, Overwrite, Ready, Claiming
    <3>2. CASE g # h
      <4>1. call'[h] = call[h]
        BY <2>6 DEF Cleanup, Overwrite
      <4>2. \/ NothingInstalled
            \/ \E k \in Keys : \E x, asked, unasked :
               Install(g, k, [entries EXCEPT ![k] = x], asked, unasked)
        BY <1>0, <2>6 DEF Cleanup, Overwrite, WithDeleted, WithWrittenFile
      <4>3. CASE NothingInstalled
        BY <1>1, <4>1, <4>3 DEF NothingInstalled
      <4> QED
        BY <1>4, <3>2, <4>1, <4>2, <4>3
    <3> QED
      BY <3>1, <3>2
  <2> QED
    BY <1>6, <2>1, <2>2, <2>3, <2>4, <2>5, <2>6 DEF Begin, Write, SetFileSize, Patching
<1>7. ASSUME NEW g \in Handles, Continue(g)
      PROVE  Goal
  <2>1. ASSUME ReadRecheck(g) \/ CreateReread(g)
        PROVE  Goal
    <3>1. CASE g = h
      <4>1. call'[h] = Idle
        BY <1>5, <2>1, <3>1 DEF ReadRecheck, CreateReread, Return
      <4> QED
        BY <1>2, <4>1 DEF Idle, Claiming
    <3> QED
      BY <1>1, <1>5, <2>1, <3>1 DEF ReadRecheck, CreateReread, Return, history
  <2>2. ASSUME WriteInsert(g) \/ SetFileSizeInsert(g) \/ RenameDelete(g)
        PROVE  Goal
    <3>1. CASE g = h
      BY <1>2, <1>5, <2>2, <3>1 DEF WriteInsert, SetFileSizeInsert, RenameDelete, Return, Idle,
                                    Claiming
    <3>2. CASE g # h
      <4>1. call'[h] = call[h]
        BY <1>5, <2>2, <3>2 DEF WriteInsert, SetFileSizeInsert, RenameDelete, Return
      <4>2. \E k \in Keys : \E x, asked, unasked :
               Install(g, k, [entries EXCEPT ![k] = x], asked, unasked)
        BY <1>0, <2>2 DEF WriteInsert, SetFileSizeInsert, RenameDelete, WithWrittenFile,
                          WithDeleted
      <4> QED
        BY <1>4, <3>2, <4>1, <4>2
    <3> QED
      BY <3>1, <3>2
  <2>3. ASSUME CreateInsert(g) \/ RenameInsert(g)
        PROVE  Goal
    <3>1. CASE g = h
      <4>1. /\ \A node : [call[h] EXCEPT !.step = "create_reread", !.got = node].step = "create_reread"
            /\ [call[h] EXCEPT !.step = "rename_delete", !.replace = FALSE].step = "rename_delete"
        BY <1>0 DEF Call
      <4>2. call'[h].step \in {"create_reread", "rename_delete"}
        <5>1. CASE CreateInsert(g)
          <6>1. PICK node : call'[h] = [call[h] EXCEPT !.step = "create_reread", !.got = node]
            BY <1>5, <3>1, <5>1 DEF CreateInsert
          <6> QED
            BY <4>1, <6>1
        <5>2. CASE RenameInsert(g)
          BY <1>5, <3>1, <4>1, <5>2 DEF RenameInsert
        <5> QED
          BY <2>3, <5>1, <5>2
      <4> QED
        BY <1>2, <4>2 DEF Claiming
    <3>2. CASE g # h
      <4>1. call'[h] = call[h]
        BY <1>5, <2>3, <3>2 DEF CreateInsert, RenameInsert
      <4>2. \E k \in Keys : \E x, asked, unasked :
               Install(g, k, [entries EXCEPT ![k] = x], asked, unasked)
        BY <1>0, <2>3 DEF CreateInsert, RenameInsert, WithCreatedFile, WithCreatedDir
      <4> QED
        BY <1>4, <3>2, <4>1, <4>2
    <3> QED
      BY <3>1, <3>2
  <2>4. ASSUME CreateCheck(g) \/ RenameCheck(g)
        PROVE  Goal
    <3>1. CASE g # h
      <4>1. entries' = entries /\ call'[h] = call[h]
        BY <1>5, <2>4, <3>1 DEF CreateCheck, RenameCheck, Return
      <4>2. h \in excused => call[h].step \notin Claiming
        BY <2>4, <4>1 DEF CreateCheck, RenameCheck, Excuse
      <4> QED
        BY <1>1, <4>1, <4>2
    <3>2. CASE g = h /\ Return(h)
      BY <1>2, <1>5, <3>2 DEF Return, Idle, Claiming
    <3>3. CASE g = h /\ CreateCheck(h) /\ ~ Return(h)
      <4> DEFINE k == call[h].at
                 c == [call[h] EXCEPT !.step = "create_insert"]
      <4>1. PICK found : /\ ~ (Lookup(entries, k) = "Miss" /\ found)
                         /\ Proceed(h, c) /\ Excuse(h, Mistaken(k, found))
        BY <3>3 DEF CreateCheck
      <4>2. c.step = "create_insert" /\ c.at = k
        BY <1>0 DEF Call
      <4>3. call'[h] = c /\ entries' = entries
        BY <1>5, <3>3, <4>1 DEF CreateCheck
      <4>4. h \notin excused /\ ~ Mistaken(k, found)
        BY <4>1, <4>2, <4>3 DEF Excuse, Claiming
      <4>5. Lookup(entries, k) # "Hit"
        BY <3>3, <4>4 DEF CreateCheck, CheckedNamesAreFree, Knows
      <4>6. ShownAt(entries, k).kind = "absent"
        BY <4>1, <4>4, <4>5 DEF Mistaken, ShownAt, Shown, Lookup, Absent
      <4>7. Destination(c) = k
        BY <4>2 DEF Destination, Renaming
      <4> QED
        BY <4>2, <4>3, <4>6, <4>7 DEF Goal, Knows
    <3>4. CASE g = h /\ RenameCheck(h) /\ ~ Return(h)
      <4> DEFINE k == call[h].to
                 c(replace) == [call[h] EXCEPT !.step = "rename_insert", !.replace = replace]
      <4>1. PICK found, replace \in BOOLEAN :
               /\ ~ (/\ Lookup(entries, k) = "Hit" \/ (Lookup(entries, k) = "Miss" /\ found)
                     /\ ~ replace)
               /\ Proceed(h, c(replace)) /\ Excuse(h, Mistaken(k, found))
        BY <3>4 DEF RenameCheck, Found
      <4>2. /\ c(replace).step = "rename_insert" /\ c(replace).to = k
            /\ c(replace).replace = replace
        BY <1>0 DEF Call
      <4>3. call'[h] = c(replace) /\ entries' = entries
        BY <1>5, <3>4, <4>1 DEF RenameCheck
      <4>4. ~ Mistaken(k, found)
        BY <4>1, <4>2, <4>3 DEF Excuse, Claiming
      <4>5. ~ replace => ShownAt(entries, k).kind = "absent"
        BY <4>1, <4>4 DEF Mistaken, ShownAt, Shown, Lookup, Absent
      <4>6. Destination(c(replace)) = k
        BY <4>2 DEF Destination, Renaming
      <4> HIDE DEF c
      <4> QED
        BY <4>2, <4>3, <4>5, <4>6 DEF Goal, Knows
    <3> QED
      BY <2>4, <3>1, <3>2, <3>3, <3>4
  <2> QED
    BY <1>7, <2>1, <2>2, <2>3, <2>4 DEF Continue
<1>8. ASSUME UNCHANGED vars
      PROVE  Goal
  <2>1. entries' = entries /\ call' = call /\ excused' = excused
    BY <1>8 DEF vars, history
  <2> QED
    BY <1>1, <2>1
<1>9. Goal
  BY <1>6, <1>7, <1>8 DEF Next, vars
<1> QED
  BY <1>9 DEF Goal

(* A create, and a rename that is not told to replace, inserts where       *)
(* nothing is shown, although it asked critical sections earlier: only a   *)
(* destination that changed in between, or a device that did not answer,   *)
(* can make it replace something.                                          *)
THEOREM FreeNamesOnly == Spec => OnlyFreeNamesAreTaken
<1>1. Init => CheckedNamesAreFree
  BY DEF Init, CheckedNamesAreFree, Knows, Idle
<1>2. CheckedNamesAreFree => \A h \in Handles :
         call[h].step \in {"create_insert", "rename_insert"} /\ call'[h] # call[h] =>
            \/ h \in excused \/ call[h].replace
            \/ ShownAt(entries, Destination(call[h])).kind = "absent"
  BY DEF CheckedNamesAreFree, Knows
<1> QED
  BY <1>1, <1>2, CheckedNamesStep, AdapterTyping, PTL DEF Spec, OnlyFreeNamesAreTaken

------------------------------------------------------------------------------
(* Creators.                                                               *)

(* FineGuard: the handle that enters a callback on names finds none there. *)
LEMMA OneNamesStep == TypeOK /\ OneNamesAtATime /\ [Next]_vars => OneNamesAtATime'
<1> SUFFICES ASSUME TypeOK, OneNamesAtATime, [Next]_vars
             PROVE  OneNamesAtATime'
  OBVIOUS
<1> USE DEF Creating, Renaming
<1>0. call \in [Handles -> Call]
  BY DEF TypeOK
<1>1. ASSUME Naming' \subseteq Naming
      PROVE  OneNamesAtATime'
  BY <1>1 DEF OneNamesAtATime
<1>2. ASSUME NEW h \in Handles, NamesFree, Naming' \subseteq Naming \cup {h}
      PROVE  OneNamesAtATime'
  BY <1>2 DEF OneNamesAtATime, NamesFree, Naming
<1>3. ASSUME NEW h \in Handles, NEW k \in Keys, Create(h, k) \/ Rename(h, k)
      PROVE  OneNamesAtATime'
  <2>1. Naming' \subseteq Naming \cup {h} /\ NamesFree
    BY <1>0, <1>3 DEF Create, Rename, Proceed, Naming
  <2> QED
    BY <1>2, <2>1
<1>a. ASSUME NEW h \in Handles, NEW c, Proceed(h, c),
             c.step \in Creating \cup Renaming => h \in Naming
      PROVE  OneNamesAtATime'
  <2>1. Naming' \subseteq Naming
    BY <1>0, <1>a DEF Proceed, Naming
  <2> QED
    BY <1>1, <2>1
<1>4. ASSUME NEW h \in Handles, Read(h) \/ Write(h) \/ SetFileSize(h)
      PROVE  OneNamesAtATime'
  <2>1. ASSUME NEW step \in Patching, ReadFull(h, step)
        PROVE  OneNamesAtATime'
    <3>1. PICK c : Proceed(h, [Idle EXCEPT !.step = step, !.at = file[h].path, !.got = File(c)])
      BY <2>1 DEF ReadFull
    <3>2. [Idle EXCEPT !.step = step, !.at = file[h].path, !.got = File(c)].step = step
      BY DEF Idle
    <3> QED
      BY <1>a, <3>1, <3>2 DEF Patching
  <2>2. CASE Read(h)
    <3>1. [Idle EXCEPT !.step = "read_recheck", !.at = file[h].path].step = "read_recheck"
      BY DEF Idle
    <3> QED
      BY <1>a, <2>2, <3>1 DEF Read
  <2> QED
    BY <1>4, <2>1, <2>2 DEF Write, SetFileSize, Patching
<1>5. ASSUME UNCHANGED call
      PROVE  OneNamesAtATime'
  BY <1>1, <1>5 DEF Naming
<1>6. ASSUME NEW h \in Handles, Begin(h)
      PROVE  OneNamesAtATime'
  BY <1>3, <1>4, <1>5, <1>6 DEF Begin, Open, SetDelete, Cleanup, Close, Overwrite
<1>7. ASSUME NEW h \in Handles, Continue(h)
      PROVE  OneNamesAtATime'
  <2>1. CASE Return(h)
    BY <1>a, <2>1 DEF Return, Idle
  <2>2. CASE h \in Naming
    <3>1. \E c : Proceed(h, c)
      BY <1>7 DEF Continue, ReadRecheck, WriteInsert, SetFileSizeInsert, CreateCheck,
                  CreateInsert, CreateReread, RenameCheck, RenameInsert, RenameDelete, Return
    <3> QED
      BY <1>a, <2>2, <3>1
  <2>3. Return(h) \/ h \in Naming
    BY <1>7 DEF Continue, ReadRecheck, WriteInsert, SetFileSizeInsert, CreateCheck,
                CreateInsert, CreateReread, RenameCheck, RenameInsert, RenameDelete, Naming
  <2> QED
    BY <2>1, <2>2, <2>3
<1> QED
  BY <1>5, <1>6, <1>7 DEF Next, vars

(* What create's first lookup ruled out stays ruled out until it inserts:  *)
(* no other creator or renamer runs, and a write to the path makes a       *)
(* Modified entry of it, never a Created one.                              *)
LEMMA CreatorFoundNoCreationStep ==
  TypeOK /\ OneNamesAtATime /\ CreatorFoundNoCreation /\ [Next]_vars => CreatorFoundNoCreation'
<1> SUFFICES ASSUME TypeOK, OneNamesAtATime, CreatorFoundNoCreation, [Next]_vars,
                    NEW h \in Handles, call'[h].step \in {"create_check", "create_insert"}
             PROVE  entries'[call'[h].at].kind \notin {"Created", "CreatedDir"}
  BY DEF CreatorFoundNoCreation
<1> DEFINE Fresh(map, k) == map[k].kind \notin {"Created", "CreatedDir"}
<1>0. /\ call \in [Handles -> Call] /\ entries \in Map
      /\ \A g \in Handles : call[g].at \in Keys
  BY DEF TypeOK, Call
<1>1. CASE \E k \in Keys : Create(h, k)
  <2>1. PICK k \in Keys : Create(h, k)
    BY <1>1
  <2>2. entries' = entries /\ call'[h].at = k /\ Lookup(entries, k) # "Hit"
    BY <1>0, <2>1 DEF Create, Proceed, Idle
  <2> QED
    BY <2>2 DEF Lookup
<1>2. CASE ~ \E k \in Keys : Create(h, k)
  <2> DEFINE k == call[h].at
             Kept == /\ call[h].step \in {"create_check", "create_insert"}
                     /\ call'[h].at = k
  <2>1. ASSUME NEW g \in Handles, NEW c, Proceed(g, c),
               c.step \notin {"create_check", "create_insert"}
        PROVE  g # h /\ Kept
    BY <1>0, <2>1 DEF Proceed
  <2>2. ASSUME UNCHANGED call
        PROVE  Kept
    BY <2>2
  <2>3. ASSUME NEW g \in Handles, NEW c, Proceed(g, c), g # h
        PROVE  Kept
    BY <1>0, <2>3 DEF Proceed
  <2>4. /\ \A l \in Keys : Fresh(WithDeleted(entries, l), k) \/ ~ Kept
        /\ \A l \in Keys : \A c : Fresh(WithWrittenFile(entries, l, c), k) \/ ~ Kept
    BY <1>0 DEF CreatorFoundNoCreation, WithDeleted, WithWrittenFile, Tombstone, Created,
                Modified, Map
  <2>5. ASSUME entries' = entries, Kept
        PROVE  Fresh(entries', call'[h].at)
    BY <2>5 DEF CreatorFoundNoCreation
  <2> HIDE DEF Kept
  <2>a. \A g \in Handles : file[g].path \in Keys
    BY DEF TypeOK, Context
  <2>b. ASSUME Kept, \E l \in Keys : \/ entries' = WithDeleted(entries, l)
                                    \/ \E c : entries' = WithWrittenFile(entries, l, c)
        PROVE  Fresh(entries', call'[h].at)
    BY <2>4, <2>b DEF Kept
  <2>6. ASSUME NEW g \in Handles, Begin(g)
        PROVE  Kept /\ Fresh(entries', call'[h].at)
    <3>1. ASSUME \/ \E l \in Keys : Open(g, l)
                 \/ \E delete \in BOOLEAN : SetDelete(g, delete)
                 \/ Close(g)
          PROVE  Kept /\ entries' = entries
      BY <2>2, <3>1 DEF Open, SetDelete, Close
    <3>2. ASSUME NEW l \in Keys, Create(g, l)
          PROVE  Kept /\ entries' = entries
      BY <1>2, <2>3, <3>2 DEF Create
    <3>3. ASSUME NEW l \in Keys, Rename(g, l)
          PROVE  Kept /\ entries' = entries
      <4>1. \A node : [Idle EXCEPT !.step = "rename_check", !.at = file[g].name, !.to = l,
                                   !.got = node].step = "rename_check"
        BY DEF Idle
      <4> QED
        BY <2>1, <3>3, <4>1 DEF Rename
    <3>4. ASSUME Read(g)
          PROVE  Kept /\ entries' = entries
      <4>1. [Idle EXCEPT !.step = "read_recheck", !.at = file[g].path].step = "read_recheck"
        BY DEF Idle
      <4> QED
        BY <2>1, <3>4, <4>1 DEF Read
    <3>5. ASSUME NEW step \in Patching, ReadFull(g, step)
          PROVE  Kept /\ entries' = entries
      <4>1. PICK c : Proceed(g, [Idle EXCEPT !.step = step, !.at = file[g].path, !.got = File(c)])
        BY <3>5 DEF ReadFull
      <4>2. [Idle EXCEPT !.step = step, !.at = file[g].path, !.got = File(c)].step = step
        BY DEF Idle
      <4> QED
        BY <2>1, <3>5, <4>1, <4>2 DEF ReadFull, Patching
    <3>6. ASSUME Cleanup(g)
          PROVE  Kept /\ Fresh(entries', call'[h].at)
      BY <2>2, <2>5, <2>a, <2>b, <3>6 DEF Cleanup, Install, NothingInstalled
    <3>7. ASSUME Overwrite(g)
          PROVE  Kept /\ Fresh(entries', call'[h].at)
      BY <2>2, <2>a, <2>b, <3>7 DEF Overwrite, Install
    <3> QED
      BY <2>5, <2>6, <3>1, <3>2, <3>3, <3>4, <3>5, <3>6, <3>7
      DEF Begin, Write, SetFileSize, Patching
  <2>7. ASSUME NEW g \in Handles, Continue(g)
        PROVE  Kept /\ Fresh(entries', call'[h].at)
    <3>1. ASSUME Return(g)
          PROVE  Kept
      BY <2>1, <3>1 DEF Return, Idle
    <3>2. ASSUME ReadRecheck(g) \/ CreateReread(g)
          PROVE  Kept /\ entries' = entries
      BY <3>1, <3>2 DEF ReadRecheck, CreateReread
    <3>3. ASSUME WriteInsert(g) \/ SetFileSizeInsert(g) \/ RenameDelete(g)
          PROVE  Kept /\ Fresh(entries', call'[h].at)
      BY <1>0, <2>a, <2>b, <3>1, <3>3 DEF WriteInsert, SetFileSizeInsert, RenameDelete, Install
    <3>4. ASSUME CreateCheck(g)
          PROVE  Kept /\ entries' = entries
      <4>1. CASE Return(g)
        BY <3>1, <3>4, <4>1 DEF CreateCheck
      <4>2. CASE Proceed(g, [call[g] EXCEPT !.step = "create_insert"])
        <5>1. ASSUME g = h
              PROVE  Kept
          BY <1>0, <3>4, <4>2, <5>1 DEF CreateCheck, Proceed, Kept, Call
        <5> QED
          BY <2>3, <3>4, <4>2, <5>1 DEF CreateCheck
      <4> QED
        BY <3>4, <4>1, <4>2 DEF CreateCheck
    <3>5. ASSUME RenameCheck(g)
          PROVE  Kept /\ entries' = entries
      <4>1. \A replace : [call[g] EXCEPT !.step = "rename_insert", !.replace = replace].step
                           = "rename_insert"
        BY <1>0 DEF Call
      <4> QED
        BY <2>1, <3>1, <3>5, <4>1 DEF RenameCheck
    <3>6. ~ CreateInsert(g) /\ ~ RenameInsert(g)
      <4> SUFFICES ASSUME CreateInsert(g) \/ RenameInsert(g)
                   PROVE  FALSE
        OBVIOUS
      <4>1. /\ \A node : [call[g] EXCEPT !.step = "create_reread", !.got = node].step = "create_reread"
            /\ [call[g] EXCEPT !.step = "rename_delete", !.replace = FALSE].step = "rename_delete"
        BY <1>0 DEF Call
      <4>2. g # h /\ Kept
        BY <2>1, <4>1 DEF CreateInsert, RenameInsert
      <4> QED
        BY <4>2 DEF Kept, OneNamesAtATime, Naming, CreateInsert, RenameInsert, Creating, Renaming
    <3> QED
      BY <2>5, <2>7, <3>2, <3>3, <3>4, <3>5, <3>6 DEF Continue
  <2>8. CASE UNCHANGED vars
    BY <2>2, <2>5, <2>8 DEF vars
  <2> QED
    BY <2>6, <2>7, <2>8 DEF Next
<1> QED
  BY <1>1, <1>2

(* Two creators of one name: only the first gets it.  A create never       *)
(* replaces a file or a directory that another create or a rename staged,  *)
(* although its check and its insertion are two critical sections.         *)
THEOREM CreatorsExclude == Spec => CreatorsExcludeEachOther
<1> DEFINE IInv == TypeOK /\ OneNamesAtATime /\ CreatorFoundNoCreation
<1>1. Init => IInv
  <2>1. Init => TypeOK
    BY EmptyMapTyped, ConstantsTyped, AdapterAssumption DEF Init, TypeOK, Closed
  <2> QED
    BY <2>1 DEF Init, OneNamesAtATime, CreatorFoundNoCreation, Naming, Idle, Creating, Renaming
<1>2. IInv /\ [Next]_vars => IInv'
  BY NextTyped, OneNamesStep, CreatorFoundNoCreationStep
<1>3. IInv => \A h \in Handles :
         call[h].step = "create_insert" /\ call'[h].step = "create_reread" =>
            entries[call[h].at].kind \notin {"Created", "CreatedDir"}
  BY DEF CreatorFoundNoCreation
<1> QED
  BY <1>1, <1>2, <1>3, PTL DEF Spec, CreatorsExcludeEachOther

------------------------------------------------------------------------------
(* Reads, and writes of what was read.                                     *)

Reading == {"read_recheck"} \cup Patching

(* A callback that has looked its path up is about the path of its handle. *)
(* A read of the image has seen that path either deleted or showing the    *)
(* image's node; a patch whose file has been deleted meanwhile has raced.  *)
Aimed(h) ==
  call[h].step \in Reading => /\ file[h].status = "open"
                              /\ call[h].at = file[h].path

SawImage(h) ==
  call[h].step = "read_recheck" =>
     Absent \in seen[h] \/ Underlay[file[h].path] \in seen[h]

PatchOfDeletedRaced(h) ==
  call[h].step \in Patching /\ Lookup(entries, call[h].at) = "Deleted" => h \in raced

ReadersInv == \A h \in Handles : Aimed(h) /\ SawImage(h) /\ PatchOfDeletedRaced(h)

(* The steps in which a handle holds what it has read of a path.           *)
Holding == Patching \cup Renaming

(* What a step of one handle can do to another that is reading.            *)
Bystander(h) ==
  /\ call'[h] = call[h]
  /\ file'[h].path = file[h].path /\ file'[h].status = file[h].status
  /\ call[h].step = "read_recheck" => seen[h] \subseteq seen'[h]
  /\ call[h].step \in Holding /\ h \in raced => h \in raced'
  /\ call[h].step \in Holding =>
       \/ entries'[call[h].at] = entries[call[h].at]
       \/ h \in raced'

(* An overlay call of one handle is noted for the others.                  *)
LEMMA InstallForBystanders ==
  ASSUME TypeOK, NEW g \in Handles, NEW h \in Handles \ {g},
         NEW k \in Keys, NEW x, NEW asked, NEW unasked,
         Install(g, k, [entries EXCEPT ![k] = x], asked, unasked), call'[h] = call[h],
         file'[h].path = file[h].path, file'[h].status = file[h].status
  PROVE  Bystander(h)
<1>1. /\ entries' = [entries EXCEPT ![k] = x]
      /\ raced' = {i \in raced \cup {j \in Handles \ {g} : call[j].at = k} :
                     call'[i].step \in Patching \cup Renaming}
      /\ seen' = [i \in Handles |->
                    IF call[i].step = "read_recheck" /\ call[i].at = k
                    THEN seen[i] \cup {ShownAt([entries EXCEPT ![k] = x], k)} ELSE seen[i]]
  BY DEF Install
<1>2. seen[h] \subseteq seen'[h]
  BY <1>1
<1>3. call[h].step \in Holding /\ h \in raced => h \in raced'
  BY <1>1 DEF Holding
<1>4. ASSUME call[h].step \in Holding, call[h].at = k
      PROVE  h \in raced'
  BY <1>1, <1>4 DEF Holding
<1>5. ASSUME call[h].at # k
      PROVE  entries'[call[h].at] = entries[call[h].at]
  BY <1>1, <1>5 DEF TypeOK, Map, Call
<1> QED
  BY <1>2, <1>3, <1>4, <1>5 DEF Bystander

(* A step that makes no overlay call is nothing to the others.             *)
LEMMA OthersAreBystanders ==
  ASSUME TypeOK, NEW g \in Handles, NEW h \in Handles \ {g}, Begin(g) \/ Continue(g)
  PROVE  Bystander(h)
<1>0. /\ call \in [Handles -> Call] /\ entries \in Map /\ file \in [Handles -> Context]
      /\ seen \in [Handles -> SUBSET Node]
      /\ \A i \in Handles : /\ call[i].at \in Keys /\ call[i].to \in Keys
                            /\ file[i].path \in Keys
  BY DEF TypeOK, Call, Context
<1>1. \A c : Proceed(g, c) => call'[h] = call[h]
  BY <1>0 DEF Proceed
<1>2. \A c : file' = [file EXCEPT ![g] = c] => file'[h] = file[h]
  BY <1>0
<1>3. ASSUME entries' = entries, call'[h] = call[h], file'[h] = file[h], seen'[h] = seen[h],
             call[h].step \in Holding /\ h \in raced => h \in raced'
      PROVE  Bystander(h)
  BY <1>3 DEF Bystander
<1>4. ASSUME NEW k \in Keys, NEW x, NEW asked, NEW unasked,
             Install(g, k, [entries EXCEPT ![k] = x], asked, unasked),
             call'[h] = call[h], file'[h] = file[h]
      PROVE  Bystander(h)
  BY <1>4, InstallForBystanders
<1>5. ASSUME NEW k \in Keys, Open(g, k)
      PROVE  Bystander(h)
  <2>1. file'[h] = file[h]
    BY <1>2, <1>5 DEF Open
  <2> QED
    BY <1>3, <1>5, <2>1 DEF Open, history
<1>6. ASSUME NEW delete \in BOOLEAN, SetDelete(g, delete)
      PROVE  Bystander(h)
  <2>1. file'[h] = file[h]
    BY <1>0, <1>6 DEF SetDelete
  <2> QED
    BY <1>3, <1>6, <2>1 DEF SetDelete, history
<1>7. CASE Close(g)
  <2>1. file'[h] = file[h]
    BY <1>2, <1>7 DEF Close
  <2> QED
    BY <1>3, <1>7, <2>1 DEF Close, history
<1>8. ASSUME NEW k \in Keys, Create(g, k) \/ Rename(g, k)
      PROVE  Bystander(h)
  BY <1>1, <1>3, <1>8 DEF Create, Rename, history
<1>9. ASSUME NEW step, ReadFull(g, step)
      PROVE  Bystander(h)
  BY <1>1, <1>3, <1>9 DEF ReadFull, history
<1>10. CASE Read(g) \/ ReadRecheck(g)
  <2>1. call'[h] = call[h] /\ seen'[h] = seen[h]
    BY <1>0, <1>1, <1>10 DEF Read, ReadRecheck, Return
  <2> QED
    BY <1>3, <1>10, <2>1 DEF Read, ReadRecheck
<1>11. CASE CreateReread(g)
  <2>1. file'[h] = file[h]
    BY <1>2, <1>11 DEF CreateReread
  <2> QED
    BY <1>1, <1>3, <1>11, <2>1 DEF CreateReread, Return, history
<1>12. CASE CreateCheck(g)
  BY <1>1, <1>3, <1>12 DEF CreateCheck, Return
<1>13. CASE RenameCheck(g)
  <2>1. call'[h] = call[h]
    BY <1>1, <1>13 DEF RenameCheck, Return
  <2>2. call[h].step \in Holding /\ h \in raced => h \in raced'
    BY <1>13, <2>1 DEF RenameCheck, Holding, Patching, Renaming
  <2> QED
    BY <1>3, <1>13, <2>1, <2>2 DEF RenameCheck
<1>14. CASE Cleanup(g)
  <2>1. call'[h] = call[h] /\ file'[h] = file[h]
    BY <1>2, <1>14 DEF Cleanup
  <2>2. CASE NothingInstalled
    BY <1>3, <2>1, <2>2 DEF NothingInstalled
  <2>3. CASE \E x, asked, unasked :
               Install(g, file[g].path, [entries EXCEPT ![file[g].path] = x], asked, unasked)
    BY <1>0, <1>4, <2>1, <2>3
  <2> QED
    BY <1>14, <2>2, <2>3 DEF Cleanup, WithDeleted
<1>15. CASE Overwrite(g)
  <2>1. \E x, asked, unasked :
               Install(g, file[g].path, [entries EXCEPT ![file[g].path] = x], asked, unasked)
    BY <1>15 DEF Overwrite, WithWrittenFile
  <2> QED
    BY <1>0, <1>4, <1>15, <2>1 DEF Overwrite
<1>16. CASE WriteInsert(g) \/ SetFileSizeInsert(g)
  <2>1. \E x, asked, unasked :
               Install(g, file[g].path, [entries EXCEPT ![file[g].path] = x], asked, unasked)
    BY <1>16 DEF WriteInsert, SetFileSizeInsert, WithWrittenFile
  <2>2. call'[h] = call[h] /\ file' = file
    BY <1>1, <1>16 DEF WriteInsert, SetFileSizeInsert, Return
  <2> QED
    BY <1>0, <1>4, <2>1, <2>2
<1>17. CASE CreateInsert(g) \/ RenameInsert(g)
  <2>1. \E k \in Keys : \E x, asked, unasked :
               Install(g, k, [entries EXCEPT ![k] = x], asked, unasked)
    BY <1>0, <1>17 DEF CreateInsert, RenameInsert, WithCreatedFile, WithCreatedDir
  <2>2. call'[h] = call[h] /\ file' = file
    BY <1>1, <1>17 DEF CreateInsert, RenameInsert
  <2> QED
    BY <1>4, <2>1, <2>2
<1>18. CASE RenameDelete(g)
  <2>1. \E x, asked, unasked :
               Install(g, call[g].at, [entries EXCEPT ![call[g].at] = x], asked, unasked)
    BY <1>18 DEF RenameDelete, WithDeleted
  <2>2. call'[h] = call[h]
    BY <1>1, <1>18 DEF RenameDelete, Return
  <2>3. file'[h].path = file[h].path /\ file'[h].status = file[h].status
    BY <1>0, <1>18 DEF RenameDelete, Context
  <2> QED
    BY <1>0, <2>1, <2>2, <2>3, InstallForBystanders
<1> QED
  BY <1>5, <1>6, <1>7, <1>8, <1>9, <1>10, <1>11, <1>12, <1>13, <1>14, <1>15, <1>16, <1>17, <1>18
  DEF Begin, Continue, Write, SetFileSize

(* Each callback's steps, a handle's own and those of others, keep it.     *)
LEMMA ReadersStep == TypeOK /\ ReadersInv /\ [Next]_vars => ReadersInv'
<1> SUFFICES ASSUME TypeOK, ReadersInv, [Next]_vars, NEW h \in Handles
             PROVE  (Aimed(h) /\ SawImage(h) /\ PatchOfDeletedRaced(h))'
  BY DEF ReadersInv
<1> DEFINE Goal == (Aimed(h) /\ SawImage(h) /\ PatchOfDeletedRaced(h))'
<1>0. /\ call \in [Handles -> Call] /\ entries \in Map /\ file \in [Handles -> Context]
      /\ seen \in [Handles -> SUBSET Node]
      /\ call[h].at \in Keys /\ file[h].path \in Keys
      /\ Aimed(h) /\ SawImage(h) /\ PatchOfDeletedRaced(h)
  BY DEF TypeOK, Call, Context, ReadersInv
<1>1. ASSUME Bystander(h)
      PROVE  Goal
  <2>1. Aimed(h)'
    BY <1>0, <1>1 DEF Bystander, Aimed
  <2>2. SawImage(h)'
    BY <1>0, <1>1 DEF Bystander, SawImage
  <2>3. PatchOfDeletedRaced(h)'
    BY <1>0, <1>1 DEF Bystander, PatchOfDeletedRaced, Lookup, Holding
  <2> QED
    BY <2>1, <2>2, <2>3
<1>2. ASSUME call'[h].step \notin Reading
      PROVE  Goal
  BY <1>2 DEF Reading, Patching, Aimed, SawImage, PatchOfDeletedRaced
<1>3. \A c : Proceed(h, c) => call'[h] = c
  BY <1>0 DEF Proceed
<1>4. Idle.step \notin Reading
  BY DEF Idle, Reading, Patching
<1> HIDE DEF Goal
<1>5. ASSUME Read(h)
      PROVE  Goal
  <2> DEFINE c == [Idle EXCEPT !.step = "read_recheck", !.at = file[h].path]
  <2>1. call'[h] = c /\ file' = file /\ seen'[h] = {ShownAt(entries, file[h].path)}
        /\ file[h].status = "open" /\ Lookup(entries, file[h].path) # "Hit"
    BY <1>0, <1>3, <1>5 DEF Read, Ready
  <2>2. c.step = "read_recheck" /\ c.at = file[h].path
    BY DEF Idle
  <2>3. ShownAt(entries, file[h].path) \in {Absent, Underlay[file[h].path]}
    BY <2>1 DEF ShownAt, Shown, Lookup
  <2>4. Aimed(h)'
    BY <2>1, <2>2 DEF Aimed
  <2>5. SawImage(h)'
    BY <2>1, <2>3 DEF SawImage
  <2>6. PatchOfDeletedRaced(h)'
    BY <2>1, <2>2 DEF PatchOfDeletedRaced, Patching
  <2> QED
    BY <2>4, <2>5, <2>6 DEF Goal
<1>6. ASSUME NEW step \in Patching, ReadFull(h, step)
      PROVE  Goal
  <2>1. PICK content \in FullContent(file[h].path) :
          Proceed(h, [Idle EXCEPT !.step = step, !.at = file[h].path, !.got = File(content)])
    BY <1>6 DEF ReadFull
  <2> DEFINE c == [Idle EXCEPT !.step = step, !.at = file[h].path, !.got = File(content)]
  <2>2. call'[h] = c /\ file' = file /\ entries' = entries /\ file[h].status = "open"
    BY <1>3, <1>6, <2>1 DEF ReadFull, Ready
  <2>3. c.step = step /\ c.at = file[h].path
    BY DEF Idle
  <2>4. Lookup(entries, file[h].path) # "Deleted"
    BY <2>1 DEF FullContent
  <2>5. Aimed(h)'
    BY <2>2, <2>3 DEF Aimed
  <2>6. SawImage(h)'
    BY <2>2, <2>3 DEF SawImage, Patching
  <2>7. PatchOfDeletedRaced(h)'
    BY <2>2, <2>3, <2>4 DEF PatchOfDeletedRaced
  <2> QED
    BY <2>5, <2>6, <2>7 DEF Goal
<1>7. ASSUME call' = call /\ (Ready(h) \/ Vacant(h) \/ file[h].status = "cleaned")
      PROVE  Goal
  <2>1. call[h].step \notin Reading
    BY <1>0, <1>7, <1>4 DEF Ready, Vacant, Aimed, Reading, Patching
  <2> QED
    BY <1>2, <1>7, <2>1
<1>8. ASSUME Begin(h)
      PROVE  Goal
  <2>1. ASSUME \/ \E k \in Keys : Open(h, k)
               \/ \E delete \in BOOLEAN : SetDelete(h, delete)
               \/ Close(h) \/ Cleanup(h) \/ Overwrite(h)
        PROVE  Goal
    BY <1>7, <2>1 DEF Open, SetDelete, Close, Cleanup, Overwrite
  <2>2. ASSUME NEW k \in Keys, Create(h, k)
        PROVE  Goal
    <3>1. [Idle EXCEPT !.step = "create_check", !.at = k].step = "create_check"
      BY DEF Idle
    <3> QED
      BY <1>2, <1>3, <2>2, <3>1 DEF Create, Reading, Patching
  <2>3. ASSUME NEW k \in Keys, Rename(h, k)
        PROVE  Goal
    <3>1. \A node : [Idle EXCEPT !.step = "rename_check", !.at = file[h].name, !.to = k,
                                 !.got = node].step = "rename_check"
      BY DEF Idle
    <3> QED
      BY <1>2, <1>3, <2>3, <3>1 DEF Rename, Reading, Patching
  <2> QED
    BY <1>5, <1>6, <1>8, <2>1, <2>2, <2>3 DEF Begin, Write, SetFileSize, Patching
<1>9. ASSUME Continue(h)
      PROVE  Goal
  <2>1. ASSUME Return(h)
        PROVE  Goal
    BY <1>2, <1>3, <1>4, <2>1 DEF Return
  <2>2. ASSUME NEW step \in Creating \cup Renaming, NEW node, NEW replace,
               \/ Proceed(h, [call[h] EXCEPT !.step = step])
               \/ Proceed(h, [call[h] EXCEPT !.step = step, !.got = node])
               \/ Proceed(h, [call[h] EXCEPT !.step = step, !.replace = replace])
        PROVE  Goal
    <3>1. /\ [call[h] EXCEPT !.step = step].step = step
          /\ [call[h] EXCEPT !.step = step, !.got = node].step = step
          /\ [call[h] EXCEPT !.step = step, !.replace = replace].step = step
      BY <1>0 DEF Call
    <3>2. call'[h].step = step
      BY <1>3, <2>2, <3>1
    <3>3. step \notin Reading
      BY DEF Creating, Renaming, Reading, Patching
    <3> QED
      BY <1>2, <3>2, <3>3
  <2>3. CASE CreateCheck(h) \/ RenameCheck(h)
    BY <2>1, <2>2, <2>3 DEF CreateCheck, RenameCheck, Creating, Renaming
  <2>4. CASE CreateInsert(h) \/ RenameInsert(h)
    BY <2>2, <2>4 DEF CreateInsert, RenameInsert, Creating, Renaming
  <2> QED
    BY <1>9, <2>1, <2>3, <2>4
    DEF Continue, ReadRecheck, WriteInsert, SetFileSizeInsert, CreateReread, RenameDelete
<1>10. ASSUME UNCHANGED vars
       PROVE  Goal
  <2>1. Bystander(h)
    BY <1>10 DEF vars, history, Bystander
  <2> QED
    BY <1>1, <2>1
<1>11. ASSUME NEW g \in Handles \ {h}, Begin(g) \/ Continue(g)
       PROVE  Goal
  BY <1>1, <1>11, OthersAreBystanders
<1>12. Goal
  BY <1>8, <1>9, <1>10, <1>11 DEF Next, vars
<1> QED
  BY <1>12 DEF Goal

LEMMA ReadersStart == Init => ReadersInv
BY DEF Init, ReadersInv, Aimed, SawImage, PatchOfDeletedRaced, Reading, Patching, Idle

(* A read that the second lookup sends to the image answers with what its  *)
(* path showed when it began, unless it saw the path deleted.              *)
THEOREM ReadsAnswerWhatWasThere == Spec => []ReadAnswersWhatWasThere
<1>1. ReadersInv => ReadAnswersWhatWasThere
  BY DEF ReadersInv, SawImage, ReadAnswersWhatWasThere, ImageAnswer
<1> QED
  BY <1>1, ReadersStart, ReadersStep, AdapterTyping, PTL DEF Spec

(* Only what is meant to, and a patch of what was read before the delete,  *)
(* lifts a tombstone.                                                      *)
THEOREM TombstonesLifted == Spec => TombstonesAreLiftedKnowingly
<1>1. ASSUME TypeOK, ReadersInv, [Next]_vars, NEW k \in Keys,
             Lookup(entries, k) = "Deleted", Lookup(entries', k) # "Deleted"
      PROVE  \E h \in Handles : Revives(h, k)
  <2>0. /\ entries \in Map /\ call \in [Handles -> Call] /\ entries' # entries
        /\ \A h \in Handles : /\ call[h].at \in Keys /\ call[h].to \in Keys
                              /\ file[h].path \in Keys
    BY <1>1 DEF TypeOK, Call, Context
  <2>1. \A h, l, map, asked, unasked : Install(h, l, map, asked, unasked) => entries' = map
    BY DEF Install
  <2>2. \A l \in Keys : \A x : entries' = [entries EXCEPT ![l] = x] => k = l
    BY <1>1, <2>0 DEF Lookup, Map
  <2>3. \A l \in Keys : entries' # WithDeleted(entries, l)
    BY <1>1, <2>0 DEF Lookup, WithDeleted, Tombstone, Map
  <2>4. \A h \in Handles : \A c : Proceed(h, c) => call'[h] = c
    BY <2>0 DEF Proceed
  <2>5. ASSUME NEW h \in Handles, Cleanup(h) \/ RenameDelete(h)
        PROVE  FALSE
    BY <2>0, <2>1, <2>3, <2>5 DEF Cleanup, RenameDelete, NothingInstalled
  <2>6. ASSUME NEW h \in Handles, Overwrite(h)
        PROVE  Revives(h, k)
    <3>1. k = file[h].path
      BY <2>0, <2>1, <2>2, <2>6 DEF Overwrite, WithWrittenFile
    <3> QED
      BY <2>6, <3>1 DEF Overwrite, Revives
  <2>7. ASSUME NEW h \in Handles, WriteInsert(h) \/ SetFileSizeInsert(h)
        PROVE  Revives(h, k)
    <3>1. call[h].step \in Patching /\ call'[h] = Idle
      BY <2>4, <2>7 DEF WriteInsert, SetFileSizeInsert, Return, Patching
    <3>2. k = file[h].path
      BY <2>0, <2>1, <2>2, <2>7 DEF WriteInsert, SetFileSizeInsert, WithWrittenFile
    <3>3. call[h].at = k /\ h \in raced
      BY <1>1, <3>1, <3>2 DEF ReadersInv, Aimed, PatchOfDeletedRaced, Reading
    <3>4. call'[h] # call[h]
      BY <3>1 DEF Patching, Idle
    <3> QED
      BY <3>1, <3>3, <3>4 DEF Revives
  <2>8. ASSUME NEW h \in Handles, CreateInsert(h)
        PROVE  Revives(h, k)
    <3>1. k = call[h].at
      BY <2>0, <2>1, <2>2, <2>8 DEF CreateInsert, WithCreatedFile, WithCreatedDir
    <3>2. PICK node : call'[h] = [call[h] EXCEPT !.step = "create_reread", !.got = node]
      BY <2>4, <2>8 DEF CreateInsert
    <3>3. call'[h].step = "create_reread"
      BY <2>0, <3>2 DEF Call
    <3> QED
      BY <2>8, <3>1, <3>3 DEF CreateInsert, Revives
  <2>9. ASSUME NEW h \in Handles, RenameInsert(h)
        PROVE  Revives(h, k)
    <3>1. k = call[h].to
      BY <2>0, <2>1, <2>2, <2>9 DEF RenameInsert, WithCreatedFile, WithCreatedDir
    <3>2. call'[h] = [call[h] EXCEPT !.step = "rename_delete", !.replace = FALSE]
      BY <2>4, <2>9 DEF RenameInsert
    <3>3. call'[h].step = "rename_delete"
      BY <2>0, <3>2 DEF Call
    <3> QED
      BY <2>9, <3>1, <3>3 DEF RenameInsert, Revives
  <2>10. ASSUME NEW h \in Handles, Begin(h) \/ Continue(h)
         PROVE  Revives(h, k)
    BY <2>0, <2>10, <2>5, <2>6, <2>7, <2>8, <2>9
    DEF Begin, Continue, Open, SetDelete, Close, Create, Rename, Read, Write, SetFileSize,
        ReadFull, ReadRecheck, CreateCheck, CreateReread, RenameCheck, history
  <2> QED
    BY <1>1, <2>0, <2>10 DEF Next, vars
<1>2. TypeOK /\ ReadersInv /\ [Next]_vars =>
        [\A k \in Keys : Lookup(entries, k) = "Deleted" /\ Lookup(entries', k) # "Deleted" =>
           \E h \in Handles : Revives(h, k)]_vars
  BY <1>1
<1> QED
  BY <1>2, ReadersStart, ReadersStep, AdapterTyping, PTL DEF Spec, TombstonesAreLiftedKnowingly

------------------------------------------------------------------------------
(* Nothing is lost.                                                        *)

(* The bytes that were destroyed, by an operation asked to or by a race.   *)
Gone == forgone \cup swept

(* A handle that holds a snapshot has raced, or holds what its path shows. *)
HoldsWhatIsShown(h) ==
  call[h].step \in Holding /\ h \notin raced => call[h].got = ShownAt(entries, call[h].at)

(* What is patched is a file; what moves is a file or a directory.         *)
HoldsItsKind(h) ==
  /\ call[h].step \in Patching => call[h].got.kind = "file"
  /\ call[h].step \in Renaming => call[h].got \in {Directory, File(call[h].got.content)}

(* A rename is between two paths; it can give back all it holds; and once  *)
(* it has inserted, what it holds is shown at its destination, or has been *)
(* destroyed there.                                                        *)
MoveIsSafe(h) ==
  call[h].step \in Renaming =>
     /\ call[h].at # call[h].to
     /\ call[h].got.kind = "dir" => call[h].got.content = {}
     /\ call[h].step = "rename_delete" =>
          call[h].got.content \subseteq Gone \cup ShownAt(entries, call[h].to).content

(* A create has read nothing when it inserts.                              *)
CreateHoldsNothing(h) ==
  call[h].step \in {"create_check", "create_insert"} => call[h].got = Absent

HoldersInv ==
  \A h \in Handles :
     HoldsWhatIsShown(h) /\ HoldsItsKind(h) /\ MoveIsSafe(h) /\ CreateHoldsNothing(h)

(* What a path shows stays shown there, or is accounted for.               *)
Keeps ==
  /\ Gone \subseteq Gone'
  /\ \A k \in Keys :
       ShownAt(entries, k).content \subseteq ShownAt(entries', k).content \cup Gone'

(* What the methods make a path show.                                      *)
LEMMA ShownAfter ==
  ASSUME NEW map \in Map, NEW k \in Keys, NEW c \in Contents
  PROVE  /\ ShownAt(WithWrittenFile(map, k, c), k) = File(c)
         /\ ShownAt(WithCreatedFile(map, k, c), k) = File(c)
         /\ ShownAt(WithCreatedDir(map, k), k) = Directory
         /\ ShownAt(WithDeleted(map, k), k) = Absent
BY DEF ShownAt, Shown, WithWrittenFile, WithCreatedFile, WithCreatedDir, WithDeleted, Map,
       Created, Modified, CreatedDir, Tombstone, File

(* An overlay call keeps everything if it accounts for its own path.       *)
LEMMA InstallKeeps ==
  ASSUME TypeOK, NEW h, NEW k \in Keys, NEW x, NEW asked, NEW unasked,
         Install(h, k, [entries EXCEPT ![k] = x], asked, unasked),
         ShownAt(entries, k).content \subseteq ShownAt(entries', k).content \cup asked \cup unasked
  PROVE  Keeps
<1>1. entries' = [entries EXCEPT ![k] = x] /\ Gone' = Gone \cup asked \cup unasked
  BY DEF Install, Gone
<1>2. \A l \in Keys \ {k} : entries'[l] = entries[l]
  BY <1>1 DEF TypeOK, Map
<1>3. \A l \in Keys \ {k} : ShownAt(entries', l) = ShownAt(entries, l)
  BY <1>2 DEF ShownAt
<1> QED
  BY <1>1, <1>3 DEF Keeps

(* A node shown of a kind without bytes has none.                          *)
LEMMA OnlyFilesHoldBytes ==
  ASSUME NEW map \in Map, NEW k \in Keys, ShownAt(map, k).kind # "file"
  PROVE  ShownAt(map, k).content = {}
<1>1. map[k] \in Entry /\ Empty = {}
  BY AdapterAssumption DEF Map
<1> QED
  BY <1>1, UnderlayAssumption DEF ShownAt, Shown, File, Directory, Absent

(* Every step but the last of a rename keeps what is shown.                *)
LEMMA StepsKeep ==
  ASSUME TypeOK, ReadersInv, CheckedNamesAreFree, HoldersInv,
         NEW h \in Handles, Begin(h) \/ Continue(h), ~ RenameDelete(h)
  PROVE  Keeps
<1>0. /\ entries \in Map
      /\ call[h].at \in Keys /\ call[h].to \in Keys /\ file[h].path \in Keys
      /\ {} \in Contents /\ Empty = {}
  BY AdapterAssumption DEF TypeOK, Call, Context
<1>1. CASE UNCHANGED <<entries, forgone, swept>>
  BY <1>1 DEF Keeps, Gone
<1>2. CASE Cleanup(h)
  <2>1. CASE Install(h, file[h].path, WithDeleted(entries, file[h].path),
                     ShownAt(entries, file[h].path).content, {})
    BY <1>0, <2>1, InstallKeeps DEF WithDeleted
  <2> QED
    BY <1>1, <1>2, <2>1 DEF Cleanup, NothingInstalled
<1>3. CASE Overwrite(h)
  <2>1. Install(h, file[h].path, WithWrittenFile(entries, file[h].path, {}),
                ShownAt(entries, file[h].path).content, {})
    BY <1>3 DEF Overwrite
  <2> QED
    BY <1>0, <2>1, InstallKeeps DEF WithWrittenFile
<1>4. ASSUME NEW c \in SUBSET Token, NEW k, k = file[h].path, NEW asked,
             call[h].step \in Patching,
             Install(h, k, WithWrittenFile(entries, k, c), asked, DroppedByRace(h, k)),
             call[h].got.content \subseteq c \cup asked
      PROVE  Keeps
  <2>1. k = call[h].at /\ c \in Contents /\ k \in Keys
    BY <1>0, <1>4, AdapterAssumption DEF ReadersInv, Aimed, Reading
  <2>2. entries' = WithWrittenFile(entries, k, c)
    BY <1>4 DEF Install
  <2>3. ShownAt(entries', k).content = c
    BY <1>0, <2>1, <2>2, ShownAfter DEF File
  <2>4. ShownAt(entries, k).content \subseteq c \cup asked \cup DroppedByRace(h, k)
    <3>1. CASE h \in raced
      BY <1>4, <3>1 DEF DroppedByRace, NotHeld
    <3>2. CASE h \notin raced
      BY <1>4, <2>1, <3>2 DEF HoldersInv, HoldsWhatIsShown, Holding
    <3> QED
      BY <3>1, <3>2
  <2> QED
    BY <1>4, <2>1, <2>3, <2>4, InstallKeeps DEF WithWrittenFile
<1>5. CASE WriteInsert(h)
  <2> DEFINE k == file[h].path
             c == call[h].got.content \cup {writes + 1}
  <2>1. c \in SUBSET Token
    <3>1. call[h].got.content \subseteq Token
      BY AdapterAssumption DEF TypeOK, Call, Node
    <3>2. writes + 1 \in Token
      BY <1>5, AdapterAssumption DEF WriteInsert, TypeOK, Token
    <3> QED
      BY <3>1, <3>2
  <2>2. Install(h, k, WithWrittenFile(entries, k, c), {}, DroppedByRace(h, k))
    BY <1>5 DEF WriteInsert
  <2>3. call[h].step \in Patching
    BY <1>5 DEF WriteInsert, Patching
  <2> QED
    BY <1>4, <2>1, <2>2, <2>3
<1>6. CASE SetFileSizeInsert(h)
  <2> DEFINE k == file[h].path
  <2>1. PICK c \in SUBSET call[h].got.content :
          Install(h, k, WithWrittenFile(entries, k, c),
                  call[h].got.content \ c, DroppedByRace(h, k))
    BY <1>6 DEF SetFileSizeInsert
  <2>2. c \in SUBSET Token
    BY AdapterAssumption DEF TypeOK, Call, Node
  <2>3. call[h].step \in Patching
    BY <1>6 DEF SetFileSizeInsert, Patching
  <2> QED
    BY <1>4, <2>1, <2>2, <2>3
<1>7. ASSUME NEW k \in Keys, k = Destination(call[h]),
             call[h].step = "create_insert" \/ (call[h].step = "rename_insert" /\ ~ call[h].replace)
      PROVE  ShownAt(entries, k).content \subseteq Forfeited(h, k) \cup call[h].got.content
  <2>1. CASE h \in excused
    BY <2>1 DEF Forfeited, NotHeld
  <2>2. CASE h \notin excused
    <3>1. ShownAt(entries, k).kind = "absent"
      BY <1>7, <2>2 DEF CheckedNamesAreFree, Knows
    <3> QED
      BY <1>0, <3>1, OnlyFilesHoldBytes
  <2> QED
    BY <2>1, <2>2
<1>8. CASE CreateInsert(h)
  <2> DEFINE k == call[h].at
  <2>1. k = Destination(call[h]) /\ call[h].step = "create_insert"
    BY <1>8 DEF CreateInsert, Destination, Renaming
  <2>2. PICK x : Install(h, k, [entries EXCEPT ![k] = x], {}, Forfeited(h, k))
    BY <1>8 DEF CreateInsert, WithCreatedFile, WithCreatedDir
  <2>3. call[h].got.content = {}
    BY <1>0, <2>1 DEF HoldersInv, CreateHoldsNothing, Absent
  <2>4. ShownAt(entries, k).content \subseteq Forfeited(h, k)
    BY <1>0, <1>7, <2>1, <2>3
  <2> QED
    BY <1>0, <2>2, <2>4, InstallKeeps
<1>9. CASE RenameInsert(h)
  <2> DEFINE k == call[h].to
             map == IF call[h].got.kind = "dir" THEN WithCreatedDir(entries, k)
                                                ELSE WithCreatedFile(entries, k, call[h].got.content)
  <2>1. k = Destination(call[h]) /\ call[h].step = "rename_insert"
    BY <1>9 DEF RenameInsert, Destination, Renaming
  <2>2. /\ \/ call[h].replace /\ Install(h, k, map, NotHeld(h, k), {})
           \/ ~ call[h].replace /\ Install(h, k, map, {}, Forfeited(h, k))
        /\ \E x : map = [entries EXCEPT ![k] = x]
        /\ entries' = map
    BY <1>9 DEF RenameInsert, WithCreatedFile, WithCreatedDir, Install
  <2>3. call[h].got.content \in Contents
    BY DEF TypeOK, Call, Node
  <2>4. call[h].got.content \subseteq ShownAt(entries', k).content
    <3>1. CASE call[h].got.kind = "dir"
      BY <2>1, <3>1 DEF HoldersInv, MoveIsSafe, Renaming
    <3>2. CASE call[h].got.kind # "dir"
      BY <1>0, <2>2, <2>3, <3>2, ShownAfter DEF File
    <3> QED
      BY <3>1, <3>2
  <2>5. PICK x : map = [entries EXCEPT ![k] = x]
    BY <2>2
  <2>6. k \in Keys
    BY <1>0
  <2> HIDE DEF map, k
  <2>7. CASE call[h].replace /\ Install(h, k, map, NotHeld(h, k), {})
    <3>1. ShownAt(entries, k).content \subseteq ShownAt(entries', k).content \cup NotHeld(h, k)
      BY <2>4 DEF NotHeld
    <3> QED
      BY <2>5, <2>6, <2>7, <3>1, InstallKeeps
  <2>8. CASE ~ call[h].replace /\ Install(h, k, map, {}, Forfeited(h, k))
    <3>1. ShownAt(entries, k).content \subseteq ShownAt(entries', k).content \cup Forfeited(h, k)
      BY <1>7, <2>1, <2>4, <2>6, <2>8
    <3> QED
      BY <2>5, <2>6, <2>8, <3>1, InstallKeeps
  <2> QED
    BY <2>2, <2>7, <2>8
<1>10. CASE Begin(h)
  BY <1>1, <1>2, <1>3, <1>10
  DEF Begin, Open, Create, Rename, SetDelete, Close, Read, Write, SetFileSize, ReadFull, history
<1>11. CASE Continue(h)
  BY <1>1, <1>5, <1>6, <1>8, <1>9, <1>11
  DEF Continue, ReadRecheck, CreateCheck, CreateReread, RenameCheck, history
<1> QED
  BY <1>10, <1>11

LEMMA CreatesStep ==
  ASSUME TypeOK, HoldersInv, [Next]_vars, NEW h \in Handles
  PROVE  CreateHoldsNothing(h)'
<1>0. call \in [Handles -> Call] /\ call[h] \in Call /\ CreateHoldsNothing(h)
  BY DEF TypeOK, HoldersInv
<1>1. CASE call'[h] = call[h]
  BY <1>0, <1>1 DEF CreateHoldsNothing
<1>2. \A c : Proceed(h, c) => call'[h] = c
  BY <1>0 DEF Proceed
<1>3. ASSUME call'[h].step \notin {"create_check", "create_insert"}
      PROVE  CreateHoldsNothing(h)'
  BY <1>3 DEF CreateHoldsNothing
<1>4. ASSUME NEW k \in Keys, Create(h, k)
      PROVE  CreateHoldsNothing(h)'
  <2>1. call'[h] = [Idle EXCEPT !.step = "create_check", !.at = k]
    BY <1>2, <1>4 DEF Create
  <2> QED
    BY <2>1 DEF Idle, CreateHoldsNothing
<1>5. ASSUME NEW k \in Keys, Rename(h, k)
      PROVE  CreateHoldsNothing(h)'
  <2>1. PICK node : Proceed(h, [Idle EXCEPT !.step = "rename_check", !.at = file[h].name,
                                            !.to = k, !.got = node])
    BY <1>5 DEF Rename
  <2> QED
    BY <1>2, <2>1 DEF Idle, CreateHoldsNothing
<1>6. ASSUME NEW step \in Patching, ReadFull(h, step)
      PROVE  CreateHoldsNothing(h)'
  <2>1. PICK content : Proceed(h, [Idle EXCEPT !.step = step, !.at = file[h].path,
                                               !.got = File(content)])
    BY <1>6 DEF ReadFull
  <2> QED
    BY <1>2, <2>1 DEF Idle, CreateHoldsNothing, Patching
<1>7. ASSUME Read(h)
      PROVE  CreateHoldsNothing(h)'
  <2>1. call'[h] = [Idle EXCEPT !.step = "read_recheck", !.at = file[h].path]
    BY <1>2, <1>7 DEF Read
  <2> QED
    BY <2>1 DEF Idle, CreateHoldsNothing
<1>8. ASSUME Return(h)
      PROVE  CreateHoldsNothing(h)'
  BY <1>2, <1>8 DEF Return, Idle, CreateHoldsNothing
<1>9. ASSUME CreateCheck(h)
       PROVE  CreateHoldsNothing(h)'
  <2>1. call[h].got = Absent
    BY <1>0, <1>9 DEF CreateCheck, CreateHoldsNothing
  <2>2. CASE Proceed(h, [call[h] EXCEPT !.step = "create_insert"])
    BY <1>0, <1>2, <2>1, <2>2 DEF Call, CreateHoldsNothing
  <2> QED
    BY <1>8, <1>9, <2>2 DEF CreateCheck
<1>10. ASSUME NEW step \in {"create_reread", "rename_insert", "rename_delete"}, NEW node,
              NEW replace,
              \/ Proceed(h, [call[h] EXCEPT !.step = step, !.got = node])
              \/ Proceed(h, [call[h] EXCEPT !.step = step, !.replace = replace])
       PROVE  CreateHoldsNothing(h)'
  <2>1. call'[h].step = step
    BY <1>0, <1>2, <1>10 DEF Call
  <2> QED
    BY <1>3, <2>1
<1>11. ASSUME CreateInsert(h) \/ RenameCheck(h) \/ RenameInsert(h)
       PROVE  CreateHoldsNothing(h)'
  BY <1>8, <1>10, <1>11 DEF CreateInsert, RenameCheck, RenameInsert
<1>12. ASSUME Begin(h) \/ Continue(h)
       PROVE  CreateHoldsNothing(h)'
  BY <1>1, <1>4, <1>5, <1>6, <1>7, <1>8, <1>9, <1>11, <1>12
  DEF Begin, Continue, Open, SetDelete, Cleanup, Close, Overwrite, Write, SetFileSize, Patching,
      ReadRecheck, WriteInsert, SetFileSizeInsert, CreateReread, RenameDelete
<1> QED
  BY <1>1, <1>12, OthersAreBystanders DEF Next, vars, Bystander

(* Each callback's steps keep what is held.                                *)
LEMMA HoldersStep ==
  TypeOK /\ ReadersInv /\ CheckedNamesAreFree /\ OneNamesAtATime /\ HoldersInv /\ [Next]_vars
    => HoldersInv'
<1> SUFFICES ASSUME TypeOK, ReadersInv, CheckedNamesAreFree, OneNamesAtATime, HoldersInv,
                    [Next]_vars, NEW h \in Handles
             PROVE  (HoldsWhatIsShown(h) /\ HoldsItsKind(h) /\ MoveIsSafe(h))'
  BY CreatesStep DEF HoldersInv
<1> DEFINE Goal == (HoldsWhatIsShown(h) /\ HoldsItsKind(h) /\ MoveIsSafe(h))'
<1>0. /\ call \in [Handles -> Call] /\ entries \in Map
      /\ call[h].at \in Keys /\ call[h].to \in Keys /\ file[h].path \in Keys
      /\ HoldsWhatIsShown(h) /\ HoldsItsKind(h) /\ MoveIsSafe(h)
  BY DEF TypeOK, Call, Context, HoldersInv
<1>1. ASSUME NEW g \in Handles \ {h}, Begin(g) \/ Continue(g)
      PROVE  Goal
  <2>1. Bystander(h)
    BY <1>1, OthersAreBystanders
  <2>2. HoldsWhatIsShown(h)'
    BY <1>0, <2>1 DEF Bystander, HoldsWhatIsShown, ShownAt
  <2>3. ASSUME call[h].step = "rename_delete"
        PROVE  Keeps
    <3>1. h \in Naming
      BY <2>3 DEF Naming, Renaming
    <3>2. ~ RenameDelete(g)
      BY <1>1, <3>1 DEF RenameDelete, OneNamesAtATime, Naming, Renaming
    <3> QED
      BY <1>1, <3>2, StepsKeep
  <2>4. MoveIsSafe(h)'
    BY <1>0, <2>1, <2>3 DEF Bystander, MoveIsSafe, Keeps
  <2>5. HoldsItsKind(h)'
    BY <1>0, <2>1 DEF Bystander, HoldsItsKind
  <2> QED
    BY <2>2, <2>4, <2>5
<1>2. ASSUME call'[h].step \notin Holding
      PROVE  Goal
  BY <1>2 DEF Holding, HoldsWhatIsShown, HoldsItsKind, MoveIsSafe
<1>3. \A c : Proceed(h, c) => call'[h] = c
  BY <1>0 DEF Proceed
<1>4. Idle.step \notin Holding
  BY DEF Idle, Holding, Patching, Renaming
<1>5. ASSUME NEW step \in Patching, ReadFull(h, step)
      PROVE  Goal
  <2>1. PICK content \in FullContent(file[h].path) :
          Proceed(h, [Idle EXCEPT !.step = step, !.at = file[h].path, !.got = File(content)])
    BY <1>5 DEF ReadFull
  <2> DEFINE c == [Idle EXCEPT !.step = step, !.at = file[h].path, !.got = File(content)]
  <2>2. call'[h] = c /\ entries' = entries
    BY <1>3, <1>5, <2>1 DEF ReadFull
  <2>3. c.step = step /\ c.at = file[h].path /\ c.got = File(content)
    BY DEF Idle
  <2>4. ShownAt(entries, file[h].path) = File(content)
    <3>1. Underlay[file[h].path] \in Node
      BY <1>0, ConstantsTyped
    <3> QED
      BY <2>1, <3>1 DEF FullContent, ShownAt, Shown, Lookup, HoldsFile, File, Node
  <2>5. HoldsWhatIsShown(h)'
    BY <2>2, <2>3, <2>4 DEF HoldsWhatIsShown
  <2>6. HoldsItsKind(h)' /\ MoveIsSafe(h)'
    BY <2>2, <2>3 DEF HoldsItsKind, MoveIsSafe, Patching, Renaming, File
  <2> QED
    BY <2>5, <2>6
<1>6. ASSUME NEW to \in Keys, Rename(h, to)
      PROVE  Goal
  <2>1. PICK node \in Source(file[h].name) :
          Proceed(h, [Idle EXCEPT !.step = "rename_check", !.at = file[h].name, !.to = to,
                                  !.got = node])
    BY <1>6 DEF Rename
  <2>2. /\ call'[h].step = "rename_check" /\ call'[h].at = file[h].name
        /\ call'[h].to = to /\ call'[h].got = node
        /\ entries' = entries /\ to # file[h].name
    BY <1>3, <1>6, <2>1 DEF Rename, Idle
  <2>3. file[h].name \in Keys
    BY DEF TypeOK, Context
  <2>4. node = ShownAt(entries, file[h].name)
    BY <2>1 DEF Source, ShownAt, Shown, Lookup
  <2>5. HoldsWhatIsShown(h)'
    BY <2>2, <2>4 DEF HoldsWhatIsShown
  <2>6. node.kind = "dir" => node.content = {}
    BY <1>0, <2>3, <2>4, OnlyFilesHoldBytes
  <2>7. MoveIsSafe(h)'
    BY <2>2, <2>6 DEF MoveIsSafe
  <2>8. node \in {Directory, File(node.content)}
    <3>1. Underlay[file[h].name] \in Node
      BY <2>3, ConstantsTyped
    <3>2. Underlay[file[h].name].kind = "dir" => Underlay[file[h].name] = Directory
      BY <2>3, <3>1, UnderlayAssumption DEF Node, Directory
    <3> QED
      BY <2>1, <3>1, <3>2 DEF Source, ShownAt, Shown, Lookup, Node, File
  <2>9. HoldsItsKind(h)'
    BY <2>2, <2>8 DEF HoldsItsKind, Patching
  <2> QED
    BY <2>5, <2>7, <2>9
<1>7. ASSUME RenameCheck(h)
      PROVE  Goal
  <2>1. CASE Return(h)
    BY <1>2, <1>3, <1>4, <2>1 DEF Return
  <2>2. ASSUME NEW replace,
               Proceed(h, [call[h] EXCEPT !.step = "rename_insert", !.replace = replace])
        PROVE  Goal
    <3>1. /\ call[h].step = "rename_check" /\ entries' = entries
          /\ raced' = {g \in raced : call'[g].step # "idle"}
      BY <1>7 DEF RenameCheck
    <3>2. /\ call'[h].step = "rename_insert" /\ call'[h].at = call[h].at
          /\ call'[h].to = call[h].to /\ call'[h].got = call[h].got
      BY <1>0, <1>3, <2>2 DEF Call
    <3>3. h \in raced => h \in raced'
      BY <3>1, <3>2
    <3>4. HoldsWhatIsShown(h)'
      BY <1>0, <3>1, <3>2, <3>3 DEF HoldsWhatIsShown, Holding, Renaming
    <3>5. MoveIsSafe(h)'
      BY <1>0, <3>1, <3>2 DEF MoveIsSafe, Renaming
    <3>6. HoldsItsKind(h)'
      BY <1>0, <3>1, <3>2 DEF HoldsItsKind, Patching, Renaming
    <3> QED
      BY <3>4, <3>5, <3>6
  <2> QED
    BY <1>7, <2>1, <2>2 DEF RenameCheck
<1>8. ASSUME RenameInsert(h)
      PROVE  Goal
  <2> DEFINE t == call[h].to
             got == call[h].got.content
             map == IF call[h].got.kind = "dir" THEN WithCreatedDir(entries, t)
                                                ELSE WithCreatedFile(entries, t, got)
  <2>1. /\ call[h].step = "rename_insert"
        /\ Proceed(h, [call[h] EXCEPT !.step = "rename_delete", !.replace = FALSE])
        /\ Install(h, t, map, NotHeld(h, t), {}) \/ Install(h, t, map, {}, Forfeited(h, t))
    BY <1>8 DEF RenameInsert
  <2>2. /\ call'[h].step = "rename_delete" /\ call'[h].at = call[h].at
        /\ call'[h].to = t /\ call'[h].got = call[h].got
    BY <1>0, <1>3, <2>1 DEF Call
  <2>3. entries' = map /\ (h \in raced => h \in raced')
    BY <2>1, <2>2 DEF Install, Renaming
  <2>4. /\ call[h].at # t
        /\ call[h].got.kind = "dir" => got = {}
    BY <1>0, <2>1 DEF MoveIsSafe, Renaming
  <2>5. ShownAt(entries', call[h].at) = ShownAt(entries, call[h].at)
    BY <1>0, <2>3, <2>4 DEF ShownAt, WithCreatedDir, WithCreatedFile, Map
  <2>6. got \subseteq ShownAt(entries', t).content
    <3>1. CASE call[h].got.kind = "dir"
      BY <2>4, <3>1
    <3>2. CASE call[h].got.kind # "dir"
      <4>1. got \in Contents
        BY DEF TypeOK, Call, Node
      <4>2. entries' = WithCreatedFile(entries, t, got)
        BY <2>3, <3>2
      <4> QED
        BY <1>0, <4>1, <4>2, ShownAfter DEF File
    <3> QED
      BY <3>1, <3>2
  <2>7. HoldsWhatIsShown(h)'
    BY <1>0, <2>1, <2>2, <2>3, <2>5 DEF HoldsWhatIsShown, Holding, Renaming
  <2>8. MoveIsSafe(h)'
    BY <2>2, <2>4, <2>6 DEF MoveIsSafe
  <2>9. HoldsItsKind(h)'
    BY <1>0, <2>1, <2>2 DEF HoldsItsKind, Patching, Renaming
  <2> QED
    BY <2>7, <2>8, <2>9
<1>9. ASSUME UNCHANGED <<entries, call, raced, forgone, swept>>
      PROVE  Goal
  BY <1>0, <1>9 DEF HoldsWhatIsShown, HoldsItsKind, MoveIsSafe, Gone
<1>10. ASSUME call' = call, Ready(h)
       PROVE  Goal
  BY <1>2, <1>10 DEF Ready, Holding, Patching, Renaming
<1> HIDE DEF Goal
<1>11. ASSUME Begin(h)
       PROVE  Goal
  <2>1. ASSUME \/ \E k \in Keys : Open(h, k)
               \/ \E delete \in BOOLEAN : SetDelete(h, delete)
               \/ Close(h)
        PROVE  Goal
    BY <1>9, <2>1 DEF Open, SetDelete, Close, history
  <2>2. ASSUME Cleanup(h) \/ Overwrite(h)
        PROVE  Goal
    BY <1>10, <2>2 DEF Cleanup, Overwrite
  <2>3. ASSUME Read(h) \/ \E k \in Keys : Create(h, k)
        PROVE  Goal
    <3>1. PICK step \in {"read_recheck", "create_check"}, at \in Keys :
            Proceed(h, [Idle EXCEPT !.step = step, !.at = at])
      BY <1>0, <2>3 DEF Read, Create
    <3>2. [Idle EXCEPT !.step = step, !.at = at].step = step
      BY DEF Idle
    <3> QED
      BY <1>2, <1>3, <3>1, <3>2 DEF Holding, Patching, Renaming
  <2> QED
    BY <1>5, <1>6, <1>11, <2>1, <2>2, <2>3 DEF Begin, Write, SetFileSize, Patching
<1>12. ASSUME Continue(h)
       PROVE  Goal
  <2>1. ASSUME Return(h)
        PROVE  Goal
    BY <1>2, <1>3, <1>4, <2>1 DEF Return
  <2>2. ASSUME NEW step \in Creating, NEW node,
               \/ Proceed(h, [call[h] EXCEPT !.step = step])
               \/ Proceed(h, [call[h] EXCEPT !.step = step, !.got = node])
        PROVE  Goal
    <3>1. /\ [call[h] EXCEPT !.step = step].step = step
          /\ [call[h] EXCEPT !.step = step, !.got = node].step = step
      BY <1>0 DEF Call
    <3>2. call'[h].step = step
      BY <1>3, <2>2, <3>1
    <3> QED
      BY <1>2, <3>2 DEF Creating, Holding, Patching, Renaming
  <2>3. ASSUME CreateCheck(h)
        PROVE  Goal
    BY <2>1, <2>2, <2>3 DEF CreateCheck, Creating
  <2>4. ASSUME CreateInsert(h)
        PROVE  Goal
    BY <2>2, <2>4 DEF CreateInsert, Creating
  <2>5. ASSUME \/ ReadRecheck(h) \/ WriteInsert(h) \/ SetFileSizeInsert(h)
               \/ CreateReread(h) \/ RenameDelete(h)
        PROVE  Goal
    BY <2>1, <2>5 DEF ReadRecheck, WriteInsert, SetFileSizeInsert, CreateReread, RenameDelete
  <2> QED
    BY <1>7, <1>8, <1>12, <2>3, <2>4, <2>5 DEF Continue
<1>13. ASSUME UNCHANGED vars
       PROVE  Goal
  BY <1>9, <1>13 DEF vars, history
<1>14. Goal
  BY <1>1, <1>11, <1>12, <1>13 DEF Next
<1> QED
  BY <1>14 DEF Goal

(* What a path shows is shown somewhere after any step, or accounted for.  *)
LEMMA BytesStay ==
  ASSUME TypeOK, ReadersInv, CheckedNamesAreFree, HoldersInv, [Next]_vars,
         NEW t, t \in Gone \/ \E k \in Keys : t \in ShownAt(entries, k).content
  PROVE  t \in Gone' \/ \E k \in Keys : t \in ShownAt(entries', k).content
<1> DEFINE Goal == t \in Gone' \/ \E k \in Keys : t \in ShownAt(entries', k).content
<1>1. ASSUME Keeps
      PROVE  Goal
  BY <1>1 DEF Keeps
<1>2. ASSUME NEW h \in Handles, RenameDelete(h)
      PROVE  Goal
  <2> DEFINE k == call[h].at
             to == call[h].to
             got == call[h].got.content
  <2>1. /\ call[h].step = "rename_delete"
        /\ entries' = WithDeleted(entries, k)
        /\ Gone' = Gone \cup DroppedByRace(h, k)
    BY <1>2 DEF RenameDelete, Install, Gone
  <2>2. entries \in Map /\ k \in Keys /\ to \in Keys
    BY DEF TypeOK, Call
  <2>3. /\ k # to
        /\ got \subseteq Gone \cup ShownAt(entries, to).content
        /\ h \notin raced => ShownAt(entries, k).content \subseteq got
    BY <2>1 DEF HoldersInv, MoveIsSafe, HoldsWhatIsShown, Holding, Renaming
  <2>4. \A l \in Keys \ {k} : ShownAt(entries', l) = ShownAt(entries, l)
    BY <2>1, <2>2 DEF WithDeleted, ShownAt, Map
  <2> HIDE DEF k, to, got
  <2>5. ASSUME t \in got
        PROVE  Goal
    BY <2>1, <2>2, <2>3, <2>4, <2>5
  <2>6. ASSUME t \in ShownAt(entries, k).content, t \notin got
        PROVE  t \in Gone'
    BY <2>1, <2>3, <2>6 DEF DroppedByRace, NotHeld, got
  <2> QED
    BY <2>1, <2>4, <2>5, <2>6
<1>3. ASSUME UNCHANGED vars
      PROVE  Goal
  BY <1>3 DEF vars, history, Gone
<1> HIDE DEF Goal
<1>4. Goal
  BY <1>1, <1>2, <1>3, StepsKeep DEF Next
<1> QED
  BY <1>4 DEF Goal

(* A write is acknowledged by the step that shows its bytes.               *)
LEMMA AcknowledgedAreShown ==
  ASSUME TypeOK, [Next]_vars, NEW t \in Acknowledged', t \notin Acknowledged
  PROVE  \E k \in Keys : t \in ShownAt(entries', k).content
<1>1. writes \in Nat
  BY AdapterAssumption DEF TypeOK
<1>2. writes' # writes
  BY DEF Acknowledged
<1>3. PICK h \in Handles : WriteInsert(h)
  <2>1. PICK h \in Handles : Begin(h) \/ Continue(h)
    BY <1>2 DEF Next, vars, history
  <2>2. ~ Begin(h)
    BY <1>2 DEF history, Begin, Open, Create, Rename, SetDelete, Cleanup, Close, Read, Write,
                SetFileSize, ReadFull, Overwrite
  <2>3. Continue(h) => WriteInsert(h)
    BY <1>2 DEF Continue, ReadRecheck, SetFileSizeInsert, CreateCheck, CreateInsert,
                CreateReread, RenameCheck, RenameInsert, RenameDelete, history
  <2> QED
    BY <2>1, <2>2, <2>3
<1> DEFINE k == file[h].path
           c == call[h].got.content \cup {writes + 1}
<1>4. /\ writes' = writes + 1 /\ writes < MaxWrites
      /\ entries' = WithWrittenFile(entries, k, c)
  BY <1>3 DEF WriteInsert, Install
<1>5. t = writes + 1
  BY <1>1, <1>4 DEF Acknowledged
<1>6. c \in Contents /\ k \in Keys /\ entries \in Map
  <2>1. call[h].got.content \subseteq Token
    BY AdapterAssumption DEF TypeOK, Call, Node
  <2>2. writes + 1 \in Token
    BY <1>1, <1>4, AdapterAssumption DEF Token
  <2> QED
    BY <2>1, <2>2, AdapterAssumption DEF TypeOK, Context
<1> HIDE DEF k
<1>7. ShownAt(entries', k).content = c
  BY <1>4, <1>6, ShownAfter DEF File
<1> QED
  BY <1>5, <1>6, <1>7

LEMMA NothingLostStep ==
  TypeOK /\ ReadersInv /\ CheckedNamesAreFree /\ HoldersInv /\ NothingLostSilently /\ [Next]_vars
    => NothingLostSilently'
<1> SUFFICES ASSUME TypeOK, ReadersInv, CheckedNamesAreFree, HoldersInv, NothingLostSilently,
                    [Next]_vars, NEW t \in (Acknowledged \ (forgone \cup swept))'
             PROVE  \E k \in Keys : t \in ShownAt(entries', k).content
  BY DEF NothingLostSilently
<1>1. CASE t \in Acknowledged
  BY <1>1, BytesStay DEF NothingLostSilently, Gone
<1>2. CASE t \notin Acknowledged
  BY <1>2, AcknowledgedAreShown
<1> QED
  BY <1>1, <1>2

LEMMA NothingLostStart == Init => HoldersInv /\ NothingLostSilently
<1> SUFFICES ASSUME Init
             PROVE  HoldersInv /\ NothingLostSilently
  OBVIOUS
<1>1. HoldersInv
  BY DEF Init, HoldersInv, HoldsWhatIsShown, HoldsItsKind, MoveIsSafe, CreateHoldsNothing,
         Holding, Patching, Renaming, Idle
<1>2. \A k \in Keys : ShownAt(entries, k) = Underlay[k]
  BY DEF Init, EmptyMap, Uncovered, ShownAt, Shown
<1>3. \A k \in Keys : Underlay[k].kind = "file" => k \in ShownAt(entries, k).content
  BY <1>2, AdapterAssumption
<1>4. Acknowledged = {k \in Keys : Underlay[k].kind = "file"}
  BY DEF Init, Acknowledged
<1> QED
  BY <1>1, <1>3, <1>4 DEF NothingLostSilently

(* The image's bytes and every acknowledged write stay readable at some    *)
(* name, whatever creates, renames, deletes and writes run at the same     *)
(* time, with two exceptions and no third: an operation asked to destroy   *)
(* them did so, or one took them away that another had overtaken: a write  *)
(* or resize of an outdated snapshot, a rename whose old name was written  *)
(* to meanwhile, an insertion at a name that changed after it was asked    *)
(* about or that the device did not tell about.                            *)
THEOREM NothingIsLost == Spec => []NothingLostSilently
<1> DEFINE IInv == /\ ReadersInv /\ CheckedNamesAreFree /\ OneNamesAtATime
                   /\ HoldersInv /\ NothingLostSilently
<1>1. Init => IInv
  BY ReadersStart, NothingLostStart
  DEF Init, CheckedNamesAreFree, Knows, OneNamesAtATime, Naming, Creating, Renaming, Idle
<1>2. TypeOK /\ IInv /\ [Next]_vars => IInv'
  BY ReadersStep, CheckedNamesStep, OneNamesStep, HoldersStep, NothingLostStep
<1> QED
  BY <1>1, <1>2, AdapterTyping, PTL DEF Spec

------------------------------------------------------------------------------
(* Callbacks of several overlay calls as operations of a volume.           *)

(* The step that inserts what a callback has read, if nothing came between *)
(* the two, changes what is shown now and nothing else.                    *)
LEMMA InsertsOfWhatIsThere ==
  ASSUME TypeOK, ReadersInv, HoldersInv, NEW h \in Handles, Begin(h) \/ Continue(h),
         call'[h] # call[h], h \notin raced
  PROVE  LET k == call[h].at
             old == View(entries)
             new == View(entries')
         IN  /\ call[h].step \in Patching => old[k].kind = "file"
             /\ call[h].step = "write_insert" =>
                  new = [old EXCEPT ![k] = File(old[k].content \cup {writes'})]
             /\ call[h].step = "size_insert" =>
                  \E c \in SUBSET old[k].content : new = [old EXCEPT ![k] = File(c)]
             /\ call[h].step = "rename_insert" =>
                  old[k] # Absent /\ new = [old EXCEPT ![call[h].to] = old[k]]
<1> DEFINE k == call[h].at
           old == View(entries)
           new == View(entries')
<1>0. /\ call \in [Handles -> Call] /\ entries \in Map
      /\ k \in Keys /\ call[h].to \in Keys
      /\ call[h].got \in Node /\ call[h].got.content \subseteq Token
  BY AdapterAssumption DEF TypeOK, Call, Node
<1>1. old[k] = ShownAt(entries, k)
  BY <1>0 DEF View, ShownAt
<1>2. call[h].step \in Holding => call[h].got = old[k]
  BY <1>1 DEF HoldersInv, HoldsWhatIsShown
<1>3. call[h].step # "idle" => Continue(h) \/ Close(h)
  BY DEF Begin, Open, Create, Rename, SetDelete, Cleanup, Read, Write, SetFileSize, ReadFull,
         Overwrite, Ready, Vacant
<1>4. call[h].step # "idle" => Continue(h)
  BY <1>3 DEF Close
<1>5. call[h].step \in Patching => k = file[h].path
  BY DEF ReadersInv, Aimed, Reading
<1>6. ASSUME call[h].step \in Patching
      PROVE  old[k].kind = "file"
  BY <1>2, <1>6 DEF HoldersInv, HoldsItsKind, Holding
<1>7. ASSUME call[h].step = "write_insert"
      PROVE  new = [old EXCEPT ![k] = File(old[k].content \cup {writes'})]
  <2>1. WriteInsert(h)
    BY <1>4, <1>7 DEF Continue, ReadRecheck, SetFileSizeInsert, CreateCheck, CreateInsert,
                      CreateReread, RenameCheck, RenameInsert, RenameDelete
  <2> DEFINE c == call[h].got.content \cup {writes + 1}
  <2>2. writes' = writes + 1 /\ writes < MaxWrites /\ entries' = WithWrittenFile(entries, k, c)
    BY <1>5, <1>7, <2>1 DEF WriteInsert, Install, Patching
  <2>3. c \in Contents
    <3>1. writes + 1 \in Token
      BY <2>2, AdapterAssumption DEF TypeOK, Token
    <3> QED
      BY <1>0, <3>1, AdapterAssumption
  <2>4. c = old[k].content \cup {writes'}
    BY <1>2, <1>7, <2>2 DEF Holding, Patching
  <2> HIDE DEF c
  <2>5. View(WithWrittenFile(entries, k, c)) = [old EXCEPT ![k] = File(c)]
    BY <1>0, <2>3, ViewOfUpdate
  <2> QED
    BY <2>2, <2>4, <2>5
<1>8. ASSUME call[h].step = "size_insert"
       PROVE  \E c \in SUBSET old[k].content : new = [old EXCEPT ![k] = File(c)]
  <2>1. SetFileSizeInsert(h)
    BY <1>4, <1>8 DEF Continue, ReadRecheck, WriteInsert, CreateCheck, CreateInsert,
                       CreateReread, RenameCheck, RenameInsert, RenameDelete
  <2>2. PICK c \in SUBSET call[h].got.content : entries' = WithWrittenFile(entries, k, c)
    BY <1>5, <1>8, <2>1 DEF SetFileSizeInsert, Install, Patching
  <2>3. c \in Contents /\ c \in SUBSET old[k].content
    BY <1>0, <1>2, <1>8, AdapterAssumption DEF Holding, Patching
  <2> QED
    BY <1>0, <2>2, <2>3, ViewOfUpdate
<1>9. ASSUME call[h].step = "rename_insert"
       PROVE  old[k] # Absent /\ new = [old EXCEPT ![call[h].to] = old[k]]
  <2> DEFINE Arrives == new = [old EXCEPT ![call[h].to] = old[k]]
  <2>1. RenameInsert(h)
    BY <1>4, <1>9 DEF Continue, ReadRecheck, WriteInsert, SetFileSizeInsert, CreateCheck,
                       CreateInsert, CreateReread, RenameCheck, RenameDelete
  <2>2. call[h].got = old[k] /\ call[h].got \in {Directory, File(call[h].got.content)}
    BY <1>2, <1>9 DEF HoldersInv, HoldsItsKind, Holding, Renaming
  <2>3. entries' = IF call[h].got.kind = "dir"
                   THEN WithCreatedDir(entries, call[h].to)
                   ELSE WithCreatedFile(entries, call[h].to, call[h].got.content)
    BY <2>1 DEF RenameInsert, Install
  <2>4. call[h].got.content \in Contents
    BY <1>0 DEF Node
  <2>5. ASSUME call[h].got.kind = "dir"
        PROVE  Arrives
    <3>1. call[h].got = Directory
      BY <2>2, <2>5 DEF File
    <3> QED
      BY <1>0, <2>2, <2>3, <2>4, <2>5, <3>1, ViewOfUpdate
  <2>6. ASSUME call[h].got.kind # "dir"
        PROVE  Arrives
    <3>1. call[h].got = File(call[h].got.content)
      BY <2>2, <2>6 DEF Directory
    <3> QED
      BY <1>0, <2>2, <2>3, <2>4, <2>6, <3>1, ViewOfUpdate
  <2>7. old[k] # Absent
    BY <2>2 DEF Directory, File, Absent
  <2> QED
    BY <2>5, <2>6, <2>7
<1> QED
  BY <1>6, <1>7, <1>8, <1>9

(* The other steps of a callback of several: creations, the tombstone of a *)
(* rename, and those that stage nothing.                                   *)
LEMMA OtherCalls ==
  ASSUME TypeOK, NEW h \in Handles, Begin(h) \/ Continue(h), call'[h] # call[h]
  PROVE  LET k == call[h].at
             old == View(entries)
             new == View(entries')
         IN  /\ call[h].step = "create_insert" =>
                  \E node \in {File({}), Directory} : new = [old EXCEPT ![k] = node]
             /\ call[h].step = "rename_delete" => new = [old EXCEPT ![k] = Absent]
             /\ call[h].step \notin Inserting \cup {"rename_delete"} => entries' = entries
             /\ call[h].step = "rename_insert" =>
                  call'[h].step = "rename_delete" /\ call'[h].at = k
             /\ call'[h].step = "rename_delete" => call[h].step = "rename_insert"
<1> DEFINE k == call[h].at
<1>0. call \in [Handles -> Call] /\ entries \in Map /\ k \in Keys
  BY DEF TypeOK, Call
<1>1. \A c : Proceed(h, c) => call'[h] = c
  BY <1>0 DEF Proceed
<1>2. CASE Begin(h)
  <2>1. /\ call[h].step = "idle" /\ entries' = entries
        /\ call'[h].step \in {"create_check", "rename_check", "read_recheck"} \cup Patching
    <3>1. ASSUME NEW s, ReadFull(h, s)
          PROVE  call[h].step = "idle" /\ entries' = entries /\ call'[h].step = s
      BY <1>1, <3>1 DEF ReadFull, Ready, Idle
    <3>2. Write(h) \/ SetFileSize(h) =>
            call[h].step = "idle" /\ entries' = entries /\ call'[h].step \in Patching
      BY <3>1 DEF Write, SetFileSize, Patching
    <3>3. Read(h) =>
            call[h].step = "idle" /\ entries' = entries /\ call'[h].step = "read_recheck"
      BY <1>1 DEF Read, Ready, Idle
    <3>4. \A to \in Keys : Create(h, to) =>
            call[h].step = "idle" /\ entries' = entries /\ call'[h].step = "create_check"
      BY <1>1 DEF Create, Vacant, Idle
    <3>5. \A to \in Keys : Rename(h, to) =>
            call[h].step = "idle" /\ entries' = entries /\ call'[h].step = "rename_check"
      BY <1>1 DEF Rename, Ready, Idle
    <3>6. Write(h) \/ SetFileSize(h) \/ Read(h) \/ (\E to \in Keys : Create(h, to) \/ Rename(h, to))
      BY <1>2 DEF Begin, Open, SetDelete, Cleanup, Close, Overwrite
    <3> QED
      BY <3>2, <3>3, <3>4, <3>5, <3>6
  <2> QED
    BY <2>1 DEF Inserting, Patching
<1>3. CASE ReadRecheck(h) \/ CreateCheck(h) \/ CreateReread(h) \/ RenameCheck(h)
  <2>1. /\ call[h].step \in {"read_recheck", "create_check", "create_reread", "rename_check"}
        /\ entries' = entries
        /\ call'[h].step \in {"idle", "create_insert", "rename_insert"}
    <3>1. call[h] \in Call
      BY <1>0
    <3>2. \A s \in Step : /\ [call[h] EXCEPT !.step = s].step = s
                          /\ \A b : [call[h] EXCEPT !.step = s, !.replace = b].step = s
      BY <3>1 DEF Call
    <3>3. Return(h) => call'[h].step = "idle"
      BY <1>1 DEF Return, Idle
    <3>4. \A s \in Step :
            /\ Proceed(h, [call[h] EXCEPT !.step = s]) => call'[h].step = s
            /\ \A b : Proceed(h, [call[h] EXCEPT !.step = s, !.replace = b]) => call'[h].step = s
      <4>1. ASSUME NEW s \in Step, Proceed(h, [call[h] EXCEPT !.step = s])
            PROVE  call'[h].step = s
        <5>1. call'[h] = [call[h] EXCEPT !.step = s]
          BY <1>1, <4>1
        <5> QED
          BY <3>2, <5>1
      <4>2. ASSUME NEW s \in Step, NEW b, Proceed(h, [call[h] EXCEPT !.step = s, !.replace = b])
            PROVE  call'[h].step = s
        <5>1. call'[h] = [call[h] EXCEPT !.step = s, !.replace = b]
          BY <1>1, <4>2
        <5> QED
          BY <3>2, <5>1
      <4> QED
        BY <4>1, <4>2
    <3>5. {"create_insert", "rename_insert"} \subseteq Step
      BY DEF Step, Creating, Renaming
    <3>6. ASSUME CreateCheck(h)
          PROVE  /\ call[h].step = "create_check" /\ entries' = entries
                 /\ call'[h].step \in {"idle", "create_insert"}
      BY <3>3, <3>4, <3>5, <3>6 DEF CreateCheck
    <3>7. ASSUME RenameCheck(h)
          PROVE  /\ call[h].step = "rename_check" /\ entries' = entries
                 /\ call'[h].step \in {"idle", "rename_insert"}
      BY <3>3, <3>4, <3>5, <3>7 DEF RenameCheck
    <3>8. ASSUME ReadRecheck(h) \/ CreateReread(h)
          PROVE  /\ call[h].step \in {"read_recheck", "create_reread"} /\ entries' = entries
                 /\ call'[h].step = "idle"
      BY <3>3, <3>8 DEF ReadRecheck, CreateReread
    <3> QED
      BY <1>3, <3>6, <3>7, <3>8
  <2> QED
    BY <2>1 DEF Inserting, Patching
<1>4. CASE WriteInsert(h) \/ SetFileSizeInsert(h)
  <2>1. call[h].step \in Patching /\ call'[h].step = "idle"
    BY <1>1, <1>4 DEF WriteInsert, SetFileSizeInsert, Return, Idle, Patching
  <2> QED
    BY <2>1 DEF Inserting, Patching
<1>5. CASE CreateInsert(h)
  <2>1. /\ call[h].step = "create_insert" /\ call'[h].step = "create_reread"
        /\ entries' \in {WithCreatedFile(entries, k, {}), WithCreatedDir(entries, k)}
    <3>1. call[h].step = "create_insert"
      BY <1>5 DEF CreateInsert
    <3>2. \A node : [call[h] EXCEPT !.step = "create_reread", !.got = node].step = "create_reread"
      BY <1>0 DEF Call
    <3>3. call'[h].step = "create_reread"
      BY <1>1, <1>5, <3>2 DEF CreateInsert
    <3>4. entries' \in {WithCreatedFile(entries, k, {}), WithCreatedDir(entries, k)}
      BY <1>5 DEF CreateInsert, Install
    <3> QED
      BY <3>1, <3>3, <3>4
  <2>2. {} \in Contents
    BY AdapterAssumption
  <2> QED
    BY <1>0, <2>1, <2>2, ViewOfUpdate DEF Inserting
<1>6. CASE RenameInsert(h)
  <2>1. /\ call[h].step = "rename_insert" /\ call'[h].step = "rename_delete"
        /\ call'[h].at = k
    BY <1>0, <1>1, <1>6 DEF RenameInsert, Call
  <2> QED
    BY <2>1 DEF Inserting
<1>7. CASE RenameDelete(h)
  <2>1. /\ call[h].step = "rename_delete" /\ call'[h].step = "idle"
        /\ entries' = WithDeleted(entries, k)
    BY <1>1, <1>7 DEF RenameDelete, Install, Return, Idle
  <2> QED
    BY <1>0, <2>1, EmptyAssumption, ViewOfUpdate DEF Inserting
<1> QED
  BY <1>2, <1>3, <1>4, <1>5, <1>6, <1>7 DEF Continue

(* The paths whose node a rename has moved and not yet taken away.         *)
Away == {k \in Keys : \E g \in Handles : Moved(g) /\ call[g].at = k}

LEMMA SettledIsViewButAway ==
  /\ Settled = [k \in Keys |-> IF k \in Away THEN Absent ELSE View(entries)[k]]
  /\ Settled' = [k \in Keys |-> IF k \in Away' THEN Absent ELSE View(entries')[k]]
BY DEF Settled, Away, View, ShownAt

(* A step that disturbs no rename leaves alone what the others have moved. *)
LEMMA OthersStayMoved ==
  ASSUME TypeOK, NEW h \in Handles, Begin(h) \/ Continue(h),
         \A g \in Handles : Moved(g) => g \notin raced'
  PROVE  \A g \in Handles \ {h} : call'[g] = call[g] /\ (Moved(g)' <=> Moved(g))
<1> SUFFICES ASSUME NEW g \in Handles \ {h}
             PROVE  call'[g] = call[g] /\ (Moved(g)' <=> Moved(g))
  OBVIOUS
<1>1. Bystander(g)
  BY OthersAreBystanders
<1> QED
  BY <1>1 DEF Bystander, Moved, Holding, Renaming

(* While one handle is in a create or a rename, no other has moved a node. *)
LEMMA OnlyOneMoves ==
  ASSUME OneNamesAtATime, NEW h \in Handles, call[h].step \in Creating \cup Renaming,
         NEW g \in Handles, Moved(g)
  PROVE  g = h
BY DEF OneNamesAtATime, Naming, Moved, Renaming

(* What each step makes of the settled tree.                               *)
LEMMA StepsOnWhatIsSettled ==
  ASSUME TypeOK, ReadersInv, OneNamesAtATime, HoldersInv,
         NEW h \in Handles, Begin(h) \/ Continue(h), call'[h] # call[h], h \notin raced,
         \A g \in Handles : Moved(g) => g \notin raced'
  PROVE  LET k == call[h].at
             step == call[h].step
         IN  /\ step \in Patching => Settled[k].kind = "file"
             /\ step = "write_insert" =>
                  Settled' = [Settled EXCEPT ![k] = File(Settled[k].content \cup {writes'})]
             /\ step = "size_insert" =>
                  \E c \in SUBSET Settled[k].content : Settled' = [Settled EXCEPT ![k] = File(c)]
             /\ step = "create_insert" =>
                  \E node \in {File({}), Directory} : Settled' = [Settled EXCEPT ![k] = node]
             /\ step = "rename_insert" =>
                  /\ Settled[k] # Absent
                  /\ Settled' = [Settled EXCEPT ![call[h].to] = Settled[k], ![k] = Absent]
             /\ step \notin Inserting => Settled' = Settled
<1> DEFINE k == call[h].at
           step == call[h].step
           old == View(entries)
           new == View(entries')
<1>0. k \in Keys /\ call[h].to \in Keys
  BY DEF TypeOK, Call
<1>1. /\ step \in Patching => old[k].kind = "file"
      /\ step = "write_insert" => new = [old EXCEPT ![k] = File(old[k].content \cup {writes'})]
      /\ step = "size_insert" =>
           \E c \in SUBSET old[k].content : new = [old EXCEPT ![k] = File(c)]
      /\ step = "rename_insert" => old[k] # Absent /\ new = [old EXCEPT ![call[h].to] = old[k]]
  BY InsertsOfWhatIsThere
<1>2. /\ step = "create_insert" =>
           \E node \in {File({}), Directory} : new = [old EXCEPT ![k] = node]
      /\ step = "rename_delete" => new = [old EXCEPT ![k] = Absent]
      /\ step \notin Inserting \cup {"rename_delete"} => entries' = entries
      /\ step = "rename_insert" => call'[h].step = "rename_delete" /\ call'[h].at = k
      /\ call'[h].step = "rename_delete" => step = "rename_insert"
  BY OtherCalls
<1>3. \A g \in Handles \ {h} : call'[g] = call[g] /\ (Moved(g)' <=> Moved(g))
  BY OthersStayMoved
<1>4. old = [l \in Keys |-> old[l]] /\ new = [l \in Keys |-> new[l]]
  BY DEF View
<1>5. /\ Settled = [l \in Keys |-> IF l \in Away THEN Absent ELSE old[l]]
      /\ Settled' = [l \in Keys |-> IF l \in Away' THEN Absent ELSE new[l]]
  BY SettledIsViewButAway
<1>6. /\ step # "rename_delete" => ~ Moved(h)
      /\ call'[h].step # "rename_delete" => ~ Moved(h)'
  BY DEF Moved
<1>7. step \notin {"rename_insert", "rename_delete"} => Away' = Away
  BY <1>2, <1>3, <1>6 DEF Away
<1>8. ASSUME step \in Patching
      PROVE  k \notin Away
  <2>1. SUFFICES ASSUME NEW g \in Handles, Moved(g), call[g].at = k
                 PROVE  FALSE
    BY DEF Away
  <2>2. g # h /\ call[g].step = "rename_delete" /\ call'[g] = call[g]
    BY <1>3, <1>8, <2>1 DEF Moved, Patching
  <2>3. WriteInsert(h) \/ SetFileSizeInsert(h)
    BY <1>8 DEF Begin, Continue, Open, Create, Rename, SetDelete, Cleanup, Close, Read, Write,
                SetFileSize, ReadFull, Overwrite, Ready, Vacant, Patching, ReadRecheck,
                CreateCheck, CreateInsert, CreateReread, RenameCheck, RenameInsert, RenameDelete
  <2>4. k = file[h].path
    BY <1>8 DEF ReadersInv, Aimed, Reading
  <2>5. g \in raced'
    BY <2>1, <2>2, <2>3, <2>4 DEF WriteInsert, SetFileSizeInsert, Install, Renaming
  <2> QED
    BY <2>1, <2>5
<1> HIDE DEF old, new
<1>9. ASSUME NEW node, new = [old EXCEPT ![k] = node], Away' = Away, k \notin Away
      PROVE  Settled' = [Settled EXCEPT ![k] = node]
  BY <1>0, <1>4, <1>5, <1>9
<1>10. ASSUME step \in Patching
       PROVE  Settled[k] = old[k] /\ Away' = Away
  BY <1>0, <1>5, <1>7, <1>8, <1>10 DEF Patching
<1>11. step \in Patching => Settled[k].kind = "file"
  BY <1>1, <1>10
<1>12. ASSUME step = "write_insert"
       PROVE  Settled' = [Settled EXCEPT ![k] = File(Settled[k].content \cup {writes'})]
  BY <1>1, <1>8, <1>9, <1>10, <1>12 DEF Patching
<1>13. ASSUME step = "size_insert"
       PROVE  \E c \in SUBSET Settled[k].content : Settled' = [Settled EXCEPT ![k] = File(c)]
  BY <1>1, <1>8, <1>9, <1>10, <1>13 DEF Patching
<1>14. ASSUME step \in {"create_insert", "rename_insert"}
       PROVE  Away = {}
  BY <1>6, <1>14, OnlyOneMoves DEF Away, Creating, Renaming
<1>15. ASSUME step = "create_insert"
       PROVE  \E node \in {File({}), Directory} : Settled' = [Settled EXCEPT ![k] = node]
  BY <1>2, <1>7, <1>9, <1>14, <1>15
<1>16. ASSUME step = "rename_insert"
       PROVE  /\ Settled[k] # Absent
              /\ Settled' = [Settled EXCEPT ![call[h].to] = Settled[k], ![k] = Absent]
  <2>1. Settled = old
    BY <1>4, <1>5, <1>14, <1>16
  <2>2. h \notin raced'
    <3>1. RenameInsert(h)
      BY <1>16 DEF Begin, Continue, Open, Create, Rename, SetDelete, Cleanup, Close, Read, Write,
                   SetFileSize, ReadFull, Overwrite, Ready, Vacant, ReadRecheck, WriteInsert,
                   SetFileSizeInsert, CreateCheck, CreateInsert, CreateReread, RenameCheck,
                   RenameDelete
    <3> QED
      BY <3>1 DEF RenameInsert, Install
  <2>3. Moved(h)'
    BY <1>2, <1>16, <2>2 DEF Moved
  <2>4. \A g \in Handles : Moved(g)' => g = h
    BY <1>3, <1>6, <1>16, OnlyOneMoves DEF Renaming
  <2>5. Away' = {k}
    BY <1>0, <1>2, <1>16, <2>3, <2>4 DEF Away
  <2>6. new = [old EXCEPT ![call[h].to] = old[k]] /\ old[k] # Absent
    BY <1>1, <1>16
  <2>7. Settled' = [l \in Keys |-> IF l = k THEN Absent ELSE new[l]]
    BY <1>5, <2>5
  <2>8. Settled' = [old EXCEPT ![call[h].to] = old[k], ![k] = Absent]
    BY <1>0, <1>4, <2>6, <2>7
  <2> QED
    BY <2>1, <2>6, <2>8
<1>17. ASSUME step \notin Inserting
       PROVE  Settled' = Settled
  <2>1. CASE step = "rename_delete"
    <3>1. Moved(h)
      BY <2>1 DEF Moved
    <3>2. \A g \in Handles : Moved(g) => g = h
      BY <2>1, OnlyOneMoves DEF Renaming
    <3>3. ~ Moved(h)'
      BY <1>2, <1>6, <2>1
    <3>4. Away = {k} /\ Away' = {}
      BY <1>0, <1>3, <3>1, <3>2, <3>3 DEF Away
    <3> QED
      BY <1>0, <1>2, <1>4, <1>5, <2>1, <3>4
  <2>2. CASE step # "rename_delete"
    <3>1. new = old /\ Away' = Away
      BY <1>2, <1>7, <1>17, <2>2 DEF old, new, Inserting
    <3> QED
      BY <1>5, <3>1
  <2> QED
    BY <2>1, <2>2
<1> QED
  BY <1>11, <1>12, <1>13, <1>15, <1>16, <1>17

(* As long as no other callback touches their path, writes, resizes,       *)
(* creates and renames each act as one operation of a plain volume.        *)
THEOREM AdapterActsAsAVolume == Spec => CallbacksActAsOne
<1> DEFINE IInv == /\ ReadersInv /\ CheckedNamesAreFree /\ OneNamesAtATime /\ HoldersInv
<1>1. Init => IInv
  BY ReadersStart, NothingLostStart
  DEF Init, CheckedNamesAreFree, Knows, OneNamesAtATime, Naming, Creating, Renaming, Idle
<1>2. TypeOK /\ IInv /\ [Next]_vars => IInv'
  BY ReadersStep, CheckedNamesStep, OneNamesStep, HoldersStep
<1> DEFINE AsOne ==
      \A h \in Handles :
        LET k == call[h].at
            step == call[h].step
        IN  /\ call'[h] # call[h] /\ h \notin raced
            /\ \A g \in Handles : Moved(g) => g \notin raced'
            => /\ step \in Patching => Settled[k].kind = "file"
               /\ step = "write_insert" =>
                    Settled' = [Settled EXCEPT ![k] = File(Settled[k].content \cup {writes'})]
               /\ step = "size_insert" =>
                    \E c \in SUBSET Settled[k].content : Settled' = [Settled EXCEPT ![k] = File(c)]
               /\ step = "create_insert" =>
                    \E node \in {File({}), Directory} : Settled' = [Settled EXCEPT ![k] = node]
               /\ step = "rename_insert" =>
                    /\ Settled[k] # Absent
                    /\ Settled' = [Settled EXCEPT ![call[h].to] = Settled[k], ![k] = Absent]
               /\ step \notin Inserting => Settled' = Settled
<1>3. TypeOK /\ IInv /\ [Next]_vars => [AsOne]_vars
  <2> SUFFICES ASSUME TypeOK, IInv, Next, NEW h \in Handles, call'[h] # call[h],
                      h \notin raced, \A g \in Handles : Moved(g) => g \notin raced'
               PROVE  LET k == call[h].at
                          step == call[h].step
                      IN  /\ step \in Patching => Settled[k].kind = "file"
                          /\ step = "write_insert" =>
                               Settled' = [Settled EXCEPT ![k] = File(Settled[k].content \cup {writes'})]
                          /\ step = "size_insert" =>
                               \E c \in SUBSET Settled[k].content : Settled' = [Settled EXCEPT ![k] = File(c)]
                          /\ step = "create_insert" =>
                               \E node \in {File({}), Directory} : Settled' = [Settled EXCEPT ![k] = node]
                          /\ step = "rename_insert" =>
                               /\ Settled[k] # Absent
                               /\ Settled' = [Settled EXCEPT ![call[h].to] = Settled[k], ![k] = Absent]
                          /\ step \notin Inserting => Settled' = Settled
    OBVIOUS
  <2>1. PICK g \in Handles : Begin(g) \/ Continue(g)
    BY DEF Next
  <2>2. g = h
    BY <2>1, OthersAreBystanders DEF Bystander
  <2> QED
    BY <2>1, <2>2, StepsOnWhatIsSettled
<1> QED
  BY <1>1, <1>2, <1>3, AdapterTyping, PTL DEF Spec, CallbacksActAsOne

==============================================================================
