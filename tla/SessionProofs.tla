----------------------------- MODULE SessionProofs -----------------------------
(***************************************************************************)
(* Theorems about Session, for every set of handles and keys, every image, *)
(* any number of mounts, and any width of u64, sector and device.          *)
(***************************************************************************)
EXTENDS Session, AdapterProofs

(* The inductive invariant, besides types and AdapterProofs' invariant of  *)
(* a read-only volume: what the order of run's steps leaves behind.        *)
NothingBeforeStart == stage \in {"off", "opened"} => entries = EmptyMap

NothingRunsAfterStop ==
  stage \in {"stopped", "saving", "writing"} => \A h \in Handles : call[h].step = "idle"

SnapshotIsFinal == stage \in {"saving", "writing"} => policy = "sidecar" /\ json = entries

SliceFits == slice.base + slice.len <= DeviceSize

SessionInv ==
  /\ SessionTypeOK /\ ReadOnlyOnlyReads
  /\ NothingBeforeStart /\ NothingRunsAfterStop /\ SnapshotIsFinal /\ SliceFits

------------------------------------------------------------------------------
(* The slice.                                                              *)

(* Reduction modulo the word, as u64 arithmetic does it.                   *)
LEMMA Wrapping ==
  /\ \A x \in Nat : x % Word \in U64
  /\ \A x \in U64 : x % Word = x
<1>1. \A x \in Nat : x % Word \in U64
  BY WordAssumption DEF U64
<1>2. \A x \in U64 : x % Word = x
  BY WordAssumption DEF U64
<1> QED
  BY <1>1, <1>2

(* Every slice Mount::open can make is a slice, and lies on the device.    *)
LEMMA OpenableSlices ==
  \A s \in Openable : s \in Slice /\ s.base + s.len <= DeviceSize
<1>1. DirectSlice \in Slice /\ DirectSlice.base + DirectSlice.len <= DeviceSize
  BY WordAssumption DEF DirectSlice, Slice, U64
<1>2. ASSUME NEW start \in U64, NEW n \in U64, NEW s \in PartitionSlice(start, n)
      PROVE  s \in Slice /\ s.base + s.len <= DeviceSize
  <2>1. start * SectorSize \in Nat /\ n * SectorSize \in Nat
    BY WordAssumption DEF U64
  <2>2. (start * SectorSize) % Word \in U64 /\ (n * SectorSize) % Word \in U64
    BY <2>1, Wrapping
  <2> QED
    BY <1>2, <2>2 DEF PartitionSlice, CheckedAdd, Slice
<1> QED
  BY <1>1, <1>2 DEF Openable

(* Whatever the reader asks of a slice that lies on the device stays in    *)
(* it: the unchecked addition of the slice's start cannot wrap.            *)
LEMMA ReadsOfAFittingSlice == slice \in Slice /\ SliceFits => ReadsStayInTheSlice
<1> SUFFICES ASSUME slice \in Slice, SliceFits, NEW offset \in U64, NEW want \in U64
             PROVE  /\ \A at \in ReadAt(slice, offset, want) :
                          slice.base <= at /\ at + want <= slice.base + slice.len
                    /\ offset + want <= slice.len =>
                          ReadAt(slice, offset, want) = {slice.base + offset}
  BY DEF ReadsStayInTheSlice, SliceFits
<1>1. /\ slice.base \in Nat /\ slice.len \in Nat /\ offset \in Nat /\ want \in Nat
      /\ slice.len < Word /\ slice.base + slice.len < Word /\ Word \in Nat
  BY WordAssumption DEF Slice, U64, SliceFits
<1>2. CASE offset + want <= slice.len
  <2>1. (slice.base + offset) % Word = slice.base + offset
    <3>1. slice.base + offset \in U64
      BY <1>1, <1>2 DEF U64
    <3> QED
      BY <3>1, Wrapping
  <2>2. CheckedAdd(offset, want) = {offset + want}
    BY <1>1, <1>2 DEF CheckedAdd
  <2>3. ReadAt(slice, offset, want) = {slice.base + offset}
    BY <1>2, <2>1, <2>2 DEF ReadAt
  <2> QED
    BY <1>1, <1>2, <2>3
<1>3. CASE ~ (offset + want <= slice.len)
  BY <1>3 DEF ReadAt, CheckedAdd
<1> QED
  BY <1>2, <1>3

------------------------------------------------------------------------------
(* Types.                                                                  *)

(* A process starts with an overlay and handles that are well formed, and  *)
(* in no callback.                                                         *)
LEMMA AfreshTyped ==
  ASSUME Afresh, readOnly' \in BOOLEAN
  PROVE  /\ TypeOK' /\ ReadOnlyOnlyReads'
         /\ entries' = EmptyMap
         /\ \A h \in Handles : call'[h].step = "idle"
<1>1. TypeOK'
  BY EmptyMapTyped, ConstantsTyped, AdapterAssumption DEF Afresh, Closed, TypeOK
<1> QED
  BY <1>1 DEF Afresh, ReadOnlyOnlyReads, Idle

(* The initial state satisfies the invariant.                              *)
LEMMA SessionStarts == SessionInit => SessionInv
<1> SUFFICES ASSUME SessionInit
             PROVE  SessionInv
  OBVIOUS
<1>1. TypeOK
  BY EmptyMapTyped, ConstantsTyped, AdapterAssumption DEF SessionInit, Init, Closed, TypeOK
<1>2. slice \in Slice /\ SliceFits
  BY OpenableSlices DEF SessionInit, Openable, SliceFits
<1>3. SessionTypeOK
  <2>1. mounts \in 0..MaxMounts
    BY SessionAssumption DEF SessionInit
  <2>2. json \in Map /\ disk \in [state : {"none", "torn", "whole"}, map : Map]
    BY EmptyMapTyped DEF SessionInit, NoFile
  <2>3. stage \in Stage /\ handler \in {"default", "set", "failed"} /\ pressed \in BOOLEAN
    BY DEF SessionInit, Stage
  <2> QED
    BY <1>1, <1>2, <2>1, <2>2, <2>3 DEF SessionInit, SessionTypeOK
<1>4. ReadOnlyOnlyReads
  BY DEF SessionInit, Init, ReadOnlyOnlyReads, Idle
<1> QED
  BY <1>2, <1>3, <1>4
  DEF SessionInv, SessionInit, Init, NothingBeforeStart, NothingRunsAfterStop, SnapshotIsFinal

(* A process that ends leaves nothing behind but the sidecar.              *)
LEMMA ExitKeepsInv ==
  ASSUME SessionInv, NEW how \in {"quiet", "complained", "killed"}, Exit(how),
         NEW d \in [state : {"none", "torn", "whole"}, map : Map], disk' = d
  PROVE  SessionInv'
<1>1. readOnly' \in BOOLEAN
  BY DEF SessionInv, SessionTypeOK, TypeOK, Exit
<1>2. /\ TypeOK' /\ ReadOnlyOnlyReads'
      /\ entries' = EmptyMap
  BY <1>1, AfreshTyped DEF Exit
<1>3. slice' \in Slice /\ SliceFits'
  BY OpenableSlices DEF Exit, Openable, SliceFits
<1>4. SessionTypeOK'
  BY <1>2, <1>3, EmptyMapTyped DEF SessionInv, SessionTypeOK, Exit, Stage
<1> QED
  BY <1>2, <1>3, <1>4
  DEF SessionInv, Exit, NothingBeforeStart, NothingRunsAfterStop, SnapshotIsFinal

(* A step of a callback is a step of Adapter.                              *)
LEMMA CallbacksAreAdapterSteps ==
  Serve \/ (\E h \in Handles : Finish(h)) => Next
BY DEF Serve, Finish, Next

(* Each step keeps the invariant.                                          *)
LEMMA SessionStep == SessionInv /\ [SessionNext]_session => SessionInv'
<1> SUFFICES ASSUME SessionInv, [SessionNext]_session
             PROVE  SessionInv'
  OBVIOUS
<1>0. /\ TypeOK /\ disk \in [state : {"none", "torn", "whole"}, map : Map]
      /\ json \in Map /\ entries \in Map
  BY DEF SessionInv, SessionTypeOK, TypeOK
<1>1. CASE Launch
  <2>1. /\ TypeOK' /\ ReadOnlyOnlyReads'
        /\ entries' = EmptyMap
    BY <1>1, AfreshTyped DEF Launch
  <2>2. slice' \in Slice /\ SliceFits'
    BY <1>1, OpenableSlices DEF Launch, SliceFits
  <2>3. mounts' \in 0..MaxMounts
    BY <1>1, SessionAssumption DEF Launch, SessionInv, SessionTypeOK
  <2>4. SessionTypeOK'
    BY <1>1, <2>1, <2>2, <2>3 DEF Launch, SessionInv, SessionTypeOK, Stage
  <2> QED
    BY <1>1, <2>1, <2>2, <2>4
    DEF SessionInv, Launch, NothingBeforeStart, NothingRunsAfterStop, SnapshotIsFinal
<1>2. ASSUME UNCHANGED vars, UNCHANGED slice, UNCHANGED <<disk>>
      PROVE  /\ TypeOK' /\ ReadOnlyOnlyReads' /\ SliceFits'
             /\ entries' = entries /\ call' = call
  BY <1>0, <1>2 DEF SessionInv, vars, history, TypeOK, ReadOnlyOnlyReads, SliceFits
<1>3. CASE LaunchFails
  <2>1. mounts' \in 0..MaxMounts
    BY <1>3, SessionAssumption DEF LaunchFails, SessionInv, SessionTypeOK
  <2> QED
    BY <1>2, <1>3, <2>1 DEF LaunchFails, SessionInv, SessionTypeOK, Stage,
         NothingBeforeStart, NothingRunsAfterStop, SnapshotIsFinal
<1>4. CASE StartHost \/ SetHandler \/ Receive
  BY <1>2, <1>4 DEF StartHost, SetHandler, Receive, SessionInv, SessionTypeOK, Stage, Serving,
       NothingBeforeStart, NothingRunsAfterStop, SnapshotIsFinal
<1>5. CASE Stop
  BY <1>2, <1>5 DEF Stop, SessionInv, SessionTypeOK, Stage,
       NothingBeforeStart, NothingRunsAfterStop, SnapshotIsFinal
<1>6. CASE Snapshot
  BY <1>0, <1>2, <1>6 DEF Snapshot, SessionInv, SessionTypeOK, Stage,
       NothingBeforeStart, NothingRunsAfterStop, SnapshotIsFinal
<1>7. CASE Truncate
  <2>1. disk' \in [state : {"none", "torn", "whole"}, map : Map]
    BY <1>7, EmptyMapTyped DEF Truncate, Torn
  <2>2. /\ TypeOK' /\ ReadOnlyOnlyReads' /\ SliceFits'
        /\ entries' = entries /\ call' = call
    BY <1>0, <1>7 DEF Truncate, SessionInv, vars, history, TypeOK, ReadOnlyOnlyReads, SliceFits
  <2> QED
    BY <1>7, <2>1, <2>2 DEF Truncate, SessionInv, SessionTypeOK, Stage,
         NothingBeforeStart, NothingRunsAfterStop, SnapshotIsFinal
<1>8. CASE PressCtrlC
  <2>1. CASE handler = "set"
    BY <1>2, <1>8, <2>1 DEF PressCtrlC, SessionInv, SessionTypeOK,
         NothingBeforeStart, NothingRunsAfterStop, SnapshotIsFinal
  <2>2. CASE UNCHANGED disk /\ Exit("killed")
    BY <1>0, <2>2, ExitKeepsInv
  <2> QED
    BY <1>8, <2>1, <2>2 DEF PressCtrlC
<1>9. CASE \/ StartHostFails \/ Discard \/ SnapshotFails \/ TruncateFails \/ FillFails \/ Kill
  <2>1. UNCHANGED disk /\ \E how \in {"quiet", "complained", "killed"} : Exit(how)
    BY <1>9 DEF StartHostFails, Discard, SnapshotFails, TruncateFails, FillFails, Kill
  <2> QED
    BY <1>0, <2>1, ExitKeepsInv
<1>10. CASE Fill
  <2>1. Exit("quiet") /\ disk' = Whole(json)
    BY <1>10 DEF Fill
  <2>2. Whole(json) \in [state : {"none", "torn", "whole"}, map : Map]
    BY <1>0 DEF Whole
  <2> QED
    BY <2>1, <2>2, ExitKeepsInv
<1>11. CASE Serve
  <2>1. TypeOK' /\ ReadOnlyOnlyReads'
    BY <1>0, <1>11, CallbacksAreAdapterSteps, NextTyped, ReadOnlyStep DEF SessionInv
  <2> QED
    BY <1>11, <2>1 DEF Serve, process, Serving, SessionInv, SessionTypeOK, SliceFits,
         NothingBeforeStart, NothingRunsAfterStop, SnapshotIsFinal
<1>12. ASSUME NEW h \in Handles, Finish(h)
       PROVE  SessionInv'
  <2>1. TypeOK' /\ ReadOnlyOnlyReads'
    BY <1>0, <1>12, CallbacksAreAdapterSteps, NextTyped, ReadOnlyStep DEF SessionInv
  <2>2. call[h].step # "idle"
    BY <1>12 DEF Finish, Continue, ReadRecheck, WriteInsert, SetFileSizeInsert, CreateCheck,
                 CreateInsert, CreateReread, RenameCheck, RenameInsert, RenameDelete
  <2>3. stage = "stopping" /\ stage' = "stopping"
    BY <1>12, <2>2 DEF Finish, process, SessionInv, NothingRunsAfterStop
  <2> QED
    BY <1>12, <2>1, <2>3 DEF Finish, process, SessionInv, SessionTypeOK, SliceFits,
         NothingBeforeStart, NothingRunsAfterStop, SnapshotIsFinal
<1>13. CASE UNCHANGED session
  BY <1>2, <1>13 DEF session, process, SessionInv, SessionTypeOK,
       NothingBeforeStart, NothingRunsAfterStop, SnapshotIsFinal
<1> QED
  BY <1>1, <1>3, <1>4, <1>5, <1>6, <1>7, <1>8, <1>9, <1>10, <1>11, <1>12, <1>13
  DEF SessionNext, MainThread

(* Every state of every mount is well formed.                              *)
THEOREM SessionTyping == SessionSpec => []SessionTypeOK
<1>1. SessionInv => SessionTypeOK
  BY DEF SessionInv
<1> QED
  BY <1>1, SessionStarts, SessionStep, PTL DEF SessionSpec

(* Whatever table entry --part names, and whatever offset and length the   *)
(* reader then asks for, nothing outside the slice is read, and nothing    *)
(* outside the device; and nothing inside the slice is refused.            *)
THEOREM SliceReads == SessionSpec => []ReadsStayInTheSlice
<1>1. SessionInv => ReadsStayInTheSlice
  BY ReadsOfAFittingSlice DEF SessionInv, SessionTypeOK
<1> QED
  BY <1>1, SessionStarts, SessionStep, PTL DEF SessionSpec

------------------------------------------------------------------------------
(* The mount keeps the promise of Scratch.                                 *)

(* The promise's variables, as Session has them.                           *)
Writable == ~ readOnly
Keeping  == policy = "sidecar"
Tree     == View(entries)
Kept     == [state |-> disk.state, tree |-> View(disk.map)]

(* An overlay method changes the view at the key it names, to a node.      *)
LEMMA ViewOfUpdates ==
  ASSUME NEW map \in Map, NEW k \in Keys, NEW c \in Contents, NEW new \in Updates(map, k, c)
  PROVE  \E node \in Node : View(new) = [View(map) EXCEPT ![k] = node]
<1>1. new \in Map /\ \A l \in Keys \ {k} : new[l] = map[l]
  BY MapUpdates
<1>2. Shown(new[k], Underlay[k]) \in Node
  BY <1>1, ShownIsANode DEF ShownAt
<1>3. View(new) = [View(map) EXCEPT ![k] = Shown(new[k], Underlay[k])]
  BY <1>1 DEF View
<1> QED
  BY <1>2, <1>3

(* While the volume is up, a callback's step changes at most one path of   *)
(* it, and none of a read-only one.                                        *)
LEMMA CallbacksRefine ==
  ASSUME SessionInv, Next, UNCHANGED process, Mode = "up"
  PROVE  [Promise!Next]_<<Mode, ~ readOnly, policy = "sidecar", View(entries),
                          [state |-> disk.state, tree |-> View(disk.map)], told>>
<1>1. /\ Mode' = Mode /\ Writable' = Writable /\ Keeping' = Keeping
      /\ Kept' = Kept /\ told' = told
  BY DEF Next, process, Mode, Writable, Keeping, Kept, View
<1>2. Tree' = View(entries')
  BY DEF Tree, View
<1>3. entries \in Map /\ TypeOK /\ [Next]_vars
  BY DEF SessionInv, SessionTypeOK, TypeOK
<1>4. CASE entries' = entries
  BY <1>1, <1>2, <1>4 DEF Writable, Keeping, Kept, Tree
<1>5. CASE entries' # entries
  <2>1. ~ readOnly
    <3> SUFFICES ASSUME readOnly PROVE FALSE
      OBVIOUS
    <3>1. ReadOnlyOnlyReads /\ ReadOnlyOnlyReads' /\ readOnly'
      BY <1>3, ReadOnlyStep DEF SessionInv, Next
    <3> QED
      BY <1>5, <3>1 DEF ReadOnlyOnlyReads
  <2>2. PICK k \in Keys, c \in Contents : entries' \in Updates(entries, k, c)
    BY <1>3, <1>5, StepUpdatesTheMap
  <2>3. PICK node \in Node : View(entries') = [View(entries) EXCEPT ![k] = node]
    BY <1>3, <2>2, ViewOfUpdates
  <2>4. Promise!Change(k, node)
    BY <1>1, <1>2, <2>1, <2>3 DEF Promise!Change, Writable, Keeping, Kept, Tree
  <2>5. node \in Promise!Node
    BY <2>2, <2>3 DEF Promise!Node, Promise!NodeKinds, Node, NodeKinds
  <2> QED
    BY <2>4, <2>5 DEF Promise!Next
<1> QED
  BY <1>4, <1>5

(* A process that ends shows the image again.                              *)
LEMMA ExitsEnd ==
  ASSUME NEW how, Exit(how)
  PROVE  Promise!End(how)
<1>1. Mode' = "down" /\ told' = how
  BY DEF Exit, Mode
<1>2. Tree' = Underlay
  <2>1. Tree' = View(entries')
    BY DEF Tree, View
  <2>2. entries' = EmptyMap
    BY DEF Exit, Afresh
  <2> QED
    BY <2>1, <2>2, ViewOfEmpty
<1>3. Writable' = Writable /\ Keeping' = Keeping
  BY DEF Exit, Writable, Keeping
<1> QED
  BY <1>1, <1>2, <1>3 DEF Promise!End, Tree, Writable, Keeping

(* What the steps of the main thread and the signal do to the promise.     *)
LEMMA ProcessRefines ==
  ASSUME SessionInv,
         Launch \/ LaunchFails \/ StartHost \/ StartHostFails \/ MainThread \/ PressCtrlC \/ Kill
  PROVE  [Promise!Next]_<<Mode, ~ readOnly, policy = "sidecar", View(entries),
                          [state |-> disk.state, tree |-> View(disk.map)], told>>
<1> DEFINE Goal == [Promise!Next]_<<Mode, ~ readOnly, policy = "sidecar", View(entries),
                                    [state |-> disk.state, tree |-> View(disk.map)], told>>
<1>a. Tree' = View(entries') /\ Kept' = [state |-> disk'.state, tree |-> View(disk'.map)]
  BY DEF Tree, Kept, View
<1>b. /\ UNCHANGED vars => Tree' = Tree /\ Writable' = Writable
      /\ UNCHANGED policy => Keeping' = Keeping
      /\ UNCHANGED disk => Kept' = Kept
  BY <1>a DEF vars, Tree, Writable, Keeping, Kept
<1>c. /\ stage = "off" => Mode = "down"
      /\ stage \in {"stopped", "saving", "writing"} => Mode = "closing"
      /\ stage \in {"opened", "started", "waiting", "stopping"} => Mode = "up"
  BY DEF Mode
<1>d. /\ stage' \in {"stopped", "saving", "writing"} => Mode' = "closing"
      /\ stage' \in {"opened", "started", "waiting", "stopping"} => Mode' = "up"
  BY DEF Mode
<1>e. stage # "off" => Mode # "down"
  BY DEF Mode
<1>1. ASSUME Launch PROVE Goal
  <2>1. /\ Mode = "down" /\ Mode' = "up" /\ told' = "nothing"
        /\ Writable' \in BOOLEAN /\ Keeping' \in BOOLEAN
    BY <1>1, <1>c, <1>d DEF Launch, Writable, Keeping
  <2>2. Tree' = Tree /\ Kept' = Kept
    <3>1. entries' = EmptyMap /\ entries = EmptyMap
      BY <1>1 DEF Launch, Afresh, SessionInv, NothingBeforeStart
    <3> QED
      BY <1>1, <1>a, <1>b, <3>1 DEF Launch, Tree
  <2>3. Promise!Mount
    BY <2>1, <2>2 DEF Promise!Mount, Writable, Keeping, Tree, Kept
  <2> QED
    BY <2>3 DEF Promise!Next
<1>2. ASSUME LaunchFails PROVE Goal
  <2>1. /\ Mode = "down" /\ Mode' = "down" /\ told' = "complained"
        /\ Writable' = Writable /\ Keeping' = Keeping /\ Tree' = Tree /\ Kept' = Kept
    BY <1>2, <1>b DEF LaunchFails, Mode
  <2>2. Promise!Refuse
    BY <2>1 DEF Promise!Refuse, Writable, Keeping, Tree, Kept
  <2> QED
    BY <2>2 DEF Promise!Next
<1>3. ASSUME UNCHANGED <<vars, policy, disk, told>>, Mode' = Mode PROVE Goal
  BY <1>3, <1>b DEF Writable, Keeping, Tree, Kept
<1>4. ASSUME StartHost \/ SetHandler \/ Receive \/ Snapshot PROVE Goal
  <2>1. UNCHANGED <<vars, policy, disk, told>> /\ Mode' = Mode
    BY <1>4, <1>c, <1>d DEF StartHost, SetHandler, Receive, Snapshot
  <2> QED
    BY <1>3, <2>1
<1>5. ASSUME Stop PROVE Goal
  <2>1. /\ Mode = "up" /\ Mode' = "closing" /\ told' = told
        /\ Writable' = Writable /\ Keeping' = Keeping /\ Tree' = Tree /\ Kept' = Kept
    BY <1>5, <1>b, <1>c, <1>d DEF Stop
  <2>2. Promise!Close
    BY <2>1 DEF Promise!Close, Writable, Keeping, Tree, Kept
  <2> QED
    BY <2>2 DEF Promise!Next
<1>6. ASSUME Truncate PROVE Goal
  <2>1. /\ Mode = "closing" /\ Mode' = "closing" /\ told' = told /\ Keeping
        /\ Writable' = Writable /\ Keeping' = Keeping /\ Tree' = Tree
    BY <1>6, <1>b, <1>c, <1>d DEF Truncate, SessionInv, SnapshotIsFinal, Keeping
  <2>2. Kept' = [state |-> "torn", tree |-> Underlay]
    BY <1>6, <1>a, ViewOfEmpty DEF Truncate, Torn
  <2>3. Promise!Spoil
    BY <2>1, <2>2 DEF Promise!Spoil, Promise!TornSidecar, Writable, Keeping, Tree, Kept
  <2> QED
    BY <2>3 DEF Promise!Next
<1>7. ASSUME stage # "off", UNCHANGED disk, NEW how \in {"complained", "killed"}, Exit(how)
      PROVE  Goal
  <2>1. Mode # "down" /\ Kept' = Kept
    BY <1>7, <1>b, <1>e
  <2>2. Promise!End(how)
    BY <1>7, ExitsEnd
  <2>3. Promise!Lose
    BY <2>1, <2>2 DEF Promise!Lose, Kept
  <2> QED
    BY <2>3 DEF Promise!Next
<1>8. ASSUME Discard PROVE Goal
  <2>1. Mode = "closing" /\ ~ Keeping /\ Kept' = Kept
    BY <1>8, <1>b, <1>c DEF Discard, Keeping
  <2>2. Promise!End("quiet")
    BY <1>8, ExitsEnd DEF Discard
  <2>3. Promise!Drop
    BY <2>1, <2>2 DEF Promise!Drop, Keeping, Kept
  <2> QED
    BY <2>3 DEF Promise!Next
<1>9. ASSUME Fill PROVE Goal
  <2>1. Mode = "closing" /\ Keeping /\ json = entries
    BY <1>9, <1>c DEF Fill, SessionInv, SnapshotIsFinal, Keeping
  <2>2. Kept' = [state |-> "whole", tree |-> View(entries)]
    BY <1>9, <1>a, <2>1 DEF Fill, Whole
  <2>3. Promise!End("quiet")
    BY <1>9, ExitsEnd DEF Fill
  <2>4. Promise!Save
    BY <2>1, <2>2, <2>3 DEF Promise!Save, Promise!Sidecar, Keeping, Kept
  <2> QED
    BY <2>4 DEF Promise!Next
<1>10. ASSUME StartHostFails \/ SnapshotFails \/ TruncateFails \/ FillFails \/ Kill PROVE Goal
  <2>1. stage # "off" /\ UNCHANGED disk /\ (Exit("complained") \/ Exit("killed"))
    BY <1>10 DEF StartHostFails, SnapshotFails, TruncateFails, FillFails, Kill
  <2> QED
    BY <1>7, <2>1
<1>11. ASSUME PressCtrlC PROVE Goal
  <2>1. CASE handler = "set"
    <3>1. UNCHANGED <<vars, policy, disk, told>> /\ Mode' = Mode
      BY <1>11, <2>1 DEF PressCtrlC, Mode
    <3> QED
      BY <1>3, <3>1
  <2>2. CASE handler # "set"
    <3>1. stage # "off" /\ UNCHANGED disk /\ Exit("killed")
      BY <1>11, <2>2 DEF PressCtrlC
    <3> QED
      BY <1>7, <3>1
  <2> QED
    BY <2>1, <2>2
<1> HIDE DEF Goal
<1>12. Goal
  BY <1>1, <1>2, <1>4, <1>5, <1>6, <1>8, <1>9, <1>10, <1>11 DEF MainThread
<1> QED
  BY <1>12 DEF Goal

(* Every step of a mount is a step of the promise, or shows nothing.       *)
LEMMA SessionRefines ==
  SessionInv /\ SessionInv' /\ [SessionNext]_session
    => [Promise!Next]_<<Mode, ~ readOnly, policy = "sidecar", View(entries),
                        [state |-> disk.state, tree |-> View(disk.map)], told>>
<1> SUFFICES ASSUME SessionInv, [SessionNext]_session
             PROVE  [Promise!Next]_<<Mode, ~ readOnly, policy = "sidecar", View(entries),
                                     [state |-> disk.state, tree |-> View(disk.map)], told>>
  OBVIOUS
<1>1. CASE Launch \/ LaunchFails \/ StartHost \/ StartHostFails \/ MainThread \/ PressCtrlC \/ Kill
  BY <1>1, ProcessRefines
<1>2. CASE Serve
  BY <1>2, CallbacksRefine DEF Serve, Serving, Mode
<1>3. ASSUME NEW h \in Handles, Finish(h)
      PROVE  [Promise!Next]_<<Mode, ~ readOnly, policy = "sidecar", View(entries),
                              [state |-> disk.state, tree |-> View(disk.map)], told>>
  <2>1. call[h].step # "idle"
    BY <1>3 DEF Finish, Continue, ReadRecheck, WriteInsert, SetFileSizeInsert, CreateCheck,
                CreateInsert, CreateReread, RenameCheck, RenameInsert, RenameDelete
  <2>2. Mode = "up"
    BY <1>3, <2>1 DEF Finish, SessionInv, NothingRunsAfterStop, Mode
  <2>3. Next /\ UNCHANGED process
    BY <1>3, CallbacksAreAdapterSteps DEF Finish
  <2> QED
    BY <2>2, <2>3, CallbacksRefine
<1>4. CASE UNCHANGED session
  <2>1. Mode' = Mode /\ Writable' = Writable /\ Keeping' = Keeping /\ told' = told
    BY <1>4 DEF session, process, vars, Mode, Writable, Keeping
  <2>2. Tree' = Tree /\ Kept' = Kept
    BY <1>4 DEF session, process, vars, Tree, Kept, View
  <2> QED
    BY <2>1, <2>2 DEF Writable, Keeping, Tree, Kept
<1> QED
  BY <1>1, <1>2, <1>3, <1>4 DEF SessionNext

(* Whichever callbacks run when, and however the process ends: changes     *)
(* show one at a time, a read-only volume has none, and a process that     *)
(* ends without a complaint and was asked to keep the changes has written  *)
(* all of them, as they were when the volume went.                         *)
THEOREM SessionImplementsScratch == SessionSpec => ImplementsScratch
<1>1. SessionInit => Promise!Init
  BY ViewOfEmpty
  DEF SessionInit, Init, Promise!Init, Promise!NoSidecar, NoFile, Mode
<1> QED
  BY <1>1, SessionStarts, SessionStep, SessionRefines, PTL
  DEF SessionSpec, ImplementsScratch, Promise!Spec

==============================================================================
