------------------------------- MODULE Adapter -------------------------------
(***************************************************************************)
(* The WinFsp adapter of mount.rs (XfsContext): callbacks that run at the  *)
(* same time on open handles, over one overlay and one read-only image.    *)
(*                                                                         *)
(* The overlay's lock is taken and given back once per overlay call, so    *)
(* every overlay call of a callback is a step of its own and what a        *)
(* callback carries from one to the next is in `call`.  Callbacks that     *)
(* only report (get_file_info, get_security_by_name, set_basic_info, the   *)
(* trailing lookup of the write callbacks) change nothing and have no      *)
(* action; so do returns on an error before anything is changed.           *)
(*                                                                         *)
(* A file's content is the set of writes it holds: the image's own bytes   *)
(* are the token of their path, the i-th write to land is the token i and  *)
(* goes to bytes no other write touches.                                   *)
(***************************************************************************)
EXTENDS OverlayMap, Naturals

CONSTANTS Handles,
          MaxWrites,   \* writes in a behaviour; a bound
          DeviceFails  \* whether the image may refuse a read

Token == Keys \cup 1..MaxWrites

ASSUME AdapterAssumption ==
  /\ Keys # {}
  /\ DeviceFails \in BOOLEAN
  /\ MaxWrites \in Nat
  /\ Contents = SUBSET Token /\ Empty = {}
  /\ \A k \in Keys : Underlay[k].kind = "file" => Underlay[k].content = {k}

VARIABLES
  readOnly, \* write_mode is ReadOnly: the mount's, fixed when it is opened
  entries,  \* the overlay's map
  file,     \* what each open handle's XfsFileContext holds
  call,     \* the callback each handle is in, and its local variables
  writes,   \* history: writes that have landed
  forgone,  \* history: bytes destroyed by an operation asked to
  swept,    \* history: bytes a race destroyed, which nobody asked for
  raced,    \* history: handles whose snapshot of a file is out of date
  excused,  \* history: handles whose destination need not be free, as it has
            \* changed since they asked or the device did not tell
  seen      \* history: what a read's path has shown since the read began

history == <<writes, forgone, swept, raced, excused, seen>>
vars == <<readOnly, entries, file, call, history>>

(* `inode` says whether the context caches the image's inode; `name` is    *)
(* the name WinFsp has for the file, which a rename changes and the        *)
(* context's own `path` does not follow.                                   *)
Context == [status : {"closed", "open", "cleaned"}, path : Keys, name : Keys,
            inode : BOOLEAN, isDir : BOOLEAN, pending : BOOLEAN]

(* Where a callback stands between two overlay calls.                      *)
Creating  == {"create_check", "create_insert", "create_reread"}
Renaming  == {"rename_check", "rename_insert", "rename_delete"}
Patching  == {"write_insert", "size_insert"}
Claiming  == {"create_check", "create_insert", "rename_insert"}
Inserting == Patching \cup {"create_insert", "rename_insert"}
Step == {"idle", "read_recheck"} \cup Patching \cup Creating \cup Renaming

Call == [step : Step, at : Keys, to : Keys, got : Node, replace : BOOLEAN]

Destination(c) == IF c.step \in Renaming THEN c.to ELSE c.at

AnyKey == CHOOSE k \in Keys : TRUE
Closed == [status |-> "closed", path |-> AnyKey, name |-> AnyKey,
           inode |-> FALSE, isDir |-> FALSE, pending |-> FALSE]
Idle == [step |-> "idle", at |-> AnyKey, to |-> AnyKey, got |-> Absent, replace |-> FALSE]

Opened(k, inode, isDir) ==
  [status |-> "open", path |-> k, name |-> k, inode |-> inode, isDir |-> isDir, pending |-> FALSE]

TypeOK ==
  /\ readOnly \in BOOLEAN
  /\ entries \in Map
  /\ file \in [Handles -> Context]
  /\ \A h \in Handles : file[h].pending => file[h].status = "open" /\ ~ readOnly
  /\ call \in [Handles -> Call]
  /\ writes \in 0..MaxWrites
  /\ forgone \subseteq Token /\ swept \subseteq Token
  /\ raced \subseteq Handles
  /\ excused \subseteq Handles
  /\ seen \in [Handles -> SUBSET Node]

Init ==
  /\ readOnly \in BOOLEAN
  /\ entries = EmptyMap
  /\ file = [h \in Handles |-> Closed]
  /\ call = [h \in Handles |-> Idle]
  /\ writes = 0
  /\ forgone = {} /\ swept = {}
  /\ raced = {}
  /\ excused = {}
  /\ seen = [h \in Handles |-> {}]

------------------------------------------------------------------------------
(* Shared pieces.                                                          *)

ShownAt(map, k) == Shown(map[k], Underlay[k])

(* Mutant: a locking strategy that guards nothing.                         *)
NoGuard == TRUE

(* FineGuard admits no other callback on names while one that changes them *)
(* runs; reads, writes and resizes are not guarded.                        *)
NamesFree == \A h \in Handles : call[h].step \notin Creating \cup Renaming

Ready(h)  == file[h].status = "open" /\ call[h].step = "idle"
Vacant(h) == file[h].status = "closed" /\ call[h].step = "idle"

Proceed(h, c) == call' = [call EXCEPT ![h] = c]
Return(h) == Proceed(h, Idle)

(* One overlay call of handle h replaces the map, changing key k; `asked`  *)
(* are the bytes it is to destroy, `unasked` those a race may make it      *)
(* destroy.  The rest is history, too: callbacks that had read k, or asked *)
(* whether it is free, are now out of date, and reads of k see the new     *)
(* node.                                                                   *)
Install(h, k, map, asked, unasked) ==
  /\ entries' = map
  /\ forgone' = forgone \cup asked
  /\ swept' = swept \cup unasked
  /\ LET reread == {g \in Handles \ {h} : call[g].at = k}
     IN  raced' = {g \in raced \cup reread : call'[g].step \in Patching \cup Renaming}
  /\ LET overtaken == {g \in Handles \ {h} : Destination(call[g]) = k}
     IN  excused' = {g \in excused \cup overtaken : call'[g].step \in Claiming}
  /\ seen' = [g \in Handles |-> IF call[g].step = "read_recheck" /\ call[g].at = k
                                THEN seen[g] \cup {ShownAt(map, k)} ELSE seen[g]]

NothingInstalled == UNCHANGED <<entries, forgone, swept, raced, excused, seen>>

------------------------------------------------------------------------------
(* Opening and closing.                                                    *)

Open(h, k) ==
  /\ Vacant(h) /\ NamesFree
  /\ \/ /\ Lookup(entries, k) = "Hit"
        /\ file' = [file EXCEPT ![h] = Opened(k, FALSE, entries[k].kind = "CreatedDir")]
     \/ /\ Lookup(entries, k) = "Miss" /\ Underlay[k].kind # "absent"
        /\ file' = [file EXCEPT ![h] = Opened(k, TRUE, Underlay[k].kind = "dir")]
  /\ UNCHANGED <<entries, call, history>>

(* Mutant: ensure_writable is missing.                                     *)
SetDeleteAnyVolume(h, delete) ==
  /\ Ready(h) /\ NamesFree
  /\ file' = [file EXCEPT ![h].pending = delete]
  /\ UNCHANGED <<entries, call, history>>

SetDelete(h, delete) ==
  /\ Ready(h) /\ NamesFree /\ ~ readOnly
  /\ file' = [file EXCEPT ![h].pending = delete]
  /\ UNCHANGED <<entries, call, history>>

(* The tombstone goes to the path the handle was opened by.  Nothing reads *)
(* the context between cleanup and close.  WinFsp guards a cleanup by its  *)
(* own Delete flag and the code asks pending_delete alone, so that a       *)
(* deleting cleanup may meet a create or a rename.                         *)
Cleanup(h) ==
  /\ Ready(h)
  /\ file' = [file EXCEPT ![h] = [Closed EXCEPT !.status = "cleaned"]]
  /\ UNCHANGED <<call, writes>>
  /\ \/ /\ file[h].pending /\ ~ readOnly
        /\ Install(h, file[h].path, WithDeleted(entries, file[h].path),
                   ShownAt(entries, file[h].path).content, {})
     \/ /\ ~ file[h].pending \/ readOnly
        /\ NothingInstalled

Close(h) ==
  /\ file[h].status = "cleaned"
  /\ file' = [file EXCEPT ![h] = Closed]
  /\ UNCHANGED <<entries, call, history>>

------------------------------------------------------------------------------
(* read: two overlay lookups, then the cached inode.  A read the first     *)
(* lookup answers is one step that changes nothing.                        *)

(* Mutant: the overlay is not asked for content first.                     *)
ReadSkipsTheOverlay(h) ==
  /\ Ready(h) /\ ~ file[h].isDir
  /\ Proceed(h, [Idle EXCEPT !.step = "read_recheck", !.at = file[h].path])
  /\ seen' = [seen EXCEPT ![h] = {ShownAt(entries, file[h].path)}]
  /\ UNCHANGED <<entries, file, writes, forgone, swept, raced, excused>>

Read(h) ==
  /\ Ready(h) /\ ~ file[h].isDir
  /\ Lookup(entries, file[h].path) # "Hit"
  /\ Proceed(h, [Idle EXCEPT !.step = "read_recheck", !.at = file[h].path])
  /\ seen' = [seen EXCEPT ![h] = {ShownAt(entries, file[h].path)}]
  /\ UNCHANGED <<entries, file, writes, forgone, swept, raced, excused>>

(* What the second lookup makes read return of the image, if anything.     *)
ImageAnswer(h) ==
  IF Lookup(entries, file[h].path) # "Deleted" /\ file[h].inode
  THEN {Underlay[file[h].path]} ELSE {}

ReadRecheck(h) ==
  /\ call[h].step = "read_recheck"
  /\ Return(h)
  /\ seen' = [seen EXCEPT ![h] = {}]
  /\ UNCHANGED <<entries, file, writes, forgone, swept, raced, excused>>

------------------------------------------------------------------------------
(* write and set_file_size: read_full, then write_file of the patched      *)
(* content.  overwrite: write_file of an empty one, unread.                *)

(* Mutant: read_full looks for a deleted file in the image.                *)
FullContentThroughTombstones(k) ==
  CASE Lookup(entries, k) = "Hit" -> IF HoldsFile(entries[k]) THEN {entries[k].content} ELSE {}
    [] OTHER -> IF Underlay[k].kind = "file" THEN {Underlay[k].content} ELSE {}

(* Mutant: read_full always goes to the image first.                       *)
FullContentOfTheImage(k) ==
  IF Underlay[k].kind = "file" /\ Lookup(entries, k) # "Deleted" THEN {Underlay[k].content}
  ELSE IF HoldsFile(entries[k]) THEN {entries[k].content} ELSE {}

(* read_full: the file's content, or none for an error.                    *)
FullContent(k) ==
  CASE Lookup(entries, k) = "Hit"     -> IF HoldsFile(entries[k]) THEN {entries[k].content} ELSE {}
    [] Lookup(entries, k) = "Deleted" -> {}
    [] Lookup(entries, k) = "Miss"    -> IF Underlay[k].kind = "file" THEN {Underlay[k].content} ELSE {}

(* What k shows and h does not hold.                                       *)
NotHeld(h, k) == ShownAt(entries, k).content \ call[h].got.content

(* What a callback with a raced snapshot takes away at k unasked: the bytes *)
(* that have got there since it read the file.                             *)
DroppedByRace(h, k) == IF h \in raced THEN NotHeld(h, k) ELSE {}

ReadFull(h, step) ==
  /\ Ready(h) /\ ~ readOnly /\ ~ file[h].isDir
  /\ \E c \in FullContent(file[h].path) :
        Proceed(h, [Idle EXCEPT !.step = step, !.at = file[h].path, !.got = File(c)])
  /\ UNCHANGED <<entries, file, history>>

Write(h) == writes < MaxWrites /\ ReadFull(h, "write_insert")

WriteInsert(h) ==
  LET k == file[h].path
      c == call[h].got.content \cup {writes + 1}
  IN  /\ call[h].step = "write_insert"
      /\ writes < MaxWrites
      /\ Return(h)
      /\ Install(h, k, WithWrittenFile(entries, k, c), {}, DroppedByRace(h, k))
      /\ writes' = writes + 1
      /\ UNCHANGED <<file>>

SetFileSize(h) == ReadFull(h, "size_insert")

(* Growing keeps every write; shrinking drops those past the new end.      *)
SetFileSizeInsert(h) ==
  LET k == file[h].path
  IN  /\ call[h].step = "size_insert"
      /\ Return(h)
      /\ \E c \in SUBSET call[h].got.content :
            Install(h, k, WithWrittenFile(entries, k, c),
                    call[h].got.content \ c, DroppedByRace(h, k))
      /\ UNCHANGED <<file, writes>>

(* Mutant: ensure_writable is missing.                                     *)
OverwriteAnyVolume(h) ==
  LET k == file[h].path
  IN  /\ Ready(h) /\ ~ file[h].isDir
      /\ UNCHANGED <<file, call, writes>>
      /\ Install(h, k, WithWrittenFile(entries, k, {}), ShownAt(entries, k).content, {})

Overwrite(h) ==
  LET k == file[h].path
  IN  /\ Ready(h) /\ ~ readOnly /\ ~ file[h].isDir
      /\ UNCHANGED <<file, call, writes>>
      /\ Install(h, k, WithWrittenFile(entries, k, {}), ShownAt(entries, k).content, {})

------------------------------------------------------------------------------
(* create: two lookups, the insertion, and a lookup for the file info.     *)

(* Mutant: the first lookup does not refuse a live entry.                  *)
CreateUnchecked(h, k) ==
  /\ Vacant(h) /\ ~ readOnly /\ NamesFree
  /\ Proceed(h, [Idle EXCEPT !.step = "create_check", !.at = k])
  /\ UNCHANGED <<entries, file, history>>

Create(h, k) ==
  /\ Vacant(h) /\ ~ readOnly /\ NamesFree
  /\ Lookup(entries, k) # "Hit"
  /\ Proceed(h, [Idle EXCEPT !.step = "create_check", !.at = k])
  /\ UNCHANGED <<entries, file, history>>

(* The answers of `lookup_path(k).is_ok()`: a read the device refuses      *)
(* counts as "no such file".                                               *)
Found(k) == {Underlay[k].kind # "absent"} \cup (IF DeviceFails THEN {FALSE} ELSE {})

(* The image has k, it was asked, and it did not say so.                   *)
Mistaken(k, found) == Lookup(entries, k) = "Miss" /\ Underlay[k].kind # "absent" /\ ~ found

(* Handle h has asked about its destination, and from now on is excused if *)
(* `excuse`; handles that have left the callback are no longer.            *)
Excuse(h, excuse) ==
  excused' = {g \in excused \cup (IF excuse THEN {h} ELSE {}) : call'[g].step \in Claiming}

(* Mutant: the image is never asked.                                       *)
CreateChecksTheOverlayOnly(h) ==
  /\ call[h].step = "create_check"
  /\ Proceed(h, [call[h] EXCEPT !.step = "create_insert"])
  /\ UNCHANGED <<entries, file, writes, forgone, swept, raced, excused, seen>>

(* Only a Miss makes the second lookup ask the image.                      *)
CreateCheck(h) ==
  LET k == call[h].at
  IN  /\ call[h].step = "create_check"
      /\ \E found \in Found(k) :
           /\ IF Lookup(entries, k) = "Miss" /\ found
              THEN Return(h)
              ELSE Proceed(h, [call[h] EXCEPT !.step = "create_insert"])
           /\ Excuse(h, Mistaken(k, found))
      /\ UNCHANGED <<entries, file, writes, forgone, swept, raced, seen>>

(* What an insertion at a name taken for free takes away unasked.          *)
Forfeited(h, k) == IF h \in excused THEN NotHeld(h, k) ELSE {}

CreateInsert(h) ==
  LET k == call[h].at
  IN  /\ call[h].step = "create_insert"
      /\ \/ /\ Proceed(h, [call[h] EXCEPT !.step = "create_reread", !.got = File({})])
            /\ Install(h, k, WithCreatedFile(entries, k, {}), {}, Forfeited(h, k))
         \/ /\ Proceed(h, [call[h] EXCEPT !.step = "create_reread", !.got = Directory])
            /\ Install(h, k, WithCreatedDir(entries, k), {}, Forfeited(h, k))
      /\ UNCHANGED <<file, writes>>

CreateReread(h) ==
  /\ call[h].step = "create_reread"
  /\ file' = IF Lookup(entries, call[h].at) = "Hit"
             THEN [file EXCEPT ![h] = Opened(call[h].at, FALSE, call[h].got = Directory)]
             ELSE file
  /\ Return(h)
  /\ UNCHANGED <<entries, history>>

------------------------------------------------------------------------------
(* rename: rename_path on the names WinFsp passes, four overlay calls.     *)

(* Mutant: what a rename moves is looked up in the image first.            *)
SourceOfTheImage(k) ==
  IF Underlay[k].kind \in {"file", "dir"} /\ Lookup(entries, k) # "Deleted"
  THEN {Underlay[k]}
  ELSE IF Lookup(entries, k) = "Hit" THEN {ShownAt(entries, k)} ELSE {}

Source(k) ==
  CASE Lookup(entries, k) = "Hit"     -> {ShownAt(entries, k)}
    [] Lookup(entries, k) = "Deleted" -> {}
    [] Lookup(entries, k) = "Miss"    -> IF Underlay[k].kind \in {"file", "dir"} THEN {Underlay[k]} ELSE {}

Rename(h, to) ==
  /\ Ready(h) /\ ~ readOnly /\ NamesFree
  /\ to # file[h].name
  /\ \E node \in Source(file[h].name) :
        Proceed(h, [Idle EXCEPT !.step = "rename_check", !.at = file[h].name, !.to = to, !.got = node])
  /\ UNCHANGED <<entries, file, history>>

(* `replace` is rename's argument; it is first looked at here.             *)
RenameCheck(h) ==
  LET t == call[h].to
  IN  /\ call[h].step = "rename_check"
      /\ \E found \in Found(t), replace \in BOOLEAN :
           /\ IF /\ Lookup(entries, t) = "Hit" \/ (Lookup(entries, t) = "Miss" /\ found)
                 /\ ~ replace
              THEN Return(h)
              ELSE Proceed(h, [call[h] EXCEPT !.step = "rename_insert", !.replace = replace])
           /\ Excuse(h, Mistaken(t, found))
      /\ raced' = {g \in raced : call'[g].step # "idle"}
      /\ UNCHANGED <<entries, file, writes, forgone, swept, seen>>

RenameInsert(h) ==
  LET t == call[h].to
      map == IF call[h].got.kind = "dir"
             THEN WithCreatedDir(entries, t)
             ELSE WithCreatedFile(entries, t, call[h].got.content)
  IN  /\ call[h].step = "rename_insert"
      /\ Proceed(h, [call[h] EXCEPT !.step = "rename_delete", !.replace = FALSE])
      /\ \/ call[h].replace /\ Install(h, t, map, NotHeld(h, t), {})
         \/ ~ call[h].replace /\ Install(h, t, map, {}, Forfeited(h, t))
      /\ UNCHANGED <<file, writes>>

RenameDelete(h) ==
  LET k == call[h].at
  IN  /\ call[h].step = "rename_delete"
      /\ Return(h)
      /\ Install(h, k, WithDeleted(entries, k), {}, DroppedByRace(h, k))
      /\ file' = [g \in Handles |-> IF file[g].status = "open" /\ file[g].name = k
                                    THEN [file[g] EXCEPT !.name = call[h].to] ELSE file[g]]
      /\ UNCHANGED <<writes>>

------------------------------------------------------------------------------

Begin(h) ==
  \/ \E k \in Keys : Open(h, k) \/ Create(h, k) \/ Rename(h, k)
  \/ \E delete \in BOOLEAN : SetDelete(h, delete)
  \/ Cleanup(h) \/ Close(h)
  \/ Read(h) \/ Write(h) \/ SetFileSize(h) \/ Overwrite(h)

Continue(h) ==
  \/ ReadRecheck(h)
  \/ WriteInsert(h) \/ SetFileSizeInsert(h)
  \/ CreateCheck(h) \/ CreateInsert(h) \/ CreateReread(h)
  \/ RenameCheck(h) \/ RenameInsert(h) \/ RenameDelete(h)

Next == UNCHANGED readOnly /\ \E h \in Handles : Begin(h) \/ Continue(h)

Spec == Init /\ [][Next]_vars

------------------------------------------------------------------------------
(* Properties.                                                             *)

(* A handle without a cached inode (a file or directory made in the        *)
(* overlay, or opened from it) can always be answered by the overlay: the  *)
(* entry it was opened from never vanishes under it, whatever is deleted,  *)
(* renamed and created around it.  get_file_info's "entry vanished" error  *)
(* cannot happen.                                                          *)
OverlayHandlesStayCovered ==
  \A h \in Handles :
     file[h].status = "open" /\ ~ file[h].inode => Lookup(entries, file[h].path) # "Miss"

(* On a read-only volume nothing is ever staged.                           *)
ReadOnlyStagesNothing == readOnly => entries = EmptyMap

(* Bytes of the image and acknowledged writes stay readable at some name,  *)
(* in every state, also half way through a rename.  Two things take them   *)
(* away.  What was asked to (`forgone`): a delete, an overwrite, a shrink, *)
(* a rename told to replace.  And a race (`swept`), of three kinds: a      *)
(* write or resize puts back a file it read before another callback        *)
(* changed it, which the comment in `write` admits of two writes; a rename *)
(* tombstones the old name although bytes have landed there since it read  *)
(* the file, which nothing admits (RenameMovesTheStagedBytes below); a     *)
(* create, or a rename not told to replace, inserts at a name that changed *)
(* after it had asked, or that the device would not tell about.  So no     *)
(* callback that is not overtaken destroys anything it was not asked to,   *)
(* and one that is destroys only what it does not hold.                    *)
Acknowledged ==
  {k \in Keys : Underlay[k].kind = "file"} \cup 1..writes

NothingLostSilently ==
  \A t \in Acknowledged \ (forgone \cup swept) : \E k \in Keys : t \in ShownAt(entries, k).content

(* A read answered from the image returns what its path showed at some     *)
(* moment of the read, as long as the path was not seen deleted meanwhile. *)
ReadAnswersWhatWasThere ==
  \A h \in Handles :
     call[h].step = "read_recheck" /\ Absent \notin seen[h] => ImageAnswer(h) \subseteq seen[h]

(* Of two creators of one name only one gets it: neither a file nor a      *)
(* directory another create or rename staged is ever replaced by a create. *)
CreatorsExcludeEachOther ==
  [][\A h \in Handles :
       call[h].step = "create_insert" /\ call'[h].step = "create_reread" =>
          entries[call[h].at].kind \notin {"Created", "CreatedDir"}]_vars

(* A create, and a rename that was not told to replace, takes a free name: *)
(* nothing, not even a directory, is shown at the destination when they    *)
(* insert, several critical sections after they asked, unless it has       *)
(* changed in between or the device refused to answer.                     *)
OnlyFreeNamesAreTaken ==
  [][\A h \in Handles :
       call[h].step \in {"create_insert", "rename_insert"} /\ call'[h] # call[h] =>
          \/ h \in excused \/ call[h].replace
          \/ ShownAt(entries, Destination(call[h])).kind = "absent"]_vars

(* A deleted path comes back only if it is created, renamed to or          *)
(* overwritten, or if a write or resize had read the file before it was    *)
(* deleted.  A write that begins after the delete never revives it.        *)
Revives(h, k) ==
  \/ call[h].step = "create_insert" /\ call[h].at = k /\ call'[h] # call[h]
  \/ call[h].step = "rename_insert" /\ call[h].to = k /\ call'[h] # call[h]
  \/ call[h].step \in Patching /\ call[h].at = k /\ call'[h] # call[h] /\ h \in raced
  \/ Ready(h) /\ file[h].path = k /\ call' = call

TombstonesAreLiftedKnowingly ==
  [][\A k \in Keys :
       Lookup(entries, k) = "Deleted" /\ Lookup(entries', k) # "Deleted" =>
          \E h \in Handles : Revives(h, k)]_vars

(* A rename that has staged its destination has only the old name left to  *)
(* take away.  Unless another callback has used that name meanwhile, the   *)
(* file counts as moved.                                                   *)
Moved(h) == call[h].step = "rename_delete" /\ h \notin raced

Settled ==
  [k \in Keys |-> IF \E h \in Handles : Moved(h) /\ call[h].at = k
                  THEN Absent ELSE ShownAt(entries, k)]

(* write, set_file_size, create and rename take several overlay calls.  As *)
(* long as no other callback changes their path meanwhile, they act as one *)
(* operation of a plain volume at the moment they insert, whatever other   *)
(* callbacks do in between: a write adds its bytes to what the file has    *)
(* now and brings nothing back that was overwritten or cut off, a resize   *)
(* only takes away, a create makes one node, a rename moves what is at the *)
(* old name, and none of their other overlay calls changes anything.       *)
CallbacksActAsOne ==
  [][\A h \in Handles :
       LET k == call[h].at
           step == call[h].step
       IN  /\ call'[h] # call[h] /\ h \notin raced
           /\ \A g \in Handles : Moved(g) => g \notin raced'
           => /\ step \in Patching => Settled[k].kind = "file"
              /\ step = "write_insert" =>
                   Settled' = [Settled EXCEPT ![k] = File(Settled[k].content \cup {writes'})]
              /\ step = "size_insert" =>
                   \E c \in SUBSET Settled[k].content : Settled' = [Settled EXCEPT ![k] = File(c)]
              /\ step = "create_insert" =>
                   \E node \in {File({}), Directory} : Settled' = [Settled EXCEPT ![k] = node]
              /\ step = "rename_insert" =>
                   /\ Settled[k] # Absent
                   /\ Settled' = [Settled EXCEPT ![call[h].to] = Settled[k], ![k] = Absent]
              /\ step \notin Inserting => Settled' = Settled]_vars

------------------------------------------------------------------------------
(* What the code's own comments say and an interleaving breaks.            *)

(* "The overlay has a tombstone at this path. Callers must NOT fall        *)
(* through to the underlay" (overlay.rs:120).  Violated: read forgets what *)
(* its first lookup said, and a create or an overwrite between the two     *)
(* lookups makes it answer with the image's file, which was deleted before *)
(* the read began.                                                         *)
ReadNeverFallsThroughATombstone ==
  \A h \in Handles : call[h].step = "read_recheck" => ImageAnswer(h) \subseteq seen[h]

(* "Reject if the path already exists (overlay or underlay)"               *)
(* (mount.rs:1273).  Violated: a first write to a file of the image        *)
(* between create's two lookups turns the Miss into a Hit, the second      *)
(* lookup then skips the image, and create empties the existing file.      *)
CreateOnlyTakesFreeNames ==
  [][\A h \in Handles :
       call[h].step = "create_insert" /\ call'[h].step = "create_reread" =>
          ShownAt(entries, call[h].at) = Absent]_vars

(* "Spec resolution: we treat rename atomically WITHIN the overlay (one    *)
(* write-lock acquisition for both removals + insertions)" (overlay.rs:251)*)
(* and "Renaming a file already staged in the overlay moves the staged     *)
(* bytes" (tests/overlay_integration.rs:199): what a rename takes away at  *)
(* the old name can be read elsewhere, unless it was asked to be           *)
(* destroyed.  Violated: rename_path takes the lock once to read, once to  *)
(* insert and once to tombstone; a write in between has landed at the old  *)
(* name, was acknowledged, and goes with it.                               *)
RenameMovesTheStagedBytes ==
  [][\A h \in Handles :
       call[h].step = "rename_delete" /\ call'[h] # call[h] =>
          ShownAt(entries, call[h].at).content \subseteq
             forgone \cup UNION {ShownAt(entries', k).content : k \in Keys}]_vars

(* "True if this open handle has been marked for delete via set_delete.    *)
(* The actual tombstone is staged in cleanup" (mount.rs:847): the file is  *)
(* gone once the handle is cleaned up.  Violated: after a rename the       *)
(* context still holds the old path, so the tombstone goes there and the   *)
(* file stays at its new name.                                             *)
CleanupDeletesTheHandlesFile ==
  [][\A h \in Handles :
       file[h].status = "open" /\ file'[h].status = "cleaned" /\ file[h].pending /\ ~ readOnly =>
          ShownAt(entries', file[h].name) = Absent]_vars

==============================================================================
