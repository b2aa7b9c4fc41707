------------------------------- MODULE Session -------------------------------
(***************************************************************************)
(* `xfs mount`, from the command line to the exit of the process, and the  *)
(* mounts that follow one another over one image and one sidecar path:     *)
(* cmd_mount, Mount::open and winfsp_adapter::run on the main thread,      *)
(* Adapter's callbacks on WinFsp's threads while the dispatcher is on, the *)
(* Ctrl-C handler on a thread of its own, and a process that may be killed *)
(* at any moment (the release build aborts on a panic).                    *)
(*                                                                         *)
(* Only the sidecar outlives a process.  Nothing reads it back: a later    *)
(* mount starts from the image and replaces it with its own.               *)
(***************************************************************************)
EXTENDS Adapter, PartitionSlice

CONSTANTS MaxMounts,       \* mounts in a behaviour; a bound
          SuperblockSize   \* what Filesystem::mount reads first

ASSUME SessionAssumption == MaxMounts \in Nat /\ SuperblockSize \in U64

VARIABLES
  stage,    \* where the main thread is; "off" when there is no process
  policy,   \* the DismountPolicy
  slice,    \* the PartitionDevice the reader has
  handler,  \* what Ctrl-C does: the system's "default", "set", or "failed"
  pressed,  \* a message waits in the channel `rx` receives from
  json,     \* write_sidecar's serialised snapshot
  disk,     \* what is at the sidecar's path
  told,     \* history: how the last process ended
  mounts    \* history: processes so far

process == <<stage, policy, slice, handler, pressed, json, disk, told, mounts>>

Serving == {"started", "waiting"}
Stage == {"off", "opened", "stopping", "stopped", "saving", "writing"} \cup Serving

NoFile == [state |-> "none", map |-> EmptyMap]
Torn   == [state |-> "torn", map |-> EmptyMap]
Whole(map) == [state |-> "whole", map |-> map]

SessionTypeOK ==
  /\ TypeOK
  /\ stage \in Stage
  /\ policy \in {"discard", "sidecar"}
  /\ slice \in Slice
  /\ handler \in {"default", "set", "failed"}
  /\ pressed \in BOOLEAN
  /\ json \in Map
  /\ disk \in [state : {"none", "torn", "whole"}, map : Map]
  /\ told \in {"nothing", "quiet", "complained", "killed"}
  /\ mounts \in 0..MaxMounts

SessionInit ==
  /\ Init
  /\ stage = "off"
  /\ policy = "discard"
  /\ slice = DirectSlice
  /\ handler = "default"
  /\ pressed = FALSE
  /\ json = EmptyMap
  /\ disk = NoFile
  /\ told = "nothing"
  /\ mounts = 0

------------------------------------------------------------------------------
(* What a process holds of the mount, before anything is done to it.       *)
Afresh ==
  /\ entries' = EmptyMap
  /\ file' = [h \in Handles |-> Closed]
  /\ call' = [h \in Handles |-> Idle]
  /\ writes' = 0
  /\ forgone' = {} /\ swept' = {} /\ raced' = {} /\ excused' = {}
  /\ seen' = [h \in Handles |-> {}]

(* The process ends, and with it the overlay and everything else it held.  *)
Exit(how) ==
  /\ stage' = "off"
  /\ told' = how
  /\ Afresh /\ UNCHANGED readOnly
  /\ slice' = DirectSlice /\ handler' = "default" /\ pressed' = FALSE /\ json' = EmptyMap
  /\ UNCHANGED <<policy, mounts>>

(* The slices Mount::open can make: of the whole device for no --part or   *)
(* --part 0, and of any table entry --part can name otherwise.             *)
Openable == {DirectSlice} \cup UNION {PartitionSlice(start, n) : start, n \in U64}

(* cmd_mount: --ro and --scratch-sidecar, then Mount::open, where the      *)
(* reader has to find a superblock.                                        *)
Launch ==
  /\ stage = "off" /\ mounts < MaxMounts
  /\ stage' = "opened"
  /\ mounts' = mounts + 1
  /\ told' = "nothing"
  /\ policy' \in {"discard", "sidecar"}
  /\ slice' \in {s \in Openable : ReadAt(s, 0, SuperblockSize) # {}}
  /\ Afresh /\ readOnly' \in BOOLEAN
  /\ UNCHANGED <<handler, pressed, json, disk>>

(* The device, the table, the partition or the superblock is not there.    *)
LaunchFails ==
  /\ stage = "off" /\ mounts < MaxMounts
  /\ mounts' = mounts + 1
  /\ told' = "complained"
  /\ UNCHANGED <<vars, stage, policy, slice, handler, pressed, json, disk>>

(* run up to host.start, after which callbacks run.                        *)
StartHost ==
  /\ stage = "opened" /\ stage' = "started"
  /\ UNCHANGED <<vars, policy, slice, handler, pressed, json, disk, told, mounts>>

(* WinFsp is not there (run_impl's stub says so too), or refuses.          *)
StartHostFails == stage = "opened" /\ UNCHANGED disk /\ Exit("complained")

(* set_handler; its error is dropped, and `tx` with it.                    *)
SetHandler ==
  /\ stage = "started" /\ stage' = "waiting"
  /\ handler' \in {"set", "failed"}
  /\ UNCHANGED <<vars, policy, slice, pressed, json, disk, told, mounts>>

PressCtrlC ==
  /\ stage # "off"
  /\ \/ /\ handler = "set"
        /\ pressed' = TRUE
        /\ UNCHANGED <<vars, stage, policy, slice, handler, json, disk, told, mounts>>
     \/ handler # "set" /\ UNCHANGED disk /\ Exit("killed")

(* Mutant: the handler's message is missed.                                *)
ReceiveOnlyAnError ==
  /\ stage = "waiting" /\ stage' = "stopping"
  /\ handler = "failed"
  /\ pressed' = FALSE
  /\ UNCHANGED <<vars, policy, slice, handler, json, disk, told, mounts>>

(* rx.recv returns: a message, or an error when there is no sender.        *)
Receive ==
  /\ stage = "waiting" /\ stage' = "stopping"
  /\ pressed \/ handler = "failed"
  /\ pressed' = FALSE
  /\ UNCHANGED <<vars, policy, slice, handler, json, disk, told, mounts>>

(* Mutant: stop does not wait for the callbacks.                           *)
StopAtOnce ==
  /\ stage = "stopping" /\ stage' = "stopped"
  /\ UNCHANGED <<vars, policy, slice, handler, pressed, json, disk, told, mounts>>

(* host.stop returns when the callbacks that were running have, and        *)
(* host.unmount after it.                                                  *)
Stop ==
  /\ stage = "stopping" /\ stage' = "stopped"
  /\ \A h \in Handles : call[h].step = "idle"
  /\ UNCHANGED <<vars, policy, slice, handler, pressed, json, disk, told, mounts>>

Discard == stage = "stopped" /\ policy = "discard" /\ UNCHANGED disk /\ Exit("quiet")

(* Mutant: the snapshot is taken while the host is still stopping.         *)
SnapshotEarly ==
  /\ stage \in {"stopping", "stopped"} /\ policy = "sidecar" /\ stage' = "saving"
  /\ json' = entries
  /\ UNCHANGED <<vars, policy, slice, handler, pressed, disk, told, mounts>>

(* write_sidecar: the snapshot and its serialisation.                      *)
Snapshot ==
  /\ stage = "stopped" /\ policy = "sidecar" /\ stage' = "saving"
  /\ json' = entries
  /\ UNCHANGED <<vars, policy, slice, handler, pressed, disk, told, mounts>>

(* The feature is not built, or the snapshot cannot be serialised.         *)
SnapshotFails ==
  stage = "stopped" /\ policy = "sidecar" /\ UNCHANGED disk /\ Exit("complained")

(* fs::write creates or truncates the file, and then fills it.             *)
Truncate ==
  /\ stage = "saving" /\ stage' = "writing"
  /\ disk' = Torn
  /\ UNCHANGED <<vars, policy, slice, handler, pressed, json, told, mounts>>

TruncateFails == stage = "saving" /\ UNCHANGED disk /\ Exit("complained")

Fill == stage = "writing" /\ disk' = Whole(json) /\ Exit("quiet")

(* Mutant: the result of write_sidecar is dropped.                         *)
FillFailsInSilence == stage = "writing" /\ UNCHANGED disk /\ Exit("quiet")

FillFails == stage = "writing" /\ UNCHANGED disk /\ Exit("complained")

Kill == stage # "off" /\ UNCHANGED disk /\ Exit("killed")

(* The callbacks run, and begin, while the dispatcher is on; those under   *)
(* way when it is told to stop go on, wherever the main thread is by then. *)
Serve == stage \in Serving /\ Next /\ UNCHANGED process

Finish(h) ==
  /\ stage \in {"stopping", "stopped", "saving", "writing"}
  /\ Continue(h)
  /\ UNCHANGED readOnly /\ UNCHANGED process

MainThread ==
  \/ SetHandler \/ Receive \/ Stop \/ Discard
  \/ Snapshot \/ SnapshotFails \/ Truncate \/ TruncateFails \/ Fill \/ FillFails

SessionNext ==
  \/ Launch \/ LaunchFails \/ StartHost \/ StartHostFails
  \/ MainThread \/ PressCtrlC \/ Kill
  \/ Serve \/ \E h \in Handles : Finish(h)

session == <<vars, process>>

SessionSpec == SessionInit /\ [][SessionNext]_session

(* The main thread and the callbacks that host.stop waits for are          *)
(* scheduled; nobody has to press Ctrl-C.                                  *)
FairSessionSpec ==
  /\ SessionSpec
  /\ WF_session(MainThread)
  /\ \A h \in Handles : WF_session(Finish(h))

------------------------------------------------------------------------------

Mode ==
  CASE stage = "off" -> "down"
    [] stage \in {"stopped", "saving", "writing"} -> "closing"
    [] OTHER -> "up"

Promise == INSTANCE Scratch WITH
  Image <- Underlay, mode <- Mode, writable <- ~ readOnly, keeping <- (policy = "sidecar"),
  tree <- View(entries), kept <- [state |-> disk.state, tree |-> View(disk.map)]

(* The mount keeps the promise: its changes show one at a time and only    *)
(* while it is up, a read-only one has none, and unless it says so or is   *)
(* killed, it leaves at the sidecar's path everything users last saw,      *)
(* whichever callbacks were running when it was told to stop.              *)
ImplementsScratch == Promise!Spec

(* Once Ctrl-C has been caught the process ends: the channel's message is  *)
(* not missed, host.stop waits for callbacks that do return, and nothing   *)
(* of the dismount waits for anything else.                                *)
DismountEnds == (stage = "waiting" /\ pressed) ~> (stage = "off")

(* No read the reader makes, whatever offset and length it asks for, gets  *)
(* past the ends of the slice or of the device, although the offset is     *)
(* added to the slice's start unchecked; and every byte size_bytes speaks  *)
(* of can be read.                                                         *)
ReadsStayInTheSlice ==
  /\ slice.base + slice.len <= DeviceSize
  /\ \A offset, want \in U64 :
        /\ \A at \in ReadAt(slice, offset, want) :
              slice.base <= at /\ at + want <= slice.base + slice.len
        /\ offset + want <= slice.len => ReadAt(slice, offset, want) = {slice.base + offset}

==============================================================================
