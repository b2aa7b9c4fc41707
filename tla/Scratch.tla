-------------------------------- MODULE Scratch --------------------------------
(***************************************************************************)
(* What the driver promises of a scratch mount: the volume shows the image *)
(* and what has been changed since it was mounted; the changes end with    *)
(* the mount; and a dismount that says nothing either was not asked to     *)
(* keep them or has kept all of them, as they were when the volume went.   *)
(* There are no callbacks, threads, signals or overlay entries here.       *)
(***************************************************************************)
EXTENDS Nodes

CONSTANT Image   \* what the image has at each path

VARIABLES mode,      \* whether the volume is there: "down", "up" or, its content
                     \* being kept, "closing"
          writable,  \* whether it can be changed
          keeping,   \* whether its changes are to be kept
          tree,      \* what a reader is shown at each path
          kept,      \* the tree the sidecar describes, if any
          told       \* how the last mount ended: "quiet", "complained", "killed"

NoSidecar   == [state |-> "none", tree |-> Image]
TornSidecar == [state |-> "torn", tree |-> Image]
Sidecar(t)  == [state |-> "whole", tree |-> t]

Init ==
  /\ mode = "down"
  /\ writable \in BOOLEAN /\ keeping \in BOOLEAN
  /\ tree = Image
  /\ kept = NoSidecar
  /\ told = "nothing"

Mount ==
  /\ mode = "down" /\ mode' = "up"
  /\ writable' \in BOOLEAN /\ keeping' \in BOOLEAN
  /\ told' = "nothing"
  /\ UNCHANGED <<tree, kept>>

(* A mount that does not come about.                                       *)
Refuse ==
  /\ mode = "down"
  /\ told' = "complained"
  /\ UNCHANGED <<mode, writable, keeping, tree, kept>>

Change(k, node) ==
  /\ mode = "up" /\ writable
  /\ tree' = [tree EXCEPT ![k] = node]
  /\ UNCHANGED <<mode, writable, keeping, kept, told>>

Close ==
  /\ mode = "up" /\ mode' = "closing"
  /\ UNCHANGED <<writable, keeping, tree, kept, told>>

(* The old sidecar goes before the new one is there.                       *)
Spoil ==
  /\ mode = "closing" /\ keeping
  /\ kept' = TornSidecar
  /\ UNCHANGED <<mode, writable, keeping, tree, told>>

End(how) ==
  /\ mode' = "down"
  /\ tree' = Image
  /\ told' = how
  /\ UNCHANGED <<writable, keeping>>

Save == mode = "closing" /\ keeping /\ kept' = Sidecar(tree) /\ End("quiet")

Drop == mode = "closing" /\ ~ keeping /\ UNCHANGED kept /\ End("quiet")

(* Everything changed is lost, but not in silence.                         *)
Lose ==
  /\ mode # "down"
  /\ UNCHANGED kept
  /\ End("complained") \/ End("killed")

Next ==
  \/ Mount \/ Refuse \/ Close \/ Spoil \/ Save \/ Drop \/ Lose
  \/ \E k \in Keys, node \in Node : Change(k, node)

Spec == Init /\ [][Next]_<<mode, writable, keeping, tree, kept, told>>

==============================================================================
