-------------------------------- MODULE Volume --------------------------------
(***************************************************************************)
(* What the driver promises of the writable volume it puts over the image: *)
(* every path shows what the image has there until something is staged at  *)
(* it, then what was staged last, and nothing that is staged at one path   *)
(* is seen at another.  There is no overlay, tombstone or underlay here.   *)
(***************************************************************************)
EXTENDS Nodes

CONSTANT Image   \* what the underlay has at each path

VARIABLES tree,  \* what a reader is shown at each path
          did    \* the operation that has just been done, with its operands

Nothing == [op |-> "nothing"]

Init ==
  /\ tree = Image
  /\ did = Nothing

Put(k, c) ==
  /\ tree' = [tree EXCEPT ![k] = File(c)]
  /\ did' = [op |-> "put", at |-> k, content |-> c]

MakeDirectory(k) ==
  /\ tree' = [tree EXCEPT ![k] = Directory]
  /\ did' = [op |-> "mkdir", at |-> k]

Remove(k) ==
  /\ tree' = [tree EXCEPT ![k] = Absent]
  /\ did' = [op |-> "remove", at |-> k]

(* The node at k moves to l, replacing what was there.                     *)
Move(k, l) ==
  /\ k # l
  /\ tree[k] # Absent
  /\ tree' = [tree EXCEPT ![l] = tree[k], ![k] = Absent]
  /\ did' = [op |-> "move", from |-> k, to |-> l]

(* Every change is forgotten at once.                                      *)
Discard ==
  /\ tree' = Image
  /\ did' = [op |-> "discard"]

(* A request that is refused, or that asks for nothing.                    *)
Refuse ==
  /\ UNCHANGED tree
  /\ did' = Nothing

Next ==
  \/ \E k \in Keys : Remove(k) \/ MakeDirectory(k)
  \/ \E k \in Keys, c \in Contents : Put(k, c)
  \/ \E k, l \in Keys : Move(k, l)
  \/ Discard
  \/ Refuse

Spec == Init /\ [][Next]_<<tree, did>>

==============================================================================
