-------------------------------- MODULE Nodes --------------------------------
(***************************************************************************)
(* What a path of the mounted volume can show a reader: nothing, a regular *)
(* file with its content, a directory, or an underlay object that is       *)
(* neither (a symlink, a device).  Only a file's content is meaningful;    *)
(* the other nodes carry Empty.                                            *)
(***************************************************************************)

CONSTANTS Keys,      \* the normalised paths
          Contents,  \* what a file can hold
          Empty      \* the content of a file just created

ASSUME EmptyAssumption == Empty \in Contents

NodeKinds == {"absent", "file", "dir", "special"}
Node == [kind : NodeKinds, content : Contents]

Absent    == [kind |-> "absent",  content |-> Empty]
Directory == [kind |-> "dir",     content |-> Empty]
Special   == [kind |-> "special", content |-> Empty]
File(c)   == [kind |-> "file",    content |-> c]

==============================================================================
