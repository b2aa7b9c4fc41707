----------------------------- MODULE MCMountPaths -----------------------------
(* One file and one directory of the image, a name it does not have, and a *)
(* second spelling of the file's path; two byte values, so that a byte     *)
(* written, a byte of the image and a zero fill can be told apart.         *)
EXTENDS MountPaths

CONSTANTS f, d, n

MCSpellings == {<<Blank, f>>, <<Blank, Dot, f>>, <<Blank, d>>, <<Blank, n>>}

MCKeys == {<<f>>, <<d>>, <<n>>}

MCContents == UNION {[1..size -> Bytes] : size \in 0..MaxLen}

MCUnderlay ==
  [k \in MCKeys |-> CASE k = <<f>> -> File(<<1>>)
                      [] k = <<d>> -> Directory
                      [] OTHER     -> Absent]

MCBuffers == {<< >>, <<2>>}

MCEmpty == << >>
==============================================================================
