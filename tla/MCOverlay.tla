------------------------------ MODULE MCOverlay ------------------------------
(* Three paths: one the image has as a file, one it has as a directory and *)
(* one it does not have; the file is also reached by two odd spellings.    *)
EXTENDS Overlay

CONSTANTS f, d, n, image, staged, nothing

MCSpellings ==
  { <<Blank, f>>, <<Blank, Dot, f, Blank>>, <<Blank, d, DotDot, f>>,
    <<Blank, d, Blank>>, <<Blank, DotDot, n>> }

MCKeys == {<<f>>, <<d>>, <<n>>}

MCUnderlay ==
  [k \in MCKeys |-> CASE k = <<f>> -> File(image)
                      [] k = <<d>> -> Directory
                      [] OTHER     -> Absent]
==============================================================================
