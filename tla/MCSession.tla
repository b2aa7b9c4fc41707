------------------------------ MODULE MCSession ------------------------------
(* One handle and one file of the image, mounted twice; u64 has three bits, *)
(* a sector two bytes and the device five.                                 *)
EXTENDS Session

CONSTANT f

MCKeys == {f}
MCUnderlay == [k \in MCKeys |-> File({f})]
MCContents == SUBSET Token
MCEmpty == {}
==============================================================================
