---------------------------- MODULE PartitionSlice ----------------------------
(***************************************************************************)
(* The part of the disk the XFS reader is given: Mount::open_direct and    *)
(* open_partition, which choose it, and PartitionDevice, through which     *)
(* every read of the image goes.  Numbers are u64, that is modulo Word in  *)
(* the release build, except where the code adds with checked_add.         *)
(***************************************************************************)
EXTENDS Naturals

CONSTANTS Word,        \* 2^64
          SectorSize,  \* 512
          DeviceSize   \* what the FileSource says its size is

ASSUME WordAssumption ==
  /\ Word \in Nat \ {0}
  /\ SectorSize \in Nat
  /\ DeviceSize \in 0..(Word - 1)

U64 == 0..(Word - 1)

Slice == [base : U64, len : U64]

(* Mutant: the sum is not checked.                                         *)
WrappingAdd(a, b) == {(a + b) % Word}

(* checked_add: the sum, or none.                                          *)
CheckedAdd(a, b) == IF a + b < Word THEN {a + b} ELSE {}

DirectSlice == [base |-> 0, len |-> DeviceSize]

(* Mutant: only the start of the partition is compared with the device.    *)
SliceOfAnyLength(start, sectors) ==
  LET base == (start * SectorSize) % Word
      len  == (sectors * SectorSize) % Word
  IN  IF base <= DeviceSize THEN {[base |-> base, len |-> len]} ELSE {}

(* The slice open_partition makes of a table entry, or none for an error.  *)
(* The multiplications wrap.                                               *)
PartitionSlice(start, sectors) ==
  LET base == (start * SectorSize) % Word
      len  == (sectors * SectorSize) % Word
  IN  {[base |-> base, len |-> len] : end \in {e \in CheckedAdd(base, len) : e <= DeviceSize}}

(* Mutant: the slice's length is not enforced.                             *)
ReadAnywhere(slice, offset, want) == {(slice.base + offset) % Word}

(* PartitionDevice::read_at: where on the device the `want` bytes are      *)
(* read, or none for a ShortRead.                                          *)
ReadAt(slice, offset, want) ==
  {(slice.base + offset) % Word : end \in {e \in CheckedAdd(offset, want) : e <= slice.len}}

==============================================================================
