---------------------------- MODULE BootDecision ----------------------------
(***************************************************************************)
(* The boot decision of firmware/core/boot_decision.c: what a slot and its *)
(* boot record must look like to be launched, and which of the two slots   *)
(* the reset path launches.                                                *)
(*                                                                         *)
(* Data.  A flash word is the set of its CLEARED bits, so the erased word  *)
(* is {} and programming - which only clears bits - is set union.  A CRC-32 *)
(* is the very words it was computed over: two different images never      *)
(* share one (the code's own assumption; 2^-32 otherwise).  Lengths and    *)
(* addresses count words, so the code's 4-byte alignment tests hold by     *)
(* construction.                                                           *)
(***************************************************************************)
EXTENDS Integers, Sequences

CONSTANTS
  Bits,         \* the bits of a flash word
  SlotWords,    \* OB_SLOT_IMAGE_MAX: words of a slot an image may occupy
  Usable,       \* the slots the silicon really holds (ob_app_end)
  GenLimit,     \* 0xFFFFFFFF: the generation that is never stored
  BootImageCrc  \* OB_BOOT_IMAGE_CRC: attest the whole image at boot

ASSUME DecisionAssumption ==
  /\ SlotWords \in Nat \ {0}
  /\ Usable \subseteq {0, 1}
  /\ GenLimit \in Nat /\ GenLimit > 1
  /\ BootImageCrc \in BOOLEAN

Slots  == {0, 1}       \* OB_SLOT_A, OB_SLOT_B
NoSlot == 2            \* OB_SLOT_NONE

Word       == SUBSET Bits
ErasedWord == {}
Image      == [1..SlotWords -> Word]

\* The CRC of the first n words of an image.
Crc(image, n) == [i \in 1..n |-> image[i]]

(***************************************************************************)
(* What the top block of a slot holds: blank flash, the residue of an      *)
(* interrupted erase or program (bad magic or bad record CRC), or a record *)
(* whose magic, reserved bytes and CRC are right.                          *)
(***************************************************************************)
Cell == [st : {"blank", "torn", "sealed"}, gen : 0..GenLimit,
         len : Nat, crc : Seq(Word)]

Blank == [st |-> "blank", gen |-> 0, len |-> 0, crc |-> <<>>]
Torn  == [st |-> "torn",  gen |-> 0, len |-> 0, crc |-> <<>>]

Sealed(gen, len, crc) == [st |-> "sealed", gen |-> gen, len |-> len, crc |-> crc]

\* ob_slot_capacity: a slot the die cannot hold is unusable wholesale.
Capacity(slot) == IF slot \in Usable THEN SlotWords ELSE 0

\* ob_record_load: the one definition of a valid record.
RecordLoads(slot, cell) ==
  /\ Capacity(slot) # 0
  /\ cell.st = "sealed"
  /\ cell.gen # 0
  /\ cell.len # 0
  /\ cell.len <= Capacity(slot)

\* boot_image_valid
ImageValid(image, cell) ==
  /\ BootImageCrc => Crc(image, cell.len) = cell.crc
  /\ image[1] # ErasedWord

\* ob_boot_app_valid
AppValid(slot, image, cell) == RecordLoads(slot, cell) /\ ImageValid(image, cell)

(***************************************************************************)
(* ob_boot_select: one pass over the slots, in order.  `highest' follows   *)
(* every valid record, `best' only those whose image validates too.        *)
(***************************************************************************)
SelectStep(acc, slot, image, cell) ==
  LET seen == IF cell.gen > acc.highest THEN cell.gen ELSE acc.highest
      loses == acc.best # NoSlot /\ cell.gen <= acc.gen
  IN  IF ~RecordLoads(slot, cell) THEN acc
      ELSE IF loses \/ ~ImageValid(image, cell) THEN [acc EXCEPT !.highest = seen]
      ELSE [highest |-> seen, gen |-> cell.gen, best |-> slot]

SelectInit == [highest |-> 0, gen |-> 0, best |-> NoSlot]

Select(images, cells) ==
  SelectStep(SelectStep(SelectInit, 0, images[0], cells[0]), 1, images[1], cells[1])

BootSelect(images, cells)        == Select(images, cells).best
HighestGeneration(images, cells) == Select(images, cells).highest

(***************************************************************************)
(* The reference definition of the decision, which the loop implements.    *)
(***************************************************************************)
Bootable(images, cells) == {x \in Slots : AppValid(x, images[x], cells[x])}

IsBest(x, images, cells) ==
  IF Bootable(images, cells) = {} THEN x = NoSlot
  ELSE /\ x \in Bootable(images, cells)
       /\ \A y \in Bootable(images, cells) :
            \/ cells[y].gen < cells[x].gen
            \/ cells[y].gen = cells[x].gen /\ x <= y

IsHighest(g, cells) ==
  LET gens == {cells[x].gen : x \in {y \in Slots : RecordLoads(y, cells[y])}}
  IN  IF gens = {} THEN g = 0 ELSE g \in gens /\ \A h \in gens : h <= g
=============================================================================
