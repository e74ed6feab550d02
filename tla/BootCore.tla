------------------------------ MODULE BootCore ------------------------------
(***************************************************************************)
(* The device engine of firmware/core/boot_core.c over a flash that can    *)
(* fail or lose power in the middle of any operation, with the reset path  *)
(* around it (boot_decision.c, the auto-boot of main.c, and the running    *)
(* application's request to come back).                                    *)
(*                                                                         *)
(* The firmware is one thread.  A handler is therefore atomic except for   *)
(* its flash operations: between them the device can die.  `pc' names the  *)
(* flash operation about to run and `req' the request it runs for; each    *)
(* operation has an action for success and one for a ROM error, and        *)
(* PowerCut can strike before, during and after every one of them.  A      *)
(* refused request changes nothing, and is a stuttering step.              *)
(***************************************************************************)
EXTENDS BootDecision

CONSTANTS
  BlockSize,        \* OB_FLASH_ERASE_BLOCK in words: the erase granule
  MaxChunk,         \* OB_MAX_WRITE_DATA in words: the longest WRITE
  CrcLive,          \* OB_FEAT_CRC_LIVE: XIP is coherent (FALSE: CH57x, F26)
  BlankFirstWord    \* may a host COMMIT an image whose first word is erased?

ASSUME CoreAssumption ==
  /\ BlockSize \in Nat \ {0}
  /\ SlotWords % BlockSize = 0
  /\ MaxChunk \in Nat \ {0}
  /\ CrcLive \in BOOLEAN
  /\ BlankFirstWord \in BOOLEAN

VARIABLES
  img, rec,         \* flash: the image area and the record block of a slot
  xipImg, xipRec,   \* what a stale XIP read may still serve
  mode,             \* "reset" (deciding), "core" (bootloader) or "app"
  running,          \* the slot the application was launched from
  bootreq,          \* the word at OB_BOOTREQ_ADDR holds the magic
  promised,         \* history: BOOT was answered OK and the reset is pending
  active,           \* active_slot
  write,            \* write_slot
  highest_gen,
  rec_state,        \* "FLASH", "INVALID" or "FRESH"
  committed,        \* committed_img_len, committed_img_crc
  s,                \* the session: open, disarmed, stream, bitmap, ...
  erased,           \* history: slot blocks erased since the last HELLO
  pc, req

flash   == <<img, rec>>
xip     == <<xipImg, xipRec>>
life    == <<mode, running, bootreq, promised>>
slots   == <<active, write>>
record  == <<highest_gen, rec_state, committed>>
vars    == <<flash, xip, life, slots, record, s, erased, pc, req>>

Other(slot) == 1 - slot            \* other_slot

-----------------------------------------------------------------------------
(* Flash geometry and what an interrupted operation leaves behind *)

Blocks      == {a \in 0..SlotWords - 1 : a % BlockSize = 0}
InBlock(a)  == a + 1..a + BlockSize            \* the words of the block at a
Chunk       == UNION {[1..n -> Word] : n \in 1..MaxChunk}
Covers(blocks, at, n) == \A w \in at + 1..at + n : \E a \in blocks : w \in InBlock(a)

EraseWords(image, a) == [w \in DOMAIN image |-> IF w \in InBlock(a) THEN ErasedWord ELSE image[w]]

\* The words after a complete program: bits are only ever cleared.
ProgramWords(image, at, data) ==
  [w \in DOMAIN image |-> IF w \in at + 1..at + Len(data) THEN image[w] \union data[w - at]
                          ELSE image[w]]

\* A cut or failed erase: every word keeps some of its cleared bits.
EraseResidue(image, a) ==
  {im \in [DOMAIN image -> Word] :
     \A w \in DOMAIN image : im[w] \subseteq image[w] /\ (w \notin InBlock(a) => im[w] = image[w])}

\* A cut or failed program: every word got some of its bits cleared.
ProgramResidue(image, at, data) ==
  {im \in [DOMAIN image -> Word] :
     \A w \in DOMAIN image : image[w] \subseteq im[w]
                          /\ im[w] \subseteq ProgramWords(image, at, data)[w]}

\* What the operation `pc' names may leave of the image areas when it fails or
\* power goes, and what it may leave of the record blocks.
ImgResidues ==
  CASE pc = "erase" ->
         {[img EXCEPT ![req.slot] = im] : im \in EraseResidue(img[req.slot], req.at)}
    [] pc = "program" ->
         {[img EXCEPT ![req.slot] = im] : im \in ProgramResidue(img[req.slot], req.at, req.data)}
    [] OTHER -> {img}

RecResidues ==
  {[rec EXCEPT ![write] = cell] :
     cell \in CASE pc \in {"disarm", "recErase"} -> {rec[write], Torn, Blank}
               [] pc = "recProgram"             -> {rec[write], Torn, req.rec}
               [] OTHER                         -> {rec[write]}}

(***************************************************************************)
(* XIP.  Each block of a slot - its record block too - reads either as it  *)
(* is or as it was at reset.  On a CRC_LIVE part the two never differ.     *)
(***************************************************************************)
XipImages(slot) ==
  {[w \in 1..SlotWords |-> IF \E a \in old : w \in InBlock(a) THEN xipImg[slot][w] ELSE img[slot][w]] :
     old \in SUBSET Blocks}
XipCells(slot) == {rec[slot], xipRec[slot]}

\* A controller operation changes flash; a live XIP follows it at once.
FlashChanges(newImg, newRec) ==
  /\ img' = newImg /\ rec' = newRec
  /\ xipImg' = IF CrcLive THEN newImg ELSE xipImg
  /\ xipRec' = IF CrcLive THEN newRec ELSE xipRec

-----------------------------------------------------------------------------
(* RAM as the reset leaves it, and the transition helpers of boot_core.c *)

NoCommit == [len |-> 0, crc |-> <<>>]
NoChunk  == [addr |-> 0, data |-> <<>>]
NoReq    == [cmd |-> "NONE"]

EmptySession == [open |-> FALSE, disarmed |-> FALSE, stream |-> "RUN", bitmap |-> {},
                 next |-> 0, crc |-> <<>>, last |-> NoChunk]

ClearRam ==
  /\ active' = NoSlot /\ write' = 0 /\ highest_gen' = 0
  /\ rec_state' = "FLASH" /\ committed' = NoCommit
  /\ s' = EmptySession /\ erased' = {}
  /\ pc' = "idle" /\ req' = NoReq

\* Every way into a reset: RAM is initialised again and XIP is coherent.
Reset(newImg, newRec, magic, promise) ==
  /\ img' = newImg /\ rec' = newRec /\ xipImg' = newImg /\ xipRec' = newRec
  /\ mode' = "reset" /\ running' = NoSlot /\ bootreq' = magic /\ promised' = promise
  /\ ClearRam

\* Fault: the bootable slot is also the one written, as before A/B.
CoreInit_SingleImage ==
  LET best == BootSelect(img, rec) IN
  /\ mode' = "core" /\ running' = NoSlot
  /\ active' = best
  /\ write' = IF best = NoSlot THEN 0 ELSE best
  /\ highest_gen' = HighestGeneration(img, rec)
  /\ UNCHANGED <<flash, xip, rec_state, committed, s, erased, pc, req>>

\* ob_core_init
CoreInit ==
  LET best == BootSelect(img, rec) IN
  /\ mode' = "core" /\ running' = NoSlot
  /\ active' = best
  /\ write' = IF best = NoSlot THEN 0 ELSE Other(best)
  /\ highest_gen' = HighestGeneration(img, rec)
  /\ UNCHANGED <<flash, xip, rec_state, committed, s, erased, pc, req>>

\* ob_boot_decide; falling through it enters the bootloader.
Decide ==
  /\ mode = "reset"
  /\ promised' = FALSE
  /\ bootreq' = FALSE
  /\ IF ~bootreq /\ BootSelect(img, rec) # NoSlot
     THEN /\ mode' = "app" /\ running' = BootSelect(img, rec)
          /\ UNCHANGED <<flash, xip, slots, record, s, erased, pc, req>>
     ELSE CoreInit

Idle    == mode = "core" /\ pc = "idle"
Ready   == Idle /\ s.open        \* before HELLO every other command is E_STATE

\* Fault: the range test forgets which slot this power cycle writes.
WriteRangeOk_AnySlot(slot, at, n) == n # 0 /\ at + n <= Capacity(slot)

\* write_range_ok, for n words at `at' of a slot
WriteRangeOk(slot, at, n) == slot = write /\ n # 0 /\ at + n <= Capacity(write)

\* do_hello, session_open
Hello ==
  /\ Idle
  /\ s' = [EmptySession EXCEPT !.open = TRUE]
  /\ erased' = {}
  /\ UNCHANGED <<flash, xip, life, slots, record, pc, req>>

\* Fault: the record is distrusted only once it has been invalidated.
BeginMutation_TrustsRecord(request, step) ==
  /\ req' = request
  /\ pc' = IF s.disarmed THEN step ELSE "disarm"
  /\ UNCHANGED record

\* mutation_begin: the first mutation of a session goes by the record first.
BeginMutation(request, step) ==
  /\ req' = request
  /\ IF s.disarmed
     THEN pc' = step /\ UNCHANGED record
     ELSE /\ pc' = "disarm"
          /\ rec_state' = "INVALID" /\ committed' = NoCommit
          /\ UNCHANGED highest_gen

\* do_erase, up to its first flash operation (stream_note_erase included)
Erase(slot, lo, hi) ==
  /\ Ready
  /\ WriteRangeOk(slot, lo, hi - lo)
  /\ s' = [s EXCEPT !.stream = IF lo < s.next THEN "POISONED" ELSE @]
  /\ BeginMutation([cmd |-> "ERASE", slot |-> slot, at |-> lo, end |-> hi], "erase")
  /\ UNCHANGED <<flash, xip, life, slots, erased>>

\* Fault: a repeated WRITE breaks the run like any other.
Classify_NoRetry(at, data) == IF at = s.next THEN "FOLD" ELSE "POISON"

\* stream_classify_write
Classify(at, data) ==
  IF at = s.next THEN "FOLD"
  ELSE IF /\ at = s.last.addr /\ data = s.last.data
          /\ at + Len(data) = s.next
       THEN "RETRY"
  ELSE "POISON"

\* do_write, up to its first flash operation
Write(slot, at, data) ==
  /\ Ready
  /\ WriteRangeOk(slot, at, Len(data))
  /\ Covers(s.bitmap, at, Len(data))                           \* E_NOT_ERASED
  /\ s' = [s EXCEPT !.stream = IF Classify(at, data) = "POISON" THEN "POISONED" ELSE @]
  /\ BeginMutation([cmd |-> "WRITE", slot |-> slot, at |-> at, data |-> data,
                    class |-> Classify(at, data)], "program")
  /\ UNCHANGED <<flash, xip, life, slots, erased>>

\* The handler returns to the main loop.
Return == pc' = "idle" /\ req' = NoReq

-----------------------------------------------------------------------------
(* The flash operations of ERASE and WRITE *)

\* record_invalidate succeeded: the record is gone, the mutation may start.
Disarm ==
  /\ pc = "disarm"
  /\ FlashChanges(img, [rec EXCEPT ![write] = Blank])
  /\ s' = [s EXCEPT !.disarmed = TRUE]
  /\ pc' = IF req.cmd = "ERASE" THEN "erase" ELSE "program"
  /\ UNCHANGED <<life, slots, record, erased, req>>

\* Fault: the loop tests a <= end and takes one block too many.
EraseBlock_OneMore ==
  /\ pc = "erase"
  /\ FlashChanges([img EXCEPT ![req.slot] = EraseWords(@, req.at)], rec)
  /\ s' = [s EXCEPT !.bitmap = @ \union {req.at}]
  /\ erased' = erased \union {<<req.slot, req.at>>}
  /\ IF req.at + BlockSize <= req.end
     THEN req' = [req EXCEPT !.at = @ + BlockSize] /\ pc' = pc
     ELSE Return
  /\ UNCHANGED <<life, slots, record>>

\* One turn of do_erase's loop: ob_flash_erase, then bitmap_mark.
EraseBlock ==
  /\ pc = "erase"
  /\ FlashChanges([img EXCEPT ![req.slot] = EraseWords(@, req.at)], rec)
  /\ s' = [s EXCEPT !.bitmap = @ \union {req.at}]
  /\ erased' = erased \union {<<req.slot, req.at>>}
  /\ IF req.at + BlockSize < req.end
     THEN req' = [req EXCEPT !.at = @ + BlockSize] /\ pc' = pc
     ELSE Return
  /\ UNCHANGED <<life, slots, record>>

\* ob_flash_write, ob_flash_verify (through the controller), stream_fold
Program ==
  LET result   == ProgramWords(img[req.slot], req.at, req.data)
      verified == \A i \in 1..Len(req.data) : result[req.at + i] = req.data[i]
  IN
  /\ pc = "program"
  /\ FlashChanges([img EXCEPT ![req.slot] = result], rec)
  /\ s' = IF verified /\ req.class = "FOLD"
          THEN [s EXCEPT !.crc = @ \o req.data, !.next = @ + Len(req.data),
                         !.last = [addr |-> req.at, data |-> req.data]]
          ELSE s
  /\ Return
  /\ UNCHANGED <<life, slots, record, erased>>

\* The ROM reports an error: the handler answers E_FLASH where it stands.
MutationFails ==
  /\ pc \in {"disarm", "erase", "program"}
  /\ \E newImg \in ImgResidues, newRec \in RecResidues : FlashChanges(newImg, newRec)
  /\ Return
  /\ UNCHANGED <<life, slots, record, s, erased>>

-----------------------------------------------------------------------------
(* COMMIT *)

CommitRangeOk(len) == len <= Capacity(write)
CommitReplays(len, crc) == rec_state = "FRESH" /\ committed = [len |-> len, crc |-> crc]

\* Fault: XIP is believed whatever was written since reset.
AttestViaXip_Always == TRUE
AttestViaXip == CrcLive \/ rec_state = "FLASH"

\* Fault: the run is not required to be unbroken.
StreamCovers_Broken(len) == s.next = len
StreamCovers(len) == s.stream = "RUN" /\ s.next = len

\* The CRC do_commit compares with the host's: of XIP, or of the stream.
Attested(len) ==
  IF AttestViaXip THEN {Crc(image, len) : image \in XipImages(write)}
  ELSE IF StreamCovers(len) THEN {s.crc}
  ELSE {}                                                      \* NONSEQ

\* Fault: the new record repeats the highest generation.
NextGen_Same == highest_gen
NextGen == (highest_gen + 1) % (GenLimit + 1)

\* What do_commit answers before it touches flash; "GO" carries on.
CommitAnswer(len, crc) ==
  IF ~CommitRangeOk(len) THEN "E_ADDR"
  ELSE IF CommitReplays(len, crc) THEN "OK"
  ELSE IF crc \notin Attested(len) THEN "E_VERIFY"
  ELSE IF NextGen \in {0, GenLimit} THEN "E_FLASH"
  ELSE "GO"

\* Fault: the record is taken for written before it is.
Commit_FreshEarly(len, crc) ==
  /\ Ready
  /\ crc[1] # ErasedWord \/ BlankFirstWord
  /\ CommitAnswer(len, crc) = "GO"
  /\ rec_state' = "FRESH" /\ committed' = NoCommit
  /\ pc' = "recErase"
  /\ req' = [cmd |-> "COMMIT", rec |-> Sealed(NextGen, len, crc)]
  /\ UNCHANGED <<flash, xip, life, slots, highest_gen, s, erased>>

Commit(len, crc) ==
  /\ Ready
  /\ crc[1] # ErasedWord \/ BlankFirstWord
  /\ CommitAnswer(len, crc) = "GO"
  /\ rec_state' = "INVALID" /\ committed' = NoCommit           \* record_begin_write
  /\ pc' = "recErase"
  /\ req' = [cmd |-> "COMMIT", rec |-> Sealed(NextGen, len, crc)]
  /\ UNCHANGED <<flash, xip, life, slots, highest_gen, s, erased>>

\* ob_record_store: erase the record block ...
RecErase ==
  /\ pc = "recErase"
  /\ FlashChanges(img, [rec EXCEPT ![write] = Blank])
  /\ pc' = "recProgram"
  /\ UNCHANGED <<life, slots, record, s, erased, req>>

\* Fault: highest_gen keeps the value it had at reset.
NoteCommitted_ForgetsGen(r) ==
  /\ rec_state' = "FRESH"
  /\ committed' = [len |-> r.len, crc |-> r.crc]
  /\ active' = write /\ write' = Other(write)
  /\ s' = [EmptySession EXCEPT !.open = s.open]
  /\ UNCHANGED highest_gen

\* Fault: the erase bitmap of the old write slot survives the flip.
NoteCommitted_KeepsBitmap(r) ==
  /\ rec_state' = "FRESH"
  /\ committed' = [len |-> r.len, crc |-> r.crc]
  /\ highest_gen' = r.gen
  /\ active' = write /\ write' = Other(write)
  /\ s' = [EmptySession EXCEPT !.open = s.open, !.bitmap = s.bitmap]

\* record_note_committed: the roles of the slots swap, and the session is
\* armed again for the new write slot.
NoteCommitted(r) ==
  /\ rec_state' = "FRESH"
  /\ committed' = [len |-> r.len, crc |-> r.crc]
  /\ highest_gen' = r.gen
  /\ active' = write /\ write' = Other(write)
  /\ s' = [EmptySession EXCEPT !.open = s.open]

\* ... then program it and verify it through the controller
RecProgram ==
  /\ pc = "recProgram"
  /\ FlashChanges(img, [rec EXCEPT ![write] = req.rec])
  /\ NoteCommitted(req.rec)
  /\ Return
  /\ UNCHANGED <<life, erased>>

\* Either half failed: record_note_write_failed
RecStoreFails ==
  /\ pc \in {"recErase", "recProgram"}
  /\ \E newRec \in RecResidues : FlashChanges(img, newRec)
  /\ s' = [s EXCEPT !.disarmed = FALSE]
  /\ Return
  /\ UNCHANGED <<life, slots, record, erased>>

-----------------------------------------------------------------------------
(* BOOT, the reset path and power *)

Pair(a, b) == [x \in Slots |-> IF x = 0 THEN a ELSE b]

\* boot_record_trusted, over what XIP serves of both slots
BootTrusted(images, cells) ==
  \/ rec_state = "FRESH"
  \/ rec_state = "FLASH" /\ BootSelect(images, cells) # NoSlot
  \/ /\ rec_state = "INVALID"
     /\ active # NoSlot
     /\ AppValid(active, images[active], cells[active])

\* Fault: the magic of BOOT_STAY is written for either mode.
BootApp_LeavesMagic ==
  /\ Ready
  /\ \E a \in XipImages(0), b \in XipImages(1), c \in XipCells(0), d \in XipCells(1) :
       BootTrusted(Pair(a, b), Pair(c, d))
  /\ Reset(img, rec, TRUE, TRUE)

\* do_boot, OB_BOOT_APP: answer OK, then reset without the magic
BootApp ==
  /\ Ready
  /\ \E a \in XipImages(0), b \in XipImages(1), c \in XipCells(0), d \in XipCells(1) :
       BootTrusted(Pair(a, b), Pair(c, d))
  /\ Reset(img, rec, bootreq, TRUE)

\* do_boot, OB_BOOT_STAY
BootStay == Ready /\ Reset(img, rec, TRUE, FALSE)

\* main.c: no session before the idle deadline, so jump without a reset
IdleBoot ==
  /\ Idle /\ ~s.open
  /\ \E a \in XipImages(0), b \in XipImages(1), c \in XipCells(0), d \in XipCells(1) :
       /\ BootSelect(Pair(a, b), Pair(c, d)) # NoSlot
       /\ running' = BootSelect(Pair(a, b), Pair(c, d))
  /\ mode' = "app"
  /\ ClearRam
  /\ UNCHANGED <<flash, xip, bootreq, promised>>

\* openboot_request_update in the application, or a reset of its own
AppResets(magic) == mode = "app" /\ Reset(img, rec, magic, FALSE)

\* Power goes: a partial operation, and nothing of RAM is left.
PowerCut ==
  \E newImg \in ImgResidues, newRec \in RecResidues : Reset(newImg, newRec, FALSE, FALSE)

-----------------------------------------------------------------------------
(***************************************************************************)
(* The flash a device leaves the factory with: an image written to slot A  *)
(* by a programmer, with a record (compose_factory.py) or without one, or  *)
(* nothing at all; slot B is blank.                                        *)
(***************************************************************************)
Init ==
  /\ \E image \in Image, len \in 1..SlotWords, blessed \in BOOLEAN :
       /\ blessed => image[1] # ErasedWord \/ BlankFirstWord
       /\ img = Pair(image, [w \in 1..SlotWords |-> ErasedWord])
       /\ rec = Pair(IF blessed THEN Sealed(1, len, Crc(image, len)) ELSE Blank, Blank)
  /\ xipImg = img /\ xipRec = rec
  /\ mode = "reset" /\ running = NoSlot /\ bootreq = FALSE /\ promised = FALSE
  /\ active = NoSlot /\ write = 0 /\ highest_gen = 0
  /\ rec_state = "FLASH" /\ committed = NoCommit
  /\ s = EmptySession /\ erased = {}
  /\ pc = "idle" /\ req = NoReq

Request ==
  \/ Hello
  \/ \E slot \in Slots, lo \in Blocks, n \in 1..SlotWords :
       n % BlockSize = 0 /\ Erase(slot, lo, lo + n)
  \/ \E slot \in Slots, at \in 0..SlotWords - 1, data \in Chunk : Write(slot, at, data)
  \/ \E len \in 1..SlotWords : \E crc \in [1..len -> Word] : Commit(len, crc)
  \/ BootApp
  \/ BootStay

FlashStep ==
  \/ Disarm \/ EraseBlock \/ Program \/ MutationFails
  \/ RecErase \/ RecProgram \/ RecStoreFails

Next ==
  \/ Decide \/ Request \/ FlashStep \/ IdleBoot \/ PowerCut
  \/ \E magic \in BOOLEAN : AppResets(magic)

Spec == Init /\ [][Next]_vars

-----------------------------------------------------------------------------
(* Properties *)

Session ==
  [open : BOOLEAN, disarmed : BOOLEAN, stream : {"RUN", "POISONED"},
   bitmap : SUBSET Blocks, next : 0..SlotWords, crc : Seq(Word),
   last : [addr : 0..SlotWords, data : Seq(Word)]]

Requests ==
  {NoReq}
  \union [cmd : {"ERASE"}, slot : Slots, at : Blocks, end : 0..SlotWords]
  \union [cmd : {"WRITE"}, slot : Slots, at : 0..SlotWords, data : Seq(Word),
           class : {"FOLD", "RETRY", "POISON"}]
  \union [cmd : {"COMMIT"}, rec : Cell]

\* Every variable has the values the C types and the handlers allow, and a
\* pending flash operation has the request it runs for.
TypeOK ==
  /\ img \in [Slots -> Image] /\ xipImg \in [Slots -> Image]
  /\ rec \in [Slots -> Cell] /\ xipRec \in [Slots -> Cell]
  /\ mode \in {"reset", "core", "app"}
  /\ running \in Slots \union {NoSlot}
  /\ bootreq \in BOOLEAN /\ promised \in BOOLEAN
  /\ active \in Slots \union {NoSlot} /\ write \in Slots
  /\ highest_gen \in 0..GenLimit
  /\ rec_state \in {"FLASH", "INVALID", "FRESH"}
  /\ committed \in [len : 0..SlotWords, crc : Seq(Word)]
  /\ s \in Session
  /\ erased \subseteq Slots \X Blocks
  /\ pc \in {"idle", "disarm", "erase", "program", "recErase", "recProgram"}
  /\ req \in Requests

\* boot_core.c:189-201, boot_decision.c:101-113: at every instant - the device
\* may die at any of them - a record that loads describes the words its slot
\* holds.  Both orders carry it: the record goes before the first image word
\* does, and is written back only for words that were attested.
RecordAttestsImage ==
  \A x \in Slots : RecordLoads(x, rec[x]) => Crc(img[x], rec[x].len) = rec[x].crc

\* docs/AB-UPDATE.md, "the invariant": a device that has an application - one
\* the reset path launched or could launch, or one a COMMIT answered OK for -
\* still has one after any step: any command, any flash error, any power cut.
\* (A record that landed although its COMMIT answered E_FLASH does not count.)
HasApp == Bootable(img, rec) # {} /\ (mode = "core" => active # NoSlot)

StaysBootable == [][HasApp => Bootable(img, rec)' # {}]_vars

\* boot_core.c:349-364: BOOT answers OK only if the reset it is about to make
\* lands in an application, whatever XIP serves when it is asked.
BootPromiseKept == promised => BootSelect(img, rec) # NoSlot

\* boot_core.c:60-66: OB_REC_FLASH "doubles as no controller write since
\* reset", the licence to attest an image over a possibly stale XIP.
FlashStateMeansCoherent == rec_state = "FLASH" => xipImg = img /\ xipRec = rec

\* boot_core.c:100-103: two valid records never share a generation, so the
\* boot decision never has to break a tie.
NoGenerationTie ==
  (\A x \in Slots : RecordLoads(x, rec[x])) => rec[0].gen # rec[1].gen

\* boot_core.c:311-319, 538-542: after a COMMIT that answered OK the reset path
\* launches exactly the image it named, and an exact replay may be answered OK
\* without looking at flash.
FreshMeansInstalled ==
  rec_state = "FRESH" =>
    /\ BootSelect(img, rec) = active
    /\ rec[active].len = committed.len /\ rec[active].crc = committed.crc

\* boot_core.c:320-327: a word is programmed only in a block of its own slot
\* that this session erased; a bitmap bit must not survive the slot flip.
ProgramsErasedBlocksOnly ==
  [][\A x \in Slots : \A w \in 1..SlotWords :
       ~(img'[x][w] \subseteq img[x][w]) =>
          \E a \in Blocks : w \in InBlock(a) /\ <<x, a>> \in erased]_vars

\* boot_core.c:8-14, 167-176: nothing a session does reaches the slot the
\* device booted from, or would boot from, neither its image nor its record.
ActiveSlotUntouched ==
  [][mode = "core" /\ active # NoSlot =>
       img'[active] = img[active] /\ rec'[active] = rec[active]]_vars

(***************************************************************************)
(* Refinement: the words a reset would run, those the device answers for,  *)
(* and those a COMMIT is recording.                                        *)
(***************************************************************************)
ImageOf(slot) == IF slot = NoSlot THEN <<>> ELSE Crc(img[slot], rec[slot].len)

AB == INSTANCE ABUpdate WITH
  Images   <- UNION {[1..n -> Word] : n \in 1..SlotWords},
  NoImage  <- <<>>,
  launches <- ImageOf(BootSelect(img, rec)),
  held     <- ImageOf(IF mode = "core" THEN active ELSE BootSelect(img, rec)),
  offer    <- IF req.cmd = "COMMIT" THEN req.rec.crc ELSE <<>>

\* docs/AB-UPDATE.md: the engine implements the promise of A/B update.
ABSpec == AB!Spec
=============================================================================
