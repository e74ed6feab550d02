--------------------------- MODULE BootCoreProofs ---------------------------
(***************************************************************************)
(* Proofs about BootCore, for every value of its constants: that the loop  *)
(* of ob_boot_select implements the reference decision, the inductive      *)
(* invariant, the properties it carries itself, those that need the        *)
(* generations or the erase bitmap beside it, and the refinement of the    *)
(* abstract A/B update.                                                    *)
(*                                                                         *)
(* Beside types IInv says what the comments of the code rely on: who may   *)
(* be bootable, what the disarm flag, the sequential run and a pending     *)
(* request stand for.                                                      *)
(***************************************************************************)
EXTENDS BootCore, TLAPS, SequenceTheorems

-----------------------------------------------------------------------------
(* The boot decision *)

\* boot_decision.c:130-152: the loop answers a slot that boots, and answers
\* none only if no slot does.
THEOREM SelectSound ==
  ASSUME NEW images, NEW cells
  PROVE  /\ BootSelect(images, cells) \in Slots \union {NoSlot}
         /\ BootSelect(images, cells) # NoSlot =>
              BootSelect(images, cells) \in Bootable(images, cells)
         /\ BootSelect(images, cells) = NoSlot <=> Bootable(images, cells) = {}
<1> DEFINE a0 == SelectStep(SelectInit, 0, images[0], cells[0])
           a1 == SelectStep(a0, 1, images[1], cells[1])
<1>1. \/ a0.best = 0 /\ AppValid(0, images[0], cells[0])
      \/ a0.best = NoSlot /\ ~AppValid(0, images[0], cells[0])
  BY DEF SelectStep, SelectInit, AppValid, NoSlot
<1>2. /\ a0.best = NoSlot => a1.best = IF AppValid(1, images[1], cells[1]) THEN 1 ELSE NoSlot
      /\ a0.best = 0 => a1.best = 0 \/ (a1.best = 1 /\ AppValid(1, images[1], cells[1]))
  <2>1. a0 = [highest |-> a0.highest, gen |-> a0.gen, best |-> a0.best]
    BY DEF SelectStep, SelectInit
  <2> HIDE DEF a0
  <2> QED BY <2>1 DEF SelectStep, AppValid, NoSlot
<1>3. BootSelect(images, cells) = a1.best
  BY DEF BootSelect, Select
<1> HIDE DEF a0, a1
<1> QED BY <1>1, <1>2, <1>3 DEF Bootable, Slots, NoSlot

\* boot_decision.c:130-152: the one pass over the slots implements the
\* reference decision - the bootable slot of the highest generation, the first
\* one on a tie, and the highest generation of any record that loads.
THEOREM SelectIsBest ==
  ASSUME NEW images, NEW cells \in [Slots -> Cell]
  PROVE  /\ IsBest(BootSelect(images, cells), images, cells)
         /\ IsHighest(HighestGeneration(images, cells), cells)
<1> DEFINE a0 == SelectStep(SelectInit, 0, images[0], cells[0])
           a1 == SelectStep(a0, 1, images[1], cells[1])
           V(x) == ImageValid(images[x], cells[x])
           L(x) == RecordLoads(x, cells[x])
<1>1. /\ cells[0].gen \in Nat /\ cells[1].gen \in Nat
      /\ L(0) => cells[0].gen # 0
      /\ L(1) => cells[1].gen # 0
  BY DecisionAssumption DEF DecisionAssumption, Slots, Cell, RecordLoads
<1>2. a0 = IF ~L(0) THEN [highest |-> 0, gen |-> 0, best |-> NoSlot]
           ELSE IF ~V(0) THEN [highest |-> cells[0].gen, gen |-> 0, best |-> NoSlot]
           ELSE [highest |-> cells[0].gen, gen |-> cells[0].gen, best |-> 0]
  <2> HIDE DEF L, V
  <2>1. CASE ~L(0)
    BY <2>1 DEF SelectStep, SelectInit, L
  <2>2. CASE L(0) /\ ~V(0)
    BY <1>1, <2>2 DEF SelectStep, SelectInit, L, V, NoSlot
  <2>3. CASE L(0) /\ V(0)
    BY <1>1, <2>3 DEF SelectStep, SelectInit, L, V, NoSlot
  <2> QED BY <2>1, <2>2, <2>3
<1> DEFINE seen == IF cells[1].gen > a0.highest THEN cells[1].gen ELSE a0.highest
<1>3. /\ a1.best = IF L(1) /\ V(1) /\ ~(a0.best # NoSlot /\ cells[1].gen <= a0.gen) THEN 1 ELSE a0.best
      /\ a1.highest = IF L(1) THEN seen ELSE a0.highest
  <2> HIDE DEF L, V, a0
  <2>1. CASE ~L(1)
    BY <2>1 DEF SelectStep, L
  <2>2. a0 = [highest |-> a0.highest, gen |-> a0.gen, best |-> a0.best]
    BY <1>2 DEF a0
  <2>3. CASE L(1)
    BY <2>2, <2>3 DEF SelectStep, L, V
  <2> QED BY <2>1, <2>3
<1>4. BootSelect(images, cells) = a1.best /\ HighestGeneration(images, cells) = a1.highest
  BY DEF BootSelect, HighestGeneration, Select
<1>5. Bootable(images, cells) = {x \in Slots : L(x) /\ V(x)}
  BY DEF Bootable, AppValid
<1> HIDE DEF a0, a1, L, V
<1>6. IsBest(a1.best, images, cells)
  <2>1. CASE ~(L(0) /\ V(0))
    <3>1. a0.best = NoSlot
      BY <1>2, <2>1
    <3> QED BY <1>1, <1>3, <1>5, <2>1, <3>1 DEF IsBest, Slots, NoSlot
  <2>2. CASE L(0) /\ V(0)
    <3>1. a0.best = 0 /\ a0.gen = cells[0].gen
      BY <1>2, <2>2
    <3> QED BY <1>1, <1>3, <1>5, <2>2, <3>1 DEF IsBest, Slots, NoSlot
  <2> QED BY <2>1, <2>2
<1>7. IsHighest(a1.highest, cells)
  <2>1. a0.highest = IF L(0) THEN cells[0].gen ELSE 0
    BY <1>2
  <2>2. {cells[x].gen : x \in {y \in Slots : RecordLoads(y, cells[y])}}
          = {cells[x].gen : x \in {y \in Slots : L(y)}}
    BY DEF L
  <2> QED BY <1>1, <1>3, <2>1, <2>2 DEF IsHighest, Slots
<1> QED BY <1>4, <1>6, <1>7

\* The highest generation is that of a stored record, or 0.
LEMMA HighestType ==
  ASSUME NEW images, NEW cells \in [Slots -> Cell]
  PROVE  HighestGeneration(images, cells) \in 0..GenLimit
<1> DEFINE a0 == SelectStep(SelectInit, 0, images[0], cells[0])
           a1 == SelectStep(a0, 1, images[1], cells[1])
<1>1. cells[0].gen \in 0..GenLimit /\ cells[1].gen \in 0..GenLimit
  BY DEF Slots, Cell
<1>2. a0.highest \in 0..GenLimit
  BY <1>1, DecisionAssumption DEF DecisionAssumption, SelectStep, SelectInit
<1>3. a1.highest \in 0..GenLimit
  <2>1. a0 = [highest |-> a0.highest, gen |-> a0.gen, best |-> a0.best]
    BY DEF SelectStep, SelectInit
  <2> HIDE DEF a0
  <2> QED BY <1>1, <1>2, <2>1 DEF SelectStep
<1> QED BY <1>3 DEF HighestGeneration, Select

\* Blank flash and interrupted residue are contents of a record block.
LEMMA BlankTypes == Blank \in Cell /\ Torn \in Cell
BY DecisionAssumption DEF DecisionAssumption, Blank, Torn, Cell

-----------------------------------------------------------------------------
(* The inductive invariant *)

\* A flash operation is pending only for the request it belongs to, and only
\* while the record is distrusted.
PcOK ==
  /\ pc = "idle" => req = NoReq
  /\ pc # "idle" => mode = "core" /\ rec_state = "INVALID"
  /\ pc = "disarm" => req.cmd \in {"ERASE", "WRITE"}
  /\ pc = "erase" => req.cmd = "ERASE"
  /\ pc = "program" => req.cmd = "WRITE"
  /\ pc \in {"recErase", "recProgram"} => req.cmd = "COMMIT"
  /\ req.cmd \in {"ERASE", "WRITE"} => req.slot = write

\* Outside the bootloader RAM is as the reset leaves it, and without a session
\* nothing was written.
RamOK ==
  /\ ~s.open => rec_state = "FLASH" /\ pc = "idle"
  /\ s.disarmed => rec_state = "INVALID"
  /\ mode # "core" =>
       active = NoSlot /\ pc = "idle" /\ rec_state = "FLASH" /\ s = EmptySession
  /\ active # NoSlot => write = Other(active)
  /\ rec_state = "FRESH" => active # NoSlot
  /\ promised => mode = "reset"

\* XIP is coherent until the first controller operation, or always.
CoherentOK ==
  /\ CrcLive => xipImg = img /\ xipRec = rec
  /\ FlashStateMeansCoherent

\* The active slot boots, whatever a record in the write slot says - unless a
\* host committed an image the reset path does not launch.
ActiveOK == active # NoSlot => BlankFirstWord \/ AppValid(active, img[active], rec[active])

\* "Disarmed" means the write slot has no record that loads.
DisarmedOK ==
  /\ s.disarmed => rec[write].st # "sealed"
  /\ pc \in {"erase", "program"} => s.disarmed
  /\ pc = "recProgram" => rec[write] = Blank

\* While the run is unbroken flash holds exactly the words that were folded.
Holds(image, at, data) == \A i \in 1..Len(data) : image[at + i] = data[i]

StreamOK ==
  s.stream = "RUN" =>
    /\ Len(s.crc) = s.next
    /\ Holds(img[write], 0, s.crc)
    /\ s.last.addr + Len(s.last.data) <= s.next
    /\ Holds(s.crc, s.last.addr, s.last.data)

\* A pending request keeps to what the run allows.
RequestOK ==
  /\ req.cmd = "ERASE" /\ s.stream = "RUN" => s.next <= req.at
  /\ req.cmd = "WRITE" =>
       /\ req.at + Len(req.data) <= SlotWords
       /\ req.class = "FOLD" => req.at = s.next
       /\ req.class = "RETRY" /\ s.stream = "RUN" =>
            req.at + Len(req.data) <= s.next /\ Holds(s.crc, req.at, req.data)
       /\ req.class = "POISON" => s.stream = "POISONED"
  /\ req.cmd = "COMMIT" =>
       /\ req.rec.st = "sealed" /\ req.rec.gen # 0
       /\ req.rec.len \in 1..SlotWords /\ write \in Usable
       /\ req.rec.crc = Crc(img[write], req.rec.len)
       /\ req.rec.crc[1] # ErasedWord \/ BlankFirstWord

IInv ==
  /\ TypeOK /\ PcOK /\ RamOK /\ CoherentOK /\ ActiveOK /\ DisarmedOK
  /\ StreamOK /\ RequestOK /\ RecordAttestsImage
  /\ BootPromiseKept \/ BlankFirstWord

-----------------------------------------------------------------------------
(* Facts about the flash operators *)

\* An erase leaves an image.
LEMMA EraseWordsType ==
  ASSUME NEW image \in Image, NEW a
  PROVE  EraseWords(image, a) \in Image
BY DEF EraseWords, Image, Word, ErasedWord

\* A program leaves an image.
LEMMA ProgramWordsType ==
  ASSUME NEW image \in Image, NEW at \in Nat, NEW data \in Seq(Word)
  PROVE  ProgramWords(image, at, data) \in Image
<1>1. ASSUME NEW w \in 1..SlotWords, w \in at + 1..at + Len(data)
      PROVE  data[w - at] \in Word
  <2>1. w - at \in 1..Len(data)
    BY <1>1, DecisionAssumption DEF DecisionAssumption
  <2> QED BY <2>1
<1> QED BY <1>1 DEF ProgramWords, Image, Word

\* What a failed operation leaves: still images, still cells, and only the
\* slot of the request (the write slot) is concerned.
LEMMA ResidueType ==
  ASSUME TypeOK, PcOK
  PROVE  /\ \A newImg \in ImgResidues : newImg \in [Slots -> Image]
         /\ \A newRec \in RecResidues : newRec \in [Slots -> Cell]
<1>1. ASSUME NEW image \in Image, NEW a  PROVE EraseResidue(image, a) \subseteq Image
  BY DEF EraseResidue, Image
<1>2. ASSUME NEW image \in Image, NEW a, NEW d  PROVE ProgramResidue(image, a, d) \subseteq Image
  BY DEF ProgramResidue, Image
<1>3. ASSUME pc \in {"erase", "program"} PROVE req.slot \in Slots
  BY <1>3 DEF TypeOK, PcOK
<1>4. \A newImg \in ImgResidues : newImg \in [Slots -> Image]
  BY <1>1, <1>2, <1>3 DEF ImgResidues, TypeOK
<1>5. Blank \in Cell /\ Torn \in Cell
  BY DecisionAssumption DEF DecisionAssumption, Blank, Torn, Cell
<1>6. pc = "recProgram" => req.rec \in Cell
  BY DEF TypeOK, PcOK, Requests, NoReq
<1>7. \A newRec \in RecResidues : newRec \in [Slots -> Cell]
  BY <1>5, <1>6 DEF RecResidues, TypeOK
<1> QED BY <1>4, <1>7

-----------------------------------------------------------------------------
(* Type correctness *)

\* What RAM holds after a reset has its type.
LEMMA RamTypes == NoReq \in Requests /\ NoCommit \in [len : 0..SlotWords, crc : Seq(Word)]
BY DecisionAssumption DEF DecisionAssumption, NoReq, Requests, NoCommit

\* A fresh session has its type, open or not.
LEMMA SessionTypes ==
  /\ EmptySession \in Session
  /\ \A b \in BOOLEAN : [EmptySession EXCEPT !.open = b] \in Session
<1>1. NoChunk \in [addr : 0..SlotWords, data : Seq(Word)]
  BY DecisionAssumption DEF DecisionAssumption, NoChunk
<1>2. EmptySession \in Session
  BY <1>1, DecisionAssumption DEF DecisionAssumption, EmptySession, Session
<1> QED BY <1>2 DEF Session

\* A device from the factory is well typed.
LEMMA TypeInit == Init => TypeOK
<1> SUFFICES ASSUME Init PROVE TypeOK
  OBVIOUS
<1>1. PICK image \in Image, len \in 1..SlotWords, blessed \in BOOLEAN :
        /\ img = Pair(image, [w \in 1..SlotWords |-> ErasedWord])
        /\ rec = Pair(IF blessed THEN Sealed(1, len, Crc(image, len)) ELSE Blank, Blank)
  BY DEF Init
<1>2. img \in [Slots -> Image]
  BY <1>1 DEF Pair, Image, Word, ErasedWord
<1>3. Crc(image, len) \in Seq(Word)
  <2>1. Crc(image, len) \in [1..len -> Word]
    BY DecisionAssumption DEF DecisionAssumption, Crc, Image
  <2> QED BY <2>1, DecisionAssumption DEF DecisionAssumption
<1>4. Blank \in Cell /\ Sealed(1, len, Crc(image, len)) \in Cell
  BY <1>3, DecisionAssumption DEF DecisionAssumption, Blank, Sealed, Cell
<1>5. rec \in [Slots -> Cell]
  BY <1>1, <1>4 DEF Pair
<1>6. /\ xipImg = img /\ xipRec = rec
      /\ mode = "reset" /\ running = NoSlot /\ bootreq = FALSE /\ promised = FALSE
      /\ active = NoSlot /\ write = 0 /\ highest_gen = 0
      /\ rec_state = "FLASH" /\ committed = NoCommit
      /\ s = EmptySession /\ erased = {} /\ pc = "idle" /\ req = NoReq
  BY DEF Init
<1>7. 0 \in 0..GenLimit
  BY DecisionAssumption DEF DecisionAssumption
<1> QED BY <1>2, <1>5, <1>6, <1>7, RamTypes, SessionTypes DEF TypeOK, Slots, NoSlot

\* Any reset leaves well-typed RAM.
LEMMA ResetTypes ==
  ASSUME NEW newImg \in [Slots -> Image], NEW newRec \in [Slots -> Cell],
         NEW m \in BOOLEAN, NEW p \in BOOLEAN, Reset(newImg, newRec, m, p)
  PROVE  TypeOK'
BY RamTypes, SessionTypes, DecisionAssumption
   DEF DecisionAssumption, Reset, ClearRam, TypeOK, Slots, NoSlot

\* XIP keeps an image and a record for each slot, like flash itself.
LEMMA FlashTypes ==
  ASSUME TypeOK, NEW newImg \in [Slots -> Image], NEW newRec \in [Slots -> Cell],
         FlashChanges(newImg, newRec)
  PROVE  /\ img' \in [Slots -> Image] /\ xipImg' \in [Slots -> Image]
         /\ rec' \in [Slots -> Cell] /\ xipRec' \in [Slots -> Cell]
BY DEF FlashChanges, TypeOK

\* The next state of every action, one disjunct an action.
LEMMA Actions ==
  ASSUME [Next]_vars
  PROVE  \/ Decide \/ Hello \/ BootApp \/ BootStay \/ IdleBoot \/ PowerCut
         \/ \E slot \in Slots, lo \in Blocks, n \in 1..SlotWords :
              n % BlockSize = 0 /\ Erase(slot, lo, lo + n)
         \/ \E slot \in Slots, at \in 0..SlotWords - 1, data \in Chunk : Write(slot, at, data)
         \/ \E len \in 1..SlotWords : \E crc \in [1..len -> Word] : Commit(len, crc)
         \/ Disarm \/ EraseBlock \/ Program \/ MutationFails
         \/ RecErase \/ RecProgram \/ RecStoreFails
         \/ \E magic \in BOOLEAN : AppResets(magic)
         \/ UNCHANGED vars
BY DEF Next, Request, FlashStep

\* The data of a WRITE is a non-empty sequence of words.
LEMMA ChunkType == \A data \in Chunk : data \in Seq(Word) /\ Len(data) \in Nat \ {0}
BY CoreAssumption DEF CoreAssumption, Chunk

\* What write_range_ok accepts ends inside the image area of the write slot.
LEMMA RangeOk ==
  ASSUME NEW slot, NEW at \in Nat, NEW n \in Nat, WriteRangeOk(slot, at, n)
  PROVE  slot = write /\ at + n <= SlotWords
BY DecisionAssumption DEF DecisionAssumption, WriteRangeOk, Capacity

\* The erase loop's next address is a block address again.
LEMMA NextBlock ==
  ASSUME NEW a \in Nat, a % BlockSize = 0
  PROVE  (a + BlockSize) % BlockSize = 0
<1>1. a = BlockSize * (a \div BlockSize) + (a % BlockSize) /\ a \div BlockSize \in Nat
  BY CoreAssumption, Z3 DEF CoreAssumption
<1> DEFINE q == a \div BlockSize
<1>2. q \in Nat /\ a = BlockSize * q
  <2>1. BlockSize * q \in Nat
    BY <1>1, CoreAssumption DEF CoreAssumption
  <2> QED BY <1>1, <2>1
<1> HIDE DEF q
<1>3. a + BlockSize = BlockSize * (q + 1)
  BY <1>2, CoreAssumption DEF CoreAssumption
<1>4. (BlockSize * (q + 1)) % BlockSize = 0
  BY <1>2, CoreAssumption, Z3 DEF CoreAssumption
<1> QED BY <1>3, <1>4

\* Every step keeps the types; one step of the proof per action.
LEMMA TypeStep ==
  ASSUME IInv, [Next]_vars
  PROVE  TypeOK'
<1> USE DEF IInv
<1>1. CASE Decide
  <2>1. BootSelect(img, rec) \in Slots \union {NoSlot} /\ HighestGeneration(img, rec) \in 0..GenLimit
    BY SelectSound, HighestType DEF TypeOK
  <2>2. promised' = FALSE /\ bootreq' = FALSE
    BY <1>1 DEF Decide
  <2>3. CASE ~bootreq /\ BootSelect(img, rec) # NoSlot
    BY <1>1, <2>1, <2>2, <2>3 DEF Decide, TypeOK, flash, xip, slots, record
  <2>4. CASE CoreInit
    <3>1. active' \in Slots \union {NoSlot} /\ write' \in Slots
      BY <2>1, <2>4 DEF CoreInit, Slots, NoSlot, Other
    <3>2. mode' = "core" /\ running' = NoSlot /\ highest_gen' \in 0..GenLimit
      BY <2>1, <2>4 DEF CoreInit
    <3> QED BY <2>2, <2>4, <3>1, <3>2 DEF CoreInit, TypeOK, flash, xip
  <2> QED BY <1>1, <2>3, <2>4 DEF Decide
<1>2. CASE Hello
  BY <1>2, SessionTypes DEF Hello, TypeOK, flash, xip, life, slots, record
<1>3. ASSUME NEW slot \in Slots, NEW lo \in Blocks, NEW n \in 1..SlotWords, Erase(slot, lo, lo + n)
      PROVE  TypeOK'
  <2>1. lo \in Nat /\ lo + n \in 0..SlotWords
    BY <1>3, RangeOk, DecisionAssumption DEF DecisionAssumption, Erase, Blocks
  <2>2. [cmd |-> "ERASE", slot |-> slot, at |-> lo, end |-> lo + n] \in Requests
    BY <2>1 DEF Requests
  <2>3. s' \in Session
    BY <1>3 DEF Erase, TypeOK, Session
  <2> QED BY <1>3, <2>2, <2>3, RamTypes DEF Erase, BeginMutation, TypeOK, flash, xip, life, slots, record
<1>4. ASSUME NEW slot \in Slots, NEW at \in 0..SlotWords - 1, NEW data \in Chunk, Write(slot, at, data)
      PROVE  TypeOK'
  <2>1. [cmd |-> "WRITE", slot |-> slot, at |-> at, data |-> data, class |-> Classify(at, data)]
          \in Requests
    BY ChunkType, DecisionAssumption DEF DecisionAssumption, Requests, Classify
  <2>2. s' \in Session
    BY <1>4 DEF Write, TypeOK, Session
  <2> QED BY <1>4, <2>1, <2>2, RamTypes DEF Write, BeginMutation, TypeOK, flash, xip, life, slots, record
<1>5. CASE Disarm
  <2>1. [rec EXCEPT ![write] = Blank] \in [Slots -> Cell]
    BY BlankTypes DEF TypeOK
  <2>2. s' \in Session
    BY <1>5 DEF Disarm, TypeOK, Session
  <2> QED BY <1>5, <2>1, <2>2, FlashTypes DEF Disarm, TypeOK, life, slots, record
<1>6. CASE EraseBlock
  <2>1. req.slot \in Slots /\ req.at \in Blocks /\ req.end \in 0..SlotWords
    BY <1>6 DEF EraseBlock, PcOK, TypeOK, Requests, NoReq
  <2>2. [img EXCEPT ![req.slot] = EraseWords(@, req.at)] \in [Slots -> Image]
    BY <2>1, EraseWordsType DEF TypeOK
  <2>3. s' \in Session
    BY <1>6, <2>1 DEF EraseBlock, TypeOK, Session
  <2>4. erased' \subseteq Slots \X Blocks
    BY <1>6, <2>1 DEF EraseBlock, TypeOK
  <2>5. req' \in Requests /\ pc' \in {"idle", "erase"}
    <3>1. CASE req.at + BlockSize < req.end
      <4>1. req.at + BlockSize \in Blocks
        BY <2>1, <3>1, NextBlock, CoreAssumption, DecisionAssumption
           DEF Blocks, CoreAssumption, DecisionAssumption
      <4>2. req \in [cmd : {"ERASE"}, slot : Slots, at : Blocks, end : 0..SlotWords]
        BY <1>6 DEF EraseBlock, PcOK, TypeOK, Requests, NoReq
      <4>3. [req EXCEPT !.at = @ + BlockSize]
              \in [cmd : {"ERASE"}, slot : Slots, at : Blocks, end : 0..SlotWords]
        BY <4>1, <4>2
      <4> QED BY <1>6, <3>1, <4>3 DEF EraseBlock, Requests
    <3>2. CASE ~(req.at + BlockSize < req.end)
      BY <1>6, <3>2, RamTypes DEF EraseBlock, Return
    <3> QED BY <3>1, <3>2
  <2> QED BY <1>6, <2>2, <2>3, <2>4, <2>5, FlashTypes DEF EraseBlock, TypeOK, life, slots, record
<1>7. CASE Program
  <2>1. /\ req.slot \in Slots /\ req.at \in 0..SlotWords /\ req.data \in Seq(Word)
        /\ req.at + Len(req.data) \in 0..SlotWords
        /\ req.class = "FOLD" => req.at = s.next
    BY <1>7, DecisionAssumption DEF DecisionAssumption, Program, PcOK, TypeOK, Requests, NoReq, RequestOK
  <2>2. [img EXCEPT ![req.slot] = ProgramWords(img[req.slot], req.at, req.data)] \in [Slots -> Image]
    BY <2>1, ProgramWordsType, DecisionAssumption DEF DecisionAssumption, TypeOK
  <2>3. s' \in Session
    <3>1. [addr |-> req.at, data |-> req.data] \in [addr : 0..SlotWords, data : Seq(Word)]
      BY <2>1
    <3>2. s.crc \o req.data \in Seq(Word)
      BY <2>1 DEF TypeOK, Session
    <3> QED BY <1>7, <2>1, <3>1, <3>2 DEF Program, TypeOK, Session
  <2> QED BY <1>7, <2>2, <2>3, FlashTypes, RamTypes DEF Program, Return, TypeOK, life, slots, record
<1>8. CASE MutationFails
  BY <1>8, ResidueType, FlashTypes, RamTypes DEF MutationFails, Return, TypeOK, life, slots, record
<1>9. ASSUME NEW len \in 1..SlotWords, NEW crc \in [1..len -> Word], Commit(len, crc)
      PROVE  TypeOK'
  <2>1. NextGen \in 0..GenLimit
    BY DecisionAssumption DEF DecisionAssumption, NextGen, TypeOK
  <2>2. crc \in Seq(Word)
    BY DecisionAssumption DEF DecisionAssumption
  <2>3. [cmd |-> "COMMIT", rec |-> Sealed(NextGen, len, crc)] \in Requests
    BY <2>1, <2>2, DecisionAssumption DEF DecisionAssumption, Requests, Sealed, Cell
  <2> QED BY <1>9, <2>3, RamTypes DEF Commit, TypeOK, flash, xip, life, slots
<1>10. CASE RecErase
  <2>1. [rec EXCEPT ![write] = Blank] \in [Slots -> Cell]
    BY BlankTypes DEF TypeOK
  <2> QED BY <1>10, <2>1, FlashTypes DEF RecErase, TypeOK, life, slots, record
<1>11. CASE RecProgram
  <2>1. req.rec \in Cell /\ req.rec.len \in 0..SlotWords
    BY <1>11, DecisionAssumption
       DEF DecisionAssumption, RecProgram, PcOK, TypeOK, Requests, NoReq, RequestOK
  <2>2. [rec EXCEPT ![write] = req.rec] \in [Slots -> Cell]
    BY <2>1 DEF TypeOK
  <2>3. s' \in Session
    BY <1>11, SessionTypes DEF RecProgram, NoteCommitted, TypeOK, Session
  <2>4. committed' \in [len : 0..SlotWords, crc : Seq(Word)] /\ highest_gen' \in 0..GenLimit
    BY <1>11, <2>1 DEF RecProgram, NoteCommitted, Cell
  <2>5. active' \in Slots \union {NoSlot} /\ write' \in Slots
    BY <1>11 DEF RecProgram, NoteCommitted, Other, TypeOK, Slots
  <2>6. rec_state' = "FRESH" /\ Return
    BY <1>11 DEF RecProgram, NoteCommitted
  <2> QED BY <1>11, <2>2, <2>3, <2>4, <2>5, <2>6, FlashTypes, RamTypes
          DEF RecProgram, Return, TypeOK, life
<1>12. CASE RecStoreFails
  <2>1. s' \in Session
    BY <1>12 DEF RecStoreFails, TypeOK, Session
  <2>2. img \in [Slots -> Image]
    BY DEF TypeOK
  <2> QED BY <1>12, <2>1, <2>2, ResidueType, FlashTypes, RamTypes
          DEF RecStoreFails, Return, TypeOK, life, slots, record
<1>13. CASE BootApp
  BY <1>13, ResetTypes DEF BootApp, TypeOK
<1>14. CASE BootStay
  BY <1>14, ResetTypes DEF BootStay, TypeOK
<1>15. CASE IdleBoot
  BY <1>15, SelectSound, RamTypes, SessionTypes, DecisionAssumption
     DEF DecisionAssumption, IdleBoot, ClearRam, TypeOK, flash, xip, Slots, NoSlot
<1>16. CASE PowerCut
  BY <1>16, ResidueType, ResetTypes DEF PowerCut
<1>17. ASSUME NEW magic \in BOOLEAN, AppResets(magic) PROVE TypeOK'
  BY <1>17, ResetTypes DEF AppResets, TypeOK
<1>18. CASE UNCHANGED vars
  BY <1>18 DEF vars, flash, xip, life, slots, record, TypeOK
<1> QED BY Actions, <1>1, <1>2, <1>3, <1>4, <1>5, <1>6, <1>7, <1>8, <1>9, <1>10, <1>11,
          <1>12, <1>13, <1>14, <1>15, <1>16, <1>17, <1>18

-----------------------------------------------------------------------------
(* Control: what is pending, what RAM says of the slots, what XIP may serve *)

\* A reset puts RAM where every conjunct about RAM holds.
LEMMA ResetStep ==
  ASSUME NEW newImg, NEW newRec, NEW m, NEW p, Reset(newImg, newRec, m, p)
  PROVE  PcOK' /\ RamOK' /\ CoherentOK' /\ ActiveOK' /\ DisarmedOK' /\ StreamOK' /\ RequestOK'
<1>1. /\ img' = newImg /\ rec' = newRec /\ xipImg' = newImg /\ xipRec' = newRec
      /\ mode' = "reset" /\ active' = NoSlot /\ write' = 0 /\ rec_state' = "FLASH"
      /\ s' = EmptySession /\ pc' = "idle" /\ req' = NoReq
  BY DEF Reset, ClearRam
<1>2. PcOK' /\ RamOK' /\ CoherentOK' /\ ActiveOK' /\ RequestOK'
  BY <1>1 DEF PcOK, RamOK, CoherentOK, FlashStateMeansCoherent, ActiveOK, RequestOK, NoReq, EmptySession
<1>3. DisarmedOK' /\ StreamOK'
  BY <1>1 DEF DisarmedOK, StreamOK, Holds, EmptySession, NoChunk
<1> QED BY <1>2, <1>3

\* Every step keeps the control state and the request in agreement.
LEMMA ControlStep ==
  ASSUME IInv, [Next]_vars
  PROVE  PcOK' /\ RamOK'
<1> USE DEF IInv
<1>1. CASE Decide
  <2>1. /\ pc = "idle" /\ pc' = "idle" /\ req = NoReq /\ req' = NoReq /\ s' = s
        /\ rec_state = "FLASH" /\ rec_state' = "FLASH" /\ active = NoSlot
        /\ s = EmptySession /\ promised' = FALSE
    BY <1>1 DEF Decide, CoreInit, PcOK, RamOK, record
  <2>2. \/ mode' = "app" /\ active' = NoSlot
        \/ mode' = "core" /\ (active' # NoSlot => write' = Other(active'))
    BY <1>1, <2>1 DEF Decide, CoreInit, slots
  <2> QED BY <2>1, <2>2 DEF PcOK, RamOK, NoReq, EmptySession
<1>2. CASE Hello
  BY <1>2 DEF Hello, Idle, EmptySession, PcOK, RamOK, life, slots, record
<1>3. ASSUME NEW slot \in Slots, NEW lo \in Blocks, NEW n \in 1..SlotWords, Erase(slot, lo, lo + n)
      PROVE  PcOK' /\ RamOK'
  <2>1. /\ s'.open = s.open /\ s'.disarmed = s.disarmed /\ s.open
        /\ mode' = mode /\ mode = "core" /\ active' = active /\ write' = write /\ promised' = promised
    BY <1>3 DEF Erase, Ready, Idle, TypeOK, Session, life, slots
  <2>2. rec_state' = "INVALID" /\ pc' \in {"disarm", "erase"}
    BY <1>3 DEF Erase, BeginMutation, RamOK, record
  <2>3. req'.cmd = "ERASE" /\ req'.slot = write
    BY <1>3 DEF Erase, BeginMutation, WriteRangeOk
  <2> QED BY <2>1, <2>2, <2>3 DEF PcOK, RamOK
<1>4. ASSUME NEW slot \in Slots, NEW at \in 0..SlotWords - 1, NEW data \in Chunk, Write(slot, at, data)
      PROVE  PcOK' /\ RamOK'
  <2>1. /\ s'.open = s.open /\ s'.disarmed = s.disarmed /\ s.open
        /\ mode' = mode /\ mode = "core" /\ active' = active /\ write' = write /\ promised' = promised
    BY <1>4 DEF Write, Ready, Idle, TypeOK, Session, life, slots
  <2>2. rec_state' = "INVALID" /\ pc' \in {"disarm", "program"}
    BY <1>4 DEF Write, BeginMutation, RamOK, record
  <2>3. req'.cmd = "WRITE" /\ req'.slot = write
    BY <1>4 DEF Write, BeginMutation, WriteRangeOk
  <2> QED BY <2>1, <2>2, <2>3 DEF PcOK, RamOK
<1>5. CASE Disarm
  BY <1>5 DEF Disarm, TypeOK, Session, PcOK, RamOK, life, slots, record
<1>6. CASE EraseBlock
  BY <1>6 DEF EraseBlock, Return, PcOK, RamOK, NoReq, life, slots, record, TypeOK, Session, Requests
<1>7. CASE Program
  BY <1>7 DEF Program, Return, TypeOK, Session, PcOK, RamOK, NoReq, life, slots, record
<1>8. CASE MutationFails
  BY <1>8 DEF MutationFails, Return, PcOK, RamOK, NoReq, life, slots, record
<1>9. ASSUME NEW len \in 1..SlotWords, NEW crc \in [1..len -> Word], Commit(len, crc)
      PROVE  PcOK' /\ RamOK'
  BY <1>9 DEF Commit, Ready, Idle, PcOK, RamOK, life, slots
<1>10. CASE RecErase
  BY <1>10 DEF RecErase, PcOK, RamOK, life, slots, record
<1>11. CASE RecProgram
  BY <1>11 DEF RecProgram, NoteCommitted, EmptySession, Return, PcOK, RamOK, NoReq, life, TypeOK, Slots, NoSlot, Other
<1>12. CASE RecStoreFails
  BY <1>12 DEF RecStoreFails, Return, TypeOK, Session, PcOK, RamOK, NoReq, life, slots, record
<1>13. CASE BootApp \/ BootStay \/ PowerCut \/ (\E magic \in BOOLEAN : AppResets(magic))
  BY <1>13, ResetStep DEF BootApp, BootStay, PowerCut, AppResets
<1>14. CASE IdleBoot
  BY <1>14 DEF IdleBoot, Idle, ClearRam, EmptySession, PcOK, RamOK, NoReq, NoSlot
<1>15. CASE UNCHANGED vars
  BY <1>15 DEF vars, life, slots, record, PcOK, RamOK
<1> QED BY Actions, <1>1, <1>2, <1>3, <1>4, <1>5, <1>6, <1>7, <1>8, <1>9, <1>10, <1>11,
          <1>12, <1>13, <1>14, <1>15

\* OB_REC_FLASH is left before the first controller operation.
LEMMA CoherentStep ==
  ASSUME IInv, [Next]_vars
  PROVE  CoherentOK'
<1> USE DEF IInv
<1>1. CASE Decide \/ Hello
  BY <1>1 DEF Decide, CoreInit, Hello, CoherentOK, FlashStateMeansCoherent, flash, xip, record
<1>2. ASSUME NEW slot \in Slots, NEW lo \in Blocks, NEW n \in 1..SlotWords, Erase(slot, lo, lo + n)
      PROVE  CoherentOK'
  BY <1>2 DEF Erase, BeginMutation, CoherentOK, FlashStateMeansCoherent, flash, xip, record
<1>3. ASSUME NEW slot \in Slots, NEW at \in 0..SlotWords - 1, NEW data \in Chunk, Write(slot, at, data)
      PROVE  CoherentOK'
  BY <1>3 DEF Write, BeginMutation, CoherentOK, FlashStateMeansCoherent, flash, xip, record
<1>4. CASE Disarm \/ EraseBlock \/ Program \/ MutationFails \/ RecErase \/ RecStoreFails
  <2>1. rec_state' = "INVALID"
    BY <1>4 DEF Disarm, EraseBlock, Program, MutationFails, RecErase, RecStoreFails, record, PcOK
  <2>2. \E newImg, newRec : FlashChanges(newImg, newRec)
    BY <1>4 DEF Disarm, EraseBlock, Program, MutationFails, RecErase, RecStoreFails
  <2> QED BY <2>1, <2>2 DEF FlashChanges, CoherentOK, FlashStateMeansCoherent
<1>5. CASE RecProgram
  BY <1>5 DEF RecProgram, NoteCommitted, FlashChanges, CoherentOK, FlashStateMeansCoherent
<1>6. ASSUME NEW len \in 1..SlotWords, NEW crc \in [1..len -> Word], Commit(len, crc)
      PROVE  CoherentOK'
  BY <1>6 DEF Commit, CoherentOK, FlashStateMeansCoherent, flash, xip
<1>7. CASE BootApp \/ BootStay \/ PowerCut \/ (\E magic \in BOOLEAN : AppResets(magic))
  BY <1>7, ResetStep DEF BootApp, BootStay, PowerCut, AppResets
<1>8. CASE IdleBoot
  <2>1. xipImg = img /\ xipRec = rec
    BY <1>8 DEF IdleBoot, RamOK, CoherentOK, FlashStateMeansCoherent
  <2> QED BY <1>8, <2>1 DEF IdleBoot, ClearRam, CoherentOK, FlashStateMeansCoherent, flash, xip
<1>9. CASE UNCHANGED vars
  BY <1>9 DEF vars, flash, xip, record, CoherentOK, FlashStateMeansCoherent
<1> QED BY Actions, <1>1, <1>2, <1>3, <1>4, <1>5, <1>6, <1>7, <1>8, <1>9

-----------------------------------------------------------------------------
(* What a step may do to flash *)

\* A failed or interrupted operation, and so a complete one, concerns the write
\* slot only, and with no operation pending it changes nothing.
LEMMA ResidueElsewhere ==
  ASSUME IInv, NEW newImg \in ImgResidues, NEW newRec \in RecResidues
  PROVE  /\ \A x \in Slots : x # write => newImg[x] = img[x] /\ newRec[x] = rec[x]
         /\ pc \notin {"erase", "program"} => newImg = img
         /\ pc \in {"idle", "erase", "program"} => newRec = rec
<1>1. \A x \in Slots : x # write => newImg[x] = img[x]
  BY DEF ImgResidues, IInv, PcOK, TypeOK
<1>2. \A x \in Slots : x # write => newRec[x] = rec[x]
  BY DEF RecResidues, IInv, TypeOK
<1>3. pc \notin {"erase", "program"} => newImg = img
  BY DEF ImgResidues
<1>4. pc \in {"idle", "erase", "program"} => newRec = rec
  BY DEF RecResidues, IInv, TypeOK
<1> QED BY <1>1, <1>2, <1>3, <1>4

\* A completed operation is one of its own residues.
LEMMA EraseIsResidue ==
  ASSUME IInv, EraseBlock
  PROVE  img' \in ImgResidues /\ rec' \in RecResidues
<1>1. pc = "erase" /\ req.slot \in Slots
  BY DEF EraseBlock, IInv, PcOK, TypeOK
<1>2. img' = [img EXCEPT ![req.slot] = EraseWords(img[req.slot], req.at)] /\ rec' = rec
  BY <1>1 DEF EraseBlock, FlashChanges, IInv, TypeOK
<1>3. img[req.slot] \in Image
  BY <1>1 DEF IInv, TypeOK
<1>4. EraseWords(img[req.slot], req.at) \in EraseResidue(img[req.slot], req.at)
  BY <1>3 DEF EraseWords, EraseResidue, Image, Word, ErasedWord
<1>5. rec \in RecResidues
  BY <1>1 DEF RecResidues, IInv, TypeOK
<1> QED BY <1>1, <1>2, <1>4, <1>5 DEF ImgResidues

\* A completed program is one of its own residues.
LEMMA ProgramIsResidue ==
  ASSUME IInv, Program
  PROVE  img' \in ImgResidues /\ rec' \in RecResidues
<1>1. pc = "program" /\ req.slot \in Slots
  BY DEF Program, IInv, PcOK, TypeOK
<1>2. img' = [img EXCEPT ![req.slot] = ProgramWords(img[req.slot], req.at, req.data)] /\ rec' = rec
  BY <1>1 DEF Program, FlashChanges
<1>3. img[req.slot] \in Image /\ req.at \in Nat /\ req.data \in Seq(Word)
  BY <1>1, DecisionAssumption DEF DecisionAssumption, IInv, PcOK, TypeOK, Requests, NoReq
<1> DEFINE im == ProgramWords(img[req.slot], req.at, req.data)
<1>4. im \in Image
  BY <1>3, ProgramWordsType
<1>5. \A w \in 1..SlotWords : img[req.slot][w] \subseteq im[w]
  BY <1>3 DEF ProgramWords, Image
<1>6. im \in ProgramResidue(img[req.slot], req.at, req.data)
  <2> HIDE DEF im
  <2>1. im \in [DOMAIN img[req.slot] -> Word] /\ DOMAIN img[req.slot] = 1..SlotWords
    BY <1>3, <1>4 DEF Image
  <2>2. im = ProgramWords(img[req.slot], req.at, req.data)
    BY DEF im
  <2> QED BY <1>5, <2>1, <2>2 DEF ProgramResidue
<1>7. rec \in RecResidues
  BY <1>1 DEF RecResidues, IInv, TypeOK
<1> QED BY <1>1, <1>2, <1>6, <1>7 DEF ImgResidues

\* Whatever step is taken, flash outside the write slot keeps its words, and
\* flash changes only while an operation is pending.
LEMMA OnlyWriteSlot ==
  ASSUME IInv, [Next]_vars
  PROVE  /\ \A x \in Slots : x # write => img'[x] = img[x] /\ rec'[x] = rec[x]
         /\ pc = "idle" => img' = img /\ rec' = rec
<1>1. CASE Decide \/ Hello \/ BootApp \/ BootStay \/ IdleBoot
  BY <1>1 DEF Decide, CoreInit, Hello, BootApp, BootStay, IdleBoot, Reset, flash
<1>2. ASSUME NEW slot \in Slots, NEW lo \in Blocks, NEW n \in 1..SlotWords, Erase(slot, lo, lo + n)
      PROVE  img' = img /\ rec' = rec
  BY <1>2 DEF Erase, flash
<1>3. ASSUME NEW slot \in Slots, NEW at \in 0..SlotWords - 1, NEW data \in Chunk, Write(slot, at, data)
      PROVE  img' = img /\ rec' = rec
  BY <1>3 DEF Write, flash
<1>4. ASSUME NEW len \in 1..SlotWords, NEW crc \in [1..len -> Word], Commit(len, crc)
      PROVE  img' = img /\ rec' = rec
  BY <1>4 DEF Commit, flash
<1>5. CASE EraseBlock
  BY <1>5, EraseIsResidue, ResidueElsewhere DEF EraseBlock
<1>6. CASE Program
  BY <1>6, ProgramIsResidue, ResidueElsewhere DEF Program
<1>7. CASE MutationFails \/ RecStoreFails
  <2>1. img' \in ImgResidues /\ rec' \in RecResidues
    BY <1>7 DEF MutationFails, RecStoreFails, FlashChanges, ImgResidues
  <2> QED BY <2>1, ResidueElsewhere
<1>8. CASE PowerCut
  <2>1. img' \in ImgResidues /\ rec' \in RecResidues
    BY <1>8 DEF PowerCut, Reset
  <2> QED BY <2>1, ResidueElsewhere
<1>9. CASE Disarm \/ RecErase \/ RecProgram
  BY <1>9 DEF Disarm, RecErase, RecProgram, FlashChanges, IInv, TypeOK
<1>10. CASE (\E magic \in BOOLEAN : AppResets(magic)) \/ UNCHANGED vars
  BY <1>10 DEF AppResets, Reset, vars, flash
<1> QED BY Actions, <1>1, <1>2, <1>3, <1>4, <1>5, <1>6, <1>7, <1>8, <1>9, <1>10

-----------------------------------------------------------------------------
(* Records and the slots they describe *)

\* What an installed record has going for it.
LEMMA CommittedBoots ==
  ASSUME IInv, pc = "recProgram", ~BlankFirstWord
  PROVE  AppValid(write, img[write], req.rec)
<1>1. /\ req.rec.st = "sealed" /\ req.rec.gen # 0
      /\ req.rec.len \in 1..SlotWords /\ write \in Usable
      /\ req.rec.crc = Crc(img[write], req.rec.len)
      /\ req.rec.crc[1] # ErasedWord
  BY DEF IInv, PcOK, RequestOK
<1>2. Capacity(write) = SlotWords
  BY <1>1 DEF Capacity
<1>3. RecordLoads(write, req.rec)
  BY <1>1, <1>2, DecisionAssumption DEF DecisionAssumption, RecordLoads
<1>4. img[write][1] # ErasedWord
  BY <1>1 DEF Crc
<1> QED BY <1>1, <1>3, <1>4 DEF AppValid, ImageValid

\* The active slot boots: it was found so, or has just been committed.
LEMMA ActiveStep ==
  ASSUME IInv, [Next]_vars
  PROVE  ActiveOK'
<1>1. CASE RecProgram
  <2>1. active' = write /\ rec' = [rec EXCEPT ![write] = req.rec] /\ img' = img
    BY <1>1 DEF RecProgram, NoteCommitted, FlashChanges
  <2>2. rec'[write] = req.rec
    BY <2>1 DEF IInv, TypeOK
  <2>3. BlankFirstWord \/ AppValid(write, img[write], req.rec)
    BY <1>1, CommittedBoots DEF RecProgram
  <2> QED BY <2>1, <2>2, <2>3 DEF ActiveOK
<1>2. CASE Decide
  <2>1. img' = img /\ rec' = rec
    BY <1>2 DEF Decide, CoreInit, flash
  <2>2. active' = NoSlot \/ active' = BootSelect(img, rec)
    BY <1>2 DEF Decide, CoreInit, slots, IInv, RamOK
  <2> QED BY <2>1, <2>2, SelectSound DEF ActiveOK, Bootable
<1>3. CASE active' = active
  <2>1. active # NoSlot => active \in Slots /\ active # write
    BY DEF IInv, TypeOK, RamOK, Other, Slots, NoSlot
  <2>2. active # NoSlot => img'[active] = img[active] /\ rec'[active] = rec[active]
    BY <2>1, OnlyWriteSlot
  <2> QED BY <1>3, <2>2 DEF ActiveOK, IInv
<1>4. CASE active' = NoSlot
  BY <1>4 DEF ActiveOK
<1>5. RecProgram \/ Decide \/ active' = active \/ active' = NoSlot
  BY Actions DEF Hello, BootApp, BootStay, IdleBoot, PowerCut, Erase, Write, Commit, Disarm,
     EraseBlock, Program, MutationFails, RecErase, RecStoreFails, AppResets, Reset, ClearRam,
     slots, vars
<1> QED BY <1>1, <1>2, <1>3, <1>4, <1>5

\* The disarm flag is set by an erased record and dropped with a new one.
LEMMA DisarmedStep ==
  ASSUME IInv, [Next]_vars
  PROVE  DisarmedOK'
<1> USE DEF IInv
<1>1. CASE Decide
  BY <1>1 DEF Decide, CoreInit, DisarmedOK, RamOK, EmptySession
<1>2. CASE Hello
  BY <1>2 DEF Hello, Idle, DisarmedOK, EmptySession
<1>3. ASSUME NEW slot \in Slots, NEW lo \in Blocks, NEW n \in 1..SlotWords, Erase(slot, lo, lo + n)
      PROVE  DisarmedOK'
  <2>1. s'.disarmed = s.disarmed /\ rec' = rec /\ write' = write
    BY <1>3 DEF Erase, TypeOK, Session, flash, slots
  <2>2. pc' = IF s.disarmed THEN "erase" ELSE "disarm"
    BY <1>3 DEF Erase, BeginMutation
  <2> QED BY <2>1, <2>2 DEF DisarmedOK
<1>4. ASSUME NEW slot \in Slots, NEW at \in 0..SlotWords - 1, NEW data \in Chunk, Write(slot, at, data)
      PROVE  DisarmedOK'
  <2>1. s'.disarmed = s.disarmed /\ rec' = rec /\ write' = write
    BY <1>4 DEF Write, TypeOK, Session, flash, slots
  <2>2. pc' = IF s.disarmed THEN "program" ELSE "disarm"
    BY <1>4 DEF Write, BeginMutation
  <2> QED BY <2>1, <2>2 DEF DisarmedOK
<1>5. CASE Disarm \/ RecErase
  <2>1. rec' = [rec EXCEPT ![write] = Blank] /\ write' = write
    BY <1>5 DEF Disarm, RecErase, FlashChanges, slots
  <2>2. rec'[write] = Blank
    BY <2>1 DEF TypeOK
  <2>3. Disarm => s'.disarmed
    BY DEF Disarm, TypeOK, Session
  <2> QED BY <1>5, <2>1, <2>2, <2>3 DEF Disarm, RecErase, DisarmedOK, Blank
<1>6. CASE EraseBlock \/ Program
  <2>1. s'.disarmed = s.disarmed /\ s.disarmed /\ rec' = rec /\ write' = write
    BY <1>6 DEF EraseBlock, Program, FlashChanges, TypeOK, Session, DisarmedOK, slots
  <2>2. pc' \in {"erase", "idle"}
    BY <1>6 DEF EraseBlock, Program, Return
  <2> QED BY <2>1, <2>2 DEF DisarmedOK
<1>7. CASE MutationFails
  <2>1. s' = s /\ write' = write /\ pc' = "idle" /\ rec' \in RecResidues
    BY <1>7 DEF MutationFails, FlashChanges, Return, slots
  <2>2. rec'[write] \in {rec[write], Blank, Torn}
    BY <1>7, <2>1 DEF MutationFails, RecResidues, TypeOK
  <2> QED BY <2>1, <2>2 DEF DisarmedOK, Blank, Torn
<1>8. CASE RecProgram \/ RecStoreFails
  BY <1>8 DEF RecProgram, NoteCommitted, RecStoreFails, Return, EmptySession, DisarmedOK, TypeOK, Session
<1>9. ASSUME NEW len \in 1..SlotWords, NEW crc \in [1..len -> Word], Commit(len, crc)
      PROVE  DisarmedOK'
  BY <1>9 DEF Commit, DisarmedOK, flash, slots
<1>10. CASE BootApp \/ BootStay \/ PowerCut \/ (\E magic \in BOOLEAN : AppResets(magic))
  BY <1>10, ResetStep DEF BootApp, BootStay, PowerCut, AppResets
<1>11. CASE IdleBoot
  BY <1>11 DEF IdleBoot, ClearRam, EmptySession, DisarmedOK
<1>12. CASE UNCHANGED vars
  BY <1>12 DEF vars, flash, slots, DisarmedOK
<1> QED BY Actions, <1>1, <1>2, <1>3, <1>4, <1>5, <1>6, <1>7, <1>8, <1>9, <1>10, <1>11, <1>12

\* Only the write slot's record can come to be wrong, and it is gone before
\* its words change and comes back only for the words that are there.
LEMMA RecordStep ==
  ASSUME IInv, [Next]_vars
  PROVE  RecordAttestsImage'
<1>1. ASSUME NEW x \in Slots, x # write, RecordLoads(x, rec'[x])
      PROVE  Crc(img'[x], rec'[x].len) = rec'[x].crc
  BY <1>1, OnlyWriteSlot DEF IInv, RecordAttestsImage
<1>2. ASSUME RecordLoads(write, rec'[write])
      PROVE  Crc(img'[write], rec'[write].len) = rec'[write].crc
  <2>1. write \in Slots
    BY DEF IInv, TypeOK
  <2>2. rec'[write].st = "sealed"
    BY <1>2 DEF RecordLoads
  <2>3. CASE img' = img /\ rec'[write] = rec[write]
    BY <1>2, <2>1, <2>3 DEF IInv, RecordAttestsImage
  <2>4. CASE pc \in {"erase", "program"} /\ rec' = rec
    BY <2>2, <2>4 DEF IInv, DisarmedOK
  <2>5. CASE rec'[write] \in {Blank, Torn}
    BY <2>2, <2>5 DEF Blank, Torn
  <2>6. CASE pc = "recProgram" /\ rec'[write] = req.rec /\ img' = img
    BY <2>6 DEF IInv, PcOK, RequestOK
  <2>7. CASE pc = "idle"
    BY <2>3, <2>7, OnlyWriteSlot
  <2>8. CASE EraseBlock \/ Program
    BY <2>4, <2>8 DEF EraseBlock, Program, FlashChanges
  <2>9. CASE Disarm \/ RecErase \/ RecProgram
    BY <2>1, <2>5, <2>6, <2>9 DEF Disarm, RecErase, RecProgram, FlashChanges, IInv, TypeOK
  <2>10. CASE MutationFails \/ RecStoreFails \/ PowerCut
    <3>1. img' \in ImgResidues /\ rec' \in RecResidues
      BY <2>10 DEF MutationFails, RecStoreFails, PowerCut, Reset, FlashChanges, ImgResidues
    <3>2. /\ pc \notin {"erase", "program"} => img' = img
          /\ pc \in {"idle", "erase", "program"} => rec' = rec
      BY <3>1, ResidueElsewhere
    <3>3. pc \in {"disarm", "recErase"} => rec'[write] \in {rec[write], Blank, Torn}
      BY <2>1, <3>1 DEF RecResidues, IInv, TypeOK
    <3>4. pc = "recProgram" => rec'[write] \in {rec[write], Torn, req.rec}
      BY <2>1, <3>1 DEF RecResidues, IInv, TypeOK
    <3>5. pc \in {"idle", "disarm", "erase", "program", "recErase", "recProgram"}
      BY DEF IInv, TypeOK
    <3> QED BY <2>3, <2>4, <2>5, <2>6, <2>7, <3>2, <3>3, <3>4, <3>5
  <2>11. pc = "idle" \/ (UNCHANGED vars) \/ EraseBlock \/ Program \/ Disarm \/ RecErase
           \/ RecProgram \/ MutationFails \/ RecStoreFails \/ PowerCut
    BY Actions DEF Decide, Hello, BootApp, BootStay, IdleBoot, Erase, Write, Commit, AppResets,
       Ready, Idle, IInv, RamOK
  <2> QED BY <2>3, <2>7, <2>8, <2>9, <2>10, <2>11 DEF vars, flash
<1> QED BY <1>1, <1>2 DEF RecordAttestsImage

\* A boot is promised only where the reset finds something to launch.
LEMMA PromiseStep ==
  ASSUME IInv, [Next]_vars, ~BlankFirstWord
  PROVE  BootPromiseKept'
<1>1. CASE BootApp
  <2>1. PICK a \in XipImages(0), b \in XipImages(1), c \in XipCells(0), d \in XipCells(1) :
          BootTrusted(Pair(a, b), Pair(c, d))
    BY <1>1 DEF BootApp
  <2>2. img' = img /\ rec' = rec
    BY <1>1 DEF BootApp, Reset
  <2>3. CASE active # NoSlot
    <3>1. active \in Bootable(img, rec)
      BY <2>3 DEF IInv, TypeOK, ActiveOK, Bootable
    <3> QED BY <2>2, <3>1, SelectSound DEF BootPromiseKept
  <2>4. CASE active = NoSlot
    <3>1. rec_state = "FLASH" /\ BootSelect(Pair(a, b), Pair(c, d)) # NoSlot
      BY <2>1, <2>4 DEF BootTrusted, IInv, RamOK
    <3>2. xipImg = img /\ xipRec = rec
      BY <3>1 DEF IInv, CoherentOK, FlashStateMeansCoherent
    <3>3. a = img[0] /\ b = img[1] /\ c = rec[0] /\ d = rec[1]
      BY <2>1, <3>2 DEF XipImages, XipCells, IInv, TypeOK, Slots, Image
    <3>4. Pair(a, b) = img /\ Pair(c, d) = rec
      BY <3>3 DEF Pair, IInv, TypeOK, Slots
    <3> QED BY <2>2, <3>1, <3>4 DEF BootPromiseKept
  <2> QED BY <2>3, <2>4
<1>2. CASE ~promised'
  BY <1>2 DEF BootPromiseKept
<1>3. CASE UNCHANGED vars
  BY <1>3 DEF vars, flash, life, BootPromiseKept, IInv
<1>4. BootApp \/ ~promised' \/ UNCHANGED vars
  BY Actions DEF Decide, Hello, BootStay, IdleBoot, PowerCut, Erase, Write, Commit, Disarm,
     EraseBlock, Program, MutationFails, RecErase, RecProgram, RecStoreFails, AppResets, Reset,
     Ready, Idle, IInv, PcOK, RamOK, life
<1> QED BY <1>1, <1>2, <1>3, <1>4

-----------------------------------------------------------------------------
(* The sequential run *)

\* What is pending, spelled out.
LEMMA PendingRequest ==
  ASSUME IInv
  PROVE  /\ pc = "erase" => req.slot = write /\ req.at \in Blocks /\ req.end \in 0..SlotWords
         /\ pc = "program" => /\ req.slot = write /\ req.at \in 0..SlotWords
                              /\ req.data \in Seq(Word)
                              /\ req.class \in {"FOLD", "RETRY", "POISON"}
BY DEF IInv, PcOK, TypeOK, Requests, NoReq

\* No pending operation, complete or cut short, reaches the words of the run.
LEMMA KeepsRun ==
  ASSUME IInv, s.stream = "RUN", NEW newImg \in ImgResidues, NEW w \in 1..s.next
  PROVE  newImg[write][w] = img[write][w]
<1>1. /\ write \in Slots /\ img[write] \in Image /\ s.next \in 0..SlotWords
      /\ s.crc \in Seq(Word) /\ Len(s.crc) = s.next
      /\ img \in [Slots -> Image] /\ SlotWords \in Nat
  BY DecisionAssumption DEF DecisionAssumption, IInv, TypeOK, Session, StreamOK
<1>2. w \in 1..SlotWords /\ w \in Nat
  BY <1>1
<1>3. DOMAIN img[write] = 1..SlotWords
  BY <1>1 DEF Image
<1>4. CASE pc = "erase"
  <2>1. req.slot = write /\ req.at \in Nat /\ s.next <= req.at
    BY <1>1, <1>4, PendingRequest DEF IInv, PcOK, RequestOK, Blocks
  <2>2. PICK im \in EraseResidue(img[write], req.at) : newImg = [img EXCEPT ![write] = im]
    BY <1>4, <2>1 DEF ImgResidues
  <2>3. w \notin InBlock(req.at)
    BY <1>1, <1>2, <2>1, CoreAssumption DEF CoreAssumption, InBlock
  <2>4. im[w] = img[write][w]
    BY <1>2, <1>3, <2>3 DEF EraseResidue
  <2> QED BY <1>1, <2>2, <2>4
<1>5. CASE pc = "program"
  <2>1. /\ req.slot = write /\ req.at \in Nat /\ req.data \in Seq(Word)
        /\ req.class \in {"FOLD", "RETRY", "POISON"}
    BY <1>1, <1>5, PendingRequest
  <2>2. PICK im \in ProgramResidue(img[write], req.at, req.data) : newImg = [img EXCEPT ![write] = im]
    BY <1>5, <2>1 DEF ImgResidues
  <2>3. ProgramWords(img[write], req.at, req.data)[w] = img[write][w]
    <3>1. CASE w \notin req.at + 1..req.at + Len(req.data)
      BY <1>2, <1>3, <3>1 DEF ProgramWords
    <3>2. CASE w \in req.at + 1..req.at + Len(req.data)
      <4>1. req.class = "RETRY"
        BY <1>1, <1>2, <1>5, <2>1, <3>2 DEF IInv, PcOK, RequestOK
      <4>2. w - req.at \in 1..Len(req.data) /\ req.at + (w - req.at) = w
        BY <1>2, <2>1, <3>2
      <4>3. s.crc[w] = req.data[w - req.at]
        <5>1. Holds(s.crc, req.at, req.data)
          BY <1>5, <4>1 DEF IInv, PcOK, RequestOK
        <5> QED BY <4>2, <5>1 DEF Holds
      <4>4. img[write][w] = s.crc[w]
        <5>1. Holds(img[write], 0, s.crc) /\ w \in 1..Len(s.crc) /\ 0 + w = w
          BY <1>1, <1>2 DEF IInv, StreamOK
        <5> QED BY <5>1 DEF Holds
      <4>5. ProgramWords(img[write], req.at, req.data)[w] = img[write][w] \union req.data[w - req.at]
        BY <1>2, <1>3, <3>2 DEF ProgramWords
      <4> QED BY <4>3, <4>4, <4>5
    <3> QED BY <3>1, <3>2
  <2>4. im[w] = img[write][w]
    <3>1. img[write][w] \subseteq im[w] /\ im[w] \subseteq ProgramWords(img[write], req.at, req.data)[w]
      BY <1>2, <1>3 DEF ProgramResidue
    <3> QED BY <2>3, <3>1
  <2> QED BY <1>1, <2>2, <2>4
<1>6. CASE pc \notin {"erase", "program"}
  BY <1>6 DEF ImgResidues
<1> QED BY <1>4, <1>5, <1>6

\* A step that leaves the run and its words alone, or breaks it, is harmless.
LEMMA StreamKept ==
  ASSUME IInv, write' = write,
         s'.stream = "RUN" => /\ s.stream = "RUN" /\ s'.crc = s.crc /\ s'.next = s.next
                              /\ s'.last = s.last,
         img' = img \/ img' \in ImgResidues
  PROVE  StreamOK'
<1> SUFFICES ASSUME s'.stream = "RUN"
             PROVE  /\ Len(s'.crc) = s'.next
                    /\ Holds(img'[write'], 0, s'.crc)
                    /\ s'.last.addr + Len(s'.last.data) <= s'.next
                    /\ Holds(s'.crc, s'.last.addr, s'.last.data)
  BY DEF StreamOK
<1>1. s.stream = "RUN" /\ s'.crc = s.crc /\ s'.next = s.next /\ s'.last = s.last
  OBVIOUS
<1>2. /\ Len(s.crc) = s.next /\ Holds(img[write], 0, s.crc)
      /\ s.last.addr + Len(s.last.data) <= s.next /\ Holds(s.crc, s.last.addr, s.last.data)
  BY <1>1 DEF IInv, StreamOK
<1>3. \A w \in 1..s.next : img'[write][w] = img[write][w]
  BY <1>1, KeepsRun
<1>4. Holds(img'[write], 0, s.crc)
  <2>1. s.next \in Nat
    BY DecisionAssumption DEF DecisionAssumption, IInv, TypeOK, Session
  <2>2. \A i \in 1..Len(s.crc) : 0 + i = i /\ img'[write][i] = img[write][i]
    BY <1>2, <1>3, <2>1
  <2> QED BY <1>2, <2>2 DEF Holds
<1> QED BY <1>1, <1>2, <1>4

\* stream_fold: the words just programmed and verified join the run.
LEMMA StreamFolds ==
  ASSUME IInv, Program
  PROVE  StreamOK'
<1> DEFINE result == ProgramWords(img[req.slot], req.at, req.data)
           verified == \A i \in 1..Len(req.data) : result[req.at + i] = req.data[i]
<1>1. img' \in ImgResidues /\ write' = write
  BY ProgramIsResidue DEF Program, slots
<1>2. CASE ~(verified /\ req.class = "FOLD")
  <2>1. s' = s
    BY <1>2 DEF Program
  <2> QED BY <1>1, <2>1, StreamKept
<1>3. CASE verified /\ req.class = "FOLD" /\ s.stream = "RUN"
  <2>1. s' = [s EXCEPT !.crc = @ \o req.data, !.next = @ + Len(req.data),
                       !.last = [addr |-> req.at, data |-> req.data]]
    BY <1>3 DEF Program
  <2>2. /\ s'.crc = s.crc \o req.data /\ s'.next = s.next + Len(req.data)
        /\ s'.last = [addr |-> req.at, data |-> req.data]
    BY <2>1 DEF IInv, TypeOK, Session
  <2>3. /\ pc = "program" /\ req.slot = write /\ req.at \in Nat /\ req.data \in Seq(Word)
        /\ req.at = s.next /\ s.next \in Nat
        /\ s.crc \in Seq(Word) /\ Len(s.crc) = s.next /\ Holds(img[write], 0, s.crc)
    BY <1>3, PendingRequest, DecisionAssumption
       DEF DecisionAssumption, Program, IInv, TypeOK, PcOK, RequestOK, Session, StreamOK
  <2>4. Len(s'.crc) = s'.next /\ s'.last.addr + Len(s'.last.data) <= s'.next
    <3>0. s.crc \in Seq(Word) /\ req.data \in Seq(Word)
      BY <2>3
    <3>1. Len(s.crc \o req.data) = Len(s.crc) + Len(req.data) /\ Len(req.data) \in Nat
      BY <3>0, ConcatProperties, LenProperties
    <3>2. s'.last.addr = s.next /\ s'.last.data = req.data
      BY <2>2, <2>3
    <3> QED BY <2>2, <2>3, <3>1, <3>2
  <2>5. Holds(s'.crc, s'.last.addr, s'.last.data)
    <3>1. \A j \in 1..Len(s.crc) + Len(req.data) :
            (s.crc \o req.data)[j] = IF j <= Len(s.crc) THEN s.crc[j] ELSE req.data[j - Len(s.crc)]
      BY <2>3, ConcatProperties
    <3>2. ASSUME NEW i \in 1..Len(req.data)
          PROVE  (s.crc \o req.data)[s.next + i] = req.data[i]
      <4>1. /\ s.next + i \in 1..Len(s.crc) + Len(req.data) /\ ~(s.next + i <= Len(s.crc))
            /\ (s.next + i) - Len(s.crc) = i
        BY <2>3
      <4> QED BY <3>1, <4>1
    <3>3. s'.last.addr = s.next /\ s'.last.data = req.data /\ s'.crc = s.crc \o req.data
      BY <2>2, <2>3
    <3> QED BY <3>2, <3>3 DEF Holds
  <2>6. img'[write] = result
    BY <2>3 DEF Program, FlashChanges, IInv, TypeOK
  <2>7. ASSUME NEW i \in 1..Len(s'.crc)
        PROVE  img'[write][0 + i] = s'.crc[i]
    <3>1. i \in Nat /\ 0 + i = i /\ i \in 1..s.next + Len(req.data)
      BY <2>2, <2>3, <2>4, <2>7
    <3>2. CASE i <= s.next
      <4>1. img'[write][i] = img[write][i]
        BY <1>1, <1>3, <2>3, <3>1, <3>2, KeepsRun
      <4>2. img[write][i] = s.crc[i]
        BY <2>3, <3>1, <3>2 DEF Holds
      <4>3. s'.crc[i] = s.crc[i]
        BY <2>2, <2>3, <3>1, <3>2
      <4> QED BY <3>1, <4>1, <4>2, <4>3
    <3>3. CASE i > s.next
      <4>1. i - s.next \in 1..Len(req.data) /\ req.at + (i - s.next) = i
        BY <2>3, <3>1, <3>3
      <4>2. img'[write][i] = req.data[i - s.next]
        BY <1>3, <2>6, <4>1
      <4>3. s'.crc[i] = req.data[i - s.next]
        BY <2>2, <2>3, <3>1, <3>3
      <4> QED BY <3>1, <4>2, <4>3
    <3> QED BY <2>3, <3>1, <3>2, <3>3
  <2>8. Holds(img'[write'], 0, s'.crc)
    BY <1>1, <2>7 DEF Holds
  <2> QED BY <2>4, <2>5, <2>8 DEF StreamOK
<1>4. CASE s.stream # "RUN"
  <2>1. s'.stream = s.stream
    BY DEF Program, IInv, TypeOK, Session
  <2> QED BY <1>4, <2>1 DEF StreamOK
<1> QED BY <1>2, <1>3, <1>4

\* The run describes flash after every step.
LEMMA StreamStep ==
  ASSUME IInv, [Next]_vars
  PROVE  StreamOK'
<1>1. CASE s' = EmptySession \/ s' = [EmptySession EXCEPT !.open = TRUE]
             \/ s' = [EmptySession EXCEPT !.open = s.open]
  BY <1>1 DEF EmptySession, NoChunk, StreamOK, Holds
<1>2. CASE Program
  BY <1>2, StreamFolds
<1>3. ASSUME NEW slot \in Slots, NEW lo \in Blocks, NEW n \in 1..SlotWords, Erase(slot, lo, lo + n)
      PROVE  StreamOK'
  <2>1. s' = [s EXCEPT !.stream = IF lo < s.next THEN "POISONED" ELSE @] /\ write' = write /\ img' = img
    BY <1>3 DEF Erase, slots, flash
  <2> QED BY <2>1, StreamKept DEF IInv, TypeOK, Session
<1>4. ASSUME NEW slot \in Slots, NEW at \in 0..SlotWords - 1, NEW data \in Chunk, Write(slot, at, data)
      PROVE  StreamOK'
  <2>1. s' = [s EXCEPT !.stream = IF Classify(at, data) = "POISON" THEN "POISONED" ELSE @]
        /\ write' = write /\ img' = img
    BY <1>4 DEF Write, slots, flash
  <2> QED BY <2>1, StreamKept DEF IInv, TypeOK, Session
<1>5. ASSUME NEW len \in 1..SlotWords, NEW crc \in [1..len -> Word], Commit(len, crc)
      PROVE  StreamOK'
  BY <1>5, StreamKept DEF Commit, slots, flash
<1>6. CASE Disarm \/ RecErase \/ RecStoreFails \/ MutationFails
  <2>1. write' = write /\ (img' = img \/ img' \in ImgResidues)
    BY <1>6 DEF Disarm, RecErase, RecStoreFails, MutationFails, FlashChanges, slots
  <2>2. s'.stream = s.stream /\ s'.crc = s.crc /\ s'.next = s.next /\ s'.last = s.last
    BY <1>6 DEF Disarm, RecErase, RecStoreFails, MutationFails, IInv, TypeOK, Session
  <2> QED BY <2>1, <2>2, StreamKept
<1>7. CASE EraseBlock
  <2>1. s'.stream = s.stream /\ s'.crc = s.crc /\ s'.next = s.next /\ s'.last = s.last
    BY <1>7 DEF EraseBlock, IInv, TypeOK, Session
  <2>2. write' = write
    BY <1>7 DEF EraseBlock, slots
  <2> QED BY <1>7, <2>1, <2>2, EraseIsResidue, StreamKept
<1>8. CASE Decide
  <2>1. s' = EmptySession
    BY <1>8 DEF Decide, CoreInit, IInv, RamOK
  <2> QED BY <1>1, <2>1
<1>9. CASE BootApp \/ BootStay \/ PowerCut \/ (\E magic \in BOOLEAN : AppResets(magic)) \/ IdleBoot
  BY <1>1, <1>9 DEF BootApp, BootStay, PowerCut, AppResets, IdleBoot, Reset, ClearRam
<1>10. CASE Hello \/ RecProgram
  BY <1>1, <1>10 DEF Hello, RecProgram, NoteCommitted
<1>11. CASE UNCHANGED vars
  BY <1>11, StreamKept DEF vars, slots, flash
<1> QED BY Actions, <1>2, <1>3, <1>4, <1>5, <1>6, <1>7, <1>8, <1>9, <1>10, <1>11

-----------------------------------------------------------------------------
(* Pending requests *)

\* What do_commit attests is what the write slot holds.
LEMMA AttestedIsHeld ==
  ASSUME IInv, NEW len \in 1..SlotWords, NEW crc \in Attested(len), crc \in [1..len -> Word]
  PROVE  crc = Crc(img[write], len)
<1>1. CASE AttestViaXip
  <2>1. xipImg = img
    BY <1>1 DEF AttestViaXip, IInv, CoherentOK, FlashStateMeansCoherent
  <2>2. PICK image \in XipImages(write) : crc = Crc(image, len)
    BY <1>1 DEF Attested
  <2>3. image = img[write]
    <3>1. img[write] = [w \in 1..SlotWords |-> img[write][w]]
      BY DEF IInv, TypeOK, Image
    <3> QED BY <2>1, <2>2, <3>1 DEF XipImages
  <2> QED BY <2>2, <2>3
<1>2. CASE ~AttestViaXip
  <2>1. s.stream = "RUN" /\ s.next = len /\ crc = s.crc
    BY <1>2 DEF Attested, StreamCovers
  <2>2. Len(s.crc) = len /\ Holds(img[write], 0, s.crc)
    BY <2>1 DEF IInv, StreamOK
  <2>3. \A i \in 1..len : crc[i] = img[write][i]
    <3>1. \A i \in 1..len : 0 + i = i
      OBVIOUS
    <3> QED BY <2>1, <2>2, <3>1 DEF Holds
  <2> QED BY <2>3 DEF Crc
<1> QED BY <1>1, <1>2

\* stream_classify_write, as do_write leaves it pending
LEMMA ClassifyOK ==
  ASSUME IInv, NEW at \in 0..SlotWords - 1, NEW data \in Chunk, s.stream = "RUN"
  PROVE  /\ Classify(at, data) = "FOLD" => at = s.next
         /\ Classify(at, data) = "RETRY" =>
              at + Len(data) <= s.next /\ Holds(s.crc, at, data)
<1>1. Classify(at, data) = "FOLD" => at = s.next
  BY DEF Classify
<1>2. Classify(at, data) = "RETRY" => at = s.last.addr /\ data = s.last.data
  BY DEF Classify
<1>3. s.last.addr + Len(s.last.data) <= s.next /\ Holds(s.crc, s.last.addr, s.last.data)
  BY DEF IInv, StreamOK
<1> QED BY <1>1, <1>2, <1>3

\* A handler leaves pending only what its guards let through.
LEMMA RequestStep ==
  ASSUME IInv, [Next]_vars
  PROVE  RequestOK'
<1>1. CASE req' = NoReq
  BY <1>1 DEF RequestOK, NoReq
<1>2. ASSUME NEW slot \in Slots, NEW lo \in Blocks, NEW n \in 1..SlotWords, Erase(slot, lo, lo + n)
      PROVE  RequestOK'
  <2>1. req' = [cmd |-> "ERASE", slot |-> slot, at |-> lo, end |-> lo + n]
    BY <1>2 DEF Erase, BeginMutation
  <2>2. s' = [s EXCEPT !.stream = IF lo < s.next THEN "POISONED" ELSE @]
    BY <1>2 DEF Erase
  <2>3. s'.stream = "RUN" => s'.next <= lo
    BY <2>2, DecisionAssumption DEF DecisionAssumption, IInv, TypeOK, Session, Blocks
  <2> QED BY <2>1, <2>3 DEF RequestOK
<1>3. ASSUME NEW slot \in Slots, NEW at \in 0..SlotWords - 1, NEW data \in Chunk, Write(slot, at, data)
      PROVE  RequestOK'
  <2>1. req' = [cmd |-> "WRITE", slot |-> slot, at |-> at, data |-> data,
                class |-> Classify(at, data)]
    BY <1>3 DEF Write, BeginMutation
  <2>2. /\ s'.next = s.next /\ s'.crc = s.crc
        /\ s'.stream = IF Classify(at, data) = "POISON" THEN "POISONED" ELSE s.stream
    BY <1>3 DEF Write, IInv, TypeOK, Session
  <2>3. at + Len(data) <= SlotWords
    BY <1>3, RangeOk, ChunkType, DecisionAssumption DEF DecisionAssumption, Write
  <2>4. Classify(at, data) = "FOLD" => at = s.next
    BY DEF Classify
  <2>5. s.stream = "RUN" /\ Classify(at, data) = "RETRY" =>
          at + Len(data) <= s.next /\ Holds(s.crc, at, data)
    BY ClassifyOK
  <2>6. /\ req'.cmd = "WRITE" /\ req'.at = at /\ req'.data = data
        /\ req'.class = Classify(at, data)
    BY <2>1
  <2>7. s'.stream = "RUN" => s.stream = "RUN"
    BY <2>2
  <2> QED BY <2>2, <2>3, <2>4, <2>5, <2>6, <2>7 DEF RequestOK
<1>4. ASSUME NEW len \in 1..SlotWords, NEW crc \in [1..len -> Word], Commit(len, crc)
      PROVE  RequestOK'
  <2>1. req' = [cmd |-> "COMMIT", rec |-> Sealed(NextGen, len, crc)]
        /\ img' = img /\ write' = write
    BY <1>4 DEF Commit, flash, slots
  <2>2. CommitAnswer(len, crc) = "GO" /\ (crc[1] # ErasedWord \/ BlankFirstWord)
    BY <1>4 DEF Commit
  <2>3. len <= Capacity(write) /\ crc \in Attested(len) /\ NextGen # 0
    BY <2>2 DEF CommitAnswer, CommitRangeOk
  <2>4. write \in Usable
    BY <2>3 DEF Capacity
  <2>5. crc = Crc(img[write], len)
    BY <2>3, AttestedIsHeld
  <2>6. /\ req'.cmd = "COMMIT" /\ req'.rec.st = "sealed" /\ req'.rec.gen = NextGen
        /\ req'.rec.len = len /\ req'.rec.crc = crc
    BY <2>1 DEF Sealed
  <2> QED BY <2>1, <2>2, <2>3, <2>4, <2>5, <2>6 DEF RequestOK
<1>5. CASE Disarm
  <2>1. /\ s'.next = s.next /\ s'.crc = s.crc /\ s'.stream = s.stream
        /\ req' = req /\ req.cmd \in {"ERASE", "WRITE"}
    BY <1>5 DEF Disarm, IInv, PcOK, TypeOK, Session
  <2> QED BY <2>1 DEF IInv, RequestOK
<1>6. CASE EraseBlock /\ req' # NoReq
  <2>1. /\ s'.next = s.next /\ s'.stream = s.stream
        /\ req.at \in Blocks /\ req' = [req EXCEPT !.at = @ + BlockSize]
    BY <1>6, PendingRequest DEF EraseBlock, Return, IInv, TypeOK, Session
  <2>2. req \in [cmd : {"ERASE"}, slot : Slots, at : Blocks, end : 0..SlotWords]
    BY <1>6 DEF EraseBlock, IInv, PcOK, TypeOK, Requests, NoReq
  <2>3. req'.cmd = "ERASE" /\ req'.at = req.at + BlockSize
    BY <2>1, <2>2
  <2>4. s.stream = "RUN" => s.next <= req.at
    BY <2>2 DEF IInv, RequestOK
  <2>5. s.next \in Nat /\ req.at \in Nat /\ BlockSize \in Nat
    BY <2>1, DecisionAssumption, CoreAssumption
       DEF DecisionAssumption, CoreAssumption, IInv, TypeOK, Session, Blocks
  <2> QED BY <2>1, <2>3, <2>4, <2>5 DEF RequestOK
<1>7. CASE RecErase
  <2>1. req' = req /\ req.cmd = "COMMIT" /\ img' = img /\ write' = write
    BY <1>7 DEF RecErase, FlashChanges, IInv, PcOK, slots
  <2> QED BY <2>1 DEF IInv, RequestOK
<1>8. CASE Decide \/ Hello
  BY <1>1, <1>8 DEF Decide, CoreInit, Hello, Idle, IInv, PcOK, RamOK
<1>9. CASE UNCHANGED vars
  BY <1>9 DEF vars, flash, slots, RequestOK, IInv
<1>10. CASE Program \/ MutationFails \/ RecProgram \/ RecStoreFails \/ BootApp \/ BootStay \/ PowerCut
              \/ IdleBoot \/ (\E magic \in BOOLEAN : AppResets(magic))
  BY <1>1, <1>10 DEF Program, MutationFails, RecProgram, RecStoreFails, BootApp, BootStay, PowerCut,
     IdleBoot, AppResets, Reset, ClearRam, Return
<1> QED BY Actions, <1>1, <1>2, <1>3, <1>4, <1>5, <1>6, <1>7, <1>8, <1>9, <1>10

-----------------------------------------------------------------------------
(* The inductive invariant, and what follows from it *)

\* The invariant holds of a device from the factory.
LEMMA InitIInv == Init => IInv
<1> SUFFICES ASSUME Init PROVE IInv
  OBVIOUS
<1>1. /\ xipImg = img /\ xipRec = rec
      /\ mode = "reset" /\ promised = FALSE /\ active = NoSlot
      /\ rec_state = "FLASH" /\ s = EmptySession /\ pc = "idle" /\ req = NoReq
  BY DEF Init
<1>2. PcOK /\ RamOK /\ CoherentOK /\ ActiveOK /\ RequestOK /\ BootPromiseKept
  BY <1>1 DEF PcOK, RamOK, CoherentOK, FlashStateMeansCoherent, ActiveOK, RequestOK,
     BootPromiseKept, NoReq, EmptySession
<1>3. DisarmedOK /\ StreamOK
  BY <1>1 DEF DisarmedOK, StreamOK, Holds, EmptySession, NoChunk
<1>4. RecordAttestsImage
  <2>1. PICK image \in Image, len \in 1..SlotWords, blessed \in BOOLEAN :
          /\ img = Pair(image, [w \in 1..SlotWords |-> ErasedWord])
          /\ rec = Pair(IF blessed THEN Sealed(1, len, Crc(image, len)) ELSE Blank, Blank)
    BY DEF Init
  <2>2. img[0] = image /\ rec[1] = Blank
        /\ rec[0] = IF blessed THEN Sealed(1, len, Crc(image, len)) ELSE Blank
    BY <2>1 DEF Pair, Slots
  <2> QED BY <2>2 DEF RecordAttestsImage, RecordLoads, Slots, Sealed, Blank
<1> QED BY <1>2, <1>3, <1>4, TypeInit DEF IInv

\* The invariant is inductive.
LEMMA StepIInv ==
  ASSUME IInv, [Next]_vars
  PROVE  IInv'
BY TypeStep, ControlStep, CoherentStep, ActiveStep, DisarmedStep, StreamStep, RequestStep,
   RecordStep, PromiseStep DEF IInv

\* The inductive invariant holds of every behaviour of the engine.
THEOREM Inductive == Spec => []IInv
<1>1. Init => IInv
  BY InitIInv
<1>2. IInv /\ [Next]_vars => IInv'
  BY StepIInv
<1> QED BY <1>1, <1>2, PTL DEF Spec

-----------------------------------------------------------------------------
(* What the inductive invariant carries *)

\* Type correctness of the engine, boot_core.c's static state included.
THEOREM TypeCorrect == Spec => []TypeOK
<1>1. IInv => TypeOK
  BY DEF IInv
<1> QED BY <1>1, Inductive, PTL

\* boot_core.c:189-201: at every instant a record that loads describes the
\* words of its slot, whatever was cut short or failed before.
THEOREM RecordSound == Spec => []RecordAttestsImage
<1>1. IInv => RecordAttestsImage
  BY DEF IInv
<1> QED BY <1>1, Inductive, PTL

\* boot_core.c:349-364: an OK to BOOT is followed by a launch.
THEOREM PromiseSound ==
  ASSUME ~BlankFirstWord
  PROVE  Spec => []BootPromiseKept
<1>1. IInv /\ ~BlankFirstWord => BootPromiseKept
  BY DEF IInv
<1> QED BY <1>1, Inductive, PTL

\* boot_core.c:60-66: OB_REC_FLASH licenses a read over XIP.
THEOREM FlashStateSound == Spec => []FlashStateMeansCoherent
<1>1. IInv => FlashStateMeansCoherent
  BY DEF IInv, CoherentOK
<1> QED BY <1>1, Inductive, PTL

\* boot_core.c:8-14: no step of a session reaches the slot it booted from.
THEOREM ActiveSound == Spec => ActiveSlotUntouched
<1>1. ASSUME IInv, [Next]_vars, mode = "core", active # NoSlot
      PROVE  img'[active] = img[active] /\ rec'[active] = rec[active]
  <2>1. active \in Slots /\ active # write
    BY <1>1 DEF IInv, TypeOK, RamOK, Other, Slots, NoSlot
  <2> QED BY <1>1, <2>1, OnlyWriteSlot
<1>2. IInv /\ [Next]_vars =>
        [mode = "core" /\ active # NoSlot =>
           img'[active] = img[active] /\ rec'[active] = rec[active]]_vars
  BY <1>1
<1> QED BY <1>2, Inductive, PTL DEF Spec, ActiveSlotUntouched

\* docs/AB-UPDATE.md: a device that has an application keeps one, whatever
\* command, flash error or loss of power comes next.
THEOREM NeverBricked ==
  ASSUME ~BlankFirstWord
  PROVE  Spec => StaysBootable
<1>1. ASSUME IInv, [Next]_vars, HasApp
      PROVE  Bootable(img, rec)' # {}
  <2>1. CASE mode = "core"
    <3>1. active # NoSlot /\ active \in Slots /\ active # write
      BY <1>1, <2>1 DEF HasApp, IInv, TypeOK, RamOK, Other, Slots, NoSlot
    <3>2. AppValid(active, img[active], rec[active])
      BY <1>1, <3>1 DEF IInv, ActiveOK
    <3>3. img'[active] = img[active] /\ rec'[active] = rec[active]
      BY <1>1, <3>1, OnlyWriteSlot
    <3> QED BY <3>1, <3>2, <3>3 DEF Bootable
  <2>2. CASE mode # "core"
    <3>1. pc = "idle"
      BY <1>1, <2>2 DEF IInv, RamOK
    <3>2. img' = img /\ rec' = rec
      BY <1>1, <3>1, OnlyWriteSlot
    <3> QED BY <1>1, <3>2 DEF HasApp, Bootable
  <2> QED BY <2>1, <2>2
<1>2. IInv /\ [Next]_vars => [HasApp => Bootable(img, rec)' # {}]_vars
  BY <1>1
<1> QED BY <1>2, Inductive, PTL DEF Spec, StaysBootable

-----------------------------------------------------------------------------
(* Generations *)

\* While a session runs, highest_gen bounds the record of the slot it does not
\* write, and a pending COMMIT goes one higher.  (The write slot itself may
\* hold a higher one: a record that landed although its COMMIT failed.)
GenOK ==
  /\ mode = "core" => \A x \in Slots : x # write /\ RecordLoads(x, rec[x]) => rec[x].gen <= highest_gen
  /\ req.cmd = "COMMIT" => req.rec.gen = highest_gen + 1
  /\ NoGenerationTie
  /\ FreshMeansInstalled \/ BlankFirstWord

\* A new device has at most one record, and no session to commit another.
LEMMA InitGenOK == Init => GenOK
<1> SUFFICES ASSUME Init PROVE GenOK
  OBVIOUS
<1>1. mode = "reset" /\ req = NoReq /\ rec_state = "FLASH"
  BY DEF Init
<1>2. rec[1] = Blank
  BY DEF Init, Pair, Slots
<1> QED BY <1>1, <1>2 DEF GenOK, NoGenerationTie, FreshMeansInstalled, NoReq, RecordLoads, Blank, Slots

\* The first conjunct, the second, the tie and the installed image are each
\* kept by a step that leaves the variables they read alone.
LEMMA GenKept ==
  ASSUME IInv, GenOK, img' = img, rec' = rec, write' = write, highest_gen' = highest_gen,
         mode' = "core" => mode = "core",
         req' = req \/ req'.cmd # "COMMIT",
         rec_state' = "FRESH" => rec_state = "FRESH" /\ active' = active /\ committed' = committed
  PROVE  GenOK'
BY DEF GenOK, NoGenerationTie, FreshMeansInstalled

\* What the write slot's record may become while a COMMIT is pending.
LEMMA CommitNoTie ==
  ASSUME IInv, GenOK, req.cmd = "COMMIT", mode = "core"
  PROVE  \A x \in Slots : x # write /\ RecordLoads(x, rec[x]) => rec[x].gen < req.rec.gen
<1>1. highest_gen \in Nat /\ \A x \in Slots : rec[x].gen \in Nat
  BY DecisionAssumption DEF DecisionAssumption, IInv, TypeOK, Cell
<1> QED BY <1>1 DEF GenOK

\* Whatever becomes of the write slot's record, finished, cut short or failed,
\* it does not tie with the other one.
LEMMA GenFlash ==
  ASSUME IInv, GenOK, mode = "core", NEW newRec \in RecResidues, rec' = newRec
  PROVE  NoGenerationTie'
<1>1. \A x \in Slots : x # write => rec'[x] = rec[x]
  BY DEF RecResidues, IInv, TypeOK
<1>2. \/ rec'[write] = rec[write]
      \/ rec'[write] \in {Blank, Torn}
      \/ rec'[write] = req.rec /\ req.cmd = "COMMIT"
  BY DEF RecResidues, IInv, TypeOK, PcOK
<1>3. write \in Slots
  BY DEF IInv, TypeOK
<1>4. CASE rec'[write] = rec[write]
  BY <1>1, <1>3, <1>4 DEF GenOK, NoGenerationTie, Slots
<1>5. CASE rec'[write] \in {Blank, Torn}
  BY <1>3, <1>5 DEF NoGenerationTie, RecordLoads, Blank, Torn
<1>6. CASE rec'[write] = req.rec /\ req.cmd = "COMMIT"
  <2>1. \A x \in Slots : x # write /\ RecordLoads(x, rec'[x]) => rec'[x].gen < rec'[write].gen
    BY <1>1, <1>6, CommitNoTie
  <2>2. \A x \in Slots : rec[x].gen \in Nat
    BY DecisionAssumption DEF DecisionAssumption, IInv, TypeOK, Cell
  <2>3. \A x \in Slots : x # write /\ RecordLoads(x, rec'[x]) => rec'[x].gen # rec'[write].gen
    <3>1. req.rec.gen \in Nat
      BY <1>6, DecisionAssumption DEF DecisionAssumption, IInv, TypeOK, Requests, NoReq, Cell
    <3> QED BY <1>1, <1>6, <2>1, <2>2, <3>1
  <2> QED BY <1>3, <2>3 DEF NoGenerationTie, Slots
<1> QED BY <1>2, <1>4, <1>5, <1>6

\* Every step keeps the generations apart; COMMIT is the one that sets one.
LEMMA GenStep ==
  ASSUME IInv, GenOK, [Next]_vars
  PROVE  GenOK'
<1>1. CASE Decide
  <2>1. img' = img /\ rec' = rec /\ req' = req /\ req = NoReq /\ rec_state' = "FLASH"
    BY <1>1 DEF Decide, CoreInit, flash, record, IInv, PcOK, RamOK
  <2>2. mode' = "core" => highest_gen' = HighestGeneration(img, rec)
    BY <1>1 DEF Decide, CoreInit
  <2>3. \A x \in Slots : RecordLoads(x, rec[x]) => rec[x].gen <= HighestGeneration(img, rec)
    <3>1. rec \in [Slots -> Cell]
      BY DEF IInv, TypeOK
    <3>2. IsHighest(HighestGeneration(img, rec), rec)
      BY <3>1, SelectIsBest
    <3> QED BY <3>2 DEF IsHighest
  <2> QED BY <2>1, <2>2, <2>3 DEF GenOK, NoGenerationTie, FreshMeansInstalled, NoReq
<1>2. CASE Hello
  BY <1>2, GenKept DEF Hello, flash, life, slots, record
<1>3. ASSUME NEW slot \in Slots, NEW lo \in Blocks, NEW n \in 1..SlotWords, Erase(slot, lo, lo + n)
      PROVE  GenOK'
  <2>1. img' = img /\ rec' = rec /\ write' = write /\ mode' = mode /\ req'.cmd = "ERASE"
    BY <1>3 DEF Erase, BeginMutation, flash, slots, life
  <2>2. rec_state' = "INVALID" /\ highest_gen' = highest_gen
    BY <1>3 DEF Erase, BeginMutation, record, IInv, RamOK
  <2> QED BY <2>1, <2>2, GenKept
<1>4. ASSUME NEW slot \in Slots, NEW at \in 0..SlotWords - 1, NEW data \in Chunk, Write(slot, at, data)
      PROVE  GenOK'
  <2>1. img' = img /\ rec' = rec /\ write' = write /\ mode' = mode /\ req'.cmd = "WRITE"
    BY <1>4 DEF Write, BeginMutation, flash, slots, life
  <2>2. rec_state' = "INVALID" /\ highest_gen' = highest_gen
    BY <1>4 DEF Write, BeginMutation, record, IInv, RamOK
  <2> QED BY <2>1, <2>2, GenKept
<1>5. ASSUME NEW len \in 1..SlotWords, NEW crc \in [1..len -> Word], Commit(len, crc)
      PROVE  GenOK'
  <2>1. /\ img' = img /\ rec' = rec /\ write' = write /\ mode' = mode /\ highest_gen' = highest_gen
        /\ rec_state' = "INVALID" /\ req' = [cmd |-> "COMMIT", rec |-> Sealed(NextGen, len, crc)]
    BY <1>5 DEF Commit, flash, slots, life
  <2>2. NextGen # 0 /\ NextGen # GenLimit
    BY <1>5 DEF Commit, CommitAnswer
  <2>3. NextGen = highest_gen + 1
    <3>1. highest_gen \in 0..GenLimit /\ GenLimit \in Nat
      BY DecisionAssumption DEF DecisionAssumption, IInv, TypeOK
    <3>2. CASE highest_gen = GenLimit
      BY <2>2, <3>1, <3>2 DEF NextGen
    <3>3. CASE highest_gen < GenLimit
      BY <3>1, <3>3 DEF NextGen
    <3> QED BY <3>1, <3>2, <3>3
  <2>4. req'.rec.gen = highest_gen + 1
    BY <2>1, <2>3 DEF Sealed
  <2> QED BY <2>1, <2>4 DEF GenOK, NoGenerationTie, FreshMeansInstalled
<1>6. CASE Disarm \/ EraseBlock \/ Program \/ MutationFails \/ RecErase \/ RecStoreFails
  <2>1. pc # "idle" /\ mode = "core" /\ rec_state = "INVALID"
    BY <1>6 DEF Disarm, EraseBlock, Program, MutationFails, RecErase, RecStoreFails, IInv, PcOK
  <2>2. mode' = mode /\ write' = write /\ rec_state' = rec_state /\ highest_gen' = highest_gen
    BY <1>6 DEF Disarm, EraseBlock, Program, MutationFails, RecErase, RecStoreFails, life, slots, record
  <2>3. rec' \in RecResidues
    BY <1>6 DEF Disarm, EraseBlock, Program, MutationFails, RecErase, RecStoreFails,
       FlashChanges, RecResidues, IInv, TypeOK
  <2>4. req'.cmd = "COMMIT" => req' = req
    <3>1. CASE Disarm \/ RecErase
      BY <3>1 DEF Disarm, RecErase
    <3>2. CASE EraseBlock
      <4>1. req.cmd = "ERASE" /\ req \in Requests
        BY <3>2 DEF EraseBlock, IInv, PcOK, TypeOK
      <4>2. req' = NoReq \/ req' = [req EXCEPT !.at = @ + BlockSize]
        BY <3>2 DEF EraseBlock, Return
      <4> QED BY <4>1, <4>2 DEF Requests, NoReq
    <3>3. CASE Program \/ MutationFails \/ RecStoreFails
      BY <3>3 DEF Program, MutationFails, RecStoreFails, Return, NoReq
    <3> QED BY <1>6, <3>1, <3>2, <3>3
  <2>5. NoGenerationTie'
    BY <2>1, <2>3, GenFlash
  <2>6. \A x \in Slots : x # write => rec'[x] = rec[x]
    BY OnlyWriteSlot
  <2> QED BY <2>1, <2>2, <2>4, <2>5, <2>6 DEF GenOK, FreshMeansInstalled
<1>7. CASE RecProgram
  <2>1. /\ pc = "recProgram" /\ req.cmd = "COMMIT" /\ mode = "core" /\ write \in Slots
        /\ rec \in [Slots -> Cell]
    BY <1>7 DEF RecProgram, IInv, PcOK, TypeOK
  <2>2. /\ img' = img /\ rec' = [rec EXCEPT ![write] = req.rec] /\ req' = NoReq /\ mode' = mode
        /\ active' = write /\ write' = Other(write) /\ highest_gen' = req.rec.gen
        /\ committed' = [len |-> req.rec.len, crc |-> req.rec.crc]
    BY <1>7 DEF RecProgram, NoteCommitted, FlashChanges, Return, life
  <2>3. rec'[write] = req.rec /\ \A x \in Slots : x # write => rec'[x] = rec[x]
    BY <2>1, <2>2
  <2>4. NoGenerationTie'
    <3>1. rec' \in RecResidues
      BY <2>1, <2>2 DEF RecResidues
    <3> QED BY <2>1, <3>1, GenFlash
  <2>5. req.rec \in Cell /\ rec' \in [Slots -> Cell]
    <3>1. req.rec \in Cell
      BY <2>1 DEF IInv, TypeOK, Requests, NoReq
    <3> QED BY <2>1, <2>2, <3>1
  <2>6. \A x \in Slots : x # write' => x = write
    BY <2>1, <2>2 DEF Other, Slots
  <2>7. \A x \in Slots : x # write' /\ RecordLoads(x, rec'[x]) => rec'[x].gen <= highest_gen'
    BY <2>2, <2>3, <2>5, <2>6 DEF Cell
  <2>8. ASSUME ~BlankFirstWord PROVE BootSelect(img', rec') = write
    <3>1. write \in Bootable(img', rec')
      BY <2>1, <2>2, <2>3, <2>8, CommittedBoots DEF Bootable
    <3>2. \A x \in Bootable(img', rec') : x # write => rec'[x].gen < rec'[write].gen
      BY <2>1, <2>3, CommitNoTie DEF Bootable, AppValid
    <3>3. IsBest(BootSelect(img', rec'), img', rec')
      BY <2>5, SelectIsBest
    <3>4. \A x \in Slots : rec'[x].gen \in Nat
      BY <2>5, DecisionAssumption DEF DecisionAssumption, Cell
    <3> QED BY <3>1, <3>2, <3>3, <3>4 DEF IsBest, Bootable
  <2>9. FreshMeansInstalled' \/ BlankFirstWord
    BY <2>2, <2>3, <2>8 DEF FreshMeansInstalled
  <2> QED BY <2>2, <2>4, <2>7, <2>9 DEF GenOK, NoReq
<1>8. CASE BootApp \/ BootStay \/ PowerCut \/ IdleBoot \/ (\E magic \in BOOLEAN : AppResets(magic))
  <2>1. mode' # "core" /\ req' = NoReq /\ rec_state' = "FLASH"
    BY <1>8 DEF BootApp, BootStay, PowerCut, IdleBoot, AppResets, Reset, ClearRam
  <2>2. CASE pc = "idle"
    BY <2>1, <2>2, OnlyWriteSlot DEF GenOK, NoGenerationTie, FreshMeansInstalled, NoReq
  <2>3. CASE pc # "idle"
    <3>1. mode = "core"
      BY <2>3 DEF IInv, PcOK
    <3>2. rec' \in RecResidues
      BY <1>8, <2>3, <3>1 DEF BootApp, BootStay, PowerCut, IdleBoot, AppResets, Reset, Ready, Idle
    <3>3. NoGenerationTie'
      BY <3>1, <3>2, GenFlash
    <3> QED BY <2>1, <3>3 DEF GenOK, FreshMeansInstalled, NoReq
  <2> QED BY <2>2, <2>3
<1>9. CASE UNCHANGED vars
  BY <1>9, GenKept DEF vars, flash, life, slots, record
<1> QED BY Actions, <1>1, <1>2, <1>3, <1>4, <1>5, <1>6, <1>7, <1>8, <1>9

\* The generation invariant holds of every behaviour of the engine.
LEMMA GenInductive == Spec => []GenOK
<1>1. Init => GenOK
  BY InitGenOK
<1>2. IInv /\ GenOK /\ [Next]_vars => GenOK'
  BY GenStep
<1> QED BY <1>1, <1>2, Inductive, PTL DEF Spec

\* boot_core.c:100-103: valid records never tie.
THEOREM NoTie == Spec => []NoGenerationTie
<1>1. GenOK => NoGenerationTie
  BY DEF GenOK
<1> QED BY <1>1, GenInductive, PTL

\* boot_core.c:311-319: after a COMMIT that answered OK the reset path launches
\* exactly the image it named.
THEOREM CommitSound ==
  ASSUME ~BlankFirstWord
  PROVE  Spec => []FreshMeansInstalled
<1>1. GenOK /\ ~BlankFirstWord => FreshMeansInstalled
  BY DEF GenOK
<1> QED BY <1>1, GenInductive, PTL

-----------------------------------------------------------------------------
(* Erase before program *)

\* The bitmap speaks of the slot now written, and a pending WRITE was admitted
\* by it.
BitmapOK ==
  /\ \A a \in s.bitmap : <<write, a>> \in erased
  /\ req.cmd = "WRITE" => Covers(s.bitmap, req.at, Len(req.data))

\* Out of a reset nothing is erased and nothing is pending.
LEMMA InitBitmapOK == Init => BitmapOK
BY DEF Init, BitmapOK, EmptySession, NoReq

\* A bit is set for an erased block and cleared before the slots swap.
LEMMA BitmapStep ==
  ASSUME IInv, BitmapOK, [Next]_vars
  PROVE  BitmapOK'
<1> USE DEF IInv
<1>1. CASE s'.bitmap = {} /\ req' = NoReq
  BY <1>1 DEF BitmapOK, NoReq
<1>2. ASSUME s'.bitmap = s.bitmap, write' = write, erased' = erased, req' = req \/ req'.cmd # "WRITE"
      PROVE  BitmapOK'
  BY <1>2 DEF BitmapOK
<1>3. ASSUME NEW slot \in Slots, NEW lo \in Blocks, NEW n \in 1..SlotWords, Erase(slot, lo, lo + n)
      PROVE  BitmapOK'
  <2>1. s'.bitmap = s.bitmap /\ write' = write /\ erased' = erased /\ req'.cmd = "ERASE"
    BY <1>3 DEF Erase, BeginMutation, TypeOK, Session, slots
  <2> QED BY <1>2, <2>1
<1>4. ASSUME NEW slot \in Slots, NEW at \in 0..SlotWords - 1, NEW data \in Chunk, Write(slot, at, data)
      PROVE  BitmapOK'
  <2>1. s'.bitmap = s.bitmap /\ write' = write /\ erased' = erased
    BY <1>4 DEF Write, TypeOK, Session, slots
  <2>2. req'.at = at /\ req'.data = data /\ Covers(s.bitmap, at, Len(data))
    BY <1>4 DEF Write, BeginMutation
  <2> QED BY <2>1, <2>2 DEF BitmapOK
<1>5. CASE EraseBlock
  <2>1. /\ s'.bitmap = s.bitmap \union {req.at} /\ write' = write /\ req.slot = write
        /\ erased' = erased \union {<<req.slot, req.at>>}
    BY <1>5, PendingRequest DEF EraseBlock, TypeOK, Session, slots
  <2>2. req'.cmd # "WRITE"
    <3>1. req.cmd = "ERASE" /\ req \in Requests
      BY <1>5 DEF EraseBlock, PcOK, TypeOK
    <3>2. req' = NoReq \/ req' = [req EXCEPT !.at = @ + BlockSize]
      BY <1>5 DEF EraseBlock, Return
    <3> QED BY <3>1, <3>2 DEF Requests, NoReq
  <2> QED BY <2>1, <2>2 DEF BitmapOK
<1>6. CASE Disarm \/ Program \/ MutationFails \/ RecErase \/ RecStoreFails
  <2>1. s'.bitmap = s.bitmap /\ write' = write /\ erased' = erased
    BY <1>6 DEF Disarm, Program, MutationFails, RecErase, RecStoreFails, TypeOK, Session, slots
  <2>2. req' = req \/ req' = NoReq
    BY <1>6 DEF Disarm, Program, MutationFails, RecErase, RecStoreFails, Return
  <2> QED BY <1>2, <2>1, <2>2 DEF NoReq
<1>7. CASE RecProgram \/ Hello
  BY <1>1, <1>7 DEF RecProgram, NoteCommitted, Hello, Idle, PcOK, Return, EmptySession
<1>8. ASSUME NEW len \in 1..SlotWords, NEW crc \in [1..len -> Word], Commit(len, crc)
      PROVE  BitmapOK'
  <2>1. s' = s /\ write' = write /\ erased' = erased /\ req'.cmd = "COMMIT"
    BY <1>8 DEF Commit, slots
  <2> QED BY <1>2, <2>1
<1>9. CASE Decide
  BY <1>1, <1>9 DEF Decide, CoreInit, RamOK, PcOK, EmptySession
<1>10. CASE BootApp \/ BootStay \/ PowerCut \/ IdleBoot \/ (\E magic \in BOOLEAN : AppResets(magic))
  BY <1>1, <1>10 DEF BootApp, BootStay, PowerCut, IdleBoot, AppResets, Reset, ClearRam, EmptySession
<1>11. CASE UNCHANGED vars
  BY <1>2, <1>11 DEF vars, slots
<1> QED BY Actions, <1>3, <1>4, <1>5, <1>6, <1>7, <1>8, <1>9, <1>10, <1>11

\* No step clears a bit of a word outside the blocks this session erased.
LEMMA ProgramStep ==
  ASSUME IInv, BitmapOK, [Next]_vars, NEW x \in Slots, NEW w \in 1..SlotWords,
         ~(img'[x][w] \subseteq img[x][w])
  PROVE  \E a \in Blocks : w \in InBlock(a) /\ <<x, a>> \in erased
<1>1. img[x] \in Image /\ DOMAIN img[x] = 1..SlotWords /\ x = write
  BY OnlyWriteSlot DEF IInv, TypeOK, Image
<1>2. img' \in ImgResidues
  <2>1. CASE EraseBlock \/ Program
    BY <2>1, EraseIsResidue, ProgramIsResidue
  <2>2. CASE MutationFails \/ PowerCut
    BY <2>2 DEF MutationFails, PowerCut, Reset, FlashChanges
  <2>3. CASE img' = img
    BY <2>3
  <2> QED BY Actions, <2>1, <2>2, <2>3 DEF Decide, CoreInit, Hello, BootApp, BootStay, IdleBoot,
          AppResets, Reset, Erase, Write, Commit, Disarm, RecErase, RecProgram, RecStoreFails,
          FlashChanges, flash, vars
<1>3. CASE pc = "erase"
  <2>1. req.slot = write
    BY <1>3, PendingRequest
  <2>2. PICK im \in EraseResidue(img[write], req.at) : img' = [img EXCEPT ![write] = im]
    BY <1>2, <1>3, <2>1 DEF ImgResidues
  <2> QED BY <1>1, <2>2 DEF EraseResidue, IInv, TypeOK
<1>4. CASE pc = "program"
  <2>1. req.slot = write /\ req.at \in Nat /\ req.data \in Seq(Word) /\ req.cmd = "WRITE"
    BY <1>4, PendingRequest, DecisionAssumption DEF DecisionAssumption, IInv, PcOK
  <2>2. PICK im \in ProgramResidue(img[write], req.at, req.data) : img' = [img EXCEPT ![write] = im]
    BY <1>2, <1>4, <2>1 DEF ImgResidues
  <2>3. im[w] \subseteq ProgramWords(img[write], req.at, req.data)[w] /\ img'[x] = im
    BY <1>1, <2>2 DEF ProgramResidue, IInv, TypeOK
  <2>4. w \in req.at + 1..req.at + Len(req.data)
    BY <1>1, <2>3 DEF ProgramWords
  <2>5. \E a \in s.bitmap : w \in InBlock(a)
    BY <2>1, <2>4 DEF BitmapOK, Covers
  <2>6. s.bitmap \subseteq Blocks
    BY DEF IInv, TypeOK, Session
  <2> QED BY <1>1, <2>5, <2>6 DEF BitmapOK
<1>5. CASE pc \notin {"erase", "program"}
  BY <1>2, <1>5 DEF ImgResidues
<1> QED BY <1>3, <1>4, <1>5

\* boot_core.c:320-327: a word is programmed only in a block of its own slot
\* that this session erased, across retries and across the slot flip.
THEOREM EraseFirst == Spec => ProgramsErasedBlocksOnly
<1>1. Init => BitmapOK
  BY InitBitmapOK
<1>2. IInv /\ BitmapOK /\ [Next]_vars => BitmapOK'
  BY BitmapStep
<1>3. IInv /\ BitmapOK /\ [Next]_vars =>
        [\A x \in Slots : \A w \in 1..SlotWords :
           ~(img'[x][w] \subseteq img[x][w]) =>
              \E a \in Blocks : w \in InBlock(a) /\ <<x, a>> \in erased]_vars
  BY ProgramStep
<1> QED BY <1>1, <1>2, <1>3, Inductive, PTL DEF Spec, ProgramsErasedBlocksOnly

-----------------------------------------------------------------------------
(* Refinement of ABUpdate *)

Launches == ImageOf(BootSelect(img, rec))
Held     == ImageOf(IF mode = "core" THEN active ELSE BootSelect(img, rec))
Offered  == IF req.cmd = "COMMIT" THEN req.rec.crc ELSE <<>>

\* A bootloader that found nothing to boot still finds nothing outside the
\* slot it writes.
HeldOK ==
  mode = "core" /\ active = NoSlot =>
    \A x \in Slots : x # write => x \notin Bootable(img, rec)

\* Such a bootloader never touches the other slot.
LEMMA HeldStep ==
  ASSUME IInv, HeldOK, [Next]_vars
  PROVE  HeldOK'
<1>1. CASE Decide
  BY <1>1, SelectSound DEF Decide, CoreInit, HeldOK, flash
<1>2. CASE RecProgram
  BY <1>2 DEF RecProgram, NoteCommitted, HeldOK, IInv, TypeOK, Slots, NoSlot
<1>3. CASE mode = "core" /\ active' = active /\ write' = write
  BY <1>3, OnlyWriteSlot DEF HeldOK, Bootable
<1>4. CASE mode' # "core"
  BY <1>4 DEF HeldOK
<1>5. \/ Decide \/ RecProgram \/ mode' # "core"
      \/ mode = "core" /\ active' = active /\ write' = write
      \/ UNCHANGED vars
  <2>1. (pc # "idle" => mode = "core") /\ (Ready \/ Idle => mode = "core")
    BY DEF IInv, PcOK, Ready, Idle
  <2> QED BY Actions, <2>1 DEF Hello, BootApp, BootStay, IdleBoot, PowerCut, Erase, Write, Commit,
          Disarm, EraseBlock, Program, MutationFails, RecErase, RecStoreFails, AppResets, Reset, slots
<1>6. CASE UNCHANGED vars
  BY <1>6 DEF vars, flash, life, slots, HeldOK, Bootable
<1> QED BY <1>1, <1>2, <1>3, <1>4, <1>5, <1>6

\* With nothing bootable in the write slot, a reset finds the active slot.
LEMMA LaunchesActive ==
  ASSUME IInv, HeldOK, ~BlankFirstWord, mode = "core", NEW images, NEW cells,
         \A x \in Slots : x # write => images[x] = img[x] /\ cells[x] = rec[x],
         cells[write].st # "sealed"
  PROVE  BootSelect(images, cells) = active
<1>1. write \notin Bootable(images, cells)
  BY DEF Bootable, AppValid, RecordLoads
<1>2. \A x \in Slots : x # write => (x \in Bootable(images, cells) <=> x \in Bootable(img, rec))
  BY DEF Bootable
<1>3. CASE active = NoSlot
  <2>1. Bootable(images, cells) = {}
    BY <1>1, <1>2, <1>3 DEF HeldOK, Bootable
  <2> QED BY <1>3, <2>1, SelectSound
<1>4. CASE active # NoSlot
  <2>1. active \in Slots /\ active # write /\ write \in Slots
    BY <1>4 DEF IInv, TypeOK, RamOK, Other, Slots, NoSlot
  <2>2. active \in Bootable(img, rec)
    BY <1>4, <2>1 DEF IInv, ActiveOK, Bootable
  <2>3. Bootable(images, cells) = {active}
    BY <1>1, <1>2, <2>1, <2>2 DEF Bootable, Slots
  <2> QED BY <2>3, SelectSound
<1> QED BY <1>3, <1>4

\* A mutation in the write slot leaves what would start as it is, or makes it
\* what is held; a landing record makes it what was offered.
LEMMA LaunchesAfter ==
  ASSUME IInv, GenOK, HeldOK, ~BlankFirstWord, mode = "core", [Next]_vars,
         img' \in ImgResidues, rec' \in RecResidues
  PROVE  \/ ImageOf(BootSelect(img, rec))' \in {Launches, Held}
         \/ Offered # <<>> /\ ImageOf(BootSelect(img, rec))' = Offered
<1>1. /\ write \in Slots /\ rec \in [Slots -> Cell] /\ img \in [Slots -> Image]
      /\ \A x \in Slots : x # write => img'[x] = img[x] /\ rec'[x] = rec[x]
  BY OnlyWriteSlot DEF IInv, TypeOK
<1>2. CASE rec'[write].st # "sealed"
  <2>1. BootSelect(img', rec') = active
    BY <1>1, <1>2, LaunchesActive
  <2>2. active = NoSlot \/ (active \in Slots /\ active # write)
    BY DEF IInv, TypeOK, RamOK, Other, Slots, NoSlot
  <2> QED BY <1>1, <2>1, <2>2 DEF Held, ImageOf
<1>3. CASE img' = img /\ rec' = rec
  BY <1>3 DEF Launches, ImageOf
<1>4. CASE pc = "recProgram" /\ rec'[write] = req.rec /\ img' = img
  <2>1. /\ req.cmd = "COMMIT" /\ req.rec.len \in 1..SlotWords
        /\ req.rec.crc = Crc(img[write], req.rec.len)
    BY <1>4 DEF IInv, PcOK, RequestOK
  <2>2. write \in Bootable(img', rec')
    BY <1>1, <1>4, CommittedBoots DEF Bootable
  <2>3. \A x \in Bootable(img', rec') : x # write => rec'[x].gen < rec'[write].gen
    BY <1>1, <1>4, <2>1, CommitNoTie DEF Bootable, AppValid
  <2>4. \A x \in Slots : rec'[x].gen \in Nat /\ rec' \in [Slots -> Cell]
    <3>1. rec' \in [Slots -> Cell]
      BY TypeStep DEF TypeOK
    <3> QED BY <3>1, DecisionAssumption DEF DecisionAssumption, Cell
  <2>5. IsBest(BootSelect(img', rec'), img', rec')
    BY <2>4, SelectIsBest DEF Slots
  <2>6. BootSelect(img', rec') = write
    BY <1>1, <2>2, <2>3, <2>4, <2>5 DEF IsBest, Bootable
  <2>7. ImageOf(BootSelect(img, rec))' = req.rec.crc
    BY <1>1, <1>4, <2>1, <2>6 DEF ImageOf, Slots, NoSlot
  <2>8. req.rec.crc # <<>>
    <3>1. 1 \in DOMAIN req.rec.crc
      BY <2>1, DecisionAssumption DEF DecisionAssumption, Crc
    <3> QED BY <3>1
  <2> QED BY <2>1, <2>7, <2>8 DEF Offered
<1>5. CASE pc \in {"erase", "program"}
  <2>1. rec' = rec /\ rec[write].st # "sealed"
    BY <1>5, ResidueElsewhere DEF IInv, DisarmedOK
  <2> QED BY <1>2, <2>1
<1>6. CASE pc \notin {"erase", "program"}
  <2>1. img' = img
    BY <1>6 DEF ImgResidues
  <2>2. \/ rec'[write] = rec[write] \/ rec'[write] \in {Blank, Torn}
        \/ pc = "recProgram" /\ rec'[write] = req.rec
    BY <1>1 DEF RecResidues
  <2>3. rec'[write] = rec[write] => rec' = rec
    BY <1>1 DEF RecResidues
  <2> QED BY <1>2, <1>3, <1>4, <2>1, <2>2, <2>3 DEF Blank, Torn
<1> QED BY <1>5, <1>6

\* While a session runs what is held does not move with the write slot.
LEMMA HeldKept ==
  ASSUME IInv, [Next]_vars, mode = "core", mode' = "core", active' = active
  PROVE  Held' = Held
<1>1. active = NoSlot \/ (active \in Slots /\ active # write)
  BY DEF IInv, TypeOK, RamOK, Other, Slots, NoSlot
<1> QED BY <1>1, OnlyWriteSlot DEF Held, ImageOf

\* Every step of the engine is a step of ABUpdate, or one it does not see.
LEMMA RefinesStep ==
  ASSUME IInv, GenOK, HeldOK, ~BlankFirstWord, [Next]_vars
  PROVE  [AB!Next]_(AB!vars)
<1> DEFINE Stutter == Launches' = Launches /\ Held' = Held /\ Offered' = Offered
<1>1. CASE Stutter
  BY <1>1 DEF AB!vars, Launches, Held, Offered
<1>2. CASE Launches' = Held /\ Held' = Held /\ Offered' = Offered
  BY <1>2 DEF AB!Next, AB!Withdraw, Launches, Held, Offered
<1>3. CASE /\ Launches' \in {Launches, Held} \/ (Offered # <<>> /\ Launches' = Offered)
           /\ Held' = Launches' /\ Offered' = <<>>
  BY <1>3 DEF AB!Next, AB!Restart, Launches, Held, Offered
<1>4. CASE /\ Offered # <<>> /\ Launches' \in {Launches, Held, Offered}
           /\ Held' = Held /\ Offered' = <<>>
  BY <1>4 DEF AB!Next, AB!Fail, Launches, Held, Offered
<1>5. CASE Decide
  <2>1. img' = img /\ rec' = rec /\ req' = req /\ mode = "reset"
    BY <1>5 DEF Decide, CoreInit, flash
  <2>2. \/ mode' = "app"
        \/ mode' = "core" /\ active' = BootSelect(img, rec)
    BY <1>5 DEF Decide, CoreInit
  <2>3. Stutter
    BY <2>1, <2>2 DEF Launches, Held, Offered, ImageOf
  <2> QED BY <1>1, <2>3
<1>6. CASE Hello
  <2>1. Stutter
    BY <1>6 DEF Hello, flash, life, slots, Launches, Held, Offered, ImageOf
  <2> QED BY <1>1, <2>1
<1>7. ASSUME img' = img, rec' = rec, mode' = mode, active' = active, req = NoReq, req'.cmd # "COMMIT"
      PROVE  Stutter
  BY <1>7 DEF Launches, Held, Offered, ImageOf, NoReq
<1>8. ASSUME NEW slot \in Slots, NEW lo \in Blocks, NEW n \in 1..SlotWords, Erase(slot, lo, lo + n)
      PROVE  Stutter
  <2>1. /\ img' = img /\ rec' = rec /\ mode' = mode /\ active' = active /\ req = NoReq
        /\ req'.cmd = "ERASE"
    BY <1>8 DEF Erase, BeginMutation, Ready, Idle, flash, life, slots, IInv, PcOK
  <2> QED BY <1>7, <2>1
<1>9. ASSUME NEW slot \in Slots, NEW at \in 0..SlotWords - 1, NEW data \in Chunk, Write(slot, at, data)
      PROVE  Stutter
  <2>1. /\ img' = img /\ rec' = rec /\ mode' = mode /\ active' = active /\ req = NoReq
        /\ req'.cmd = "WRITE"
    BY <1>9 DEF Write, BeginMutation, Ready, Idle, flash, life, slots, IInv, PcOK
  <2> QED BY <1>7, <2>1
<1>10. ASSUME NEW len \in 1..SlotWords, NEW crc \in [1..len -> Word], Commit(len, crc)
       PROVE  AB!Offer
  <2>1. /\ img' = img /\ rec' = rec /\ mode' = mode /\ active' = active /\ req = NoReq
        /\ req' = [cmd |-> "COMMIT", rec |-> Sealed(NextGen, len, crc)]
    BY <1>10 DEF Commit, Ready, Idle, flash, life, slots, IInv, PcOK
  <2>2. Offered = <<>> /\ Offered' = crc
    BY <2>1 DEF Offered, NoReq, Sealed
  <2>3. Launches' = Launches /\ Held' = Held
    BY <2>1 DEF Launches, Held, ImageOf
  <2> QED BY <2>2, <2>3 DEF AB!Offer, Launches, Held, Offered
<1>11. CASE RecProgram
  <2>1. /\ pc = "recProgram" /\ req.cmd = "COMMIT" /\ mode' = "core" /\ write \in Slots
        /\ rec_state' = "FRESH" /\ active' = write /\ req' = NoReq
        /\ img' = img /\ rec' = [rec EXCEPT ![write] = req.rec]
    BY <1>11 DEF RecProgram, NoteCommitted, FlashChanges, Return, IInv, PcOK, TypeOK, life
  <2>2. rec'[write] = req.rec
    BY <2>1 DEF IInv, TypeOK
  <2>3. req.rec.len \in 1..SlotWords /\ req.rec.crc = Crc(img[write], req.rec.len)
    BY <2>1 DEF IInv, RequestOK
  <2>4. Held' = Offered
    BY <2>1, <2>2, <2>3 DEF Held, Offered, ImageOf, Slots, NoSlot
  <2>5. BootSelect(img', rec') = active'
    BY <2>1, GenStep DEF GenOK, FreshMeansInstalled
  <2>6. Launches' = Held'
    BY <2>1, <2>5 DEF Launches, Held, ImageOf
  <2>7. Offered # <<>>
    <3>1. 1 \in DOMAIN req.rec.crc
      BY <2>3, DecisionAssumption DEF DecisionAssumption, Crc
    <3> QED BY <2>1, <3>1 DEF Offered
  <2>8. Offered' = <<>>
    BY <2>1 DEF Offered, NoReq
  <2> QED BY <2>4, <2>6, <2>7, <2>8 DEF AB!Next, AB!Install, Launches, Held, Offered
<1>12. CASE RecErase
  <2>1. /\ mode = "core" /\ mode' = "core" /\ active' = active /\ req' = req
        /\ img' = img /\ rec' = [rec EXCEPT ![write] = Blank]
    BY <1>12 DEF RecErase, FlashChanges, IInv, PcOK, life, slots
  <2>2. rec'[write].st # "sealed"
    BY <2>1 DEF IInv, TypeOK, Blank
  <2>3. BootSelect(img', rec') = active
    BY <2>1, <2>2, OnlyWriteSlot, LaunchesActive
  <2>4. Launches' = Held' /\ Held' = Held
    BY <2>1, <2>3, HeldKept DEF Launches, Held, ImageOf
  <2>5. Offered' = Offered
    BY <2>1 DEF Offered
  <2> QED BY <1>2, <2>4, <2>5
<1>13. CASE Disarm \/ EraseBlock \/ Program \/ MutationFails
  <2>1. /\ mode = "core" /\ mode' = "core" /\ active' = active /\ req.cmd \in {"ERASE", "WRITE"}
    BY <1>13 DEF Disarm, EraseBlock, Program, MutationFails, IInv, PcOK, life, slots
  <2>2. req'.cmd # "COMMIT"
    <3>1. CASE EraseBlock
      <4>1. req \in [cmd : {"ERASE"}, slot : Slots, at : Blocks, end : 0..SlotWords]
        BY <3>1 DEF EraseBlock, IInv, PcOK, TypeOK, Requests, NoReq
      <4>2. req' = NoReq \/ req' = [req EXCEPT !.at = @ + BlockSize]
        BY <3>1 DEF EraseBlock, Return
      <4> QED BY <4>1, <4>2 DEF NoReq
    <3>2. CASE Disarm \/ Program \/ MutationFails
      BY <2>1, <3>2 DEF Disarm, Program, MutationFails, Return, NoReq
    <3> QED BY <1>13, <3>1, <3>2
  <2>3. img' \in ImgResidues /\ rec' \in RecResidues
    <3>1. CASE EraseBlock \/ Program
      BY <3>1, EraseIsResidue, ProgramIsResidue
    <3>2. CASE Disarm \/ MutationFails
      BY <3>2 DEF Disarm, MutationFails, FlashChanges, ImgResidues, RecResidues
    <3> QED BY <1>13, <3>1, <3>2
  <2>4. Offered = <<>> /\ Offered' = <<>>
    BY <2>1, <2>2 DEF Offered
  <2>5. Launches' \in {Launches, Held}
    BY <2>1, <2>3, <2>4, LaunchesAfter DEF Launches
  <2>6. Held' = Held
    BY <2>1, HeldKept
  <2> QED BY <1>1, <1>2, <2>4, <2>5, <2>6
<1>14. CASE RecStoreFails
  <2>1. /\ mode = "core" /\ mode' = "core" /\ active' = active /\ req.cmd = "COMMIT" /\ req' = NoReq
        /\ pc \notin {"erase", "program"} /\ img' = img /\ rec' \in RecResidues
    BY <1>14 DEF RecStoreFails, FlashChanges, Return, IInv, PcOK, life, slots
  <2>2. img' \in ImgResidues
    BY <2>1 DEF ImgResidues
  <2>3. Launches' \in {Launches, Held} \/ (Offered # <<>> /\ Launches' = Offered)
    BY <2>1, <2>2, LaunchesAfter DEF Launches
  <2>4. Held' = Held
    BY <2>1, HeldKept
  <2>5. Offered # <<>>
    <3>1. 1 \in DOMAIN req.rec.crc
      BY <2>1, DecisionAssumption DEF DecisionAssumption, IInv, RequestOK, Crc
    <3> QED BY <2>1, <3>1 DEF Offered
  <2>6. Offered' = <<>>
    BY <2>1 DEF Offered, NoReq
  <2> QED BY <1>4, <2>3, <2>4, <2>5, <2>6
<1>15. CASE BootApp \/ BootStay \/ PowerCut \/ IdleBoot \/ (\E magic \in BOOLEAN : AppResets(magic))
  <2>1. mode' # "core" /\ req' = NoReq
    BY <1>15 DEF BootApp, BootStay, PowerCut, IdleBoot, AppResets, Reset, ClearRam
  <2>2. Held' = Launches' /\ Offered' = <<>>
    BY <2>1 DEF Held, Launches, Offered, NoReq
  <2>3. CASE pc = "idle"
    BY <1>3, <2>2, <2>3, OnlyWriteSlot DEF Launches, ImageOf
  <2>4. CASE pc # "idle"
    <3>1. mode = "core"
      BY <2>4 DEF IInv, PcOK
    <3>2. img' \in ImgResidues /\ rec' \in RecResidues
      BY <1>15, <2>4, <3>1 DEF BootApp, BootStay, PowerCut, IdleBoot, AppResets, Reset, Ready, Idle
    <3> QED BY <1>3, <2>2, <3>1, <3>2, LaunchesAfter DEF Launches
  <2> QED BY <2>3, <2>4
<1>16. CASE UNCHANGED vars
  <2>1. Stutter
    BY <1>16 DEF vars, flash, life, slots, Launches, Held, Offered, ImageOf
  <2> QED BY <1>1, <2>1
<1> HIDE DEF Stutter
<1> QED BY Actions, <1>1, <1>5, <1>6, <1>8, <1>9, <1>10, <1>11, <1>12, <1>13, <1>14, <1>15, <1>16
        DEF AB!Next

\* A device from the factory is an initial state of ABUpdate.
LEMMA RefinesInit == Init => AB!Init /\ HeldOK
<1> SUFFICES ASSUME Init PROVE AB!Init /\ HeldOK
  OBVIOUS
<1>1. PICK image \in Image, len \in 1..SlotWords, blessed \in BOOLEAN :
        /\ img = Pair(image, [w \in 1..SlotWords |-> ErasedWord])
        /\ rec = Pair(IF blessed THEN Sealed(1, len, Crc(image, len)) ELSE Blank, Blank)
  BY DEF Init
<1>2. mode = "reset" /\ req = NoReq
  BY DEF Init
<1>3. img[0] = image /\ rec[1] = Blank
      /\ rec[0] = IF blessed THEN Sealed(1, len, Crc(image, len)) ELSE Blank
  BY <1>1 DEF Pair, Slots
<1>4. Bootable(img, rec) \subseteq {0} /\ (Bootable(img, rec) # {} => blessed)
  BY <1>3 DEF Bootable, AppValid, RecordLoads, Blank, Slots
<1>5. BootSelect(img, rec) = NoSlot \/ (BootSelect(img, rec) = 0 /\ blessed)
  BY <1>4, SelectSound
<1>6. ImageOf(BootSelect(img, rec)) \in (UNION {[1..n -> Word] : n \in 1..SlotWords}) \union {<<>>}
  <2>1. CASE BootSelect(img, rec) = NoSlot
    BY <2>1 DEF ImageOf
  <2>2. CASE BootSelect(img, rec) = 0 /\ blessed
    <3>1. ImageOf(0) = Crc(image, len)
      BY <1>3, <2>2 DEF ImageOf, NoSlot, Sealed
    <3>2. Crc(image, len) \in [1..len -> Word]
      BY DecisionAssumption DEF DecisionAssumption, Crc, Image
    <3> QED BY <2>2, <3>1, <3>2
  <2> QED BY <1>5, <2>1, <2>2
<1>7. AB!Init
  BY <1>2, <1>6 DEF AB!Init, NoReq
<1> QED BY <1>2, <1>7 DEF HeldOK

\* docs/AB-UPDATE.md: the engine, with its partial flash operations, its power
\* cuts and its stale XIP, implements the promise of A/B update.
THEOREM Refines ==
  ASSUME ~BlankFirstWord
  PROVE  Spec => ABSpec
<1>1. Init => AB!Init /\ HeldOK
  BY RefinesInit
<1>2. IInv /\ HeldOK /\ [Next]_vars => HeldOK'
  BY HeldStep
<1>3. IInv /\ GenOK /\ HeldOK /\ [Next]_vars => [AB!Next]_(AB!vars)
  BY RefinesStep
<1> QED BY <1>1, <1>2, <1>3, Inductive, GenInductive, PTL DEF Spec, ABSpec, AB!Spec
=============================================================================
