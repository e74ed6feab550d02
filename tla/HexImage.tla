------------------------------ MODULE HexImage ------------------------------
(***************************************************************************)
(* Intel HEX files and flat binaries (hex.rs, image.rs).                   *)
(*                                                                         *)
(* A line of text is a record: whether it starts with a colon, whether it  *)
(* is ASCII, the bytes its pairs of characters stand for, and whether a    *)
(* single character is left over.  NotHex stands for a pair that is none.  *)
(* Which of several things wrong with a line is reported is left out.      *)
(***************************************************************************)
EXTENDS HostWire

CONSTANTS
  SegUnit,       \* 16: what one step of an extended segment address is worth
  LinUnit,       \* 2^16: likewise for an extended linear address
  AddrSpace,     \* 2^32
  MaxImageSpan,  \* MAX_IMAGE_SPAN
  AppBase,       \* OB_APP_BASE
  Erased         \* 0xFF

ASSUME HexAssumption ==
  /\ SegUnit \in Nat \ {0} /\ LinUnit \in Nat \ {0} /\ AddrSpace \in Nat
  /\ MaxImageSpan \in Nat /\ AppBase \in Nat /\ Erased \in 0..ByteRange - 1

NotHex == ByteRange
Blank  == [colon |-> FALSE, ascii |-> TRUE, bytes |-> <<>>, half |-> FALSE]

-----------------------------------------------------------------------------
(* Lines *)

IsHex(bytes) == \A i \in DOMAIN bytes : bytes[i] < ByteRange
SumsToZero(bytes) == FoldLeft(LAMBDA s, b : (s + b) % ByteRange, 0, bytes) = 0

\* Fault: what follows the checksum is ignored.
ExactLength_OrMore(l) == Len(l.bytes) >= l.bytes[1] + 5
\* neither truncated, nor without its checksum, nor with another record glued on
ExactLength(l) == Len(l.bytes) = l.bytes[1] + 5 /\ ~l.half

WellFormed(l) ==
  /\ l.colon /\ l.ascii
  /\ Len(l.bytes) >= 5 /\ IsHex(SubSeq(l.bytes, 1, 4))
  /\ ExactLength(l)
  /\ LET checked == SubSeq(l.bytes, 1, l.bytes[1] + 5) IN IsHex(checked) /\ SumsToZero(checked)

\* parse_line.  Types 2 and 4 carry two bytes; an EOF record carries nothing.
ParseLine(l) ==
  LET n    == l.bytes[1]
      addr == l.bytes[2] * ByteRange + l.bytes[3]
      type == l.bytes[4]
      data == SubSeq(l.bytes, 5, 4 + n)
      value == data[1] * ByteRange + data[2]
  IN
  IF ~WellFormed(l) THEN Refused
  ELSE CASE type = 0 -> [type |-> "data", offset |-> addr, bytes |-> data]
         [] type = 1 -> IF n = 0 /\ addr = 0 THEN [type |-> "eof"] ELSE Refused
         [] type = 2 -> IF n = 2 THEN [type |-> "base", base |-> value * SegUnit] ELSE Refused
         [] type = 4 -> IF n = 2 THEN [type |-> "base", base |-> value * LinUnit] ELSE Refused
         [] OTHER    -> [type |-> "ignored"]

-----------------------------------------------------------------------------
(* Files *)

Accumulator ==
  [ok |-> TRUE, base |-> 0, records |-> <<>>, min |-> None, max |-> 0, saw_eof |-> FALSE]

Spoilt(acc) == [acc EXCEPT !.ok = FALSE]

\* Accumulator::feed
Feed(acc, rec) ==
  CASE rec.type = "data" ->
         LET full == acc.base + rec.offset
             end  == full + Len(rec.bytes)
         IN IF end > AddrSpace THEN Spoilt(acc)
            ELSE [acc EXCEPT !.records = Append(@, [at |-> full, bytes |-> rec.bytes]),
                             !.min = IF @ = None \/ full < @ THEN full ELSE @,
                             !.max = IF end > @ THEN end ELSE @]
    [] rec.type = "base"    -> [acc EXCEPT !.base = rec.base]
    [] rec.type = "eof"     -> [acc EXCEPT !.saw_eof = TRUE]
    [] rec.type = "ignored" -> acc

\* Blank lines are skipped; nothing else may follow the EOF record.
FeedLine(acc, l) ==
  IF ~acc.ok \/ l = Blank THEN acc
  ELSE IF acc.saw_eof \/ ParseLine(l) = Refused THEN Spoilt(acc)
  ELSE Feed(acc, ParseLine(l))

\* Fault: the bytes of a later record replace those of an earlier one.
Overlaps_Never(used, cells) == FALSE
Overlaps(used, cells) == used \cap cells # {}

\* One record goes into the image, which starts at `min'.
Place(img, r) ==
  LET from  == r.at - img.base
      cells == from + 1..from + Len(r.bytes)
  IN [img EXCEPT !.ok = @ /\ ~Overlaps(img.used, cells),
                 !.used = @ \union cells,
                 !.bytes = [i \in DOMAIN @ |-> IF i \in cells THEN r.bytes[i - from] ELSE @[i]]]

\* Accumulator::finish: what no record covers is 0xFF.
Finish(acc) ==
  IF ~acc.ok \/ ~acc.saw_eof THEN Refused
  ELSE IF acc.min = None THEN [base |-> 0, bytes |-> <<>>]
  ELSE IF acc.max - acc.min > MaxImageSpan THEN Refused
  ELSE LET img == FoldLeft(Place,
                    [ok |-> TRUE, base |-> acc.min, used |-> {},
                     bytes |-> [i \in 1..acc.max - acc.min |-> Erased]], acc.records)
       IN IF img.ok THEN [base |-> img.base, bytes |-> img.bytes] ELSE Refused

ParseIntelHex(lines) == Finish(FoldLeft(FeedLine, Accumulator, lines))

\* pad4
Padded(bytes) ==
  bytes \o [i \in 1..(Align - (Len(bytes) % Align)) % Align |-> Erased]

\* load_image: a .hex file sets the base itself.
LoadImage(file, base) ==
  LET img == IF file.ext = "hex"
             THEN IF base # None THEN Refused ELSE ParseIntelHex(file.lines)
             ELSE [base |-> IF base = None THEN AppBase ELSE base, bytes |-> file.raw]
  IN IF img = Refused \/ img.bytes = <<>> THEN Refused
     ELSE [base |-> img.base, bytes |-> Padded(img.bytes)]

-----------------------------------------------------------------------------
(* What a file means, by the format *)

\* The base in force at line i: of the last extended address record before it.
BaseAt(lines, i) ==
  LET bases == {j \in 1..i - 1 : lines[j] # Blank /\ ParseLine(lines[j]).type = "base"}
  IN IF bases = {} THEN 0
     ELSE ParseLine(lines[CHOOSE j \in bases : \A k \in bases : k <= j]).base

\* Line i puts its k-th byte at this address.
DataLines(lines) == {i \in DOMAIN lines : lines[i] # Blank /\ ParseLine(lines[i]).type = "data"}
Address(lines, i, k) == BaseAt(lines, i) + ParseLine(lines[i]).offset + k - 1
DataOf(lines) ==
  UNION {{[line |-> i, at |-> Address(lines, i, k), byte |-> ParseLine(lines[i]).bytes[k]] :
            k \in DOMAIN ParseLine(lines[i]).bytes} : i \in DataLines(lines)}
=============================================================================
