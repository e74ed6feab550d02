------------------------------ MODULE HostWire ------------------------------
(***************************************************************************)
(* What travels between the tool and the device (proto/mod.rs,             *)
(* proto/device_info.rs, transport/hid.rs): frames byte by byte, and the   *)
(* description a device gives of itself.  A byte is a number below         *)
(* ByteRange; the CRC takes one byte of a frame instead of four.           *)
(***************************************************************************)
EXTENDS Naturals, Sequences, SequencesExt

CONSTANTS
  None,          \* no value
  Refused,       \* what is not accepted
  ByteRange,     \* 256
  MaxPayload,    \* OB_MAX_PAYLOAD
  MaxWriteData,  \* OB_MAX_WRITE_DATA
  Align,         \* 4: the unit of flash writes, in bytes
  ProtoMajor     \* OB_PROTO_MAJOR

ASSUME WireAssumption ==
  /\ ByteRange \in Nat \ {0, 1} /\ MaxPayload \in Nat /\ MaxPayload < ByteRange
  /\ MaxWriteData \in Nat /\ Align \in Nat \ {0} /\ ProtoMajor \in Nat

HdrLen   == 4
CrcLen   == 1
Overhead == HdrLen + CrcLen
MaxFrame == Overhead + MaxPayload

\* crc32fast, external: like CRC-32 it tells any two inputs apart that differ
\* in one place.
Crc32(cells) == FoldLeft(LAMBDA h, x : (h * 211 + x + 1) % 8191, 1, cells)

-----------------------------------------------------------------------------
\* encode: flags are always 0
EncodeFrame(f) ==
  LET body == <<f.cmd, f.seq, Len(f.payload), 0>> \o f.payload
  IN  Append(body, Crc32(body) % ByteRange)

\* decode: one frame from the start of the buffer, whatever follows it
DecodeFrame(buf) ==
  LET end == HdrLen + buf[3] IN
  IF /\ Len(buf) >= Overhead
     /\ buf[3] <= MaxPayload
     /\ Len(buf) >= Overhead + buf[3]
     /\ buf[4] = 0
     /\ buf[end + 1] = Crc32(SubSeq(buf, 1, end)) % ByteRange
  THEN [cmd |-> buf[1], seq |-> buf[2], payload |-> SubSeq(buf, HdrLen + 1, end)]
  ELSE Refused

\* One frame per report, padded with zeros; it is read back at full length.
HidReport(frame) == [i \in 1..MaxFrame |-> IF i \in DOMAIN frame THEN frame[i] ELSE 0]

-----------------------------------------------------------------------------
\* DeviceInfo::parse: the description is complete, and coherent enough for the
\* flows to compute with.  A capacity of zero is the truth about a slot that
\* does not fit the silicon.
InfoParses(info) ==
  /\ ~info.short
  /\ info.app_start < info.app_end
  /\ info.erase_block > 0 /\ info.write_align > 0
  /\ info.max_write_data > 0 /\ info.max_write_data % Align = 0
  /\ info.max_write_data <= MaxWriteData
  /\ info.slot_count > 0 /\ info.write_slot < info.slot_count
  /\ info.active_slot # None => info.active_slot < info.slot_count
  /\ info.write_base >= info.app_start
  /\ info.write_base + info.write_capacity <= info.app_end

\* hello: the client speaks one major version.
HelloAccepted(info) == InfoParses(info) /\ info.proto_major = ProtoMajor
=============================================================================
