--------------------------- MODULE HostToolProofs ---------------------------
(***************************************************************************)
(* Proofs about the two ends of the host side: the serial line and the     *)
(* command line, for every value of their constants.                       *)
(*                                                                         *)
(* The line: outside HUNT1 the device's count of empty polls is the tool's *)
(* time since the last byte, so that both give a frame up in the same      *)
(* tick, and the place of each in a frame is what it has collected; while  *)
(* a frame goes out after silence that is a prefix of it.                  *)
(*                                                                         *)
(* The command line: how far a run is determines what is known of the file *)
(* and the device, and every request still to be made fits the device      *)
(* already when it is planned.                                             *)
(***************************************************************************)
EXTENDS HostCli, SofLine, TLAPS, FiniteSetTheorems

-----------------------------------------------------------------------------
(* The serial line *)

Bytes == 0..ByteRange - 1

\* How much of a frame is needed, as far as it is known
NeedOf(buf) == IF Len(buf) < HdrLen THEN HdrLen ELSE Overhead + buf[3]

\* What becomes of the bytes collected so far: the length is not believed, the
\* frame is complete, or there is more to come.
Rejected(buf) == Len(buf) = HdrLen /\ buf[3] > MaxPayload
Whole(buf)    == Len(buf) > HdrLen /\ Len(buf) = Overhead + buf[3]
InFrame(buf)  == [st |-> "COLLECT", buf |-> buf, need |-> NeedOf(buf), idle |-> 0, got |-> <<>>]
HostInFrame(buf) ==
  [phase |-> IF Len(buf) < HdrLen THEN "header" ELSE "body", armed |-> FALSE, buf |-> buf, got |-> <<>>]

Devs ==
  [st : {"HUNT1", "HUNT2", "COLLECT"}, buf : Seq(Bytes), need : Nat, idle : Nat, got : Seq(Bytes)]
Tools ==
  [phase : {"hunt", "header", "body"}, armed : BOOLEAN, buf : Seq(Bytes), got : Seq(Bytes)]

ParserTypes ==
  /\ dev \in Devs /\ host \in Tools
  /\ quiet \in 0..InterByte /\ inStep \in BOOLEAN

\* The device counts the silence, and collects no more than it needs.
DevPlace ==
  /\ dev.st # "HUNT1" => dev.idle = quiet /\ quiet < InterByte /\ dev.got = <<>>
  /\ dev.st # "COLLECT" => dev.buf = <<>> /\ dev.need = HdrLen
  /\ dev.st = "COLLECT" => dev.need = NeedOf(dev.buf) /\ Len(dev.buf) < dev.need

\* The tool is where the device is.
SamePlace ==
  /\ host.buf = dev.buf /\ host.got = dev.got
  /\ host.armed <=> dev.st = "HUNT2"
  /\ host.phase = "hunt" <=> dev.st # "COLLECT"
  /\ host.phase = "header" <=> dev.st = "COLLECT" /\ Len(dev.buf) < HdrLen

\* What is sent is bytes, a frame after silence, and no pause in it is as long as
\* the deadline.
SenderOK ==
  /\ snd = [frame |-> snd.frame, out |-> snd.out, at |-> snd.at, calm |-> snd.calm, plan |-> snd.plan]
  /\ snd.out \in Seq(Bytes) /\ snd.at \in 0..Len(snd.out) /\ snd.calm \in BOOLEAN
  /\ \A i \in DOMAIN snd.plan :
       snd.plan[i].pause => ChunkDrain(snd.plan[i].len) \in Nat /\ ChunkDrain(snd.plan[i].len) < InterByte
  /\ snd.out # <<>> => snd.frame \in Frames /\ snd.out = EncodeSof(EncodeFrame(snd.frame))
  /\ snd.calm => snd.out # <<>>

\* After silence the device has collected what has gone out.
FramePlace ==
  snd.calm =>
    /\ snd.at = 0 => quiet = InterByte
    /\ snd.at = 1 => dev.st = "HUNT2"
    /\ snd.at >= 2 /\ Sending =>
         dev.st = "COLLECT" /\ dev.buf = SubSeq(EncodeFrame(snd.frame), 1, snd.at - 2)
    /\ ~Sending /\ quiet = 0 => dev.got = EncodeFrame(snd.frame)

LineInv == ParserTypes /\ DevPlace /\ (inStep => SamePlace) /\ SenderOK /\ FramePlace

-----------------------------------------------------------------------------
(* Frames *)

LEMMA Sizes ==
  /\ HdrLen = 4 /\ Overhead = 5 /\ MaxFrame = 5 + MaxPayload
  /\ ByteRange \in Nat /\ ByteRange >= 2 /\ MaxPayload \in Nat /\ MaxPayload < ByteRange
  /\ SOF1 # SOF2 /\ SOF1 \in Bytes /\ SOF2 \in Bytes /\ Noise \subseteq Bytes
  /\ InterByte \in Nat /\ InterByte >= 1 /\ Margin \in Nat /\ WriteChunk \in Nat
BY WireAssumption, LineAssumption
   DEF WireAssumption, LineAssumption, HdrLen, CrcLen, Overhead, MaxFrame, Bytes

LEMMA SameSeq ==
  ASSUME NEW s \in Seq(Bytes), NEW t \in Seq(Bytes), Len(s) = Len(t),
         \A i \in 1..Len(s) : s[i] = t[i]
  PROVE  s = t
<1>1. s \in [1..Len(s) -> Bytes] /\ t \in [1..Len(s) -> Bytes]
  OBVIOUS
<1> QED BY <1>1

LEMMA Part ==
  ASSUME NEW s \in Seq(Bytes), NEW a \in Nat, NEW b \in Nat, 1 <= a, a <= b + 1, b <= Len(s)
  PROVE  /\ SubSeq(s, a, b) \in Seq(Bytes) /\ Len(SubSeq(s, a, b)) = b + 1 - a
         /\ \A i \in 1..b + 1 - a : SubSeq(s, a, b)[i] = s[a + i - 1]
OBVIOUS

LEMMA Longer ==
  ASSUME NEW s \in Seq(Bytes), NEW k \in 1..Len(s)
  PROVE  Append(SubSeq(s, 1, k - 1), s[k]) = SubSeq(s, 1, k)
<1> DEFINE t == Append(SubSeq(s, 1, k - 1), s[k])
           u == SubSeq(s, 1, k)
<1>1. /\ SubSeq(s, 1, k - 1) \in Seq(Bytes) /\ Len(SubSeq(s, 1, k - 1)) = k - 1
      /\ \A i \in 1..k - 1 : SubSeq(s, 1, k - 1)[i] = s[i]
  OBVIOUS
<1>2. u \in Seq(Bytes) /\ Len(u) = k /\ \A i \in 1..k : u[i] = s[i]
  BY Part
<1>3. t \in Seq(Bytes) /\ Len(t) = k /\ \A i \in 1..k : t[i] = s[i]
  BY <1>1
<1> HIDE DEF t, u
<1>4. t = u
  BY <1>2, <1>3, SameSeq
<1> QED BY <1>4 DEF t, u

\* What encode makes of a frame, place by place.
LEMMA Encoded ==
  ASSUME NEW f \in Frames
  PROVE  LET out == EncodeFrame(f) IN
         LET n == Len(f.payload) IN
         LET crc == Crc32(<<f.cmd, f.seq, n, 0>> \o f.payload) % ByteRange IN
         /\ out \in Seq(Bytes) /\ n \in Nat /\ n <= MaxPayload
         /\ Len(out) = Overhead + n /\ out[3] = n
         /\ out[1] = f.cmd /\ out[2] = f.seq /\ out[4] = 0
         /\ \A i \in 1..n : out[HdrLen + i] = f.payload[i]
         /\ out[HdrLen + n + 1] = crc
         /\ SubSeq(out, 1, HdrLen + n) = <<f.cmd, f.seq, n, 0>> \o f.payload
         /\ f = [cmd |-> f.cmd, seq |-> f.seq, payload |-> f.payload]
<1> DEFINE n == Len(f.payload)
           head == <<f.cmd, f.seq, n, 0>>
           body == head \o f.payload
           crc == Crc32(body) % ByteRange
           out == EncodeFrame(f)
<1>1. /\ f.cmd \in Bytes /\ f.seq \in Bytes /\ f.payload \in Seq(Bytes) /\ n \in Nat /\ n <= MaxPayload
      /\ f = [cmd |-> f.cmd, seq |-> f.seq, payload |-> f.payload] /\ out \in Seq(Bytes)
  BY SenderAssumption DEF SenderAssumption, Bytes
<1>2. head \in Seq(Bytes) /\ Len(head) = 4
  BY SMTT(60), <1>1, Sizes DEF Bytes
<1>3. body \in Seq(Bytes) /\ Len(body) = 4 + n
  BY <1>1, <1>2
<1>4. /\ body[1] = f.cmd /\ body[2] = f.seq /\ body[3] = n /\ body[4] = 0
      /\ \A i \in 1..n : body[4 + i] = f.payload[i]
  BY <1>1, <1>2
<1>5. out = Append(body, crc)
  BY DEF EncodeFrame
<1> HIDE DEF body, crc, out, head
<1>6. /\ Len(out) = 5 + n /\ out[5 + n] = crc
      /\ \A i \in 1..4 + n : out[i] = body[i]
  BY <1>1, <1>3, <1>5
<1>7. SubSeq(out, 1, 4 + n) = body
  <2>1. /\ SubSeq(out, 1, 4 + n) \in Seq(Bytes) /\ Len(SubSeq(out, 1, 4 + n)) = 4 + n
        /\ \A i \in 1..4 + n : SubSeq(out, 1, 4 + n)[i] = out[i]
    BY <1>1, <1>6, Part
  <2> QED BY <1>3, <1>6, <2>1, SameSeq
<1>8. \A i \in 1..n : 4 + i \in 1..4 + n
  BY <1>1
<1>9. /\ out[1] = f.cmd /\ out[2] = f.seq /\ out[3] = n /\ out[4] = 0
      /\ \A i \in 1..n : out[4 + i] = f.payload[i]
  BY SMTT(30), <1>1, <1>4, <1>6, <1>8
<1> QED BY SMTT(60), <1>1, <1>6, <1>7, <1>9, Sizes DEF body, crc, out, head

\* A buffer that begins with the frame is decoded as the frame.
LEMMA Decoded ==
  ASSUME NEW f \in Frames, NEW buf \in Seq(Bytes), Len(buf) >= Len(EncodeFrame(f)),
         \A i \in 1..Len(EncodeFrame(f)) : buf[i] = EncodeFrame(f)[i]
  PROVE  DecodeFrame(buf) = f
<1> DEFINE n == Len(f.payload)
           out == EncodeFrame(f)
           body == <<f.cmd, f.seq, n, 0>> \o f.payload
           crc == Crc32(body) % ByteRange
<1>1. /\ out \in Seq(Bytes) /\ n \in Nat /\ n <= MaxPayload
      /\ Len(out) = 5 + n /\ out[3] = n
      /\ out[1] = f.cmd /\ out[2] = f.seq /\ out[4] = 0
      /\ \A i \in 1..n : out[4 + i] = f.payload[i]
      /\ out[4 + n + 1] = crc
      /\ SubSeq(out, 1, 4 + n) = body
      /\ f = [cmd |-> f.cmd, seq |-> f.seq, payload |-> f.payload]
  BY Encoded, Sizes
<1> HIDE DEF out, body, crc
<1>2. \A i \in 1..5 + n : buf[i] = out[i]
  BY <1>1 DEF out
<1>3. Len(buf) >= 5 + n /\ Len(buf) \in Nat
  BY <1>1 DEF out
<1> HIDE DEF n
<1>4. /\ 1 \in 1..5 + n /\ 2 \in 1..5 + n /\ 3 \in 1..5 + n /\ 4 \in 1..5 + n /\ 4 + n + 1 \in 1..5 + n
      /\ \A i \in 1..n : 4 + i \in 1..5 + n
  BY <1>1
<1>5. /\ buf[1] = f.cmd /\ buf[2] = f.seq /\ buf[3] = n /\ buf[4] = 0 /\ buf[4 + n + 1] = crc
      /\ \A i \in 1..n : buf[4 + i] = f.payload[i]
  BY <1>1, <1>2, <1>4
<1>6. SubSeq(buf, 1, 4 + n) = body
  <2>1. /\ SubSeq(buf, 1, 4 + n) \in Seq(Bytes) /\ Len(SubSeq(buf, 1, 4 + n)) = 4 + n
        /\ \A i \in 1..4 + n : SubSeq(buf, 1, 4 + n)[i] = buf[i]
    BY <1>1, <1>3, Part
  <2>2. /\ SubSeq(out, 1, 4 + n) \in Seq(Bytes) /\ Len(SubSeq(out, 1, 4 + n)) = 4 + n
        /\ \A i \in 1..4 + n : SubSeq(out, 1, 4 + n)[i] = out[i]
    BY <1>1, Part
  <2>3. \A i \in 1..4 + n : i \in 1..5 + n
    BY <1>1
  <2>4. SubSeq(buf, 1, 4 + n) = SubSeq(out, 1, 4 + n)
    BY <1>2, <2>1, <2>2, <2>3, SameSeq
  <2> QED BY <1>1, <2>4
<1>7. SubSeq(buf, 5, 4 + n) = f.payload
  <2>1. f.payload \in Seq(Bytes) /\ Len(f.payload) = n
    BY SenderAssumption DEF SenderAssumption, Bytes, n
  <2>2. /\ SubSeq(buf, 5, 4 + n) \in Seq(Bytes) /\ Len(SubSeq(buf, 5, 4 + n)) = n
        /\ \A i \in 1..n : SubSeq(buf, 5, 4 + n)[i] = buf[4 + i]
    <3>1. 4 + n + 1 - 5 = n /\ \A i \in 1..n : 5 + i - 1 = 4 + i
      BY <1>1
    <3>2. 5 <= 4 + n + 1 /\ 4 + n <= Len(buf) /\ 4 + n \in Nat
      BY <1>1, <1>3
    <3> QED BY <3>1, <3>2, Part
  <2> QED BY <1>5, <2>1, <2>2, SameSeq
<1>8. DecodeFrame(buf) = [cmd |-> f.cmd, seq |-> f.seq, payload |-> f.payload]
  <2>1. HdrLen + buf[3] = 4 + n /\ HdrLen + 1 = 5 /\ Overhead + buf[3] = 5 + n
    BY <1>1, <1>5, Sizes
  <2>2. /\ Len(buf) >= Overhead /\ buf[3] <= MaxPayload /\ Len(buf) >= 5 + n
    BY <1>1, <1>3, <1>5, Sizes
  <2>3. buf[4 + n + 1] = Crc32(SubSeq(buf, 1, 4 + n)) % ByteRange
    BY <1>5, <1>6 DEF crc
  <2> QED BY <1>5, <1>7, <2>1, <2>2, <2>3 DEF DecodeFrame
<1> QED BY <1>1, <1>8

\* It is so in a HID report.
LEMMA InReport ==
  ASSUME NEW f \in Frames
  PROVE  DecodeFrame(EncodeFrame(f)) = f /\ DecodeFrame(HidReport(EncodeFrame(f))) = f
<1> DEFINE out == EncodeFrame(f)
           rep == HidReport(out)
<1>1. out \in Seq(Bytes) /\ Len(out) \in Nat /\ Len(out) <= MaxFrame
  <2>1. out \in Seq(Bytes) /\ Len(f.payload) \in Nat /\ Len(f.payload) <= MaxPayload
        /\ Len(out) = Overhead + Len(f.payload)
    BY Encoded
  <2> QED BY <2>1, Sizes
<1> HIDE DEF out
<1>2. \A i \in 1..MaxFrame : (IF i \in DOMAIN out THEN out[i] ELSE 0) \in Bytes
  BY <1>1, Sizes DEF Bytes
<1>3. rep \in [1..MaxFrame -> Bytes] /\ MaxFrame \in Nat
  BY <1>2, Sizes DEF HidReport
<1>4. rep \in Seq(Bytes) /\ Len(rep) = MaxFrame
  BY <1>3
<1>5. \A i \in 1..Len(out) : rep[i] = out[i]
  BY <1>1, Sizes DEF HidReport
<1> HIDE DEF rep
<1>6. DecodeFrame(rep) = f
  BY <1>1, <1>4, <1>5, Decoded DEF out
<1>7. DecodeFrame(out) = f
  BY <1>1, Decoded DEF out
<1> QED BY <1>6, <1>7 DEF out, rep

-----------------------------------------------------------------------------
(* The two parsers *)

LEMMA Kept ==
  ASSUME NEW buf \in Seq(Bytes), NEW b \in Bytes
  PROVE  /\ Append(buf, b) \in Seq(Bytes) /\ Len(buf) \in Nat /\ Len(Append(buf, b)) = Len(buf) + 1
         /\ Len(buf) >= 3 => Append(buf, b)[3] = buf[3]
         /\ Len(buf) >= 2 => Append(buf, b)[3] \in Nat
         /\ NeedOf(Append(buf, b)) \in Nat
<1>1. /\ Append(buf, b) \in Seq(Bytes) /\ Len(buf) \in Nat /\ Len(Append(buf, b)) = Len(buf) + 1
      /\ Len(buf) >= 3 => Append(buf, b)[3] = buf[3]
  OBVIOUS
<1>2. Len(buf) >= 2 => Append(buf, b)[3] \in Bytes
  BY <1>1
<1>3. \A x \in Bytes : x \in Nat
  BY Sizes DEF Bytes
<1> QED BY <1>1, <1>2, <1>3, Sizes DEF NeedOf

\* A byte within a frame, at the device: what is needed is known from the header
\* on, and a length that no frame has is not believed.
LEMMA Collected ==
  ASSUME ParserTypes, DevPlace, dev.st = "COLLECT", NEW b \in Bytes,
         NEW buf, buf = Append(dev.buf, b)
  PROVE  \/ Rejected(buf) /\ DevCollect(b) = DevIdle
         \/ ~Rejected(buf) /\ Whole(buf) /\ DevCollect(b) = [DevIdle EXCEPT !.got = buf]
         \/ /\ ~Rejected(buf) /\ ~Whole(buf) /\ DevCollect(b) = InFrame(buf)
            /\ Len(buf) < NeedOf(buf)
<1>1. dev.buf \in Seq(Bytes) /\ dev.need = NeedOf(dev.buf) /\ Len(dev.buf) < dev.need
  BY DEF ParserTypes, DevPlace, Devs
<1>2. /\ Len(dev.buf) \in Nat /\ Len(buf) = Len(dev.buf) + 1
      /\ Len(dev.buf) >= 3 => buf[3] = dev.buf[3]
      /\ Len(dev.buf) >= 2 => buf[3] \in Nat
  BY <1>1, Kept
<1>3. CASE Len(buf) < HdrLen
  <2>1. /\ dev.need = 4 /\ Len(buf) < 4 /\ Len(buf) # 4 /\ NeedOf(buf) = 4
        /\ ~Rejected(buf) /\ ~Whole(buf)
    BY <1>1, <1>2, <1>3, Sizes DEF NeedOf, Rejected, Whole
  <2>2. DevCollect(b) = [DevIdle EXCEPT !.st = "COLLECT", !.buf = buf, !.need = 4]
    BY <1>2, <2>1, Sizes DEF DevCollect
  <2>3. DevCollect(b) = InFrame(buf)
    BY <2>1, <2>2 DEF DevIdle, InFrame
  <2> QED BY <2>1, <2>3
<1>4. CASE Rejected(buf)
  <2>1. Len(buf) = 4 /\ dev.need = 4 /\ buf[3] > MaxPayload
    BY <1>1, <1>2, <1>4, Sizes DEF NeedOf, Rejected
  <2>2. DevCollect(b) = DevIdle
    BY <2>1, Sizes DEF DevCollect
  <2> QED BY <1>4, <2>2
<1>5. CASE Len(buf) = HdrLen /\ ~Rejected(buf)
  <2>1. /\ Len(buf) = 4 /\ dev.need = 4 /\ ~(buf[3] > MaxPayload) /\ buf[3] \in Nat
        /\ ~Whole(buf) /\ NeedOf(buf) = 5 + buf[3] /\ Len(buf) # 5 + buf[3]
    BY <1>1, <1>2, <1>5, Sizes DEF NeedOf, Rejected, Whole
  <2>2. DevCollect(b) = [DevIdle EXCEPT !.st = "COLLECT", !.buf = buf, !.need = 5 + buf[3]]
    BY <2>1, Sizes DEF DevCollect
  <2>3. DevCollect(b) = InFrame(buf)
    BY <2>1, <2>2 DEF DevIdle, InFrame
  <2> QED BY <1>5, <2>1, <2>3
<1>6. CASE Len(buf) > HdrLen
  <2>1. /\ Len(buf) > 4 /\ Len(buf) # 4 /\ buf[3] = dev.buf[3] /\ buf[3] \in Nat
        /\ dev.need = 5 + buf[3] /\ NeedOf(buf) = 5 + buf[3] /\ Len(buf) <= 5 + buf[3]
        /\ ~Rejected(buf) /\ (Whole(buf) <=> Len(buf) = 5 + buf[3])
    BY <1>1, <1>2, <1>6, Sizes DEF NeedOf, Rejected, Whole
  <2>2. CASE Whole(buf)
    <3>1. DevCollect(b) = [DevIdle EXCEPT !.got = buf]
      BY <2>1, <2>2, Sizes DEF DevCollect
    <3> QED BY <2>1, <2>2, <3>1
  <2>3. CASE ~Whole(buf)
    <3>1. DevCollect(b) = [DevIdle EXCEPT !.st = "COLLECT", !.buf = buf, !.need = dev.need]
      BY <2>1, <2>3, Sizes DEF DevCollect
    <3>2. DevCollect(b) = InFrame(buf)
      BY <2>1, <3>1 DEF DevIdle, InFrame
    <3>3. Len(buf) < NeedOf(buf)
      BY <1>2, <2>1, <2>3
    <3> QED BY <2>1, <2>3, <3>2, <3>3
  <2> QED BY <2>2, <2>3
<1>7. Len(buf) < HdrLen \/ Len(buf) = HdrLen \/ Len(buf) > HdrLen
  BY <1>2, Sizes
<1> QED BY <1>3, <1>4, <1>5, <1>6, <1>7

\* The tool, in the same place, does the same.
LEMMA HostCollected ==
  ASSUME ParserTypes, SamePlace, dev.st = "COLLECT", NEW b \in Bytes,
         NEW buf, buf = Append(dev.buf, b)
  PROVE  /\ Rejected(buf) => HostByte(b) = HostIdle
         /\ ~Rejected(buf) /\ Whole(buf) => HostByte(b) = [HostIdle EXCEPT !.got = buf]
         /\ ~Rejected(buf) /\ Len(buf) < NeedOf(buf) => HostByte(b) = HostInFrame(buf)
<1>1. dev.buf \in Seq(Bytes) /\ host.buf = dev.buf /\ host.phase \in {"header", "body"}
      /\ (host.phase = "header" <=> Len(dev.buf) < HdrLen)
  BY DEF ParserTypes, SamePlace, Devs, Tools
<1>2. /\ Len(dev.buf) \in Nat /\ Len(buf) = Len(dev.buf) + 1
      /\ Len(dev.buf) >= 2 => buf[3] \in Nat
  BY <1>1, Kept
<1>3. CASE Len(buf) < HdrLen
  <2>1. host.phase = "header" /\ ~Rejected(buf) /\ ~Whole(buf)
    BY <1>1, <1>2, <1>3, Sizes DEF Rejected, Whole
  <2>2. HostByte(b) = [HostIdle EXCEPT !.phase = "header", !.buf = buf]
    BY <1>1, <1>3, <2>1 DEF HostByte
  <2>3. HostByte(b) = HostInFrame(buf)
    BY <1>3, <2>2 DEF HostIdle, HostInFrame
  <2> QED BY <2>1, <2>3
<1>4. CASE Len(buf) = HdrLen
  <2>1. host.phase = "header" /\ ~(Len(buf) < HdrLen) /\ ~Whole(buf)
    BY <1>1, <1>2, <1>4, Sizes DEF Whole
  <2>2. CASE Rejected(buf)
    <3>1. HostByte(b) = HostIdle
      BY <1>1, <2>1, <2>2 DEF HostByte, Rejected
    <3> QED BY <2>1, <2>2, <3>1
  <2>3. CASE ~Rejected(buf)
    <3>1. HostByte(b) = [HostIdle EXCEPT !.phase = "body", !.buf = buf]
      BY <1>1, <1>4, <2>1, <2>3 DEF HostByte, Rejected
    <3>2. HostByte(b) = HostInFrame(buf)
      BY <2>1, <3>1 DEF HostIdle, HostInFrame
    <3> QED BY <2>1, <2>3, <3>2
  <2> QED BY <2>2, <2>3
<1>5. CASE Len(buf) > HdrLen
  <2>1. /\ host.phase = "body" /\ ~(Len(buf) < HdrLen) /\ ~Rejected(buf)
        /\ NeedOf(buf) = Overhead + buf[3] /\ NeedOf(buf) \in Nat
        /\ Whole(buf) => ~(Len(buf) < Overhead + buf[3])
    BY <1>1, <1>2, <1>5, Sizes DEF Rejected, NeedOf, Whole
  <2>2. CASE Whole(buf)
    <3>1. HostByte(b) = [HostIdle EXCEPT !.got = buf]
      BY <1>1, <2>1, <2>2 DEF HostByte
    <3> QED BY <2>1, <2>2, <3>1
  <2>3. CASE Len(buf) < NeedOf(buf)
    <3>1. HostByte(b) = [HostIdle EXCEPT !.phase = "body", !.buf = buf]
      BY <1>1, <2>1, <2>3 DEF HostByte
    <3>2. HostByte(b) = HostInFrame(buf)
      BY <2>1, <3>1 DEF HostIdle, HostInFrame
    <3> QED BY <2>1, <2>3, <3>2
  <2> QED BY <2>1, <2>2, <2>3
<1>6. Len(buf) < HdrLen \/ Len(buf) = HdrLen \/ Len(buf) > HdrLen
  BY <1>2, Sizes
<1> QED BY <1>3, <1>4, <1>5, <1>6

\* The ways a byte can change the device.
LEMMA DevAfterByte ==
  ASSUME ParserTypes, DevPlace, NEW b \in Bytes
  PROVE  LET buf == Append(dev.buf, b) IN
         \/ DevByte(b) = DevIdle
         \/ DevByte(b) = [DevIdle EXCEPT !.st = "HUNT2"]
         \/ DevByte(b) = [DevIdle EXCEPT !.st = "COLLECT"]
         \/ DevByte(b) = [DevIdle EXCEPT !.got = buf]
         \/ DevByte(b) = InFrame(buf) /\ Len(buf) < NeedOf(buf)
<1> DEFINE buf == Append(dev.buf, b)
<1>1. dev.st \in {"HUNT1", "HUNT2", "COLLECT"}
  BY DEF ParserTypes, Devs
<1>2. [DevIdle EXCEPT !.st = "HUNT1"] = DevIdle
  BY DEF DevIdle
<1>3. CASE dev.st = "HUNT1"
  BY <1>2, <1>3 DEF DevByte
<1>4. CASE dev.st = "HUNT2"
  BY <1>2, <1>4 DEF DevByte
<1>5. CASE dev.st = "COLLECT"
  BY <1>5, Collected DEF DevByte
<1> QED BY <1>1, <1>3, <1>4, <1>5

\* Where a parser can be outside a frame
LEMMA Idle ==
  /\ DevIdle \in Devs /\ HostIdle \in Tools
  /\ DevIdle.st = "HUNT1" /\ DevIdle.buf = <<>> /\ DevIdle.need = HdrLen /\ DevIdle.idle = 0
  /\ DevIdle.got = <<>> /\ HostIdle.phase = "hunt" /\ HostIdle.buf = <<>> /\ HostIdle.got = <<>>
  /\ ~HostIdle.armed
BY Sizes DEF DevIdle, HostIdle, Devs, Tools

\* A byte leaves the device in a place of a frame.
LEMMA DevByteKeeps ==
  ASSUME ParserTypes, DevPlace, NEW b \in Bytes, Byte(b)
  PROVE  dev' \in Devs /\ quiet' = 0 /\ DevPlace'
<1> DEFINE buf == Append(dev.buf, b)
<1>1. dev' = DevByte(b) /\ quiet' = 0
  BY DEF Byte
<1>2. buf \in Seq(Bytes) /\ NeedOf(buf) \in Nat
  BY Kept DEF ParserTypes, Devs
<1> HIDE DEF buf
<1>3. CASE dev' = DevIdle
  BY <1>1, <1>3, Idle DEF DevPlace
<1>4. CASE dev' = [DevIdle EXCEPT !.st = "HUNT2"]
  <2>1. /\ dev' \in Devs /\ dev'.st = "HUNT2" /\ dev'.buf = <<>> /\ dev'.need = HdrLen
        /\ dev'.idle = 0 /\ dev'.got = <<>>
    BY <1>4, Idle DEF Devs
  <2> QED BY <1>1, <2>1, Sizes DEF DevPlace
<1>5. CASE dev' = [DevIdle EXCEPT !.st = "COLLECT"]
  <2>1. /\ dev' \in Devs /\ dev'.st = "COLLECT" /\ dev'.buf = <<>> /\ dev'.need = HdrLen
        /\ dev'.idle = 0 /\ dev'.got = <<>>
    BY <1>5, Idle DEF Devs
  <2>2. NeedOf(<<>>) = HdrLen /\ Len(<<>>) < HdrLen
    BY Sizes DEF NeedOf
  <2> QED BY <1>1, <2>1, <2>2, Sizes DEF DevPlace
<1>6. CASE dev' = [DevIdle EXCEPT !.got = buf]
  <2>1. dev' \in Devs /\ dev'.st = "HUNT1" /\ dev'.buf = <<>> /\ dev'.need = HdrLen
    BY <1>2, <1>6, Idle DEF Devs
  <2> QED BY <1>1, <2>1 DEF DevPlace
<1>7. CASE dev' = InFrame(buf) /\ Len(buf) < NeedOf(buf)
  <2>1. /\ dev'.st = "COLLECT" /\ dev'.idle = 0 /\ dev'.got = <<>>
        /\ dev'.buf = buf /\ dev'.need = NeedOf(buf)
    BY <1>7 DEF InFrame
  <2>2. dev' \in Devs
    BY <1>2, <1>7 DEF InFrame, Devs
  <2> QED BY <1>1, <1>7, <2>1, <2>2, Sizes DEF DevPlace
<1> QED BY <1>1, <1>3, <1>4, <1>5, <1>6, <1>7, DevAfterByte DEF buf

\* A byte leaves the tool where it leaves the device.
LEMMA HostByteFollows ==
  ASSUME ParserTypes, DevPlace, NEW b \in Bytes, Byte(b)
  PROVE  host' \in Tools /\ (SamePlace => SamePlace')
<1>1. dev' = DevByte(b) /\ host' = HostByte(b)
  BY DEF Byte
<1>2. host \in Tools /\ dev.st \in {"HUNT1", "HUNT2", "COLLECT"}
  BY DEF ParserTypes, Devs
<1>3. Armed(b) \in BOOLEAN /\ (Armed(b) <=> b = SOF1)
  BY DEF Armed
<1>4. host' \in Tools
  <2>1. Append(host.buf, b) \in Seq(Bytes) /\ host.phase \in {"hunt", "header", "body"}
    BY <1>2 DEF Tools
  <2>2. /\ [HostIdle EXCEPT !.phase = "header"] \in Tools /\ [HostIdle EXCEPT !.armed = Armed(b)] \in Tools
        /\ [HostIdle EXCEPT !.phase = "header", !.buf = Append(host.buf, b)] \in Tools
        /\ [HostIdle EXCEPT !.phase = "body", !.buf = Append(host.buf, b)] \in Tools
        /\ [HostIdle EXCEPT !.got = Append(host.buf, b)] \in Tools
    BY <1>3, <2>1, Idle DEF Tools
  <2>3. CASE host.phase = "hunt"
    BY <1>1, <2>2, <2>3 DEF HostByte
  <2>4. CASE host.phase = "header"
    BY <1>1, <2>2, <2>4, Idle DEF HostByte
  <2>5. CASE host.phase = "body"
    BY <1>1, <2>2, <2>5 DEF HostByte
  <2> QED BY <2>1, <2>3, <2>4, <2>5
<1>5. ASSUME SamePlace, dev.st # "COLLECT" PROVE SamePlace'
  <2>1. host.phase = "hunt" /\ (host.armed <=> dev.st = "HUNT2")
    BY <1>5 DEF SamePlace
  <2>2. CASE b = SOF2 /\ dev.st = "HUNT2"
    <3>1. host' = [HostIdle EXCEPT !.phase = "header"]
      BY <1>1, <2>1, <2>2 DEF HostByte
    <3>2. dev' = [DevIdle EXCEPT !.st = "COLLECT"]
      BY <1>1, <2>2 DEF DevByte
    <3> QED BY <3>1, <3>2, Sizes DEF SamePlace, DevIdle, HostIdle
  <2>3. CASE ~(b = SOF2 /\ dev.st = "HUNT2")
    <3>1. host' = [HostIdle EXCEPT !.armed = Armed(b)]
      BY <1>1, <2>1, <2>3 DEF HostByte
    <3>2. dev' = [DevIdle EXCEPT !.st = IF b = SOF1 THEN "HUNT2" ELSE "HUNT1"]
      BY <1>1, <1>2, <1>5, <2>3, Sizes DEF DevByte
    <3>3. /\ host'.phase = "hunt" /\ host'.buf = <<>> /\ host'.got = <<>> /\ host'.armed = Armed(b)
      BY <3>1 DEF HostIdle
    <3>4. /\ dev'.buf = <<>> /\ dev'.got = <<>>
          /\ dev'.st = IF b = SOF1 THEN "HUNT2" ELSE "HUNT1"
      BY <3>2 DEF DevIdle
    <3> QED BY <1>3, <3>3, <3>4 DEF SamePlace
  <2> QED BY <2>2, <2>3
<1>6. ASSUME SamePlace, dev.st = "COLLECT" PROVE SamePlace'
  <2> DEFINE buf == Append(dev.buf, b)
  <2>1. dev' = DevCollect(b)
    BY <1>1, <1>6 DEF DevByte
  <2>2. \/ Rejected(buf) /\ dev' = DevIdle
        \/ ~Rejected(buf) /\ Whole(buf) /\ dev' = [DevIdle EXCEPT !.got = buf]
        \/ /\ ~Rejected(buf) /\ ~Whole(buf) /\ dev' = InFrame(buf)
           /\ Len(buf) < NeedOf(buf)
    BY <1>6, <2>1, Collected
  <2>3. /\ Rejected(buf) => host' = HostIdle
        /\ ~Rejected(buf) /\ Whole(buf) => host' = [HostIdle EXCEPT !.got = buf]
        /\ ~Rejected(buf) /\ Len(buf) < NeedOf(buf) => host' = HostInFrame(buf)
    BY <1>1, <1>6, HostCollected
  <2>4. Len(buf) \in Nat /\ NeedOf(buf) \in Nat
    BY Kept DEF ParserTypes, Devs
  <2> HIDE DEF buf
  <2>5. CASE Rejected(buf)
    <3>1. dev' = DevIdle /\ host' = HostIdle
      BY <2>2, <2>3, <2>5
    <3> QED BY <3>1 DEF SamePlace, DevIdle, HostIdle
  <2>6. CASE ~Rejected(buf) /\ dev' = [DevIdle EXCEPT !.got = buf] /\ host' = [HostIdle EXCEPT !.got = buf]
    BY <2>6 DEF SamePlace, DevIdle, HostIdle
  <2>7. CASE dev' = InFrame(buf) /\ host' = HostInFrame(buf)
    BY <2>4, <2>7, Sizes DEF SamePlace, InFrame, HostInFrame
  <2> QED BY <2>2, <2>3, <2>5, <2>6, <2>7
<1> QED BY <1>4, <1>5, <1>6

-----------------------------------------------------------------------------
(* The sender *)

\* Two bytes, and the frame
LEMMA Sent ==
  ASSUME NEW f \in Frames, NEW out, out = EncodeSof(EncodeFrame(f))
  PROVE  /\ out \in Seq(Bytes) /\ Len(out) = 2 + Len(EncodeFrame(f)) /\ Len(out) \in Nat
         /\ Len(out) >= 7 /\ Len(out) <= MaxFrame + 2
         /\ out[1] = SOF1 /\ out[2] = SOF2
         /\ \A i \in 1..Len(EncodeFrame(f)) : out[2 + i] = EncodeFrame(f)[i]
<1> DEFINE fr == EncodeFrame(f)
<1>1. fr \in Seq(Bytes) /\ Len(fr) \in Nat /\ Len(fr) >= 5 /\ Len(fr) <= MaxFrame
  <2>1. /\ fr \in Seq(Bytes) /\ Len(f.payload) \in Nat /\ Len(f.payload) <= MaxPayload
        /\ Len(fr) = Overhead + Len(f.payload)
    BY Encoded
  <2> QED BY <2>1, Sizes
<1> HIDE DEF fr
<1>2. <<SOF1, SOF2>> \in Seq(Bytes) /\ Len(<<SOF1, SOF2>>) = 2
  BY Sizes
<1>3. out = <<SOF1, SOF2>> \o fr
  BY DEF EncodeSof, fr
<1>4. /\ out \in Seq(Bytes) /\ Len(out) = 2 + Len(fr) /\ out[1] = SOF1 /\ out[2] = SOF2
      /\ \A i \in 1..Len(fr) : out[2 + i] = fr[i]
  BY <1>1, <1>2, <1>3
<1> QED BY <1>1, <1>4, Sizes DEF fr

\* A write that is not the last is a whole chunk, and shorter than what is sent.
LEMMA PausesAreShort ==
  ASSUME NEW v \in ChunkSettings, NEW total \in Nat, total >= 1, total <= MaxFrame + 2,
         NEW plan, plan = WritePlan(total, ParseChunk(v))
  PROVE  \A i \in DOMAIN plan :
           plan[i].pause => ChunkDrain(plan[i].len) \in Nat /\ ChunkDrain(plan[i].len) < InterByte
<1> DEFINE chunk == ParseChunk(v)
           n == (total + chunk - 1) \div chunk
<1>1. chunk \in Nat /\ (chunk < MaxFrame + 2 => chunk + chunk \div 2 + Margin < InterByte)
  BY SenderAssumption, Sizes DEF ParseChunk, SenderAssumption
<1> HIDE DEF chunk
<1>2. CASE chunk = 0
  <2>1. plan = <<[len |-> total, pause |-> FALSE]>>
    BY <1>2 DEF WritePlan, chunk
  <2> QED BY <2>1
<1>3. CASE chunk # 0
  <2>1. plan = [i \in 1..n |-> [len |-> IF i = n THEN total - (i - 1) * chunk ELSE chunk, pause |-> i < n]]
    BY <1>3 DEF WritePlan, chunk
  <2>2. n \in Nat /\ (chunk >= total => n < 2)
    BY <1>1, <1>3
  <2> HIDE DEF n
  <2>3. ASSUME NEW i \in DOMAIN plan, plan[i].pause
        PROVE  ChunkDrain(plan[i].len) \in Nat /\ ChunkDrain(plan[i].len) < InterByte
    <3>1. i \in 1..n /\ i < n /\ plan[i].len = chunk
      <4>1. i \in 1..n
        BY <2>1, <2>3
      <4>2. plan[i] = [len |-> IF i = n THEN total - (i - 1) * chunk ELSE chunk, pause |-> i < n]
        BY <2>1, <4>1
      <4>3. i < n
        <5> DEFINE before == i < n
                   len == IF i = n THEN total - (i - 1) * chunk ELSE chunk
        <5>1. plan[i] = [len |-> len, pause |-> before]
          BY <4>2
        <5> HIDE DEF before, len
        <5>2. plan[i].pause = before
          BY <5>1
        <5> QED BY <2>3, <5>2 DEF before
      <4>4. i # n
        BY <2>2, <4>1, <4>3
      <4> QED BY <4>1, <4>2, <4>3, <4>4
    <3>2. chunk < total
      BY <1>1, <2>2, <3>1
    <3>3. chunk < MaxFrame + 2
      BY <1>1, <3>2, Sizes
    <3>4. chunk \div 2 \in Nat
      BY <1>1
    <3> QED BY <1>1, <3>1, <3>3, <3>4, Sizes DEF ChunkDrain
  <2> QED BY <2>3
<1> QED BY <1>2, <1>3

LEMMA PauseIsShort ==
  ASSUME SenderOK
  PROVE  PauseAfter(snd.plan, snd.at) \in Nat /\ PauseAfter(snd.plan, snd.at) < InterByte
<1> DEFINE sum(i) == FoldLeft(LAMBDA s, w : s + w.len, 0, SubSeq(snd.plan, 1, i))
           ends == {i \in DOMAIN snd.plan : snd.plan[i].pause /\ snd.at = sum(i)}
<1>1. PauseAfter(snd.plan, snd.at) = IF ends = {} THEN 0 ELSE ChunkDrain(snd.plan[CHOOSE i \in ends : TRUE].len)
  BY DEF PauseAfter
<1> HIDE DEF sum
<1>2. \A i \in ends : ChunkDrain(snd.plan[i].len) \in Nat /\ ChunkDrain(snd.plan[i].len) < InterByte
  BY DEF SenderOK
<1> HIDE DEF ends
<1>3. ends # {} => (CHOOSE i \in ends : TRUE) \in ends
  OBVIOUS
<1> QED BY <1>1, <1>2, <1>3, Sizes

-----------------------------------------------------------------------------
(* The invariant *)

LEMMA Moved ==
  ASSUME SenderOK, NextByte
  PROVE  /\ snd'.at = snd.at + 1 /\ snd'.frame = snd.frame /\ snd'.out = snd.out
         /\ snd'.calm = snd.calm /\ snd'.plan = snd.plan
         /\ snd' = [frame |-> snd'.frame, out |-> snd'.out, at |-> snd'.at, calm |-> snd'.calm,
                    plan |-> snd'.plan]
<1> DEFINE fr == snd.frame
           out == snd.out
           at == snd.at
           calm == snd.calm
           plan == snd.plan
<1>1. snd' = [snd EXCEPT !.at = at + 1]
  BY DEF NextByte
<1>2. snd = [frame |-> fr, out |-> out, at |-> at, calm |-> calm, plan |-> plan]
  BY DEF SenderOK
<1> HIDE DEF fr, out, at, calm, plan
<1>3. snd' = [frame |-> fr, out |-> out, at |-> at + 1, calm |-> calm, plan |-> plan]
  BY <1>1, <1>2
<1> QED BY <1>3 DEF fr, out, at, calm, plan

LEMMA LineInitial ==
  ASSUME LineInit
  PROVE  LineInv
<1>1. /\ dev = DevIdle /\ host = HostIdle /\ quiet = InterByte /\ inStep = TRUE /\ snd = NoFrame
  BY DEF LineInit
<1>2. ParserTypes
  BY <1>1, Idle, Sizes DEF ParserTypes
<1>3. DevPlace /\ SamePlace
  BY <1>1, Idle DEF DevPlace, SamePlace
<1>4. /\ snd.out = <<>> /\ snd.at = 0 /\ snd.calm = FALSE /\ snd.plan = <<>>
      /\ snd = [frame |-> snd.frame, out |-> snd.out, at |-> snd.at, calm |-> snd.calm, plan |-> snd.plan]
  BY <1>1 DEF NoFrame
<1>5. SenderOK
  <2>1. <<>> \in Seq(Bytes) /\ 0 \in 0..Len(<<>>) /\ \A i \in DOMAIN <<>> : FALSE
    OBVIOUS
  <2> QED BY <1>4, <2>1 DEF SenderOK
<1>6. FramePlace
  BY <1>4 DEF FramePlace
<1> QED BY <1>2, <1>3, <1>5, <1>6 DEF LineInv

\* A frame begins.
LEMMA SendKeeps ==
  ASSUME LineInv, NEW f \in Frames, NEW setting \in ChunkSettings, SendFrame(f, setting)
  PROVE  LineInv'
<1> DEFINE out == EncodeSof(EncodeFrame(f))
<1>1. /\ dev' = dev /\ host' = host /\ quiet' = quiet /\ inStep' = inStep
      /\ snd' = [frame |-> f, out |-> out, at |-> 0, calm |-> quiet = InterByte,
                 plan |-> WritePlan(Len(out), ParseChunk(setting))]
  BY DEF SendFrame
<1>2. ParserTypes' /\ DevPlace' /\ (inStep => SamePlace)'
  BY <1>1 DEF LineInv, ParserTypes, DevPlace, SamePlace
<1>3. out \in Seq(Bytes) /\ Len(out) \in Nat /\ Len(out) >= 7 /\ Len(out) <= MaxFrame + 2
  BY Sent
<1>4. \A i \in DOMAIN snd'.plan :
        snd'.plan[i].pause => ChunkDrain(snd'.plan[i].len) \in Nat /\ ChunkDrain(snd'.plan[i].len) < InterByte
  <2>1. snd'.plan = WritePlan(Len(out), ParseChunk(setting)) /\ Len(out) >= 1
    BY <1>1, <1>3
  <2> HIDE DEF out
  <2> QED BY <1>3, <2>1, PausesAreShort
<1> HIDE DEF out
<1>5. /\ snd'.frame = f /\ snd'.out = out /\ snd'.at = 0 /\ snd'.calm \in BOOLEAN /\ out # <<>>
      /\ snd' = [frame |-> snd'.frame, out |-> snd'.out, at |-> snd'.at, calm |-> snd'.calm,
                 plan |-> snd'.plan]
  <2> DEFINE calm == quiet = InterByte
             plan == WritePlan(Len(out), ParseChunk(setting))
  <2>1. snd' = [frame |-> f, out |-> out, at |-> 0, calm |-> calm, plan |-> plan] /\ calm \in BOOLEAN
    BY <1>1
  <2> HIDE DEF calm, plan
  <2>2. out # <<>>
    BY <1>3
  <2> QED BY <2>1, <2>2
<1>6. snd'.calm => quiet' = InterByte
  BY <1>1, Zenon
<1>7. SenderOK'
  BY <1>3, <1>4, <1>5 DEF SenderOK, out
<1>8. FramePlace'
  BY <1>3, <1>5, <1>6 DEF FramePlace, Sending
<1> QED BY <1>2, <1>7, <1>8 DEF LineInv

\* A byte of something else
LEMMA StrayKeeps ==
  ASSUME LineInv, StrayByte
  PROVE  LineInv'
<1>1. PICK b \in Bytes : Byte(b) /\ snd' = NoFrame
  BY Sizes DEF StrayByte
<1>2. dev' \in Devs /\ quiet' = 0 /\ DevPlace' /\ host' \in Tools /\ (SamePlace => SamePlace')
  BY <1>1, DevByteKeeps, HostByteFollows DEF LineInv
<1>3. inStep' = inStep
  BY <1>1 DEF Byte
<1>4. ParserTypes' /\ (inStep => SamePlace)'
  BY <1>2, <1>3, Sizes DEF LineInv, ParserTypes
<1>5. /\ snd'.out = <<>> /\ snd'.at = 0 /\ snd'.calm = FALSE /\ snd'.plan = <<>>
      /\ snd' = [frame |-> snd'.frame, out |-> snd'.out, at |-> snd'.at, calm |-> snd'.calm,
                 plan |-> snd'.plan]
  BY <1>1 DEF NoFrame
<1>6. SenderOK'
  <2>1. <<>> \in Seq(Bytes) /\ 0 \in 0..Len(<<>>) /\ \A i \in DOMAIN <<>> : FALSE
    OBVIOUS
  <2> QED BY <1>5, <2>1 DEF SenderOK
<1>7. FramePlace'
  BY <1>5 DEF FramePlace
<1> QED BY <1>2, <1>4, <1>6, <1>7 DEF LineInv

\* One more byte of the frame, after silence, at the device
LEMMA NextByteFills ==
  ASSUME LineInv, NextByte, snd.calm
  PROVE  FramePlace'
<1> DEFINE f == snd.frame
           fr == EncodeFrame(f)
           at == snd.at
           b == snd.out[at + 1]
<1>1. f \in Frames /\ snd.out = EncodeSof(fr) /\ at \in Nat /\ at < Len(snd.out)
  BY DEF LineInv, SenderOK, NextByte, Sending
<1>2. /\ Len(snd.out) = 2 + Len(fr) /\ snd.out[1] = SOF1 /\ snd.out[2] = SOF2
      /\ \A i \in 1..Len(fr) : snd.out[2 + i] = fr[i]
  BY <1>1, Sent
<1>3. /\ fr \in Seq(Bytes) /\ Len(fr) \in Nat /\ fr[3] \in Nat /\ fr[3] <= MaxPayload
      /\ Len(fr) = 5 + fr[3]
  <2>1. /\ fr \in Seq(Bytes) /\ Len(f.payload) \in Nat /\ Len(f.payload) <= MaxPayload
        /\ Len(fr) = Overhead + Len(f.payload) /\ fr[3] = Len(f.payload)
    BY <1>1, Encoded
  <2> QED BY <2>1, Sizes
<1>4. /\ dev' = DevByte(b) /\ quiet' = 0 /\ snd'.at = at + 1 /\ snd'.frame = f /\ snd'.out = snd.out
  <2>1. snd' = [snd EXCEPT !.at = @ + 1] /\ Byte(b)
    BY DEF NextByte
  <2> QED BY <2>1, Moved DEF Byte, LineInv
<1>5. /\ at = 0 => quiet = InterByte
      /\ at = 1 => dev.st = "HUNT2"
      /\ at >= 2 => dev.st = "COLLECT" /\ dev.buf = SubSeq(fr, 1, at - 2)
  BY <1>1 DEF LineInv, FramePlace, Sending
<1>6. Sending' <=> at + 1 < 2 + Len(fr)
  BY <1>2, <1>4 DEF Sending
<1> HIDE DEF fr, b, f, at
<1>7. CASE at = 0
  <2>1. dev.st = "HUNT1"
    BY <1>5, <1>7, Sizes DEF LineInv, DevPlace, ParserTypes, Devs
  <2>2. b = SOF1
    BY <1>2, <1>7 DEF b
  <2>3. dev' = [DevIdle EXCEPT !.st = "HUNT2"]
    BY <1>4, <2>1, <2>2 DEF DevByte
  <2>4. dev'.st = "HUNT2"
    BY <2>3 DEF DevIdle
  <2> QED BY <1>3, <1>4, <1>6, <1>7, <2>4 DEF FramePlace
<1>8. CASE at = 1
  <2>1. b = SOF2
    BY <1>2, <1>8 DEF b
  <2>2. dev' = [DevIdle EXCEPT !.st = "COLLECT"]
    BY <1>4, <1>5, <1>8, <2>1 DEF DevByte
  <2>3. dev'.st = "COLLECT" /\ dev'.buf = <<>>
    BY <2>2 DEF DevIdle
  <2>4. SubSeq(fr, 1, 0) = <<>>
    BY <1>3
  <2> QED BY <1>3, <1>4, <1>6, <1>8, <2>3, <2>4 DEF FramePlace, fr
<1>9. CASE at >= 2
  <2> DEFINE k == at - 1
             buf == Append(dev.buf, b)
  <2>1. k \in Nat /\ k >= 1 /\ k <= Len(fr) /\ at + 1 = 2 + k /\ k \in 1..Len(fr) /\ at - 2 = k - 1
    BY <1>1, <1>2, <1>3, <1>9
  <2>2. b = fr[k]
    BY <1>2, <2>1 DEF b
  <2> HIDE DEF k
  <2>3. buf = SubSeq(fr, 1, k)
    BY <1>3, <1>5, <1>9, <2>1, <2>2, Longer
  <2>4. /\ buf \in Seq(Bytes) /\ Len(buf) = k /\ (k >= 3 => buf[3] = fr[3])
    BY <1>3, <2>1, <2>3, Part
  <2>5. b \in Bytes
    BY <1>3, <2>1, <2>2
  <2> HIDE DEF buf
  <2>6. dev' = DevCollect(b)
    BY <1>4, <1>5, <1>9 DEF DevByte
  <2>7. ~Rejected(buf)
    BY <1>3, <2>1, <2>4, Sizes DEF Rejected
  <2>8. \/ Whole(buf) /\ dev' = [DevIdle EXCEPT !.got = buf]
        \/ ~Whole(buf) /\ dev' = InFrame(buf)
    BY <1>5, <1>9, <2>5, <2>6, <2>7, Collected DEF LineInv, buf
  <2>9. Whole(buf) <=> k = Len(fr)
    BY <1>3, <2>1, <2>4, Sizes DEF Whole
  <2>10. CASE k = Len(fr)
    <3>1. dev'.got = buf
      BY <2>8, <2>9, <2>10 DEF DevIdle
    <3>2. buf = fr
      BY <1>3, <2>3, <2>4, <2>10, Part, SameSeq
    <3> QED BY <1>1, <1>4, <1>6, <2>1, <2>10, <3>1, <3>2 DEF FramePlace, fr
  <2>11. CASE k # Len(fr)
    <3>1. dev'.st = "COLLECT" /\ dev'.buf = buf
      BY <2>8, <2>9, <2>11 DEF InFrame
    <3>2. snd'.at - 2 = k /\ snd'.at >= 2 /\ snd'.at # 0 /\ snd'.at # 1 /\ Sending'
      BY <1>1, <1>3, <1>4, <1>6, <1>9, <2>1, <2>11
    <3> QED BY <1>4, <2>3, <3>1, <3>2 DEF FramePlace, fr
  <2> QED BY <2>10, <2>11
<1> QED BY <1>1, <1>7, <1>8, <1>9

LEMMA NextByteKeeps ==
  ASSUME LineInv, NextByte
  PROVE  LineInv'
<1> DEFINE b == snd.out[snd.at + 1]
<1>1. Sending /\ Byte(b) /\ snd' = [snd EXCEPT !.at = @ + 1]
  BY DEF NextByte
<1>2. snd.out \in Seq(Bytes) /\ snd.at \in Nat /\ snd.at < Len(snd.out)
  BY <1>1 DEF LineInv, SenderOK, Sending
<1>3. b \in Bytes
  BY <1>2
<1> HIDE DEF b
<1>4. dev' \in Devs /\ quiet' = 0 /\ DevPlace' /\ host' \in Tools /\ (SamePlace => SamePlace')
  BY <1>1, <1>3, DevByteKeeps, HostByteFollows DEF LineInv
<1>5. inStep' = inStep
  BY <1>1 DEF Byte
<1>6. ParserTypes' /\ (inStep => SamePlace)'
  BY <1>4, <1>5, Sizes DEF LineInv, ParserTypes
<1>7. /\ snd'.at = snd.at + 1 /\ snd'.frame = snd.frame /\ snd'.out = snd.out
      /\ snd'.calm = snd.calm /\ snd'.plan = snd.plan
  BY Moved DEF LineInv
<1>8. SenderOK'
  <2>1. snd'.at \in 0..Len(snd'.out)
    BY <1>2, <1>7
  <2> QED BY <1>7, <2>1, Moved DEF LineInv, SenderOK
<1>9. FramePlace'
  <2>1. CASE snd.calm
    BY <2>1, NextByteFills
  <2>2. CASE ~snd.calm
    BY <1>7, <2>2 DEF FramePlace
  <2> QED BY <2>1, <2>2
<1> QED BY <1>4, <1>6, <1>8, <1>9 DEF LineInv

\* An empty poll: the device gives up what it has when the silence is long enough.
LEMMA DevAfterTick ==
  ASSUME LineInv, Tick
  PROVE  /\ dev' \in Devs /\ quiet' = quiet + 1 /\ quiet' <= InterByte /\ DevPlace'
         /\ quiet' = InterByte => dev' = DevIdle
         /\ dev.st = "HUNT1" => dev' = DevIdle
         /\ dev.st # "HUNT1" /\ quiet' < InterByte => dev'.st = dev.st /\ dev'.buf = dev.buf /\ dev'.got = <<>>
<1>1. /\ dev' = DevEmptyPoll /\ quiet' = quiet + 1 /\ quiet < InterByte /\ quiet \in Nat
      /\ dev \in Devs
  BY Sizes DEF Tick, LineInv, ParserTypes
<1>2. dev.st # "HUNT1" => dev.idle = quiet /\ dev.got = <<>>
  BY DEF LineInv, DevPlace
<1>3. CASE dev.st = "HUNT1" \/ quiet + 1 >= InterByte
  <2>1. dev' = DevIdle
    BY <1>1, <1>2, <1>3 DEF DevEmptyPoll
  <2>2. DevPlace'
    BY <2>1, Idle DEF DevPlace
  <2> QED BY <1>1, <1>3, <2>1, <2>2, Idle, Sizes
<1>4. CASE dev.st # "HUNT1" /\ quiet + 1 < InterByte
  <2>1. dev' = [dev EXCEPT !.idle = quiet + 1]
    BY <1>1, <1>2, <1>4, Sizes DEF DevEmptyPoll
  <2>2. /\ dev' \in Devs /\ dev'.st = dev.st /\ dev'.buf = dev.buf /\ dev'.got = dev.got
        /\ dev'.need = dev.need /\ dev'.idle = quiet + 1
    BY <1>1, <2>1 DEF Devs
  <2>3. DevPlace'
    BY <1>1, <1>2, <1>4, <2>2 DEF LineInv, DevPlace
  <2> QED BY <1>1, <1>2, <1>4, <2>2, <2>3, Sizes
<1> QED BY <1>1, <1>3, <1>4, Sizes

\* Silence leaves the tool where it leaves the device, and puts it there.
LEMMA HostAfterTick ==
  ASSUME LineInv, Tick
  PROVE  host' \in Tools /\ inStep' \in BOOLEAN /\ (inStep => SamePlace)'
<1>1. /\ host' = HostGap /\ quiet' = quiet + 1 /\ quiet < InterByte /\ quiet \in Nat
      /\ host \in Tools /\ inStep \in BOOLEAN /\ (inStep' <=> inStep \/ quiet' = InterByte)
      /\ inStep' \in BOOLEAN
  <2>1. host' = HostGap /\ quiet' = quiet + 1 /\ quiet < InterByte
    BY DEF Tick
  <2>2. quiet \in Nat /\ host \in Tools
    BY Sizes DEF LineInv, ParserTypes
  <2>3. inStep \in BOOLEAN /\ inStep' = (inStep \/ quiet' = InterByte)
    BY DEF Tick, LineInv, ParserTypes
  <2>4. inStep' \in BOOLEAN /\ (inStep' <=> inStep \/ quiet' = InterByte)
    BY <2>3, Zenon
  <2> QED BY <2>1, <2>2, <2>3, <2>4
<1>2. /\ quiet' = InterByte => dev' = DevIdle
      /\ dev.st = "HUNT1" => dev' = DevIdle
      /\ dev.st # "HUNT1" /\ quiet' < InterByte => dev'.st = dev.st /\ dev'.buf = dev.buf /\ dev'.got = <<>>
  BY DevAfterTick
<1>3. CASE quiet' = InterByte
  <2>1. host' = HostIdle /\ dev' = DevIdle
    BY <1>1, <1>2, <1>3, Sizes DEF HostGap
  <2> QED BY <1>1, <2>1, Idle DEF SamePlace
<1>4. CASE quiet' # InterByte
  <2>1. quiet' < InterByte /\ ~(quiet + 1 >= InterByte) /\ (inStep' => inStep)
    BY <1>1, <1>4, Sizes
  <2>2. host' = [host EXCEPT !.got = <<>>]
    BY <1>1, <2>1 DEF HostGap
  <2>3. /\ host' \in Tools /\ host'.phase = host.phase /\ host'.armed = host.armed
        /\ host'.buf = host.buf /\ host'.got = <<>>
    <3> DEFINE phase == host.phase
               armed == host.armed
               buf == host.buf
    <3>1. host = [phase |-> phase, armed |-> armed, buf |-> buf, got |-> host.got]
          /\ phase \in {"hunt", "header", "body"} /\ armed \in BOOLEAN /\ buf \in Seq(Bytes)
      BY <1>1 DEF Tools
    <3>2. <<>> \in Seq(Bytes)
      OBVIOUS
    <3> HIDE DEF phase, armed, buf
    <3>3. host' = [phase |-> phase, armed |-> armed, buf |-> buf, got |-> <<>>]
      BY <2>2, <3>1
    <3>4. host' \in Tools
      BY <3>1, <3>2, <3>3 DEF Tools
    <3> QED BY <3>3, <3>4 DEF phase, armed, buf
  <2>4. ASSUME inStep' PROVE SamePlace'
    <3>1. SamePlace
      BY <2>1, <2>4 DEF LineInv
    <3>2. CASE dev.st = "HUNT1"
      <4>1. dev' = DevIdle /\ dev.buf = <<>>
        BY <1>2, <3>2 DEF LineInv, DevPlace
      <4> QED BY <2>3, <3>1, <3>2, <4>1, Idle DEF SamePlace
    <3>3. CASE dev.st # "HUNT1"
      <4>1. dev'.st = dev.st /\ dev'.buf = dev.buf /\ dev'.got = <<>>
        BY <1>2, <2>1, <3>3
      <4> QED BY <2>3, <3>1, <4>1 DEF SamePlace
    <3> QED BY <3>2, <3>3
  <2> QED BY <1>1, <2>3, <2>4
<1> QED BY <1>3, <1>4

\* Silence before a frame, or a pause within it
LEMMA TickKeeps ==
  ASSUME LineInv, Tick
  PROVE  LineInv'
<1>1. /\ dev' \in Devs /\ quiet' = quiet + 1 /\ quiet' <= InterByte /\ DevPlace'
      /\ dev.st # "HUNT1" /\ quiet' < InterByte => dev'.st = dev.st /\ dev'.buf = dev.buf /\ dev'.got = <<>>
  BY DevAfterTick
<1>2. quiet \in Nat /\ quiet < InterByte
  BY DEF Tick, LineInv, ParserTypes
<1>3. ParserTypes' /\ (inStep => SamePlace)'
  BY <1>1, <1>2, HostAfterTick, Sizes DEF ParserTypes
<1> DEFINE calm == snd.calm \/ quiet' = InterByte
<1>4. snd' = IF Sending /\ snd.at = 0 THEN [snd EXCEPT !.calm = calm] ELSE snd
  BY DEF Tick
<1>5. CASE Sending /\ snd.at = 0
  <2>1. snd = [frame |-> snd.frame, out |-> snd.out, at |-> snd.at, calm |-> snd.calm, plan |-> snd.plan]
        /\ calm \in BOOLEAN
    BY DEF LineInv, SenderOK
  <2> DEFINE fr == snd.frame
             out == snd.out
             at == snd.at
             plan == snd.plan
             was == snd.calm
  <2>2. snd = [frame |-> fr, out |-> out, at |-> at, calm |-> was, plan |-> plan]
    BY <2>1
  <2>3. snd' = [snd EXCEPT !.calm = calm]
    BY <1>4, <1>5
  <2>4. calm => quiet' = InterByte
    BY <1>2, <1>5, Sizes DEF LineInv, FramePlace
  <2> HIDE DEF calm, fr, out, at, plan, was
  <2>5. snd' = [frame |-> fr, out |-> out, at |-> at, calm |-> calm, plan |-> plan]
    BY <2>2, <2>3
  <2>6. /\ snd'.frame = snd.frame /\ snd'.out = snd.out /\ snd'.at = snd.at /\ snd'.plan = snd.plan
        /\ snd'.calm = calm
        /\ snd' = [frame |-> snd'.frame, out |-> snd'.out, at |-> snd'.at, calm |-> snd'.calm,
                   plan |-> snd'.plan]
    BY <2>5 DEF fr, out, at, plan
  <2>7. snd.out # <<>> /\ snd.at = 0 /\ Sending'
    BY <1>5, <2>6 DEF Sending
  <2>8. SenderOK'
    BY <2>1, <2>6, <2>7 DEF LineInv, SenderOK
  <2>9. FramePlace'
    BY <2>4, <2>6, <2>7 DEF FramePlace
  <2> QED BY <1>1, <1>3, <2>8, <2>9 DEF LineInv
<1>6. CASE ~(Sending /\ snd.at = 0)
  <2>1. snd' = snd
    BY <1>4, <1>6
  <2>2. SenderOK'
    BY <2>1 DEF LineInv, SenderOK
  <2>3. ASSUME snd.calm PROVE FramePlace'
    <3>1. snd.at \in Nat /\ snd.at # 0
      <4>1. snd.out # <<>> /\ snd.frame \in Frames /\ snd.out = EncodeSof(EncodeFrame(snd.frame))
        BY <2>3 DEF LineInv, SenderOK
      <4>2. Len(snd.out) >= 7 /\ Len(snd.out) \in Nat
        BY <4>1, Sent
      <4> QED BY <1>6, <4>2 DEF Sending, LineInv, SenderOK
    <3>2. CASE Sending
      <4>1. PauseAfter(snd.plan, snd.at) \in Nat /\ PauseAfter(snd.plan, snd.at) < InterByte
        BY PauseIsShort DEF LineInv
      <4>2. quiet < PauseAfter(snd.plan, snd.at)
        BY <3>1, <3>2 DEF Tick
      <4>3. quiet' < InterByte
        BY <1>1, <1>2, <4>1, <4>2, Sizes
      <4>4. dev.st # "HUNT1"
        BY <2>3, <3>1, <3>2 DEF LineInv, FramePlace
      <4>5. dev'.st = dev.st /\ dev'.buf = dev.buf
        BY <1>1, <4>3, <4>4
      <4>6. Sending'
        BY <2>1, <3>2 DEF Sending
      <4> QED BY <2>1, <2>3, <3>1, <3>2, <4>5, <4>6 DEF LineInv, FramePlace
    <3>3. CASE ~Sending
      <4>1. quiet' # 0 /\ ~Sending'
        BY <1>1, <1>2, <2>1, <3>3 DEF Sending
      <4>2. snd.at # 1
        <5>1. snd.out # <<>> /\ snd.frame \in Frames /\ snd.out = EncodeSof(EncodeFrame(snd.frame))
          BY <2>3 DEF LineInv, SenderOK
        <5>2. Len(snd.out) >= 7 /\ Len(snd.out) \in Nat
          BY <5>1, Sent
        <5> QED BY <3>3, <5>2 DEF Sending
      <4> QED BY <2>1, <3>1, <4>1, <4>2 DEF FramePlace
    <3> QED BY <3>2, <3>3
  <2>4. ASSUME ~snd.calm PROVE FramePlace'
    BY <2>1, <2>4 DEF FramePlace
  <2> QED BY <1>1, <1>3, <2>2, <2>3, <2>4 DEF LineInv
<1> QED BY <1>5, <1>6

\* The tool's deadline: it no longer claims to be where the device is.
LEMMA DeadlineKeeps ==
  ASSUME LineInv, HostDeadline
  PROVE  LineInv'
<1>1. host' = HostIdle /\ inStep' = FALSE /\ dev' = dev /\ quiet' = quiet /\ snd' = snd
  BY DEF HostDeadline
<1>2. ParserTypes'
  BY <1>1, Idle DEF LineInv, ParserTypes
<1>3. DevPlace' /\ SenderOK' /\ FramePlace'
  BY <1>1 DEF LineInv, DevPlace, SenderOK, FramePlace, Sending
<1> QED BY <1>1, <1>2, <1>3 DEF LineInv

LEMMA LineStutters ==
  ASSUME LineInv, UNCHANGED lineVars
  PROVE  LineInv'
<1>1. dev' = dev /\ host' = host /\ quiet' = quiet /\ snd' = snd /\ inStep' = inStep
  BY DEF lineVars
<1> QED BY <1>1 DEF LineInv, ParserTypes, DevPlace, SamePlace, SenderOK, FramePlace, Sending

\* The parsers' places, and the sender's, are as the invariant says in every
\* behaviour of the line.
THEOREM LineInductive == LineSpec => []LineInv
<1>1. LineInit => LineInv
  BY LineInitial
<1>2. LineInv /\ [LineNext]_lineVars => LineInv'
  BY SendKeeps, StrayKeeps, NextByteKeeps, TickKeeps, DeadlineKeeps, LineStutters DEF LineNext
<1> QED BY <1>1, <1>2, PTL DEF LineSpec

\* The tool mirrors the parser of the firmware (framing.rs:1, uart.rs:5): they
\* find the same frames and are in the same place of the same frame on any line
\* whose gaps both see alike.
THEOREM Mirrors == LineSpec => []HostMirrorsDevice
<1>1. LineInv => HostMirrorsDevice
  <2> SUFFICES ASSUME LineInv, inStep PROVE HostMirrorsDevice
    BY DEF HostMirrorsDevice
  <2>1. SamePlace /\ dev.st \in {"HUNT1", "HUNT2", "COLLECT"}
    BY DEF LineInv, ParserTypes, Devs
  <2> QED BY <2>1 DEF SamePlace, HostMirrorsDevice
<1> QED BY <1>1, LineInductive, PTL

\* A frame that follows silence arrives at both ends of the line, and in a HID
\* report, whatever was on the line before and however it is chunked, when both
\* see the same gaps.
THEOREM Arrives == LineSpec => []QuietFrameArrives
<1>1. LineInv => QuietFrameArrives
  <2> SUFFICES ASSUME LineInv, snd.calm, snd.at = Len(snd.out), quiet = 0 PROVE QuietFrameArrives
    BY DEF QuietFrameArrives
  <2>1. snd.frame \in Frames
    BY DEF LineInv, SenderOK
  <2>2. snd.out \in Seq(Bytes) /\ ~Sending
    BY DEF LineInv, SenderOK, Sending
  <2>3. dev.got = EncodeFrame(snd.frame) /\ (inStep => host.got = dev.got)
    BY <2>2 DEF LineInv, FramePlace, SamePlace
  <2> QED BY <2>1, <2>3, InReport DEF QuietFrameArrives
<1> QED BY <1>1, LineInductive, PTL

-----------------------------------------------------------------------------
(* The command line tool *)

\* What RequestsFitTheDevice says of one request, when `info' is the answer to HELLO
Fits(q, info) ==
  /\ q.cmd \in {"ERASE", "WRITE", "COMMIT"} =>
       q.at >= info.write_base /\ q.at + q.len <= info.write_base + info.write_capacity
  /\ q.cmd \in {"ERASE", "WRITE"} => Args.force
  /\ q.cmd = "ERASE" => q.len % info.erase_block = 0
  /\ q.cmd \in {"WRITE", "COMMIT"} =>
       /\ q.at = info.write_base
       /\ \E i \in DOMAIN cli.src.images :
            cli.src.images[i].base = q.at /\ Len(cli.src.images[i].bytes) = q.len
       /\ cli.src.single \/ cli.src.family \in {Unspecified, info.chip_family}
  /\ q.cmd = "CRC" /\ Args.cmd = "verify" /\ ~cli.src.single => q.at # info.write_base

AllRequests ==
  [cmd : {"ERASE", "WRITE", "COMMIT", "CRC", "BOOT_APP", "BOOT_STAY"}, at : Nat, len : Nat]
FittingRequests(info) == {q \in AllRequests : Fits(q, info)}

CliFields ==
  cli = [pc |-> cli.pc, args |-> cli.args, world |-> cli.world, src |-> cli.src, kind |-> cli.kind,
         opened |-> cli.opened, info |-> cli.info, todo |-> cli.todo, asked |-> cli.asked,
         said |-> cli.said, written |-> cli.written, exit |-> cli.exit]

NeedsDevice == NeedsFile \/ Args.cmd \in {"probe", "erase", "boot"}

\* How far the run is, and with it what is known
StageOK ==
  /\ cli.pc \in {"parse", "load", "open", "hello", "ask", "exited"}
  /\ \E run \in Runs : cli.args = run.args /\ cli.world = run.world
  /\ cli.pc \in {"parse", "load"} => cli.src = Nothing
  /\ cli.pc \in {"parse", "load", "open"} => cli.opened = Nothing
  /\ cli.pc \in {"parse", "load", "open", "hello"} => cli.said = "none" /\ cli.todo = <<>> /\ cli.asked = <<>>
  /\ cli.pc = "load" => ClapAccepts(Args)
  /\ cli.pc \in {"open", "hello", "ask"} => NeedsDevice /\ (NeedsFile => Loaded)
  /\ cli.pc \in {"open", "hello", "ask"} /\ Args.cmd = "erase" /\ ~Args.all =>
       Args.start \in Nat /\ Args.length \in Nat
  /\ cli.pc \in {"hello", "ask"} => Opened

\* The file and the device are what the command line makes of them.
ChoiceOK ==
  /\ Loaded => cli.src = LoadSource(Args.file, Args.base) /\ cli.src # Refused
  /\ OpensWhatWasAskedFor

AskOK == cli.todo \in Seq(FittingRequests(cli.info)) /\ cli.asked \in Seq(FittingRequests(cli.info))

SaidOK ==
  /\ cli.said \in {"none", "ok", "mismatch", "failed"}
  /\ cli.pc # "exited" => cli.said \in {"none", "ok"}
  /\ cli.said # "none" => Opened /\ (NeedsFile => Loaded)
  /\ cli.pc = "exited" => ExitTellsWhatHappened

CliInv == CliFields /\ StageOK /\ ChoiceOK /\ AskOK /\ SaidOK

\* What a file was read as
LEMMA SourceIs ==
  ASSUME NEW run \in Runs, NEW src, src = LoadSource(run.args.file, run.args.base), src # Refused
  PROVE  /\ src # Nothing
         /\ src.single => 1 \in DOMAIN src.images
         /\ \A i \in DOMAIN src.images : src.images[i].base \in Nat /\ src.images[i].bytes \in Seq(Nat)
<1>1. \A i \in DOMAIN src.images : src.images[i] \in [base : Nat, bytes : Seq(Nat)]
  BY RunsAssumption DEF RunsAssumption
<1>2. \/ \E f, i : src = [family |-> f, images |-> i, single |-> FALSE]
      \/ \E img : src = [family |-> Unspecified, images |-> <<img>>, single |-> TRUE]
  BY DEF LoadSource, Single
<1>3. CASE \E f, i : src = [family |-> f, images |-> i, single |-> FALSE]
  <2>1. PICK f, i : src = [family |-> f, images |-> i, single |-> FALSE]
    BY <1>3
  <2>2. ~src.single /\ "single" \in DOMAIN src
    BY <2>1
  <2>3. src # Nothing
    BY <2>2 DEF Nothing
  <2> QED BY <1>1, <2>2, <2>3
<1>4. CASE \E img : src = [family |-> Unspecified, images |-> <<img>>, single |-> TRUE]
  <2>1. PICK img : src = [family |-> Unspecified, images |-> <<img>>, single |-> TRUE]
    BY <1>4
  <2>2. src.images = <<img>> /\ "single" \in DOMAIN src
    BY <2>1
  <2>3. src # Nothing
    BY <2>2 DEF Nothing
  <2>4. 1 \in DOMAIN src.images
    BY <2>2
  <2> QED BY <1>1, <2>3, <2>4
<1> QED BY <1>2, <1>3, <1>4

\* The build for a base is one of the source's, and so is the only other one.
LEMMA ChosenIs ==
  ASSUME NEW run \in Runs, NEW src, src = LoadSource(run.args.file, run.args.base), src # Refused,
         NEW base
  PROVE  /\ ForBase(src, base) # Refused => \E i \in DOMAIN src.images : ForBase(src, base) = src.images[i]
         /\ ForRunningImage(src, base) # Refused =>
              /\ \E i \in DOMAIN src.images : ForRunningImage(src, base) = src.images[i]
              /\ ~src.single => ForRunningImage(src, base).base # base
<1>1. src.single => 1 \in DOMAIN src.images
  BY SourceIs
<1>2. CASE src.single
  BY <1>1, <1>2 DEF ForBase, ForRunningImage
<1>3. CASE ~src.single
  <2> DEFINE found == {i \in DOMAIN src.images :
                         src.images[i].base = base /\ \A j \in 1..i - 1 : src.images[j].base # base}
             others == {i \in DOMAIN src.images : src.images[i].base # base}
  <2>1. ForBase(src, base) = IF found = {} THEN Refused ELSE src.images[CHOOSE i \in found : TRUE]
    BY <1>3 DEF ForBase
  <2>2. ForRunningImage(src, base) =
          IF Cardinality(others) = 1 THEN src.images[CHOOSE i \in others : TRUE] ELSE Refused
    BY <1>3 DEF ForRunningImage, OnlyOther
  <2>3. found # {} => (CHOOSE i \in found : TRUE) \in found
    OBVIOUS
  <2>4. Cardinality(others) = 1 => others # {}
    BY FS_EmptySet
  <2>5. others # {} => (CHOOSE i \in others : TRUE) \in others
    OBVIOUS
  <2>6. found \subseteq DOMAIN src.images /\ others \subseteq DOMAIN src.images
        /\ \A i \in others : src.images[i].base # base
    OBVIOUS
  <2> HIDE DEF found, others
  <2> QED BY <1>3, <2>1, <2>2, <2>3, <2>4, <2>5, <2>6
<1> QED BY <1>2, <1>3

-----------------------------------------------------------------------------
(* The device that is opened *)

\* The interface that is opened is one of those plugged in, has the identity, the
\* serial and the usage that were asked for, or does not tell its usage, and no
\* other like it is there.
LEMMA OpenHidFinds ==
  ASSUME NEW run \in Runs, cli.args = run.args, cli.world = run.world, NEW id, NEW usage,
         NEW o, o = OpenHid(id, usage), o # Refused
  PROVE  /\ o \in cli.world /\ o.id = id /\ Args.serial \in {None, o.serial}
         /\ o.usage \in {usage, UnknownUsage}
         /\ \A i \in cli.world :
              i.id = o.id /\ Args.serial \in {None, i.serial} /\ i.usage = o.usage => i.path = o.path
<1> DEFINE these == {i \in cli.world : i.id = id /\ Args.serial \in {None, i.serial}}
           found == Narrow(usage, these)
           paths == {i.path : i \in found}
<1>1. found = IF {i \in these : i.usage = usage} # {} THEN {i \in these : i.usage = usage}
              ELSE {i \in these : i.usage = UnknownUsage}
  BY DEF Narrow
<1>2. found \subseteq these /\ these \subseteq cli.world /\ \A i \in found : i.usage \in {usage, UnknownUsage}
  BY <1>1
<1>3. IsFiniteSet(cli.world)
  BY RunsAssumption DEF RunsAssumption
<1>4. IsFiniteSet(found)
  <2>1. found \in SUBSET cli.world
    BY <1>2
  <2> HIDE DEF found
  <2> QED BY <1>3, <2>1, FS_Subset
<1>5. o = IF Cardinality(paths) = 1 THEN CHOOSE i \in found : TRUE ELSE Refused
  BY DEF OpenHid
<1> HIDE DEF found
<1>6. Cardinality(paths) = 1
  BY <1>5
<1>7. IsFiniteSet(paths)
  <2> DEFINE g == [i \in found |-> i.path]
  <2>1. g \in Surjection(found, paths)
    BY DEF Surjection
  <2> HIDE DEF g, paths
  <2> QED BY <1>4, <2>1, FS_Surjection
<1>8. PICK p : paths = {p}
  <2> HIDE DEF paths
  <2> QED BY <1>6, <1>7, FS_Singleton
<1>9. found # {} /\ \A i \in found : i.path = p
  BY <1>8
<1>10. o \in found
  BY <1>5, <1>6, <1>9
<1>11. o \in these /\ o.usage \in {usage, UnknownUsage} /\ o.path = p
  BY <1>2, <1>9, <1>10
<1>12. ASSUME NEW i \in these, i.usage = o.usage PROVE i.path = o.path
  <2>1. i \in found
    BY <1>1, <1>10, <1>12
  <2> QED BY <1>9, <1>11, <2>1
<1> QED BY <1>11, <1>12

\* What is opened is there, and the command line allows for it.
LEMMA ChoiceIs ==
  ASSUME NEW run \in Runs, cli.args = run.args, cli.world = run.world,
         NEW kind, kind = TransportKind(Args), ~Conflicts(Args), Choice(kind) # Refused
  PROVE  /\ kind \in {"usb", "uart", "qmk"} /\ Choice(kind) # Nothing
         /\ Args.transport \in {None, kind} /\ (kind = "qmk" => Args.transport = "qmk")
         /\ Args.port <=> kind = "uart"
         /\ (Args.page # None \/ Args.usage # None) => kind = "qmk"
         /\ kind = "uart" => Args.serial = None /\ Args.vid = None /\ Args.pid = None
         /\ kind = "usb" => Choice(kind) = OpenHid(<<Given(Args.vid, BootId[1]), Given(Args.pid, BootId[2])>>, BootUsage)
         /\ kind = "qmk" => /\ Args.vid # None /\ Args.pid # None
                            /\ Choice(kind) = OpenHid(<<Args.vid, Args.pid>>,
                                 <<Given(Args.page, TunnelUsage[1]), Given(Args.usage, TunnelUsage[2])>>)
<1>1. /\ Args.transport \in {None, "usb", "uart", "qmk"} /\ Args.port \in BOOLEAN
      /\ \A i \in cli.world : "path" \in DOMAIN i
  BY RunsAssumption DEF RunsAssumption, Args
<1>2. kind \in {"usb", "uart", "qmk"} /\ Args.transport \in {None, kind} /\ (kind = "qmk" => Args.transport = "qmk")
  BY <1>1 DEF TransportKind
<1>3. (Args.page # None \/ Args.usage # None) => kind = "qmk"
  BY DEF Choice
<1>4. kind = "uart" => Args.port /\ Args.vid = None /\ Args.pid = None /\ Choice(kind) = [path |-> "port"]
  BY <1>3 DEF Choice
<1>5. kind = "usb" => Choice(kind) = OpenHid(<<Given(Args.vid, BootId[1]), Given(Args.pid, BootId[2])>>, BootUsage)
  BY <1>3 DEF Choice
<1>6. kind = "qmk" => /\ Args.vid # None /\ Args.pid # None
                      /\ Choice(kind) = OpenHid(<<Args.vid, Args.pid>>,
                           <<Given(Args.page, TunnelUsage[1]), Given(Args.usage, TunnelUsage[2])>>)
  BY DEF Choice
<1>7. Args.port => kind = "uart"
  BY <1>1 DEF Conflicts, PortConflicts, TransportKind
<1>8. kind = "uart" => Args.serial = None
  BY <1>1, <1>4 DEF Conflicts, PortConflicts, TransportKind
<1>9. Choice(kind) # Nothing
  <2>1. CASE kind = "uart"
    BY SMTT(30), <1>4, <2>1 DEF Nothing
  <2>2. CASE kind # "uart"
    <3>1. PICK id, usage : Choice(kind) = OpenHid(id, usage)
      BY <1>2, <1>5, <1>6, <2>2
    <3>2. Choice(kind) \in cli.world
      BY <3>1, OpenHidFinds
    <3>3. "path" \in DOMAIN Choice(kind)
      BY <1>1, <3>2
    <3> QED BY <3>3 DEF Nothing
  <2> QED BY <2>1, <2>2
<1> QED BY <1>1, <1>2, <1>3, <1>4, <1>5, <1>6, <1>7, <1>8, <1>9

-----------------------------------------------------------------------------
(* What is asked of it *)

LEMMA Product ==
  ASSUME NEW x \in Nat, NEW unit \in Nat, unit > 0
  PROVE  x * unit \in Nat /\ (x * unit) % unit = 0
OBVIOUS

LEMMA Multiple ==
  ASSUME NEW n \in Nat, NEW unit \in Nat, unit > 0
  PROVE  CeilDiv(n, unit) * unit \in Nat /\ (CeilDiv(n, unit) * unit) % unit = 0
<1>1. CeilDiv(n, unit) \in Nat
  BY DEF CeilDiv
<1> QED BY <1>1, Product

LEMMA InfoIs ==
  ASSUME NEW info \in Infos, HelloAccepted(info)
  PROVE  info.erase_block \in Nat /\ info.erase_block > 0 /\ info.write_base \in Nat /\ info.write_capacity \in Nat
BY RunsAssumption DEF RunsAssumption, HelloAccepted, InfoParses

\* The image a flow is about fits the device's family and comes from the file; what
\* is changed is the build for the write base of a bundle, what is verified is another.
LEMMA ImageIs ==
  ASSUME StageOK, ChoiceOK, cli.pc = "hello", NeedsFile,
         NEW info \in Infos, HelloAccepted(info), NEW img, img = Chosen(info), img # Refused
  PROVE  /\ img.base \in Nat /\ Len(img.bytes) \in Nat
         /\ \E i \in DOMAIN cli.src.images : cli.src.images[i] = img
         /\ cli.src.single \/ cli.src.family \in {Unspecified, info.chip_family}
         /\ Args.cmd = "verify" /\ ~cli.src.single => img.base # info.write_base
<1>1. PICK run \in Runs : cli.args = run.args
  BY DEF StageOK
<1>2. cli.src = LoadSource(run.args.file, run.args.base) /\ cli.src # Refused
  BY <1>1 DEF StageOK, ChoiceOK, Args
<1>3. \A i \in DOMAIN cli.src.images : cli.src.images[i].base \in Nat /\ cli.src.images[i].bytes \in Seq(Nat)
  BY <1>2, SourceIs
<1>4. cli.src.single \/ cli.src.family \in {Unspecified, info.chip_family}
  BY DEF Chosen, FamilyFits
<1>5. \/ img = ForBase(cli.src, info.write_base) /\ Args.cmd # "verify"
      \/ img = ForRunningImage(cli.src, info.write_base)
  BY DEF Chosen
<1>6. /\ \E i \in DOMAIN cli.src.images : cli.src.images[i] = img
      /\ Args.cmd = "verify" /\ ~cli.src.single => img.base # info.write_base
  BY <1>2, <1>5, ChosenIs
<1>7. img.base \in Nat /\ Len(img.bytes) \in Nat
  BY <1>3, <1>6
<1> QED BY <1>4, <1>6, <1>7

\* Every request of every flow fits the device.
LEMMA RequestsFit ==
  ASSUME StageOK, ChoiceOK, cli.pc = "hello",
         NEW info \in Infos, HelloAccepted(info), Requests(info) # Refused
  PROVE  Requests(info) \in Seq(FittingRequests(info))
<1>1. info.erase_block \in Nat /\ info.erase_block > 0 /\ info.write_base \in Nat /\ info.write_capacity \in Nat
  BY InfoIs
<1>2. <<>> \in Seq(FittingRequests(info))
  OBVIOUS
<1>3. NeedsFile \/ Args.cmd \in {"probe", "erase", "boot"}
  BY DEF StageOK, NeedsDevice
<1>4. \A c \in {"BOOT_APP", "BOOT_STAY"} : <<Boot(c)>> \in Seq(FittingRequests(info))
  <2> SUFFICES ASSUME NEW c \in {"BOOT_APP", "BOOT_STAY"} PROVE Boot(c) \in FittingRequests(info)
    OBVIOUS
  <2>1. Boot(c) \in AllRequests /\ Boot(c).cmd = c
    BY DEF Boot, Request, AllRequests
  <2> QED BY <2>1 DEF FittingRequests, Fits
<1>5. CASE NeedsFile
  <2> DEFINE img == Chosen(info)
             len == Len(img.bytes)
             commit == Request("COMMIT", img.base, len)
             crc == Request("CRC", img.base, len)
  <2>1. img # Refused
    BY <1>5 DEF Requests, NeedsFile
  <2>2. /\ img.base \in Nat /\ len \in Nat
        /\ \E i \in DOMAIN cli.src.images : cli.src.images[i] = img
        /\ cli.src.single \/ cli.src.family \in {Unspecified, info.chip_family}
        /\ Args.cmd = "verify" /\ ~cli.src.single => img.base # info.write_base
    BY <1>5, <2>1, ImageIs
  <2>3. \E i \in DOMAIN cli.src.images :
          cli.src.images[i].base = img.base /\ Len(cli.src.images[i].bytes) = len
    BY <2>2
  <2> HIDE DEF img
  <2>4. ASSUME Committable(info, img) PROVE commit \in FittingRequests(info)
    <3>1. img.base = info.write_base /\ img.base >= info.write_base
          /\ img.base + len <= info.write_base + info.write_capacity
      BY <2>4 DEF Committable, InWriteWindow
    <3>2. commit \in AllRequests /\ commit.cmd = "COMMIT" /\ commit.at = img.base /\ commit.len = len
      BY <2>2 DEF Request, AllRequests
    <3> HIDE DEF commit
    <3> QED BY <2>2, <2>3, <3>1, <3>2 DEF FittingRequests, Fits
  <2>5. ASSUME Args.cmd # "verify" \/ cli.src.single \/ img.base # info.write_base
        PROVE  crc \in FittingRequests(info)
    <3>1. crc \in AllRequests /\ crc.cmd = "CRC" /\ crc.at = img.base
      BY <2>2 DEF Request, AllRequests
    <3> HIDE DEF crc
    <3> QED BY <2>5, <3>1 DEF FittingRequests, Fits
  <2>6. CASE Args.cmd = "bless"
    <3>1. Requests(info) = BlessRequests(info, img)
      BY <2>1, <2>6 DEF Requests, img, NeedsFile
    <3>2. Committable(info, img) /\ Requests(info) = <<commit>>
      BY <3>1 DEF BlessRequests
    <3> HIDE DEF commit
    <3> QED BY <2>4, <3>2
  <2>7. CASE Args.cmd = "verify"
    <3>1. Requests(info) = VerifyRequests(info, img)
      BY <2>1, <2>7 DEF Requests, img, NeedsFile
    <3>2. Requests(info) = <<crc>>
      BY <3>1 DEF VerifyRequests
    <3>3. crc \in FittingRequests(info)
      BY <2>2, <2>5, <2>7
    <3> HIDE DEF crc
    <3> QED BY <3>2, <3>3
  <2>8. CASE Args.cmd = "flash"
    <3> DEFINE size == CeilDiv(len, info.erase_block) * info.erase_block
               erase == Request("ERASE", img.base, size)
               write == Request("WRITE", img.base, len)
               check == IF info.crc_live /\ ~Args.no_verify THEN <<crc>> ELSE <<>>
               start == IF ~Args.no_boot THEN <<Boot("BOOT_APP")>>
                        ELSE IF cli.kind = "qmk" THEN <<Boot("BOOT_STAY")>> ELSE <<>>
    <3>1. Requests(info) = FlashRequests(info, img)
      BY <2>1, <2>8 DEF Requests, img, NeedsFile
    <3>2. Committable(info, img) /\ InWriteWindow(info, img.base, size)
      BY <3>1 DEF FlashRequests
    <3>3. \/ Requests(info) = <<>>
          \/ Args.force /\ Requests(info) = <<erase, write, commit>> \o check \o start
      BY <3>1, <3>2 DEF FlashRequests
    <3>4. size \in Nat /\ size % info.erase_block = 0
      BY <1>1, <2>2, Multiple
    <3> HIDE DEF size, len
    <3>5. check \in Seq(FittingRequests(info))
      <4>1. crc \in FittingRequests(info)
        BY <2>5, <2>8
      <4> HIDE DEF crc
      <4> QED BY <1>2, <4>1
    <3>6. start \in Seq(FittingRequests(info))
      BY <1>2, <1>4
    <3>7. ASSUME Args.force PROVE <<erase, write, commit>> \in Seq(FittingRequests(info))
      <4>1. img.base = info.write_base /\ img.base >= info.write_base
            /\ img.base + len <= info.write_base + info.write_capacity
            /\ img.base + size <= info.write_base + info.write_capacity
        BY <3>2 DEF Committable, InWriteWindow, len
      <4>2. erase \in AllRequests /\ erase.cmd = "ERASE" /\ erase.at = img.base /\ erase.len = size
        BY <2>2, <3>4 DEF Request, AllRequests
      <4>3. write \in AllRequests /\ write.cmd = "WRITE" /\ write.at = img.base /\ write.len = len
        BY <2>2 DEF Request, AllRequests, len
      <4>4. commit \in FittingRequests(info)
        BY <2>4, <3>2 DEF len
      <4> HIDE DEF erase, write, commit
      <4>5. erase \in FittingRequests(info)
        BY <3>4, <3>7, <4>1, <4>2 DEF FittingRequests, Fits
      <4>6. write \in FittingRequests(info)
        BY <2>2, <2>3, <3>7, <4>1, <4>3 DEF FittingRequests, Fits, len
      <4> QED BY <4>4, <4>5, <4>6
    <3>8. CASE Requests(info) = <<>>
      BY <1>2, <3>8
    <3>9. CASE Args.force /\ Requests(info) = <<erase, write, commit>> \o check \o start
      <4> DEFINE first == <<erase, write, commit>>
      <4>1. first \in Seq(FittingRequests(info)) /\ Requests(info) = first \o check \o start
        BY <3>7, <3>9
      <4> HIDE DEF first, check, start
      <4> QED BY <3>5, <3>6, <4>1
    <3> QED BY <3>3, <3>8, <3>9
  <2> QED BY <1>5, <2>6, <2>7, <2>8 DEF NeedsFile
<1>6. CASE Args.cmd = "erase"
  <2> DEFINE start == IF Args.all THEN info.write_base ELSE Args.start
             len   == IF Args.all THEN info.write_capacity ELSE Args.length
             erase == Request("ERASE", start, len)
  <2>1. start \in Nat /\ len \in Nat
    BY <1>1, <1>6 DEF StageOK
  <2>2. Requests(info) = EraseRequests(info)
    BY <1>6 DEF Requests, NeedsFile
  <2>3. /\ len % info.erase_block = 0 /\ InWriteWindow(info, start, len)
        /\ Requests(info) = IF Args.force THEN <<erase>> ELSE <<>>
    BY <2>2 DEF EraseRequests
  <2> HIDE DEF start, len
  <2>4. erase \in AllRequests /\ erase.cmd = "ERASE" /\ erase.at = start /\ erase.len = len
    BY <2>1 DEF Request, AllRequests
  <2>5. start >= info.write_base /\ start + len <= info.write_base + info.write_capacity
    BY <2>3 DEF InWriteWindow
  <2> HIDE DEF erase
  <2>6. Args.force => erase \in FittingRequests(info)
    BY <2>3, <2>4, <2>5 DEF FittingRequests, Fits
  <2> QED BY <1>2, <2>3, <2>6
<1>7. CASE Args.cmd = "boot"
  <2>1. \E c \in {"BOOT_APP", "BOOT_STAY"} : Requests(info) = <<Boot(c)>>
    BY <1>7 DEF Requests, NeedsFile
  <2> QED BY <1>4, <2>1
<1>8. CASE Args.cmd = "probe"
  BY <1>2, <1>8 DEF Requests, NeedsFile
<1> QED BY <1>3, <1>5, <1>6, <1>7, <1>8

-----------------------------------------------------------------------------
(* The run *)

\* An exit changes nothing else, so what it says is true if it is true now.
LEMMA ExitKeeps ==
  ASSUME CliInv, NEW code \in {0, 1}, Exit(code), cli.pc # "exited",
         code = 0 => /\ Opened => cli.todo = <<>>
                     /\ NeedsFile => Loaded /\ Opened
  PROVE  CliInv'
<1>1. cli' = [cli EXCEPT !.pc = "exited", !.exit = code]
  BY DEF Exit
<1>2. /\ CliFields' /\ cli'.pc = "exited" /\ cli'.args = cli.args /\ cli'.world = cli.world
      /\ cli'.src = cli.src /\ cli'.kind = cli.kind /\ cli'.opened = cli.opened
      /\ cli'.info = cli.info /\ cli'.todo = cli.todo /\ cli'.asked = cli.asked
      /\ cli'.said = cli.said /\ cli'.exit = code
  BY <1>1 DEF CliInv, CliFields
<1>3. StageOK'
  BY <1>2 DEF CliInv, StageOK, Loaded, Opened
<1>4. ChoiceOK'
  BY <1>2 DEF CliInv, ChoiceOK, Loaded, Opened, Args, OpensWhatWasAskedFor
<1>5. AskOK'
  <2>1. ASSUME NEW q PROVE Fits(q, cli.info)' <=> Fits(q, cli.info)
    BY <1>2 DEF Fits, Args
  <2>2. FittingRequests(cli.info)' = FittingRequests(cli.info)
    BY <2>1 DEF FittingRequests
  <2>3. cli.todo \in Seq(FittingRequests(cli.info)) /\ cli.asked \in Seq(FittingRequests(cli.info))
    BY DEF CliInv, AskOK
  <2> QED BY <1>2, <2>2, <2>3 DEF AskOK
<1>6. SaidOK'
  <2>1. cli.said \in {"none", "ok"} /\ (cli.said # "none" => Opened /\ (NeedsFile => Loaded))
    BY DEF CliInv, SaidOK
  <2>2. ExitTellsWhatHappened'
    BY <1>2, <2>1 DEF ExitTellsWhatHappened, At, Loaded, Opened, NeedsFile, Args
  <2> QED BY <1>2, <2>1, <2>2 DEF SaidOK, Loaded, Opened, NeedsFile, Args
<1> QED BY <1>2, <1>3, <1>4, <1>5, <1>6 DEF CliInv

LEMMA ParseKeeps ==
  ASSUME CliInv, ParseArgs
  PROVE  CliInv'
<1>1. cli.pc = "parse" /\ cli.opened = Nothing
  BY DEF ParseArgs, At, CliInv, StageOK
<1>2. CASE Exit(0) /\ Args.cmd = "help"
  <2>1. ~Opened /\ ~NeedsFile
    BY <1>1, <1>2 DEF Opened, NeedsFile
  <2> QED BY <1>1, <1>2, <2>1, ExitKeeps
<1>3. CASE Exit(UsageExit)
  BY <1>1, <1>3, ExitKeeps DEF UsageExit
<1>4. CASE ClapAccepts(Args) /\ cli' = [cli EXCEPT !.pc = "load"]
  <2>1. /\ CliFields' /\ cli'.pc = "load" /\ cli'.args = cli.args /\ cli'.world = cli.world
        /\ cli'.src = cli.src /\ cli'.kind = cli.kind /\ cli'.opened = cli.opened
        /\ cli'.info = cli.info /\ cli'.todo = cli.todo /\ cli'.asked = cli.asked
        /\ cli'.said = cli.said
    BY <1>4 DEF CliInv, CliFields
  <2>2. ClapAccepts(Args)'
    BY <1>4, <2>1 DEF ClapAccepts, Args
  <2>3. StageOK'
    BY <1>1, <2>1, <2>2 DEF CliInv, StageOK
  <2>4. ChoiceOK'
    BY <2>1 DEF CliInv, ChoiceOK, Loaded, Opened, Args, OpensWhatWasAskedFor
  <2>5. AskOK'
    BY <2>1 DEF CliInv, AskOK, FittingRequests, Fits, Args
  <2>6. SaidOK'
    BY <1>1, <2>1 DEF CliInv, StageOK, SaidOK
  <2> QED BY <2>1, <2>3, <2>4, <2>5, <2>6 DEF CliInv
<1> QED BY <1>2, <1>3, <1>4 DEF ParseArgs

LEMMA LoadKeeps ==
  ASSUME CliInv, LoadFile
  PROVE  CliInv'
<1> DEFINE src == LoadSource(Args.file, Args.base)
<1>1. cli.pc = "load" /\ NeedsFile /\ cli.opened = Nothing /\ cli.src = Nothing
      /\ cli.said = "none" /\ cli.todo = <<>> /\ cli.asked = <<>>
  BY DEF LoadFile, At, CliInv, StageOK
<1>2. CASE Exit(1)
  BY <1>1, <1>2, ExitKeeps
<1>3. CASE src # Refused /\ cli' = [cli EXCEPT !.pc = "open", !.src = src]
  <2>1. /\ CliFields' /\ cli'.pc = "open" /\ cli'.args = cli.args /\ cli'.world = cli.world
        /\ cli'.src = src /\ cli'.kind = cli.kind /\ cli'.opened = cli.opened
        /\ cli'.info = cli.info /\ cli'.todo = cli.todo /\ cli'.asked = cli.asked
        /\ cli'.said = cli.said
    <3> HIDE DEF src
    <3> QED BY <1>3 DEF CliInv, CliFields
  <2>2. src # Nothing
    <3>1. PICK run \in Runs : cli.args = run.args
      BY DEF CliInv, StageOK
    <3> QED BY <1>3, <3>1, SourceIs DEF Args
  <2>3. Loaded' /\ NeedsFile' /\ Args' = Args
    BY <1>1, <2>1, <2>2 DEF Loaded, NeedsFile, Args, Nothing
  <2>4. Args.cmd # "erase"
    BY <1>1 DEF NeedsFile
  <2> HIDE DEF src
  <2>5. StageOK'
    BY <1>1, <2>1, <2>3, <2>4 DEF CliInv, StageOK, NeedsDevice
  <2>6. ChoiceOK'
    <3>1. (cli.src = LoadSource(Args.file, Args.base) /\ cli.src # Refused)'
      BY <1>3, <2>1, <2>3 DEF src, Args
    <3>2. ~Opened'
      BY <1>1, <2>1 DEF Opened, Nothing
    <3> QED BY <3>1, <3>2 DEF ChoiceOK, OpensWhatWasAskedFor
  <2>7. AskOK'
    BY <1>1, <2>1 DEF AskOK
  <2>8. SaidOK'
    BY <1>1, <2>1 DEF SaidOK
  <2> QED BY <2>1, <2>5, <2>6, <2>7, <2>8 DEF CliInv
<1> QED BY <1>2, <1>3 DEF LoadFile

LEMMA NoFileKeeps ==
  ASSUME CliInv, NoFile
  PROVE  CliInv'
<1>1. cli.pc = "load" /\ Args.cmd \in {"probe", "erase", "boot"} /\ cli.opened = Nothing
      /\ cli.src = Nothing /\ cli.said = "none" /\ cli.todo = <<>> /\ cli.asked = <<>> /\ ClapAccepts(Args)
  BY DEF NoFile, At, CliInv, StageOK
<1>2. CASE Exit(1)
  BY <1>1, <1>2, ExitKeeps
<1>3. CASE ~(Args.cmd = "erase" /\ ~Args.all /\ Args.start = None) /\ cli' = [cli EXCEPT !.pc = "open"]
  <2>1. /\ CliFields' /\ cli'.pc = "open" /\ cli'.args = cli.args /\ cli'.world = cli.world
        /\ cli'.src = cli.src /\ cli'.kind = cli.kind /\ cli'.opened = cli.opened
        /\ cli'.info = cli.info /\ cli'.todo = cli.todo /\ cli'.asked = cli.asked
        /\ cli'.said = cli.said
    BY <1>3 DEF CliInv, CliFields
  <2>2. Args.cmd = "erase" /\ ~Args.all => Args.start \in Nat /\ Args.length \in Nat
    <3>1. PICK run \in Runs : cli.args = run.args
      BY DEF CliInv, StageOK
    <3>2. \A n \in {Args.start, Args.length} : n = None \/ n \in Nat
      BY <3>1, RunsAssumption DEF RunsAssumption, Args
    <3>3. Args.start = None <=> Args.length = None
      BY <1>1 DEF ClapAccepts
    <3> QED BY <1>3, <3>2, <3>3
  <2>3. ~NeedsFile
    BY <1>1 DEF NeedsFile
  <2>4. StageOK'
    BY <1>1, <2>1, <2>2, <2>3 DEF CliInv, StageOK, NeedsDevice, NeedsFile, Args
  <2>5. ChoiceOK'
    BY <2>1 DEF CliInv, ChoiceOK, Loaded, Opened, Args, OpensWhatWasAskedFor
  <2>6. AskOK'
    BY <1>1, <2>1 DEF AskOK
  <2>7. SaidOK'
    BY <1>1, <2>1 DEF SaidOK
  <2> QED BY <2>1, <2>4, <2>5, <2>6, <2>7 DEF CliInv
<1> QED BY <1>2, <1>3 DEF NoFile

LEMMA CreateKeeps ==
  ASSUME CliInv, CreateBundle
  PROVE  CliInv'
<1>1. cli.pc = "load" /\ Args.cmd = "bundle_create" /\ cli.opened = Nothing
      /\ cli.src = Nothing /\ cli.said = "none" /\ cli.todo = <<>> /\ cli.asked = <<>>
  BY DEF CreateBundle, At, CliInv, StageOK
<1>2. CASE Exit(1)
  BY <1>1, <1>2, ExitKeeps
<1>3. ASSUME NEW w, NEW e \in {0, 1}, cli' = [cli EXCEPT !.pc = "exited", !.written = w, !.exit = e]
      PROVE  CliInv'
  <2>1. /\ CliFields' /\ cli'.pc = "exited" /\ cli'.args = cli.args /\ cli'.world = cli.world
        /\ cli'.src = cli.src /\ cli'.opened = cli.opened /\ cli'.info = cli.info /\ cli'.exit = e
        /\ cli'.todo = cli.todo /\ cli'.asked = cli.asked /\ cli'.said = cli.said
    BY <1>3 DEF CliInv, CliFields
  <2>2. ~Opened' /\ ~Loaded' /\ ~NeedsFile'
    BY <1>1, <2>1 DEF Opened, Loaded, Nothing, NeedsFile, Args
  <2>3. StageOK'
    BY <2>1 DEF CliInv, StageOK
  <2>4. ChoiceOK'
    BY <2>2 DEF ChoiceOK, OpensWhatWasAskedFor
  <2>5. AskOK'
    BY <1>1, <2>1 DEF AskOK
  <2>6. SaidOK'
    BY <1>1, <2>1, <2>2 DEF SaidOK, ExitTellsWhatHappened
  <2> QED BY <2>1, <2>3, <2>4, <2>5, <2>6 DEF CliInv
<1>4. Exit(1) \/ \E e \in {0, 1} : \E w : cli' = [cli EXCEPT !.pc = "exited", !.written = w, !.exit = e]
  <2>1. CASE Created = Refused
    BY <2>1 DEF CreateBundle
  <2>2. CASE Created # Refused
    <3> DEFINE whole == EncodeBundle(Created)
               code(n) == IF n = Len(whole) THEN 0 ELSE 1
    <3>1. PICK n \in 0..Len(whole) :
            cli' = [cli EXCEPT !.pc = "exited", !.written = SubSeq(whole, 1, n), !.exit = code(n)]
      BY <2>2 DEF CreateBundle
    <3>2. code(n) \in {0, 1}
      OBVIOUS
    <3> HIDE DEF code
    <3> QED BY <3>1, <3>2
  <2> QED BY <2>1, <2>2
<1> QED BY <1>2, <1>3, <1>4

LEMMA OpenKeeps ==
  ASSUME CliInv, OpenTransport
  PROVE  CliInv'
<1> DEFINE kind == TransportKind(Args)
<1>1. cli.pc = "open" /\ cli.opened = Nothing /\ cli.said = "none" /\ cli.todo = <<>> /\ cli.asked = <<>>
  BY DEF OpenTransport, At, CliInv, StageOK
<1>2. CASE Exit(1)
  BY <1>1, <1>2, ExitKeeps
<1>3. CASE ~Conflicts(Args) /\ Choice(kind) # Refused
           /\ cli' = [cli EXCEPT !.pc = "hello", !.kind = kind, !.opened = Choice(kind)]
  <2> DEFINE o == Choice(kind)
  <2>1. /\ CliFields' /\ cli'.pc = "hello" /\ cli'.args = cli.args /\ cli'.world = cli.world
        /\ cli'.src = cli.src /\ cli'.kind = kind /\ cli'.opened = o
        /\ cli'.info = cli.info /\ cli'.todo = cli.todo /\ cli'.asked = cli.asked
        /\ cli'.said = cli.said
    <3> HIDE DEF kind, o
    <3>1. cli' = [cli EXCEPT !.pc = "hello", !.kind = kind, !.opened = o]
      BY <1>3 DEF o
    <3> QED BY <3>1 DEF CliInv, CliFields
  <2>2. PICK run \in Runs : cli.args = run.args /\ cli.world = run.world
    BY DEF CliInv, StageOK
  <2>3. /\ kind \in {"usb", "uart", "qmk"} /\ o # Nothing
        /\ Args.transport \in {None, kind} /\ (kind = "qmk" => Args.transport = "qmk")
        /\ Args.port <=> kind = "uart"
        /\ (Args.page # None \/ Args.usage # None) => kind = "qmk"
        /\ kind = "uart" => Args.serial = None /\ Args.vid = None /\ Args.pid = None
        /\ kind = "usb" => o = OpenHid(<<Given(Args.vid, BootId[1]), Given(Args.pid, BootId[2])>>, BootUsage)
        /\ kind = "qmk" => /\ Args.vid # None /\ Args.pid # None
                           /\ o = OpenHid(<<Args.vid, Args.pid>>,
                                <<Given(Args.page, TunnelUsage[1]), Given(Args.usage, TunnelUsage[2])>>)
    BY <1>3, <2>2, ChoiceIs
  <2>4. o # Refused
    BY <1>3
  <2> HIDE DEF kind, o
  <2>5. StageOK'
    <3>1. NeedsDevice' /\ (NeedsFile => Loaded)' /\ Opened'
      BY <1>1, <2>1, <2>3 DEF CliInv, StageOK, NeedsDevice, NeedsFile, Loaded, Opened, Nothing, Args
    <3> QED BY <1>1, <2>1, <3>1 DEF CliInv, StageOK, Args
  <2>6. kind # "uart" =>
          /\ Args.serial \in {None, o.serial} /\ Args.vid \in {None, o.id[1]} /\ Args.pid \in {None, o.id[2]}
          /\ o.usage \in {IF kind = "usb" THEN BootUsage
                          ELSE <<Given(Args.page, TunnelUsage[1]), Given(Args.usage, TunnelUsage[2])>>, UnknownUsage}
          /\ \A i \in cli.world :
               i.id = o.id /\ Args.serial \in {None, i.serial} /\ i.usage = o.usage => i.path = o.path
    <3>1. CASE kind = "usb"
      <4> DEFINE id == <<Given(Args.vid, BootId[1]), Given(Args.pid, BootId[2])>>
      <4>1. o = OpenHid(id, BootUsage)
        BY <2>3, <3>1
      <4>2. /\ o.id = id /\ Args.serial \in {None, o.serial} /\ o.usage \in {BootUsage, UnknownUsage}
            /\ \A i \in cli.world :
                 i.id = o.id /\ Args.serial \in {None, i.serial} /\ i.usage = o.usage => i.path = o.path
        <5> HIDE DEF id
        <5> QED BY <2>2, <2>4, <4>1, OpenHidFinds
      <4>3. Args.vid \in {None, o.id[1]} /\ Args.pid \in {None, o.id[2]}
        BY <4>2 DEF Given
      <4> QED BY <3>1, <4>2, <4>3
    <3>2. CASE kind = "qmk"
      <4> DEFINE id == <<Args.vid, Args.pid>>
                 usage == <<Given(Args.page, TunnelUsage[1]), Given(Args.usage, TunnelUsage[2])>>
      <4>1. o = OpenHid(id, usage)
        BY <2>3, <3>2
      <4>2. /\ o.id = id /\ Args.serial \in {None, o.serial} /\ o.usage \in {usage, UnknownUsage}
            /\ \A i \in cli.world :
                 i.id = o.id /\ Args.serial \in {None, i.serial} /\ i.usage = o.usage => i.path = o.path
        <5> HIDE DEF id, usage
        <5> QED BY <2>2, <2>4, <4>1, OpenHidFinds
      <4>3. Args.vid \in {None, o.id[1]} /\ Args.pid \in {None, o.id[2]}
        BY <4>2
      <4> QED BY <3>2, <4>2, <4>3
    <3> QED BY <2>3, <3>1, <3>2
  <2>7. OpensWhatWasAskedFor'
    BY <2>1, <2>3, <2>6 DEF OpensWhatWasAskedFor, Args, Given
  <2>8. ChoiceOK'
    BY <2>1, <2>7 DEF CliInv, ChoiceOK, Loaded, Args
  <2>9. AskOK'
    BY <1>1, <2>1 DEF AskOK
  <2>10. SaidOK'
    BY <1>1, <2>1 DEF SaidOK
  <2> QED BY <2>1, <2>5, <2>8, <2>9, <2>10 DEF CliInv
<1> QED BY <1>2, <1>3 DEF OpenTransport

LEMMA HelloKeeps ==
  ASSUME CliInv, NEW info \in Infos, HelloAnswered(info)
  PROVE  CliInv'
<1>1. cli.pc = "hello" /\ cli.said = "none" /\ cli.asked = <<>>
  BY DEF HelloAnswered, At, CliInv, StageOK
<1>2. CASE Exit(1)
  BY <1>1, <1>2, ExitKeeps
<1>3. CASE HelloAccepted(info) /\ Requests(info) # Refused
           /\ cli' = [cli EXCEPT !.pc = "ask", !.info = info, !.todo = Requests(info)]
  <2> DEFINE reqs == Requests(info)
  <2>1. reqs \in Seq(FittingRequests(info))
    BY <1>1, <1>3, RequestsFit DEF CliInv
  <2>2. /\ CliFields' /\ cli'.pc = "ask" /\ cli'.args = cli.args /\ cli'.world = cli.world
        /\ cli'.src = cli.src /\ cli'.kind = cli.kind /\ cli'.opened = cli.opened
        /\ cli'.info = info /\ cli'.todo = reqs /\ cli'.asked = cli.asked
        /\ cli'.said = cli.said
    <3> HIDE DEF reqs
    <3>1. cli' = [cli EXCEPT !.pc = "ask", !.info = info, !.todo = reqs]
      BY <1>3 DEF reqs
    <3> QED BY <3>1 DEF CliInv, CliFields
  <2> HIDE DEF reqs
  <2>3. StageOK'
    BY <1>1, <2>2 DEF CliInv, StageOK, NeedsDevice, NeedsFile, Loaded, Opened, Args
  <2>4. ChoiceOK'
    BY <2>2 DEF CliInv, ChoiceOK, Loaded, Opened, Args, OpensWhatWasAskedFor
  <2>5. AskOK'
    <3>1. cli'.todo \in Seq(FittingRequests(info))'
      BY <2>1, <2>2 DEF FittingRequests, Fits, Args
    <3> QED BY <1>1, <2>2, <3>1 DEF AskOK
  <2>6. SaidOK'
    BY <1>1, <2>2 DEF SaidOK
  <2> QED BY <2>2, <2>3, <2>4, <2>5, <2>6 DEF CliInv
<1> QED BY <1>2, <1>3 DEF HelloAnswered

\* The next request goes from those to be made to those that were made.
LEMMA NextRequest ==
  ASSUME NEW S, NEW todo \in Seq(S), todo # <<>>, NEW asked \in Seq(S)
  PROVE  Tail(todo) \in Seq(S) /\ Append(asked, Head(todo)) \in Seq(S)
<1>1. Head(todo) \in S /\ Tail(todo) \in Seq(S)
  OBVIOUS
<1> QED BY <1>1

LEMMA AskedKeeps ==
  ASSUME CliInv, NEW answer \in {"ok", "mismatch", "failed"}, Asked(answer)
  PROVE  CliInv'
<1> DEFINE todo == Tail(cli.todo)
           asked == Append(cli.asked, Head(cli.todo))
           code == ExitCodeFor(answer)
<1>1. cli.pc = "ask" /\ cli.todo # <<>> /\ Opened /\ (NeedsFile => Loaded)
  BY DEF Asked, At, CliInv, StageOK
<1>2. todo \in Seq(FittingRequests(cli.info)) /\ asked \in Seq(FittingRequests(cli.info))
  BY <1>1, NextRequest DEF CliInv, AskOK
<1>3. code = 2 <=> answer = "mismatch"
  BY DEF ExitCodeFor
<1>4. /\ CliFields' /\ cli'.args = cli.args /\ cli'.world = cli.world
      /\ cli'.src = cli.src /\ cli'.kind = cli.kind /\ cli'.opened = cli.opened
      /\ cli'.info = cli.info /\ cli'.todo = todo /\ cli'.asked = asked /\ cli'.said = answer
      /\ cli'.pc = IF answer = "ok" THEN "ask" ELSE "exited"
      /\ answer # "ok" => cli'.exit = code
  <2>1. \/ answer = "ok" /\ cli' = [cli EXCEPT !.todo = todo, !.asked = asked, !.said = answer]
        \/ answer # "ok" /\ cli' = [cli EXCEPT !.todo = todo, !.asked = asked, !.said = answer,
                                              !.pc = "exited", !.exit = code]
    BY DEF Asked
  <2> HIDE DEF todo, asked, code
  <2>2. CASE answer = "ok" /\ cli' = [cli EXCEPT !.todo = todo, !.asked = asked, !.said = answer]
    BY <1>1, <2>2 DEF CliInv, CliFields
  <2>3. CASE answer # "ok" /\ cli' = [cli EXCEPT !.todo = todo, !.asked = asked, !.said = answer,
                                                !.pc = "exited", !.exit = code]
    BY <2>3 DEF CliInv, CliFields
  <2> QED BY <2>1, <2>2, <2>3
<1> HIDE DEF todo, asked
<1>5. Opened' /\ (NeedsFile => Loaded)' /\ (NeedsFile' <=> NeedsFile)
  BY <1>1, <1>4 DEF Opened, Loaded, NeedsFile, Args, Nothing
<1>6. StageOK'
  BY <1>1, <1>4, <1>5 DEF CliInv, StageOK, NeedsDevice, Args
<1>7. ChoiceOK'
  BY <1>4 DEF CliInv, ChoiceOK, Loaded, Opened, Args, OpensWhatWasAskedFor
<1>8. AskOK'
  BY <1>2, <1>4 DEF AskOK, FittingRequests, Fits, Args
<1>9. SaidOK'
  <2>1. CASE answer = "ok"
    BY <1>4, <1>5, <2>1 DEF SaidOK
  <2>2. CASE answer # "ok"
    <3>1. code \in {1, 2} /\ (code = 2 <=> answer = "mismatch")
      BY DEF ExitCodeFor
    <3>2. ExitTellsWhatHappened'
      BY <1>4, <1>5, <2>2, <3>1 DEF ExitTellsWhatHappened
    <3> QED BY <1>4, <1>5, <2>2, <3>2 DEF SaidOK
  <2> QED BY <2>1, <2>2
<1> QED BY <1>4, <1>6, <1>7, <1>8, <1>9 DEF CliInv

LEMMA OthersKeep ==
  ASSUME CliInv, BundleInfo \/ OpenFails \/ HelloFails \/ Done
  PROVE  CliInv'
<1>1. CASE BundleInfo
  <2>1. cli.pc = "load" /\ cli.opened = Nothing /\ ~NeedsFile /\ \E code \in {0, 1} : Exit(code)
    BY <1>1 DEF BundleInfo, At, CliInv, StageOK, NeedsFile
  <2>2. ~Opened
    BY <2>1 DEF Opened
  <2> QED BY <2>1, <2>2, ExitKeeps
<1>2. CASE OpenFails
  BY <1>2, ExitKeeps DEF OpenFails, At
<1>3. CASE HelloFails
  BY <1>3, ExitKeeps DEF HelloFails, At
<1>4. CASE Done
  <2>1. cli.pc = "ask" /\ cli.todo = <<>> /\ Exit(0) /\ Opened /\ (NeedsFile => Loaded)
    BY <1>4 DEF Done, At, CliInv, StageOK
  <2> QED BY <2>1, ExitKeeps
<1> QED BY <1>1, <1>2, <1>3, <1>4

LEMMA CliInitial ==
  ASSUME CliInit
  PROVE  CliInv
<1>1. PICK run \in Runs : cli = Start(run)
  BY DEF CliInit
<1>2. /\ CliFields /\ cli.pc = "parse" /\ cli.args = run.args /\ cli.world = run.world
      /\ cli.src = Nothing /\ cli.opened = Nothing /\ cli.todo = <<>> /\ cli.asked = <<>>
      /\ cli.said = "none"
  BY <1>1 DEF Start, CliFields
<1>3. StageOK
  BY <1>2 DEF StageOK
<1>4. ChoiceOK
  BY <1>2 DEF ChoiceOK, Loaded, Opened, OpensWhatWasAskedFor
<1>5. AskOK /\ SaidOK
  BY <1>2 DEF AskOK, SaidOK
<1> QED BY <1>2, <1>3, <1>4, <1>5 DEF CliInv

\* How far a run is determines what is known of file and device, in every run.
THEOREM CliInductive == CliSpec => []CliInv
<1>1. CliInit => CliInv
  BY CliInitial
<1>2. CliInv /\ [CliNext]_cli => CliInv'
  <2> SUFFICES ASSUME CliInv, [CliNext]_cli PROVE CliInv'
    OBVIOUS
  <2>1. CASE CliNext
    BY <2>1, ParseKeeps, LoadKeeps, NoFileKeeps, CreateKeeps, OpenKeeps, HelloKeeps, AskedKeeps,
       OthersKeep DEF CliNext
  <2>2. CASE cli' = cli
    <3>1. StageOK' /\ CliFields'
      BY <2>2 DEF CliInv, CliFields, StageOK, ClapAccepts, NeedsDevice, NeedsFile, Loaded, Opened, Args
    <3>2. ChoiceOK'
      BY <2>2 DEF CliInv, ChoiceOK, Loaded, Opened, Args, OpensWhatWasAskedFor
    <3>3. AskOK'
      BY <2>2 DEF CliInv, AskOK, FittingRequests, Fits, Args
    <3>4. SaidOK'
      BY <2>2 DEF CliInv, SaidOK, ExitTellsWhatHappened, At, NeedsFile, Loaded, Opened, Args
    <3> QED BY <3>1, <3>2, <3>3, <3>4 DEF CliInv
  <2> QED BY <2>1, <2>2
<1> QED BY <1>1, <1>2, PTL DEF CliSpec

\* No option is contradicted or ignored, and what is opened is the one interface
\* that was looked for (main.rs:363-382, hidsel.rs:35-41).
THEOREM OpensRight == CliSpec => []OpensWhatWasAskedFor
<1>1. CliInv => OpensWhatWasAskedFor
  BY DEF CliInv, ChoiceOK
<1> QED BY <1>1, CliInductive, PTL

\* Whatever the file and whatever the device says of itself, every request of
\* every flow fits the device, and ERASE and WRITE are asked only with --force
\* (flows.rs:199-223, 506-509).
THEOREM RequestsSound == CliSpec => []RequestsFitTheDevice
<1>1. CliInv => RequestsFitTheDevice
  <2> SUFFICES ASSUME CliInv, NEW k \in DOMAIN cli.asked PROVE Fits(cli.asked[k], cli.info)
    BY DEF RequestsFitTheDevice, Fits
  <2>1. cli.asked \in Seq(FittingRequests(cli.info))
    BY DEF CliInv, AskOK
  <2>2. cli.asked[k] \in FittingRequests(cli.info)
    BY <2>1
  <2> QED BY <2>2 DEF FittingRequests
<1> QED BY <1>1, CliInductive, PTL

\* The exit status tells what the device said (main.rs:520-532).
THEOREM ExitSound == CliSpec => []ExitTellsWhatHappened
<1>1. CliInv => ExitTellsWhatHappened
  BY DEF CliInv, SaidOK, ExitTellsWhatHappened, At
<1> QED BY <1>1, CliInductive, PTL
=============================================================================
