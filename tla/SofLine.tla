------------------------------ MODULE SofLine -------------------------------
(***************************************************************************)
(* Frames on a serial line: how they are sent (transport/uart.rs,          *)
(* framing.rs) and how they are found again in what arrives, by the device *)
(* (tr_poll of uart_transport.c) and by the tool (recv_sof_frame).         *)
(*                                                                         *)
(* The two parsers listen to one line, so that they can be compared, on    *)
(* which anything may have gone before.  A tick is a poll of the device    *)
(* that finds no byte, and as long as a byte takes on the wire.  Both      *)
(* parsers measure a gap by it; behind a USB bridge the tool's gaps may be *)
(* others (framing.rs:9-14), and of those nothing is said here.            *)
(***************************************************************************)
EXTENDS HostWire

CONSTANTS
  SOF1, SOF2,     \* OB_UART_SOF1, OB_UART_SOF2
  InterByte,      \* OB_UART_INTERBYTE_MS, UART_IDLE_POLLS
  Margin,         \* the 200 us of chunk_drain
  WriteChunk,     \* UART_WRITE_CHUNK
  Junk,           \* a value of OPENBOOT_UART_CHUNK that is no number
  ChunkSettings,  \* bound: values of OPENBOOT_UART_CHUNK
  Noise,          \* bound: bytes that no frame accounts for
  Frames          \* bound: the frames that are sent

ASSUME LineAssumption ==
  /\ SOF1 # SOF2 /\ {SOF1, SOF2} \union Noise \subseteq 0..ByteRange - 1
  /\ InterByte \in Nat \ {0} /\ Margin \in Nat /\ WriteChunk \in Nat \ {0}

VARIABLES
  dev,       \* the device's parser
  host,      \* recv_sof_frame
  quiet,     \* ticks since the last byte
  snd,       \* the frame being sent, or sent last
  inStep     \* history: no deadline has cut the tool short since the line was quiet

lineVars == <<dev, host, quiet, snd, inStep>>

-----------------------------------------------------------------------------
(* Sending *)

EncodeSof(frame) == <<SOF1, SOF2>> \o frame

\* parse_chunk: 0 is one write
ParseChunk(value) == IF value \in {None, Junk} THEN WriteChunk ELSE value

\* write_plan: no pause after the last chunk
WritePlan(total, chunk) ==
  IF chunk = 0 THEN <<[len |-> total, pause |-> FALSE]>>
  ELSE LET n == (total + chunk - 1) \div chunk IN
       [i \in 1..n |-> [len |-> IF i = n THEN total - (i - 1) * chunk ELSE chunk, pause |-> i < n]]

\* Fault: a chunk is given several times the time it needs.
ChunkDrain_Slow(n) == 3 * (n + Margin)
\* chunk_drain: the time on the wire, half as much again, and a margin
ChunkDrain(n) == n + n \div 2 + Margin

\* The pause that follows the first `at' bytes
PauseAfter(plan, at) ==
  LET ends == {i \in DOMAIN plan : plan[i].pause /\ at = FoldLeft(LAMBDA s, w : s + w.len, 0, SubSeq(plan, 1, i))}
  IN IF ends = {} THEN 0 ELSE ChunkDrain(plan[CHOOSE i \in ends : TRUE].len)

\* A frame and its CRC are bytes.  A chunk after which there is a pause has left
\* the wire before the device gives the frame up.
ASSUME SenderAssumption ==
  /\ \A f \in Frames :
       /\ f \in [cmd : 0..ByteRange - 1, seq : 0..ByteRange - 1, payload : Seq(0..ByteRange - 1)]
       /\ Len(f.payload) <= MaxPayload /\ EncodeFrame(f) \in Seq(0..ByteRange - 1)
  /\ \A v \in ChunkSettings :
       /\ v \in {None, Junk} \/ v \in Nat
       /\ LET n == ParseChunk(v) IN n < MaxFrame + 2 => n + n \div 2 + Margin < InterByte

NoFrame == [frame |-> None, out |-> <<>>, at |-> 0, calm |-> FALSE, plan |-> <<>>]
Sending == snd.at < Len(snd.out)

\* send_frame; what goes before on the line may or may not have been quiet.
SendFrame(f, setting) ==
  /\ ~Sending
  /\ LET out == EncodeSof(EncodeFrame(f)) IN
     snd' = [frame |-> f, out |-> out, at |-> 0, calm |-> quiet = InterByte,
             plan |-> WritePlan(Len(out), ParseChunk(setting))]
  /\ UNCHANGED <<dev, host, quiet, inStep>>

-----------------------------------------------------------------------------
(* The device: tr_poll *)

\* `got' is the frame that the last call has returned.
DevIdle == [st |-> "HUNT1", buf |-> <<>>, need |-> HdrLen, idle |-> 0, got |-> <<>>]

DevCollect(b) ==
  LET buf  == Append(dev.buf, b)
      head == Len(buf) = HdrLen /\ dev.need = HdrLen
      need == IF head THEN Overhead + buf[3] ELSE dev.need
  IN IF head /\ buf[3] > MaxPayload THEN DevIdle
     ELSE IF Len(buf) = need THEN [DevIdle EXCEPT !.got = buf]
     ELSE [DevIdle EXCEPT !.st = "COLLECT", !.buf = buf, !.need = need]

\* A repeated SOF1 stays armed.
DevByte(b) ==
  CASE dev.st = "HUNT1"   -> [DevIdle EXCEPT !.st = IF b = SOF1 THEN "HUNT2" ELSE "HUNT1"]
    [] dev.st = "HUNT2"   -> [DevIdle EXCEPT !.st = IF b = SOF2 THEN "COLLECT"
                                                    ELSE IF b = SOF1 THEN "HUNT2" ELSE "HUNT1"]
    [] dev.st = "COLLECT" -> DevCollect(b)

\* A partial frame is dropped after so many polls without a byte.
DevEmptyPoll ==
  IF dev.st = "HUNT1" \/ dev.idle + 1 >= InterByte THEN DevIdle ELSE [dev EXCEPT !.idle = @ + 1]

-----------------------------------------------------------------------------
(* The tool: recv_sof_frame *)

HostIdle == [phase |-> "hunt", armed |-> FALSE, buf |-> <<>>, got |-> <<>>]

\* Fault: two SOF1 in a row are not a beginning.
Armed_Once(b) == b = SOF1 /\ ~host.armed
Armed(b) == b = SOF1

HostByte(b) ==
  LET buf == Append(host.buf, b) IN
  CASE host.phase = "hunt" ->
         IF b = SOF2 /\ host.armed THEN [HostIdle EXCEPT !.phase = "header"]
         ELSE [HostIdle EXCEPT !.armed = Armed(b)]
    [] host.phase = "header" ->
         IF Len(buf) < HdrLen THEN [HostIdle EXCEPT !.phase = "header", !.buf = buf]
         ELSE IF buf[3] > MaxPayload THEN HostIdle
         ELSE [HostIdle EXCEPT !.phase = "body", !.buf = buf]
    [] host.phase = "body" ->
         IF Len(buf) < Overhead + buf[3] THEN [HostIdle EXCEPT !.phase = "body", !.buf = buf]
         ELSE [HostIdle EXCEPT !.got = buf]

\* The inter-byte gap has passed within a frame, or after a lone SOF1.
HostGap == IF quiet + 1 >= InterByte THEN HostIdle ELSE [host EXCEPT !.got = <<>>]

\* The command's deadline: the next call hunts from the beginning.
HostDeadline ==
  /\ host.phase # "hunt" \/ host.armed
  /\ host' = HostIdle /\ inStep' = FALSE
  /\ UNCHANGED <<dev, quiet, snd>>

-----------------------------------------------------------------------------
Byte(b) ==
  /\ dev' = DevByte(b) /\ host' = HostByte(b)
  /\ quiet' = 0 /\ UNCHANGED inStep

StrayByte == ~Sending /\ \E b \in Noise : Byte(b) /\ snd' = NoFrame

NextByte == Sending /\ Byte(snd.out[snd.at + 1]) /\ snd' = [snd EXCEPT !.at = @ + 1]

\* Nothing arrives: between frames, or while the sender pauses.
Tick ==
  /\ quiet < InterByte
  /\ Sending => snd.at = 0 \/ quiet < PauseAfter(snd.plan, snd.at)
  /\ dev' = DevEmptyPoll /\ host' = HostGap /\ quiet' = quiet + 1
  /\ inStep' = (inStep \/ quiet' = InterByte)
  /\ snd' = IF Sending /\ snd.at = 0 THEN [snd EXCEPT !.calm = @ \/ quiet' = InterByte] ELSE snd

LineInit ==
  /\ dev = DevIdle /\ host = HostIdle /\ quiet = InterByte /\ inStep = TRUE
  /\ snd = NoFrame

LineNext ==
  \/ \E f \in Frames, setting \in ChunkSettings : SendFrame(f, setting)
  \/ StrayByte \/ NextByte \/ Tick \/ HostDeadline

LineSpec == LineInit /\ [][LineNext]_lineVars

-----------------------------------------------------------------------------
(* Properties *)

\* framing.rs:1, uart.rs:5: the tool mirrors the parser of the firmware.  On
\* any line, with any pauses, both are in the same place and find the same
\* frames, unless a deadline cut the tool short or the gaps that the tool sees
\* are not the line's (framing.rs:9-14).
HostMirrorsDevice ==
  inStep =>
    /\ host.got = dev.got
    /\ dev.st = CASE host.phase = "hunt" -> IF host.armed THEN "HUNT2" ELSE "HUNT1"
                  [] OTHER -> "COLLECT"
    /\ dev.st = "COLLECT" => dev.buf = host.buf

\* A frame sent on a line that has been quiet for long enough is received and
\* decoded by both ends whatever went before, in however many writes it goes
\* out: no pause of the sender is taken for the end of it (uart.rs:19-44,
\* uart_transport.c:61-65).  In a HID report it is the same frame.
QuietFrameArrives ==
  snd.calm /\ snd.at = Len(snd.out) /\ quiet = 0 =>
    /\ DecodeFrame(dev.got) = snd.frame
    /\ inStep => DecodeFrame(host.got) = snd.frame
    /\ DecodeFrame(HidReport(dev.got)) = snd.frame
=============================================================================
