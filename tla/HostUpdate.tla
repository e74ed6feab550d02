----------------------------- MODULE HostUpdate -----------------------------
(***************************************************************************)
(* The host tool updating a device over the link: HostClient and BootCore  *)
(* together.  The device takes a request when it is idle, runs BootCore's  *)
(* actions for it, and answers when the handler returns.  Its flash may    *)
(* fail and its power may go, MaxFaults times.  A frame that reaches a     *)
(* device not in its bootloader reaches nobody, and a reset empties the    *)
(* receive buffer.                                                         *)
(***************************************************************************)
EXTENDS BootCore, HostClient

CONSTANT MaxFaults     \* bound: flash errors and power cuts in all

ASSUME FaultsAssumption == MaxFaults \in Nat

VARIABLES
  serving,      \* seq of the request the device is working on
  faults        \* history: flash errors and power cuts so far

allVars == <<vars, host, link, serving, faults>>

-----------------------------------------------------------------------------
(* The device end of the link *)

Frame == Head(toDev)

\* tr_send: the answer may be lost, and waits for a host that may be late.
Answer(cmd, seq, status, value) ==
  \/ UNCHANGED toHost
  \/ /\ Len(toHost) < LinkCap
     /\ toHost' = Append(toHost, [cmd |-> cmd, seq |-> seq, status |-> status, value |-> value])

\* The main loop hands the next frame to the engine.
Serve(cmd) ==
  /\ Idle /\ toDev # <<>> /\ Frame.body.cmd = cmd
  /\ toDev' = Tail(toDev)
  /\ UNCHANGED <<host, faults>>

\* Answered on the spot, with nothing changed.
AnswerNow(status, value) ==
  /\ Answer(Frame.body.cmd, Frame.seq, status, value)
  /\ UNCHANGED <<vars, serving>>

\* Handed to an operation of the flash; the answer comes when it returns.
AnswerLater == serving' = Frame.seq /\ UNCHANGED toHost

\* ob_core_handle_frame on a frame whose CRC does not match
ServeGarbled ==
  /\ Serve("GARBLED")
  /\ Answer("FRAME_ERR", Frame.seq, "E_CRC", 0)
  /\ UNCHANGED <<vars, serving>>

\* do_hello: who it is and which slot it will write
ServeHello ==
  /\ Serve("HELLO")
  /\ Hello
  /\ Answer("HELLO", Frame.seq, "OK",
            [slot |-> write, cap |-> Capacity(write), block |-> BlockSize, chunk |-> MaxChunk,
             live |-> CrcLive])
  /\ UNCHANGED serving

\* Before HELLO nothing else is done.
ServeUnopened ==
  /\ \E cmd \in {"ERASE", "WRITE", "COMMIT", "CRC", "BOOT"} : Serve(cmd)
  /\ ~s.open
  /\ AnswerNow("E_STATE", 0)

ServeErase ==
  LET b == Frame.body IN
  /\ Serve("ERASE") /\ s.open
  /\ IF WriteRangeOk(b.slot, b.at, b.n)
     THEN Erase(b.slot, b.at, b.at + b.n) /\ AnswerLater
     ELSE AnswerNow("E_ADDR", 0)

ServeWrite ==
  LET b == Frame.body IN
  /\ Serve("WRITE") /\ s.open
  /\ IF ~WriteRangeOk(b.slot, b.at, Len(b.data)) THEN AnswerNow("E_ADDR", 0)
     ELSE IF ~Covers(s.bitmap, b.at, Len(b.data)) THEN AnswerNow("E_NOT_ERASED", 0)
     ELSE Write(b.slot, b.at, b.data) /\ AnswerLater

ServeCommit ==
  LET b == Frame.body IN
  /\ Serve("COMMIT") /\ s.open
  /\ IF CommitAnswer(b.len, b.crc) = "GO"
     THEN Commit(b.len, b.crc) /\ AnswerLater
     ELSE AnswerNow(CommitAnswer(b.len, b.crc), 0)

\* do_crc reads through XIP, whatever that serves.
ServeCrc ==
  LET b == Frame.body IN
  /\ Serve("CRC") /\ s.open
  /\ \E image \in XipImages(b.slot) : AnswerNow("OK", Crc(image, Len(b.crc)))

\* do_boot.  The answer is sent, then the chip resets.
ServeBoot ==
  /\ Idle /\ toDev # <<>> /\ Frame.body.cmd = "BOOT" /\ s.open
  /\ IF Frame.body.stay
     THEN BootStay /\ toDev' = <<>> /\ Answer("BOOT", Frame.seq, "OK", 0)
     ELSE \/ BootApp /\ toDev' = <<>> /\ Answer("BOOT", Frame.seq, "OK", 0)
          \/ /\ \E a \in XipImages(0), b \in XipImages(1), c \in XipCells(0), d \in XipCells(1) :
                  ~BootTrusted(Pair(a, b), Pair(c, d))
             /\ UNCHANGED vars
             /\ toDev' = Tail(toDev) /\ Answer("BOOT", Frame.seq, "E_VERIFY", 0)
  /\ UNCHANGED <<host, serving, faults>>

\* A flash operation succeeds; the last one of a handler answers.  WRITE reads
\* the words back first.
FlashDone ==
  /\ Disarm \/ EraseBlock \/ Program \/ RecErase \/ RecProgram
  /\ IF pc' # "idle" THEN UNCHANGED toHost
     ELSE Answer(req.cmd, serving,
                 IF /\ req.cmd = "WRITE"
                    /\ \E i \in 1..Len(req.data) : img'[req.slot][req.at + i] # req.data[i]
                 THEN "E_FLASH" ELSE "OK", 0)
  /\ UNCHANGED <<host, toDev, serving, faults>>

\* A flash operation fails.
FlashFails ==
  /\ faults < MaxFaults
  /\ MutationFails \/ RecStoreFails
  /\ Answer(req.cmd, serving, "E_FLASH", 0)
  /\ faults' = faults + 1
  /\ UNCHANGED <<host, toDev, serving>>

\* The device leaves or enters its bootloader on its own.
Elsewhere ==
  /\ Decide \/ IdleBoot \/ \E magic \in BOOLEAN : AppResets(magic)
  /\ toDev' = <<>>
  /\ UNCHANGED <<host, toHost, serving, faults>>

DevicePowerCut ==
  /\ faults < MaxFaults
  /\ PowerCut
  /\ toDev' = <<>> /\ faults' = faults + 1
  /\ UNCHANGED <<host, toHost, serving>>

Client ==
  /\ HostStep
  /\ mode # "core" => toDev' = toDev
  /\ UNCHANGED <<vars, serving, faults>>

UpdateInit == Init /\ HostInit /\ serving = 0 /\ faults = 0

Device ==
  \/ ServeGarbled \/ ServeHello \/ ServeUnopened \/ ServeErase \/ ServeWrite \/ ServeCommit
  \/ ServeCrc \/ ServeBoot \/ FlashDone \/ FlashFails \/ Elsewhere \/ DevicePowerCut

UpdateNext == Client \/ Device

UpdateSpec == UpdateInit /\ [][UpdateNext]_allVars

(***************************************************************************)
(* Fairness.  Every wait of the client has a deadline, so the client goes  *)
(* on whatever the device does; a device that was reset decides.           *)
(***************************************************************************)
FairUpdate ==
  /\ UpdateSpec
  /\ WF_allVars(Client /\ Running)
  /\ WF_allVars(Elsewhere /\ mode = "reset")

-----------------------------------------------------------------------------
(* Properties *)

\* What the flow sends: the build for the slot that HELLO named.
Build == IF host.slot = NoSlot THEN <<>> ELSE Builds[host.version][host.slot]

\* flows.rs:426-431 ("commit OK"): once the tool has said so, a reset at any
\* moment launches exactly the build it sent, however many requests and answers
\* were lost, late or repeated on the way.
ReportedMeansInstalled == host.committed => ImageOf(BootSelect(img, rec)) = Build

\* client.rs:6-13: a retry is safe because the late or repeated request does no
\* harm: what the device acknowledged to a flow is in flash for the rest of it.
AckedMeansWritten ==
  LET pending == {host.todo[i] : i \in DOMAIN host.todo}
      writes  == {q \in pending : q.cmd = "WRITE"}
      erasing == \E q \in pending : q.cmd \in {"HELLO", "ERASE"}
  IN  host.flow \in {"flash", "flash_no_boot", "flash_park"} /\ host.slot # NoSlot /\ ~erasing =>
        \A w \in 1..Len(Build) :
          (\A q \in writes : w \notin q.at + 1..q.at + Len(q.data)) =>
             img[host.slot][w] = Build[w]

\* client.rs:9-11: every mutating command is idempotent, so as long as the
\* device neither fails nor loses power a flash is never refused because
\* something was sent twice.
RetriesAreHarmless ==
  host.flow \in {"flash", "flash_no_boot", "flash_park"} /\ host.result = "refused" => faults > 0

\* flows.rs:454-456 ("device is starting the application"): the BOOT that ends
\* a flash is answered before the reset; the build that was sent then starts,
\* even if power goes in between.
FlashedAppStarts ==
  \A b \in {Builds[v][x] : v \in 1..MaxRuns, x \in Slots} :
    (promised /\ host.flow = "flash" /\ host.committed /\ Build = b)
      ~> (mode = "app" /\ ImageOf(running) = b)

\* client.rs:187-205: every flow ends, whatever happens to the device and link.
EveryRunEnds == Running ~> ~Running
=============================================================================
