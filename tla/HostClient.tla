----------------------------- MODULE HostClient -----------------------------
(***************************************************************************)
(* The host tool: BootClient (client.rs) with its attempts, the matching   *)
(* of responses (transport/mod.rs), and the flows that drive it (flows.rs),*)
(* over an ordered link that may lose, corrupt or delay any frame.         *)
(*                                                                         *)
(* A flow is the sequence of requests it still has to have answered.  The  *)
(* first is HELLO; its answer says which slot is written, and the rest of  *)
(* the flow is computed from it.  A frame is the record of its fields; its *)
(* payload is the request itself.                                          *)
(***************************************************************************)
EXTENDS BootDecision, FiniteSets

CONSTANTS
  Builds,        \* Builds[v][slot]: the words of version v linked for a slot
  EraseChunk,    \* ERASE_CHUNK in words: the longest ERASE of a flow
  MaxAttempts,   \* MAX_ATTEMPTS
  SeqMod,        \* 256: seq is one byte
  Flows,         \* the flows an operator may start
  MaxRuns,       \* bound: how many times the tool is started
  LinkCap        \* bound: frames in flight in one direction

ASSUME ClientAssumption ==
  /\ EraseChunk \in Nat \ {0} /\ MaxAttempts \in Nat \ {0}
  /\ SeqMod \in Nat /\ MaxAttempts < SeqMod /\ MaxRuns \in Nat /\ LinkCap \in Nat \ {0}
  /\ Flows \subseteq {"flash", "flash_no_boot", "flash_park", "bless", "erase", "verify",
                      "boot", "stay", "probe"}
  /\ \A v \in 1..MaxRuns, x \in Slots :
       Builds[v][x] \in Seq(Word) /\ Len(Builds[v][x]) \in 1..SlotWords

VARIABLES
  host,          \* the running tool: flow, requests left, attempts, seq ...
  toDev, toHost  \* frames in flight

link == <<toDev, toHost>>

-----------------------------------------------------------------------------
(* Requests and the flows they make *)

HelloReq   == [cmd |-> "HELLO"]
Garbled    == [cmd |-> "GARBLED"]            \* the frame CRC does not match
BootReq(stay) == [cmd |-> "BOOT", stay |-> stay]

CeilDiv(a, b) == (a + b - 1) \div b
Least(a, b) == IF a < b THEN a ELSE b

\* n words cut in pieces of at most `size': where piece i starts, how long it is
Pieces(n, size) ==
  [i \in 1..CeilDiv(n, size) |-> [at |-> (i - 1) * size, n |-> Least(size, n - (i - 1) * size)]]

\* erase_region: whole blocks, a bounded number of them per request
EraseReqs(info, n) ==
  LET pieces == Pieces(n, info.block * (IF info.block < EraseChunk THEN EraseChunk \div info.block ELSE 1))
  IN  [i \in DOMAIN pieces |->
         [cmd |-> "ERASE", slot |-> info.slot, at |-> pieces[i].at, n |-> pieces[i].n]]

\* execute_flash's loop: the build in order, from its base
WriteReqs(info, build) ==
  LET pieces == Pieces(Len(build), info.chunk)
  IN  [i \in DOMAIN pieces |->
         [cmd |-> "WRITE", slot |-> info.slot, at |-> pieces[i].at,
          data |-> SubSeq(build, pieces[i].at + 1, pieces[i].at + pieces[i].n)]]

CommitReq(build)    == [cmd |-> "COMMIT", len |-> Len(build), crc |-> build]
CrcReq(slot, build) == [cmd |-> "CRC", slot |-> slot, crc |-> build]

\* plan_flash and execute_flash.  The live CRC read only where XIP is coherent.
FlashPlan(info, build) ==
  EraseReqs(info, CeilDiv(Len(build), info.block) * info.block)
  \o WriteReqs(info, build)
  \o <<CommitReq(build)>>
  \o (IF info.live THEN <<CrcReq(info.slot, build)>> ELSE <<>>)

\* What each flow asks after HELLO.  verify reads the slot the device runs,
\* which is never the one it offers to write.  flash_park is --no-boot through
\* the keyboard's tunnel, which must not leave the module waiting.  A flash
\* without --force asks no more than probe does.
Plan(flow, version, info) ==
  LET build == Builds[version][info.slot] IN
  CASE flow = "flash"         -> FlashPlan(info, build) \o <<BootReq(FALSE)>>
    [] flow = "flash_no_boot" -> FlashPlan(info, build)
    [] flow = "flash_park"    -> FlashPlan(info, build) \o <<BootReq(TRUE)>>
    [] flow = "bless"         -> <<CommitReq(build)>>
    [] flow = "erase"         -> EraseReqs(info, info.cap)
    [] flow = "verify"        -> <<CrcReq(1 - info.slot, Builds[version][1 - info.slot])>>
    [] flow = "boot"          -> <<BootReq(FALSE)>>
    [] flow = "stay"          -> <<BootReq(TRUE)>>
    [] flow = "probe"         -> <<>>

\* write_window: a slot that does not fit the silicon is reported, not tried.
NeedsWriteSlot(flow) == flow \in {"flash", "flash_no_boot", "flash_park", "bless", "erase"}

-----------------------------------------------------------------------------
(* The client *)

Running == host.result = "running"
Waiting == Running /\ host.waiting
Asked   == Head(host.todo)

\* BOOT is sent once; everything else may be sent again.
Attempts(request) == IF request.cmd = "BOOT" THEN 1 ELSE MaxAttempts

\* Fault: the attempts of a flow all carry the same seq.
NextSeq_Same == host.seq
\* next_seq: a fresh seq for every attempt
NextSeq == (host.seq + 1) % SeqMod

\* The tool is started: a new BootClient, on a link whose input was drained.
StartRun(flow) ==
  /\ ~Running /\ host.runs < MaxRuns
  /\ host' = [flow |-> flow, version |-> host.runs + 1, slot |-> NoSlot, todo |-> <<HelloReq>>,
              att |-> 0, seq |-> SeqMod - 1, waiting |-> FALSE, committed |-> FALSE,
              result |-> "running", runs |-> host.runs + 1]
  /\ toHost' = <<>>
  /\ UNCHANGED toDev

\* attempt: one request frame, which may get lost or garbled on its way
Send ==
  /\ Running /\ ~host.waiting
  /\ host' = [host EXCEPT !.waiting = TRUE, !.att = @ + 1, !.seq = NextSeq]
  /\ \/ UNCHANGED toDev
     \/ /\ Len(toDev) < LinkCap
        /\ \E body \in {Asked, Garbled} : toDev' = Append(toDev, [seq |-> NextSeq, body |-> body])
  /\ UNCHANGED toHost

\* Fault: the attempts are not counted.
Retry_Forever == host' = [host EXCEPT !.waiting = FALSE, !.att = 0]

\* Fault: the last attempt is not seen to be the last.
Retry_OneMore ==
  host' = [host EXCEPT !.waiting = FALSE,
             !.result = IF host.att <= Attempts(Asked) THEN @
                        ELSE IF Asked.cmd = "BOOT" THEN "no_response" ELSE "exhausted"]

\* run: an attempt that got no usable answer; the last one ends the flow.
Retry ==
  host' = [host EXCEPT !.waiting = FALSE,
             !.result = IF host.att < Attempts(Asked) THEN @
                        ELSE IF Asked.cmd = "BOOT" THEN "no_response" ELSE "exhausted"]

\* The requests `left' are what remains to be asked.
Advance(left) ==
  [host EXCEPT !.waiting = FALSE, !.att = 0, !.todo = left,
               !.result = IF left = <<>> THEN "done" ELSE @]

\* Fault: whatever arrives and parses is taken for the answer.
Answers_Any(resp) == (resp.cmd = "HELLO") <=> (Asked.cmd = "HELLO")
\* is_response_to
Answers(resp) == resp.cmd = Asked.cmd /\ resp.seq = host.seq

\* The device reports a frame it could not read; its seq is not looked at.
FrameError ==
  /\ Waiting /\ toHost # <<>> /\ Head(toHost).cmd = "FRAME_ERR"
  /\ Retry
  /\ toHost' = Tail(toHost) /\ UNCHANGED toDev

\* xfer: an answer to an earlier attempt is dropped.
DiscardStale ==
  /\ Waiting /\ toHost # <<>> /\ Head(toHost).cmd # "FRAME_ERR" /\ ~Answers(Head(toHost))
  /\ toHost' = Tail(toHost) /\ UNCHANGED <<host, toDev>>

\* A status other than OK is final and is never retried.
Refused ==
  /\ Waiting /\ toHost # <<>> /\ Head(toHost).cmd # "FRAME_ERR" /\ Answers(Head(toHost))
  /\ Head(toHost).status # "OK"
  /\ host' = [host EXCEPT !.waiting = FALSE, !.result = "refused"]
  /\ toHost' = Tail(toHost) /\ UNCHANGED toDev

\* An OK: HELLO yields the rest of the flow, CRC is compared, and a COMMIT is
\* what makes the flow tell its user that the image is installed.
Accepted ==
  /\ Waiting /\ toHost # <<>> /\ Head(toHost).cmd # "FRAME_ERR" /\ Answers(Head(toHost))
  /\ Head(toHost).status = "OK"
  /\ LET value == Head(toHost).value
         next  == Advance(Tail(host.todo))
     IN host' =
          CASE Asked.cmd = "HELLO" ->
                 IF value.cap = 0 /\ NeedsWriteSlot(host.flow)
                 THEN [host EXCEPT !.waiting = FALSE, !.result = "no_slot"]
                 ELSE [Advance(Plan(host.flow, host.version, value)) EXCEPT !.slot = value.slot]
            [] Asked.cmd = "CRC" /\ value # Asked.crc ->
                 [host EXCEPT !.waiting = FALSE, !.result = "mismatch"]
            [] Asked.cmd = "COMMIT" -> [next EXCEPT !.committed = TRUE]
            [] OTHER -> next
  /\ toHost' = Tail(toHost) /\ UNCHANGED toDev

\* The deadline passes; the answer may still be on its way.
Timeout == Waiting /\ Retry /\ UNCHANGED link

HostInit ==
  /\ host = [flow |-> "none", version |-> 0, slot |-> NoSlot, todo |-> <<>>, att |-> 0,
             seq |-> 0, waiting |-> FALSE, committed |-> FALSE, result |-> "none", runs |-> 0]
  /\ toDev = <<>> /\ toHost = <<>>

ClientStep == Send \/ FrameError \/ DiscardStale \/ Refused \/ Accepted \/ Timeout
HostStep   == ClientStep \/ \E flow \in Flows : StartRun(flow)

-----------------------------------------------------------------------------
HostRequests ==
  {HelloReq}
  \union [cmd : {"ERASE"}, slot : Slots, at : Nat, n : Nat \ {0}]
  \union [cmd : {"WRITE"}, slot : Slots, at : Nat, data : Seq(Word) \ {<<>>}]
  \union [cmd : {"COMMIT"}, len : Nat \ {0}, crc : Seq(Word)]
  \union [cmd : {"CRC"}, slot : Slots, crc : Seq(Word)]
  \union [cmd : {"BOOT"}, stay : BOOLEAN]

\* The tool's variables and the frames it sends; it never makes more attempts
\* at a request than the request's policy allows (client.rs:187-190), and BOOT
\* is never left to be asked after anything else (client.rs:13-16).
HostTypeOK ==
  /\ host.flow \in Flows \union {"none"}
  /\ host.version = host.runs /\ host.runs \in 0..MaxRuns
  /\ host.slot \in Slots \union {NoSlot}
  /\ host.todo \in Seq(HostRequests)
  /\ Running => host.todo # <<>> /\ host.att <= Attempts(Asked)
  /\ host.seq \in 0..SeqMod - 1
  /\ host.waiting \in BOOLEAN /\ (host.waiting => Running)
  /\ host.committed \in BOOLEAN
  /\ host.result \in {"none", "running", "done", "refused", "exhausted", "no_response",
                      "mismatch", "no_slot"}
  /\ toDev \in Seq([seq : 0..SeqMod - 1, body : HostRequests \union {Garbled}])
  /\ Len(toDev) <= LinkCap /\ Len(toHost) <= LinkCap
  /\ \A i \in DOMAIN host.todo : host.todo[i].cmd = "BOOT" => i = Len(host.todo)
=============================================================================
