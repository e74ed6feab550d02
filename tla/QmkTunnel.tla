----------------------------- MODULE QmkTunnel -----------------------------
(***************************************************************************)
(* The QMK tunnel (transport/qmk.rs): the tool reaches a module's UART     *)
(* through a keyboard.  The keyboard reboots the module into its           *)
(* bootloader, forwards bytes while its bridge is open, and is off air     *)
(* meanwhile.  The bootloader starts the application again after a while   *)
(* unless a HELLO succeeds, and once one has it never does on its own.     *)
(*                                                                         *)
(* The keyboard and the module are external: the tool relies on no more of *)
(* them than is stated here.  Time passes in ticks, one per probe; the     *)
(* tool and the keyboard act within the tick in which they can.  A report  *)
(* carries a control record or one whole frame.                            *)
(***************************************************************************)
EXTENDS Naturals, Sequences

CONSTANTS
  AckTimeout,     \* enter_ack_timeout, in ticks
  SettleMin,      \* settle_min: the first probe, from the acknowledgement
  EnterDeadline,  \* enter_deadline: the last one
  AutoBoot,       \* external: the bootloader's idle deadline
  Noise,          \* external: how long the UART is unreliable after a reset
  Watchdog,       \* external: the keyboard closes an unused bridge itself
  SeqMod,         \* 256
  MaxAttempts,    \* MAX_ATTEMPTS of the client
  MaxRuns,        \* bound: how often the tool is started
  MaxKills,       \* bound: how often it is killed, its destructors not run
  MaxMishaps      \* bound: runs with I/O errors, and frames lost, garbled or late after the noise

ASSUME TunnelAssumption ==
  /\ AckTimeout \in Nat \ {0} /\ {SettleMin, EnterDeadline, AutoBoot, Watchdog, SeqMod} \subseteq Nat
  /\ SettleMin < EnterDeadline
  /\ AckTimeout + EnterDeadline < AutoBoot /\ EnterDeadline < Watchdog
  /\ Noise \in Nat /\ MaxAttempts \in Nat \ {0} /\ SeqMod > EnterDeadline + MaxAttempts
  /\ MaxRuns \in Nat /\ MaxKills \in Nat /\ MaxMishaps \in Nat

VARIABLES
  host,           \* QmkTransport, and where the tool is in its use of it
  kb,             \* the keyboard's bridge
  mod,            \* the module
  toKb, toHost,   \* reports in flight
  toMod, fromMod, \* frames on the module's UART
  causes,         \* history: why this tunnel may leave the module parked
  faults          \* history: runs, kills and mishaps so far

tunnelVars == <<host, kb, mod, toKb, toHost, toMod, fromMod, causes, faults>>

-----------------------------------------------------------------------------
(* Frames and reports *)

Hello(seq, by) == [cmd |-> "HELLO", seq |-> seq, by |-> by]
Boot(mode)   == [cmd |-> mode, seq |-> 0, by |-> "boot"]
Stream(f)    == [op |-> "STREAM", frame |-> f]
EnterOp(force) == [op |-> "ENTER", force |-> force]
StatusOp     == [op |-> "STATUS"]
ExitOp       == [op |-> "EXIT"]
Junk         == [op |-> "JUNK"]

AwaitsControl == host.pc \in {"status", "enter"}
AwaitsFrame   == host.pc \in {"probing", "hello", "booting", "dropping"}
Waiting       == AwaitsControl \/ AwaitsFrame \/ host.pc = "gap"
Gone          == host.pc = "gone"

Report == Head(toHost)
Least(a, b) == IF a < b THEN a ELSE b

\* Frames may be lost for nothing while the link is noisy, and at the price
\* of a mishap later.
Noisy == mod.mode = "boot" /\ mod.age < Noise
CanSlip == Noisy \/ faults.mishaps < MaxMishaps
Slip == faults' = IF Noisy THEN faults ELSE [faults EXCEPT !.mishaps = @ + 1]

-----------------------------------------------------------------------------
(* The tool: handshake *)

Fresh ==
  [pc |-> "status", passthrough |-> FALSE, entered |-> FALSE, booted |-> FALSE, force |-> FALSE,
   polled |-> FALSE, wait |-> AckTimeout, since |-> 0, seq |-> 0, att |-> 0, rx |-> <<>>,
   heard |-> "none", killed |-> FALSE, unsaid |-> FALSE]

\* open_hid drains what an earlier run left, then handshake asks for the status.
\* What that run wrote has long reached the module, and the module's answers
\* have come out of the bridge or been dropped there.
StartTool ==
  /\ Gone /\ faults.runs < MaxRuns /\ toKb = <<>> /\ toMod = <<>> /\ fromMod = <<>>
  /\ host' = Fresh
  /\ toHost' = <<>> /\ toKb' = <<StatusOp>>
  /\ faults' = [faults EXCEPT !.runs = @ + 1, !.broken = FALSE]
  /\ UNCHANGED <<kb, mod, toMod, fromMod, causes>>

\* enter: one request to take the module into its bootloader
AskToEnter(force) ==
  /\ host' = [host EXCEPT !.pc = "enter", !.force = force, !.wait = AckTimeout, !.polled = FALSE]
  /\ toKb' = Append(toKb, EnterOp(force))

\* Fault: the clock of a tunnel starts when it is adopted.
OpenSince_Now(elapsed) ==
  host' = [host EXCEPT !.pc = "settle", !.passthrough = TRUE, !.since = 0]

\* Fault: that the tunnel is open is not noted.
OpenSince_Unrecorded(elapsed) ==
  host' = [host EXCEPT !.pc = "settle", !.since = elapsed]

\* The tunnel is open.  The keyboard says for how long: the module's deadline
\* runs from there.
OpenSince(elapsed) ==
  host' = [host EXCEPT !.pc = "settle", !.passthrough = TRUE, !.since = elapsed]

Fail == host' = [host EXCEPT !.pc = "drop"]

\* pump: stream bytes are buffered, whoever waits for what
PumpStream ==
  /\ Waiting /\ toHost # <<>> /\ Report.op = "STREAM"
  /\ host' = [host EXCEPT !.rx = Append(@, Report.frame)]
  /\ toHost' = Tail(toHost) /\ UNCHANGED <<kb, mod, toKb, toMod, fromMod, causes, faults>>

\* pump: a malformed report yields nothing.  pump_byte: neither does a control
\* report, which must not be taken for silence.
PumpIgnored ==
  /\ Waiting /\ toHost # <<>>
  /\ Report.op = "JUNK" \/ (Report.op # "STREAM" /\ ~AwaitsControl)
  /\ toHost' = Tail(toHost) /\ UNCHANGED <<host, kb, mod, toKb, toMod, fromMod, causes, faults>>

\* handshake: the first control report decides.  An open tunnel is adopted.
StatusAnswered ==
  /\ host.pc = "status" /\ toHost # <<>> /\ Report.op \in {"STATUS", "ENTER"}
  /\ IF Report.op # "STATUS" THEN Fail /\ UNCHANGED toKb
     ELSE IF Report.state \in {"settling", "passthru"}
          THEN OpenSince(Report.since) /\ UNCHANGED toKb
          ELSE AskToEnter(FALSE)
  /\ toHost' = Tail(toHost) /\ UNCHANGED <<kb, mod, toMod, fromMod, causes, faults>>

StatusTimeout ==
  /\ host.pc = "status" /\ host.wait = 0
  /\ Fail /\ UNCHANGED <<kb, mod, toKb, toHost, toMod, fromMod, causes, faults>>

Poll ==
  /\ host.pc = "enter" /\ ~host.polled /\ host.wait > 0
  /\ host' = [host EXCEPT !.polled = TRUE]
  /\ toKb' = Append(toKb, StatusOp)
  /\ UNCHANGED <<kb, mod, toHost, toMod, fromMod, causes, faults>>

\* NoAck: also what a module already in its bootloader looks like, so the
\* second request is forced.
NoAck == IF host.force THEN Fail /\ UNCHANGED toKb ELSE AskToEnter(TRUE)

\* enter: the deferred answer is authoritative when it is a refusal; otherwise
\* the status tells.
EnterAnswered ==
  /\ host.pc = "enter" /\ toHost # <<>> /\ Report.op \in {"STATUS", "ENTER"}
  /\ CASE Report.op = "ENTER" /\ Report.answer = "NO_ACK" -> NoAck
       [] Report.op = "ENTER" /\ Report.answer = "E_STATE" -> Fail /\ UNCHANGED toKb
       [] Report.op = "STATUS" /\ Report.state \in {"settling", "passthru"} ->
            OpenSince(Report.since) /\ UNCHANGED toKb
       [] Report.op = "STATUS" /\ Report.state = "error" -> NoAck
       [] OTHER -> UNCHANGED <<host, toKb>>
  /\ toHost' = Tail(toHost) /\ UNCHANGED <<kb, mod, toMod, fromMod, causes, faults>>

EnterGivesUp ==
  /\ host.pc = "enter" /\ host.wait = 0
  /\ NoAck
  /\ UNCHANGED <<kb, mod, toHost, toMod, fromMod, causes, faults>>

-----------------------------------------------------------------------------
(* The tool: probing and using the link *)

SendFrame(f) == toKb' = Append(toKb, Stream(f))

Settled ==
  /\ host.pc = "settle" /\ host.since >= SettleMin
  /\ host' = [host EXCEPT !.pc = "probe"]
  /\ UNCHANGED <<kb, mod, toKb, toHost, toMod, fromMod, causes, faults>>

\* Fault: all probes carry one seq, the client's first.
NextProbe_Same == host.seq
\* seq.wrapping_sub: from 0xFF downwards
NextProbe == (host.seq + SeqMod - 1) % SeqMod

\* Fault: the tool goes on probing.
ProbeExpired_Never == FALSE
\* give_up: before the module starts its application again
ProbeExpired == host.since >= EnterDeadline

\* probe_until_alive: what is buffered is older than this probe
Probe ==
  /\ host.pc = "probe"
  /\ IF ProbeExpired THEN Fail /\ UNCHANGED toKb
     ELSE /\ host' = [host EXCEPT !.pc = "probing", !.wait = 1, !.rx = <<>>, !.seq = NextProbe]
          /\ SendFrame(Hello(NextProbe, "probe"))
  /\ UNCHANGED <<kb, mod, toHost, toMod, fromMod, causes, faults>>

\* xfer matches; a frame-error report does not disable the deadline.
ProbeHeard(f) == f.cmd = "HELLO" /\ f.seq = host.seq

\* The answer to a probe: the link is ready for the client's HELLO.
ProbeAnswered ==
  /\ host.pc = "probing" /\ host.rx # <<>>
  /\ LET f == Head(host.rx) IN
     IF ProbeHeard(f)
     THEN /\ host' = [host EXCEPT !.pc = "hello", !.entered = TRUE, !.rx = <<>>, !.wait = 1,
                                  !.att = 1, !.seq = 0]
          /\ SendFrame(Hello(0, "client"))
          /\ causes' = {}
     ELSE /\ host' = [host EXCEPT !.rx = Tail(@),
                                  !.pc = IF f.cmd = "FRAME_ERR" THEN "gap" ELSE @]
          /\ UNCHANGED <<toKb, causes>>
  /\ UNCHANGED <<kb, mod, toHost, toMod, fromMod, faults>>

ProbeUnanswered ==
  /\ host.pc \in {"probing", "gap"} /\ host.wait = 0
  /\ host' = [host EXCEPT !.pc = "probe"]
  /\ UNCHANGED <<kb, mod, toKb, toHost, toMod, fromMod, causes, faults>>

\* The client's HELLO once more, with the next seq, or the flow fails.
HelloAgain ==
  IF host.att = MaxAttempts THEN Fail /\ UNCHANGED toKb
  ELSE /\ host' = [host EXCEPT !.att = @ + 1, !.seq = @ + 1, !.wait = 1,
                               !.rx = IF @ = <<>> THEN @ ELSE Tail(@)]
       /\ SendFrame(Hello(host.seq + 1, "client"))

\* xfer on behalf of the client
HelloAnswered ==
  /\ host.pc = "hello" /\ host.rx # <<>>
  /\ LET f == Head(host.rx) IN
     IF f.cmd = "FRAME_ERR" THEN HelloAgain
     ELSE /\ host' = IF f.cmd = "HELLO" /\ f.seq = host.seq
                     THEN [host EXCEPT !.pc = "flow", !.rx = Tail(@), !.heard = f.by]
                     ELSE [host EXCEPT !.rx = Tail(@)]
          /\ UNCHANGED toKb
  /\ UNCHANGED <<kb, mod, toHost, toMod, fromMod, causes, faults>>

HelloTimeout ==
  /\ host.pc = "hello" /\ host.wait = 0 /\ host.rx = <<>>
  /\ HelloAgain
  /\ UNCHANGED <<kb, mod, toHost, toMod, fromMod, causes, faults>>

\* Fault: the flow goes on after its BOOT.
FlowEnds_GoesOn ==
  /\ host.pc = "flow"
  /\ \/ Fail /\ UNCHANGED toKb
     \/ \E mode \in {"BOOT_APP", "BOOT_STAY"} :
          /\ host' = [host EXCEPT !.booted = TRUE, !.wait = 1]
          /\ SendFrame(Boot(mode))
  /\ UNCHANGED <<kb, mod, toHost, toMod, fromMod, causes, faults>>

\* A flow ends: probe, verify, a dry run, or an error in the middle; or with
\* an explicit BOOT, which send_frame remembers.
FlowEnds ==
  /\ host.pc = "flow"
  /\ \/ Fail /\ UNCHANGED toKb
     \/ \E mode \in {"BOOT_APP", "BOOT_STAY"} :
          /\ host' = [host EXCEPT !.pc = "booting", !.booted = TRUE, !.wait = 1]
          /\ SendFrame(Boot(mode))
  /\ UNCHANGED <<kb, mod, toHost, toMod, fromMod, causes, faults>>

\* BOOT is asked once.  Anything the device says, or its silence, ends it.
BootEnds ==
  /\ host.pc = "booting" /\ (host.rx # <<>> \/ host.wait = 0)
  /\ Fail /\ UNCHANGED <<kb, mod, toKb, toHost, toMod, fromMod, causes, faults>>

-----------------------------------------------------------------------------
(* The tool: the ways out *)

\* Fault: a module that a flow has not booted is left in its bootloader.
MustBoot_Never == FALSE
\* drop: a session disabled the auto-boot, and nobody has asked for a BOOT.
MustBoot == host.entered /\ ~host.booted

\* Fault: the bridge is closed only when a HELLO succeeded.
MustExit_Entered == host.entered
\* drop: nothing to undo unless the module was taken off air
MustExit == host.passthrough

DropTunnel ==
  /\ host.pc = "drop"
  /\ IF ~MustExit THEN host' = [host EXCEPT !.pc = "gone"] /\ UNCHANGED toKb
     ELSE IF MustBoot
     THEN host' = [host EXCEPT !.pc = "dropping", !.wait = 1, !.rx = <<>>] /\ SendFrame(Boot("BOOT_APP"))
     ELSE host' = [host EXCEPT !.pc = "gone"] /\ toKb' = Append(toKb, ExitOp)
  /\ UNCHANGED <<kb, mod, toHost, toMod, fromMod, causes, faults>>

\* The answer may never come; then the bridge is closed.
DropEnds ==
  /\ host.pc = "dropping" /\ (host.rx # <<>> \/ host.wait = 0)
  /\ host' = [host EXCEPT !.pc = "gone"] /\ toKb' = Append(toKb, ExitOp)
  /\ UNCHANGED <<kb, mod, toHost, toMod, fromMod, causes, faults>>

\* A report cannot be written or read; for the rest of the run others may fail
\* as well, as they do when the keyboard was unplugged.
Break ==
  /\ faults.broken \/ faults.mishaps < MaxMishaps
  /\ faults' = [faults EXCEPT !.mishaps = IF faults.broken THEN @ ELSE @ + 1, !.broken = TRUE]

\* The error runs up to the destructor.
IoError ==
  /\ host.pc \in {"status", "enter", "probe", "probing", "hello", "flow", "booting"} /\ Break
  /\ Fail
  /\ causes' = IF host.entered THEN causes ELSE causes \union {"io"}
  /\ UNCHANGED <<kb, mod, toKb, toHost, toMod, fromMod>>

\* send_frame remembers the flow's BOOT before it fails to write it.
BootUnwritten ==
  /\ host.pc = "flow" /\ Break
  /\ host' = [host EXCEPT !.pc = "drop", !.booted = TRUE]
  /\ causes' = causes \union {"boot unwritten"}
  /\ UNCHANGED <<kb, mod, toKb, toHost, toMod, fromMod>>

\* drop passes over its own errors: a BOOT that it could not write (it waits for
\* the answer all the same), an answer that it cannot read, and an EXIT.
DropBootUnwritten ==
  /\ host.pc = "drop" /\ MustExit /\ MustBoot /\ Break
  /\ host' = [host EXCEPT !.pc = "dropping", !.wait = 1, !.rx = <<>>]
  /\ causes' = causes \union {"teardown unwritten"}
  /\ UNCHANGED <<kb, mod, toKb, toHost, toMod, fromMod>>

DropUnread ==
  /\ host.pc = "dropping" /\ Break
  /\ host' = [host EXCEPT !.wait = 0]
  /\ UNCHANGED <<kb, mod, toKb, toHost, toMod, fromMod, causes>>

ExitUnwritten ==
  /\ \/ host.pc = "drop" /\ MustExit /\ ~MustBoot
     \/ host.pc = "dropping" /\ (host.rx # <<>> \/ host.wait = 0)
  /\ Break
  /\ host' = [host EXCEPT !.pc = "gone", !.unsaid = TRUE]
  /\ UNCHANGED <<kb, mod, toKb, toHost, toMod, fromMod, causes>>

\* The process is killed, and no destructor runs.
Killed ==
  /\ ~Gone /\ faults.kills < MaxKills
  /\ host' = [host EXCEPT !.pc = "gone", !.killed = TRUE]
  /\ causes' = causes \union {"killed"}
  /\ faults' = [faults EXCEPT !.kills = @ + 1]
  /\ UNCHANGED <<kb, mod, toKb, toHost, toMod, fromMod>>

-----------------------------------------------------------------------------
(* The keyboard (external) *)

Took == toKb # <<>> /\ toKb' = Tail(toKb)
Op   == Head(toKb)
Say(answer) == toHost' = Append(toHost, [op |-> "ENTER", answer |-> answer])
OpenBridge == [kb EXCEPT !.state = "settling", !.since = 0, !.watch = 0]

\* The status of the bridge, unless the interface is not what it was taken for.
KbStatus ==
  /\ Took /\ Op.op = "STATUS"
  /\ kb' = [kb EXCEPT !.watch = 0]
  /\ \/ toHost' = Append(toHost, [op |-> "STATUS", state |-> kb.state, since |-> kb.since])
        /\ UNCHANGED faults
     \/ faults.mishaps < MaxMishaps /\ faults' = [faults EXCEPT !.mishaps = @ + 1]
        /\ UNCHANGED toHost
  /\ UNCHANGED <<host, mod, toMod, fromMod, causes>>

\* The answer to ENTER is deferred until the module replies, unless forced.  A
\* keyboard that is already busy with the module may refuse.
KbEnter ==
  /\ Took /\ Op.op = "ENTER"
  /\ \/ kb.state \in {"idle", "error"} /\ ~Op.force
        /\ kb' = [kb EXCEPT !.state = "asking", !.watch = 0] /\ UNCHANGED toHost
     \/ kb.state \in {"idle", "error", "asking"} /\ Op.force
        /\ kb' = [OpenBridge EXCEPT !.acked = FALSE] /\ Say("OK")
     \/ kb.state \notin {"idle", "error"} /\ UNCHANGED kb /\ Say("E_STATE")
  /\ UNCHANGED <<host, mod, toMod, fromMod, causes, faults>>

\* A frame is forwarded while the bridge is open, whole, garbled or not at all.
KbStream ==
  LET f == Op.frame
      harm == IF f.cmd \in {"BOOT_APP", "BOOT_STAY"} THEN causes \union {"boot"} ELSE causes
  IN
  /\ Took /\ Op.op = "STREAM"
  /\ kb' = [kb EXCEPT !.watch = 0]
  /\ \/ kb.state # "passthru" /\ UNCHANGED <<toMod, causes, faults>>
     \/ kb.state = "passthru" /\ toMod' = Append(toMod, f) /\ UNCHANGED <<causes, faults>>
     \/ kb.state = "passthru" /\ CanSlip /\ Slip /\ causes' = harm
        /\ \/ UNCHANGED toMod
           \/ toMod' = Append(toMod, [f EXCEPT !.cmd = "GARBLED"])
  /\ UNCHANGED <<host, mod, toHost, fromMod>>

KbExit ==
  /\ Took /\ Op.op = "EXIT"
  /\ kb' = [kb EXCEPT !.state = "idle", !.acked = FALSE]
  /\ UNCHANGED <<host, mod, toHost, toMod, fromMod, causes, faults>>

\* `asked': it is there because a keyboard asked, and nobody has told it to leave
Restarted(asked) == [mode |-> "boot", session |-> FALSE, age |-> 0, asked |-> asked]
Launched(asked)  == [mode |-> "app", session |-> FALSE, age |-> 0, asked |-> asked]

\* The application agrees, and reboots into the bootloader.
KbAcked ==
  /\ kb.state = "asking" /\ mod.mode = "app"
  /\ kb' = [OpenBridge EXCEPT !.acked = TRUE]
  /\ mod' = Restarted(TRUE)
  /\ Say("OK")
  /\ UNCHANGED <<host, toKb, toMod, fromMod, causes, faults>>

\* No acknowledgement: the module does not listen, or its answer got lost.
KbNoAck ==
  /\ kb.state = "asking"
  /\ kb' = [kb EXCEPT !.state = "error"]
  /\ mod' \in {mod} \union (IF mod.mode = "app" THEN {Restarted(FALSE)} ELSE {})
  /\ Say("NO_ACK")
  /\ UNCHANGED <<host, toKb, toMod, fromMod, causes, faults>>

KbSettled ==
  /\ kb.state = "settling" /\ kb.since >= SettleMin
  /\ kb' = [kb EXCEPT !.state = "passthru"]
  /\ UNCHANGED <<host, mod, toKb, toHost, toMod, fromMod, causes, faults>>

KbWatchdog ==
  /\ kb.state \in {"settling", "passthru"} /\ kb.watch >= Watchdog
  /\ kb' = [kb EXCEPT !.state = "idle", !.acked = FALSE]
  /\ UNCHANGED <<host, mod, toKb, toHost, toMod, fromMod, causes, faults>>

\* An answer of the module comes out of the bridge, or a malformed report.
KbForward ==
  /\ fromMod # <<>> /\ fromMod' = Tail(fromMod)
  /\ \/ kb.state = "passthru" /\ toHost' = Append(toHost, Stream(Head(fromMod)))
        /\ UNCHANGED <<causes, faults>>
     \/ kb.state # "passthru" /\ UNCHANGED <<toHost, causes, faults>>
     \/ /\ kb.state = "passthru" /\ CanSlip /\ Slip
        /\ \E junk \in BOOLEAN : toHost' = IF junk THEN Append(toHost, Junk) ELSE toHost
        /\ causes' = IF host.entered THEN causes ELSE causes \union {"answer"}
  /\ UNCHANGED <<host, kb, mod, toKb, toMod>>

-----------------------------------------------------------------------------
(* The module (external to the tool; its engine is BootCore) *)

Reply(f, cmd) == fromMod' = Append(fromMod, [f EXCEPT !.cmd = cmd])

ModServes ==
  /\ toMod # <<>>
  /\ LET f == Head(toMod) IN
     IF mod.mode = "app" THEN UNCHANGED <<mod, fromMod>>
     ELSE CASE f.cmd = "HELLO"   -> mod' = [mod EXCEPT !.session = TRUE] /\ Reply(f, "HELLO")
            [] f.cmd = "GARBLED" -> Reply(f, "FRAME_ERR") /\ UNCHANGED mod
            [] OTHER ->
                 /\ mod' = IF ~mod.session THEN mod
                           ELSE IF f.cmd = "BOOT_STAY" THEN Restarted(FALSE) ELSE Launched(FALSE)
                 /\ Reply(f, "BOOT")
  /\ toMod' = Tail(toMod)
  /\ UNCHANGED <<host, kb, toKb, toHost, causes, faults>>

\* The idle deadline of the bootloader's main loop
ModAutoBoots ==
  /\ mod.mode = "boot" /\ ~mod.session /\ mod.age >= AutoBoot
  /\ mod' = Launched(mod.asked)
  /\ UNCHANGED <<host, kb, toKb, toHost, toMod, fromMod, causes, faults>>

-----------------------------------------------------------------------------
\* Time passes when nobody has anything to do but wait.  An answer may come
\* after the tick in which it was given.
Tick ==
  /\ toKb = <<>> /\ toMod = <<>>
  /\ \/ Gone \/ host.pc = "flow"
     \/ host.pc = "settle" /\ host.since < SettleMin
     \/ /\ Waiting /\ host.wait > 0 /\ toHost = <<>> /\ (AwaitsFrame => host.rx = <<>>)
        /\ host.pc = "enter" => host.polled
  /\ ~(kb.state = "settling" /\ kb.since >= SettleMin)
  /\ ~(mod.mode = "boot" /\ ~mod.session /\ mod.age >= AutoBoot)
  /\ IF fromMod = <<>> THEN UNCHANGED <<causes, faults>>
     ELSE /\ CanSlip /\ Slip
          /\ causes' = IF host.entered THEN causes ELSE causes \union {"answer"}
  /\ host' = IF Gone THEN host
             ELSE [host EXCEPT !.wait = IF @ > 0 THEN @ - 1 ELSE 0, !.polled = FALSE,
                               !.since = Least(@ + 1, EnterDeadline)]
  /\ kb' = [kb EXCEPT !.since = Least(@ + 1, EnterDeadline),
                      !.watch = IF host.pc = "flow" THEN 0 ELSE Least(@ + 1, Watchdog)]
  /\ mod' = [mod EXCEPT !.age = IF mod.mode = "boot" THEN Least(@ + 1, AutoBoot) ELSE 0]
  /\ UNCHANGED <<toKb, toHost, toMod, fromMod>>

TunnelInit ==
  /\ host = [Fresh EXCEPT !.pc = "gone"]
  /\ kb = [state |-> "idle", since |-> 0, watch |-> 0, acked |-> FALSE]
  /\ mod \in {Launched(FALSE), Restarted(FALSE)}
  /\ toKb = <<>> /\ toHost = <<>> /\ toMod = <<>> /\ fromMod = <<>>
  /\ causes = {} /\ faults = [runs |-> 0, kills |-> 0, mishaps |-> 0, broken |-> FALSE]

ToolStep ==
  \/ PumpStream \/ PumpIgnored \/ StatusAnswered \/ StatusTimeout \/ Poll \/ EnterAnswered
  \/ EnterGivesUp \/ Settled \/ Probe \/ ProbeAnswered \/ ProbeUnanswered \/ HelloAnswered
  \/ HelloTimeout \/ FlowEnds \/ BootEnds \/ DropTunnel \/ DropEnds
KeyboardStep ==
  \/ KbStatus \/ KbEnter \/ KbStream \/ KbExit \/ KbAcked \/ KbNoAck \/ KbSettled \/ KbWatchdog
  \/ KbForward
ModuleStep == ModServes \/ ModAutoBoots

ToolFault ==
  \/ IoError \/ BootUnwritten \/ DropBootUnwritten \/ DropUnread \/ ExitUnwritten \/ Killed

TunnelNext == ToolStep \/ StartTool \/ ToolFault \/ KeyboardStep \/ ModuleStep \/ Tick

\* Each party goes on by itself, and time passes.
TunnelSpec ==
  /\ TunnelInit /\ [][TunnelNext]_tunnelVars
  /\ WF_tunnelVars(ToolStep) /\ WF_tunnelVars(KeyboardStep) /\ WF_tunnelVars(ModuleStep)
  /\ WF_tunnelVars(Tick)
-----------------------------------------------------------------------------
(* Properties *)

\* The tool's variables.  It never hears an answer it did not wait for, and
\* what it knows of the module is ordered: booted and entered only in a tunnel
\* that was opened (qmk.rs:190-207).
TunnelTypeOK ==
  /\ host.pc \in {"status", "enter", "settle", "probe", "probing", "gap", "hello", "flow",
                  "booting", "drop", "dropping", "gone"}
  /\ host.booted => host.entered
  /\ host.entered => host.passthrough
  /\ host.wait \in 0..AckTimeout \union {1} /\ host.since \in 0..EnterDeadline
  /\ host.seq \in 0..SeqMod - 1 /\ host.att \in 0..MaxAttempts
  /\ kb.state \in {"idle", "asking", "settling", "passthru", "error"}
  /\ mod.session => mod.mode = "boot"

Quiet  == toKb = <<>> /\ toMod = <<>>
Parked == mod.mode = "boot" /\ mod.session

\* The tool leaves a module in its bootloader with the auto-boot disabled only
\* when it was killed, its BOOT was lost on the wire or could not be written, or
\* it never got to hear that its probe had succeeded (qmk.rs:498-520, 528-545).
ParkedOnlyByAccident == Gone /\ Quiet /\ Parked => causes # {}

\* A run that has noted its tunnel has given the keyboard back when its last
\* report is read, whatever failed in between, unless it was killed or the EXIT
\* itself could not be written (qmk.rs:547-555).  These two, and an ENTER that was
\* given up before the keyboard said that it had succeeded, are left to the
\* keyboard's watchdog: KeyboardComesBack.
KeyboardGivenBack ==
  Gone /\ host.passthrough /\ ~host.killed /\ ~host.unsaid /\ Quiet => kb.state = "idle"

\* No flow begins unless a HELLO of this tool has disabled the auto-boot: from
\* there on the module cannot leave before it is told to (qmk.rs:431-433).
FlowHoldsModule == host.pc = "flow" => Parked

\* A module that acknowledged this tunnel has not started its application
\* again while the tool still probes it (qmk.rs:21-31, 180-182, 447-455).
ProbesBeatAutoBoot == host.pc \in {"probing", "gap"} /\ kb.acked /\ mod.asked => mod.mode = "boot"

\* The answer to a probe that comes late is never taken for the answer to the
\* client's HELLO (qmk.rs:443-445).
ClientHearsItsOwn == host.heard \in {"none", "client"}

\* Every tunnel is closed and the keyboard back on air in the end, also when
\* the tool gave up on an ENTER that the module acknowledges later, when its
\* EXIT could not be written and when it was killed (qmk.rs:194-198).
KeyboardComesBack == ~Gone ~> (Gone /\ kb.state \in {"idle", "error"})

\* What qmk.rs:528-531 says: "every exit path - including a read-only probe, a
\* refused dry run, or an error anywhere in a flow - has to put the module
\* back".  A tool that was killed has no exit path.
ExitPutsModuleBack == Gone /\ ~host.killed /\ Quiet => ~Parked

\* The same sentence, of "an error anywhere in a flow": no frame was lost, and the
\* only report that could not be written is the flow's.
FlowErrorPutsModuleBack ==
  Gone /\ ~host.unsaid /\ Quiet /\ causes \subseteq {"boot unwritten"} => ~Parked
=============================================================================
