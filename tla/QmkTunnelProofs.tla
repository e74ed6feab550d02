-------------------------- MODULE QmkTunnelProofs --------------------------
(***************************************************************************)
(* Proofs about the QMK tunnel: for every timing of the keyboard and the   *)
(* bootloader that TunnelAssumption admits, and any number of runs of the  *)
(* tool, kills and I/O errors.                                             *)
(*                                                                         *)
(* The argument follows the frames.  Everything a probe puts in flight     *)
(* carries its seq, so what the tool takes for an answer tells where the   *)
(* keyboard and the module stand; and what is queued for the keyboard when *)
(* the tool is gone tells where they will stand once it has been read.     *)
(***************************************************************************)
EXTENDS QmkTunnel, TLAPS

-----------------------------------------------------------------------------
(* Queues *)

\* No item of the queue is one of `bad'.
Clean(q, bad) == \A i \in 1..Len(q) : q[i] \notin bad

\* One of `goal' is queued, none of `before' is ahead of it and none of `after'
\* behind it.
Through(q, before, goal, after) ==
  \E i \in 1..Len(q) :
    /\ q[i] \in goal
    /\ \A j \in 1..Len(q) : (j < i => q[j] \notin before) /\ (j > i => q[j] \notin after)

-----------------------------------------------------------------------------
(* Types *)

\* A probe counts down from the top and the client up from 0: they never meet.
\* A BOOT is not a HELLO.
Numbered(f) ==
  /\ f.by = "client" => f.seq < MaxAttempts
  /\ f.by = "probe" => f.seq + EnterDeadline >= SeqMod
  /\ f.cmd = "HELLO" => f.by # "boot"

Frames(cmds) ==
  {f \in [cmd : cmds, seq : 0..SeqMod - 1, by : {"probe", "client", "boot"}] : Numbered(f)}

Requests == Frames({"HELLO", "BOOT_APP", "BOOT_STAY"})
Arriving == Frames({"HELLO", "BOOT_APP", "BOOT_STAY", "GARBLED"})
Answers  == Frames({"HELLO", "FRAME_ERR", "BOOT"})

Ops ==
  [op : {"STREAM"}, frame : Requests] \union [op : {"ENTER"}, force : BOOLEAN]
  \union {StatusOp, ExitOp}
BridgeStates == {"idle", "asking", "settling", "passthru", "error"}
Reports ==
  [op : {"STREAM"}, frame : Answers] \union {Junk}
  \union [op : {"ENTER"}, answer : {"OK", "NO_ACK", "E_STATE"}]
  \union [op : {"STATUS"}, state : BridgeStates, since : 0..EnterDeadline]

Tools ==
  [pc : {"status", "enter", "settle", "probe", "probing", "gap", "hello", "flow",
         "booting", "drop", "dropping", "gone"},
   passthrough : BOOLEAN, entered : BOOLEAN, booted : BOOLEAN, force : BOOLEAN,
   polled : BOOLEAN, wait : 0..AckTimeout, since : 0..EnterDeadline, seq : 0..SeqMod - 1,
   att : 0..MaxAttempts, rx : Seq(Answers), heard : {"none", "client"}, killed : BOOLEAN,
   unsaid : BOOLEAN]
Bridges == [state : BridgeStates, since : 0..EnterDeadline, watch : 0..Watchdog, acked : BOOLEAN]
Modules == [mode : {"boot", "app"}, session : BOOLEAN, age : 0..AutoBoot, asked : BOOLEAN]

QueuesOK ==
  /\ toKb \in Seq(Ops) /\ toHost \in Seq(Reports)
  /\ toMod \in Seq(Arriving) /\ fromMod \in Seq(Answers)

TypesOK ==
  /\ host \in Tools /\ kb \in Bridges /\ mod \in Modules /\ QueuesOK
  /\ mod.session => mod.mode = "boot"

\* Where the tool is tells what it knows.
PhaseOK ==
  /\ host.booted => host.entered
  /\ host.entered => host.passthrough
  /\ host.pc \in {"status", "enter"} => ~host.passthrough
  /\ host.pc \in {"settle", "probe", "probing", "gap"} => host.passthrough /\ ~host.entered
  /\ host.pc \in {"hello", "flow", "booting", "dropping"} => host.entered
  /\ host.pc \in {"hello", "flow", "dropping"} => ~host.booted
  /\ host.pc = "booting" => host.booted
  /\ host.killed \/ host.unsaid => Gone
  /\ host.pc \in {"probing", "gap", "hello", "booting", "dropping"} => host.wait <= 1
  /\ host.pc = "hello" => host.att # 0 /\ host.seq = host.att - 1

\* Every probe takes a tick of the window.
ProbeOK ==
  /\ host.pc \in {"status", "enter", "settle"} => host.seq = 0
  /\ host.pc = "probe" => host.seq = 0 \/ SeqMod <= host.seq + host.since
  /\ host.pc \in {"probing", "gap"} =>
       /\ host.seq # 0 /\ SeqMod <= host.seq + host.since + host.wait
       /\ host.wait > 0 => host.since < EnterDeadline

-----------------------------------------------------------------------------
(* What is in the queues *)

StreamOps == {x \in Ops : x.op = "STREAM"}
OtherOps  == {x \in Ops : x.op # "STREAM"}
HelloOps  == {x \in Ops : x.op = "STREAM" /\ x.frame.cmd = "HELLO"}
BootOps   == {x \in Ops : x.op = "STREAM" /\ x.frame.cmd # "HELLO"}
EnterOps  == {x \in Ops : x.op = "ENTER"}
ExitOps   == {x \in Ops : x.op = "EXIT"}

HelloFrames == {f \in Arriving : f.cmd = "HELLO"}
BootFrames  == {f \in Arriving : f.cmd \in {"BOOT_APP", "BOOT_STAY"}}

HelloAnswers == {f \in Answers : f.cmd = "HELLO"}
OtherAnswers == {f \in Answers : f.cmd # "HELLO"}

StreamReports == {x \in Reports : x.op = "STREAM"}
HelloReports  == {x \in Reports : x.op = "STREAM" /\ x.frame.cmd = "HELLO"}
OtherReports  == {x \in Reports : x.op = "STREAM" /\ x.frame.cmd # "HELLO"}

\* By their seq
Before(s) == {f \in Arriving \union Answers : f.seq < s}
Of(s)     == {f \in Arriving \union Answers : f.seq = s}
ReportsBefore(s) == {x \in Reports : x.op = "STREAM" /\ x.frame.seq < s}
ReportsOf(s)     == {x \in Reports : x.op = "STREAM" /\ x.frame.seq = s}

\* The answer to the probe that carries `s'
AnswersOf(s)       == {f \in Answers : f.cmd = "HELLO" /\ f.seq = s}
AnswerReportsOf(s) == {x \in Reports : x.op = "STREAM" /\ x.frame.cmd = "HELLO" /\ x.frame.seq = s}

-----------------------------------------------------------------------------
(* The module and its clock *)

InUse == host.pc \in {"status", "enter", "settle", "probe", "probing", "gap", "hello", "flow"}

\* Before its way out the tool never tells the module to leave, and whatever
\* says that a HELLO succeeded is true.
HoldOK ==
  /\ InUse => Clean(toKb, BootOps) /\ Clean(toMod, BootFrames)
  /\ InUse /\ ~Parked =>
       Clean(fromMod, HelloAnswers) /\ Clean(toHost, HelloReports) /\ Clean(host.rx, HelloAnswers)
  /\ FlowHoldsModule

Asked == kb.acked /\ mod.asked
InTime(since) == mod.mode = "boot" /\ mod.age <= since
Known(since) == InTime(since) \/ since = EnterDeadline

\* STATUS reports that say the tunnel is younger than the module's stay
Belated == {x \in Reports : x.op = "STATUS" /\ ~Known(x.since)}

\* The module has been in its bootloader for no longer than the keyboard says
\* that the tunnel is open, and the tool that it has been.
ClockOK ==
  /\ kb.acked => kb.state \in {"settling", "passthru"}
  /\ Asked => Known(kb.since)
  /\ Asked /\ AwaitsControl => Clean(toHost, Belated)
  /\ Asked /\ host.pc \in {"settle", "probe"} => Known(host.since)
  /\ Asked /\ host.pc \in {"probing", "gap"} => InTime(host.since)

-----------------------------------------------------------------------------
(* The keyboard *)

\* An EXIT is on its way, or the keyboard has read it, and nothing behind it
\* takes the module off air again.
GivenBackOK ==
  /\ ~Gone => Clean(toKb, ExitOps)
  /\ Gone /\ host.passthrough /\ ~host.killed /\ ~host.unsaid =>
       \/ Through(toKb, {}, ExitOps, EnterOps)
       \/ Clean(toKb, EnterOps) /\ kb.state = "idle"

NoFrames ==
  /\ Clean(toKb, StreamOps) /\ Clean(toHost, StreamReports)
  /\ toMod = <<>> /\ fromMod = <<>> /\ host.rx = <<>>

\* The probes' frames: at most the last request is a probe, and nothing that
\* left the keyboard's queue is younger than the current probe.
SeqOK ==
  /\ host.pc \in {"status", "enter", "settle"} => NoFrames
  /\ host.pc = "probe" /\ host.seq = 0 => NoFrames
  /\ host.pc = "probe" => Clean(toKb, StreamOps)
  /\ host.pc \in {"probing", "gap"} /\ host.wait = 0 => Clean(toKb, StreamOps)
  /\ host.pc \in {"probe", "probing", "gap"} =>
       /\ Clean(toMod, Before(host.seq)) /\ Clean(fromMod, Before(host.seq))
       /\ Clean(toHost, ReportsBefore(host.seq))
  /\ host.pc \in {"probing", "gap"} =>
       \/ Clean(toKb, StreamOps)
       \/ Through(toKb, StreamOps, {Stream(Hello(host.seq, "probe"))}, Ops)

\* The bridge is open and nothing else is queued for it.
Serving == toKb = <<>> /\ kb.state = "passthru" /\ kb.watch + host.wait <= 1

\* Nothing that left the keyboard's queue carries the seq of the current probe.
Unseen ==
  /\ Clean(toMod, Of(host.seq)) /\ Clean(fromMod, Of(host.seq))
  /\ Clean(toHost, ReportsOf(host.seq)) /\ Clean(host.rx, Of(host.seq))

\* What carries it has come through the open bridge.
PassedOK == host.pc \in {"probing", "gap"} => Serving \/ Unseen

\* While the tool uses the module the keyboard does not close the bridge: it has
\* time for the BOOT of the way out.
BridgeOK ==
  host.pc \in {"hello", "flow", "booting", "drop"} /\ host.entered =>
    /\ kb.state = "passthru" /\ kb.watch <= 1
    /\ Clean(toKb, OtherOps)
    /\ host.pc \in {"hello", "booting"} /\ host.wait > 0 => toKb # <<>> \/ kb.watch = 0

-----------------------------------------------------------------------------
(* Who answers for a parked module, when nothing has gone wrong *)

Unparked == Clean(toKb, HelloOps) /\ Clean(toMod, HelloFrames) /\ ~Parked

\* A BOOT is on its way behind every HELLO and will be obeyed, or has been.
Leaving ==
  \/ Through(toKb, ExitOps, BootOps, HelloOps) /\ kb.state = "passthru" /\ kb.watch <= 1
  \/ Clean(toKb, HelloOps) /\ Through(toMod, {}, BootFrames, HelloFrames)
  \/ Unparked

Silent == fromMod = <<>> /\ Clean(toHost, StreamReports)

\* The answer to the current probe is on its way to the tool, and nothing makes
\* the tool stop waiting for it.
AnswerComes ==
  /\ ~Clean(fromMod, AnswersOf(host.seq)) \/ ~Clean(toHost, AnswerReportsOf(host.seq))
     \/ ~Clean(host.rx, AnswersOf(host.seq))
  /\ Clean(fromMod, OtherAnswers) /\ Clean(toHost, OtherReports) /\ Clean(host.rx, OtherAnswers)

\* The current probe is with the keyboard, or on its way to the module, or has
\* been served or lost.
ProbeOut ==
  \/ toMod = <<>> /\ Silent /\ host.rx = <<>> /\ ~Parked
  \/ /\ Len(toMod) = 1 /\ Head(toMod).seq = host.seq /\ Clean(toKb, HelloOps)
     /\ Silent /\ host.rx = <<>> /\ ~Parked
  \/ toMod = <<>> /\ Clean(toKb, HelloOps) /\ (Parked => AnswerComes)

ParkOK ==
  causes = {} =>
    /\ host.pc \in {"status", "enter", "settle", "probe", "gap"} => Unparked
    /\ host.pc \in {"drop", "gone"} /\ ~host.entered => Unparked
    /\ host.pc \in {"status", "enter", "settle", "probe"} => toMod = <<>> /\ Silent
    /\ host.pc \in {"probing", "gap"} /\ host.wait = 0 => Unparked /\ toMod = <<>> /\ Silent
    /\ host.pc = "gap" => toMod = <<>>
    /\ host.pc = "probing" => ProbeOut
    /\ host.booted \/ host.pc = "dropping" \/ (Gone /\ host.entered) => Leaving

TunnelInv ==
  /\ TypesOK /\ PhaseOK /\ ProbeOK /\ HoldOK /\ ClockOK /\ GivenBackOK
  /\ SeqOK /\ PassedOK /\ BridgeOK /\ ParkOK

-----------------------------------------------------------------------------
(* Lemmas about queues *)

\* What an empty queue, a longer and a shorter one hold of a set.
LEMMA CleanQueue ==
  ASSUME NEW S, NEW q \in Seq(S), NEW bad
  PROVE  /\ Clean(<<>>, bad)
         /\ \A x \in S : Clean(Append(q, x), bad) <=> Clean(q, bad) /\ x \notin bad
         /\ q # <<>> => (Clean(q, bad) <=> Head(q) \notin bad /\ Clean(Tail(q), bad))
<1>1. Clean(<<>>, bad)
  BY DEF Clean
<1>2. ASSUME NEW x \in S
      PROVE  Clean(Append(q, x), bad) <=> Clean(q, bad) /\ x \notin bad
  <2>1. /\ Len(Append(q, x)) = Len(q) + 1 /\ Len(q) \in Nat
        /\ Append(q, x)[Len(q) + 1] = x
        /\ \A i \in 1..Len(q) : Append(q, x)[i] = q[i]
    OBVIOUS
  <2> QED BY <2>1 DEF Clean
<1>3. ASSUME q # <<>>
      PROVE  Clean(q, bad) <=> Head(q) \notin bad /\ Clean(Tail(q), bad)
  <2>1. /\ Len(q) \in Nat /\ Len(q) >= 1 /\ Len(Tail(q)) = Len(q) - 1 /\ Head(q) = q[1]
        /\ \A i \in 1..Len(q) - 1 : Tail(q)[i] = q[i + 1]
    BY <1>3
  <2>2. Clean(q, bad) => Head(q) \notin bad /\ Clean(Tail(q), bad)
    BY <2>1 DEF Clean
  <2>3. ASSUME Head(q) \notin bad, Clean(Tail(q), bad), NEW i \in 1..Len(q)
        PROVE  q[i] \notin bad
    <3>1. CASE i = 1
      BY <3>1, <2>1, <2>3
    <3>2. CASE i # 1
      <4>1. i - 1 \in 1..Len(q) - 1 /\ q[i] = Tail(q)[i - 1]
        BY <3>2, <2>1
      <4> QED BY <4>1, <2>1, <2>3 DEF Clean
    <3> QED BY <3>1, <3>2
  <2> QED BY <2>2, <2>3 DEF Clean
<1> QED BY <1>1, <1>2, <1>3

\* What is appended to a queue is of its kind.
LEMMA Longer ==
  ASSUME NEW S, NEW q \in Seq(S), NEW x \in S
  PROVE  Append(q, x) \in Seq(S)
OBVIOUS

\* A queue with none of its own kind of items is empty.
LEMMA CleanOfAll ==
  ASSUME NEW S, NEW q \in Seq(S), Clean(q, S)
  PROVE  q = <<>>
<1>1. Len(q) \in Nat /\ \A i \in 1..Len(q) : q[i] \in S
  OBVIOUS
<1>2. ~(1 \in 1..Len(q))
  BY <1>1 DEF Clean
<1> QED BY <1>1, <1>2

\* The item that is waited for stays queued until it is the first; it may be
\* queued last.
LEMMA ThroughQueue ==
  ASSUME NEW S, NEW q \in Seq(S), NEW before, NEW goal, NEW after
  PROVE  /\ ~Through(<<>>, before, goal, after)
         /\ \A x \in S \ after :
              Through(q, before, goal, after) => Through(Append(q, x), before, goal, after)
         /\ \A x \in goal \intersect S :
              Clean(q, before) => Through(Append(q, x), before, goal, after)
         /\ Through(q, before, goal, after) =>
              /\ q # <<>>
              /\ Head(q) \in before => Head(q) \in goal
              /\ \/ Through(Tail(q), before, goal, after)
                 \/ Head(q) \in goal /\ Clean(Tail(q), after)
<1>1. ~Through(<<>>, before, goal, after)
  BY DEF Through
<1>2. ASSUME NEW x \in S
      PROVE  /\ Len(Append(q, x)) = Len(q) + 1 /\ Len(q) \in Nat
             /\ Append(q, x)[Len(q) + 1] = x
             /\ \A i \in 1..Len(q) : Append(q, x)[i] = q[i]
  OBVIOUS
<1>3. ASSUME NEW x \in S \ after, Through(q, before, goal, after)
      PROVE  Through(Append(q, x), before, goal, after)
  BY <1>2, <1>3 DEF Through
<1>4. ASSUME NEW x \in goal \intersect S, Clean(q, before)
      PROVE  Through(Append(q, x), before, goal, after)
  BY <1>2, <1>4 DEF Through, Clean
<1>5. ASSUME Through(q, before, goal, after)
      PROVE  /\ q # <<>>
             /\ Head(q) \in before => Head(q) \in goal
             /\ \/ Through(Tail(q), before, goal, after)
                \/ Head(q) \in goal /\ Clean(Tail(q), after)
  <2>1. PICK i \in 1..Len(q) :
          /\ q[i] \in goal
          /\ \A j \in 1..Len(q) : (j < i => q[j] \notin before) /\ (j > i => q[j] \notin after)
    BY <1>5 DEF Through
  <2>2. /\ q # <<>> /\ Len(q) \in Nat /\ Len(q) >= 1
        /\ Len(Tail(q)) = Len(q) - 1 /\ Head(q) = q[1] /\ i \in Nat
    BY <2>1
  <2>3. \A j \in 1..Len(q) - 1 : Tail(q)[j] = q[j + 1]
    BY <2>2
  <2>4. CASE i = 1
    BY <2>1, <2>2, <2>3, <2>4 DEF Clean
  <2>5. CASE i # 1
    <3>1. i - 1 \in 1..Len(Tail(q)) /\ Tail(q)[i - 1] \in goal
      BY <2>1, <2>2, <2>3, <2>5
    <3>2. ASSUME NEW j \in 1..Len(Tail(q))
          PROVE  (j < i - 1 => Tail(q)[j] \notin before) /\ (j > i - 1 => Tail(q)[j] \notin after)
      <4>1. j + 1 \in 1..Len(q) /\ Tail(q)[j] = q[j + 1]
        BY <2>2, <2>3
      <4> QED BY <4>1, <2>1, <2>2
    <3>3. Through(Tail(q), before, goal, after)
      BY <3>1, <3>2 DEF Through
    <3>4. Head(q) \notin before
      BY <2>1, <2>2, <2>5
    <3> QED BY <2>2, <3>3, <3>4
  <2> QED BY <2>4, <2>5
<1> QED BY <1>1, <1>3, <1>4, <1>5

-----------------------------------------------------------------------------
(* Lemmas about the items *)

\* The tool's requests.
LEMMA NewOps ==
  /\ StatusOp \in Ops /\ ExitOp \in Ops /\ \A force \in BOOLEAN : EnterOp(force) \in Ops
  /\ StatusOp.op = "STATUS" /\ ExitOp.op = "EXIT" /\ \A force \in BOOLEAN : EnterOp(force).op = "ENTER"
  /\ \A f \in Requests : Stream(f) \in Ops /\ Stream(f).op = "STREAM" /\ Stream(f).frame = f
BY DEF Ops, StatusOp, ExitOp, EnterOp, Stream

\* The kinds of requests.
LEMMA OpKinds ==
  ASSUME NEW x \in Ops
  PROVE  /\ x.op \in {"STREAM", "ENTER", "STATUS", "EXIT"}
         /\ x.op = "STREAM" => x.frame \in Requests
         /\ x.op = "ENTER" => x.force \in BOOLEAN
         /\ x \in StreamOps <=> x.op = "STREAM"
         /\ x \in OtherOps <=> x.op # "STREAM"
         /\ x \in HelloOps <=> x.op = "STREAM" /\ x.frame.cmd = "HELLO"
         /\ x \in BootOps <=> x.op = "STREAM" /\ x.frame.cmd # "HELLO"
         /\ x \in EnterOps <=> x.op = "ENTER"
         /\ x \in ExitOps <=> x.op = "EXIT"
<1>1. x.op \in {"STREAM", "ENTER", "STATUS", "EXIT"}
  BY DEF Ops, StatusOp, ExitOp
<1>2. x.op = "STREAM" => x.frame \in Requests
  BY DEF Ops, StatusOp, ExitOp
<1>3. x.op = "ENTER" => x.force \in BOOLEAN
  BY DEF Ops, StatusOp, ExitOp
<1> QED BY <1>1, <1>2, <1>3 DEF StreamOps, OtherOps, HelloOps, BootOps, EnterOps, ExitOps

\* The fields of a frame, whatever it is.
LEMMA FrameFields ==
  ASSUME NEW cmds, NEW f \in Frames(cmds)
  PROVE  /\ f.cmd \in cmds /\ f.seq \in 0..SeqMod - 1 /\ f.by \in {"probe", "client", "boot"}
         /\ Numbered(f)
BY DEF Frames

\* Frames on the module's UART.
LEMMA FrameKinds ==
  ASSUME NEW f \in Arriving
  PROVE  /\ f.cmd \in {"HELLO", "BOOT_APP", "BOOT_STAY", "GARBLED"} /\ f.seq \in 0..SeqMod - 1
         /\ f \in HelloFrames <=> f.cmd = "HELLO"
         /\ f \in BootFrames <=> f.cmd \in {"BOOT_APP", "BOOT_STAY"}
         /\ \A s : f \in Before(s) <=> f.seq < s
         /\ \A s : f \in Of(s) <=> f.seq = s
<1>1. f.cmd \in {"HELLO", "BOOT_APP", "BOOT_STAY", "GARBLED"} /\ f.seq \in 0..SeqMod - 1
  BY FrameFields DEF Arriving
<1> QED BY <1>1 DEF HelloFrames, BootFrames, Before, Of

\* The module's answers.
LEMMA AnswerKinds ==
  ASSUME NEW f \in Answers
  PROVE  /\ f.cmd \in {"HELLO", "FRAME_ERR", "BOOT"} /\ f.seq \in 0..SeqMod - 1
         /\ f \in HelloAnswers <=> f.cmd = "HELLO"
         /\ f \in OtherAnswers <=> f.cmd # "HELLO"
         /\ \A s : f \in Before(s) <=> f.seq < s
         /\ \A s : f \in Of(s) <=> f.seq = s
         /\ \A s : f \in AnswersOf(s) <=> f.cmd = "HELLO" /\ f.seq = s
<1>1. f.cmd \in {"HELLO", "FRAME_ERR", "BOOT"} /\ f.seq \in 0..SeqMod - 1
  BY FrameFields DEF Answers
<1> QED BY <1>1 DEF HelloAnswers, OtherAnswers, Before, Of, AnswersOf

\* The kinds of reports.
LEMMA ReportKinds ==
  ASSUME NEW x \in Reports
  PROVE  /\ x.op \in {"STREAM", "ENTER", "STATUS", "JUNK"}
         /\ x.op = "STREAM" => x.frame \in Answers
         /\ x.op = "STATUS" => x.since \in 0..EnterDeadline /\ x.state \in BridgeStates
         /\ x \in StreamReports <=> x.op = "STREAM"
         /\ x \in HelloReports <=> x.op = "STREAM" /\ x.frame.cmd = "HELLO"
         /\ x \in OtherReports <=> x.op = "STREAM" /\ x.frame.cmd # "HELLO"
         /\ x \in Belated <=> x.op = "STATUS" /\ ~Known(x.since)
         /\ \A s : x \in ReportsBefore(s) <=> x.op = "STREAM" /\ x.frame.seq < s
         /\ \A s : x \in ReportsOf(s) <=> x.op = "STREAM" /\ x.frame.seq = s
         /\ \A s : x \in AnswerReportsOf(s) <=>
                     x.op = "STREAM" /\ x.frame.cmd = "HELLO" /\ x.frame.seq = s
<1>1. x.op \in {"STREAM", "ENTER", "STATUS", "JUNK"}
  BY DEF Reports, Junk
<1>2. x.op = "STREAM" => x.frame \in Answers
  BY DEF Reports, Junk
<1>3. x.op = "STATUS" => x.since \in 0..EnterDeadline /\ x.state \in BridgeStates
  BY DEF Reports, Junk
<1> QED BY <1>1, <1>2, <1>3 DEF StreamReports, HelloReports, OtherReports, Belated, ReportsBefore,
                                ReportsOf, AnswerReportsOf

\* What becomes of a frame on its way: forwarded, garbled or answered.
LEMMA NewFrames ==
  /\ Requests \subseteq Arriving
  /\ \A f \in Requests : [f EXCEPT !.cmd = "GARBLED"] \in Arriving
  /\ \A f \in Arriving : /\ [f EXCEPT !.cmd = "FRAME_ERR"] \in Answers
                         /\ [f EXCEPT !.cmd = "BOOT"] \in Answers
                         /\ f.cmd = "HELLO" => [f EXCEPT !.cmd = "HELLO"] \in Answers
  /\ \A f \in Arriving : \A cmd : /\ [f EXCEPT !.cmd = cmd].cmd = cmd
                                  /\ [f EXCEPT !.cmd = cmd].seq = f.seq
BY DEF Requests, Arriving, Answers, Frames, Numbered

\* The reports that the keyboard makes.
LEMMA NewReports ==
  /\ \A f \in Answers : Stream(f) \in Reports /\ Stream(f).op = "STREAM" /\ Stream(f).frame = f
  /\ Junk \in Reports /\ Junk.op = "JUNK"
  /\ \A a \in {"OK", "NO_ACK", "E_STATE"} :
       [op |-> "ENTER", answer |-> a] \in Reports
  /\ \A s \in BridgeStates, t \in 0..EnterDeadline :
       [op |-> "STATUS", state |-> s, since |-> t] \in Reports
BY DEF Stream, Junk, Reports

\* The frames that the tool writes.
LEMMA Written ==
  /\ \A s \in 0..SeqMod - 1 : s + EnterDeadline >= SeqMod => Hello(s, "probe") \in Requests
  /\ \A s \in Nat : s < MaxAttempts => Hello(s, "client") \in Requests
  /\ \A mode \in {"BOOT_APP", "BOOT_STAY"} : Boot(mode) \in Requests
  /\ \A s, by : Hello(s, by).cmd = "HELLO" /\ Hello(s, by).seq = s
  /\ \A mode : Boot(mode).cmd = mode
<1>1. ASSUME NEW s \in 0..SeqMod - 1, s + EnterDeadline >= SeqMod
      PROVE  Hello(s, "probe") \in Requests
  BY <1>1 DEF Requests, Frames, Numbered, Hello
<1>2. ASSUME NEW s \in Nat, s < MaxAttempts
      PROVE  Hello(s, "client") \in Requests
  BY <1>2, TunnelAssumption DEF TunnelAssumption, Requests, Frames, Numbered, Hello
<1>3. ASSUME NEW mode \in {"BOOT_APP", "BOOT_STAY"}
      PROVE  Boot(mode) \in Requests
  <2>1. 0 \in 0..SeqMod - 1
    BY TunnelAssumption DEF TunnelAssumption
  <2> QED BY <2>1 DEF Requests, Frames, Numbered, Boot
<1>4. \A s, by : Hello(s, by).cmd = "HELLO" /\ Hello(s, by).seq = s
  BY DEF Hello
<1>5. \A mode : Boot(mode).cmd = mode
  BY DEF Boot
<1> QED BY <1>1, <1>2, <1>3, <1>4, <1>5

-----------------------------------------------------------------------------
(* Types *)

\* What the assumption says of the numbers.
LEMMA Timing ==
  /\ AckTimeout \in Nat /\ AckTimeout >= 1
  /\ SettleMin \in Nat /\ EnterDeadline \in Nat /\ EnterDeadline >= 1
  /\ AutoBoot \in Nat /\ EnterDeadline < AutoBoot
  /\ Watchdog \in Nat /\ Watchdog >= 2 /\ Noise \in Nat
  /\ MaxAttempts \in Nat /\ MaxAttempts >= 1
  /\ SeqMod \in Nat /\ SeqMod > EnterDeadline + MaxAttempts
BY TunnelAssumption DEF TunnelAssumption

\* The seq of the next probe: down from the top.
LEMMA NextProbeIs ==
  ASSUME host \in Tools
  PROVE  /\ NextProbe = IF host.seq = 0 THEN SeqMod - 1 ELSE host.seq - 1
         /\ NextProbe \in 0..SeqMod - 1
<1>1. host.seq \in 0..SeqMod - 1
  BY DEF Tools
<1>2. SeqMod \in Nat /\ SeqMod > 1
  BY Timing
<1>3. CASE host.seq = 0
  BY <1>1, <1>2, <1>3 DEF NextProbe
<1>4. CASE host.seq # 0
  <2>1. host.seq + SeqMod - 1 = SeqMod + (host.seq - 1) /\ host.seq - 1 \in 0..SeqMod - 1
    BY <1>1, <1>2, <1>4
  <2>2. (SeqMod + (host.seq - 1)) % SeqMod = host.seq - 1
    BY <1>2, <2>1
  <2> QED BY <1>4, <2>1, <2>2 DEF NextProbe
<1> QED BY <1>3, <1>4

\* The least of two numbers of a range is in it.
LEMMA LeastIs ==
  ASSUME NEW a \in Nat, NEW b \in Nat
  PROVE  /\ Least(a, b) \in 0..b /\ Least(a, b) <= a
         /\ Least(a, b) = a \/ Least(a, b) = b
BY DEF Least

\* Initially.
LEMMA TypesInit == TunnelInit => TypesOK
<1> SUFFICES ASSUME TunnelInit PROVE TypesOK
  OBVIOUS
<1>1. host \in Tools
  <2>1. Fresh \in Tools
    BY Timing DEF Fresh, Tools
  <2>2. [Fresh EXCEPT !.pc = "gone"] \in Tools
    BY <2>1 DEF Tools
  <2> QED BY <2>2 DEF TunnelInit
<1>2. kb \in Bridges
  BY Timing DEF TunnelInit, Bridges, BridgeStates
<1>3. mod \in Modules /\ (mod.session => mod.mode = "boot")
  <2>1. 0 \in 0..AutoBoot
    BY Timing
  <2>2. Launched(FALSE) \in Modules /\ Restarted(FALSE) \in Modules
    BY <2>1 DEF Launched, Restarted, Modules
  <2>3. ~Launched(FALSE).session /\ ~Restarted(FALSE).session
    BY DEF Launched, Restarted
  <2> QED BY <2>2, <2>3 DEF TunnelInit
<1>4. QueuesOK
  BY DEF TunnelInit, QueuesOK
<1> QED BY <1>1, <1>2, <1>3, <1>4 DEF TypesOK

\* Reading a report keeps the types.
LEMMA TypesRead ==
  ASSUME TypesOK, toHost # <<>>
  PROVE  Report \in Reports /\ Tail(toHost) \in Seq(Reports)
BY DEF TypesOK, QueuesOK, Report

\* Another request is a request.
LEMMA TypesWrite ==
  ASSUME TypesOK
  PROVE  /\ Append(toKb, StatusOp) \in Seq(Ops) /\ Append(toKb, ExitOp) \in Seq(Ops)
         /\ \A force \in BOOLEAN : Append(toKb, EnterOp(force)) \in Seq(Ops)
         /\ \A f \in Requests : Append(toKb, Stream(f)) \in Seq(Ops)
BY NewOps DEF TypesOK, QueuesOK

\* The fields of the tool's variables.
LEMMA ToolFields ==
  ASSUME TypesOK
  PROVE  /\ host.passthrough \in BOOLEAN /\ host.entered \in BOOLEAN /\ host.booted \in BOOLEAN
         /\ host.force \in BOOLEAN /\ host.polled \in BOOLEAN /\ host.killed \in BOOLEAN
         /\ host.wait \in Nat /\ host.wait <= AckTimeout
         /\ host.since \in Nat /\ host.since <= EnterDeadline
         /\ host.seq \in Nat /\ host.seq < SeqMod
         /\ host.att \in Nat /\ host.att <= MaxAttempts
         /\ host.rx \in Seq(Answers) /\ host.heard \in {"none", "client"}
BY Timing DEF TypesOK, Tools

\* A step of the tool's handshake keeps the types.
LEMMA TypesHandshake ==
  ASSUME TypesOK, PhaseOK, ProbeOK,
         \/ StartTool \/ PumpStream \/ PumpIgnored \/ StatusAnswered \/ StatusTimeout \/ Poll
         \/ EnterAnswered \/ EnterGivesUp \/ Settled
  PROVE  TypesOK'
<1>1. TypesOK' <=> host' \in Tools /\ toKb' \in Seq(Ops) /\ toHost' \in Seq(Reports)
  BY DEF TypesOK, QueuesOK, StartTool, PumpStream, PumpIgnored, StatusAnswered, StatusTimeout, Poll,
         EnterAnswered, EnterGivesUp, Settled
<1>2. host \in Tools /\ toKb \in Seq(Ops) /\ toHost \in Seq(Reports)
  BY DEF TypesOK, QueuesOK
<1>3. CASE StartTool
  <2>1. host' \in Tools
    BY <1>3, Timing DEF StartTool, Fresh, Tools
  <2>2. toKb' \in Seq(Ops) /\ toHost' \in Seq(Reports)
    BY <1>3, NewOps DEF StartTool
  <2> QED BY <1>1, <2>1, <2>2
<1>4. CASE PumpStream
  <2>1. Report.frame \in Answers /\ toHost' \in Seq(Reports)
    BY <1>4, TypesRead, ReportKinds DEF PumpStream
  <2>2. Append(host.rx, Report.frame) \in Seq(Answers)
    BY <2>1, ToolFields
  <2>3. host' \in Tools
    BY <1>2, <1>4, <2>2 DEF PumpStream, Tools
  <2> QED BY <1>1, <1>2, <1>4, <2>1, <2>3 DEF PumpStream
<1>5. CASE PumpIgnored
  BY <1>1, <1>2, <1>5, TypesRead DEF PumpIgnored
<1>6. ASSUME NEW force \in BOOLEAN, AskToEnter(force)
      PROVE  host' \in Tools /\ toKb' \in Seq(Ops)
  <2>1. force = TRUE \/ force = FALSE
    OBVIOUS
  <2>2. AckTimeout \in 0..AckTimeout
    BY Timing
  <2>3. host' \in Tools
    BY <1>2, <1>6, <2>1, <2>2 DEF AskToEnter, Tools
  <2>4. toKb' \in Seq(Ops)
    BY <1>6, TypesWrite DEF AskToEnter
  <2> QED BY <2>3, <2>4
<1>7. ASSUME Fail
      PROVE  host' \in Tools
  BY <1>2, <1>7 DEF Fail, Tools
<1>8. ASSUME NEW elapsed \in 0..EnterDeadline, OpenSince(elapsed)
      PROVE  host' \in Tools
  BY <1>2, <1>8 DEF OpenSince, Tools
<1>9. ASSUME NoAck
      PROVE  host' \in Tools /\ toKb' \in Seq(Ops)
  BY <1>2, <1>6, <1>7, <1>9 DEF NoAck
<1>10. CASE StatusAnswered
  <2>1. Report \in Reports /\ toHost' \in Seq(Reports)
    BY <1>10, TypesRead DEF StatusAnswered
  <2>2. Report.op = "STATUS" => Report.since \in 0..EnterDeadline
    BY <2>1, ReportKinds
  <2> QED BY <1>1, <1>2, <1>6, <1>7, <1>8, <1>10, <2>1, <2>2 DEF StatusAnswered
<1>11. CASE StatusTimeout
  BY <1>1, <1>2, <1>7, <1>11 DEF StatusTimeout
<1>12. CASE Poll
  BY <1>1, <1>2, <1>12, TypesWrite DEF Poll, Tools
<1>13. CASE EnterAnswered
  <2>1. Report \in Reports /\ toHost' \in Seq(Reports)
    BY <1>13, TypesRead DEF EnterAnswered
  <2>2. Report.op = "STATUS" => Report.since \in 0..EnterDeadline
    BY <2>1, ReportKinds
  <2>3. host' \in Tools /\ toKb' \in Seq(Ops)
    BY <1>2, <1>7, <1>8, <1>9, <1>13, <2>2 DEF EnterAnswered
  <2> QED BY <1>1, <2>1, <2>3
<1>14. CASE EnterGivesUp
  BY <1>1, <1>2, <1>9, <1>14 DEF EnterGivesUp
<1>15. CASE Settled
  BY <1>1, <1>2, <1>15 DEF Settled, Tools
<1> QED BY <1>3, <1>4, <1>5, <1>10, <1>11, <1>12, <1>13, <1>14, <1>15

\* Counting down by one in each of fewer than deadline ticks stays above zero.
LEMMA CountsDown ==
  ASSUME NEW s \in Nat, NEW t \in Nat, NEW n \in Nat, NEW modulus \in Nat, NEW deadline \in Nat,
         modulus > deadline, t < deadline, s = 0 \/ modulus <= s + t,
         n = IF s = 0 THEN modulus - 1 ELSE s - 1
  PROVE  modulus <= n + t + 1 /\ n + deadline >= modulus /\ n # 0
<1>1. CASE s = 0
  BY <1>1
<1>2. CASE s # 0
  BY <1>2
<1> QED BY <1>1, <1>2

\* The probe that is written next belongs to this tunnel.
LEMMA ProbeIsOne ==
  ASSUME TypesOK, ProbeOK, host.pc = "probe", ~ProbeExpired
  PROVE  /\ Hello(NextProbe, "probe") \in Requests
         /\ NextProbe \in 0..SeqMod - 1 /\ NextProbe # 0
         /\ SeqMod <= NextProbe + host.since + 1
         /\ host.seq # 0 => NextProbe = host.seq - 1
         /\ host.since < EnterDeadline
<1>1. host \in Tools
  BY DEF TypesOK
<1>2. NextProbe \in 0..SeqMod - 1 /\ NextProbe = IF host.seq = 0 THEN SeqMod - 1 ELSE host.seq - 1
  BY <1>1, NextProbeIs
<1>3. host.since < EnterDeadline /\ (host.seq = 0 \/ SeqMod <= host.seq + host.since)
  BY ToolFields, Timing DEF ProbeExpired, ProbeOK
<1>4. SeqMod <= NextProbe + host.since + 1 /\ NextProbe + EnterDeadline >= SeqMod /\ NextProbe # 0
  <2>1. /\ host.seq \in Nat /\ host.since \in Nat /\ NextProbe \in Nat
        /\ EnterDeadline \in Nat /\ SeqMod \in Nat /\ SeqMod > EnterDeadline
    BY <1>1, <1>2, ToolFields, Timing
  <2> QED BY <1>2, <1>3, <2>1, CountsDown
<1>5. host.seq # 0 => NextProbe = host.seq - 1
  BY <1>2
<1> QED BY <1>2, <1>3, <1>4, <1>5, Written

\* The client's next HELLO, while it may ask once more.
LEMMA AgainIsOne ==
  ASSUME TypesOK, PhaseOK, host.pc = "hello", host.att # MaxAttempts
  PROVE  /\ Hello(host.seq + 1, "client") \in Requests
         /\ host.att + 1 \in 0..MaxAttempts /\ host.seq + 1 \in 0..SeqMod - 1
         /\ host.seq + 1 = host.att
<1>1. host.att \in Nat /\ host.att < MaxAttempts /\ host.seq = host.att - 1 /\ host.att # 0
  BY ToolFields, Timing DEF PhaseOK
<1>2. host.seq + 1 = host.att /\ host.seq + 1 \in Nat /\ host.seq + 1 < MaxAttempts
  BY <1>1, Timing
<1> QED BY <1>1, <1>2, Timing, Written

\* The answer that a client's HELLO is matched with is to a HELLO of the client.
LEMMA HeardIsOwn ==
  ASSUME TypesOK, PhaseOK, host.pc = "hello",
         NEW f \in Answers, f.cmd = "HELLO", f.seq = host.seq
  PROVE  f.by = "client"
<1>1. f.by \in {"probe", "client", "boot"} /\ Numbered(f) /\ f.seq \in 0..SeqMod - 1
  BY FrameFields DEF Answers
<1>2. host.seq < MaxAttempts
  BY ToolFields, Timing DEF PhaseOK
<1> QED BY <1>1, <1>2, Timing DEF Numbered

\* A step of the tool after the handshake keeps the types.
LEMMA TypesUse ==
  ASSUME TypesOK, PhaseOK, ProbeOK,
         \/ Probe \/ ProbeAnswered \/ ProbeUnanswered \/ HelloAnswered \/ HelloTimeout \/ FlowEnds
         \/ BootEnds \/ DropTunnel \/ DropEnds \/ ToolFault
  PROVE  TypesOK'
<1>1. TypesOK' <=> host' \in Tools /\ toKb' \in Seq(Ops)
  BY DEF TypesOK, QueuesOK, Probe, ProbeAnswered, ProbeUnanswered, HelloAnswered, HelloTimeout,
         FlowEnds, BootEnds, DropTunnel, DropEnds, IoError, BootUnwritten, DropBootUnwritten, DropUnread,
         ExitUnwritten, Killed, ToolFault
<1>2. host \in Tools /\ toKb \in Seq(Ops)
  BY DEF TypesOK, QueuesOK
<1>3. 1 \in 0..AckTimeout /\ 1 \in 0..MaxAttempts /\ 0 \in 0..SeqMod - 1 /\ <<>> \in Seq(Answers)
  BY Timing
<1>4. host.rx # <<>> => Head(host.rx) \in Answers /\ Tail(host.rx) \in Seq(Answers)
  BY ToolFields
<1>5. ASSUME Fail
      PROVE  host' \in Tools
  BY <1>2, <1>5 DEF Fail, Tools
<1>6. CASE Probe
  <2>1. CASE ProbeExpired
    BY <1>1, <1>2, <1>5, <1>6, <2>1 DEF Probe
  <2>2. CASE ~ProbeExpired
    <3>1. NextProbe \in 0..SeqMod - 1 /\ toKb' \in Seq(Ops)
      BY <1>6, <2>2, ProbeIsOne, TypesWrite DEF Probe, SendFrame
    <3>2. host' = [host EXCEPT !.pc = "probing", !.wait = 1, !.rx = <<>>, !.seq = NextProbe]
      BY <1>6, <2>2 DEF Probe
    <3>3. host' \in Tools
      BY <1>2, <1>3, <3>1, <3>2 DEF Tools
    <3> QED BY <1>1, <3>1, <3>3
  <2> QED BY <2>1, <2>2
<1>7. CASE ProbeAnswered
  <2>1. CASE ProbeHeard(Head(host.rx))
    <3>1. host' = [host EXCEPT !.pc = "hello", !.entered = TRUE, !.rx = <<>>, !.wait = 1,
                               !.att = 1, !.seq = 0]
      BY <1>7, <2>1 DEF ProbeAnswered
    <3>2. host' \in Tools
      BY <1>2, <1>3, <3>1 DEF Tools
    <3>3. toKb' \in Seq(Ops)
      <4>1. 0 \in Nat /\ 0 < MaxAttempts
        BY Timing
      <4>2. Hello(0, "client") \in Requests
        BY <4>1, Written
      <4>3. toKb' = Append(toKb, Stream(Hello(0, "client")))
        BY <1>7, <2>1 DEF ProbeAnswered, SendFrame
      <4> QED BY <4>2, <4>3, TypesWrite
    <3> QED BY <1>1, <3>2, <3>3
  <2>2. CASE ~ProbeHeard(Head(host.rx))
    BY ZenonT(60), <1>1, <1>2, <1>4, <1>7, <2>2 DEF ProbeAnswered, Tools
  <2> QED BY <2>1, <2>2
<1>8. CASE ProbeUnanswered
  BY <1>1, <1>2, <1>8 DEF ProbeUnanswered, Tools
<1>9. ASSUME host.pc = "hello", HelloAgain
      PROVE  host' \in Tools /\ toKb' \in Seq(Ops)
  <2>1. CASE host.att = MaxAttempts
    BY <1>2, <1>5, <1>9, <2>1 DEF HelloAgain
  <2>2. CASE host.att # MaxAttempts
    <3> DEFINE rest == IF host.rx = <<>> THEN host.rx ELSE Tail(host.rx)
    <3>1. rest \in Seq(Answers)
      BY <1>4, ToolFields
    <3>2. host' = [host EXCEPT !.att = host.att + 1, !.seq = host.seq + 1, !.wait = 1, !.rx = rest]
      BY <1>9, <2>2 DEF HelloAgain
    <3>3. host.att + 1 \in 0..MaxAttempts /\ host.seq + 1 \in 0..SeqMod - 1
      BY <1>9, <2>2, AgainIsOne
    <3> HIDE DEF rest
    <3>4. host' \in Tools
      BY <1>2, <1>3, <3>1, <3>2, <3>3 DEF Tools
    <3>5. toKb' \in Seq(Ops)
      BY <1>9, <2>2, AgainIsOne, TypesWrite DEF HelloAgain, SendFrame
    <3> QED BY <3>4, <3>5
  <2> QED BY <2>1, <2>2
<1>10. CASE HelloAnswered
  <2> DEFINE f == Head(host.rx)
  <2>1. host.pc = "hello" /\ f \in Answers /\ Tail(host.rx) \in Seq(Answers)
    BY <1>4, <1>10 DEF HelloAnswered
  <2>2. CASE f.cmd = "FRAME_ERR"
    BY <1>1, <1>9, <1>10, <2>1, <2>2 DEF HelloAnswered
  <2>3. CASE f.cmd = "HELLO" /\ f.seq = host.seq
    <3>1. f.by = "client"
      BY <2>1, <2>3, HeardIsOwn
    <3>2. /\ host' = [host EXCEPT !.pc = "flow", !.rx = Tail(host.rx), !.heard = f.by]
          /\ toKb' = toKb
      BY <1>10, <2>3 DEF HelloAnswered
    <3> HIDE DEF f
    <3>3. host' \in Tools
      BY <1>2, <2>1, <3>1, <3>2 DEF Tools
    <3> QED BY <1>1, <1>2, <3>2, <3>3
  <2>4. CASE f.cmd # "FRAME_ERR" /\ ~(f.cmd = "HELLO" /\ f.seq = host.seq)
    <3>1. host' = [host EXCEPT !.rx = Tail(host.rx)] /\ toKb' = toKb
      BY <1>10, <2>4 DEF HelloAnswered
    <3>2. host' \in Tools
      BY <1>2, <2>1, <3>1 DEF Tools
    <3> QED BY <1>1, <1>2, <3>1, <3>2
  <2> QED BY <2>2, <2>3, <2>4
<1>11. CASE HelloTimeout
  BY <1>1, <1>9, <1>11 DEF HelloTimeout
<1>12. CASE FlowEnds
  <2>1. CASE Fail /\ UNCHANGED toKb
    BY <1>1, <1>2, <1>5, <2>1
  <2>2. ASSUME NEW mode \in {"BOOT_APP", "BOOT_STAY"},
               host' = [host EXCEPT !.pc = "booting", !.booted = TRUE, !.wait = 1],
               SendFrame(Boot(mode))
        PROVE  host' \in Tools /\ toKb' \in Seq(Ops)
    <3>1. host' \in Tools
      BY <1>2, <1>3, <2>2 DEF Tools
    <3>2. toKb' \in Seq(Ops)
      BY <2>2, Written, TypesWrite DEF SendFrame
    <3> QED BY <3>1, <3>2
  <2> QED BY <1>1, <1>12, <2>1, <2>2 DEF FlowEnds
<1>13. CASE BootEnds
  BY <1>1, <1>2, <1>5, <1>13 DEF BootEnds
<1>14. CASE DropTunnel \/ DropEnds
  <2>1. \/ host' = [host EXCEPT !.pc = "gone"]
        \/ host' = [host EXCEPT !.pc = "dropping", !.wait = 1, !.rx = <<>>]
    BY <1>14 DEF DropTunnel, DropEnds
  <2>2. host' \in Tools
    <3>1. CASE host' = [host EXCEPT !.pc = "gone"]
      BY <1>2, <3>1 DEF Tools
    <3>2. CASE host' = [host EXCEPT !.pc = "dropping", !.wait = 1, !.rx = <<>>]
      BY <1>2, <1>3, <3>2 DEF Tools
    <3> QED BY <2>1, <3>1, <3>2
  <2>3. toKb' \in Seq(Ops)
    BY <1>2, <1>14, TypesWrite, Written DEF DropTunnel, DropEnds, SendFrame
  <2> QED BY <1>1, <2>2, <2>3
<1>15. CASE IoError
  BY <1>1, <1>2, <1>5, <1>15 DEF IoError
<1>16. CASE Killed
  BY <1>1, <1>2, <1>16 DEF Killed, Tools
<1>17. CASE BootUnwritten \/ DropBootUnwritten \/ DropUnread \/ ExitUnwritten
  <2>1. 0 \in 0..AckTimeout
    BY Timing
  <2>2. \/ host' = [host EXCEPT !.pc = "drop", !.booted = TRUE]
        \/ host' = [host EXCEPT !.pc = "dropping", !.wait = 1, !.rx = <<>>]
        \/ host' = [host EXCEPT !.wait = 0]
        \/ host' = [host EXCEPT !.pc = "gone", !.unsaid = TRUE]
    BY <1>17 DEF BootUnwritten, DropBootUnwritten, DropUnread, ExitUnwritten
  <2>3. host' \in Tools
    <3>1. CASE host' = [host EXCEPT !.pc = "drop", !.booted = TRUE]
      BY <1>2, <3>1 DEF Tools
    <3>2. CASE host' = [host EXCEPT !.pc = "dropping", !.wait = 1, !.rx = <<>>]
      BY <1>2, <1>3, <3>2 DEF Tools
    <3>3. CASE host' = [host EXCEPT !.wait = 0]
      BY <1>2, <2>1, <3>3 DEF Tools
    <3>4. CASE host' = [host EXCEPT !.pc = "gone", !.unsaid = TRUE]
      BY <1>2, <3>4 DEF Tools
    <3> QED BY <2>2, <3>1, <3>2, <3>3, <3>4
  <2>4. toKb' = toKb
    BY <1>17 DEF BootUnwritten, DropBootUnwritten, DropUnread, ExitUnwritten
  <2> QED BY <1>1, <1>2, <2>3, <2>4
<1> QED BY <1>6, <1>7, <1>8, <1>10, <1>11, <1>12, <1>13, <1>14, <1>15, <1>16, <1>17 DEF ToolFault

\* A step of the keyboard keeps the types.
LEMMA TypesKeyboard ==
  ASSUME TypesOK, KeyboardStep
  PROVE  TypesOK'
<1>1. /\ host \in Tools /\ kb \in Bridges /\ mod \in Modules
      /\ toKb \in Seq(Ops) /\ toHost \in Seq(Reports)
      /\ toMod \in Seq(Arriving) /\ fromMod \in Seq(Answers)
      /\ mod.session => mod.mode = "boot"
  BY DEF TypesOK, QueuesOK
<1>2. kb.state \in BridgeStates /\ kb.since \in 0..EnterDeadline
  BY <1>1 DEF Bridges
<1>3. 0 \in 0..Watchdog /\ 0 \in 0..EnterDeadline /\ 0 \in 0..AutoBoot
  BY Timing
<1>4. toKb # <<>> => Op \in Ops /\ Tail(toKb) \in Seq(Ops)
  BY <1>1 DEF Op
<1>5. [kb EXCEPT !.watch = 0] \in Bridges
  BY <1>1, <1>3 DEF Bridges
<1>6. OpenBridge \in Bridges /\ [OpenBridge EXCEPT !.acked = FALSE] \in Bridges
      /\ [OpenBridge EXCEPT !.acked = TRUE] \in Bridges
  BY <1>1, <1>3 DEF Bridges, BridgeStates, OpenBridge
<1>7. /\ [kb EXCEPT !.state = "idle", !.acked = FALSE] \in Bridges
      /\ [kb EXCEPT !.state = "passthru"] \in Bridges
      /\ [kb EXCEPT !.state = "error"] \in Bridges
      /\ [kb EXCEPT !.state = "asking", !.watch = 0] \in Bridges
  BY <1>1, <1>3 DEF Bridges, BridgeStates
<1>8. ASSUME NEW answer \in {"OK", "NO_ACK", "E_STATE"}, Say(answer)
      PROVE  toHost' \in Seq(Reports)
  BY <1>1, <1>8, NewReports DEF Say
<1>9. Restarted(TRUE) \in Modules /\ Restarted(FALSE) \in Modules
      /\ ~Restarted(TRUE).session /\ ~Restarted(FALSE).session
  BY <1>3 DEF Restarted, Modules
<1>10. CASE KbStatus
  <2>1. [op |-> "STATUS", state |-> kb.state, since |-> kb.since] \in Reports
    BY <1>2, NewReports
  <2>2. toHost' \in Seq(Reports)
    BY <1>1, <1>10, <2>1, Longer DEF KbStatus
  <2>3. kb' \in Bridges /\ toKb' \in Seq(Ops)
    BY <1>4, <1>5, <1>10 DEF KbStatus, Took
  <2> QED BY <1>1, <1>10, <2>2, <2>3 DEF KbStatus, TypesOK, QueuesOK
<1>11. CASE KbEnter
  <2>1. kb' \in Bridges
    BY <1>1, <1>6, <1>7, <1>11 DEF KbEnter
  <2>2. toHost' \in Seq(Reports)
    BY <1>1, <1>8, <1>11 DEF KbEnter
  <2> QED BY <1>1, <1>4, <1>11, <2>1, <2>2 DEF KbEnter, Took, TypesOK, QueuesOK
<1>12. CASE KbStream
  <2>1. Op.frame \in Requests /\ toKb' \in Seq(Ops)
    BY <1>4, <1>12, OpKinds DEF KbStream, Took
  <2>2. Op.frame \in Arriving /\ [Op.frame EXCEPT !.cmd = "GARBLED"] \in Arriving
    BY <2>1, NewFrames
  <2>3. \/ toMod' = toMod \/ toMod' = Append(toMod, Op.frame)
        \/ toMod' = Append(toMod, [Op.frame EXCEPT !.cmd = "GARBLED"])
    BY <1>12 DEF KbStream
  <2>4. toMod' \in Seq(Arriving)
    <3> HIDE DEF Op
    <3> QED BY <1>1, <2>2, <2>3, Longer
  <2> QED BY <1>1, <1>5, <1>12, <2>1, <2>4 DEF KbStream, TypesOK, QueuesOK
<1>13. CASE KbExit
  BY <1>1, <1>4, <1>7, <1>13 DEF KbExit, Took, TypesOK, QueuesOK
<1>14. CASE KbAcked
  BY <1>1, <1>6, <1>8, <1>9, <1>14 DEF KbAcked, TypesOK, QueuesOK
<1>15. CASE KbNoAck
  BY <1>1, <1>7, <1>8, <1>9, <1>15 DEF KbNoAck, TypesOK, QueuesOK
<1>16. CASE KbSettled \/ KbWatchdog
  BY <1>1, <1>7, <1>16 DEF KbSettled, KbWatchdog, TypesOK, QueuesOK
<1>17. CASE KbForward
  <2>1. Head(fromMod) \in Answers /\ fromMod' \in Seq(Answers)
    BY <1>1, <1>17 DEF KbForward
  <2>2. Stream(Head(fromMod)) \in Reports /\ Junk \in Reports
    BY <2>1, NewReports
  <2>3. \/ toHost' = toHost \/ toHost' = Append(toHost, Stream(Head(fromMod)))
        \/ toHost' = Append(toHost, Junk)
    BY <1>17 DEF KbForward
  <2>4. toHost' \in Seq(Reports)
    BY <1>1, <2>2, <2>3, Longer
  <2> QED BY <1>1, <1>17, <2>1, <2>4 DEF KbForward, TypesOK, QueuesOK
<1> QED BY <1>10, <1>11, <1>12, <1>13, <1>14, <1>15, <1>16, <1>17 DEF KeyboardStep

\* What a step that ends in Fail leaves of the tool's variables.
LEMMA FailFields ==
  ASSUME TypesOK, Fail
  PROVE  /\ host'.pc = "drop" /\ host'.passthrough = host.passthrough
         /\ host'.entered = host.entered /\ host'.booted = host.booted
         /\ host'.killed = host.killed /\ host'.unsaid = host.unsaid
         /\ host'.wait = host.wait /\ host'.since = host.since /\ host'.seq = host.seq
         /\ host'.rx = host.rx
BY DEF TypesOK, Fail, Tools

\* What the steps that send a frame make of them: the next probe,
LEMMA ProbeFields ==
  ASSUME TypesOK, Probe, ~ProbeExpired
  PROVE  /\ host.pc = "probe" /\ host'.pc = "probing" /\ host'.wait = 1 /\ host'.rx = <<>>
         /\ host'.seq = NextProbe /\ host'.since = host.since /\ host'.passthrough = host.passthrough
         /\ host'.entered = host.entered /\ host'.booted = host.booted
         /\ host'.killed = host.killed /\ host'.unsaid = host.unsaid
         /\ toKb' = Append(toKb, Stream(Hello(host'.seq, "probe")))
         /\ UNCHANGED <<kb, mod, toHost, toMod, fromMod, causes>>
<1>1. host' = [host EXCEPT !.pc = "probing", !.wait = 1, !.rx = <<>>, !.seq = NextProbe]
  BY DEF Probe
<1>2. host \in Tools
  BY DEF TypesOK
<1>3. host.pc = "probe" /\ toKb' = Append(toKb, Stream(Hello(NextProbe, "probe")))
  BY DEF Probe, SendFrame
<1> HIDE DEF NextProbe
<1> DEFINE n == NextProbe
<1>4. host' = [host EXCEPT !.pc = "probing", !.wait = 1, !.rx = <<>>, !.seq = n]
  BY <1>1
<1> HIDE DEF n
<1>5. /\ host'.pc = "probing" /\ host'.wait = 1 /\ host'.rx = <<>>
      /\ host'.seq = n /\ host'.since = host.since /\ host'.passthrough = host.passthrough
      /\ host'.entered = host.entered /\ host'.booted = host.booted
      /\ host'.killed = host.killed /\ host'.unsaid = host.unsaid
  BY <1>2, <1>4 DEF Tools
<1>6. host'.seq = NextProbe
  BY <1>5 DEF n
<1>7. UNCHANGED <<kb, mod, toHost, toMod, fromMod, causes>>
  BY DEF Probe
<1> QED BY <1>3, <1>5, <1>6, <1>7

\* the client's first HELLO,
LEMMA EnteredFields ==
  ASSUME TypesOK, ProbeAnswered, ProbeHeard(Head(host.rx))
  PROVE  /\ host.pc = "probing" /\ host'.pc = "hello" /\ host'.entered /\ host'.rx = <<>>
         /\ host'.wait = 1 /\ host'.att = 1 /\ host'.seq = 0 /\ host'.since = host.since
         /\ host'.passthrough = host.passthrough /\ host'.booted = host.booted
         /\ host'.killed = host.killed /\ host'.unsaid = host.unsaid
         /\ \E x \in HelloOps : toKb' = Append(toKb, x)
         /\ UNCHANGED <<kb, mod, toHost, toMod, fromMod>> /\ causes' = {} /\ host.rx # <<>>
<1>1. /\ host.pc = "probing" /\ toKb' = Append(toKb, Stream(Hello(0, "client"))) /\ causes' = {}
      /\ host' = [host EXCEPT !.pc = "hello", !.entered = TRUE, !.rx = <<>>, !.wait = 1,
                              !.att = 1, !.seq = 0]
      /\ UNCHANGED <<kb, mod, toHost, toMod, fromMod>> /\ host.rx # <<>>
  BY DEF ProbeAnswered, SendFrame
<1>2. host \in Tools
  BY DEF TypesOK
<1>3. Hello(0, "client") \in Requests
  BY Written, Timing
<1>4. Stream(Hello(0, "client")) \in HelloOps
  BY <1>3, NewOps, OpKinds, Written
<1>5. \E x \in HelloOps : toKb' = Append(toKb, x)
  BY <1>1, <1>4
<1>6. /\ host'.pc = "hello" /\ host'.entered /\ host'.rx = <<>>
      /\ host'.wait = 1 /\ host'.att = 1 /\ host'.seq = 0 /\ host'.since = host.since
      /\ host'.passthrough = host.passthrough /\ host'.booted = host.booted
      /\ host'.killed = host.killed /\ host'.unsaid = host.unsaid
  BY <1>1, <1>2 DEF Tools
<1> QED BY <1>1, <1>5, <1>6

\* its next HELLO,
LEMMA AgainFields ==
  ASSUME TypesOK, PhaseOK, HelloAgain, host.pc = "hello", host.att # MaxAttempts
  PROVE  /\ host'.pc = "hello" /\ host'.wait = 1 /\ host'.att = host.att + 1
         /\ host'.seq = host.seq + 1 /\ host'.rx = (IF host.rx = <<>> THEN host.rx ELSE Tail(host.rx))
         /\ host'.entered = host.entered /\ host'.passthrough = host.passthrough
         /\ host'.booted = host.booted
         /\ host'.killed = host.killed /\ host'.unsaid = host.unsaid /\ host'.since = host.since
         /\ \E x \in HelloOps : toKb' = Append(toKb, x)
<1> DEFINE rest == IF host.rx = <<>> THEN host.rx ELSE Tail(host.rx)
<1>1. /\ host' = [host EXCEPT !.att = host.att + 1, !.seq = host.seq + 1, !.wait = 1, !.rx = rest]
      /\ toKb' = Append(toKb, Stream(Hello(host.seq + 1, "client")))
  BY DEF HelloAgain, SendFrame
<1>2. host \in Tools
  BY DEF TypesOK
<1> HIDE DEF rest
<1>3. /\ host'.pc = "hello" /\ host'.wait = 1 /\ host'.att = host.att + 1
      /\ host'.seq = host.seq + 1 /\ host'.rx = rest
      /\ host'.entered = host.entered /\ host'.passthrough = host.passthrough
      /\ host'.booted = host.booted
      /\ host'.killed = host.killed /\ host'.unsaid = host.unsaid /\ host'.since = host.since
  BY <1>1, <1>2 DEF Tools
<1>4. Hello(host.seq + 1, "client") \in Requests
  BY AgainIsOne
<1>5. Stream(Hello(host.seq + 1, "client")) \in HelloOps
  BY <1>4, NewOps, OpKinds, Written
<1>6. \E x \in HelloOps : toKb' = Append(toKb, x)
  BY <1>1, <1>5
<1> QED BY <1>3, <1>6 DEF rest

\* the BOOT that a flow ends with,
LEMMA BootedFields ==
  ASSUME TypesOK, FlowEnds, ~Fail
  PROVE  /\ host.pc = "flow" /\ host'.pc = "booting" /\ host'.booted /\ host'.wait = 1
         /\ host'.entered = host.entered /\ host'.passthrough = host.passthrough
         /\ host'.rx = host.rx /\ host'.since = host.since
         /\ host'.killed = host.killed /\ host'.unsaid = host.unsaid
         /\ \E x \in BootOps : toKb' = Append(toKb, x)
         /\ UNCHANGED <<kb, mod, toHost, toMod, fromMod, causes>>
<1>1. /\ host.pc = "flow" /\ host' = [host EXCEPT !.pc = "booting", !.booted = TRUE, !.wait = 1]
      /\ \E mode \in {"BOOT_APP", "BOOT_STAY"} : toKb' = Append(toKb, Stream(Boot(mode)))
  BY DEF FlowEnds, SendFrame
<1>2. host \in Tools
  BY DEF TypesOK
<1>3. \A mode \in {"BOOT_APP", "BOOT_STAY"} : Stream(Boot(mode)) \in BootOps
  BY Written, NewOps, OpKinds
<1>4. \E x \in BootOps : toKb' = Append(toKb, x)
  BY <1>1, <1>3
<1>5. UNCHANGED <<kb, mod, toHost, toMod, fromMod, causes>>
  BY DEF FlowEnds
<1>6. /\ host'.pc = "booting" /\ host'.booted /\ host'.wait = 1
      /\ host'.entered = host.entered /\ host'.passthrough = host.passthrough
      /\ host'.rx = host.rx /\ host'.since = host.since
      /\ host'.killed = host.killed /\ host'.unsaid = host.unsaid
  BY <1>1, <1>2 DEF Tools
<1> QED BY <1>1, <1>4, <1>5, <1>6

\* and the BOOT of the way out; or none is due, and the tool is gone.
LEMMA DropFields ==
  ASSUME TypesOK, PhaseOK, DropTunnel
  PROVE  /\ host.pc = "drop"
         /\ host'.entered = host.entered /\ host'.passthrough = host.passthrough
         /\ host'.booted = host.booted
         /\ host'.killed = host.killed /\ host'.unsaid = host.unsaid /\ host'.since = host.since
         /\ \/ /\ host.entered /\ ~host.booted /\ host'.pc = "dropping" /\ host'.wait = 1
               /\ host'.rx = <<>> /\ \E x \in BootOps : toKb' = Append(toKb, x)
            \/ /\ host'.pc = "gone" /\ ~host.passthrough /\ toKb' = toKb
            \/ /\ host'.pc = "gone" /\ (host.entered => host.booted)
               /\ \E x \in ExitOps : toKb' = Append(toKb, x)
         /\ UNCHANGED <<kb, mod, toHost, toMod, fromMod, causes>>
<1>1. host \in Tools
  BY DEF TypesOK
<1>2. CASE MustExit /\ MustBoot
  <2>1. /\ host.pc = "drop" /\ host.entered /\ ~host.booted
        /\ host' = [host EXCEPT !.pc = "dropping", !.wait = 1, !.rx = <<>>]
        /\ toKb' = Append(toKb, Stream(Boot("BOOT_APP")))
    BY <1>2 DEF DropTunnel, MustBoot, SendFrame
  <2>2. /\ host'.pc = "dropping" /\ host'.wait = 1 /\ host'.rx = <<>>
        /\ host'.entered = host.entered /\ host'.passthrough = host.passthrough
        /\ host'.booted = host.booted
        /\ host'.killed = host.killed /\ host'.unsaid = host.unsaid /\ host'.since = host.since
    BY <1>1, <2>1 DEF Tools
  <2>3. Stream(Boot("BOOT_APP")) \in BootOps
    BY Written, NewOps, OpKinds
  <2>4. UNCHANGED <<kb, mod, toHost, toMod, fromMod, causes>>
    BY DEF DropTunnel
  <2>5. \E x \in BootOps : toKb' = Append(toKb, x)
    BY <2>1, <2>3
  <2> QED BY <2>1, <2>2, <2>4, <2>5
<1>3. CASE ~(MustExit /\ MustBoot)
  <2>1. /\ host.pc = "drop" /\ host' = [host EXCEPT !.pc = "gone"]
        /\ toKb' = IF MustExit THEN Append(toKb, ExitOp) ELSE toKb
    BY <1>3 DEF DropTunnel
  <2>2. /\ host'.pc = "gone"
        /\ host'.entered = host.entered /\ host'.passthrough = host.passthrough
        /\ host'.booted = host.booted
        /\ host'.killed = host.killed /\ host'.unsaid = host.unsaid /\ host'.since = host.since
    BY <1>1, <2>1 DEF Tools
  <2>3. ExitOp \in ExitOps
    BY NewOps, OpKinds
  <2>4. UNCHANGED <<kb, mod, toHost, toMod, fromMod, causes>>
    BY DEF DropTunnel
  <2>5. toKb' = toKb \/ \E x \in ExitOps : toKb' = Append(toKb, x)
    BY <2>1, <2>3
  <2>6. \/ ~host.passthrough /\ toKb' = toKb
        \/ (host.entered => host.booted) /\ \E x \in ExitOps : toKb' = Append(toKb, x)
    BY <1>3, <2>1, <2>3 DEF MustExit, MustBoot
  <2> QED BY <2>1, <2>2, <2>4, <2>6
<1> QED BY <1>2, <1>3

\* A flow's BOOT that is not written, and what the way out passes over
Unwritten ==
  /\ UNCHANGED <<kb, mod, toKb, toHost, toMod, fromMod>>
  /\ host'.passthrough = host.passthrough /\ host'.entered = host.entered
  /\ host'.killed = host.killed
  /\ \/ /\ host.pc = "flow" /\ host'.pc = "drop" /\ host'.booted
        /\ host'.wait = host.wait /\ host'.unsaid = host.unsaid /\ causes' # {}
     \/ /\ host.pc = "drop" /\ host.entered /\ ~host.booted
        /\ host'.pc = "dropping" /\ ~host'.booted /\ host'.wait = 1 /\ host'.unsaid = host.unsaid
        /\ causes' # {}
     \/ /\ host.pc = "dropping" /\ host'.pc = "dropping" /\ host'.booted = host.booted
        /\ host'.wait = 0 /\ host'.unsaid = host.unsaid /\ causes' = causes
     \/ /\ \/ host.pc = "drop" /\ (host.entered => host.booted)
           \/ host.pc = "dropping"
        /\ host'.pc = "gone" /\ host'.unsaid /\ host'.booted = host.booted /\ causes' = causes

\* The reports that the tool fails to write or to read without noticing.
LEMMA UnwrittenFields ==
  ASSUME TypesOK, BootUnwritten \/ DropBootUnwritten \/ DropUnread \/ ExitUnwritten
  PROVE  Unwritten
<1>1. UNCHANGED <<kb, mod, toKb, toHost, toMod, fromMod>>
  BY DEF BootUnwritten, DropBootUnwritten, DropUnread, ExitUnwritten
<1>2. CASE BootUnwritten
  BY <1>1, <1>2 DEF BootUnwritten, Unwritten, TypesOK, Tools
<1>3. CASE DropBootUnwritten
  BY <1>1, <1>3 DEF DropBootUnwritten, MustBoot, Unwritten, TypesOK, Tools
<1>4. CASE DropUnread
  BY <1>1, <1>4 DEF DropUnread, Unwritten, TypesOK, Tools
<1>5. CASE ExitUnwritten
  BY <1>1, <1>5 DEF ExitUnwritten, MustBoot, Unwritten, TypesOK, Tools
<1> QED BY <1>2, <1>3, <1>4, <1>5

\* A step of the module keeps the types.
LEMMA TypesModule ==
  ASSUME TypesOK, ModuleStep
  PROVE  TypesOK'
<1>1. mod \in Modules /\ toMod \in Seq(Arriving) /\ fromMod \in Seq(Answers)
      /\ (mod.session => mod.mode = "boot")
  BY DEF TypesOK, QueuesOK
<1>2. 0 \in 0..AutoBoot
  BY Timing
<1>3. mod.asked \in BOOLEAN /\ mod.mode \in {"boot", "app"}
  BY <1>1 DEF Modules
<1>4. \A asked \in BOOLEAN : /\ Restarted(asked) \in Modules /\ Launched(asked) \in Modules
                             /\ ~Restarted(asked).session /\ ~Launched(asked).session
  BY <1>2 DEF Restarted, Launched, Modules
<1>5. CASE ModAutoBoots
  BY <1>3, <1>4, <1>5 DEF ModAutoBoots, TypesOK, QueuesOK
<1>6. CASE ModServes
  <2> DEFINE f == Head(toMod)
  <2>1. f \in Arriving /\ toMod' \in Seq(Arriving)
    BY <1>1, <1>6 DEF ModServes
  <2>2. mod' \in Modules /\ (mod'.session => mod'.mode = "boot")
    <3>1. mod' \in {mod, [mod EXCEPT !.session = TRUE], Restarted(FALSE), Launched(FALSE)}
          /\ (mod' = [mod EXCEPT !.session = TRUE] => mod' = mod \/ mod.mode # "app")
      BY <1>6 DEF ModServes
    <3>2. [mod EXCEPT !.session = TRUE] \in Modules
      BY <1>1 DEF Modules
    <3>3. mod.mode # "app" => [mod EXCEPT !.session = TRUE].mode = "boot"
      BY <1>1, <1>3 DEF Modules
    <3> QED BY <1>1, <1>4, <3>1, <3>2, <3>3
  <2>3. /\ [f EXCEPT !.cmd = "FRAME_ERR"] \in Answers /\ [f EXCEPT !.cmd = "BOOT"] \in Answers
        /\ f.cmd = "HELLO" => [f EXCEPT !.cmd = "HELLO"] \in Answers
    BY <2>1, NewFrames
  <2>4. \/ fromMod' = fromMod
        \/ f.cmd = "HELLO" /\ fromMod' = Append(fromMod, [f EXCEPT !.cmd = "HELLO"])
        \/ fromMod' = Append(fromMod, [f EXCEPT !.cmd = "FRAME_ERR"])
        \/ fromMod' = Append(fromMod, [f EXCEPT !.cmd = "BOOT"])
    BY <1>6 DEF ModServes, Reply
  <2>5. fromMod' \in Seq(Answers)
    <3> HIDE DEF f
    <3> QED BY <1>1, <2>3, <2>4, Longer
  <2> QED BY <1>6, <2>1, <2>2, <2>5 DEF ModServes, TypesOK, QueuesOK
<1> QED BY <1>5, <1>6 DEF ModuleStep

\* The tool's clocks after a tick, unless it is gone.
LEMMA TickHost ==
  ASSUME TypesOK, Tick
  PROVE  /\ host' \in Tools
         /\ Gone => host' = host
         /\ ~Gone => /\ host'.wait = IF host.wait > 0 THEN host.wait - 1 ELSE 0
                     /\ host'.since = Least(host.since + 1, EnterDeadline)
         /\ \/ host' = host
            \/ \E w \in 0..AckTimeout, s \in 0..EnterDeadline :
                 host' = [host EXCEPT !.wait = w, !.polled = FALSE, !.since = s]
<1> DEFINE w == IF host.wait > 0 THEN host.wait - 1 ELSE 0
           s == Least(host.since + 1, EnterDeadline)
<1>1. w \in 0..AckTimeout
  BY ToolFields, Timing
<1>2. s \in 0..EnterDeadline
  <2>1. host.since + 1 \in Nat /\ EnterDeadline \in Nat
    BY ToolFields, Timing
  <2> QED BY <2>1, LeastIs
<1>3. host' = IF Gone THEN host ELSE [host EXCEPT !.wait = w, !.polled = FALSE, !.since = s]
  BY DEF Tick
<1>4. host \in Tools
  BY DEF TypesOK
<1> HIDE DEF w, s
<1>5. /\ [host EXCEPT !.wait = w, !.polled = FALSE, !.since = s] \in Tools
      /\ [host EXCEPT !.wait = w, !.polled = FALSE, !.since = s].wait = w
      /\ [host EXCEPT !.wait = w, !.polled = FALSE, !.since = s].since = s
  BY <1>1, <1>2, <1>4 DEF Tools
<1>6. w = (IF host.wait > 0 THEN host.wait - 1 ELSE 0) /\ s = Least(host.since + 1, EnterDeadline)
  BY DEF w, s
<1> QED BY <1>1, <1>2, <1>3, <1>4, <1>5, <1>6

\* The other clocks.
LEMMA TickOthers ==
  ASSUME TypesOK, Tick
  PROVE  /\ kb' \in Bridges /\ kb'.state = kb.state /\ kb'.acked = kb.acked
         /\ kb'.since = Least(kb.since + 1, EnterDeadline)
         /\ kb'.watch = IF host.pc = "flow" THEN 0 ELSE Least(kb.watch + 1, Watchdog)
         /\ mod' \in Modules /\ mod'.mode = mod.mode /\ mod'.session = mod.session
         /\ mod'.asked = mod.asked
         /\ mod'.age = IF mod.mode = "boot" THEN Least(mod.age + 1, AutoBoot) ELSE 0
<1> DEFINE s == Least(kb.since + 1, EnterDeadline)
           w == IF host.pc = "flow" THEN 0 ELSE Least(kb.watch + 1, Watchdog)
           a == IF mod.mode = "boot" THEN Least(mod.age + 1, AutoBoot) ELSE 0
<1>1. /\ kb \in Bridges /\ mod \in Modules
      /\ kb.since \in Nat /\ kb.watch \in Nat /\ mod.age \in Nat
  BY Timing DEF TypesOK, Bridges, Modules
<1>2. s \in 0..EnterDeadline /\ w \in 0..Watchdog /\ a \in 0..AutoBoot
  <2>1. /\ kb.since + 1 \in Nat /\ kb.watch + 1 \in Nat /\ mod.age + 1 \in Nat
        /\ EnterDeadline \in Nat /\ Watchdog \in Nat /\ AutoBoot \in Nat
    BY <1>1, Timing
  <2>2. /\ Least(kb.since + 1, EnterDeadline) \in 0..EnterDeadline
        /\ Least(kb.watch + 1, Watchdog) \in 0..Watchdog
        /\ Least(mod.age + 1, AutoBoot) \in 0..AutoBoot
    BY <2>1, LeastIs
  <2> QED BY <2>1, <2>2
<1>3. kb' = [kb EXCEPT !.since = s, !.watch = w] /\ mod' = [mod EXCEPT !.age = a]
  BY DEF Tick
<1>4. /\ s = Least(kb.since + 1, EnterDeadline)
      /\ w = IF host.pc = "flow" THEN 0 ELSE Least(kb.watch + 1, Watchdog)
      /\ a = IF mod.mode = "boot" THEN Least(mod.age + 1, AutoBoot) ELSE 0
  OBVIOUS
<1> HIDE DEF s, w, a
<1>5. kb' \in Bridges /\ kb'.state = kb.state /\ kb'.acked = kb.acked /\ kb'.since = s /\ kb'.watch = w
  BY <1>1, <1>2, <1>3 DEF Bridges
<1>6. /\ mod' \in Modules /\ mod'.mode = mod.mode /\ mod'.session = mod.session
      /\ mod'.asked = mod.asked /\ mod'.age = a
  BY <1>1, <1>2, <1>3 DEF Modules
<1> QED BY <1>4, <1>5, <1>6

\* Every step keeps the types.
LEMMA TypesStep ==
  ASSUME TypesOK, PhaseOK, ProbeOK, [TunnelNext]_tunnelVars
  PROVE  TypesOK'
<1>1. CASE UNCHANGED tunnelVars
  BY <1>1 DEF tunnelVars, TypesOK, QueuesOK
<1>2. CASE Tick
  <2>1. host' \in Tools /\ kb' \in Bridges /\ mod' \in Modules
    BY <1>2, TickHost, TickOthers
  <2>2. UNCHANGED <<toKb, toHost, toMod, fromMod>> /\ (mod'.session => mod'.mode = "boot")
    BY <1>2, TickOthers DEF Tick, TypesOK
  <2> QED BY <2>1, <2>2 DEF TypesOK, QueuesOK
<1> QED BY <1>1, <1>2, TypesHandshake, TypesUse, TypesKeyboard, TypesModule DEF TunnelNext, ToolStep

-----------------------------------------------------------------------------
(* Where the tool is *)

\* Every step keeps the tool's variables in order.
LEMMA PhaseStep ==
  ASSUME TypesOK, PhaseOK, [TunnelNext]_tunnelVars
  PROVE  PhaseOK'
<1> USE DEF PhaseOK, Gone
<1>1. host \in Tools
  BY DEF TypesOK
<1>2. CASE UNCHANGED host
  BY <1>2
<1>3. CASE StartTool
  BY <1>3 DEF StartTool, Fresh
<1>4. ASSUME Fail, host.pc # "gone"
      PROVE  PhaseOK'
  BY <1>1, <1>4 DEF Fail, Tools
<1>5. CASE PumpStream
  BY <1>1, <1>5 DEF PumpStream, Tools
<1>6. ASSUME NEW force, AskToEnter(force), host.pc \in {"status", "enter"}
      PROVE  PhaseOK'
  BY <1>1, <1>6 DEF AskToEnter, Tools
<1>7. ASSUME NEW elapsed, OpenSince(elapsed), host.pc \in {"status", "enter"}
      PROVE  PhaseOK'
  BY <1>1, <1>7 DEF OpenSince, Tools
<1>8. CASE StatusAnswered
  BY <1>4, <1>6, <1>7, <1>8 DEF StatusAnswered
<1>9. CASE StatusTimeout
  BY <1>4, <1>9 DEF StatusTimeout
<1>10. CASE Poll
  BY <1>1, <1>10 DEF Poll, Tools
<1>11. ASSUME NoAck, host.pc = "enter"
       PROVE  PhaseOK'
  BY <1>4, <1>6, <1>11 DEF NoAck
<1>12. CASE EnterAnswered
  BY <1>2, <1>4, <1>7, <1>11, <1>12 DEF EnterAnswered
<1>13. CASE EnterGivesUp
  BY <1>11, <1>13 DEF EnterGivesUp
<1>14. CASE Settled
  BY <1>1, <1>14 DEF Settled, Tools
<1>15. CASE Probe
  <2>1. CASE ProbeExpired
    BY <1>4, <1>15, <2>1 DEF Probe
  <2>2. CASE ~ProbeExpired
    BY <1>15, <2>2, ProbeFields
  <2> QED BY <2>1, <2>2
<1>16. CASE ProbeAnswered
  <2>1. CASE ProbeHeard(Head(host.rx))
    BY <1>16, <2>1, EnteredFields, ToolFields
  <2>2. CASE ~ProbeHeard(Head(host.rx))
    <3>1. host.pc = "probing" /\ \E pc \in {"probing", "gap"} :
            host' = [host EXCEPT !.rx = Tail(@), !.pc = pc]
      BY <1>16, <2>2 DEF ProbeAnswered
    <3>2. PICK pc \in {"probing", "gap"} : host' = [host EXCEPT !.rx = Tail(@), !.pc = pc]
      BY <3>1
    <3>3. /\ host'.pc = pc /\ host'.booted = host.booted /\ host'.entered = host.entered
          /\ host'.passthrough = host.passthrough
      BY <1>1, <3>2 DEF Tools
    <3> QED BY <3>1, <3>3
  <2> QED BY <2>1, <2>2
<1>17. CASE ProbeUnanswered
  BY <1>1, <1>17 DEF ProbeUnanswered, Tools
<1>18. ASSUME HelloAgain, host.pc = "hello"
       PROVE  PhaseOK'
  <2>1. CASE host.att = MaxAttempts
    BY <1>4, <1>18, <2>1 DEF HelloAgain
  <2>2. CASE host.att # MaxAttempts
    BY SMTT(60), <1>18, <2>2, AgainFields, ToolFields
  <2> QED BY <2>1, <2>2
<1>19. CASE HelloAnswered
  <2>1. CASE HelloAgain
    BY <1>18, <1>19, <2>1 DEF HelloAnswered
  <2>2. CASE ~HelloAgain
    <3>1. \/ host' = [host EXCEPT !.pc = "flow", !.rx = Tail(host.rx), !.heard = Head(host.rx).by]
          \/ host' = [host EXCEPT !.rx = Tail(host.rx)]
      BY <1>19, <2>2 DEF HelloAnswered
    <3> QED BY ZenonT(60), <1>1, <1>19, <3>1 DEF HelloAnswered, Tools
  <2> QED BY <2>1, <2>2
<1>20. CASE HelloTimeout
  BY <1>18, <1>20 DEF HelloTimeout
<1>21. CASE FlowEnds
  <2>1. CASE Fail
    BY <1>4, <1>21, <2>1 DEF FlowEnds
  <2>2. CASE ~Fail
    BY <1>21, <2>2, BootedFields
  <2> QED BY <2>1, <2>2
<1>22. CASE BootEnds
  BY <1>4, <1>22 DEF BootEnds
<1>23. CASE DropTunnel
  BY <1>23, DropFields
<1>231. CASE DropEnds
  BY <1>1, <1>231 DEF DropEnds, Tools
<1>24. CASE IoError
  BY <1>4, <1>24 DEF IoError
<1>241. CASE BootUnwritten \/ DropBootUnwritten \/ DropUnread \/ ExitUnwritten
  <2>1. Unwritten
    BY <1>241, UnwrittenFields
  <2> QED BY <2>1 DEF Unwritten
<1>25. CASE Killed
  BY <1>1, <1>25 DEF Killed, Tools
<1>26. CASE Tick
  <2>1. CASE host' = host
    BY <2>1
  <2>2. ASSUME NEW w \in 0..AckTimeout, NEW s \in 0..EnterDeadline,
               host' = [host EXCEPT !.wait = w, !.polled = FALSE, !.since = s], ~Gone
        PROVE  PhaseOK'
    <3>1. w = IF host.wait > 0 THEN host.wait - 1 ELSE 0
      BY <1>1, <1>26, <2>2, TickHost DEF Tools
    <3>2. host.wait <= 1 => w <= 1
      BY <3>1, ToolFields
    <3> QED BY <1>1, <2>2, <3>2 DEF Tools
  <2> QED BY <1>26, <2>1, <2>2, TickHost
<1>27. CASE PumpIgnored \/ KeyboardStep \/ ModuleStep \/ UNCHANGED tunnelVars
  <2>1. UNCHANGED host
    BY <1>27 DEF PumpIgnored, KeyboardStep, ModuleStep, tunnelVars, KbStatus, KbEnter, KbStream, KbExit,
                 KbAcked, KbNoAck, KbSettled, KbWatchdog, KbForward, ModServes, ModAutoBoots
  <2> QED BY <1>2, <2>1
<1> QED BY <1>3, <1>5, <1>8, <1>9, <1>10, <1>12, <1>13, <1>14, <1>15, <1>16, <1>17, <1>19, <1>20, <1>21,
           <1>22, <1>23, <1>231, <1>24, <1>241, <1>25, <1>26, <1>27 DEF TunnelNext, ToolStep, ToolFault

-----------------------------------------------------------------------------
(* What the other steps of the tool change *)

\* The handshake: another request, an open tunnel, or failure.
LEMMA HandshakeFields ==
  ASSUME TypesOK, StatusAnswered \/ StatusTimeout \/ Poll \/ EnterAnswered \/ EnterGivesUp
  PROVE  /\ host.pc \in {"status", "enter"}
         /\ host'.seq = host.seq /\ host'.rx = host.rx /\ host'.entered = host.entered
         /\ host'.booted = host.booted /\ host'.killed = host.killed /\ host'.unsaid = host.unsaid
         /\ \/ /\ host'.pc = "enter" /\ host'.passthrough = host.passthrough
               /\ \/ toKb' = toKb
                  \/ \E x \in Ops : x.op \in {"STATUS", "ENTER"} /\ toKb' = Append(toKb, x)
            \/ host'.pc = "drop" /\ host'.passthrough = host.passthrough /\ toKb' = toKb
            \/ /\ host'.pc = "settle" /\ toKb' = toKb
               /\ toHost # <<>> /\ Report.op = "STATUS" /\ host'.since = Report.since
         /\ toHost' = toHost \/ (toHost # <<>> /\ toHost' = Tail(toHost))
         /\ UNCHANGED <<kb, mod, toMod, fromMod, causes>>
<1> DEFINE Goal(q) ==
      /\ host'.seq = host.seq /\ host'.rx = host.rx /\ host'.entered = host.entered
      /\ host'.booted = host.booted /\ host'.killed = host.killed /\ host'.unsaid = host.unsaid
      /\ \/ /\ host'.pc = "enter" /\ host'.passthrough = host.passthrough
            /\ \/ toKb' = toKb
               \/ \E x \in Ops : x.op \in {"STATUS", "ENTER"} /\ toKb' = Append(toKb, x)
         \/ host'.pc = "drop" /\ host'.passthrough = host.passthrough /\ toKb' = toKb
         \/ /\ host'.pc = "settle" /\ toKb' = toKb
            /\ toHost # <<>> /\ Report.op = "STATUS" /\ host'.since = q
<1>1. host \in Tools
  BY DEF TypesOK
<1>2. ASSUME NEW force \in BOOLEAN, AskToEnter(force)
      PROVE  Goal(Report.since)
  <2>1. EnterOp(force) \in Ops /\ EnterOp(force).op = "ENTER"
    BY NewOps
  <2>2. \E x \in Ops : x.op \in {"STATUS", "ENTER"} /\ toKb' = Append(toKb, x)
    BY <1>2, <2>1 DEF AskToEnter
  <2>3. /\ host'.pc = "enter" /\ host'.passthrough = host.passthrough
        /\ host'.seq = host.seq /\ host'.rx = host.rx /\ host'.entered = host.entered
        /\ host'.booted = host.booted /\ host'.killed = host.killed /\ host'.unsaid = host.unsaid
    BY <1>1, <1>2 DEF AskToEnter, Tools
  <2> QED BY <2>2, <2>3
<1>3. ASSUME Fail, UNCHANGED toKb
      PROVE  Goal(Report.since)
  BY <1>3, FailFields
<1>4. ASSUME toHost # <<>>, Report.op = "STATUS", OpenSince(Report.since), UNCHANGED toKb
      PROVE  Goal(Report.since)
  <2>1. /\ host'.pc = "settle" /\ host'.since = Report.since
        /\ host'.seq = host.seq /\ host'.rx = host.rx /\ host'.entered = host.entered
        /\ host'.booted = host.booted /\ host'.killed = host.killed /\ host'.unsaid = host.unsaid
    BY <1>1, <1>4 DEF OpenSince, Tools
  <2> QED BY <1>4, <2>1
<1>5. ASSUME NoAck
      PROVE  Goal(Report.since)
  BY <1>2, <1>3, <1>5 DEF NoAck
<1>6. ASSUME host.pc = "enter", UNCHANGED <<host, toKb>>
      PROVE  Goal(Report.since)
  BY <1>6
<1>7. Goal(Report.since) /\ host.pc \in {"status", "enter"}
  <2>1. CASE StatusAnswered
    BY <1>2, <1>3, <1>4, <2>1 DEF StatusAnswered
  <2>2. CASE StatusTimeout
    BY <1>3, <2>2 DEF StatusTimeout
  <2>3. CASE Poll
    <3>1. /\ host'.pc = "enter" /\ host'.passthrough = host.passthrough
          /\ host'.seq = host.seq /\ host'.rx = host.rx /\ host'.entered = host.entered
          /\ host'.booted = host.booted
          /\ host'.killed = host.killed /\ host'.unsaid = host.unsaid /\ host.pc = "enter"
      BY <1>1, <2>3 DEF Poll, Tools
    <3>2. \E x \in Ops : x.op \in {"STATUS", "ENTER"} /\ toKb' = Append(toKb, x)
      BY <2>3, NewOps DEF Poll
    <3> QED BY <3>1, <3>2
  <2>4. CASE EnterAnswered
    BY <1>3, <1>4, <1>5, <1>6, <2>4 DEF EnterAnswered
  <2>5. CASE EnterGivesUp
    BY <1>5, <2>5 DEF EnterGivesUp
  <2> QED BY <2>1, <2>2, <2>3, <2>4, <2>5
<1>8. toHost' = toHost \/ (toHost # <<>> /\ toHost' = Tail(toHost))
  BY DEF StatusAnswered, StatusTimeout, Poll, EnterAnswered, EnterGivesUp
<1>9. UNCHANGED <<kb, mod, toMod, fromMod, causes>>
  BY DEF StatusAnswered, StatusTimeout, Poll, EnterAnswered, EnterGivesUp
<1> QED BY <1>7, <1>8, <1>9

\* A frame comes up.
LEMMA PumpFields ==
  ASSUME TypesOK, PumpStream
  PROVE  /\ host'.pc = host.pc /\ host'.passthrough = host.passthrough
         /\ host'.entered = host.entered /\ host'.booted = host.booted
         /\ host'.killed = host.killed /\ host'.unsaid = host.unsaid
         /\ host'.wait = host.wait /\ host'.since = host.since /\ host'.seq = host.seq
         /\ host'.rx = Append(host.rx, Report.frame)
         /\ Report \in Reports /\ Report.op = "STREAM" /\ Report.frame \in Answers
         /\ toHost # <<>> /\ toHost' = Tail(toHost)
         /\ UNCHANGED <<kb, mod, toKb, toMod, fromMod, causes>>
<1>1. /\ Report \in Reports /\ Report.op = "STREAM" /\ toHost # <<>> /\ toHost' = Tail(toHost)
      /\ UNCHANGED <<kb, mod, toKb, toMod, fromMod, causes>>
  BY TypesRead DEF PumpStream
<1>2. Report.frame \in Answers
  BY <1>1, ReportKinds
<1>3. host' = [host EXCEPT !.rx = Append(host.rx, Report.frame)]
  BY DEF PumpStream
<1> DEFINE r == Append(host.rx, Report.frame)
<1> HIDE DEF r
<1>4. host' = [host EXCEPT !.rx = r]
  BY <1>3 DEF r
<1>5. /\ host'.pc = host.pc /\ host'.passthrough = host.passthrough
      /\ host'.entered = host.entered /\ host'.booted = host.booted
      /\ host'.killed = host.killed /\ host'.unsaid = host.unsaid
      /\ host'.wait = host.wait /\ host'.since = host.since /\ host'.seq = host.seq /\ host'.rx = r
  BY <1>4 DEF TypesOK, Tools
<1> QED BY <1>1, <1>2, <1>5 DEF r

\* A report is dropped.
LEMMA IgnoredFields ==
  ASSUME PumpIgnored
  PROVE  /\ toHost # <<>> /\ toHost' = Tail(toHost)
         /\ UNCHANGED <<host, kb, mod, toKb, toMod, fromMod, causes>>
BY DEF PumpIgnored

\* What is no answer to the probe is dropped; a frame error ends the waiting.
LEMMA MissedFields ==
  ASSUME TypesOK, ProbeAnswered, ~ProbeHeard(Head(host.rx))
  PROVE  /\ host.pc = "probing"
         /\ host'.pc = IF Head(host.rx).cmd = "FRAME_ERR" THEN "gap" ELSE "probing"
         /\ host'.passthrough = host.passthrough
         /\ host'.entered = host.entered /\ host'.booted = host.booted
         /\ host'.killed = host.killed /\ host'.unsaid = host.unsaid
         /\ host'.wait = host.wait /\ host'.since = host.since /\ host'.seq = host.seq
         /\ host'.rx = Tail(host.rx) /\ host.rx # <<>> /\ Head(host.rx) \in Answers
         /\ UNCHANGED <<kb, mod, toKb, toHost, toMod, fromMod, causes>>
<1>1. host.rx # <<>> /\ host.rx \in Seq(Answers)
  BY ToolFields DEF ProbeAnswered
<1>2. Head(host.rx) \in Answers
  BY <1>1
<1>3. /\ host.pc = "probing"
      /\ host' = [host EXCEPT !.rx = Tail(host.rx),
                              !.pc = IF Head(host.rx).cmd = "FRAME_ERR" THEN "gap" ELSE host.pc]
      /\ UNCHANGED <<kb, mod, toKb, toHost, toMod, fromMod, causes>>
  BY DEF ProbeAnswered
<1> DEFINE r == Tail(host.rx)
           p == IF Head(host.rx).cmd = "FRAME_ERR" THEN "gap" ELSE host.pc
<1> HIDE DEF r, p
<1>4. host' = [host EXCEPT !.rx = r, !.pc = p]
  BY <1>3 DEF r, p
<1>5. /\ host'.pc = p /\ host'.passthrough = host.passthrough
      /\ host'.entered = host.entered /\ host'.booted = host.booted
      /\ host'.killed = host.killed /\ host'.unsaid = host.unsaid
      /\ host'.wait = host.wait /\ host'.since = host.since /\ host'.seq = host.seq /\ host'.rx = r
  BY <1>4 DEF TypesOK, Tools
<1> QED BY <1>1, <1>2, <1>3, <1>5 DEF r, p

\* The next probe is due.
LEMMA DueFields ==
  ASSUME TypesOK, Settled \/ ProbeUnanswered
  PROVE  /\ host'.pc = "probe" /\ host'.passthrough = host.passthrough
         /\ host'.entered = host.entered /\ host'.booted = host.booted
         /\ host'.killed = host.killed /\ host'.unsaid = host.unsaid
         /\ host'.wait = host.wait /\ host'.since = host.since /\ host'.seq = host.seq
         /\ host'.rx = host.rx
         /\ UNCHANGED <<kb, mod, toKb, toHost, toMod, fromMod, causes>>
BY DEF TypesOK, Tools, Settled, ProbeUnanswered

\* The client's HELLO is answered, or something else is dropped.
LEMMA HeardFields ==
  ASSUME TypesOK, HelloAnswered, ~HelloAgain
  PROVE  /\ host.pc = "hello"
         /\ \/ host'.pc = "flow" /\ Head(host.rx).cmd = "HELLO"
            \/ host'.pc = "hello"
         /\ host'.passthrough = host.passthrough
         /\ host'.entered = host.entered /\ host'.booted = host.booted
         /\ host'.killed = host.killed /\ host'.unsaid = host.unsaid
         /\ host'.wait = host.wait /\ host'.since = host.since /\ host'.seq = host.seq
         /\ host'.rx = Tail(host.rx) /\ host.rx # <<>> /\ Head(host.rx) \in Answers
         /\ UNCHANGED <<kb, mod, toKb, toHost, toMod, fromMod, causes>>
<1>1. host.rx # <<>> /\ host.rx \in Seq(Answers)
  BY ToolFields DEF HelloAnswered
<1>2. Head(host.rx) \in Answers
  BY <1>1
<1>3. /\ host.pc = "hello"
      /\ \/ /\ Head(host.rx).cmd = "HELLO"
            /\ host' = [host EXCEPT !.pc = "flow", !.rx = Tail(host.rx), !.heard = Head(host.rx).by]
         \/ host' = [host EXCEPT !.rx = Tail(host.rx)]
      /\ UNCHANGED <<kb, mod, toKb, toHost, toMod, fromMod, causes>>
  BY DEF HelloAnswered
<1> DEFINE r == Tail(host.rx)
           b == Head(host.rx).by
<1> HIDE DEF r, b
<1>4. \/ Head(host.rx).cmd = "HELLO" /\ host' = [host EXCEPT !.pc = "flow", !.rx = r, !.heard = b]
      \/ host' = [host EXCEPT !.rx = r]
  BY <1>3 DEF r, b
<1>5. /\ \/ host'.pc = "flow" /\ Head(host.rx).cmd = "HELLO"
         \/ host'.pc = "hello"
      /\ host'.passthrough = host.passthrough
      /\ host'.entered = host.entered /\ host'.booted = host.booted
      /\ host'.killed = host.killed /\ host'.unsaid = host.unsaid
      /\ host'.wait = host.wait /\ host'.since = host.since /\ host'.seq = host.seq /\ host'.rx = r
  BY <1>3, <1>4 DEF TypesOK, Tools
<1> QED BY <1>1, <1>2, <1>3, <1>5 DEF r

\* The tool's ways to be gone.
LEMMA GoneFields ==
  ASSUME TypesOK, DropEnds \/ Killed
  PROVE  /\ host'.pc = "gone" /\ host'.passthrough = host.passthrough
         /\ host'.entered = host.entered /\ host'.booted = host.booted
         /\ DropEnds => /\ host.pc = "dropping" /\ causes' = causes
                        /\ host'.killed = host.killed /\ host'.unsaid = host.unsaid
                        /\ \E x \in ExitOps : toKb' = Append(toKb, x)
         /\ Killed => host'.killed /\ toKb' = toKb /\ causes' # {}
         /\ UNCHANGED <<kb, mod, toHost, toMod, fromMod>>
<1>1. CASE DropEnds
  <2>1. /\ host' = [host EXCEPT !.pc = "gone"] /\ toKb' = Append(toKb, ExitOp)
        /\ UNCHANGED <<kb, mod, toHost, toMod, fromMod, causes>> /\ host.pc = "dropping"
    BY <1>1 DEF DropEnds
  <2>2. /\ host'.pc = "gone" /\ host'.passthrough = host.passthrough
        /\ host'.entered = host.entered /\ host'.booted = host.booted
        /\ host'.killed = host.killed /\ host'.unsaid = host.unsaid
    BY <2>1 DEF TypesOK, Tools
  <2>3. ~Killed
    BY <2>1, <2>2, Longer, NewOps DEF Killed, TypesOK, QueuesOK
  <2>4. \E x \in ExitOps : toKb' = Append(toKb, x)
    BY <2>1, NewOps, OpKinds
  <2> QED BY <2>1, <2>2, <2>3, <2>4
<1>2. CASE Killed
  <2>1. /\ host' = [host EXCEPT !.pc = "gone", !.killed = TRUE] /\ toKb' = toKb
        /\ UNCHANGED <<kb, mod, toHost, toMod, fromMod>> /\ causes' # {}
    BY <1>2 DEF Killed
  <2>2. /\ host'.pc = "gone" /\ host'.passthrough = host.passthrough
        /\ host'.entered = host.entered /\ host'.booted = host.booted /\ host'.killed
    BY <2>1 DEF TypesOK, Tools
  <2>3. ~DropEnds
    BY <2>1, NewOps DEF DropEnds, TypesOK, QueuesOK
  <2> QED BY <2>1, <2>2, <2>3
<1> QED BY <1>1, <1>2

\* The steps that give up, and the client's next HELLO
Fails ==
  /\ host.pc \in {"status", "enter", "probe", "probing", "hello", "flow", "booting"} /\ Fail
  /\ UNCHANGED <<kb, mod, toKb, toHost, toMod, fromMod>>
  /\ causes' = {} => causes = {} /\ (host.entered \/ host.pc = "probe")

AsksAgain ==
  /\ host.pc = "hello" /\ host.att # MaxAttempts /\ HelloAgain
  /\ UNCHANGED <<kb, mod, toHost, toMod, fromMod, causes>>

\* What a step of the tool may be.
LEMMA ToolSteps ==
  ASSUME TypesOK, PhaseOK, ToolStep \/ ToolFault
  PROVE  \/ PumpStream \/ PumpIgnored
         \/ StatusAnswered \/ StatusTimeout \/ Poll \/ EnterAnswered \/ EnterGivesUp
         \/ Settled \/ ProbeUnanswered \/ Fails
         \/ Probe /\ ~ProbeExpired
         \/ ProbeAnswered /\ ProbeHeard(Head(host.rx))
         \/ ProbeAnswered /\ ~ProbeHeard(Head(host.rx))
         \/ AsksAgain
         \/ HelloAnswered /\ ~HelloAgain
         \/ FlowEnds /\ ~Fail
         \/ DropTunnel \/ DropEnds \/ Unwritten \/ Killed
<1>1. CASE Probe /\ ProbeExpired
  BY <1>1 DEF Probe, Fails
<1>2. ASSUME HelloAgain, host.pc = "hello", UNCHANGED <<kb, mod, toHost, toMod, fromMod, causes>>
      PROVE  Fails \/ AsksAgain
  BY <1>2 DEF HelloAgain, Fails, AsksAgain, PhaseOK
<1>3. ASSUME HelloAnswered, HelloAgain
      PROVE  Fails \/ AsksAgain
  <2>1. host.pc = "hello" /\ UNCHANGED <<kb, mod, toHost, toMod, fromMod, causes>>
    BY <1>3 DEF HelloAnswered
  <2> QED BY <1>2, <1>3, <2>1
<1>4. ASSUME HelloTimeout
      PROVE  Fails \/ AsksAgain
  <2>1. host.pc = "hello" /\ HelloAgain /\ UNCHANGED <<kb, mod, toHost, toMod, fromMod, causes>>
    BY <1>4 DEF HelloTimeout
  <2> QED BY <1>2, <2>1
<1>5. CASE FlowEnds /\ Fail
  <2>1. toKb' = toKb
    <3>1. ASSUME NEW mode, host' = [host EXCEPT !.pc = "booting", !.booted = TRUE, !.wait = 1]
          PROVE  FALSE
      BY <1>5, <3>1, FailFields DEF TypesOK, Tools
    <3> QED BY <1>5, <3>1 DEF FlowEnds
  <2> QED BY <1>5, <2>1 DEF FlowEnds, Fails, PhaseOK
<1>6. CASE BootEnds
  BY <1>6 DEF BootEnds, Fails, PhaseOK
<1>7. CASE IoError
  BY <1>7 DEF IoError, Fails
<1> QED BY <1>1, <1>3, <1>4, <1>5, <1>6, <1>7, UnwrittenFields DEF ToolStep, ToolFault

\* Every step keeps the probes' count.
LEMMA ProbeStep ==
  ASSUME TypesOK, PhaseOK, ProbeOK, [TunnelNext]_tunnelVars
  PROVE  ProbeOK'
<1> USE DEF ProbeOK
<1>1. CASE UNCHANGED host
  BY <1>1
<1>2. CASE StartTool
  BY <1>2 DEF StartTool, Fresh
<1>3. ASSUME host'.pc \notin {"status", "enter", "settle", "probe", "probing", "gap"}
      PROVE  ProbeOK'
  BY <1>3
<1>4. CASE PumpStream
  BY <1>4, PumpFields
<1>5. CASE StatusAnswered \/ StatusTimeout \/ Poll \/ EnterAnswered \/ EnterGivesUp
  BY <1>5, HandshakeFields
<1>6. CASE Settled
  BY <1>6, DueFields DEF Settled
<1>7. CASE ProbeUnanswered
  BY <1>7, DueFields, ToolFields, Timing DEF ProbeUnanswered
<1>8. CASE Probe /\ ~ProbeExpired
  <2>1. host.pc = "probe"
    BY <1>8 DEF Probe
  <2>2. host'.pc = "probing" /\ host'.wait = 1 /\ host'.since = host.since /\ host'.seq = NextProbe
    BY <1>8, ProbeFields
  <2>3. NextProbe # 0 /\ SeqMod <= NextProbe + host.since + 1 /\ host.since < EnterDeadline
    BY <1>8, <2>1, ProbeIsOne
  <2> QED BY <2>2, <2>3
<1>9. CASE ProbeAnswered /\ ~ProbeHeard(Head(host.rx))
  BY <1>9, MissedFields
<1>10. CASE Fails
  BY <1>3, <1>10, FailFields DEF Fails
<1>11. CASE ProbeAnswered /\ ProbeHeard(Head(host.rx))
  BY <1>3, <1>11, EnteredFields
<1>12. CASE AsksAgain
  BY <1>3, <1>12, AgainFields DEF AsksAgain
<1>13. CASE HelloAnswered /\ ~HelloAgain
  BY <1>3, <1>13, HeardFields
<1>14. CASE FlowEnds /\ ~Fail
  BY <1>3, <1>14, BootedFields
<1>15. CASE DropTunnel
  BY <1>3, <1>15, DropFields
<1>16. CASE DropEnds \/ Killed
  BY <1>3, <1>16, GoneFields
<1>161. CASE Unwritten
  BY <1>3, <1>161 DEF Unwritten
<1>17. CASE Tick
  <2>1. CASE Gone
    BY <1>1, <1>17, <2>1, TickHost
  <2>2. CASE ~Gone
    <3>1. /\ host'.wait = (IF host.wait > 0 THEN host.wait - 1 ELSE 0)
          /\ host'.since = Least(host.since + 1, EnterDeadline)
      BY <1>17, <2>2, TickHost
    <3>2. host'.pc = host.pc /\ host'.seq = host.seq
      BY <1>17, TickHost DEF TypesOK, Tools
    <3>3. host.pc # "probe" /\ (host.pc \in {"probing", "gap"} => host.wait > 0)
      BY <1>17, <2>2 DEF Tick, Waiting, AwaitsControl, AwaitsFrame
    <3>4. CASE host.pc \in {"probing", "gap"}
      <4>1. host.wait > 0 /\ host.wait <= 1 /\ host.since < EnterDeadline
            /\ SeqMod <= host.seq + host.since + host.wait
        BY <3>3, <3>4 DEF PhaseOK
      <4>2. host'.wait = 0 /\ host'.since = host.since + 1
        BY <3>1, <4>1, ToolFields, Timing DEF Least
      <4> QED BY <3>2, <3>4, <4>1, <4>2, ToolFields, Timing
    <3> QED BY <3>2, <3>3, <3>4
  <2> QED BY <2>1, <2>2
<1>18. CASE PumpIgnored \/ KeyboardStep \/ ModuleStep \/ UNCHANGED tunnelVars
  <2>1. UNCHANGED host
    BY <1>18 DEF PumpIgnored, KeyboardStep, ModuleStep, tunnelVars, KbStatus, KbEnter, KbStream, KbExit,
                 KbAcked, KbNoAck, KbSettled, KbWatchdog, KbForward, ModServes, ModAutoBoots
  <2> QED BY <1>1, <2>1
<1> QED BY <1>2, <1>4, <1>5, <1>6, <1>7, <1>8, <1>9, <1>10, <1>11, <1>12, <1>13, <1>14, <1>15, <1>16,
           <1>161, <1>17, <1>18, ToolSteps DEF TunnelNext

-----------------------------------------------------------------------------
(* What the steps of the keyboard and of the module change *)

\* The queues of the tunnel hold no bad item before a step exactly when none
\* was there, and none is added, or none is left and none is read.
LEMMA Queues ==
  ASSUME TypesOK, NEW bad
  PROVE  /\ \A x \in Ops : Clean(Append(toKb, x), bad) <=> Clean(toKb, bad) /\ x \notin bad
         /\ toKb # <<>> =>
              Op \in Ops /\ (Clean(toKb, bad) <=> Op \notin bad /\ Clean(Tail(toKb), bad))
         /\ \A x \in Reports : Clean(Append(toHost, x), bad) <=> Clean(toHost, bad) /\ x \notin bad
         /\ toHost # <<>> =>
              Report \in Reports /\ (Clean(toHost, bad) <=> Report \notin bad /\ Clean(Tail(toHost), bad))
         /\ \A x \in Arriving : Clean(Append(toMod, x), bad) <=> Clean(toMod, bad) /\ x \notin bad
         /\ toMod # <<>> => /\ Head(toMod) \in Arriving
                            /\ Clean(toMod, bad) <=> Head(toMod) \notin bad /\ Clean(Tail(toMod), bad)
         /\ \A x \in Answers : Clean(Append(fromMod, x), bad) <=> Clean(fromMod, bad) /\ x \notin bad
         /\ fromMod # <<>> => /\ Head(fromMod) \in Answers
                              /\ Clean(fromMod, bad) <=> Head(fromMod) \notin bad /\ Clean(Tail(fromMod), bad)
         /\ \A x \in Answers : Clean(Append(host.rx, x), bad) <=> Clean(host.rx, bad) /\ x \notin bad
         /\ host.rx # <<>> => /\ Head(host.rx) \in Answers
                              /\ Clean(host.rx, bad) <=> Head(host.rx) \notin bad /\ Clean(Tail(host.rx), bad)
         /\ Clean(<<>>, bad)
<1>1. /\ toKb \in Seq(Ops) /\ toHost \in Seq(Reports) /\ toMod \in Seq(Arriving)
      /\ fromMod \in Seq(Answers) /\ host.rx \in Seq(Answers)
  BY ToolFields DEF TypesOK, QueuesOK
<1>2. /\ \A x \in Ops : Clean(Append(toKb, x), bad) <=> Clean(toKb, bad) /\ x \notin bad
      /\ toKb # <<>> => (Clean(toKb, bad) <=> Head(toKb) \notin bad /\ Clean(Tail(toKb), bad))
  BY <1>1, CleanQueue
<1>3. /\ \A x \in Reports : Clean(Append(toHost, x), bad) <=> Clean(toHost, bad) /\ x \notin bad
      /\ toHost # <<>> => (Clean(toHost, bad) <=> Head(toHost) \notin bad /\ Clean(Tail(toHost), bad))
  BY <1>1, CleanQueue
<1>4. /\ \A x \in Arriving : Clean(Append(toMod, x), bad) <=> Clean(toMod, bad) /\ x \notin bad
      /\ toMod # <<>> => (Clean(toMod, bad) <=> Head(toMod) \notin bad /\ Clean(Tail(toMod), bad))
  BY <1>1, CleanQueue
<1>5. /\ \A x \in Answers : Clean(Append(fromMod, x), bad) <=> Clean(fromMod, bad) /\ x \notin bad
      /\ fromMod # <<>> => (Clean(fromMod, bad) <=> Head(fromMod) \notin bad /\ Clean(Tail(fromMod), bad))
  BY <1>1, CleanQueue
<1>6. /\ \A x \in Answers : Clean(Append(host.rx, x), bad) <=> Clean(host.rx, bad) /\ x \notin bad
      /\ host.rx # <<>> => (Clean(host.rx, bad) <=> Head(host.rx) \notin bad /\ Clean(Tail(host.rx), bad))
  BY <1>1, CleanQueue
<1>7. Clean(<<>>, bad)
  BY DEF Clean
<1>8. /\ toKb # <<>> => Head(toKb) \in Ops
      /\ toHost # <<>> => Head(toHost) \in Reports
      /\ toMod # <<>> => Head(toMod) \in Arriving
      /\ fromMod # <<>> => Head(fromMod) \in Answers
      /\ host.rx # <<>> => Head(host.rx) \in Answers
  BY <1>1
<1> QED BY <1>2, <1>3, <1>4, <1>5, <1>6, <1>7, <1>8 DEF Op, Report

\* The keyboard answers, opens or closes its bridge, or passes on a frame.
LEMMA KbFields ==
  ASSUME TypesOK, KeyboardStep
  PROVE  /\ host' = host
         /\ \/ /\ KbStatus /\ Took /\ Op.op = "STATUS"
               /\ kb'.state = kb.state /\ kb'.acked = kb.acked /\ kb'.since = kb.since /\ kb'.watch = 0
               /\ \/ toHost' = toHost
                  \/ \E x \in Reports : x.op = "STATUS" /\ x.since = kb.since /\ toHost' = Append(toHost, x)
               /\ UNCHANGED <<mod, toMod, fromMod, causes>>
            \/ /\ KbEnter /\ Took /\ Op.op = "ENTER"
               /\ \/ kb.state \in {"idle", "error"} /\ kb'.state = "asking" /\ kb'.acked = kb.acked
                  \/ kb.state \in {"idle", "error", "asking"} /\ kb'.state = "settling" /\ ~kb'.acked
                  \/ kb' = kb
               /\ \/ toHost' = toHost
                  \/ \E x \in Reports : x.op = "ENTER" /\ toHost' = Append(toHost, x)
               /\ UNCHANGED <<mod, toMod, fromMod, causes>>
            \/ /\ KbStream /\ Took /\ Op.op = "STREAM" /\ Op.frame \in Requests
               /\ kb'.state = kb.state /\ kb'.acked = kb.acked /\ kb'.since = kb.since /\ kb'.watch = 0
               /\ \/ kb.state # "passthru" /\ toMod' = toMod /\ causes' = causes
                  \/ /\ kb.state = "passthru" /\ causes' = causes
                     /\ \E f \in Arriving : /\ f.cmd = Op.frame.cmd /\ f.seq = Op.frame.seq
                                             /\ toMod' = Append(toMod, f)
                  \/ /\ kb.state = "passthru" /\ (Op.frame.cmd # "HELLO" => causes' # {})
                     /\ causes' = {} => causes = {}
                     /\ \/ toMod' = toMod
                        \/ \E f \in Arriving : /\ f.cmd = "GARBLED" /\ f.seq = Op.frame.seq
                                                /\ toMod' = Append(toMod, f)
               /\ UNCHANGED <<mod, toHost, fromMod>>
            \/ /\ KbExit /\ Took /\ Op.op = "EXIT" /\ kb'.state = "idle" /\ ~kb'.acked
               /\ UNCHANGED <<mod, toHost, toMod, fromMod, causes>>
            \/ /\ KbAcked /\ kb.state = "asking" /\ kb'.state = "settling" /\ kb'.acked
               /\ kb'.since = 0 /\ mod.mode = "app" /\ mod' = Restarted(TRUE)
               /\ \E x \in Reports : x.op = "ENTER" /\ toHost' = Append(toHost, x)
               /\ UNCHANGED <<toKb, toMod, fromMod, causes>>
            \/ /\ KbNoAck /\ kb.state = "asking" /\ kb'.state = "error" /\ kb'.acked = kb.acked
               /\ mod' = mod \/ (mod.mode = "app" /\ mod' = Restarted(FALSE))
               /\ \E x \in Reports : x.op = "ENTER" /\ toHost' = Append(toHost, x)
               /\ UNCHANGED <<toKb, toMod, fromMod, causes>>
            \/ /\ KbSettled /\ kb.state = "settling" /\ kb'.state = "passthru"
               /\ kb'.acked = kb.acked /\ kb'.since = kb.since /\ kb'.watch = kb.watch
               /\ UNCHANGED <<mod, toKb, toHost, toMod, fromMod, causes>>
            \/ /\ KbWatchdog /\ kb.state \in {"settling", "passthru"} /\ kb.watch >= Watchdog
               /\ kb'.state = "idle" /\ ~kb'.acked
               /\ UNCHANGED <<mod, toKb, toHost, toMod, fromMod, causes>>
            \/ /\ KbForward /\ fromMod # <<>> /\ fromMod' = Tail(fromMod)
               /\ \/ toHost' = toHost
                  \/ \E x \in Reports : /\ x.op = "JUNK" \/ (x.op = "STREAM" /\ x.frame = Head(fromMod))
                                        /\ toHost' = Append(toHost, x)
               /\ kb.state # "passthru" => UNCHANGED <<toHost, causes>>
               /\ \/ causes' = causes /\ kb.state = "passthru"
                     /\ \/ host.entered
                        \/ \E x \in Reports : x.op = "STREAM" /\ x.frame = Head(fromMod)
                                              /\ toHost' = Append(toHost, x)
                  \/ causes' = causes /\ kb.state # "passthru"
                  \/ causes' # {}
               /\ UNCHANGED <<kb, mod, toKb, toMod>>
<1>1. kb \in Bridges
  BY DEF TypesOK
<1>2. host' = host
  BY DEF KeyboardStep, KbStatus, KbEnter, KbStream, KbExit, KbAcked, KbNoAck, KbSettled, KbWatchdog, KbForward
<1>3. [kb EXCEPT !.watch = 0].state = kb.state /\ [kb EXCEPT !.watch = 0].acked = kb.acked
      /\ [kb EXCEPT !.watch = 0].since = kb.since /\ [kb EXCEPT !.watch = 0].watch = 0
  BY <1>1 DEF Bridges
<1>13. \A answer \in {"OK", "NO_ACK", "E_STATE"} :
         /\ [op |-> "ENTER", answer |-> answer] \in Reports
         /\ [op |-> "ENTER", answer |-> answer].op = "ENTER"
  BY NewReports
<1>4. CASE KbStatus
  <2>1. /\ Took /\ Op.op = "STATUS" /\ kb' = [kb EXCEPT !.watch = 0]
        /\ \/ toHost' = toHost
           \/ toHost' = Append(toHost, [op |-> "STATUS", state |-> kb.state, since |-> kb.since])
        /\ UNCHANGED <<mod, toMod, fromMod, causes>>
    BY <1>4 DEF KbStatus
  <2>2. /\ [op |-> "STATUS", state |-> kb.state, since |-> kb.since] \in Reports
        /\ [op |-> "STATUS", state |-> kb.state, since |-> kb.since].op = "STATUS"
        /\ [op |-> "STATUS", state |-> kb.state, since |-> kb.since].since = kb.since
    BY <1>1, NewReports DEF Bridges
  <2>3. \/ toHost' = toHost
        \/ \E x \in Reports : x.op = "STATUS" /\ x.since = kb.since /\ toHost' = Append(toHost, x)
    BY <2>1, <2>2
  <2> QED BY <1>2, <1>3, <1>4, <2>1, <2>3
<1>5. CASE KbEnter
  <2>1. Took /\ Op.op = "ENTER" /\ UNCHANGED <<mod, toMod, fromMod, causes>>
    BY <1>5 DEF KbEnter
  <2>2. \/ kb.state \in {"idle", "error"} /\ kb' = [kb EXCEPT !.state = "asking", !.watch = 0]
           /\ toHost' = toHost
        \/ kb.state \in {"idle", "error", "asking"} /\ kb' = [OpenBridge EXCEPT !.acked = FALSE] /\ Say("OK")
        \/ kb' = kb /\ Say("E_STATE")
    BY <1>5 DEF KbEnter
  <2>3. /\ [kb EXCEPT !.state = "asking", !.watch = 0].state = "asking"
        /\ [kb EXCEPT !.state = "asking", !.watch = 0].acked = kb.acked
    BY <1>1 DEF Bridges
  <2>4. /\ [OpenBridge EXCEPT !.acked = FALSE].state = "settling"
        /\ ~[OpenBridge EXCEPT !.acked = FALSE].acked
    BY <1>1 DEF Bridges, OpenBridge
  <2>5. \/ kb.state \in {"idle", "error"} /\ kb'.state = "asking" /\ kb'.acked = kb.acked
        \/ kb.state \in {"idle", "error", "asking"} /\ kb'.state = "settling" /\ ~kb'.acked
        \/ kb' = kb
    BY <2>2, <2>3, <2>4
  <2>6. toHost' = toHost \/ \E x \in Reports : x.op = "ENTER" /\ toHost' = Append(toHost, x)
    BY <1>13, <2>2 DEF Say
  <2> QED BY <1>2, <1>5, <2>1, <2>5, <2>6
<1>6. CASE KbStream
  <2>1. Took /\ Op.op = "STREAM" /\ kb' = [kb EXCEPT !.watch = 0] /\ UNCHANGED <<mod, toHost, fromMod>>
    BY <1>6 DEF KbStream
  <2>2. Op.frame \in Requests
    BY <2>1, Queues, OpKinds DEF Took
  <2>3. Op.frame.cmd \in {"HELLO", "BOOT_APP", "BOOT_STAY"}
    BY <2>2, FrameFields DEF Requests
  <2>4. \/ kb.state # "passthru" /\ toMod' = toMod /\ causes' = causes
        \/ /\ kb.state = "passthru" /\ causes' = causes
           /\ \E f \in Arriving : /\ f.cmd = Op.frame.cmd /\ f.seq = Op.frame.seq
                                   /\ toMod' = Append(toMod, f)
        \/ /\ kb.state = "passthru" /\ (Op.frame.cmd # "HELLO" => causes' # {})
           /\ causes' = {} => causes = {}
           /\ \/ toMod' = toMod
              \/ \E f \in Arriving : /\ f.cmd = "GARBLED" /\ f.seq = Op.frame.seq
                                      /\ toMod' = Append(toMod, f)
    <3>1. causes \union {"boot"} # {}
      OBVIOUS
    <3>2. \/ kb.state # "passthru" /\ toMod' = toMod /\ causes' = causes
          \/ kb.state = "passthru" /\ toMod' = Append(toMod, Op.frame) /\ causes' = causes
          \/ /\ kb.state = "passthru" /\ (Op.frame.cmd # "HELLO" => causes' # {})
             /\ causes' = {} => causes = {}
             /\ \/ toMod' = toMod
                \/ toMod' = Append(toMod, [Op.frame EXCEPT !.cmd = "GARBLED"])
      BY <1>6, <2>3, <3>1 DEF KbStream
    <3>3. /\ Op.frame \in Arriving
          /\ [Op.frame EXCEPT !.cmd = "GARBLED"] \in Arriving
          /\ [Op.frame EXCEPT !.cmd = "GARBLED"].cmd = "GARBLED"
          /\ [Op.frame EXCEPT !.cmd = "GARBLED"].seq = Op.frame.seq
      BY <2>2, NewFrames
    <3> QED BY <3>2, <3>3
  <2> QED BY <1>2, <1>3, <1>6, <2>1, <2>2, <2>4
<1>7. CASE KbExit
  <2>1. /\ Took /\ Op.op = "EXIT" /\ kb' = [kb EXCEPT !.state = "idle", !.acked = FALSE]
        /\ UNCHANGED <<mod, toHost, toMod, fromMod, causes>>
    BY <1>7 DEF KbExit
  <2>2. kb'.state = "idle" /\ ~kb'.acked
    BY <1>1, <2>1 DEF Bridges
  <2> QED BY <1>2, <1>7, <2>1, <2>2
<1>8. CASE KbAcked
  <2>1. /\ kb.state = "asking" /\ mod.mode = "app" /\ kb' = [OpenBridge EXCEPT !.acked = TRUE]
        /\ mod' = Restarted(TRUE) /\ toHost' = Append(toHost, [op |-> "ENTER", answer |-> "OK"])
        /\ UNCHANGED <<toKb, toMod, fromMod, causes>>
    BY <1>8 DEF KbAcked, Say
  <2>2. kb'.state = "settling" /\ kb'.acked /\ kb'.since = 0
    BY <1>1, <2>1 DEF Bridges, OpenBridge
  <2>3. \E x \in Reports : x.op = "ENTER" /\ toHost' = Append(toHost, x)
    BY <1>13, <2>1
  <2> QED BY <1>2, <1>8, <2>1, <2>2, <2>3
<1>9. CASE KbNoAck
  <2>1. /\ kb.state = "asking" /\ kb' = [kb EXCEPT !.state = "error"]
        /\ toHost' = Append(toHost, [op |-> "ENTER", answer |-> "NO_ACK"])
        /\ UNCHANGED <<toKb, toMod, fromMod, causes>>
    BY <1>9 DEF KbNoAck, Say
  <2>2. kb'.state = "error" /\ kb'.acked = kb.acked
    BY <1>1, <2>1 DEF Bridges
  <2>3. mod' = mod \/ (mod.mode = "app" /\ mod' = Restarted(FALSE))
    BY <1>9 DEF KbNoAck
  <2>4. \E x \in Reports : x.op = "ENTER" /\ toHost' = Append(toHost, x)
    BY <1>13, <2>1
  <2> QED BY <1>2, <1>9, <2>1, <2>2, <2>3, <2>4
<1>10. CASE KbSettled
  <2>1. /\ kb.state = "settling" /\ kb' = [kb EXCEPT !.state = "passthru"]
        /\ UNCHANGED <<mod, toKb, toHost, toMod, fromMod, causes>>
    BY <1>10 DEF KbSettled
  <2>2. /\ kb'.state = "passthru" /\ kb'.acked = kb.acked /\ kb'.since = kb.since
        /\ kb'.watch = kb.watch
    BY <1>1, <2>1 DEF Bridges
  <2> QED BY <1>2, <1>10, <2>1, <2>2
<1>11. CASE KbWatchdog
  <2>1. /\ kb.state \in {"settling", "passthru"} /\ kb.watch >= Watchdog
        /\ kb' = [kb EXCEPT !.state = "idle", !.acked = FALSE]
        /\ UNCHANGED <<mod, toKb, toHost, toMod, fromMod, causes>>
    BY <1>11 DEF KbWatchdog
  <2>2. kb'.state = "idle" /\ ~kb'.acked
    BY <1>1, <2>1 DEF Bridges
  <2> QED BY <1>2, <1>11, <2>1, <2>2
<1>12. CASE KbForward
  <2>1. fromMod # <<>> /\ fromMod' = Tail(fromMod) /\ UNCHANGED <<kb, mod, toKb, toMod>>
    BY <1>12 DEF KbForward
  <2>2. \/ toHost' = toHost \/ toHost' = Append(toHost, Junk)
        \/ toHost' = Append(toHost, Stream(Head(fromMod)))
    BY <1>12 DEF KbForward
  <2>5. /\ Stream(Head(fromMod)) \in Reports /\ Stream(Head(fromMod)).op = "STREAM"
        /\ Stream(Head(fromMod)).frame = Head(fromMod) /\ Junk \in Reports /\ Junk.op = "JUNK"
    BY <2>1, Queues, NewReports
  <2>6. \/ toHost' = toHost
        \/ \E x \in Reports : /\ x.op = "JUNK" \/ (x.op = "STREAM" /\ x.frame = Head(fromMod))
                              /\ toHost' = Append(toHost, x)
    BY <2>2, <2>5
  <2>3. kb.state # "passthru" => UNCHANGED <<toHost, causes>>
    BY <1>12 DEF KbForward
  <2>4. \/ causes' = causes /\ kb.state = "passthru"
           /\ \/ host.entered
              \/ \E x \in Reports : x.op = "STREAM" /\ x.frame = Head(fromMod)
                                    /\ toHost' = Append(toHost, x)
        \/ causes' = causes /\ kb.state # "passthru"
        \/ causes' # {}
    <3>1. causes \union {"answer"} # {}
      OBVIOUS
    <3>2. \/ causes' = causes /\ kb.state = "passthru"
             /\ (toHost' = Append(toHost, Stream(Head(fromMod))) \/ host.entered)
          \/ causes' = causes /\ kb.state # "passthru"
          \/ causes' # {}
      BY <1>12, <3>1 DEF KbForward
    <3> QED BY <2>5, <3>2
  <2> QED BY <1>2, <1>12, <2>1, <2>3, <2>4, <2>6
<1> QED BY <1>4, <1>5, <1>6, <1>7, <1>8, <1>9, <1>10, <1>11, <1>12 DEF KeyboardStep

\* The module answers, starts a session, or leaves.
LEMMA ModFields ==
  ASSUME TypesOK, ModuleStep
  PROVE  /\ UNCHANGED <<host, kb, toKb, toHost, causes>>
         /\ \/ /\ mod.mode = "boot" /\ ~mod.session /\ mod.age >= AutoBoot
               /\ mod' = Launched(mod.asked) /\ UNCHANGED <<toMod, fromMod>>
            \/ /\ toMod # <<>> /\ toMod' = Tail(toMod) /\ Head(toMod) \in Arriving
               /\ \/ mod.mode = "app" /\ UNCHANGED <<mod, fromMod>>
                  \/ /\ mod.mode = "boot" /\ Head(toMod).cmd = "HELLO"
                     /\ mod'.mode = "boot" /\ mod'.session
                     /\ mod'.age = mod.age /\ mod'.asked = mod.asked
                     /\ \E f \in Answers : /\ f.cmd = "HELLO" /\ f.seq = Head(toMod).seq
                                            /\ fromMod' = Append(fromMod, f)
                  \/ /\ Head(toMod).cmd = "GARBLED" /\ mod' = mod
                     /\ \E f \in Answers : /\ f.cmd = "FRAME_ERR" /\ f.seq = Head(toMod).seq
                                            /\ fromMod' = Append(fromMod, f)
                  \/ /\ Head(toMod).cmd \in {"BOOT_APP", "BOOT_STAY"}
                     /\ \/ ~mod.session /\ mod' = mod
                        \/ ~mod'.session /\ ~mod'.asked
                     /\ \E f \in Answers : /\ f.cmd = "BOOT" /\ f.seq = Head(toMod).seq
                                            /\ fromMod' = Append(fromMod, f)
<1>1. mod \in Modules
  BY DEF TypesOK
<1>2. CASE ModAutoBoots
  BY <1>2 DEF ModAutoBoots
<1>3. CASE ModServes
  <2> DEFINE f == Head(toMod)
  <2>1. /\ toMod # <<>> /\ toMod' = Tail(toMod) /\ f \in Arriving
        /\ f.cmd \in {"HELLO", "BOOT_APP", "BOOT_STAY", "GARBLED"}
    BY <1>3, Queues, FrameKinds DEF ModServes
  <2>2. UNCHANGED <<host, kb, toKb, toHost, causes>>
    BY <1>3 DEF ModServes
  <2>3. CASE mod.mode = "app"
    BY <1>3, <2>1, <2>2, <2>3 DEF ModServes
  <2>4. CASE mod.mode = "boot" /\ f.cmd = "HELLO"
    <3>1. mod' = [mod EXCEPT !.session = TRUE] /\ fromMod' = Append(fromMod, [f EXCEPT !.cmd = "HELLO"])
      BY <1>3, <2>4 DEF ModServes, Reply
    <3>2. mod'.mode = "boot" /\ mod'.session /\ mod'.age = mod.age /\ mod'.asked = mod.asked
      BY <1>1, <2>4, <3>1 DEF Modules
    <3>3. /\ [f EXCEPT !.cmd = "HELLO"] \in Answers /\ [f EXCEPT !.cmd = "HELLO"].cmd = "HELLO"
          /\ [f EXCEPT !.cmd = "HELLO"].seq = f.seq
      BY <2>1, <2>4, NewFrames
    <3>4. \E g \in Answers : g.cmd = "HELLO" /\ g.seq = f.seq /\ fromMod' = Append(fromMod, g)
      BY <3>1, <3>3
    <3> QED BY <2>1, <2>2, <2>4, <3>2, <3>4
  <2>5. CASE mod.mode = "boot" /\ f.cmd = "GARBLED"
    <3>1. mod' = mod /\ fromMod' = Append(fromMod, [f EXCEPT !.cmd = "FRAME_ERR"])
      BY <1>3, <2>5 DEF ModServes, Reply
    <3>3. /\ [f EXCEPT !.cmd = "FRAME_ERR"] \in Answers
          /\ [f EXCEPT !.cmd = "FRAME_ERR"].cmd = "FRAME_ERR"
          /\ [f EXCEPT !.cmd = "FRAME_ERR"].seq = f.seq
      BY <2>1, NewFrames
    <3>4. \E g \in Answers : g.cmd = "FRAME_ERR" /\ g.seq = f.seq /\ fromMod' = Append(fromMod, g)
      BY <3>1, <3>3
    <3> QED BY <2>1, <2>2, <2>5, <3>1, <3>4
  <2>6. CASE mod.mode = "boot" /\ f.cmd \in {"BOOT_APP", "BOOT_STAY"}
    <3>1. /\ \/ ~mod.session /\ mod' = mod
             \/ mod' = Restarted(FALSE) \/ mod' = Launched(FALSE)
          /\ fromMod' = Append(fromMod, [f EXCEPT !.cmd = "BOOT"])
      BY <1>3, <2>6 DEF ModServes, Reply
    <3>2. /\ ~Restarted(FALSE).session /\ ~Restarted(FALSE).asked
          /\ ~Launched(FALSE).session /\ ~Launched(FALSE).asked
      BY DEF Restarted, Launched
    <3>3. /\ [f EXCEPT !.cmd = "BOOT"] \in Answers /\ [f EXCEPT !.cmd = "BOOT"].cmd = "BOOT"
          /\ [f EXCEPT !.cmd = "BOOT"].seq = f.seq
      BY <2>1, NewFrames
    <3>4. \E g \in Answers : g.cmd = "BOOT" /\ g.seq = f.seq /\ fromMod' = Append(fromMod, g)
      BY <3>1, <3>3
    <3> QED BY <2>1, <2>2, <2>6, <3>1, <3>2, <3>4
  <2>7. mod.mode \in {"app", "boot"}
    BY <1>1 DEF Modules
  <2> QED BY <2>1, <2>3, <2>4, <2>5, <2>6, <2>7
<1> QED BY <1>2, <1>3 DEF ModuleStep

-----------------------------------------------------------------------------
(* Who holds the module *)

\* A step of the tool reads and writes frames of the right kind.
LEMMA HoldTool ==
  ASSUME TypesOK, PhaseOK, ProbeOK, HoldOK, ToolStep \/ ToolFault
  PROVE  HoldOK'
<1> USE DEF HoldOK, InUse, FlowHoldsModule, Parked
<1>1. ASSUME host'.pc \notin {"status", "enter", "settle", "probe", "probing", "gap", "hello", "flow"}
      PROVE  HoldOK'
  BY <1>1
<1>2. ASSUME NEW x \in Ops \ BootOps, toKb' = Append(toKb, x), Clean(toKb, BootOps)
      PROVE  Clean(toKb', BootOps)
  BY <1>2, Queues
<1>3. CASE PumpStream
  <2>1. Report \in HelloReports <=> Report.frame \in HelloAnswers
    BY <1>3, PumpFields, ReportKinds, AnswerKinds
  <2>2. Clean(toHost, HelloReports) => Clean(toHost', HelloReports) /\ Report \notin HelloReports
    BY <1>3, PumpFields, Queues
  <2>3. Clean(host.rx, HelloAnswers) /\ Report.frame \notin HelloAnswers => Clean(host'.rx, HelloAnswers)
    <3> DEFINE f == Report.frame
    <3>1. host'.rx = Append(host.rx, f) /\ f \in Answers
      BY <1>3, PumpFields
    <3> HIDE DEF f
    <3>2. Clean(host.rx, HelloAnswers) /\ f \notin HelloAnswers => Clean(host'.rx, HelloAnswers)
      BY <3>1, Queues
    <3> QED BY <3>2 DEF f
  <2>4. host'.pc = host.pc /\ UNCHANGED <<mod, toKb, toMod, fromMod>>
    BY <1>3, PumpFields
  <2> QED BY <2>1, <2>2, <2>3, <2>4
<1>4. CASE PumpIgnored
  BY <1>4, IgnoredFields, Queues
<1>5. CASE StatusAnswered \/ StatusTimeout \/ Poll \/ EnterAnswered \/ EnterGivesUp
  <2>1. Clean(toKb', BootOps)
    <3>1. toKb' = toKb \/ \E x \in Ops : x.op \in {"STATUS", "ENTER"} /\ toKb' = Append(toKb, x)
      BY <1>5, HandshakeFields
    <3>2. \A x \in Ops : x.op \in {"STATUS", "ENTER"} => x \notin BootOps
      BY OpKinds
    <3>3. Clean(toKb, BootOps)
      BY <1>5, HandshakeFields
    <3> QED BY <1>2, <3>1, <3>2, <3>3
  <2>2. Clean(toHost, HelloReports) => Clean(toHost', HelloReports)
    <3>1. CASE toHost' = toHost
      BY <3>1 DEF Clean
    <3>2. CASE toHost # <<>> /\ toHost' = Tail(toHost)
      BY <3>2, Queues
    <3> QED BY <1>5, <3>1, <3>2, HandshakeFields
  <2>3. UNCHANGED <<mod, toMod, fromMod>> /\ host'.rx = host.rx
        /\ host.pc \in {"status", "enter"} /\ host'.pc \in {"enter", "settle", "drop"}
    BY <1>5, HandshakeFields
  <2> QED BY <1>5, <2>1, <2>2, <2>3
<1>6. CASE Settled \/ ProbeUnanswered
  BY <1>6, DueFields DEF Settled, ProbeUnanswered
<1>7. CASE Fails
  BY <1>1, <1>7, FailFields DEF Fails
<1>8. CASE Probe /\ ~ProbeExpired
  <2>1. Hello(NextProbe, "probe") \in Requests
    BY <1>8, ProbeIsOne DEF Probe
  <2>2. Stream(Hello(NextProbe, "probe")) \in Ops \ BootOps
    BY <2>1, NewOps, OpKinds, Written
  <2>3. Clean(toKb, BootOps) => Clean(toKb', BootOps)
    BY <1>2, <1>8, <2>2, ProbeFields
  <2> QED BY <1>8, <2>3, ProbeFields, Queues
<1>9. CASE ProbeAnswered /\ ProbeHeard(Head(host.rx))
  <2>1. Clean(toKb, BootOps) => Clean(toKb', BootOps)
    <3>1. PICK x \in HelloOps : toKb' = Append(toKb, x)
      BY <1>9, EnteredFields
    <3>2. x \in Ops \ BootOps
      <4>1. x \in Ops
        BY DEF HelloOps
      <4> QED BY <4>1, OpKinds
    <3> QED BY <1>2, <3>1, <3>2
  <2>2. Clean(host'.rx, HelloAnswers) /\ host.pc = "probing" /\ host'.pc = "hello"
        /\ UNCHANGED <<mod, toMod, fromMod, toHost>>
    BY <1>9, EnteredFields, Queues
  <2> QED BY <2>1, <2>2
<1>10. CASE ProbeAnswered /\ ~ProbeHeard(Head(host.rx))
  BY <1>10, MissedFields, Queues
<1>11. CASE AsksAgain
  <2>1. Clean(toKb, BootOps) => Clean(toKb', BootOps)
    <3>1. PICK x \in HelloOps : toKb' = Append(toKb, x)
      BY <1>11, AgainFields DEF AsksAgain
    <3>2. x \in Ops \ BootOps
      <4>1. x \in Ops
        BY DEF HelloOps
      <4> QED BY <4>1, OpKinds
    <3> QED BY <1>2, <3>1, <3>2
  <2>2. Clean(host.rx, HelloAnswers) => Clean(host'.rx, HelloAnswers)
    BY <1>11, AgainFields, Queues DEF AsksAgain
  <2>3. host.pc = "hello" /\ host'.pc = "hello" /\ UNCHANGED <<mod, toMod, fromMod, toHost>>
    BY <1>11, AgainFields DEF AsksAgain
  <2> QED BY <2>1, <2>2, <2>3
<1>12. CASE HelloAnswered /\ ~HelloAgain
  <2>1. Head(host.rx).cmd = "HELLO" => Parked
    BY <1>12, HeardFields, Queues, AnswerKinds
  <2> QED BY <1>12, <2>1, HeardFields, Queues
<1>13. CASE FlowEnds /\ ~Fail
  BY <1>1, <1>13, BootedFields
<1>14. CASE DropTunnel
  BY <1>1, <1>14, DropFields
<1>15. CASE DropEnds \/ Killed
  BY <1>1, <1>15, GoneFields
<1>16. CASE Unwritten
  BY <1>1, <1>16 DEF Unwritten
<1> QED BY <1>3, <1>4, <1>5, <1>6, <1>7, <1>8, <1>9, <1>10, <1>11, <1>12, <1>13, <1>14, <1>15, <1>16,
           ToolSteps

\* So does one of the keyboard, and it takes no parked module off its session.
LEMMA HoldKeyboard ==
  ASSUME TypesOK, HoldOK, KeyboardStep
  PROVE  HoldOK'
<1> USE DEF HoldOK, InUse, FlowHoldsModule, Parked
<1>1. host' = host
  BY KbFields
<1>2. Clean(toKb, BootOps) => Clean(toKb', BootOps)
  BY KbFields, Queues DEF Took
<1>3. UNCHANGED mod \/ (~Parked /\ ~Parked')
  <2>1. ~Restarted(TRUE).session /\ ~Restarted(FALSE).session
    BY DEF Restarted
  <2>2. UNCHANGED mod \/ (mod.mode = "app" /\ ~mod'.session)
    BY <2>1, KbFields
  <2> QED BY <2>2
<1>4. Clean(toKb, BootOps) /\ Clean(toMod, BootFrames) => Clean(toMod', BootFrames)
  <2>1. CASE toMod' = toMod
    BY <2>1
  <2>2. CASE toMod' # toMod
    <3>1. /\ Took /\ Op.op = "STREAM" /\ Op.frame \in Requests
          /\ \E f \in Arriving : /\ f.cmd = Op.frame.cmd \/ f.cmd = "GARBLED"
                                 /\ toMod' = Append(toMod, f)
      BY <2>2, KbFields
    <3>2. Op \in Ops /\ (Clean(toKb, BootOps) => Op \notin BootOps)
      BY <3>1, Queues DEF Took
    <3>3. Op \notin BootOps => Op.frame.cmd = "HELLO"
      BY <3>1, <3>2, OpKinds
    <3>4. PICK f \in Arriving : /\ f.cmd = Op.frame.cmd \/ f.cmd = "GARBLED"
                                /\ toMod' = Append(toMod, f)
      BY <3>1
    <3>5. Op \notin BootOps => f \notin BootFrames
      BY <3>3, <3>4, FrameKinds
    <3> QED BY <3>2, <3>4, <3>5, Queues
  <2> QED BY <2>1, <2>2
<1>5. Clean(fromMod, HelloAnswers) => Clean(fromMod', HelloAnswers)
  BY ZenonT(60), KbFields, Queues
<1>6. Clean(fromMod, HelloAnswers) /\ Clean(toHost, HelloReports) => Clean(toHost', HelloReports)
  <2>1. CASE toHost' = toHost
    BY <2>1
  <2>2. CASE toHost' # toHost
    <3>1. PICK x \in Reports :
            /\ toHost' = Append(toHost, x)
            /\ \/ x.op \in {"STATUS", "ENTER", "JUNK"}
               \/ fromMod # <<>> /\ x.op = "STREAM" /\ x.frame = Head(fromMod)
      BY <2>2, KbFields
    <3>2. Clean(fromMod, HelloAnswers) => x \notin HelloReports
      BY <3>1, Queues, ReportKinds, AnswerKinds
    <3> QED BY <3>1, <3>2, Queues
  <2> QED BY <2>1, <2>2
<1> QED BY <1>1, <1>2, <1>3, <1>4, <1>5, <1>6

\* Once it has started a session the module stays, as long as the tool uses it.
LEMMA HoldStep ==
  ASSUME TypesOK, PhaseOK, ProbeOK, HoldOK, [TunnelNext]_tunnelVars
  PROVE  HoldOK'
<1> USE DEF HoldOK, InUse, FlowHoldsModule, Parked
<1>1. CASE StartTool
  <2>1. /\ toKb' = <<StatusOp>> /\ toHost' = <<>> /\ toMod' = <<>> /\ fromMod' = <<>>
        /\ host'.rx = <<>> /\ host'.pc = "status"
    BY <1>1 DEF StartTool, Fresh
  <2>2. StatusOp \notin BootOps
    BY NewOps, OpKinds
  <2> QED BY <2>1, <2>2 DEF Clean
<1>2. CASE ModuleStep
  <2>1. UNCHANGED <<host, toKb, toHost>>
    BY <1>2, ModFields
  <2>2. CASE UNCHANGED <<toMod, fromMod>> /\ mod' = Launched(mod.asked) /\ ~mod.session
    BY <2>1, <2>2 DEF Launched
  <2>3. CASE toMod # <<>> /\ toMod' = Tail(toMod) /\ UNCHANGED <<mod, fromMod>>
    BY <2>1, <2>3, Queues
  <2>4. CASE toMod # <<>> /\ toMod' = Tail(toMod) /\ mod'.mode = "boot" /\ mod'.session
    BY <2>1, <2>4, Queues
  <2>5. CASE /\ toMod # <<>> /\ toMod' = Tail(toMod) /\ mod' = mod
             /\ \E f \in Answers : f.cmd = "FRAME_ERR" /\ fromMod' = Append(fromMod, f)
    BY <2>1, <2>5, AnswerKinds, Queues
  <2>6. CASE /\ toMod # <<>> /\ toMod' = Tail(toMod)
             /\ Head(toMod).cmd \in {"BOOT_APP", "BOOT_STAY"}
    <3>1. ~(host.pc \in {"status", "enter", "settle", "probe", "probing", "gap", "hello", "flow"})
      BY <2>6, Queues, FrameKinds
    <3> QED BY <2>1, <3>1
  <2> QED BY <1>2, <2>2, <2>3, <2>4, <2>5, <2>6, ModFields
<1>3. CASE Tick
  <2>1. /\ UNCHANGED <<toKb, toHost, toMod, fromMod>> /\ mod'.mode = mod.mode /\ mod'.session = mod.session
    BY <1>3, TickOthers DEF Tick
  <2>2. host'.pc = host.pc /\ host'.rx = host.rx
    BY <1>3, TickHost DEF TypesOK, Tools
  <2> QED BY <2>1, <2>2
<1>4. CASE UNCHANGED tunnelVars
  BY <1>4 DEF tunnelVars
<1> QED BY <1>1, <1>2, <1>3, <1>4, HoldTool, HoldKeyboard DEF TunnelNext

-----------------------------------------------------------------------------
(* The clocks *)

\* What the reports say stays true as long as the module's clock stands still.
LEMMA SameReports ==
  ASSUME mod'.mode = mod.mode, mod'.age = mod.age
  PROVE  Belated' = Belated /\ \A since : Known(since)' <=> Known(since)
BY DEF Belated, Known, InTime

\* A step of the tool: it knows what the keyboard told it.
LEMMA ClockTool ==
  ASSUME TypesOK, PhaseOK, ProbeOK, ClockOK, ToolStep \/ ToolFault
  PROVE  ClockOK'
<1> USE DEF ClockOK, Asked, AwaitsControl
<1>1. kb' = kb /\ mod' = mod
  BY DEF ToolStep, PumpStream, PumpIgnored, StatusAnswered, StatusTimeout, Poll, EnterAnswered, EnterGivesUp,
         Settled, Probe, ProbeAnswered, ProbeUnanswered, HelloAnswered, HelloTimeout, FlowEnds,
         BootEnds, DropTunnel, DropEnds, IoError, BootUnwritten, DropBootUnwritten, DropUnread,
         ExitUnwritten, Killed, ToolFault
<1>2. /\ Belated' = Belated /\ (Asked' <=> Asked) /\ Known(kb.since)' = Known(kb.since)
      /\ \A s : Known(s) => (InTime(s) \/ s = EnterDeadline)
      /\ Known(host.since)' = (InTime(host'.since) \/ host'.since = EnterDeadline)
      /\ InTime(host.since)' = InTime(host'.since)
  BY <1>1, SameReports DEF Known, InTime
<1>3. ASSUME host'.pc \notin {"status", "enter", "settle", "probe", "probing", "gap"}
      PROVE  ClockOK'
  BY <1>1, <1>2, <1>3
<1>4. ASSUME host'.pc = host.pc, host'.since = host.since,
             toHost' = toHost \/ (toHost # <<>> /\ toHost' = Tail(toHost))
      PROVE  ClockOK'
  <2>1. Clean(toHost, Belated) => Clean(toHost', Belated)
    BY <1>4, Queues
  <2> QED BY <1>1, <1>2, <1>4, <2>1 DEF Known
<1>5. CASE PumpStream
  BY <1>4, <1>5, PumpFields
<1>6. CASE PumpIgnored
  BY <1>4, <1>6, IgnoredFields
<1>7. CASE StatusAnswered \/ StatusTimeout \/ Poll \/ EnterAnswered \/ EnterGivesUp
  <2>1. Asked => Clean(toHost, Belated) /\ Clean(toHost', Belated)
    <3>1. /\ host.pc \in {"status", "enter"}
          /\ toHost' = toHost \/ (toHost # <<>> /\ toHost' = Tail(toHost))
      BY <1>7, HandshakeFields
    <3>2. Clean(toHost, Belated) => Clean(toHost', Belated)
      BY <3>1, Queues
    <3> QED BY <3>1, <3>2
  <2>2. CASE host'.pc = "enter" \/ host'.pc = "drop"
    BY <1>1, <1>2, <2>1, <2>2
  <2>3. CASE host'.pc = "settle" /\ toHost # <<>> /\ Report.op = "STATUS" /\ host'.since = Report.since
    <3>1. Asked => Known(Report.since)
      BY <2>1, <2>3, Queues, ReportKinds
    <3> QED BY <1>1, <1>2, <2>3, <3>1
  <2> QED BY <1>7, <2>2, <2>3, HandshakeFields
<1>8. CASE Settled
  <2>1. host.pc = "settle" /\ host'.pc = "probe" /\ host'.since = host.since
    BY <1>8, DueFields DEF Settled
  <2> QED BY <1>1, <1>2, <2>1
<1>9. CASE ProbeUnanswered
  <2>1. host.pc \in {"probing", "gap"} /\ host'.pc = "probe" /\ host'.since = host.since
    BY <1>9, DueFields DEF ProbeUnanswered
  <2> QED BY <1>1, <1>2, <2>1
<1>10. CASE Probe /\ ~ProbeExpired
  <2>1. host.pc = "probe" /\ host'.pc = "probing" /\ host'.since = host.since
    BY <1>10, ProbeFields
  <2>2. host.since < EnterDeadline
    BY <1>10, <2>1, ProbeIsOne
  <2>3. Asked => InTime(host.since)
    BY <1>2, <2>1, <2>2, Timing
  <2> QED BY <1>1, <1>2, <2>1, <2>3
<1>11. CASE ProbeAnswered /\ ~ProbeHeard(Head(host.rx))
  <2>1. host.pc = "probing" /\ host'.pc \in {"probing", "gap"} /\ host'.since = host.since
    BY <1>11, MissedFields
  <2> QED BY <1>1, <1>2, <2>1
<1>12. CASE Fails
  BY <1>3, <1>12, FailFields DEF Fails
<1>13. CASE ProbeAnswered /\ ProbeHeard(Head(host.rx))
  BY <1>3, <1>13, EnteredFields
<1>14. CASE AsksAgain
  BY <1>3, <1>14, AgainFields DEF AsksAgain
<1>15. CASE HelloAnswered /\ ~HelloAgain
  BY <1>3, <1>15, HeardFields
<1>16. CASE FlowEnds /\ ~Fail
  BY <1>3, <1>16, BootedFields
<1>17. CASE DropTunnel
  BY <1>3, <1>17, DropFields
<1>18. CASE DropEnds \/ Killed
  BY <1>3, <1>18, GoneFields
<1>19. CASE Unwritten
  BY <1>3, <1>19 DEF Unwritten
<1> QED BY <1>5, <1>6, <1>7, <1>8, <1>9, <1>10, <1>11, <1>12, <1>13, <1>14, <1>15, <1>16, <1>17, <1>18,
           <1>19, ToolSteps

\* A step of the keyboard: its clock starts with the module's stay, and it
\* reports what the clock says.
LEMMA ClockKeyboard ==
  ASSUME TypesOK, ClockOK, KeyboardStep
  PROVE  ClockOK'
<1> USE DEF ClockOK, Asked, AwaitsControl
<1>1. host' = host
  BY KbFields
<1>2. kb.since \in Nat /\ host.since \in Nat /\ host.since <= EnterDeadline
  BY Timing, ToolFields DEF TypesOK, Bridges
<1>3. CASE KbAcked
  <2>1. kb'.acked /\ kb'.state = "settling" /\ kb'.since = 0 /\ mod' = Restarted(TRUE)
        /\ \E x \in Reports : x.op = "ENTER" /\ toHost' = Append(toHost, x)
    <3>1. kb.state = "asking" /\ mod' = Restarted(TRUE) /\ Say("OK") /\ kb' = [OpenBridge EXCEPT !.acked = TRUE]
      BY <1>3 DEF KbAcked
    <3>2. kb'.acked /\ kb'.state = "settling" /\ kb'.since = 0
      BY <3>1 DEF TypesOK, Bridges, OpenBridge
    <3>3. /\ [op |-> "ENTER", answer |-> "OK"] \in Reports
          /\ [op |-> "ENTER", answer |-> "OK"].op = "ENTER"
      BY NewReports
    <3> QED BY <3>1, <3>2, <3>3 DEF Say
  <2>2. mod'.mode = "boot" /\ mod'.age = 0
    BY <2>1 DEF Restarted
  <2>3. \A s \in Nat : InTime(s)' /\ Known(s)'
    BY <2>2 DEF InTime, Known
  <2>4. \A x \in Reports : x.op = "STATUS" => x.since \in Nat
    BY ReportKinds, Timing
  <2>5. Belated' = {}
    BY <2>3, <2>4 DEF Belated
  <2>6. Clean(toHost, Belated)'
    BY <2>5 DEF Clean
  <2>7. Known(kb.since)' /\ Known(host.since)' /\ InTime(host.since)'
    <3>1. kb'.since \in Nat /\ host'.since \in Nat
      BY <1>1, <1>2, <2>1
    <3>2. mod'.mode = "boot" /\ mod'.age <= kb'.since /\ mod'.age <= host'.since
      BY <2>2, <3>1
    <3> QED BY <3>2 DEF Known, InTime
  <2> QED BY <2>1, <2>6, <2>7
<1>4. CASE KbNoAck
  <2>1. kb.state = "asking" /\ kb'.acked = kb.acked
    BY <1>4 DEF KbNoAck, TypesOK, Bridges
  <2> QED BY <2>1
<1>5. ASSUME mod' = mod
      PROVE  ClockOK'
  <2>1. kb'.acked => kb'.since = kb.since /\ kb.acked /\ kb'.state \in {"settling", "passthru"}
    <3>1. ~KbAcked
      BY <1>5 DEF KbAcked, Restarted
    <3> QED BY <1>5, <3>1, KbFields
  <2>2. /\ Belated' = Belated
        /\ kb'.acked => (Known(kb.since)' <=> Known(kb.since))
        /\ Known(host.since)' <=> Known(host.since)
        /\ InTime(host.since)' <=> InTime(host.since)
    BY <1>1, <1>5, <2>1, SameReports DEF Known, InTime
  <2>3. kb'.acked /\ Known(kb.since) /\ Clean(toHost, Belated) => Clean(toHost', Belated)
    <3>1. CASE toHost' = toHost
      BY <3>1
    <3>2. CASE toHost' # toHost
      <4>1. PICK x \in Reports : /\ toHost' = Append(toHost, x)
                                 /\ x.op = "STATUS" => x.since = kb.since
        BY <3>2, KbFields
      <4>2. Known(kb.since) => x \notin Belated
        BY <4>1, ReportKinds
      <4> QED BY <4>1, <4>2, Queues
    <3> QED BY <3>1, <3>2
  <2> QED BY <1>1, <1>5, <2>1, <2>2, <2>3
<1>6. mod' = mod \/ KbAcked \/ KbNoAck
  BY DEF KeyboardStep, KbStatus, KbEnter, KbStream, KbExit, KbSettled, KbWatchdog, KbForward
<1> QED BY <1>3, <1>4, <1>5, <1>6

\* The module has not been in its bootloader for longer than the tool believes
\* the tunnel open, so it does not leave while the tool waits for an answer.
LEMMA ClockStep ==
  ASSUME TypesOK, PhaseOK, ProbeOK, ClockOK, [TunnelNext]_tunnelVars
  PROVE  ClockOK'
<1> USE DEF ClockOK, Asked, AwaitsControl
<1>1. CASE StartTool
  <2>1. /\ toHost' = <<>> /\ host'.pc = "status" /\ UNCHANGED <<kb, mod>>
    BY <1>1 DEF StartTool, Fresh
  <2>2. Known(kb.since)' <=> Known(kb.since)
    BY <2>1 DEF Known, InTime
  <2>3. Clean(toHost, Belated)'
    BY <2>1 DEF Clean
  <2> QED BY <2>1, <2>2, <2>3
<1>2. CASE ModuleStep
  <2>1. UNCHANGED <<host, kb, toKb, toHost>>
    BY <1>2, ModFields
  <2>2. CASE mod.mode = "boot" /\ mod.age >= AutoBoot /\ mod' = Launched(mod.asked)
    <3>1. mod'.asked = mod.asked /\ mod.age \in Nat
      BY <2>2, Timing DEF Launched, TypesOK, Modules
    <3>2. \A s \in 0..EnterDeadline : ~InTime(s)
      BY <2>2, <3>1, Timing DEF InTime
    <3>3. kb.since \in 0..EnterDeadline /\ host.since \in 0..EnterDeadline
      BY DEF TypesOK, Bridges, Tools
    <3>4. /\ Known(kb.since) => kb.since = EnterDeadline
          /\ Known(host.since) => host.since = EnterDeadline
          /\ ~InTime(host.since)
      BY <3>2, <3>3 DEF Known
    <3>5. /\ kb.since = EnterDeadline => Known(kb.since)'
          /\ host.since = EnterDeadline => Known(host.since)'
      BY <2>1 DEF Known
    <3>6. Clean(toHost, Belated) => Clean(toHost, Belated)'
      <4>1. ASSUME NEW x \in Reports, x \notin Belated
            PROVE  x \notin Belated'
        <5>1. x.op = "STATUS" => x.since \in 0..EnterDeadline /\ Known(x.since)
          BY <4>1, ReportKinds
        <5>2. x.op = "STATUS" => x.since = EnterDeadline
          BY <3>2, <5>1 DEF Known
        <5> QED BY <5>2 DEF Belated, Known
      <4>2. \A i \in 1..Len(toHost) : toHost[i] \in Reports
        BY DEF TypesOK, QueuesOK
      <4> QED BY <2>1, <4>1, <4>2 DEF Clean
    <3> QED BY <2>1, <3>1, <3>4, <3>5, <3>6
  <2>3. CASE mod'.mode = mod.mode /\ mod'.age = mod.age /\ mod'.asked = mod.asked
    <3>1. /\ Belated' = Belated /\ (Known(kb.since)' <=> Known(kb.since))
          /\ Known(host.since)' <=> Known(host.since)
          /\ InTime(host.since)' <=> InTime(host.since)
      BY <2>1, <2>3, SameReports DEF Known, InTime
    <3> QED BY <2>1, <2>3, <3>1
  <2>4. CASE ~mod'.asked
    BY <2>1, <2>4
  <2> QED BY <1>2, <2>2, <2>3, <2>4, ModFields
<1>3. CASE Tick
  <2>1. /\ kb'.state = kb.state /\ kb'.acked = kb.acked /\ mod'.asked = mod.asked
        /\ mod'.mode = mod.mode /\ kb'.since = Least(kb.since + 1, EnterDeadline)
        /\ mod'.age = IF mod.mode = "boot" THEN Least(mod.age + 1, AutoBoot) ELSE 0
        /\ toHost' = toHost
    BY <1>3, TickOthers DEF Tick
  <2>2. /\ host'.pc = host.pc
        /\ ~Gone => host'.since = Least(host.since + 1, EnterDeadline)
    BY <1>3, TickHost DEF TypesOK, Tools
  <2>3. /\ kb.since \in Nat /\ kb.since <= EnterDeadline
        /\ host.since \in Nat /\ host.since <= EnterDeadline /\ mod.age \in Nat
    BY Timing DEF TypesOK, Bridges, Tools, Modules
  <2>4. \A s \in Nat : s <= EnterDeadline =>
          /\ InTime(s) => mod'.age <= s + 1
          /\ Known(s) => \/ Least(s + 1, EnterDeadline) = EnterDeadline
                         \/ mod.mode = "boot" /\ mod'.age <= Least(s + 1, EnterDeadline)
    BY <2>1, <2>3, Timing DEF InTime, Known, Least
  <2>5. Known(kb.since) => Known(kb.since)'
    BY <2>1, <2>3, <2>4 DEF Known, InTime
  <2>6. ~Gone /\ Known(host.since) => Known(host.since)'
    BY <2>1, <2>2, <2>3, <2>4 DEF Known, InTime
  <2>7. host.pc \in {"probing", "gap"} /\ InTime(host.since) => InTime(host.since)'
    <3>1. SUFFICES ASSUME host.pc \in {"probing", "gap"}, InTime(host.since)
                   PROVE  InTime(host.since)'
      OBVIOUS
    <3>2. host.wait > 0
      BY <1>3, <3>1 DEF Tick, Waiting, AwaitsFrame, Gone
    <3>3. host.since < EnterDeadline
      BY <3>1, <3>2 DEF ProbeOK
    <3>4. host'.since = host.since + 1
      BY <2>2, <2>3, <3>1, <3>3, Timing DEF Least, Gone
    <3> QED BY <2>1, <2>3, <2>4, <3>1, <3>4 DEF InTime
  <2>8. AwaitsControl => toHost = <<>>
    BY <1>3 DEF Tick, Gone
  <2>9. AwaitsControl => Clean(toHost, Belated)'
    BY <2>1, <2>8 DEF Clean
  <2> QED BY <2>1, <2>2, <2>5, <2>6, <2>7, <2>9 DEF Gone
<1>4. CASE UNCHANGED tunnelVars
  BY <1>4 DEF tunnelVars, Belated, Known, InTime
<1> QED BY <1>1, <1>2, <1>3, <1>4, ClockTool, ClockKeyboard DEF TunnelNext

-----------------------------------------------------------------------------
(* The keyboard is given back *)

\* ThroughQueue for the keyboard's queue and for the module's.
LEMMA Awaited ==
  ASSUME TypesOK, NEW before, NEW goal, NEW after
  PROVE  /\ \A x \in Ops \ after :
              Through(toKb, before, goal, after) => Through(Append(toKb, x), before, goal, after)
         /\ \A x \in goal \intersect Ops :
              Clean(toKb, before) => Through(Append(toKb, x), before, goal, after)
         /\ Through(toKb, before, goal, after) =>
              /\ toKb # <<>>
              /\ Op \in before => Op \in goal
              /\ \/ Through(Tail(toKb), before, goal, after)
                 \/ Op \in goal /\ Clean(Tail(toKb), after)
         /\ \A x \in Arriving \ after :
              Through(toMod, before, goal, after) => Through(Append(toMod, x), before, goal, after)
         /\ \A x \in goal \intersect Arriving :
              Clean(toMod, before) => Through(Append(toMod, x), before, goal, after)
         /\ Through(toMod, before, goal, after) =>
              /\ toMod # <<>>
              /\ \/ Through(Tail(toMod), before, goal, after)
                 \/ Head(toMod) \in goal /\ Clean(Tail(toMod), after)
<1>1. toKb \in Seq(Ops) /\ toMod \in Seq(Arriving)
  BY DEF TypesOK, QueuesOK
<1>2. /\ \A x \in Ops \ after :
           Through(toKb, before, goal, after) => Through(Append(toKb, x), before, goal, after)
      /\ \A x \in goal \intersect Ops :
           Clean(toKb, before) => Through(Append(toKb, x), before, goal, after)
      /\ Through(toKb, before, goal, after) =>
           /\ toKb # <<>>
           /\ Head(toKb) \in before => Head(toKb) \in goal
           /\ \/ Through(Tail(toKb), before, goal, after)
              \/ Head(toKb) \in goal /\ Clean(Tail(toKb), after)
  BY <1>1, ThroughQueue
<1>3. /\ \A x \in Arriving \ after :
           Through(toMod, before, goal, after) => Through(Append(toMod, x), before, goal, after)
      /\ \A x \in goal \intersect Arriving :
           Clean(toMod, before) => Through(Append(toMod, x), before, goal, after)
      /\ Through(toMod, before, goal, after) =>
           /\ toMod # <<>>
           /\ \/ Through(Tail(toMod), before, goal, after)
              \/ Head(toMod) \in goal /\ Clean(Tail(toMod), after)
  BY <1>1, ThroughQueue
<1> QED BY <1>2, <1>3 DEF Op

\* A step of the tool: the EXIT is the last thing that it writes.
LEMMA GivenBackTool ==
  ASSUME TypesOK, PhaseOK, ProbeOK, GivenBackOK, ToolStep \/ ToolFault
  PROVE  GivenBackOK'
<1> USE DEF GivenBackOK, Gone
<1>1. ASSUME host.pc # "gone", host'.pc # "gone", toKb' = toKb
      PROVE  GivenBackOK'
  BY <1>1
<1>2. ASSUME host.pc # "gone", host'.pc # "gone",
             NEW x \in Ops, x.op # "EXIT", toKb' = Append(toKb, x)
      PROVE  GivenBackOK'
  <2>1. x \notin ExitOps
    BY <1>2, OpKinds
  <2> QED BY <1>2, <2>1, Queues
<1>3. ASSUME host.pc # "gone", NEW x \in ExitOps, toKb' = Append(toKb, x), host'.pc = "gone"
      PROVE  GivenBackOK'
  <2>1. x \in ExitOps \intersect Ops /\ Clean(toKb, {})
    BY DEF ExitOps, Clean
  <2>2. Through(toKb', {}, ExitOps, EnterOps)
    BY <1>3, <2>1, Awaited
  <2> QED BY <1>3, <2>2
<1>4. ASSUME NEW x, x \in HelloOps \/ x \in BootOps
      PROVE  x \in Ops /\ x.op # "EXIT"
  <2>1. x \in Ops
    BY <1>4 DEF HelloOps, BootOps
  <2> QED BY <1>4, <2>1, OpKinds
<1>5. CASE PumpStream
  BY <1>1, <1>5, PumpFields DEF PumpStream, Waiting, AwaitsControl, AwaitsFrame
<1>6. CASE PumpIgnored
  BY <1>6, IgnoredFields
<1>7. CASE StatusAnswered \/ StatusTimeout \/ Poll \/ EnterAnswered \/ EnterGivesUp
  <2>1. /\ host.pc # "gone" /\ host'.pc # "gone"
        /\ toKb' = toKb \/ \E x \in Ops : x.op \in {"STATUS", "ENTER"} /\ toKb' = Append(toKb, x)
    BY <1>7, HandshakeFields
  <2> QED BY <1>1, <1>2, <2>1
<1>8. CASE Settled \/ ProbeUnanswered
  BY <1>1, <1>8, DueFields DEF Settled, ProbeUnanswered
<1>9. CASE Fails
  BY <1>1, <1>9, FailFields DEF Fails
<1>10. CASE Probe /\ ~ProbeExpired
  <2>1. Hello(NextProbe, "probe") \in Requests /\ host.pc = "probe"
    BY <1>10, ProbeIsOne DEF Probe
  <2>2. Stream(Hello(NextProbe, "probe")) \in Ops /\ Stream(Hello(NextProbe, "probe")).op # "EXIT"
    BY <2>1, NewOps
  <2> QED BY <1>2, <1>10, <2>1, <2>2, ProbeFields
<1>11. CASE ProbeAnswered /\ ProbeHeard(Head(host.rx))
  BY <1>2, <1>4, <1>11, EnteredFields
<1>12. CASE ProbeAnswered /\ ~ProbeHeard(Head(host.rx))
  BY <1>1, <1>12, MissedFields
<1>13. CASE AsksAgain
  BY <1>2, <1>4, <1>13, AgainFields DEF AsksAgain
<1>14. CASE HelloAnswered /\ ~HelloAgain
  BY <1>1, <1>14, HeardFields
<1>15. CASE FlowEnds /\ ~Fail
  BY <1>2, <1>4, <1>15, BootedFields
<1>16. CASE DropTunnel
  <2>1. CASE \E x \in BootOps : toKb' = Append(toKb, x) /\ host'.pc = "dropping"
    BY <1>2, <1>4, <1>16, <2>1, DropFields
  <2>2. CASE host'.pc = "gone" /\ ~host.passthrough
    BY <1>16, <2>2, DropFields
  <2>3. CASE host'.pc = "gone" /\ \E x \in ExitOps : toKb' = Append(toKb, x)
    BY <1>3, <1>16, <2>3, DropFields
  <2> QED BY <1>16, <2>1, <2>2, <2>3, DropFields
<1>17. CASE DropEnds
  BY <1>3, <1>17, GoneFields
<1>18. CASE Killed
  BY <1>18, GoneFields
<1>19. CASE Unwritten
  BY <1>19 DEF Unwritten
<1> QED BY <1>5, <1>6, <1>7, <1>8, <1>9, <1>10, <1>11, <1>12, <1>13, <1>14, <1>15, <1>16, <1>17, <1>18,
           <1>19, ToolSteps

\* A step of the keyboard: it reads the EXIT, and nothing behind it opens the
\* bridge again.
LEMMA GivenBackKeyboard ==
  ASSUME TypesOK, GivenBackOK, KeyboardStep
  PROVE  GivenBackOK'
<1> USE DEF GivenBackOK, Gone
<1>1. host' = host
  BY KbFields
<1>2. toKb' = toKb \/ Took
  BY KbFields
<1>3. Clean(toKb, ExitOps) => Clean(toKb', ExitOps)
  BY <1>2, Queues DEF Took
<1>4. Through(toKb, {}, ExitOps, EnterOps) =>
        Through(toKb', {}, ExitOps, EnterOps) \/ (Clean(toKb', EnterOps) /\ kb'.state = "idle")
  <2>1. CASE toKb' = toKb
    BY <2>1
  <2>2. CASE Took
    <3>1. Op \in ExitOps => kb'.state = "idle"
      <4>1. Op \in Ops
        BY <2>2, Queues DEF Took
      <4>2. CASE toKb' = toKb
        BY <2>2, <4>2, Queues DEF Took, TypesOK, QueuesOK
      <4>3. Op \in ExitOps => Op.op = "EXIT"
        BY <4>1, OpKinds
      <4> QED BY <4>2, <4>3, KbFields
    <3>2. Through(toKb, {}, ExitOps, EnterOps) =>
            Through(toKb', {}, ExitOps, EnterOps) \/ (Op \in ExitOps /\ Clean(toKb', EnterOps))
      BY <2>2, Awaited DEF Took
    <3> QED BY <3>1, <3>2
  <2> QED BY <1>2, <2>1, <2>2
<1>5. Clean(toKb, EnterOps) /\ kb.state = "idle" => Clean(toKb', EnterOps) /\ kb'.state = "idle"
  <2>1. SUFFICES ASSUME Clean(toKb, EnterOps), kb.state = "idle"
                 PROVE  Clean(toKb', EnterOps) /\ kb'.state = "idle"
    OBVIOUS
  <2>2. Clean(toKb', EnterOps)
    BY <1>2, <2>1, Queues DEF Took
  <2>3. ~KbEnter
    <3>1. Took => Op \in Ops /\ Op \notin EnterOps
      BY <2>1, Queues DEF Took
    <3> QED BY <3>1, OpKinds DEF KbEnter
  <2>4. kb'.state = "idle"
    BY <2>1, <2>3, KbFields
  <2> QED BY <2>2, <2>4
<1> QED BY <1>1, <1>3, <1>4, <1>5

\* Every step: whoever took the module off air gives it back.
LEMMA GivenBackStep ==
  ASSUME TypesOK, PhaseOK, ProbeOK, GivenBackOK, [TunnelNext]_tunnelVars
  PROVE  GivenBackOK'
<1> USE DEF GivenBackOK, Gone
<1>1. CASE StartTool
  <2>1. toKb' = <<StatusOp>> /\ host'.pc = "status"
    BY <1>1 DEF StartTool, Fresh
  <2>2. StatusOp \notin ExitOps
    BY NewOps, OpKinds
  <2> QED BY <2>1, <2>2 DEF Clean
<1>2. CASE ModuleStep
  BY <1>2, ModFields
<1>3. CASE Tick
  <2>1. toKb' = toKb /\ kb'.state = kb.state
    BY <1>3, TickOthers DEF Tick
  <2>2. host'.pc = host.pc /\ host'.passthrough = host.passthrough
                           /\ host'.killed = host.killed /\ host'.unsaid = host.unsaid
    BY <1>3, TickHost DEF TypesOK, Tools
  <2> QED BY <2>1, <2>2
<1>4. CASE UNCHANGED tunnelVars
  BY <1>4 DEF tunnelVars
<1> QED BY <1>1, <1>2, <1>3, <1>4, GivenBackTool, GivenBackKeyboard DEF TunnelNext

-----------------------------------------------------------------------------
(* The probes' frames *)

\* A queue without the items of a set is without those of a smaller one.
LEMMA CleanLess ==
  ASSUME NEW q, NEW bad, NEW less, Clean(q, bad), less \subseteq bad
  PROVE  Clean(q, less)
BY DEF Clean

\* Where no frame is in flight there is none of a seq.
LEMMA NoneOf ==
  ASSUME NoFrames, NEW s
  PROVE  /\ Clean(toMod, Before(s)) /\ Clean(fromMod, Before(s)) /\ Clean(toHost, ReportsBefore(s))
         /\ Clean(toMod, Of(s)) /\ Clean(fromMod, Of(s)) /\ Clean(toHost, ReportsOf(s))
<1>1. ReportsBefore(s) \subseteq StreamReports /\ ReportsOf(s) \subseteq StreamReports
  BY DEF ReportsBefore, ReportsOf, StreamReports
<1>2. Clean(toHost, ReportsBefore(s)) /\ Clean(toHost, ReportsOf(s))
  BY <1>1, CleanLess DEF NoFrames
<1>3. toMod = <<>> /\ fromMod = <<>>
  BY DEF NoFrames
<1> QED BY <1>2, <1>3 DEF Clean

\* A step of the tool: what is in flight is older than the probe that it writes.
LEMMA SeqTool ==
  ASSUME TypesOK, PhaseOK, ProbeOK, SeqOK, ToolStep \/ ToolFault
  PROVE  SeqOK'
<1> USE DEF SeqOK
<1>1. ASSUME host'.pc \notin {"status", "enter", "settle", "probe", "probing", "gap"}
      PROVE  SeqOK'
  BY <1>1
<1>2. CASE PumpStream
  <2>1. Report \in StreamReports
    BY <1>2, PumpFields, ReportKinds
  <2>2. ~NoFrames
    BY <1>2, <2>1, PumpFields, Queues DEF NoFrames
  <2>3. \A bad : Clean(toHost, bad) => Clean(toHost', bad)
    BY <1>2, PumpFields, Queues
  <2>4. host'.pc = host.pc /\ host'.seq = host.seq /\ host'.wait = host.wait
        /\ UNCHANGED <<toKb, toMod, fromMod>>
    BY <1>2, PumpFields
  <2> QED BY <2>2, <2>3, <2>4
<1>3. CASE PumpIgnored
  <2>1. \A bad : Clean(toHost, bad) => Clean(toHost', bad)
    BY <1>3, IgnoredFields, Queues
  <2> QED BY <1>3, <2>1, IgnoredFields DEF NoFrames
<1>4. CASE StatusAnswered \/ StatusTimeout \/ Poll \/ EnterAnswered \/ EnterGivesUp
  <2>1. NoFrames /\ host'.rx = host.rx /\ UNCHANGED <<toMod, fromMod>>
        /\ (toHost' = toHost \/ (toHost # <<>> /\ toHost' = Tail(toHost)))
        /\ (toKb' = toKb \/ \E x \in Ops : x.op \in {"STATUS", "ENTER"} /\ toKb' = Append(toKb, x))
        /\ host'.pc \in {"enter", "settle", "drop"}
    BY <1>4, HandshakeFields
  <2>2. Clean(toHost', StreamReports)
    <3>1. Clean(toHost, StreamReports)
      BY <2>1 DEF NoFrames
    <3> QED BY ZenonT(60), <2>1, <3>1, Queues
  <2>3. \A x \in Ops : x.op \in {"STATUS", "ENTER"} => x \notin StreamOps
    BY OpKinds
  <2>4. Clean(toKb', StreamOps)
    <3>1. Clean(toKb, StreamOps)
      BY <2>1 DEF NoFrames
    <3>2. ASSUME NEW x \in Ops, x.op \in {"STATUS", "ENTER"}, toKb' = Append(toKb, x)
          PROVE  Clean(toKb', StreamOps)
      BY <2>3, <3>1, <3>2, Queues
    <3> QED BY <2>1, <3>1, <3>2
  <2>5. NoFrames'
    BY <2>1, <2>2, <2>4 DEF NoFrames
  <2> QED BY <2>1, <2>5
<1>5. CASE Settled
  <2>1. host.pc = "settle" /\ host.seq = 0 /\ NoFrames
    BY <1>5 DEF Settled, ProbeOK
  <2>2. /\ host'.pc = "probe" /\ host'.seq = host.seq /\ host'.rx = host.rx
        /\ UNCHANGED <<toKb, toHost, toMod, fromMod>>
    BY <1>5, DueFields
  <2>3. NoFrames'
    BY <2>1, <2>2 DEF NoFrames
  <2>4. /\ Clean(toMod, Before(host.seq)) /\ Clean(fromMod, Before(host.seq))
        /\ Clean(toHost, ReportsBefore(host.seq))
    BY <2>1, NoneOf
  <2>5. Clean(toKb, StreamOps)
    BY <2>1 DEF NoFrames
  <2> QED BY <2>2, <2>3, <2>4, <2>5
<1>6. CASE ProbeUnanswered
  <2>1. host.pc \in {"probing", "gap"} /\ host.wait = 0 /\ host.seq # 0
    BY <1>6 DEF ProbeUnanswered, ProbeOK
  <2>2. /\ host'.pc = "probe" /\ host'.seq = host.seq
        /\ UNCHANGED <<toKb, toHost, toMod, fromMod>>
    BY <1>6, DueFields
  <2> QED BY <2>1, <2>2
<1>7. CASE Probe /\ ~ProbeExpired
  <2>1. /\ host.pc = "probe" /\ host'.pc = "probing" /\ host'.wait = 1 /\ host'.seq = NextProbe
        /\ toKb' = Append(toKb, Stream(Hello(host'.seq, "probe")))
        /\ UNCHANGED <<toHost, toMod, fromMod>>
    BY <1>7, ProbeFields
  <2>2. Stream(Hello(host'.seq, "probe")) \in Ops
    BY <1>7, <2>1, ProbeIsOne, NewOps
  <2>3. Through(toKb', StreamOps, {Stream(Hello(host'.seq, "probe"))}, Ops)
    <3> DEFINE x == Stream(Hello(host'.seq, "probe"))
    <3>1. x \in {x} \intersect Ops /\ toKb' = Append(toKb, x) /\ Clean(toKb, StreamOps)
      BY <2>1, <2>2
    <3> HIDE DEF x
    <3>2. Through(toKb', StreamOps, {x}, Ops)
      BY <3>1, Awaited
    <3> QED BY <3>2 DEF x
  <2>4. host'.seq \in Nat /\ host.seq \in Nat /\ (host.seq # 0 => host'.seq < host.seq)
    BY <1>7, <2>1, ProbeIsOne, ToolFields
  <2>5. /\ Clean(toMod, Before(host'.seq)) /\ Clean(fromMod, Before(host'.seq))
        /\ Clean(toHost, ReportsBefore(host'.seq))
    <3>1. CASE host.seq = 0
      BY <2>1, <3>1, NoneOf
    <3>2. CASE host.seq # 0
      <4>1. Before(host'.seq) \subseteq Before(host.seq)
        <5>1. \A f \in Arriving \union Answers : f.seq \in Nat
          BY FrameKinds, AnswerKinds
        <5> QED BY <2>4, <3>2, <5>1 DEF Before
      <4>2. ReportsBefore(host'.seq) \subseteq ReportsBefore(host.seq)
        <5>1. \A x \in Reports : x.op = "STREAM" => x.frame.seq \in Nat
          BY ReportKinds, AnswerKinds
        <5> QED BY <2>4, <3>2, <5>1 DEF ReportsBefore
      <4> QED BY <2>1, <4>1, <4>2, CleanLess
    <3> QED BY <3>1, <3>2
  <2> QED BY <2>1, <2>3, <2>5
<1>8. CASE ProbeAnswered /\ ~ProbeHeard(Head(host.rx))
  <2>1. /\ host.pc = "probing" /\ host'.pc \in {"probing", "gap"} /\ host'.seq = host.seq
        /\ host'.wait = host.wait /\ UNCHANGED <<toKb, toHost, toMod, fromMod>>
    BY <1>8, MissedFields
  <2> QED BY <2>1
<1>9. CASE Fails
  BY <1>1, <1>9, FailFields DEF Fails
<1>10. CASE ProbeAnswered /\ ProbeHeard(Head(host.rx))
  BY <1>1, <1>10, EnteredFields
<1>11. CASE AsksAgain
  BY <1>1, <1>11, AgainFields DEF AsksAgain
<1>12. CASE HelloAnswered /\ ~HelloAgain
  BY <1>1, <1>12, HeardFields
<1>13. CASE FlowEnds /\ ~Fail
  BY <1>1, <1>13, BootedFields
<1>14. CASE DropTunnel
  BY <1>1, <1>14, DropFields
<1>15. CASE DropEnds \/ Killed
  BY <1>1, <1>15, GoneFields
<1>16. CASE Unwritten
  BY <1>1, <1>16 DEF Unwritten
<1> QED BY <1>2, <1>3, <1>4, <1>5, <1>6, <1>7, <1>8, <1>9, <1>10, <1>11, <1>12, <1>13, <1>14, <1>15, <1>16,
           ToolSteps

\* What the keyboard reads while the tool probes: nothing but the probe, and
\* that last.
LEMMA ReadsProbe ==
  ASSUME TypesOK, SeqOK, host.pc \in {"probing", "gap"}, Took
  PROVE  /\ Op.op = "STREAM" => Op.frame.seq = host.seq /\ toKb' = <<>>
         /\ \/ Clean(toKb', StreamOps)
            \/ Through(toKb', StreamOps, {Stream(Hello(host.seq, "probe"))}, Ops)
<1>1. Op \in Ops /\ (Op \in StreamOps <=> Op.op = "STREAM") /\ toKb' = Tail(toKb) /\ toKb # <<>>
  BY Queues, OpKinds DEF Took
<1>2. CASE Clean(toKb, StreamOps)
  BY <1>1, <1>2, Queues
<1>3. CASE Through(toKb, StreamOps, {Stream(Hello(host.seq, "probe"))}, Ops)
  <2> DEFINE x == Stream(Hello(host.seq, "probe"))
  <2>1. x.frame.seq = host.seq
    BY DEF Stream, Hello
  <2> HIDE DEF x
  <2>2. Through(toKb, StreamOps, {x}, Ops)
    BY <1>3 DEF x
  <2>3. /\ Op \in StreamOps => Op = x
        /\ Through(toKb', StreamOps, {x}, Ops) \/ (Op = x /\ Clean(toKb', Ops))
    BY <1>1, <2>2, Awaited
  <2>4. Clean(toKb', Ops) => toKb' = <<>> /\ Clean(toKb', StreamOps)
    <3>1. toKb' \in Seq(Ops)
      BY <1>1 DEF TypesOK, QueuesOK
    <3> QED BY <3>1, CleanOfAll DEF Clean
  <2>5. Op \in StreamOps => toKb' = <<>>
    <3>1. SUFFICES ASSUME Op \in StreamOps, Through(toKb', StreamOps, {x}, Ops)
                   PROVE  FALSE
      BY <2>3, <2>4
    <3>2. PICK i \in 1..Len(toKb) :
            /\ toKb[i] \in {x}
            /\ \A j \in 1..Len(toKb) : (j < i => toKb[j] \notin StreamOps) /\ (j > i => toKb[j] \notin Ops)
      BY <2>2 DEF Through
    <3>3. /\ Len(toKb) \in Nat /\ Len(toKb) >= 1 /\ Op = toKb[1]
          /\ \A j \in 1..Len(toKb) : toKb[j] \in Ops
          /\ Len(toKb') = Len(toKb) - 1
      BY <1>1 DEF TypesOK, QueuesOK, Op
    <3>4. i = 1 /\ Len(toKb) = 1
      BY <3>1, <3>2, <3>3
    <3> QED BY <3>1, <3>3, <3>4 DEF Through
  <2> QED BY <1>1, <2>1, <2>3, <2>4, <2>5 DEF x
<1> QED BY <1>2, <1>3 DEF SeqOK


\* A step of the keyboard: it forwards in order.
LEMMA SeqKeyboard ==
  ASSUME TypesOK, SeqOK, KeyboardStep
  PROVE  SeqOK'
<1> USE DEF SeqOK
<1>1. host' = host /\ (toKb' = toKb \/ Took)
  BY KbFields
<1>2. \A bad : Clean(toKb, bad) => Clean(toKb', bad)
  BY <1>1, Queues DEF Took
<1>3. Took /\ Clean(toKb, StreamOps) => Op.op # "STREAM"
  BY Queues, OpKinds DEF Took
<1>4. /\ toMod' = toMod
      \/ /\ Took /\ Op.op = "STREAM"
         /\ \E f \in Arriving : f.seq = Op.frame.seq /\ toMod' = Append(toMod, f)
  BY KbFields
<1>5. fromMod' = fromMod \/ (fromMod # <<>> /\ fromMod' = Tail(fromMod))
  BY KbFields
<1>6. /\ toHost' = toHost
      \/ \E x \in Reports : /\ toHost' = Append(toHost, x)
                            /\ \/ x.op # "STREAM"
                               \/ fromMod # <<>> /\ x.frame = Head(fromMod)
  BY KbFields
<1>7. NoFrames => NoFrames'
  <2>1. SUFFICES ASSUME NoFrames
                 PROVE  NoFrames'
    OBVIOUS
  <2>2. /\ Clean(toKb, StreamOps) /\ Clean(toHost, StreamReports)
        /\ toMod = <<>> /\ fromMod = <<>> /\ host.rx = <<>>
    BY <2>1 DEF NoFrames
  <2>3. toMod' = <<>> /\ fromMod' = <<>> /\ host'.rx = <<>>
    BY <1>1, <1>3, <1>4, <1>5, <2>2
  <2>4. Clean(toHost', StreamReports)
    <3>1. ASSUME NEW x \in Reports, x.op # "STREAM", toHost' = Append(toHost, x)
          PROVE  Clean(toHost', StreamReports)
      <4>1. x \notin StreamReports
        BY <3>1, ReportKinds
      <4> QED BY <2>2, <3>1, <4>1, Queues
    <3> QED BY <1>6, <2>2, <3>1
  <2> QED BY <1>2, <2>2, <2>3, <2>4 DEF NoFrames
<1>8. ASSUME host.pc \in {"probe", "probing", "gap"}
      PROVE  /\ Clean(toMod', Before(host.seq)) /\ Clean(fromMod', Before(host.seq))
             /\ Clean(toHost', ReportsBefore(host.seq))
  <2>1. /\ Clean(toMod, Before(host.seq)) /\ Clean(fromMod, Before(host.seq))
        /\ Clean(toHost, ReportsBefore(host.seq))
    BY <1>8
  <2>2. Clean(toMod', Before(host.seq))
    <3>1. ASSUME Took, Op.op = "STREAM",
                 NEW f \in Arriving, f.seq = Op.frame.seq, toMod' = Append(toMod, f)
          PROVE  Clean(toMod', Before(host.seq))
      <4>1. f.seq = host.seq
        BY <1>3, <1>8, <3>1, ReadsProbe
      <4>2. f \notin Before(host.seq)
        BY <4>1, FrameKinds, ToolFields
      <4> QED BY <2>1, <3>1, <4>2, Queues
    <3> QED BY <1>4, <2>1, <3>1
  <2>3. Clean(fromMod', Before(host.seq))
    BY <1>5, <2>1, Queues
  <2>4. Clean(toHost', ReportsBefore(host.seq))
    <3>1. ASSUME NEW x \in Reports, toHost' = Append(toHost, x),
                 x.op # "STREAM" \/ (fromMod # <<>> /\ x.frame = Head(fromMod))
          PROVE  Clean(toHost', ReportsBefore(host.seq))
      <4>1. fromMod # <<>> => Head(fromMod) \in Answers /\ Head(fromMod) \notin Before(host.seq)
        BY <2>1, Queues
      <4>2. x \notin ReportsBefore(host.seq)
        BY <3>1, <4>1, ReportKinds, AnswerKinds
      <4> QED BY <2>1, <3>1, <4>2, Queues
    <3> QED BY <1>6, <2>1, <3>1
  <2> QED BY <2>2, <2>3, <2>4
<1>9. ASSUME host.pc \in {"probing", "gap"}
      PROVE  \/ Clean(toKb', StreamOps)
             \/ Through(toKb', StreamOps, {Stream(Hello(host.seq, "probe"))}, Ops)
  <2>1. CASE toKb' = toKb
    BY <1>9, <2>1
  <2>2. CASE Took
    BY <1>9, <2>2, ReadsProbe
  <2> QED BY <1>1, <2>1, <2>2
<1> QED BY <1>1, <1>2, <1>7, <1>8, <1>9

\* A step of the module: an answer carries the seq of its request.
LEMMA SeqModule ==
  ASSUME TypesOK, SeqOK, ModuleStep
  PROVE  SeqOK'
<1> USE DEF SeqOK
<1>1. UNCHANGED <<host, kb, toKb, toHost>>
  BY ModFields
<1>2. /\ UNCHANGED <<toMod, fromMod>>
      \/ /\ toMod # <<>> /\ toMod' = Tail(toMod) /\ Head(toMod) \in Arriving
         /\ \/ fromMod' = fromMod
            \/ \E f \in Answers : f.seq = Head(toMod).seq /\ fromMod' = Append(fromMod, f)
  BY ModFields
<1>3. NoFrames => NoFrames'
  BY <1>1, <1>2 DEF NoFrames
<1>4. ASSUME host.pc \in {"probe", "probing", "gap"}
      PROVE  Clean(toMod', Before(host.seq)) /\ Clean(fromMod', Before(host.seq))
  <2>1. Clean(toMod, Before(host.seq)) /\ Clean(fromMod, Before(host.seq))
    BY <1>4
  <2>2. Clean(toMod', Before(host.seq))
    BY <1>2, <2>1, Queues
  <2>3. ASSUME toMod # <<>>,
               NEW f \in Answers, f.seq = Head(toMod).seq, fromMod' = Append(fromMod, f)
        PROVE  Clean(fromMod', Before(host.seq))
    <3>1. Head(toMod) \in Arriving /\ Head(toMod) \notin Before(host.seq)
      BY <2>1, <2>3, Queues
    <3>2. f \notin Before(host.seq)
      BY <2>3, <3>1, FrameKinds, AnswerKinds
    <3> QED BY <2>1, <2>3, <3>2, Queues
  <2> QED BY <1>2, <2>1, <2>2, <2>3
<1> QED BY <1>1, <1>3, <1>4

\* Every step: what is in flight is no older than the current probe.
LEMMA SeqStep ==
  ASSUME TypesOK, PhaseOK, ProbeOK, SeqOK, [TunnelNext]_tunnelVars
  PROVE  SeqOK'
<1> USE DEF SeqOK
<1>1. CASE StartTool
  <2>1. /\ toKb' = <<StatusOp>> /\ host'.pc = "status" /\ host'.rx = <<>>
        /\ toHost' = <<>> /\ toMod' = <<>> /\ fromMod' = <<>>
    BY <1>1 DEF StartTool, Fresh
  <2>2. StatusOp \notin StreamOps
    BY NewOps, OpKinds
  <2>3. NoFrames'
    BY <2>1, <2>2 DEF NoFrames, Clean
  <2> QED BY <2>1, <2>3
<1>2. CASE Tick
  <2>1. toKb = <<>> /\ UNCHANGED <<toKb, toHost, toMod, fromMod>>
    BY <1>2 DEF Tick
  <2>2. host'.pc = host.pc /\ host'.seq = host.seq /\ host'.rx = host.rx
    BY <1>2, TickHost DEF TypesOK, Tools
  <2>3. NoFrames => NoFrames'
    BY <2>1, <2>2 DEF NoFrames
  <2>4. Clean(toKb', StreamOps)
    BY <2>1 DEF Clean
  <2> QED BY <2>1, <2>2, <2>3, <2>4
<1>3. CASE UNCHANGED tunnelVars
  BY <1>3 DEF tunnelVars, NoFrames
<1> QED BY <1>1, <1>2, <1>3, SeqTool, SeqKeyboard, SeqModule DEF TunnelNext

\* A step of the tool: a new probe has a new seq.
LEMMA PassedTool ==
  ASSUME TypesOK, PhaseOK, ProbeOK, SeqOK, PassedOK, ToolStep \/ ToolFault
  PROVE  PassedOK'
<1> USE DEF PassedOK
<1>1. ASSUME host'.pc \notin {"probing", "gap"}
      PROVE  PassedOK'
  BY <1>1
<1>2. ASSUME host'.wait = host.wait, UNCHANGED <<kb, toKb>>
      PROVE  Serving => Serving'
  BY <1>2 DEF Serving
<1>3. CASE PumpStream
  <2>1. /\ host'.pc = host.pc /\ host'.seq = host.seq /\ host'.wait = host.wait
        /\ host'.rx = Append(host.rx, Report.frame) /\ Report \in Reports /\ Report.op = "STREAM"
        /\ Report.frame \in Answers /\ toHost # <<>> /\ toHost' = Tail(toHost)
        /\ UNCHANGED <<kb, toKb, toMod, fromMod>>
    BY <1>3, PumpFields
  <2>2. Unseen => Unseen'
    <3>1. SUFFICES ASSUME Unseen
                   PROVE  Unseen'
      OBVIOUS
    <3>2. Report \notin ReportsOf(host.seq) /\ Clean(toHost', ReportsOf(host.seq))
      BY <2>1, <3>1, Queues DEF Unseen
    <3>3. Report.frame \notin Of(host.seq)
      BY <2>1, <3>2, ReportKinds, AnswerKinds
    <3>4. Clean(host.rx, Of(host.seq))
      BY <3>1 DEF Unseen
    <3>5. Clean(host'.rx, Of(host.seq))
      BY <2>1, <3>3, <3>4, Queues
    <3> QED BY <2>1, <3>1, <3>2, <3>5 DEF Unseen
  <2> QED BY <1>2, <2>1, <2>2
<1>4. CASE PumpIgnored
  <2>1. toHost # <<>> /\ toHost' = Tail(toHost) /\ UNCHANGED <<host, kb, toKb, toMod, fromMod>>
    BY <1>4, IgnoredFields
  <2>2. Clean(toHost, ReportsOf(host.seq)) => Clean(toHost', ReportsOf(host.seq))
    BY <2>1, Queues
  <2>3. Unseen => Unseen'
    BY <2>1, <2>2 DEF Unseen
  <2> QED BY <1>2, <2>1, <2>3
<1>5. CASE Probe /\ ~ProbeExpired
  <2>1. /\ host.pc = "probe" /\ host'.seq = NextProbe /\ host'.rx = <<>>
        /\ UNCHANGED <<toHost, toMod, fromMod>>
    BY <1>5, ProbeFields
  <2>2. host'.seq \in Nat /\ host.seq \in Nat /\ (host.seq # 0 => host'.seq < host.seq)
    BY <1>5, <2>1, ProbeIsOne, ToolFields
  <2>3. /\ Clean(toMod, Of(host'.seq)) /\ Clean(fromMod, Of(host'.seq))
        /\ Clean(toHost, ReportsOf(host'.seq))
    <3>1. CASE host.seq = 0
      BY <2>1, <3>1, NoneOf DEF SeqOK
    <3>2. CASE host.seq # 0
      <4>1. Of(host'.seq) \subseteq Before(host.seq)
        BY <2>2, <3>2 DEF Of, Before
      <4>2. ReportsOf(host'.seq) \subseteq ReportsBefore(host.seq)
        BY <2>2, <3>2 DEF ReportsOf, ReportsBefore
      <4>3. /\ Clean(toMod, Before(host.seq)) /\ Clean(fromMod, Before(host.seq))
            /\ Clean(toHost, ReportsBefore(host.seq))
        BY <2>1 DEF SeqOK
      <4> QED BY <4>1, <4>2, <4>3, CleanLess
    <3> QED BY <3>1, <3>2
  <2>4. Unseen'
    BY <2>1, <2>3 DEF Unseen, Clean
  <2> QED BY <2>4
<1>6. CASE ProbeAnswered /\ ~ProbeHeard(Head(host.rx))
  <2>1. /\ host.pc = "probing" /\ host'.seq = host.seq /\ host'.wait = host.wait
        /\ host'.rx = Tail(host.rx) /\ host.rx # <<>>
        /\ UNCHANGED <<kb, toKb, toHost, toMod, fromMod>>
    BY <1>6, MissedFields
  <2>2. Clean(host.rx, Of(host.seq)) => Clean(host'.rx, Of(host.seq))
    BY <2>1, Queues
  <2>3. Unseen => Unseen'
    BY <2>1, <2>2 DEF Unseen
  <2> QED BY <1>2, <2>1, <2>3
<1>7. CASE StatusAnswered \/ StatusTimeout \/ Poll \/ EnterAnswered \/ EnterGivesUp
  BY <1>1, <1>7, HandshakeFields
<1>8. CASE Settled \/ ProbeUnanswered
  BY <1>1, <1>8, DueFields
<1>9. CASE Fails
  BY <1>1, <1>9, FailFields DEF Fails
<1>10. CASE ProbeAnswered /\ ProbeHeard(Head(host.rx))
  BY <1>1, <1>10, EnteredFields
<1>11. CASE AsksAgain
  BY <1>1, <1>11, AgainFields DEF AsksAgain
<1>12. CASE HelloAnswered /\ ~HelloAgain
  BY <1>1, <1>12, HeardFields
<1>13. CASE FlowEnds /\ ~Fail
  BY <1>1, <1>13, BootedFields
<1>14. CASE DropTunnel
  BY <1>1, <1>14, DropFields
<1>15. CASE DropEnds \/ Killed
  BY <1>1, <1>15, GoneFields
<1>16. CASE Unwritten
  BY <1>1, <1>16 DEF Unwritten
<1> QED BY <1>3, <1>4, <1>5, <1>6, <1>7, <1>8, <1>9, <1>10, <1>11, <1>12, <1>13, <1>14, <1>15, <1>16,
           ToolSteps

\* A step of the keyboard: a probe leaves its queue only through the open
\* bridge, which then does not close.
LEMMA PassedKeyboard ==
  ASSUME TypesOK, PhaseOK, SeqOK, PassedOK, KeyboardStep
  PROVE  PassedOK'
<1> SUFFICES ASSUME host.pc \in {"probing", "gap"}
             PROVE  Serving' \/ Unseen'
  BY KbFields DEF PassedOK
<1>1. host' = host /\ host.wait <= 1 /\ kb.watch \in Nat /\ host.wait \in Nat
  <2>1. host' = host
    BY KbFields
  <2>2. host.wait <= 1
    BY DEF PhaseOK
  <2>3. kb.watch \in Nat /\ host.wait \in Nat
    BY ToolFields, Timing DEF TypesOK, Bridges
  <2> QED BY <2>1, <2>2, <2>3
<1>2. CASE Serving
  <2>1. toKb = <<>> /\ kb.state = "passthru" /\ kb.watch < Watchdog /\ ~Took
    BY <1>1, <1>2, Timing DEF Serving, Took
  <2>2. kb' = kb /\ toKb' = toKb
    <3>1. KbForward
      BY <1>1, <2>1, KbFields, Timing
    <3> QED BY <3>1 DEF KbForward
  <2> QED BY <1>1, <1>2, <2>2 DEF Serving
<1>3. CASE Unseen
  <2>1. /\ Clean(toMod, Of(host.seq)) /\ Clean(fromMod, Of(host.seq))
        /\ Clean(toHost, ReportsOf(host.seq)) /\ Clean(host.rx, Of(host.seq))
    BY <1>3 DEF Unseen
  <2>2. \/ toMod' = toMod
        \/ Took /\ Op.op = "STREAM" /\ kb.state = "passthru" /\ kb'.state = "passthru" /\ kb'.watch = 0
    BY KbFields
  <2>3. CASE Took /\ Op.op = "STREAM" /\ kb'.state = "passthru" /\ kb'.watch = 0
    BY <1>1, <2>3, ReadsProbe DEF Serving
  <2>4. CASE toMod' = toMod
    <3>1. Clean(fromMod', Of(host.seq))
      <4>1. fromMod' = fromMod \/ (fromMod # <<>> /\ fromMod' = Tail(fromMod))
        BY KbFields
      <4> QED BY <2>1, <4>1, Queues
    <3>2. Clean(toHost', ReportsOf(host.seq))
      <4>1. /\ toHost' = toHost
            \/ \E x \in Reports : /\ toHost' = Append(toHost, x)
                                  /\ \/ x.op # "STREAM"
                                     \/ fromMod # <<>> /\ x.frame = Head(fromMod)
        BY KbFields
      <4>2. ASSUME NEW x \in Reports, toHost' = Append(toHost, x),
                   x.op # "STREAM" \/ (fromMod # <<>> /\ x.frame = Head(fromMod))
            PROVE  Clean(toHost', ReportsOf(host.seq))
        <5>1. fromMod # <<>> => Head(fromMod) \in Answers /\ Head(fromMod) \notin Of(host.seq)
          BY <2>1, Queues
        <5>2. x \notin ReportsOf(host.seq)
          BY <4>2, <5>1, ReportKinds, AnswerKinds
        <5> QED BY <2>1, <4>2, <5>2, Queues
      <4> QED BY <2>1, <4>1, <4>2
    <3> QED BY <1>1, <2>1, <2>4, <3>1, <3>2 DEF Unseen
  <2> QED BY <2>2, <2>3, <2>4
<1> QED BY <1>2, <1>3 DEF PassedOK

\* Every step: what carries the current probe's seq came through the bridge.
LEMMA PassedStep ==
  ASSUME TypesOK, PhaseOK, ProbeOK, SeqOK, PassedOK, [TunnelNext]_tunnelVars
  PROVE  PassedOK'
<1> USE DEF PassedOK
<1>1. CASE StartTool
  BY <1>1 DEF StartTool, Fresh
<1>2. CASE ModuleStep
  <2>1. UNCHANGED <<host, kb, toKb, toHost>>
    BY <1>2, ModFields
  <2>2. Serving => Serving'
    BY <2>1 DEF Serving
  <2>3. /\ UNCHANGED <<toMod, fromMod>>
        \/ /\ toMod # <<>> /\ toMod' = Tail(toMod)
           /\ \/ fromMod' = fromMod
              \/ \E f \in Answers : f.seq = Head(toMod).seq /\ fromMod' = Append(fromMod, f)
    BY <1>2, ModFields
  <2>4. Unseen => Unseen'
    <3>1. SUFFICES ASSUME Unseen
                   PROVE  Unseen'
      OBVIOUS
    <3>2. Clean(toMod, Of(host.seq)) /\ Clean(fromMod, Of(host.seq))
      BY <3>1 DEF Unseen
    <3>3. Clean(toMod', Of(host.seq))
      BY <2>3, <3>2, Queues
    <3>4. ASSUME toMod # <<>>,
                 NEW f \in Answers, f.seq = Head(toMod).seq, fromMod' = Append(fromMod, f)
          PROVE  Clean(fromMod', Of(host.seq))
      <4>1. Head(toMod) \in Arriving /\ Head(toMod) \notin Of(host.seq)
        BY <3>2, <3>4, Queues
      <4>2. f \notin Of(host.seq)
        BY <3>4, <4>1, FrameKinds, AnswerKinds
      <4> QED BY <3>2, <3>4, <4>2, Queues
    <3>5. Clean(fromMod', Of(host.seq))
      BY <2>3, <3>2, <3>4
    <3> QED BY <2>1, <3>1, <3>3, <3>5 DEF Unseen
  <2> QED BY <2>1, <2>2, <2>4
<1>3. CASE Tick
  <2>1. /\ UNCHANGED <<toKb, toHost, toMod, fromMod>> /\ kb'.state = kb.state
        /\ kb'.watch = IF host.pc = "flow" THEN 0 ELSE Least(kb.watch + 1, Watchdog)
    BY <1>3, TickOthers DEF Tick
  <2>2. host'.pc = host.pc /\ host'.seq = host.seq /\ host'.rx = host.rx
    BY <1>3, TickHost DEF TypesOK, Tools
  <2>3. Unseen => Unseen'
    BY <2>1, <2>2 DEF Unseen
  <2>4. host.pc \in {"probing", "gap"} /\ Serving => Serving'
    <3>1. SUFFICES ASSUME host.pc \in {"probing", "gap"}, Serving
                   PROVE  Serving'
      OBVIOUS
    <3>2. host.wait = 1
      BY <1>3, <3>1, ToolFields DEF Tick, Waiting, AwaitsFrame, Gone, PhaseOK
    <3>3. host'.wait = 0
      <4>1. ~Gone
        BY <3>1 DEF Gone
      <4>2. host'.wait = IF host.wait > 0 THEN host.wait - 1 ELSE 0
        BY <1>3, <4>1, TickHost
      <4> QED BY <3>2, <4>2
    <3>4. kb.watch = 0
      BY <3>1, <3>2 DEF Serving, TypesOK, Bridges
    <3>5. kb'.watch \in Nat /\ kb'.watch <= 1
      BY <2>1, <3>4, LeastIs, Timing
    <3> QED BY <2>1, <3>1, <3>3, <3>5 DEF Serving
  <2> QED BY <2>2, <2>3, <2>4
<1>4. CASE UNCHANGED tunnelVars
  BY <1>4 DEF tunnelVars, Serving, Unseen
<1> QED BY <1>1, <1>2, <1>3, <1>4, PassedTool, PassedKeyboard DEF TunnelNext

-----------------------------------------------------------------------------
(* The bridge *)

\* A step of the tool: it has heard its probe's answer through the open bridge,
\* and queues nothing that closes it before it is gone.
LEMMA BridgeTool ==
  ASSUME TypesOK, PhaseOK, ProbeOK, PassedOK, BridgeOK, ToolStep \/ ToolFault
  PROVE  BridgeOK'
<1> USE DEF BridgeOK
<1>1. kb' = kb
  BY DEF ToolStep, PumpStream, PumpIgnored, StatusAnswered, StatusTimeout, Poll, EnterAnswered, EnterGivesUp,
         Settled, Probe, ProbeAnswered, ProbeUnanswered, HelloAnswered, HelloTimeout, FlowEnds,
         BootEnds, DropTunnel, DropEnds, IoError, BootUnwritten, DropBootUnwritten, DropUnread,
         ExitUnwritten, Killed, ToolFault
<1>2. ASSUME host'.pc \notin {"hello", "flow", "booting", "drop"} \/ ~host'.entered
      PROVE  BridgeOK'
  BY <1>2
<1>3. ASSUME host.pc \in {"hello", "flow", "booting", "drop"}, host'.entered = host.entered,
             host'.pc = host.pc \/ host'.pc \in {"flow", "drop"}, host'.wait = host.wait,
             toKb' = toKb
      PROVE  BridgeOK'
  BY <1>1, <1>3
<1>4. ASSUME kb.state = "passthru", kb.watch <= 1, Clean(toKb, OtherOps),
             NEW x, x \in HelloOps \/ x \in BootOps, toKb' = Append(toKb, x)
      PROVE  BridgeOK'
  <2>1. x \in Ops
    BY <1>4 DEF HelloOps, BootOps
  <2>2. x \notin OtherOps
    BY <1>4, <2>1, OpKinds
  <2>3. Clean(toKb', OtherOps)
    BY <1>4, <2>1, <2>2, Queues
  <2>4. toKb' # <<>>
    BY <1>4, <2>1 DEF TypesOK, QueuesOK
  <2> QED BY <1>1, <1>4, <2>3, <2>4
<1>5. CASE PumpStream
  <2>1. /\ host'.pc = host.pc /\ host'.entered = host.entered /\ host'.wait = host.wait
        /\ toKb' = toKb
    BY <1>5, PumpFields
  <2> QED BY <1>1, <2>1
<1>6. CASE PumpIgnored
  <2>1. host' = host /\ toKb' = toKb
    BY <1>6, IgnoredFields
  <2> QED BY <1>1, <2>1
<1>7. CASE StatusAnswered \/ StatusTimeout \/ Poll \/ EnterAnswered \/ EnterGivesUp
  BY <1>2, <1>7, HandshakeFields DEF PhaseOK
<1>8. CASE Settled \/ ProbeUnanswered
  BY <1>2, <1>8, DueFields
<1>9. CASE Fails
  <2>1. host'.pc = "drop" /\ host'.entered = host.entered /\ host'.wait = host.wait /\ toKb' = toKb
    BY <1>9, FailFields DEF Fails
  <2>2. host.entered => host.pc \in {"hello", "flow", "booting"}
    BY <1>9 DEF Fails, PhaseOK
  <2> QED BY <1>2, <1>3, <2>1, <2>2
<1>10. CASE Probe /\ ~ProbeExpired
  BY <1>2, <1>10, ProbeFields
<1>11. CASE ProbeAnswered /\ ProbeHeard(Head(host.rx))
  <2>1. /\ host.pc = "probing" /\ host.rx # <<>> /\ \E x \in HelloOps : toKb' = Append(toKb, x)
    BY <1>11, EnteredFields
  <2>2. Head(host.rx) \in Answers /\ Head(host.rx).seq = host.seq
    BY <1>11, <2>1, Queues DEF ProbeHeard
  <2>3. Head(host.rx) \in Of(host.seq)
    BY <2>2, AnswerKinds
  <2>4. ~Clean(host.rx, Of(host.seq))
    BY <2>1, <2>3, Queues
  <2>5. Serving
    BY <2>1, <2>4 DEF PassedOK, Unseen
  <2>6. kb.state = "passthru" /\ kb.watch <= 1 /\ Clean(toKb, OtherOps)
    BY <2>5, ToolFields, Timing DEF Serving, Clean, TypesOK, Bridges
  <2> QED BY <1>4, <2>1, <2>6
<1>12. CASE ProbeAnswered /\ ~ProbeHeard(Head(host.rx))
  BY <1>2, <1>12, MissedFields
<1>13. CASE AsksAgain
  <2>1. host.pc = "hello" /\ host.entered /\ \E x \in HelloOps : toKb' = Append(toKb, x)
    BY <1>13, AgainFields DEF AsksAgain, PhaseOK
  <2> QED BY <1>4, <2>1
<1>14. CASE HelloAnswered /\ ~HelloAgain
  BY <1>3, <1>14, HeardFields
<1>15. CASE FlowEnds /\ ~Fail
  <2>1. host.pc = "flow" /\ host.entered /\ \E x \in BootOps : toKb' = Append(toKb, x)
    BY <1>15, BootedFields DEF PhaseOK
  <2> QED BY <1>4, <2>1
<1>16. CASE DropTunnel
  <2>1. CASE host.entered /\ \E x \in BootOps : toKb' = Append(toKb, x)
    <3>1. host.pc = "drop"
      BY <1>16, DropFields
    <3> QED BY <1>4, <2>1, <3>1
  <2>2. CASE host'.pc = "gone"
    BY <1>2, <2>2
  <2> QED BY <1>16, <2>1, <2>2, DropFields
<1>17. CASE DropEnds \/ Killed
  BY <1>2, <1>17, GoneFields
<1>18. CASE Unwritten
  <2>1. \/ host'.pc \in {"dropping", "gone"}
        \/ /\ host.pc = "flow" /\ host'.pc = "drop" /\ host'.entered = host.entered
           /\ host'.wait = host.wait /\ toKb' = toKb
    BY <1>18 DEF Unwritten
  <2> QED BY <1>2, <1>3, <2>1
<1> QED BY <1>5, <1>6, <1>7, <1>8, <1>9, <1>10, <1>11, <1>12, <1>13, <1>14, <1>15, <1>16, <1>17, <1>18,
           ToolSteps

\* Every step: the bridge stays open while the tool is in its flow.
LEMMA BridgeStep ==
  ASSUME TypesOK, PhaseOK, ProbeOK, PassedOK, BridgeOK, [TunnelNext]_tunnelVars
  PROVE  BridgeOK'
<1> USE DEF BridgeOK
<1>1. CASE StartTool
  BY <1>1 DEF StartTool, Fresh
<1>2. CASE KeyboardStep
  <2>1. SUFFICES ASSUME host.pc \in {"hello", "flow", "booting", "drop"}, host.entered
                 PROVE  /\ kb'.state = "passthru" /\ kb'.watch <= 1 /\ Clean(toKb', OtherOps)
                        /\ (host.pc \in {"hello", "booting"} /\ host.wait > 0
                              => toKb' # <<>> \/ kb'.watch = 0)
    BY <1>2, KbFields
  <2>2. kb.state = "passthru" /\ kb.watch <= 1 /\ kb.watch \in Nat /\ Clean(toKb, OtherOps)
    BY <2>1, Timing DEF TypesOK, Bridges
  <2>3. CASE Took
    <3>1. Op.op = "STREAM" /\ Clean(toKb', OtherOps)
      BY <2>2, <2>3, Queues, OpKinds DEF Took
    <3>2. toKb' # toKb
      BY <2>3 DEF Took, TypesOK, QueuesOK
    <3>3. kb'.state = kb.state /\ kb'.watch = 0
      BY <1>2, <2>2, <3>1, <3>2, KbFields, Timing
    <3> QED BY <2>2, <3>1, <3>3
  <2>4. CASE ~Took
    <3>1. KbForward
      BY <1>2, <2>2, <2>4, KbFields, Timing
    <3>2. kb' = kb /\ toKb' = toKb
      BY <3>1 DEF KbForward
    <3> QED BY <2>1, <2>2, <3>2
  <2> QED BY <2>3, <2>4
<1>3. CASE ModuleStep
  BY <1>3, ModFields
<1>4. CASE Tick
  <2>1. SUFFICES ASSUME host.pc \in {"hello", "flow", "booting", "drop"}, host.entered
                 PROVE  kb'.state = "passthru" /\ kb'.watch <= 1 /\ Clean(toKb', OtherOps)
                        /\ (host.pc \in {"hello", "booting"} => host'.wait = 0)
    <3>1. host'.pc = host.pc /\ host'.entered = host.entered
      BY <1>4, TickHost DEF TypesOK, Tools
    <3> QED BY <3>1
  <2>2. /\ toKb' = <<>> /\ toKb = <<>> /\ kb'.state = kb.state
        /\ kb'.watch = IF host.pc = "flow" THEN 0 ELSE Least(kb.watch + 1, Watchdog)
    BY <1>4, TickOthers DEF Tick
  <2>3. CASE host.pc = "flow"
    BY <2>1, <2>2, <2>3 DEF Clean
  <2>4. CASE host.pc # "flow"
    <3>1. host.pc \in {"hello", "booting"} /\ host.wait > 0
      BY <1>4, <2>1, <2>4 DEF Tick, Waiting, AwaitsFrame, AwaitsControl, Gone
    <3>2. host.wait = 1 /\ kb.watch = 0
      BY <2>1, <2>2, <3>1, ToolFields DEF PhaseOK
    <3>3. host'.wait = 0
      <4>1. ~Gone
        BY <3>1 DEF Gone
      <4>2. host'.wait = IF host.wait > 0 THEN host.wait - 1 ELSE 0
        BY <1>4, <4>1, TickHost
      <4> QED BY <3>2, <4>2
    <3>4. kb'.watch <= 1
      BY <2>2, <2>4, <3>2, LeastIs, Timing
    <3> QED BY <2>1, <2>2, <3>3, <3>4 DEF Clean
  <2> QED BY <2>3, <2>4
<1>5. CASE UNCHANGED tunnelVars
  BY <1>5 DEF tunnelVars
<1> QED BY <1>1, <1>2, <1>3, <1>4, <1>5, BridgeTool DEF TunnelNext

-----------------------------------------------------------------------------
(* Who answers for a parked module *)

\* The tool reads what is on its way: the answer goes from the queue to the
\* buffer.
LEMMA AnswerPumped ==
  ASSUME TypesOK, PumpStream, AnswerComes
  PROVE  AnswerComes'
<1>1. /\ host'.seq = host.seq /\ host'.rx = Append(host.rx, Report.frame)
      /\ Report \in Reports /\ Report.op = "STREAM" /\ Report.frame \in Answers
      /\ toHost # <<>> /\ toHost' = Tail(toHost) /\ fromMod' = fromMod
  BY PumpFields
<1>2. Clean(fromMod, OtherAnswers) /\ Clean(toHost, OtherReports) /\ Clean(host.rx, OtherAnswers)
  BY DEF AnswerComes
<1>3. Clean(toHost', OtherReports) /\ Report.frame \notin OtherAnswers
  <2>1. Report \notin OtherReports /\ Clean(toHost', OtherReports)
    BY <1>1, <1>2, Queues
  <2> QED BY <1>1, <2>1, ReportKinds, AnswerKinds
<1>4. Clean(host'.rx, OtherAnswers)
  BY <1>1, <1>2, <1>3, Queues
<1>5. ~Clean(host.rx, AnswersOf(host.seq)) => ~Clean(host'.rx, AnswersOf(host.seq))
  BY <1>1, Queues
<1>6. ~Clean(toHost, AnswerReportsOf(host.seq)) =>
        ~Clean(toHost', AnswerReportsOf(host.seq)) \/ ~Clean(host'.rx, AnswersOf(host.seq))
  <2>1. CASE Report \in AnswerReportsOf(host.seq)
    <3>1. Report.frame \in AnswersOf(host.seq)
      BY <1>1, <2>1, ReportKinds, AnswerKinds
    <3> QED BY <1>1, <3>1, Queues
  <2>2. CASE Report \notin AnswerReportsOf(host.seq)
    BY <1>1, <2>2, Queues
  <2> QED BY <2>1, <2>2
<1> QED BY <1>1, <1>2, <1>3, <1>4, <1>5, <1>6 DEF AnswerComes

\* The tool drops a report that is not a frame.
LEMMA AnswerNotIgnored ==
  ASSUME TypesOK, PumpIgnored, AnswerComes
  PROVE  AnswerComes'
<1>1. toHost # <<>> /\ toHost' = Tail(toHost) /\ UNCHANGED <<host, fromMod>>
  BY IgnoredFields
<1>2. Report \in Reports /\ Report.op # "STREAM"
  BY <1>1, Queues DEF PumpIgnored
<1>3. Report \notin AnswerReportsOf(host.seq)
  BY <1>2, ReportKinds
<1>4. ~Clean(toHost, AnswerReportsOf(host.seq)) => ~Clean(toHost', AnswerReportsOf(host.seq))
  BY <1>1, <1>3, Queues
<1>5. Clean(toHost, OtherReports) => Clean(toHost', OtherReports)
  BY <1>1, Queues
<1> QED BY <1>1, <1>4, <1>5 DEF AnswerComes

\* The tool passes over a frame that does not answer its probe: it is not the
\* one on its way, and not one that makes the tool stop waiting.
LEMMA AnswerNotMissed ==
  ASSUME TypesOK, ProbeAnswered, ~ProbeHeard(Head(host.rx)), AnswerComes
  PROVE  AnswerComes' /\ host'.pc = "probing"
<1>1. /\ host'.pc = IF Head(host.rx).cmd = "FRAME_ERR" THEN "gap" ELSE "probing"
      /\ host'.seq = host.seq /\ host'.rx = Tail(host.rx) /\ host.rx # <<>>
      /\ Head(host.rx) \in Answers /\ UNCHANGED <<toHost, fromMod>>
  BY MissedFields
<1>2. Head(host.rx) \notin OtherAnswers /\ Clean(host'.rx, OtherAnswers)
  BY <1>1, Queues DEF AnswerComes
<1>3. Head(host.rx).cmd = "HELLO"
  BY <1>1, <1>2, AnswerKinds
<1>4. Head(host.rx) \notin AnswersOf(host.seq)
  BY <1>1, <1>3, AnswerKinds DEF ProbeHeard
<1>5. ~Clean(host.rx, AnswersOf(host.seq)) => ~Clean(host'.rx, AnswersOf(host.seq))
  BY <1>1, <1>4, Queues
<1> QED BY <1>1, <1>2, <1>3, <1>5 DEF AnswerComes

\* What the tool writes behind them leaves the HELLOs and the BOOT where they are.
LEMMA LeavingKept ==
  ASSUME TypesOK, UNCHANGED <<kb, mod, toMod>>,
         toKb' = toKb \/ \E x \in Ops : x \notin HelloOps /\ toKb' = Append(toKb, x)
  PROVE  /\ Unparked => Unparked'
         /\ Leaving => Leaving'
<1>1. CASE toKb' = toKb
  BY <1>1 DEF Unparked, Leaving, Parked
<1>2. ASSUME NEW x \in Ops, x \notin HelloOps, toKb' = Append(toKb, x)
      PROVE  /\ Unparked => Unparked'
             /\ Leaving => Leaving'
  <2>1. Clean(toKb, HelloOps) => Clean(toKb', HelloOps)
    BY <1>2, Queues
  <2>2. Through(toKb, ExitOps, BootOps, HelloOps) => Through(toKb', ExitOps, BootOps, HelloOps)
    BY <1>2, Awaited
  <2>3. Parked' <=> Parked
    BY DEF Parked
  <2> QED BY <2>1, <2>2, <2>3 DEF Unparked, Leaving
<1> QED BY <1>1, <1>2

\* The BOOT that ends a session is the last request but the EXIT.
LEMMA LeavingStarts ==
  ASSUME TypesOK, BridgeOK, UNCHANGED <<kb, mod, toMod>>,
         host.pc \in {"flow", "drop"}, host.entered,
         NEW x \in BootOps, toKb' = Append(toKb, x)
  PROVE  Leaving'
<1>1. kb.state = "passthru" /\ kb.watch <= 1 /\ Clean(toKb, OtherOps)
  BY DEF BridgeOK
<1>2. ExitOps \subseteq OtherOps
  BY OpKinds DEF ExitOps, OtherOps
<1>3. Clean(toKb, ExitOps)
  BY <1>1, <1>2, CleanLess
<1>4. x \in BootOps \intersect Ops
  BY DEF BootOps
<1>5. Through(toKb', ExitOps, BootOps, HelloOps)
  BY <1>3, <1>4, Awaited
<1> QED BY <1>1, <1>5 DEF Leaving

\* A step of the tool.
LEMMA ParkTool ==
  ASSUME TypesOK, PhaseOK, ProbeOK, SeqOK, BridgeOK, ParkOK, ToolStep \/ ToolFault
  PROVE  ParkOK'
<1> USE DEF Gone
<1>1. UNCHANGED <<kb, mod, toMod, fromMod>> /\ (Parked' <=> Parked)
  <2>1. UNCHANGED <<kb, mod, toMod, fromMod>>
    BY DEF ToolStep, PumpStream, PumpIgnored, StatusAnswered, StatusTimeout, Poll, EnterAnswered,
           EnterGivesUp, Settled, Probe, ProbeAnswered, ProbeUnanswered, HelloAnswered, HelloTimeout,
           FlowEnds, BootEnds, DropTunnel, DropEnds, IoError, BootUnwritten, DropBootUnwritten, DropUnread,
           ExitUnwritten, Killed, ToolFault
  <2> QED BY <2>1 DEF Parked
<1>2. ASSUME NEW x, x \in BootOps \/ x \in ExitOps \/ (x \in Ops /\ x.op \in {"STATUS", "ENTER"})
      PROVE  x \in Ops /\ x \notin HelloOps
  <2>1. x \in Ops
    BY <1>2 DEF BootOps, ExitOps
  <2> QED BY <1>2, <2>1, OpKinds
<1>3. ASSUME host'.pc \in {"hello", "flow"}, ~host'.booted
      PROVE  ParkOK'
  BY <1>3 DEF ParkOK
<1>4. CASE PumpStream
  <2>1. /\ host'.pc = host.pc /\ host'.entered = host.entered /\ host'.booted = host.booted
        /\ host'.wait = host.wait /\ toKb' = toKb /\ toHost # <<>>
        /\ Report \in Reports /\ Report.op = "STREAM" /\ causes' = causes
    BY <1>4, PumpFields
  <2>2. ~Silent
    BY <2>1, Queues, ReportKinds DEF Silent
  <2>3. (Unparked => Unparked') /\ (Leaving => Leaving')
    BY <1>1, <2>1, LeavingKept
  <2>4. ProbeOut => ProbeOut'
    BY <1>1, <1>4, <2>1, <2>2, AnswerPumped DEF ProbeOut
  <2> QED BY <1>1, <2>1, <2>2, <2>3, <2>4 DEF ParkOK
<1>5. CASE PumpIgnored
  <2>1. UNCHANGED <<host, toKb, causes>> /\ toHost # <<>> /\ toHost' = Tail(toHost)
    BY <1>5, IgnoredFields
  <2>2. Silent => Silent'
    BY <1>1, <2>1, Queues DEF Silent
  <2>3. (Unparked => Unparked') /\ (Leaving => Leaving')
    BY <1>1, <2>1, LeavingKept
  <2>4. ProbeOut => ProbeOut'
    BY <1>1, <1>5, <2>1, <2>2, AnswerNotIgnored DEF ProbeOut
  <2> QED BY <1>1, <2>1, <2>2, <2>3, <2>4 DEF ParkOK
<1>6. CASE StatusAnswered \/ StatusTimeout \/ Poll \/ EnterAnswered \/ EnterGivesUp
  <2>1. /\ host.pc \in {"status", "enter"} /\ host'.pc \in {"enter", "settle", "drop"}
        /\ host'.booted = host.booted
        /\ toKb' = toKb \/ \E x \in Ops : x.op \in {"STATUS", "ENTER"} /\ toKb' = Append(toKb, x)
        /\ toHost' = toHost \/ (toHost # <<>> /\ toHost' = Tail(toHost))
        /\ causes' = causes
    BY <1>6, HandshakeFields
  <2>2. ~host.booted
    BY <2>1 DEF PhaseOK
  <2>3. Unparked => Unparked'
    BY <1>1, <1>2, <2>1, LeavingKept
  <2>4. Silent => Silent'
    <3>1. fromMod' = fromMod
      BY <1>6, HandshakeFields
    <3>2. CASE toHost' = toHost
      BY <3>1, <3>2 DEF Silent, Clean
    <3>3. CASE toHost # <<>> /\ toHost' = Tail(toHost)
      BY <1>1, <3>1, <3>3, Queues DEF Silent
    <3> QED BY <2>1, <3>2, <3>3
  <2> QED BY <1>1, <2>1, <2>2, <2>3, <2>4 DEF ParkOK
<1>7. CASE Settled \/ ProbeUnanswered
  <2>1. /\ host'.pc = "probe" /\ host'.booted = host.booted /\ UNCHANGED <<toKb, toHost, causes>>
        /\ host.pc = "settle" \/ (host.pc \in {"probing", "gap"} /\ host.wait = 0)
    BY <1>7, DueFields DEF Settled, ProbeUnanswered
  <2>2. ~host.booted
    BY <2>1 DEF PhaseOK
  <2>3. Unparked => Unparked'
    BY <1>1, <2>1, LeavingKept
  <2>4. Silent => Silent'
    BY <1>1, <2>1 DEF Silent
  <2> QED BY <1>1, <2>1, <2>2, <2>3, <2>4 DEF ParkOK
<1>8. CASE Fails
  <2>1. /\ host'.pc = "drop" /\ host'.entered = host.entered /\ host'.booted = host.booted
        /\ toKb' = toKb /\ (causes' = {} => causes = {} /\ (host.entered \/ host.pc = "probe"))
    BY <1>8, FailFields DEF Fails
  <2>2. (Unparked => Unparked') /\ (Leaving => Leaving')
    BY <1>1, <2>1, LeavingKept
  <2> QED BY <2>1, <2>2 DEF ParkOK
<1>9. CASE Probe /\ ~ProbeExpired
  <2>1. /\ host.pc = "probe" /\ host'.pc = "probing" /\ host'.wait = 1 /\ host'.rx = <<>>
        /\ host'.booted = host.booted /\ UNCHANGED <<toHost, causes>>
    BY <1>9, ProbeFields
  <2>2. ~host.booted
    BY <2>1 DEF PhaseOK
  <2>3. causes = {} => toMod = <<>> /\ Silent /\ ~Parked
    BY <2>1 DEF ParkOK, Unparked
  <2>4. causes = {} => ProbeOut'
    BY <1>1, <2>1, <2>3 DEF ProbeOut, Silent
  <2> QED BY <2>1, <2>2, <2>4 DEF ParkOK
<1>10. CASE ProbeAnswered /\ ProbeHeard(Head(host.rx))
  BY <1>3, <1>10, EnteredFields DEF PhaseOK
<1>11. CASE ProbeAnswered /\ ~ProbeHeard(Head(host.rx))
  <2>1. /\ host.pc = "probing" /\ host'.pc \in {"probing", "gap"} /\ host'.booted = host.booted
        /\ host'.wait = host.wait /\ host.rx # <<>> /\ UNCHANGED <<toKb, toHost, causes>>
    BY <1>11, MissedFields
  <2>2. ~host.booted
    BY <2>1 DEF PhaseOK
  <2>3. Unparked => Unparked'
    BY <1>1, <2>1, LeavingKept
  <2>4. causes = {} => toMod = <<>> /\ Clean(toKb, HelloOps) /\ (Parked => AnswerComes)
    BY <2>1 DEF ParkOK, ProbeOut
  <2>5. Parked /\ causes = {} => AnswerComes' /\ host'.pc = "probing"
    BY <1>11, <2>4, AnswerNotMissed
  <2>6. ~Parked /\ causes = {} => Unparked'
    <3>1. toMod = <<>> => Clean(toMod, HelloFrames)
      BY DEF Clean
    <3> QED BY <1>1, <2>3, <2>4, <3>1 DEF Unparked
  <2>7. causes = {} => ProbeOut'
    BY <1>1, <2>1, <2>4, <2>5 DEF ProbeOut
  <2>8. host.wait = 0 /\ causes = {} => Unparked' /\ Silent'
    BY <1>1, <2>1, <2>3 DEF ParkOK, Silent
  <2> QED BY <1>1, <2>1, <2>2, <2>4, <2>5, <2>6, <2>7, <2>8 DEF ParkOK
<1>12. CASE AsksAgain
  BY <1>3, <1>12, AgainFields DEF AsksAgain, PhaseOK
<1>13. CASE HelloAnswered /\ ~HelloAgain
  BY <1>3, <1>13, HeardFields DEF PhaseOK
<1>14. CASE FlowEnds /\ ~Fail
  <2>1. host.pc = "flow" /\ host'.pc = "booting" /\ \E x \in BootOps : toKb' = Append(toKb, x)
    BY <1>14, BootedFields
  <2>2. Leaving'
    BY <1>1, <2>1, LeavingStarts DEF PhaseOK
  <2> QED BY <2>1, <2>2 DEF ParkOK
<1>15. CASE DropTunnel
  <2>1. /\ host.pc = "drop" /\ host'.entered = host.entered /\ host'.booted = host.booted
        /\ causes' = causes
    BY <1>15, DropFields
  <2>2. CASE host.entered /\ host'.pc = "dropping" /\ \E x \in BootOps : toKb' = Append(toKb, x)
    <3>1. Leaving'
      BY <1>1, <2>1, <2>2, LeavingStarts
    <3> QED BY <2>2, <3>1 DEF ParkOK
  <2>3. CASE /\ host'.pc = "gone" /\ (host.entered => host.booted)
             /\ toKb' = toKb \/ \E x \in ExitOps : toKb' = Append(toKb, x)
    <3>1. (Unparked => Unparked') /\ (Leaving => Leaving')
      BY <1>1, <1>2, <2>3, LeavingKept
    <3> QED BY <2>1, <2>3, <3>1 DEF ParkOK
  <2> QED BY <1>15, <2>2, <2>3, DropFields DEF PhaseOK
<1>16. CASE DropEnds
  <2>1. /\ host.pc = "dropping" /\ host'.pc = "gone" /\ host'.entered = host.entered
        /\ causes' = causes /\ \E x \in ExitOps : toKb' = Append(toKb, x)
    BY <1>16, GoneFields
  <2>2. Leaving => Leaving'
    BY <1>1, <1>2, <2>1, LeavingKept
  <2>3. host.entered
    BY <2>1 DEF PhaseOK
  <2> QED BY <2>1, <2>2, <2>3 DEF ParkOK
<1>17. CASE Killed
  BY <1>17, GoneFields DEF ParkOK
<1>18. CASE Unwritten
  <2>1. (Unparked => Unparked') /\ (Leaving => Leaving')
    BY <1>1, <1>18, LeavingKept DEF Unwritten
  <2>2. /\ host.pc \in {"drop", "dropping"} /\ host'.pc \in {"dropping", "gone"}
        /\ host'.pc = "dropping" => host.pc = "dropping"
        /\ host'.entered = host.entered /\ host'.booted = host.booted
        /\ host.pc = "drop" => (host.entered => host.booted)
        /\ causes' = causes
        \/ causes' # {}
    BY <1>18 DEF Unwritten
  <2> QED BY <2>1, <2>2 DEF ParkOK, PhaseOK
<1> QED BY <1>4, <1>5, <1>6, <1>7, <1>8, <1>9, <1>10, <1>11, <1>12, <1>13, <1>14, <1>15, <1>16, <1>17,
           <1>18, ToolSteps

\* A step of the keyboard: whatever it forwards is on its way already.
LEMMA UnparkedKeyboard ==
  ASSUME TypesOK, KeyboardStep
  PROVE  /\ ~Parked => ~Parked'
         /\ Clean(toKb, HelloOps) => Clean(toKb', HelloOps)
         /\ Clean(toKb, HelloOps) /\ Clean(toMod, HelloFrames) => Clean(toMod', HelloFrames)
         /\ Clean(toKb, HelloOps) /\ Through(toMod, {}, BootFrames, HelloFrames) =>
              Through(toMod', {}, BootFrames, HelloFrames)
<1>1. mod' = mod \/ ~mod'.session
  <2>1. ~Restarted(TRUE).session /\ ~Restarted(FALSE).session
    BY DEF Restarted
  <2> QED BY <2>1, KbFields
<1>2. Clean(toKb, HelloOps) => Clean(toKb', HelloOps)
  <2>1. toKb' = toKb \/ Took
    BY KbFields
  <2> QED BY <2>1, Queues DEF Took
<1>3. Clean(toKb, HelloOps) => \/ toMod' = toMod
                               \/ \E f \in Arriving : f \notin HelloFrames /\ toMod' = Append(toMod, f)
  <2>1. SUFFICES ASSUME Clean(toKb, HelloOps), toMod' # toMod
                 PROVE  \E f \in Arriving : f \notin HelloFrames /\ toMod' = Append(toMod, f)
    OBVIOUS
  <2>2. /\ Took /\ Op.op = "STREAM"
        /\ \E f \in Arriving : /\ f.cmd = Op.frame.cmd \/ f.cmd = "GARBLED"
                               /\ toMod' = Append(toMod, f)
    BY <2>1, KbFields
  <2>3. Op.frame.cmd # "HELLO"
    BY <2>1, <2>2, Queues, OpKinds DEF Took
  <2> QED BY <2>2, <2>3, FrameKinds
<1>4. ASSUME NEW f \in Arriving, f \notin HelloFrames, toMod' = Append(toMod, f)
      PROVE  /\ Clean(toMod, HelloFrames) => Clean(toMod', HelloFrames)
             /\ Through(toMod, {}, BootFrames, HelloFrames) =>
                  Through(toMod', {}, BootFrames, HelloFrames)
  BY <1>4, Queues, Awaited
<1> QED BY <1>1, <1>2, <1>3, <1>4 DEF Parked

\* It writes no frame that it has not read, and no answer that the module has
\* not given.
LEMMA SilentKeyboard ==
  ASSUME TypesOK, KeyboardStep
  PROVE  /\ Clean(toKb, StreamOps) => toMod' = toMod
         /\ Silent => Silent'
<1>1. Took /\ Clean(toKb, StreamOps) => Op.op # "STREAM"
  BY Queues, OpKinds DEF Took
<1>2. Clean(toKb, StreamOps) => toMod' = toMod
  BY <1>1, KbFields
<1>3. ASSUME Silent
      PROVE  Silent'
  <2>1. fromMod = <<>> /\ Clean(toHost, StreamReports)
    BY <1>3 DEF Silent
  <2>2. /\ fromMod' = fromMod
        /\ toHost' = toHost \/ \E x \in Reports : x.op # "STREAM" /\ toHost' = Append(toHost, x)
    BY <2>1, KbFields
  <2>3. ASSUME NEW x \in Reports, x.op # "STREAM", toHost' = Append(toHost, x)
        PROVE  Clean(toHost', StreamReports)
    <3>1. x \notin StreamReports
      BY <2>3, ReportKinds
    <3> QED BY <2>1, <2>3, <3>1, Queues
  <2> QED BY <2>1, <2>2, <2>3 DEF Silent
<1> QED BY <1>2, <1>3

\* The answer comes out of the open bridge, or the link has lost it.
LEMMA AnswerForwarded ==
  ASSUME TypesOK, KeyboardStep, AnswerComes, kb.state = "passthru", ~host.entered, causes' = {}
  PROVE  AnswerComes'
<1>1. host' = host
  BY KbFields
<1>2. Clean(fromMod, OtherAnswers) /\ Clean(toHost, OtherReports) /\ Clean(host.rx, OtherAnswers)
  BY DEF AnswerComes
<1>3. CASE fromMod' = fromMod
  <2>1. toHost' = toHost \/ \E x \in Reports : x.op # "STREAM" /\ toHost' = Append(toHost, x)
    <3>1. fromMod # <<>> => Tail(fromMod) # fromMod
      BY DEF TypesOK, QueuesOK
    <3> QED BY <1>3, <3>1, KbFields
  <2>2. ASSUME NEW x \in Reports, x.op # "STREAM", toHost' = Append(toHost, x)
        PROVE  /\ Clean(toHost', OtherReports)
               /\ ~Clean(toHost, AnswerReportsOf(host.seq)) => ~Clean(toHost', AnswerReportsOf(host.seq))
    <3>1. x \notin OtherReports
      BY <2>2, ReportKinds
    <3> QED BY <1>2, <2>2, <3>1, Queues
  <2> QED BY <1>1, <1>3, <2>1, <2>2 DEF AnswerComes
<1>4. CASE fromMod' # fromMod
  <2>1. /\ fromMod # <<>> /\ fromMod' = Tail(fromMod)
        /\ \E x \in Reports : /\ x.op = "STREAM" /\ x.frame = Head(fromMod)
                              /\ toHost' = Append(toHost, x)
    BY <1>4, KbFields
  <2>2. PICK x \in Reports : x.op = "STREAM" /\ x.frame = Head(fromMod) /\ toHost' = Append(toHost, x)
    BY <2>1
  <2>3. Head(fromMod) \in Answers /\ Head(fromMod) \notin OtherAnswers /\ Clean(fromMod', OtherAnswers)
    BY <1>2, <2>1, Queues
  <2>4. Clean(toHost', OtherReports)
    <3>1. x \notin OtherReports
      BY <2>2, <2>3, ReportKinds, AnswerKinds
    <3> QED BY <1>2, <2>2, <3>1, Queues
  <2>5. ~Clean(fromMod, AnswersOf(host.seq)) =>
          ~Clean(fromMod', AnswersOf(host.seq)) \/ ~Clean(toHost', AnswerReportsOf(host.seq))
    <3>1. CASE Head(fromMod) \in AnswersOf(host.seq)
      <4>1. x \in AnswerReportsOf(host.seq)
        BY <2>2, <2>3, <3>1, ReportKinds, AnswerKinds
      <4> QED BY <2>2, <4>1, Queues
    <3>2. CASE Head(fromMod) \notin AnswersOf(host.seq)
      BY <2>1, <3>2, Queues
    <3> QED BY <3>1, <3>2
  <2>6. ~Clean(toHost, AnswerReportsOf(host.seq)) => ~Clean(toHost', AnswerReportsOf(host.seq))
    BY <2>2, Queues
  <2> QED BY <1>1, <1>2, <2>3, <2>4, <2>5, <2>6 DEF AnswerComes
<1> QED BY <1>3, <1>4

\* While the tool probes, every frame that is queued for the keyboard is a HELLO.
LEMMA OnlyProbes ==
  ASSUME TypesOK, SeqOK, host.pc \in {"probing", "gap"}, Clean(toKb, HelloOps)
  PROVE  Clean(toKb, StreamOps)
<1> DEFINE x == Stream(Hello(host.seq, "probe"))
<1>1. x.op = "STREAM" /\ x.frame.cmd = "HELLO"
  BY DEF Stream, Hello
<1> HIDE DEF x
<1>2. Clean(toKb, StreamOps) \/ Through(toKb, StreamOps, {x}, Ops)
  BY DEF SeqOK, x
<1>3. ASSUME NEW i \in 1..Len(toKb), toKb[i] = x
      PROVE  FALSE
  <2>1. x \in Ops
    BY <1>3 DEF TypesOK, QueuesOK
  <2>2. x \in HelloOps
    BY <1>1, <2>1, OpKinds
  <2> QED BY <1>3, <2>2 DEF Clean
<1> QED BY <1>2, <1>3 DEF Through

\* A probe is with the keyboard, then with the module, then answered or lost.
LEMMA ProbeOutKeyboard ==
  ASSUME TypesOK, PhaseOK, SeqOK, PassedOK, KeyboardStep,
         host.pc = "probing", causes' = {}, ProbeOut
  PROVE  ProbeOut'
<1>1. host' = host /\ ~host.entered
  BY KbFields DEF PhaseOK
<1>2. /\ ~Parked => ~Parked'
      /\ Silent => Silent'
      /\ Clean(toKb, HelloOps) => Clean(toKb', HelloOps) /\ toMod' = toMod
  BY UnparkedKeyboard, SilentKeyboard, OnlyProbes
<1>3. CASE toMod = <<>> /\ Silent /\ host.rx = <<>> /\ ~Parked
  <2>1. CASE toMod' = toMod
    BY <1>1, <1>2, <1>3, <2>1 DEF ProbeOut
  <2>2. CASE toMod' # toMod
    <3>1. /\ Took /\ Op.op = "STREAM"
          /\ \E f \in Arriving : f.seq = Op.frame.seq /\ toMod' = Append(toMod, f)
      BY <2>2, KbFields
    <3>2. Op.frame.seq = host.seq /\ toKb' = <<>>
      BY <3>1, ReadsProbe
    <3>3. PICK f \in Arriving : f.seq = host.seq /\ toMod' = Append(<<>>, f)
      BY <1>3, <3>1, <3>2
    <3>4. Len(toMod') = 1 /\ Head(toMod') = f
      BY <3>3
    <3>5. Clean(toKb', HelloOps)
      BY <3>2 DEF Clean
    <3> QED BY <1>1, <1>2, <1>3, <3>3, <3>4, <3>5 DEF ProbeOut
  <2> QED BY <2>1, <2>2
<1>4. CASE /\ Len(toMod) = 1 /\ Head(toMod).seq = host.seq /\ Clean(toKb, HelloOps)
           /\ Silent /\ host.rx = <<>> /\ ~Parked
  BY <1>1, <1>2, <1>4 DEF ProbeOut
<1>5. CASE toMod = <<>> /\ Clean(toKb, HelloOps) /\ (Parked => AnswerComes)
  <2>1. Parked => AnswerComes'
    <3>1. SUFFICES ASSUME Parked, AnswerComes
                   PROVE  AnswerComes'
      BY <1>5
    <3>2. ASSUME Unseen
          PROVE  FALSE
      <4>1. AnswersOf(host.seq) \subseteq Of(host.seq)
        BY DEF AnswersOf, Of
      <4>2. AnswerReportsOf(host.seq) \subseteq ReportsOf(host.seq)
        BY DEF AnswerReportsOf, ReportsOf
      <4> QED BY <3>1, <3>2, <4>1, <4>2, CleanLess DEF Unseen, AnswerComes
    <3>3. kb.state = "passthru"
      BY <3>2 DEF PassedOK, Serving
    <3> QED BY <1>1, <3>1, <3>3, AnswerForwarded
  <2> QED BY <1>1, <1>2, <1>5, <2>1 DEF ProbeOut
<1> QED BY <1>3, <1>4, <1>5 DEF ProbeOut

\* A BOOT gets through the open bridge, or the link has lost it.
LEMMA LeavingKeyboard ==
  ASSUME TypesOK, KeyboardStep, Leaving, causes' = {}
  PROVE  Leaving'
<1>1. CASE Through(toKb, ExitOps, BootOps, HelloOps) /\ kb.state = "passthru" /\ kb.watch <= 1
  <2>1. CASE Took
    <3>1. /\ Op \in Ops /\ (Op \in ExitOps => Op \in BootOps) /\ toKb' = Tail(toKb) /\ toKb' # toKb
          /\ Through(toKb', ExitOps, BootOps, HelloOps) \/ (Op \in BootOps /\ Clean(toKb', HelloOps))
      BY <1>1, <2>1, Queues, Awaited DEF Took, TypesOK, QueuesOK
    <3>2. CASE Op.op # "STREAM"
      <4>1. Op \notin BootOps /\ Op.op # "EXIT"
        BY <3>1, <3>2, OpKinds
      <4>2. kb'.state = "passthru" /\ kb'.watch <= 1
        BY <1>1, <3>1, <3>2, <4>1, KbFields, Timing
      <4> QED BY <3>1, <4>1, <4>2 DEF Leaving
    <3>3. CASE Op.op = "STREAM"
      <4>1. kb'.state = "passthru" /\ kb'.watch = 0
        BY <1>1, <3>1, <3>3, KbFields, Timing
      <4>2. ASSUME Op \in BootOps, Clean(toKb', HelloOps)
            PROVE  Through(toMod', {}, BootFrames, HelloFrames)
        <5>1. Op.frame.cmd # "HELLO"
          BY <3>1, <4>2, OpKinds
        <5>2. \E f \in Arriving : f.cmd = Op.frame.cmd /\ toMod' = Append(toMod, f)
          BY <1>1, <3>1, <3>3, <5>1, KbFields, Timing
        <5>3. PICK f \in Arriving : f.cmd = Op.frame.cmd /\ toMod' = Append(toMod, f)
          BY <5>2
        <5>4. f.cmd \in {"BOOT_APP", "BOOT_STAY"}
          BY <3>1, <3>3, <5>1, <5>3, OpKinds, FrameFields DEF Requests
        <5>5. f \in BootFrames \intersect Arriving /\ Clean(toMod, {})
          BY <5>4, FrameKinds DEF Clean
        <5> QED BY <5>3, <5>5, Awaited
      <4> QED BY <3>1, <4>1, <4>2 DEF Leaving
    <3> QED BY <3>2, <3>3
  <2>2. CASE ~Took
    <3>1. KbForward
      BY <1>1, <2>2, KbFields, Timing DEF TypesOK, Bridges
    <3>2. kb' = kb /\ toKb' = toKb
      BY <3>1 DEF KbForward
    <3> QED BY <1>1, <3>2 DEF Leaving
  <2> QED BY <2>1, <2>2
<1>2. CASE Clean(toKb, HelloOps) /\ Through(toMod, {}, BootFrames, HelloFrames)
  BY <1>2, UnparkedKeyboard DEF Leaving
<1>3. CASE Unparked
  BY <1>3, UnparkedKeyboard DEF Unparked, Leaving
<1> QED BY <1>1, <1>2, <1>3 DEF Leaving

\* A step of the keyboard.
LEMMA ParkKeyboard ==
  ASSUME TypesOK, PhaseOK, SeqOK, PassedOK, ParkOK, KeyboardStep
  PROVE  ParkOK'
<1>1. SUFFICES ASSUME causes' = {}
               PROVE  ParkOK'
  BY DEF ParkOK
<1>2. host' = host /\ causes = {}
  BY <1>1, KbFields
<1>3. /\ Unparked => Unparked'
      /\ Silent => Silent'
      /\ Clean(toKb, StreamOps) => toMod' = toMod
  BY UnparkedKeyboard, SilentKeyboard DEF Unparked
<1>4. /\ host.pc \in {"status", "enter", "settle", "probe"} => Clean(toKb, StreamOps)
      /\ host.pc \in {"probing", "gap"} /\ host.wait = 0 => Clean(toKb, StreamOps)
      /\ host.pc = "gap" => Clean(toKb, StreamOps)
  BY <1>2, OnlyProbes DEF SeqOK, NoFrames, ParkOK, Unparked
<1>5. host.pc = "probing" => ProbeOut'
  BY <1>1, <1>2, ProbeOutKeyboard DEF ParkOK
<1>6. Leaving => Leaving'
  BY <1>1, LeavingKeyboard
<1> QED BY <1>2, <1>3, <1>4, <1>5, <1>6 DEF ParkOK, Gone

\* A step of the module: a probe is answered, and a BOOT ends the session.
LEMMA ParkModule ==
  ASSUME TypesOK, PhaseOK, ParkOK, ModuleStep
  PROVE  ParkOK'
<1>1. UNCHANGED <<host, kb, toKb, toHost, causes>>
  BY ModFields
<1>2. \/ UNCHANGED <<toMod, fromMod>>
      \/ toMod # <<>> /\ toMod' = Tail(toMod) /\ Head(toMod) \in Arriving
  BY ModFields
<1>3. toMod = <<>> => (~Parked => ~Parked') /\ UNCHANGED <<toMod, fromMod>>
  <2>1. ~Launched(mod.asked).session
    BY DEF Launched
  <2> QED BY <2>1, ModFields DEF Parked
<1>4. Head(toMod).cmd # "HELLO" \/ toMod = <<>> => (~Parked => ~Parked')
  <2>1. ~Launched(mod.asked).session
    BY DEF Launched
  <2> QED BY <2>1, ModFields DEF Parked
<1>5. Clean(toMod, HelloFrames) => Clean(toMod', HelloFrames) /\ (~Parked => ~Parked')
  <2>1. SUFFICES ASSUME Clean(toMod, HelloFrames)
                 PROVE  Clean(toMod', HelloFrames) /\ (~Parked => ~Parked')
    OBVIOUS
  <2>2. toMod # <<>> => Head(toMod) \in Arriving /\ Head(toMod) \notin HelloFrames
    BY <2>1, Queues
  <2>3. toMod # <<>> => Head(toMod).cmd # "HELLO"
    BY <2>2, FrameKinds
  <2>4. Clean(toMod', HelloFrames)
    BY <1>2, <2>1, Queues
  <2> QED BY <1>4, <2>3, <2>4
<1>6. Unparked => Unparked'
  BY <1>1, <1>5 DEF Unparked
<1>7. Leaving => Leaving'
  <2>1. CASE Through(toKb, ExitOps, BootOps, HelloOps) /\ kb.state = "passthru" /\ kb.watch <= 1
    BY <1>1, <2>1 DEF Leaving
  <2>2. CASE Unparked
    BY <1>6, <2>2 DEF Leaving
  <2>3. CASE Clean(toKb, HelloOps) /\ Through(toMod, {}, BootFrames, HelloFrames)
    <3>1. CASE toMod' = toMod
      BY <1>1, <2>3, <3>1 DEF Leaving
    <3>2. CASE toMod # <<>> /\ toMod' = Tail(toMod) /\ Head(toMod) \in Arriving /\ toMod' # toMod
      <4>1. \/ Through(toMod', {}, BootFrames, HelloFrames)
            \/ Head(toMod) \in BootFrames /\ Clean(toMod', HelloFrames)
        BY <2>3, <3>2, Awaited
      <4>2. Head(toMod) \in BootFrames => ~Parked'
        <5>1. Head(toMod) \in BootFrames => Head(toMod).cmd \in {"BOOT_APP", "BOOT_STAY"}
          BY <3>2, FrameKinds
        <5>2. mod.mode = "app" \/ ~mod.session => ~Parked
          BY DEF Parked
        <5>3. mod' = mod => (Parked' <=> Parked)
          BY DEF Parked
        <5>4. ~mod'.session => ~Parked'
          BY DEF Parked
        <5> QED BY <3>2, <5>1, <5>2, <5>3, <5>4, ModFields
      <4> QED BY <1>1, <2>3, <4>1, <4>2 DEF Leaving, Unparked
    <3> QED BY <1>2, <3>1, <3>2
  <2> QED BY <2>1, <2>2, <2>3 DEF Leaving
<1>8. ProbeOut => ProbeOut'
  <2>1. CASE toMod = <<>> /\ Silent /\ host.rx = <<>> /\ ~Parked
    BY <1>1, <1>3, <2>1 DEF ProbeOut, Silent
  <2>2. CASE toMod = <<>> /\ Clean(toKb, HelloOps) /\ (Parked => AnswerComes)
    <3>1. AnswerComes => AnswerComes'
      BY <1>1, <1>3, <2>2 DEF AnswerComes
    <3> QED BY <1>1, <1>3, <2>2, <3>1 DEF ProbeOut
  <2>3. CASE /\ Len(toMod) = 1 /\ Head(toMod).seq = host.seq /\ Clean(toKb, HelloOps)
             /\ Silent /\ host.rx = <<>> /\ ~Parked
    <3>1. CASE UNCHANGED <<toMod, fromMod>>
      <4>1. ~Parked'
        <5>1. toMod # <<>> => Tail(toMod) # toMod
          BY DEF TypesOK, QueuesOK
        <5>2. ~Launched(mod.asked).session
          BY DEF Launched
        <5>3. mod' = Launched(mod.asked)
          BY <3>1, <5>1, ModFields
        <5> QED BY <5>2, <5>3 DEF Parked
      <4> QED BY <1>1, <2>3, <3>1, <4>1 DEF ProbeOut, Silent
    <3>2. CASE toMod # <<>> /\ toMod' = Tail(toMod) /\ Head(toMod) \in Arriving
      <4>1. toMod' = <<>> /\ Tail(toMod) # toMod
        BY <2>3, <3>2 DEF TypesOK, QueuesOK
      <4>2. Parked' => AnswerComes'
        <5>1. SUFFICES ASSUME Parked'
                       PROVE  AnswerComes'
          OBVIOUS
        <5>2. Head(toMod).cmd = "HELLO"
          BY <1>4, <2>3, <5>1
        <5>3. mod.mode = "boot"
          <6>1. mod' = mod => ~Parked'
            BY <2>3 DEF Parked
          <6> QED BY <3>2, <4>1, <5>1, <5>2, <6>1, ModFields
        <5>4. \E f \in Answers : f.cmd = "HELLO" /\ f.seq = host.seq /\ fromMod' = Append(fromMod, f)
          BY <2>3, <3>2, <4>1, <5>2, <5>3, ModFields
        <5>5. PICK f \in Answers : f.cmd = "HELLO" /\ f.seq = host.seq /\ fromMod' = Append(fromMod, f)
          BY <5>4
        <5>6. f \in AnswersOf(host.seq) /\ f \notin OtherAnswers
          BY <5>5, AnswerKinds
        <5>7. fromMod = <<>> /\ Clean(toHost, StreamReports)
          BY <2>3 DEF Silent
        <5>8. Clean(fromMod, OtherAnswers)
          BY <5>7 DEF Clean
        <5>9. Clean(fromMod', OtherAnswers) /\ ~Clean(fromMod', AnswersOf(host.seq))
          BY <5>5, <5>6, <5>8, Queues
        <5>10. Clean(toHost', OtherReports)
          <6>1. OtherReports \subseteq StreamReports
            BY DEF OtherReports, StreamReports
          <6> QED BY <1>1, <5>7, <6>1, CleanLess
        <5>11. Clean(host'.rx, OtherAnswers)
          BY <1>1, <2>3 DEF Clean
        <5> QED BY <1>1, <5>9, <5>10, <5>11 DEF AnswerComes
      <4> QED BY <1>1, <2>3, <4>1, <4>2 DEF ProbeOut
    <3> QED BY <1>2, <3>1, <3>2
  <2> QED BY <2>1, <2>2, <2>3 DEF ProbeOut
<1>9. toMod = <<>> /\ Silent => toMod' = <<>> /\ Silent'
  BY <1>1, <1>3 DEF Silent
<1>10. toMod = <<>> => toMod' = <<>>
  BY <1>3
<1> QED BY <1>1, <1>6, <1>7, <1>8, <1>9, <1>10 DEF ParkOK, Gone

\* Time passes: what has not come by then was lost.
LEMMA ParkTick ==
  ASSUME TypesOK, PhaseOK, ParkOK, Tick
  PROVE  ParkOK'
<1>1. SUFFICES ASSUME causes' = {}
               PROVE  ParkOK'
  BY DEF ParkOK
<1>2. /\ toKb = <<>> /\ toMod = <<>> /\ UNCHANGED <<toKb, toHost, toMod, fromMod>>
      /\ causes = {} /\ (fromMod = <<>> \/ host.entered)
  BY <1>1 DEF Tick
<1>3. /\ host'.pc = host.pc /\ host'.rx = host.rx /\ host'.seq = host.seq
      /\ host'.entered = host.entered /\ host'.booted = host.booted
  BY TickHost DEF TypesOK, Tools
<1>4. Parked' <=> Parked
  BY TickOthers DEF Parked
<1>5. Unparked => Unparked'
  BY <1>2, <1>4 DEF Unparked
<1>6. Silent => Silent'
  BY <1>2 DEF Silent
<1>7. Leaving => Leaving'
  <2>1. ~Through(toKb, ExitOps, BootOps, HelloOps) /\ ~Through(toMod, {}, BootFrames, HelloFrames)
    BY <1>2, Awaited
  <2> QED BY <1>5, <2>1 DEF Leaving
<1>8. ProbeOut => ProbeOut'
  BY <1>2, <1>3, <1>4 DEF ProbeOut, Silent, AnswerComes
<1>9. host.pc \in {"probing", "gap"} => Unparked /\ Silent
  <2>1. SUFFICES ASSUME host.pc \in {"probing", "gap"}
                 PROVE  Unparked /\ Silent
    OBVIOUS
  <2>2. fromMod = <<>> /\ toHost = <<>> /\ (host.pc = "probing" => host.rx = <<>>)
    BY <1>2, <2>1 DEF Tick, Gone, AwaitsFrame, PhaseOK
  <2>3. Silent /\ Clean(toKb, HelloOps) /\ Clean(toMod, HelloFrames)
    BY <1>2, <2>2 DEF Silent, Clean
  <2>4. host.pc = "probing" => ~AnswerComes
    BY <2>2 DEF AnswerComes, Clean
  <2>5. ~Parked
    BY <1>2, <2>1, <2>4 DEF ParkOK, ProbeOut, Unparked
  <2> QED BY <2>3, <2>5 DEF Unparked
<1> QED BY <1>2, <1>3, <1>5, <1>6, <1>7, <1>8, <1>9 DEF ParkOK, Gone

\* Every step: who is left to answer for a parked module.
LEMMA ParkStep ==
  ASSUME TypesOK, PhaseOK, ProbeOK, SeqOK, PassedOK, BridgeOK, ParkOK, [TunnelNext]_tunnelVars
  PROVE  ParkOK'
<1>1. CASE StartTool
  <2>1. /\ host.pc = "gone" /\ toKb = <<>> /\ toMod = <<>> /\ fromMod = <<>>
        /\ host'.pc = "status" /\ ~host'.booted /\ toHost' = <<>> /\ toKb' = <<StatusOp>>
        /\ UNCHANGED <<mod, toMod, fromMod, causes>>
    BY <1>1 DEF StartTool, Fresh, Gone
  <2>2. ~Through(toKb, ExitOps, BootOps, HelloOps) /\ ~Through(toMod, {}, BootFrames, HelloFrames)
    BY <2>1, Awaited
  <2>3. causes = {} => ~Parked
    BY <2>1, <2>2, ToolFields DEF ParkOK, Leaving, Unparked, Gone
  <2>4. StatusOp \notin HelloOps
    BY NewOps, OpKinds
  <2>5. causes = {} => Unparked'
    BY <2>1, <2>3, <2>4 DEF Unparked, Clean, Parked
  <2>6. Silent'
    BY <2>1 DEF Silent, Clean
  <2> QED BY <2>1, <2>5, <2>6 DEF ParkOK, Gone
<1>2. CASE UNCHANGED tunnelVars
  BY <1>2 DEF tunnelVars, ParkOK, Unparked, Leaving, Silent, AnswerComes, ProbeOut, Parked, Gone
<1> QED BY <1>1, <1>2, ParkTool, ParkKeyboard, ParkModule, ParkTick DEF TunnelNext

-----------------------------------------------------------------------------
(* Theorems *)

\* The tool has not been started, and nothing is in flight.
LEMMA TunnelStarts == TunnelInit => TunnelInv
<1> SUFFICES ASSUME TunnelInit
             PROVE  TunnelInv
  OBVIOUS
<1>1. TypesOK
  BY TypesInit
<1>2. /\ host.pc = "gone" /\ ~host.passthrough /\ ~host.entered /\ ~host.booted /\ ~host.killed
      /\ ~host.unsaid
      /\ host.rx = <<>> /\ kb.state = "idle" /\ ~kb.acked
      /\ toKb = <<>> /\ toHost = <<>> /\ toMod = <<>> /\ fromMod = <<>>
      /\ ~Parked
  BY DEF TunnelInit, Fresh, Launched, Restarted, Parked
<1>3. PhaseOK /\ ProbeOK
  BY <1>2 DEF PhaseOK, ProbeOK, Gone
<1>4. HoldOK /\ ClockOK
  BY <1>2 DEF HoldOK, InUse, FlowHoldsModule, ClockOK, Asked, AwaitsControl
<1>5. GivenBackOK
  BY <1>2 DEF GivenBackOK, Gone
<1>6. SeqOK /\ PassedOK /\ BridgeOK
  BY <1>2 DEF SeqOK, PassedOK, BridgeOK
<1>7. ParkOK
  BY <1>2 DEF ParkOK, Unparked, Clean, Gone
<1> QED BY <1>1, <1>3, <1>4, <1>5, <1>6, <1>7 DEF TunnelInv

\* Every step of the tool, the keyboard, the module and the clock keeps it.
LEMMA TunnelSteps ==
  ASSUME TunnelInv, [TunnelNext]_tunnelVars
  PROVE  TunnelInv'
<1>1. TypesOK' /\ PhaseOK' /\ ProbeOK'
  BY TypesStep, PhaseStep, ProbeStep DEF TunnelInv
<1>2. HoldOK' /\ ClockOK' /\ GivenBackOK'
  BY HoldStep, ClockStep, GivenBackStep DEF TunnelInv
<1>3. SeqOK' /\ PassedOK' /\ BridgeOK'
  BY SeqStep, PassedStep, BridgeStep DEF TunnelInv
<1>4. ParkOK'
  BY ParkStep DEF TunnelInv
<1> QED BY <1>1, <1>2, <1>3, <1>4 DEF TunnelInv

\* The invariant holds for every timing that TunnelAssumption admits, and for any
\* number of runs, kills, I/O errors (in the way out as well) and lost, late or
\* garbled frames.
THEOREM TunnelInductive == TunnelSpec => []TunnelInv
<1>1. TunnelInit => TunnelInv
  BY TunnelStarts
<1>2. TunnelInv /\ [TunnelNext]_tunnelVars => TunnelInv'
  BY TunnelSteps
<1> QED BY <1>1, <1>2, PTL DEF TunnelSpec

\* The tool's variables stay in their ranges, and what it knows of the module
\* is ordered (qmk.rs:190-207).
THEOREM TunnelTypeSound == TunnelSpec => []TunnelTypeOK
<1>1. TunnelInv => TunnelTypeOK
  <2>1. SUFFICES ASSUME TypesOK, PhaseOK
                 PROVE  TunnelTypeOK
    BY DEF TunnelInv
  <2>2. /\ host.pc \in {"status", "enter", "settle", "probe", "probing", "gap", "hello", "flow",
                        "booting", "drop", "dropping", "gone"}
        /\ host.wait \in 0..AckTimeout /\ host.since \in 0..EnterDeadline
        /\ host.seq \in 0..SeqMod - 1 /\ host.att \in 0..MaxAttempts
    BY <2>1 DEF TypesOK, Tools
  <2>3. kb.state \in {"idle", "asking", "settling", "passthru", "error"}
    BY <2>1 DEF TypesOK, Bridges, BridgeStates
  <2>4. (host.booted => host.entered) /\ (host.entered => host.passthrough)
    BY <2>1 DEF PhaseOK
  <2>5. mod.session => mod.mode = "boot"
    BY <2>1 DEF TypesOK
  <2> QED BY <2>2, <2>3, <2>4, <2>5 DEF TunnelTypeOK
<1> QED BY <1>1, TunnelInductive, PTL

\* A late answer to a probe is never taken for the answer to the client's
\* HELLO: probes count down from 0xFF and the client up from 0, and give_up
\* ends the probing before they meet (qmk.rs:443-455).
THEOREM HearsItsOwn == TunnelSpec => []ClientHearsItsOwn
<1>1. TunnelInv => ClientHearsItsOwn
  BY DEF TunnelInv, TypesOK, Tools, ClientHearsItsOwn
<1> QED BY <1>1, TunnelInductive, PTL

\* A flow runs only on a module that a HELLO of this run holds in its
\* bootloader (qmk.rs:431-433).
THEOREM FlowHolds == TunnelSpec => []FlowHoldsModule
<1>1. TunnelInv => FlowHoldsModule
  BY DEF TunnelInv, HoldOK
<1> QED BY <1>1, TunnelInductive, PTL

\* A module that acknowledged this tunnel is still in its bootloader whenever
\* the tool waits for the answer to a probe (qmk.rs:21-31, 447-455).
THEOREM BeatsAutoBoot == TunnelSpec => []ProbesBeatAutoBoot
<1>1. TunnelInv => ProbesBeatAutoBoot
  BY DEF TunnelInv, ClockOK, Asked, InTime, ProbesBeatAutoBoot
<1> QED BY <1>1, TunnelInductive, PTL

\* Whoever noted that the keyboard is off air, was not killed and could write the
\* EXIT has given it back once the keyboard has read everything (qmk.rs:547-555).
THEOREM GivesBack == TunnelSpec => []KeyboardGivenBack
<1>1. TunnelInv => KeyboardGivenBack
  <2>1. SUFFICES ASSUME TypesOK, GivenBackOK
                 PROVE  KeyboardGivenBack
    BY DEF TunnelInv
  <2>2. toKb = <<>> => ~Through(toKb, {}, ExitOps, EnterOps)
    BY <2>1, Awaited
  <2> QED BY <2>1, <2>2 DEF GivenBackOK, KeyboardGivenBack, Quiet
<1> QED BY <1>1, TunnelInductive, PTL

\* A module is left parked only by a kill, a BOOT that the link lost or that could
\* not be written, or an entry that the tool never heard of (qmk.rs:498-520, 528-545).
THEOREM ParksByAccident == TunnelSpec => []ParkedOnlyByAccident
<1>1. TunnelInv => ParkedOnlyByAccident
  <2>1. SUFFICES ASSUME TypesOK, ParkOK, Gone, Quiet, causes = {}
                 PROVE  ~Parked
    BY DEF TunnelInv, ParkedOnlyByAccident
  <2>2. ~Through(toKb, ExitOps, BootOps, HelloOps) /\ ~Through(toMod, {}, BootFrames, HelloFrames)
    BY <2>1, Awaited DEF Quiet
  <2> QED BY <2>1, <2>2, ToolFields DEF ParkOK, Leaving, Unparked, Gone
<1> QED BY <1>1, TunnelInductive, PTL
=============================================================================
