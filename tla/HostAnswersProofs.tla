-------------------------- MODULE HostAnswersProofs --------------------------
(***************************************************************************)
(* What the tool tells its user is true of the device: a flow that said    *)
(* "commit OK" has installed its build, and what was acknowledged stays in *)
(* flash - for every size, any number of faults, and any frames lost,      *)
(* garbled, delayed or sent again on the way.  And as long as nothing      *)
(* fails, nothing is refused.                                              *)
(*                                                                         *)
(* The argument has three parts.  What the device still has to read is     *)
(* asked now, unreadable, or a HELLO whose answer is not looked at any     *)
(* more; and a frame with the newest seq is the last, so that the accepted *)
(* answer to anything but HELLO leaves nothing in flight (FlightOK).  An   *)
(* OK that is in flight is true for as long as it can be read (DataOK for  *)
(* the words of a flash, CommittedOK for the image).  And the session is   *)
(* where the request needs it that is asked, or where carrying it out has  *)
(* left it, so that its repetition is known for one (RetryInv).            *)
(***************************************************************************)
EXTENDS HostUpdateProofs

-----------------------------------------------------------------------------
(* Frames in flight *)

\* How many attempts ago `x' was the seq of the newest.
Age(x, newest) == IF x <= newest THEN newest - x ELSE newest + SeqMod - x

\* The device works on the request that is asked.
Doing(q) ==
  /\ req.cmd = q.cmd
  /\ req.cmd = "WRITE" => req.slot = q.slot /\ req.at = q.at /\ req.data = q.data
  /\ req.cmd = "COMMIT" => req.rec.len = q.len /\ req.rec.crc = q.crc

\* What the tool asks now: as a request, as an answer to it, and that it is HELLO.
Asks(body)   == host.todo # <<>> /\ body = Asked
AsksCmd(cmd) == host.todo # <<>> /\ cmd = Asked.cmd
Opening      == AsksCmd("HELLO")

\* Everything of the kind that is asked now was sent by this run.  (A HELLO may
\* be one that an earlier run left behind.)
Own == host.runs <= 1 \/ ~Opening

\* The device has nothing else to read.
OnlyAsked == \A k \in 1..Len(toDev) : Asks(toDev[k].body) \/ toDev[k].body = Garbled

Recent(seq) == Age(seq, host.seq) < host.att

SentOK ==
  /\ \A i \in 1..Len(toDev) :
       /\ ~Opening => Asks(toDev[i].body) \/ toDev[i].body \in {Garbled, HelloReq}
       /\ Asks(toDev[i].body) =>
            /\ \A j \in 1..Len(toDev) : i < j => Asks(toDev[j].body) \/ toDev[j].body = Garbled
            /\ Own => Recent(toDev[i].seq) /\ (toDev[i].seq = host.seq => i = Len(toDev))
  /\ host.runs <= 1 => OnlyAsked /\ (host.todo = <<>> => toDev = <<>>)
  /\ host.runs = 0 => host.todo = <<>>

ServingOK ==
  pc # "idle" /\ Own =>
    /\ OnlyAsked /\ host.todo # <<>> /\ Doing(Asked)
    /\ Recent(serving) /\ (serving = host.seq => toDev = <<>>)

AnsweredOK ==
  \A i \in 1..Len(toHost) : AsksCmd(toHost[i].cmd) =>
    /\ OnlyAsked /\ (Opening => pc = "idle")
    /\ \A j \in 1..Len(toHost) : i < j => AsksCmd(toHost[j].cmd) \/ toHost[j].cmd = "FRAME_ERR"
    /\ Own => /\ Recent(toHost[i].seq)
              /\ toHost[i].seq = host.seq => i = Len(toHost) /\ pc = "idle" /\ toDev = <<>>

FlightOK == SentOK /\ ServingOK /\ AnsweredOK

\* From its third start on, the tool does not find a HELLO in front of something
\* else among what the device still has to read.  That takes the requests of two
\* earlier runs, both of which the link has kept although their tools are gone.
\* (The answer to that HELLO may carry the seq of the new one.  The tool then
\* goes on, and may take the answer to what comes behind it for its own.)
OrderlyStart ==
  (\E flow \in Flows : StartRun(flow)) /\ host.runs >= 2 =>
    \A i, j \in 1..Len(toDev) :
      i < j /\ toDev[i].body = HelloReq => toDev[j].body \in {HelloReq, Garbled}
OrderlyStarts == [][OrderlyStart]_allVars

\* The items of a queue that lost its head or got a new last.
LEMMA QueueItems ==
  ASSUME NEW S, NEW q \in Seq(S)
  PROVE  /\ q # <<>> => /\ Len(q) \in Nat \ {0} /\ Head(q) = q[1] /\ Len(Tail(q)) = Len(q) - 1
                        /\ \A i \in 1..Len(Tail(q)) : Tail(q)[i] = q[i + 1] /\ i + 1 \in 1..Len(q)
         /\ \A f : /\ Len(Append(q, f)) = Len(q) + 1 /\ Append(q, f)[Len(q) + 1] = f
                   /\ \A i \in 1..Len(q) : Append(q, f)[i] = q[i]
OBVIOUS

\* Every seq is one byte.
LEMMA SeqTypes ==
  ASSUME FramesOK
  PROVE  /\ toDev \in Seq(Frames) /\ toHost \in Seq(Responses) /\ serving \in 0..SeqMod - 1
         /\ \A i \in 1..Len(toDev) : toDev[i].seq \in 0..SeqMod - 1
         /\ \A i \in 1..Len(toHost) : toHost[i].seq \in 0..SeqMod - 1
<1>1. toDev \in Seq(Frames) /\ toHost \in Seq(Responses) /\ serving \in 0..SeqMod - 1
  BY DEF FramesOK
<1>2. (\A f \in Frames : f.seq \in 0..SeqMod - 1) /\ (\A f \in Responses : f.seq \in 0..SeqMod - 1)
  BY DEF Frames, Responses
<1> QED BY <1>1, <1>2

\* Ages are counted modulo SeqMod.
LEMMA Ages ==
  ASSUME NEW x \in 0..SeqMod - 1, NEW n \in 0..SeqMod - 1
  PROVE  /\ Age(x, n) \in Nat /\ (Age(x, n) = 0 <=> x = n)
         /\ Age(x, n) + 1 < SeqMod => Age(x, (n + 1) % SeqMod) = Age(x, n) + 1
<1>1. SeqMod \in Nat /\ x \in Nat /\ n \in Nat /\ x < SeqMod /\ n < SeqMod
  BY ClientAssumption DEF ClientAssumption
<1>2. Age(x, n) \in Nat /\ (Age(x, n) = 0 <=> x = n)
  BY <1>1 DEF Age
<1>3. (n + 1) % SeqMod = IF n + 1 = SeqMod THEN 0 ELSE n + 1
  BY <1>1
<1>4. CASE n + 1 = SeqMod
  <2>1. Age(x, n) = n - x
    BY <1>1, <1>4 DEF Age
  <2>2. Age(x, 0) = IF x = 0 THEN 0 ELSE SeqMod - x
    BY <1>1 DEF Age
  <2> QED BY <1>1, <1>2, <1>3, <1>4, <2>1, <2>2
<1>5. CASE n + 1 # SeqMod
  <2>1. Age(x, n) = IF x <= n THEN n - x ELSE n + SeqMod - x
    BY DEF Age
  <2>2. Age(x, n + 1) = IF x <= n + 1 THEN n + 1 - x ELSE n + 1 + SeqMod - x
    BY DEF Age
  <2> QED BY <1>1, <1>2, <1>3, <1>5, <2>1, <2>2
<1> QED BY <1>2, <1>4, <1>5

\* What a request is for.
LEMMA RequestIs ==
  /\ HelloReq.cmd = "HELLO" /\ Garbled.cmd = "GARBLED"
  /\ \A q \in Fitting : /\ q.cmd \in {"HELLO", "ERASE", "WRITE", "COMMIT", "CRC", "BOOT"}
                        /\ q.cmd = "HELLO" => q = HelloReq
BY DEF Fitting, HostRequests, HelloReq, Garbled

\* What is asked is one of the flow's requests, and it opens the run if it is HELLO.
LEMMA AskedIs ==
  ASSUME ToolOK(host)
  PROVE  /\ host.todo # <<>> => Asked \in Fitting
         /\ Opening <=> (host.todo # <<>> /\ Asked = HelloReq)
         /\ ~Asks(Garbled) /\ (Opening <=> Asks(HelloReq))
         /\ ~AsksCmd("FRAME_ERR") /\ ~AsksCmd("GARBLED")
         /\ Opening => host.slot = NoSlot \/ ~DeliveryOK(host)
<1>1. host.todo \in Seq(Fitting)
  BY DEF ToolOK, Hosts
<1>2. host.todo # <<>> => Asked \in Fitting /\ Asked \in Members(host.todo)
  BY <1>1, TailKeeps DEF Asked
<1>3. host.todo # <<>> =>
        /\ Asked.cmd \in {"HELLO", "ERASE", "WRITE", "COMMIT", "CRC", "BOOT"}
        /\ Asked.cmd = "HELLO" => Asked = HelloReq
  BY <1>2, RequestIs
<1> QED BY <1>2, <1>3, RequestIs DEF Asks, AsksCmd, Opening, DeliveryOK

\* The frames that arrive are of their types.
LEMMA ArrivesAs ==
  ASSUME FramesOK
  PROVE  /\ \A i \in 1..Len(toDev) : toDev[i] \in Frames /\ toDev[i].body \in Fitting \union {Garbled}
         /\ toDev # <<>> => Frame \in Frames /\ Frame.body \in Fitting \union {Garbled}
<1>1. toDev \in Seq(Frames)
  BY DEF FramesOK
<1>2. \A f \in Frames : f.body \in Fitting \union {Garbled}
  BY DEF Frames
<1>3. toDev # <<>> => Frame \in Frames
  BY <1>1, Queues DEF Frame
<1>4. \A i \in 1..Len(toDev) : toDev[i] \in Frames
  BY <1>1
<1> QED BY <1>2, <1>3, <1>4

\* A new attempt is one older than none, and every other one older than it was.
LEMMA SendFlight ==
  ASSUME PairInv, FlightOK, Send, UNCHANGED <<vars, serving>>
  PROVE  FlightOK'
<1>1. /\ host \in Hosts /\ host.todo \in Seq(Fitting) /\ host.todo # <<>>
      /\ host.att \in Nat /\ host.seq \in 0..SeqMod - 1 /\ host.att + 1 < SeqMod
  <2>1. host \in Hosts /\ host.result = "running" /\ ~host.waiting /\ host.todo # <<>>
        /\ host.att < Attempts(Head(host.todo))
    BY DEF PairInv, ToolOK, Send, Running
  <2>2. host.att \in Nat /\ host.seq \in 0..SeqMod - 1 /\ host.todo \in Seq(Fitting)
    BY <2>1, ClientAssumption DEF ClientAssumption, Hosts
  <2>3. Attempts(Head(host.todo)) \in 1..MaxAttempts /\ MaxAttempts \in Nat /\ SeqMod \in Nat
        /\ MaxAttempts < SeqMod
    BY AttemptsType, ClientAssumption DEF ClientAssumption
  <2> QED BY <2>1, <2>2, <2>3
<1>2. /\ host'.seq = NextSeq /\ host'.att = host.att + 1 /\ host'.todo = host.todo /\ host'.runs = host.runs
      /\ NextSeq \in 0..SeqMod - 1 /\ toHost' = toHost /\ pc' = pc /\ req' = req /\ serving' = serving
  BY <1>1, ClientAssumption DEF ClientAssumption, Send, NextSeq, vars, Hosts
<1>3. /\ Asked' = Asked /\ Doing(Asked)' = Doing(Asked) /\ Opening' = Opening /\ Own' = Own
      /\ \A x : Asks(x)' = Asks(x) /\ AsksCmd(x)' = AsksCmd(x)
  BY <1>2 DEF Asked, Doing, Opening, Own, Asks, AsksCmd
<1>4. ASSUME NEW x \in 0..SeqMod - 1, Recent(x)
      PROVE  Age(x, NextSeq) < host.att + 1 /\ x # NextSeq
  <2> DEFINE a == Age(x, host.seq)
  <2>a. a \in Nat /\ SeqMod \in Nat
    BY <1>1, Ages, ClientAssumption DEF ClientAssumption
  <2>b. a < host.att
    BY <1>4 DEF Recent
  <2> HIDE DEF a
  <2>c. a + 1 < SeqMod
    BY <1>1, <2>a, <2>b
  <2>1. Age(x, host.seq) \in Nat /\ Age(x, host.seq) + 1 < SeqMod
    BY <2>a, <2>c DEF a
  <2>2. Age(x, NextSeq) = Age(x, host.seq) + 1
    BY <1>1, <2>1, Ages DEF NextSeq
  <2>3. Age(NextSeq, NextSeq) = 0
    BY <1>2, Ages
  <2> QED BY <1>1, <2>a, <2>b, <2>1, <2>2, <2>3 DEF a
<1>5. /\ toDev \in Seq(Frames) /\ toHost \in Seq(Responses) /\ serving \in 0..SeqMod - 1
      /\ \A i \in 1..Len(toDev) : toDev[i].seq \in 0..SeqMod - 1
      /\ \A i \in 1..Len(toHost) : toHost[i].seq \in 0..SeqMod - 1
  BY SeqTypes DEF PairInv
<1>6. \A x \in 0..SeqMod - 1 : Recent(x) => Recent(x)' /\ x # host'.seq
  BY <1>2, <1>4 DEF Recent
<1>7. Age(NextSeq, NextSeq) < host.att + 1
  BY <1>1, <1>2, Ages
<1>8. ASSUME OnlyAsked' \/ ~OnlyAsked, SentOK'
      PROVE  FlightOK'
  <2>1. AnsweredOK'
    BY <1>2, <1>3, <1>5, <1>6, <1>8 DEF FlightOK, AnsweredOK
  <2>2. ServingOK'
    BY <1>2, <1>3, <1>5, <1>6, <1>8 DEF FlightOK, ServingOK
  <2> QED BY <1>8, <2>1, <2>2 DEF FlightOK
<1>9. CASE toDev' = toDev
  <2>1. OnlyAsked' = OnlyAsked
    BY <1>3, <1>9 DEF OnlyAsked
  <2>2. SentOK'
    BY <1>1, <1>2, <1>3, <1>5, <1>6, <1>9, <2>1 DEF FlightOK, SentOK
  <2> QED BY <1>8, <2>1, <2>2
<1>10. ASSUME NEW body \in {Asked, Garbled}, toDev' = Append(toDev, [seq |-> NextSeq, body |-> body])
       PROVE  FlightOK'
  <2> DEFINE f == [seq |-> NextSeq, body |-> body]
  <2>1. f.seq = NextSeq /\ f.body = body /\ (Asks(body) \/ body = Garbled)
    BY <1>1 DEF Asks
  <2> HIDE DEF f
  <2>2. Len(toDev') = Len(toDev) + 1 /\ Len(toDev) \in Nat /\ toDev'[Len(toDev) + 1] = f
        /\ \A i \in 1..Len(toDev) : toDev'[i] = toDev[i]
    BY <1>5, <1>10, QueueItems DEF f
  <2>3. \A i \in 1..Len(toDev') : i \in 1..Len(toDev) \/ i = Len(toDev) + 1
    BY <2>2
  <2>4. OnlyAsked => OnlyAsked'
    BY <1>3, <2>1, <2>2, <2>3 DEF OnlyAsked
  <2>5. ASSUME NEW i \in 1..Len(toDev')
        PROVE  /\ ~Opening => Asks(toDev'[i].body) \/ toDev'[i].body \in {Garbled, HelloReq}
               /\ Asks(toDev'[i].body) =>
                    /\ \A j \in 1..Len(toDev') : i < j => Asks(toDev'[j].body) \/ toDev'[j].body = Garbled
                    /\ Own => /\ Age(toDev'[i].seq, NextSeq) < host.att + 1
                              /\ toDev'[i].seq = NextSeq => i = Len(toDev')
    <3>1. CASE i \in 1..Len(toDev)
      <4>1. ASSUME Asks(toDev[i].body), NEW j \in 1..Len(toDev'), i < j
            PROVE  Asks(toDev'[j].body) \/ toDev'[j].body = Garbled
        BY <2>1, <2>2, <2>3, <3>1, <4>1 DEF FlightOK, SentOK
      <4>2. ASSUME Asks(toDev[i].body), Own
            PROVE  Age(toDev[i].seq, NextSeq) < host.att + 1 /\ toDev[i].seq # NextSeq
        BY <1>4, <1>5, <3>1, <4>2 DEF FlightOK, SentOK
      <4> QED BY <2>2, <3>1, <4>1, <4>2 DEF FlightOK, SentOK
    <3>2. CASE i = Len(toDev) + 1
      BY <1>7, <2>1, <2>2, <3>2
    <3> QED BY <2>3, <3>1, <3>2
  <2>6. SentOK'
    BY <1>1, <1>2, <1>3, <2>4, <2>5 DEF SentOK, FlightOK, Recent
  <2> QED BY <1>8, <2>4, <2>6
<1> QED BY <1>9, <1>10 DEF Send

\* With nothing in flight there is nothing to say.
LEMMA EmptyFlight ==
  toDev = <<>> /\ toHost = <<>> /\ pc = "idle" /\ (host.runs = 0 => host.todo = <<>>) => FlightOK
<1>1. Len(<<>>) = 0 /\ 1..0 = {}
  OBVIOUS
<1> QED BY <1>1 DEF FlightOK, SentOK, ServingOK, AnsweredOK, OnlyAsked

\* The answer to the newest attempt is the last thing under way.
LEMMA AnswerIsLast ==
  ASSUME FramesOK, FlightOK, Own, toHost # <<>>, AsksCmd(Head(toHost).cmd), Head(toHost).seq = host.seq
  PROVE  Tail(toHost) = <<>> /\ toDev = <<>> /\ pc = "idle"
<1> DEFINE rest == Tail(toHost)
           n    == Len(toHost)
<1>1. /\ n \in Nat \ {0} /\ Head(toHost) = toHost[1] /\ Len(rest) = n - 1
      /\ rest \in Seq(Responses)
  BY SeqTypes, QueueItems, Queues
<1> HIDE DEF rest, n
<1>2. 1 \in 1..n
  BY <1>1
<1>3. 1 = n /\ pc = "idle" /\ toDev = <<>>
  BY <1>1, <1>2 DEF FlightOK, AnsweredOK, n
<1>4. Len(rest) = 0
  BY <1>1, <1>3
<1> QED BY <1>1, <1>3, <1>4, EmptySeq DEF rest

\* After the answer to a HELLO, whosever it was, come only more of these.
LEMMA OnlyHellosFollow ==
  ASSUME PairInv, FlightOK, Opening, toHost # <<>>, Head(toHost).cmd = "HELLO"
  PROVE  /\ pc = "idle" /\ \A k \in 1..Len(toDev) : toDev[k].body \in {HelloReq, Garbled}
         /\ \A j \in 1..Len(Tail(toHost)) : Tail(toHost)[j].cmd \in {"HELLO", "FRAME_ERR"}
<1>1. /\ Len(toHost) \in Nat \ {0} /\ Head(toHost) = toHost[1] /\ 1 \in 1..Len(toHost)
      /\ \A i \in 1..Len(Tail(toHost)) : Tail(toHost)[i] = toHost[i + 1] /\ i + 1 \in 1..Len(toHost) /\ 1 < i + 1
  <2>1. toHost \in Seq(Responses)
    BY SeqTypes DEF PairInv
  <2> QED BY <2>1, QueueItems
<1>2. AsksCmd(toHost[1].cmd)
  BY <1>1 DEF Opening
<1>3. \A cmd : AsksCmd(cmd) => cmd = "HELLO"
  BY DEF Opening, AsksCmd
<1>4. \A body : Asks(body) => body = HelloReq
  BY AskedIs DEF PairInv, Asks
<1>5. pc = "idle" /\ OnlyAsked
  BY <1>1, <1>2 DEF FlightOK, AnsweredOK
<1>6. \A j \in 1..Len(toHost) : 1 < j => toHost[j].cmd \in {"HELLO", "FRAME_ERR"}
  BY <1>1, <1>2, <1>3 DEF FlightOK, AnsweredOK
<1> QED BY <1>1, <1>4, <1>5, <1>6 DEF OnlyAsked

\* The tool reads an answer, or gives one up, and asks on for the same.
LEMMA ReadFlight ==
  ASSUME FramesOK, FlightOK, UNCHANGED <<vars, serving, toDev>>, host'.seq = host.seq,
         host'.att = host.att, host'.todo = host.todo, host'.runs = host.runs,
         toHost' = toHost \/ (toHost # <<>> /\ toHost' = Tail(toHost))
  PROVE  FlightOK'
<1>1. /\ Asked' = Asked /\ pc' = pc /\ req' = req /\ Doing(Asked)' = Doing(Asked)
      /\ Opening' = Opening /\ Own' = Own /\ OnlyAsked' = OnlyAsked
      /\ \A x : Asks(x)' = Asks(x) /\ AsksCmd(x)' = AsksCmd(x) /\ Recent(x)' = Recent(x)
  BY DEF Asked, vars, Doing, Opening, Own, OnlyAsked, Asks, AsksCmd, Recent
<1>2. SentOK' /\ ServingOK'
  BY <1>1 DEF FlightOK, SentOK, ServingOK
<1>3. AnsweredOK'
  <2>1. CASE toHost' = toHost
    BY <1>1, <2>1 DEF FlightOK, AnsweredOK
  <2>2. CASE toHost # <<>> /\ toHost' = Tail(toHost)
    <3>1. Len(toHost) \in Nat /\ Len(toHost') = Len(toHost) - 1
          /\ \A i \in 1..Len(toHost') : toHost'[i] = toHost[i + 1] /\ i + 1 \in 1..Len(toHost)
      BY <2>2, SeqTypes, QueueItems
    <3>2. ASSUME NEW i \in 1..Len(toHost'), AsksCmd(toHost'[i].cmd)
          PROVE  /\ OnlyAsked /\ (Opening => pc = "idle")
                 /\ \A j \in 1..Len(toHost') : i < j => AsksCmd(toHost'[j].cmd) \/ toHost'[j].cmd = "FRAME_ERR"
                 /\ Own => /\ Recent(toHost'[i].seq)
                           /\ toHost'[i].seq = host.seq => i = Len(toHost') /\ pc = "idle" /\ toDev = <<>>
      <4>1. toHost'[i] = toHost[i + 1] /\ i + 1 \in 1..Len(toHost) /\ i \in Int
            /\ (i + 1 = Len(toHost) => i = Len(toHost'))
        BY <3>1
      <4>2. \A j \in 1..Len(toHost') : i < j =>
              toHost'[j] = toHost[j + 1] /\ j + 1 \in 1..Len(toHost) /\ i + 1 < j + 1
        BY <3>1
      <4> QED BY <3>2, <4>1, <4>2 DEF FlightOK, AnsweredOK
    <3>3. \A i \in 1..Len(toHost') : Recent(toHost'[i].seq) <=> (Age(toHost'[i].seq, host.seq) < host.att)
      BY DEF Recent
    <3> QED BY <1>1, <3>2, <3>3 DEF AnsweredOK, Recent
  <2> QED BY <2>1, <2>2
<1> QED BY <1>2, <1>3 DEF FlightOK

\* The answer that the tool goes on with.
LEMMA AcceptFlight ==
  ASSUME PairInv, PairInv', FlightOK, Accepted, UNCHANGED <<vars, serving>>
  PROVE  FlightOK'
<1>1. /\ host \in Hosts /\ FramesOK /\ ToolOK(host) /\ DeliveryOK(host) /\ host.todo # <<>>
      /\ ToolOK(host') /\ DeliveryOK(host')
  BY DEF PairInv, ToolOK, Accepted, Waiting, Running
<1>2. /\ toHost # <<>> /\ AsksCmd(Head(toHost).cmd) /\ Head(toHost).seq = host.seq
      /\ toHost' = Tail(toHost) /\ toDev' = toDev /\ pc' = pc
  BY <1>1 DEF Accepted, Answers, AsksCmd, vars
<1>3. host.runs # 0
  BY <1>1 DEF FlightOK, SentOK
<1> DEFINE f == Head(toHost)
<1>4. \/ host' = [host EXCEPT !.waiting = FALSE, !.result = "no_slot"]
      \/ host'.runs = host.runs /\ host'.slot = f.value.slot
      \/ ~Opening /\ host'.runs = host.runs
  BY <1>1 DEF Accepted, Advance, Opening, AsksCmd, Hosts
<1>5. host'.runs = host.runs
  BY <1>1, <1>4 DEF Hosts
<1>6. CASE Own
  <2>1. toHost' = <<>> /\ toDev' = <<>> /\ pc' = "idle"
    BY <1>1, <1>2, <1>6, AnswerIsLast
  <2>2. (toDev = <<>> /\ toHost = <<>> /\ pc = "idle" /\ (host.runs = 0 => host.todo = <<>>))'
    BY <1>3, <1>5, <2>1
  <2> QED BY <2>2, EmptyFlight DEF FlightOK, SentOK, ServingOK, AnsweredOK, OnlyAsked, Asks, AsksCmd,
            Opening, Own, Recent, Asked, Doing
<1>7. CASE ~Own
  <2>1. Opening /\ ~(host.runs <= 1) /\ f.cmd = "HELLO"
    BY <1>2, <1>7 DEF Own, Opening, AsksCmd
  <2>2. CASE host' = [host EXCEPT !.waiting = FALSE, !.result = "no_slot"]
    <3>1. host'.seq = host.seq /\ host'.att = host.att /\ host'.todo = host.todo
      BY <1>1, <2>2 DEF Hosts
    <3> QED BY <1>1, <1>2, <1>5, <3>1, ReadFlight
  <2>3. CASE host'.slot = f.value.slot
    <3>1. f.value.slot \in Slots
      <4>1. f \in Responses /\ f.status = "OK"
        BY <1>1, <1>2, SeqTypes, Queues DEF Accepted
      <4>2. f.value \in Infos
        BY <2>1, <4>1 DEF Responses
      <4> QED BY <4>2 DEF Infos
    <3>2. host'.slot # NoSlot
      BY <2>3, <3>1 DEF Slots, NoSlot
    <3>3. ~Opening' /\ ~Asks(Garbled)' /\ ~Asks(HelloReq)'
          /\ ~AsksCmd("FRAME_ERR")' /\ ~AsksCmd("HELLO")'
      <4>1. host'.todo \in Seq(Fitting) /\ \A q \in Members(host'.todo) : q.cmd # "HELLO"
        BY <1>1, <3>2 DEF ToolOK, Hosts, DeliveryOK
      <4>2. host'.todo # <<>> => Head(host'.todo) \in Fitting /\ Head(host'.todo) \in Members(host'.todo)
        BY <4>1, TailKeeps
      <4>3. host'.todo # <<>> =>
              Head(host'.todo).cmd \in {"ERASE", "WRITE", "COMMIT", "CRC", "BOOT"}
        BY <4>1, <4>2, RequestIs
      <4> QED BY <4>3, RequestIs DEF Opening, Asks, AsksCmd, Asked
    <3>4. /\ pc' = "idle" /\ \A k \in 1..Len(toDev') : toDev'[k].body \in {HelloReq, Garbled}
          /\ \A j \in 1..Len(toHost') : toHost'[j].cmd \in {"HELLO", "FRAME_ERR"}
      BY <1>2, <2>1, OnlyHellosFollow
    <3>5. ~(host'.runs <= 1)
      BY <1>5, <2>1
    <3>6. SentOK'
      BY <1>1, <1>3, <1>5, <3>3, <3>4, <3>5 DEF SentOK
    <3>7. ServingOK' /\ AnsweredOK'
      BY <3>3, <3>4 DEF ServingOK, AnsweredOK
    <3> QED BY <3>6, <3>7 DEF FlightOK
  <2> QED BY <1>4, <2>1, <2>2, <2>3
<1> QED BY <1>6, <1>7

\* A run begins with what earlier ones have left.
LEMMA StartFlight ==
  ASSUME PairInv, FlightOK, NEW flow \in Flows, StartRun(flow), OrderlyStart, UNCHANGED <<vars, serving>>
  PROVE  FlightOK'
<1>1. /\ host'.todo = <<HelloReq>> /\ host'.runs = host.runs + 1 /\ host.runs \in Nat
      /\ toHost' = <<>> /\ toDev' = toDev /\ pc' = pc /\ ToolOK(host)
  BY ClientAssumption DEF ClientAssumption, StartRun, PairInv, ToolOK, Hosts, vars
<1>2. /\ Opening' /\ Own' = (host.runs = 0) /\ Asked' = HelloReq
      /\ \A x : Asks(x)' <=> x = HelloReq
  BY <1>1, RequestIs DEF Opening, AsksCmd, Asks, Own, Asked
<1>3. host.runs = 0 => toDev = <<>> /\ pc = "idle"
  BY <1>1 DEF FlightOK, SentOK, ServingOK, Own
<1>4. ASSUME NEW i \in 1..Len(toDev), NEW j \in 1..Len(toDev), i < j, toDev[i].body = HelloReq
      PROVE  toDev[j].body \in {HelloReq, Garbled}
  <2>1. CASE host.runs >= 2
    BY <1>4, <2>1 DEF OrderlyStart
  <2>2. CASE host.runs <= 1
    <3>1. OnlyAsked
      BY <2>2 DEF FlightOK, SentOK
    <3>2. HelloReq # Garbled
      BY RequestIs
    <3> QED BY <1>4, <3>1, <3>2 DEF OnlyAsked, Asks
  <2> QED BY <1>1, <2>1, <2>2
<1>5. host.runs = 0 => OnlyAsked'
  BY <1>1, <1>3 DEF OnlyAsked
<1>6. SentOK'
  <2>1. host.runs = 0 => \A i \in 1..Len(toDev') : FALSE
    BY <1>1, <1>3
  <2>2. host'.runs # 0 /\ (host'.runs <= 1 => host.runs = 0) /\ host'.todo # <<>>
    BY <1>1
  <2> QED BY <1>1, <1>2, <1>4, <1>5, <2>1, <2>2 DEF SentOK, Asks
<1>7. ServingOK'
  BY <1>1, <1>2, <1>3 DEF ServingOK
<1>8. AnsweredOK'
  BY <1>1 DEF AnsweredOK
<1> QED BY <1>6, <1>7, <1>8 DEF FlightOK

\* Every step of the tool.
LEMMA ToolFlight ==
  ASSUME PairInv, PairInv', FlightOK, HostStep, OrderlyStart, UNCHANGED <<vars, serving>>
  PROVE  FlightOK'
<1>1. host \in Hosts /\ FramesOK
  BY DEF PairInv, ToolOK
<1>2. CASE Send
  BY <1>2, SendFlight
<1>3. CASE FrameError \/ Timeout
  <2>1. host'.seq = host.seq /\ host'.att = host.att /\ host'.todo = host.todo /\ host'.runs = host.runs
    BY <1>1, <1>3 DEF FrameError, Timeout, Retry, Hosts
  <2>2. toDev' = toDev /\ (toHost' = toHost \/ (toHost # <<>> /\ toHost' = Tail(toHost)))
    BY <1>3 DEF FrameError, Timeout, link
  <2> QED BY <1>1, <2>1, <2>2, ReadFlight
<1>4. CASE DiscardStale
  BY <1>1, <1>4, ReadFlight DEF DiscardStale
<1>5. CASE Refused
  <2>1. host'.seq = host.seq /\ host'.att = host.att /\ host'.todo = host.todo /\ host'.runs = host.runs
    BY <1>1, <1>5 DEF Refused, Hosts
  <2> QED BY <1>1, <1>5, <2>1, ReadFlight DEF Refused
<1>6. CASE Accepted
  BY <1>6, AcceptFlight
<1>7. ASSUME NEW flow \in Flows, StartRun(flow) PROVE FlightOK'
  BY <1>7, StartFlight
<1> QED BY <1>2, <1>3, <1>4, <1>5, <1>6, <1>7 DEF HostStep, ClientStep

\* Whatever is taken off a queue is no longer in it.
LEMMA TailIsShorter ==
  ASSUME NEW S, NEW q \in Seq(S), q # <<>>
  PROVE  Tail(q) # q
<1> SUFFICES ASSUME Tail(q) = q PROVE FALSE
  OBVIOUS
<1> DEFINE n == Len(q)
           m == Len(Tail(q))
<1>1. n \in Nat /\ m = n - 1
  BY QueueItems
<1>2. m = n
  OBVIOUS
<1> HIDE DEF n, m
<1> QED BY <1>1, <1>2

\* A frame is taken off the line, or all that wait are lost.
LEMMA PopFlight ==
  ASSUME FramesOK, FlightOK, toDev # <<>>, host' = host, toDev' \in {toDev, Tail(toDev), <<>>}
  PROVE  /\ ~Opening => Asks(Frame.body) \/ Frame.body \in {Garbled, HelloReq}
         /\ OnlyAsked => OnlyAsked' /\ (Asks(Frame.body) \/ Frame.body = Garbled)
         /\ toDev' # toDev /\ Asks(Frame.body) =>
              /\ OnlyAsked'
              /\ Own => Recent(Frame.seq) /\ (Frame.seq = host.seq => Tail(toDev) = <<>>)
         /\ SentOK'
<1> DEFINE rest == Tail(toDev)
           n    == Len(toDev)
<1>1. /\ n \in Nat \ {0} /\ Frame = toDev[1] /\ Len(rest) = n - 1 /\ rest \in Seq(Frames)
      /\ \A i \in 1..Len(rest) : rest[i] = toDev[i + 1] /\ i + 1 \in 1..n /\ 1 < i + 1
  BY SeqTypes, QueueItems, Queues DEF Frame
<1>2. /\ Asked' = Asked /\ Opening' = Opening /\ Own' = Own
      /\ \A x : Asks(x)' = Asks(x) /\ Recent(x)' = Recent(x)
  BY DEF Asked, Opening, Own, Asks, AsksCmd, Recent
<1> HIDE DEF rest, n
<1>3. 1 \in 1..n
  BY <1>1
<1>4. /\ ~Opening => Asks(Frame.body) \/ Frame.body \in {Garbled, HelloReq}
      /\ OnlyAsked => Asks(Frame.body) \/ Frame.body = Garbled
      /\ Asks(Frame.body) =>
           /\ \A i \in 1..Len(rest) : Asks(rest[i].body) \/ rest[i].body = Garbled
           /\ Own => Recent(Frame.seq) /\ (Frame.seq = host.seq => 1 = n)
  BY <1>1, <1>3 DEF FlightOK, SentOK, OnlyAsked, n
<1>5. 1 = n => rest = <<>>
  BY <1>1, EmptySeq
<1>6. CASE toDev' = toDev
  <2>1. SentOK' /\ (OnlyAsked => OnlyAsked')
    BY <1>2, <1>6 DEF FlightOK, SentOK, OnlyAsked, Asks, Recent
  <2> QED BY <1>4, <1>6, <2>1
<1>7. CASE toDev' = rest
  <2>1. (OnlyAsked \/ Asks(Frame.body)) => OnlyAsked'
    BY <1>1, <1>2, <1>4, <1>7 DEF OnlyAsked, Asks, n
  <2>2. ASSUME NEW i \in 1..Len(rest)
        PROVE  /\ ~Opening => Asks(rest[i].body) \/ rest[i].body \in {Garbled, HelloReq}
               /\ Asks(rest[i].body) =>
                    /\ \A j \in 1..Len(rest) : i < j => Asks(rest[j].body) \/ rest[j].body = Garbled
                    /\ Own => Recent(rest[i].seq) /\ (rest[i].seq = host.seq => i = Len(rest))
    <3>1. rest[i] = toDev[i + 1] /\ i + 1 \in 1..n /\ (i + 1 = n => i = Len(rest))
          /\ \A j \in 1..Len(rest) : i < j => rest[j] = toDev[j + 1] /\ j + 1 \in 1..n /\ i + 1 < j + 1
      BY <1>1
    <3> QED BY <3>1 DEF FlightOK, SentOK, n
  <2>3. rest = <<>> \/ toDev # <<>>
    OBVIOUS
  <2>4. host.runs <= 1 => OnlyAsked' /\ (host.todo = <<>> => rest = <<>>)
    BY <2>1 DEF FlightOK, SentOK
  <2>5. SentOK'
    BY <1>2, <1>7, <2>2, <2>4 DEF FlightOK, SentOK, Asks, Recent
  <2> QED BY <1>1, <1>4, <1>5, <1>7, <2>1, <2>5 DEF rest
<1>8. CASE toDev' = <<>>
  <2>1. OnlyAsked'
    BY <1>8 DEF OnlyAsked
  <2>2. SentOK'
    BY <1>2, <1>8, <2>1 DEF FlightOK, SentOK
  <2> QED BY <1>4, <1>5, <1>8, <2>1, <2>2 DEF rest
<1> QED BY <1>6, <1>7, <1>8 DEF rest

\* The device answers what it was handed, or the answer is lost.
LEMMA AnswerFlight ==
  ASSUME FramesOK, FlightOK, host' = host, toDev # <<>> \/ pc # "idle",
         NEW cmd, NEW seq, NEW status, NEW value, Answer(cmd, seq, status, value),
         OnlyAsked => OnlyAsked', Opening /\ pc = "idle" => pc' = "idle",
         OnlyAsked /\ (Opening => pc = "idle") => AsksCmd(cmd) \/ cmd = "FRAME_ERR",
         AsksCmd(cmd) =>
           /\ OnlyAsked' /\ (Opening => pc' = "idle")
           /\ Own => Recent(seq) /\ (seq = host.seq => toDev' = <<>> /\ pc' = "idle")
  PROVE  AnsweredOK'
<1> DEFINE f == [cmd |-> cmd, seq |-> seq, status |-> status, value |-> value]
           n == Len(toHost)
<1>1. f.cmd = cmd /\ f.seq = seq
  OBVIOUS
<1>2. n \in Nat /\ Len(Append(toHost, f)) = n + 1 /\ Append(toHost, f)[n + 1] = f
      /\ \A i \in 1..n : Append(toHost, f)[i] = toHost[i]
  BY SeqTypes, QueueItems
<1> HIDE DEF f
<1>3. ASSUME NEW i \in 1..Len(toHost), AsksCmd(toHost[i].cmd)
      PROVE  /\ OnlyAsked' /\ (Opening => pc' = "idle") /\ (AsksCmd(cmd) \/ cmd = "FRAME_ERR")
             /\ \A j \in 1..Len(toHost) : i < j => AsksCmd(toHost[j].cmd) \/ toHost[j].cmd = "FRAME_ERR"
             /\ Own => Recent(toHost[i].seq) /\ toHost[i].seq # host.seq
  BY <1>3 DEF FlightOK, AnsweredOK
<1>4. /\ Asked' = Asked /\ Opening' = Opening /\ Own' = Own /\ host'.todo = host.todo
      /\ host'.seq = host.seq /\ host'.att = host.att
  BY DEF Asked, Opening, Own, AsksCmd
<1>5. CASE toHost' = toHost
  BY <1>3, <1>4, <1>5 DEF AnsweredOK, AsksCmd, Recent
<1>6. CASE toHost' = Append(toHost, f)
  <2>1. Len(toHost') = n + 1 /\ toHost'[n + 1] = f /\ \A i \in 1..n : toHost'[i] = toHost[i]
    BY <1>2, <1>6
  <2>2. \A i \in 1..Len(toHost') : i \in 1..n \/ i = n + 1
    BY <1>2, <2>1
  <2> HIDE DEF n
  <2>3. ASSUME NEW i \in 1..Len(toHost'), AsksCmd(toHost'[i].cmd)
        PROVE  /\ OnlyAsked' /\ (Opening => pc' = "idle")
               /\ \A j \in 1..Len(toHost') : i < j => AsksCmd(toHost'[j].cmd) \/ toHost'[j].cmd = "FRAME_ERR"
               /\ Own => /\ Recent(toHost'[i].seq)
                         /\ toHost'[i].seq = host.seq => i = Len(toHost') /\ pc' = "idle" /\ toDev' = <<>>
    <3>1. CASE i \in 1..n
      BY <1>1, <1>3, <2>1, <2>2, <2>3, <3>1 DEF n
    <3>2. CASE i = n + 1
      BY <1>1, <1>2, <2>1, <2>2, <2>3, <3>2
    <3> QED BY <2>2, <3>1, <3>2
  <2> QED BY <1>4, <2>3 DEF AnsweredOK, AsksCmd, Recent
<1> QED BY <1>5, <1>6 DEF Answer, f

\* A request that is answered on the spot.
LEMMA NowFlight ==
  ASSUME PairInv, FlightOK, host' = host, toDev # <<>>, toDev' \in {Tail(toDev), <<>>},
         pc = "idle", pc' = "idle", NEW status, NEW value,
         Answer(IF Frame.body.cmd = "GARBLED" THEN "FRAME_ERR" ELSE Frame.body.cmd, Frame.seq, status, value)
  PROVE  FlightOK'
<1> DEFINE cmd == IF Frame.body.cmd = "GARBLED" THEN "FRAME_ERR" ELSE Frame.body.cmd
<1>1. FramesOK
  BY DEF PairInv
<1>2. Tail(toDev) # toDev
  BY <1>1, SeqTypes, TailIsShorter
<1>3. /\ SentOK' /\ (OnlyAsked => OnlyAsked' /\ (Asks(Frame.body) \/ Frame.body = Garbled))
      /\ ~Opening => Asks(Frame.body) \/ Frame.body \in {Garbled, HelloReq}
      /\ Asks(Frame.body) =>
           OnlyAsked' /\ (Own => Recent(Frame.seq) /\ (Frame.seq = host.seq => toDev' = <<>>))
  BY <1>1, <1>2, PopFlight
<1>4. Frame.body \in Fitting \union {Garbled} /\ ToolOK(host)
  BY <1>1, ArrivesAs DEF PairInv
<1>5. OnlyAsked => AsksCmd(cmd) \/ cmd = "FRAME_ERR"
  BY <1>3, <1>4, AskedIs, RequestIs DEF Asks, AsksCmd
<1>6. AsksCmd(cmd) => Asks(Frame.body)
  <2>1. AsksCmd(cmd) => Frame.body \in Fitting /\ cmd = Frame.body.cmd
    BY <1>4, AskedIs, RequestIs
  <2>2. CASE Opening
    BY <1>4, <2>1, <2>2, AskedIs, RequestIs DEF Opening, AsksCmd, Asks
  <2>3. CASE ~Opening
    BY <1>3, <1>4, <2>1, <2>3, AskedIs, RequestIs DEF Opening, AsksCmd
  <2> QED BY <2>2, <2>3
<1> HIDE DEF cmd
<1>7. Answer(cmd, Frame.seq, status, value)
  BY DEF cmd
<1>8. AnsweredOK'
  BY <1>1, <1>3, <1>5, <1>6, <1>7, AnswerFlight
<1>9. ServingOK'
  BY DEF ServingOK
<1> QED BY <1>3, <1>8, <1>9 DEF FlightOK

\* A request that is handed to an operation of the flash.
LEMMA LaterFlight ==
  ASSUME PairInv, FlightOK, NEW cmd \in {"ERASE", "WRITE", "COMMIT"}, Serve(cmd), AnswerLater,
         NEW q, q = Frame.body, Doing(q)'
  PROVE  FlightOK'
<1>1. toDev # <<>> /\ toDev' = Tail(toDev) /\ host' = host /\ Frame.body.cmd = cmd /\ pc = "idle"
      /\ serving' = Frame.seq /\ toHost' = toHost /\ Asked' = Asked /\ FramesOK /\ ToolOK(host)
  BY DEF Serve, AnswerLater, Asked, Idle, PairInv
<1>2. toDev' # toDev
  BY <1>1, SeqTypes, TailIsShorter
<1>3. /\ SentOK' /\ (OnlyAsked => OnlyAsked' /\ (Asks(Frame.body) \/ Frame.body = Garbled))
      /\ ~Opening => Asks(Frame.body) \/ Frame.body \in {Garbled, HelloReq}
      /\ Asks(Frame.body) =>
           OnlyAsked' /\ (Own => Recent(Frame.seq) /\ (Frame.seq = host.seq => toDev' = <<>>))
  BY <1>1, <1>2, PopFlight
<1>4. Frame.body # Garbled /\ Frame.body # HelloReq
  BY <1>1, RequestIs
<1>5. Asks(Frame.body) => ~Opening
  BY <1>1, <1>4, AskedIs DEF Asks
<1>6. /\ Opening' = Opening /\ Own' = Own /\ host'.todo = host.todo
      /\ host'.seq = host.seq /\ host'.att = host.att
  BY <1>1 DEF Opening, Own, AsksCmd
<1>7. ServingOK'
  <2> SUFFICES ASSUME Own
               PROVE  /\ OnlyAsked' /\ host.todo # <<>> /\ Doing(Asked)'
                      /\ Recent(Frame.seq) /\ (Frame.seq = host.seq => toDev' = <<>>)
    BY <1>1, <1>6 DEF ServingOK, Recent
  <2>1. Asks(Frame.body)
    <3>1. CASE Opening
      <4>1. OnlyAsked
        BY <3>1 DEF Own, FlightOK, SentOK
      <4> QED BY <1>3, <1>4, <1>5, <3>1, <4>1
    <3> QED BY <1>3, <1>4, <3>1
  <2>2. host.todo # <<>> /\ Asked' = q
    BY <1>1, <2>1 DEF Asks
  <2> QED BY <1>3, <2>1, <2>2 DEF Doing
<1>8. ASSUME NEW i \in 1..Len(toHost), AsksCmd(toHost[i].cmd)
      PROVE  /\ OnlyAsked' /\ ~Opening
             /\ \A j \in 1..Len(toHost) : i < j => AsksCmd(toHost[j].cmd) \/ toHost[j].cmd = "FRAME_ERR"
             /\ Own => Recent(toHost[i].seq) /\ toHost[i].seq # host.seq
  BY <1>1, <1>3, <1>4, <1>5, <1>8 DEF FlightOK, AnsweredOK
<1>9. AnsweredOK'
  BY <1>1, <1>6, <1>8 DEF AnsweredOK, AsksCmd, Recent
<1> QED BY <1>3, <1>7, <1>9 DEF FlightOK

\* The operations of a request that the range tests let through.
LEMMA ServeFlight ==
  ASSUME PairInv, FlightOK, ServeErase \/ ServeWrite \/ ServeCommit
  PROVE  FlightOK'
<1>0. ASSUME NEW cmd \in {"ERASE", "WRITE", "COMMIT"}, Serve(cmd), NEW status, AnswerNow(status, 0)
      PROVE  FlightOK'
  <2>1. /\ toDev # <<>> /\ toDev' = Tail(toDev) /\ host' = host /\ pc = "idle" /\ pc' = "idle"
        /\ Frame.body.cmd # "GARBLED" /\ Answer(Frame.body.cmd, Frame.seq, status, 0)
    BY <1>0 DEF Serve, Idle, AnswerNow, vars
  <2> QED BY <2>1, NowFlight
<1>1. PICK q : q = Frame.body
  OBVIOUS
<1>2. CASE ServeErase
  <2>1. CASE WriteRangeOk(q.slot, q.at, q.n)
    <3>1. Serve("ERASE") /\ AnswerLater /\ Erase(q.slot, q.at, q.at + q.n)
      BY <1>1, <1>2, <2>1 DEF ServeErase
    <3>2. Doing(q)'
      BY <1>1, <3>1 DEF Erase, BeginMutation, Serve, Doing
    <3> QED BY <1>1, <3>1, <3>2, LaterFlight
  <2>2. CASE ~WriteRangeOk(q.slot, q.at, q.n)
    <3>1. Serve("ERASE") /\ AnswerNow("E_ADDR", 0)
      BY <1>1, <1>2, <2>2 DEF ServeErase
    <3> QED BY <1>0, <3>1
  <2> QED BY <2>1, <2>2
<1>3. CASE ServeWrite
  <2>1. CASE WriteRangeOk(q.slot, q.at, Len(q.data)) /\ Covers(s.bitmap, q.at, Len(q.data))
    <3>1. Serve("WRITE") /\ AnswerLater /\ Write(q.slot, q.at, q.data)
      BY <1>1, <1>3, <2>1 DEF ServeWrite
    <3>2. Doing(q)'
      BY <1>1, <3>1 DEF Write, BeginMutation, Serve, Doing
    <3> QED BY <1>1, <3>1, <3>2, LaterFlight
  <2>2. CASE ~(WriteRangeOk(q.slot, q.at, Len(q.data)) /\ Covers(s.bitmap, q.at, Len(q.data)))
    <3>1. Serve("WRITE") /\ \E status \in {"E_ADDR", "E_NOT_ERASED"} : AnswerNow(status, 0)
      BY <1>1, <1>3, <2>2 DEF ServeWrite
    <3> QED BY <1>0, <3>1
  <2> QED BY <2>1, <2>2
<1>4. CASE ServeCommit
  <2>1. CASE CommitAnswer(q.len, q.crc) = "GO"
    <3>1. Serve("COMMIT") /\ AnswerLater /\ Commit(q.len, q.crc)
      BY <1>1, <1>4, <2>1 DEF ServeCommit
    <3>2. Doing(q)'
      BY <1>1, <3>1 DEF Commit, Serve, Doing, Sealed
    <3> QED BY <1>1, <3>1, <3>2, LaterFlight
  <2>2. CASE CommitAnswer(q.len, q.crc) # "GO"
    <3>1. Serve("COMMIT") /\ \E status : AnswerNow(status, 0)
      BY <1>1, <1>4, <2>2 DEF ServeCommit
    <3> QED BY <1>0, <3>1
  <2> QED BY <2>1, <2>2
<1> QED BY <1>2, <1>3, <1>4

\* The next operation of the request, or its answer.
LEMMA FlashFlight ==
  ASSUME PairInv, FlightOK, FlashDone \/ FlashFails
  PROVE  FlightOK'
<1>1. host' = host /\ toDev' = toDev /\ serving' = serving /\ pc # "idle" /\ IInv /\ FramesOK
      /\ req.cmd \in {"ERASE", "WRITE", "COMMIT"}
  BY DEF FlashDone, FlashFails, Disarm, EraseBlock, Program, RecErase, RecProgram, MutationFails,
         RecStoreFails, PairInv, IInv, PcOK
<1>2. /\ Asked' = Asked /\ Opening' = Opening /\ Own' = Own /\ OnlyAsked' = OnlyAsked
      /\ \A x : Asks(x)' = Asks(x) /\ AsksCmd(x)' = AsksCmd(x) /\ Recent(x)' = Recent(x)
  BY <1>1 DEF Asked, Opening, Own, OnlyAsked, Asks, AsksCmd, Recent
<1>3. Own => /\ OnlyAsked /\ host.todo # <<>> /\ Doing(Asked)
             /\ Recent(serving) /\ (serving = host.seq => toDev = <<>>)
  BY <1>1 DEF FlightOK, ServingOK
<1>4. SentOK'
  BY <1>1, <1>2 DEF FlightOK, SentOK
<1>5. AsksCmd(req.cmd) => ~Opening
  BY <1>1 DEF Opening, AsksCmd
<1>6. ~Opening => Own /\ AsksCmd(req.cmd)
  BY <1>3 DEF Own, AsksCmd, Doing
<1>7. CASE pc' = "idle"
  <2>1. \E status : Answer(req.cmd, serving, status, 0)
    BY <1>7 DEF FlashDone, FlashFails
  <2>2. AsksCmd(req.cmd) => OnlyAsked' /\ (Own => Recent(serving) /\ (serving = host.seq => toDev' = <<>>))
    BY <1>1, <1>2, <1>3, <1>5, <1>6
  <2>3. AnsweredOK'
    BY <1>1, <1>2, <1>6, <1>7, <2>1, <2>2, AnswerFlight
  <2> QED BY <1>4, <1>7, <2>3 DEF FlightOK, ServingOK
<1>8. CASE pc' # "idle"
  <2>1. FlashDone /\ toHost' = toHost
    BY <1>8 DEF FlashDone, FlashFails, MutationFails, RecStoreFails, Return
  <2>2. \A i \in 1..Len(toHost) : AsksCmd(toHost[i].cmd) =>
          /\ OnlyAsked /\ ~Opening
          /\ \A j \in 1..Len(toHost) : i < j => AsksCmd(toHost[j].cmd) \/ toHost[j].cmd = "FRAME_ERR"
          /\ Own => Recent(toHost[i].seq) /\ toHost[i].seq # host.seq
    BY <1>1 DEF FlightOK, AnsweredOK
  <2>3. AnsweredOK'
    BY <1>1, <1>2, <2>1, <2>2 DEF AnsweredOK, AsksCmd, Recent
  <2>4. ServingOK' <=> (Own => Doing(Asked)')
    BY <1>1, <1>2, <1>3, <1>8 DEF ServingOK
  <2>5. CASE Disarm \/ RecErase
    BY <1>1, <1>2, <1>3, <1>4, <2>3, <2>4, <2>5 DEF Disarm, RecErase, FlightOK, Doing
  <2>6. CASE EraseBlock
    <3>1. req.cmd = "ERASE" /\ req' = [req EXCEPT !.at = @ + BlockSize]
      BY <1>1, <1>8, <2>6 DEF EraseBlock, Return, IInv, PcOK
    <3>2. req'.cmd = "ERASE"
      BY <1>1, <2>6, <3>1 DEF IInv, TypeOK, Requests, NoReq
    <3> QED BY <1>2, <1>3, <1>4, <2>3, <2>4, <3>1, <3>2 DEF FlightOK, Doing
  <2>7. CASE Program \/ RecProgram
    BY <1>8, <2>7 DEF Program, RecProgram, Return
  <2> QED BY <2>1, <2>5, <2>6, <2>7 DEF FlashDone
<1> QED BY <1>7, <1>8

\* Every step of the device.
LEMMA DeviceFlight ==
  ASSUME PairInv, FlightOK, Device
  PROVE  FlightOK'
<1>1. ASSUME NEW cmd, Serve(cmd), pc' = pc, NEW status, NEW value,
             Answer(IF cmd = "GARBLED" THEN "FRAME_ERR" ELSE cmd, Frame.seq, status, value)
      PROVE  FlightOK'
  <2>1. /\ toDev # <<>> /\ toDev' = Tail(toDev) /\ host' = host /\ Frame.body.cmd = cmd
        /\ pc = "idle" /\ pc' = "idle"
    BY <1>1 DEF Serve, Idle
  <2> QED BY <1>1, <2>1, NowFlight
<1>2. CASE ServeGarbled
  <2>1. Serve("GARBLED") /\ Answer("FRAME_ERR", Frame.seq, "E_CRC", 0) /\ pc' = pc
    BY <1>2 DEF ServeGarbled, vars
  <2> QED BY <1>1, <2>1
<1>3. CASE ServeHello
  <2>1. Serve("HELLO") /\ pc' = pc /\ \E value : Answer("HELLO", Frame.seq, "OK", value)
    BY <1>3 DEF ServeHello, Hello
  <2> QED BY <1>1, <2>1
<1>4. CASE ServeUnopened
  <2>1. PICK cmd \in {"ERASE", "WRITE", "COMMIT", "CRC", "BOOT"} : Serve(cmd)
    BY <1>4 DEF ServeUnopened
  <2>2. pc' = pc /\ Answer(cmd, Frame.seq, "E_STATE", 0) /\ cmd # "GARBLED"
    BY <1>4, <2>1 DEF ServeUnopened, AnswerNow, Serve, vars
  <2> QED BY <1>1, <2>1, <2>2
<1>5. CASE ServeErase \/ ServeWrite \/ ServeCommit
  BY <1>5, ServeFlight
<1>6. CASE ServeCrc
  <2>1. Serve("CRC") /\ pc' = pc /\ \E value : Answer("CRC", Frame.seq, "OK", value)
    BY <1>6 DEF ServeCrc, AnswerNow, Serve, vars
  <2> QED BY <1>1, <2>1
<1>7. CASE ServeBoot
  <2>1. /\ toDev # <<>> /\ host' = host /\ Frame.body.cmd = "BOOT" /\ pc = "idle" /\ pc' = "idle"
        /\ toDev' \in {Tail(toDev), <<>>}
        /\ \E status : Answer("BOOT", Frame.seq, status, 0)
    BY <1>7 DEF ServeBoot, Idle, BootStay, BootApp, Reset, ClearRam, vars
  <2> QED BY <2>1, NowFlight
<1>8. CASE FlashDone \/ FlashFails
  BY <1>8, FlashFlight
<1>9. CASE Elsewhere \/ DevicePowerCut
  <2>1. host' = host /\ toDev' = <<>> /\ toHost' = toHost /\ pc' = "idle"
    BY <1>9 DEF Elsewhere, DevicePowerCut, Decide, CoreInit, IdleBoot, AppResets, PowerCut, Reset,
          ClearRam, PairInv, IInv, RamOK
  <2>2. OnlyAsked'
    BY <2>1 DEF OnlyAsked
  <2>3. SentOK'
    BY <2>1, <2>2 DEF FlightOK, SentOK
  <2>4. AnsweredOK'
    BY <2>1, <2>2 DEF FlightOK, AnsweredOK, AsksCmd, Opening, Own, Recent, Asked
  <2> QED BY <2>1, <2>3, <2>4 DEF FlightOK, ServingOK
<1> QED BY <1>2, <1>3, <1>4, <1>5, <1>6, <1>7, <1>8, <1>9 DEF Device

\* The invariant of the frames in flight.
LEMMA StepFlight ==
  ASSUME PairInv, PairInv', FlightOK, [UpdateNext]_allVars, [OrderlyStart]_allVars
  PROVE  FlightOK'
<1>1. CASE UNCHANGED allVars
  BY <1>1 DEF allVars, link, vars, FlightOK, SentOK, ServingOK, AnsweredOK, Asked, Doing, OnlyAsked,
              Asks, AsksCmd, Opening, Own, Recent
<1>2. CASE Client /\ OrderlyStart
  BY <1>2, ToolFlight DEF Client
<1>3. CASE Device
  BY <1>3, DeviceFlight
<1> QED BY <1>1, <1>2, <1>3 DEF UpdateNext

-----------------------------------------------------------------------------
(* What an OK in flight vouches for *)

OkAnswer(cmd) == \E i \in 1..Len(toHost) : toHost[i].cmd = cmd /\ toHost[i].status = "OK"

\* The words of a WRITE are in flash.
InFlash(q) == \A j \in 1..Len(q.data) : img[q.slot][q.at + j] = q.data[j]

WrittenOK == host.todo # <<>> /\ Asked.cmd = "WRITE" /\ OkAnswer("WRITE") => InFlash(Asked)

\* Once its erases are over a flash has in flash what it need not write any more.
AckedOK ==
  Flashes(host.flow) /\ host.slot # NoSlot /\ (\A q \in Members(host.todo) : q.cmd # "ERASE") =>
    \A w \in 1..Len(BuildOf(host)) :
      WriteOf(host.todo, w) \/ img[host.slot][w] = BuildOf(host)[w]

DataOK == WrittenOK /\ AckedOK

\* The build starts at the next reset; and while this session lasts a repeated
\* COMMIT of it is answered without touching flash.
Installed ==
  /\ pc = "idle"
  /\ s.open => rec_state = "FRESH" /\ committed = [len |-> Len(Build), crc |-> Build]
  /\ ImageOf(BootSelect(img, rec)) = Build

CommittedOK ==
  /\ host.todo # <<>> /\ Asked.cmd = "COMMIT" /\ OkAnswer("COMMIT") => Installed
  /\ host.committed =>
       /\ Installed /\ OnlyAsked /\ host.slot # NoSlot
       /\ \A q \in Members(host.todo) : q.cmd \in {"CRC", "BOOT"}

-----------------------------------------------------------------------------
(* How flash moves *)

\* Image words change only while an erase or a program is pending, and then to
\* what that operation may leave.
LEMMA ImageMoves ==
  ASSUME IInv, [Next]_vars
  PROVE  /\ pc \notin {"erase", "program"} => img' = img
         /\ img' = img \/ img' \in ImgResidues
<1>1. CASE Decide \/ Hello \/ BootApp \/ BootStay \/ IdleBoot
  BY <1>1 DEF Decide, CoreInit, Hello, BootApp, BootStay, IdleBoot, Reset, flash
<1>2. ASSUME NEW slot \in Slots, NEW lo \in Blocks, NEW n \in 1..SlotWords, Erase(slot, lo, lo + n)
      PROVE  img' = img
  BY <1>2 DEF Erase, flash
<1>3. ASSUME NEW slot \in Slots, NEW at \in 0..SlotWords - 1, NEW data \in Chunk, Write(slot, at, data)
      PROVE  img' = img
  BY <1>3 DEF Write, flash
<1>4. ASSUME NEW len \in 1..SlotWords, NEW crc \in [1..len -> Word], Commit(len, crc)
      PROVE  img' = img
  BY <1>4 DEF Commit, flash
<1>5. CASE EraseBlock
  BY <1>5, EraseIsResidue DEF EraseBlock
<1>6. CASE Program
  BY <1>6, ProgramIsResidue DEF Program
<1>7. CASE MutationFails
  BY <1>7 DEF MutationFails, FlashChanges, ImgResidues
<1>8. CASE PowerCut
  BY <1>8 DEF PowerCut, Reset, ImgResidues
<1>9. CASE Disarm \/ RecErase \/ RecProgram \/ RecStoreFails
  BY <1>9 DEF Disarm, RecErase, RecProgram, RecStoreFails, FlashChanges
<1>10. CASE (\E magic \in BOOLEAN : AppResets(magic)) \/ UNCHANGED vars
  BY <1>10 DEF AppResets, Reset, vars, flash
<1> QED BY Actions, <1>1, <1>2, <1>3, <1>4, <1>5, <1>6, <1>7, <1>8, <1>9, <1>10

\* A program, complete or not, keeps to its own words, and to those that
\* already are what it writes it does nothing.
LEMMA ProgramMoves ==
  ASSUME IInv, pc = "program", img' \in ImgResidues, NEW x \in Slots, NEW w \in 1..SlotWords
  PROVE  /\ x # req.slot \/ w \notin req.at + 1..req.at + Len(req.data) => img'[x][w] = img[x][w]
         /\ x = req.slot /\ w \in req.at + 1..req.at + Len(req.data) /\ img[x][w] = req.data[w - req.at]
              => img'[x][w] = img[x][w]
<1>1. req.slot \in Slots /\ img \in [Slots -> Image] /\ img[x] \in Image
  BY DEF IInv, PcOK, TypeOK
<1>2. PICK im \in ProgramResidue(img[req.slot], req.at, req.data) : img' = [img EXCEPT ![req.slot] = im]
  BY DEF ImgResidues
<1>3. CASE x # req.slot
  BY <1>1, <1>2, <1>3
<1>4. CASE x = req.slot
  <2>1. img'[x] = im /\ DOMAIN img[x] = 1..SlotWords
    BY <1>1, <1>2, <1>4 DEF Image
  <2>2. img[x][w] \subseteq im[w] /\ im[w] \subseteq ProgramWords(img[x], req.at, req.data)[w]
    BY <1>2, <1>4, <2>1 DEF ProgramResidue
  <2>3. ProgramWords(img[x], req.at, req.data)[w] =
          IF w \in req.at + 1..req.at + Len(req.data) THEN img[x][w] \union req.data[w - req.at]
          ELSE img[x][w]
    BY <2>1 DEF ProgramWords
  <2> QED BY <1>4, <2>1, <2>2, <2>3
<1> QED BY <1>3, <1>4

-----------------------------------------------------------------------------
(* The device keeps it *)

\* What a flow may have asked, with the slot and the build it is for.
LEMMA AskedFacts ==
  ASSUME PairInv, host.todo # <<>>
  PROVE  /\ Asked \in Fitting /\ Asked \in Members(host.todo)
         /\ host.slot = NoSlot => Asked = HelloReq
         /\ host.slot # NoSlot =>
              /\ host.slot \in Slots /\ host.version \in 1..MaxRuns
              /\ Build = BuildOf(host) /\ Build \in Seq(Word) /\ Len(Build) \in 1..SlotWords
              /\ Asked.cmd = "WRITE" => PartOf(Asked, Build, host.slot)
              /\ Asked.cmd = "COMMIT" => Asked = CommitReq(Build)
<1>1. ToolOK(host) /\ DeliveryOK(host) /\ host \in Hosts /\ host.todo \in Seq(Fitting)
  BY DEF PairInv, ToolOK, Hosts
<1>2. Asked \in Fitting /\ Asked \in Members(host.todo)
  BY <1>1, TailKeeps DEF Asked
<1>3. host.slot = NoSlot => Asked = HelloReq
  BY <1>1 DEF ToolOK, Asked
<1>4. ASSUME host.slot # NoSlot
      PROVE  /\ host.slot \in Slots /\ host.version \in 1..MaxRuns
             /\ Build = BuildOf(host) /\ Build \in Seq(Word) /\ Len(Build) \in 1..SlotWords
  <2>1. host.slot \in Slots /\ host.version \in 1..MaxRuns /\ Build = BuildOf(host)
    BY <1>1, <1>4 DEF DeliveryOK, Hosts, Build, BuildOf
  <2> QED BY <2>1, ClientAssumption DEF ClientAssumption, BuildOf
<1>5. host.slot # NoSlot => Delivers(host.todo, BuildOf(host), host.slot)
  BY <1>1 DEF DeliveryOK
<1> QED BY <1>2, <1>3, <1>4, <1>5 DEF Delivers

\* While the device works after HELLO, it works on what is asked.
LEMMA WorksOnAsked ==
  ASSUME PairInv, FlightOK, host.slot # NoSlot, pc # "idle"
  PROVE  host.todo # <<>> /\ Doing(Asked)
<1>1. ~Opening
  BY AskedIs DEF PairInv
<1> QED BY <1>1 DEF Own, FlightOK, ServingOK

\* Only an answer that says OK adds to what is vouched for.
LEMMA AnswerOk ==
  ASSUME FramesOK, NEW c, NEW seq, NEW status, NEW value, Answer(c, seq, status, value),
         NEW cmd, OkAnswer(cmd)'
  PROVE  OkAnswer(cmd) \/ (c = cmd /\ status = "OK")
<1> DEFINE f == [cmd |-> c, seq |-> seq, status |-> status, value |-> value]
           n == Len(toHost)
<1>1. f.cmd = c /\ f.status = status
  OBVIOUS
<1>2. n \in Nat /\ Len(Append(toHost, f)) = n + 1 /\ Append(toHost, f)[n + 1] = f
      /\ \A i \in 1..n : Append(toHost, f)[i] = toHost[i]
  BY SeqTypes, QueueItems
<1> HIDE DEF f
<1>3. CASE toHost' = toHost
  BY <1>3 DEF OkAnswer
<1>4. CASE toHost' = Append(toHost, f)
  <2>1. PICK i \in 1..Len(toHost') : toHost'[i].cmd = cmd /\ toHost'[i].status = "OK"
    BY DEF OkAnswer
  <2>2. i \in 1..n \/ i = n + 1
    BY <1>2, <1>4, <2>1
  <2>3. CASE i \in 1..n
    BY <1>2, <1>4, <2>1, <2>3 DEF OkAnswer
  <2>4. CASE i = n + 1
    BY <1>1, <1>2, <1>4, <2>1, <2>4
  <2> QED BY <2>2, <2>3, <2>4
<1> QED BY <1>3, <1>4 DEF Answer, f

\* Which answers the device gives to a WRITE and to a COMMIT.
LEMMA NewOk ==
  ASSUME PairInv, FlightOK, Device, NEW cmd \in {"WRITE", "COMMIT"}, OkAnswer(cmd)', ~OkAnswer(cmd)
  PROVE  \/ /\ FlashDone /\ pc # "idle" /\ pc' = "idle" /\ req.cmd = cmd
            /\ cmd = "WRITE" => \A j \in 1..Len(req.data) : img'[req.slot][req.at + j] = req.data[j]
         \/ /\ cmd = "COMMIT" /\ Idle /\ s.open /\ UNCHANGED vars /\ toDev # <<>> /\ Frame.body.cmd = "COMMIT"
            /\ CommitAnswer(Frame.body.len, Frame.body.crc) = "OK"
<1>1. FramesOK /\ IInv
  BY DEF PairInv
<1>2. CASE ServeGarbled \/ ServeHello \/ ServeBoot
  BY <1>1, <1>2, AnswerOk DEF ServeGarbled, ServeHello, ServeBoot
<1>3. CASE ServeUnopened
  BY <1>1, <1>3, AnswerOk DEF ServeUnopened, AnswerNow
<1>4. CASE ServeErase \/ ServeWrite
  <2>1. AnswerLater \/ \E status \in {"E_ADDR", "E_NOT_ERASED"} : AnswerNow(status, 0)
    BY <1>4 DEF ServeErase, ServeWrite
  <2>2. CASE AnswerLater
    BY <2>2 DEF AnswerLater, OkAnswer
  <2>3. ASSUME NEW status \in {"E_ADDR", "E_NOT_ERASED"}, AnswerNow(status, 0) PROVE FALSE
    <3>1. Answer(Frame.body.cmd, Frame.seq, status, 0) /\ status # "OK"
      BY <2>3 DEF AnswerNow
    <3> QED BY <1>1, <3>1, AnswerOk
  <2> QED BY <2>1, <2>2, <2>3
<1>5. CASE ServeCommit
  <2>1. Serve("COMMIT") /\ s.open
    BY <1>5 DEF ServeCommit
  <2>2. CASE CommitAnswer(Frame.body.len, Frame.body.crc) = "GO"
    BY <1>5, <2>2 DEF ServeCommit, AnswerLater, OkAnswer
  <2>3. CASE CommitAnswer(Frame.body.len, Frame.body.crc) # "GO"
    <3>1. AnswerNow(CommitAnswer(Frame.body.len, Frame.body.crc), 0)
      BY <1>5, <2>3 DEF ServeCommit
    <3>2. Frame.body.cmd = cmd /\ CommitAnswer(Frame.body.len, Frame.body.crc) = "OK"
      BY <1>1, <3>1, AnswerOk DEF AnswerNow
    <3> QED BY <2>1, <3>1, <3>2 DEF AnswerNow, Serve
  <2> QED BY <2>2, <2>3
<1>6. CASE ServeCrc
  <2>1. Serve("CRC") /\ \E value : AnswerNow("OK", value)
    BY <1>6 DEF ServeCrc
  <2> QED BY <1>1, <2>1, AnswerOk DEF Serve, AnswerNow
<1>7. CASE FlashDone
  <2>1. pc # "idle"
    BY <1>7 DEF FlashDone, Disarm, EraseBlock, Program, RecErase, RecProgram
  <2>2. pc' = "idle"
    BY <1>7 DEF FlashDone, OkAnswer
  <2> DEFINE bad == req.cmd = "WRITE" /\ \E i \in 1..Len(req.data) : img'[req.slot][req.at + i] # req.data[i]
             status == IF bad THEN "E_FLASH" ELSE "OK"
  <2>3. Answer(req.cmd, serving, status, 0)
    BY <1>7, <2>2 DEF FlashDone
  <2> HIDE DEF status
  <2>4. req.cmd = cmd /\ status = "OK"
    BY <1>1, <2>3, AnswerOk
  <2>5. ~bad
    BY <2>4 DEF status
  <2> QED BY <1>7, <2>1, <2>2, <2>4, <2>5
<1>8. CASE FlashFails
  BY <1>1, <1>8, AnswerOk DEF FlashFails
<1>9. CASE Elsewhere \/ DevicePowerCut
  BY <1>9 DEF Elsewhere, DevicePowerCut, OkAnswer
<1> QED BY <1>2, <1>3, <1>4, <1>5, <1>6, <1>7, <1>8, <1>9 DEF Device

\* What a step of the device may do to the words of a build.
LEMMA WordsKept ==
  ASSUME PairInv, FlightOK, [Next]_vars, host.slot # NoSlot, NEW w \in 1..SlotWords,
         \A q \in Members(host.todo) : q.cmd # "ERASE", ~WriteOf(host.todo, w)
  PROVE  img'[host.slot][w] = img[host.slot][w]
<1>1. IInv /\ host.slot \in Slots
  BY DEF PairInv, ToolOK, Hosts
<1>2. CASE img' = img
  BY <1>2
<1>3. CASE pc \in {"erase", "program"} /\ img' \in ImgResidues
  <2>1. host.todo # <<>> /\ Doing(Asked)
    BY <1>3, WorksOnAsked
  <2>2. Asked \in Members(host.todo) /\ Asked.cmd # "ERASE" /\ Doing(Asked)
    BY <1>3, <2>1, AskedFacts
  <2>3. pc = "program" /\ req.cmd = "WRITE" /\ Asked.cmd = "WRITE"
    BY <1>1, <1>3, <2>2 DEF IInv, PcOK, Doing
  <2>4. req.at = Asked.at /\ req.data = Asked.data
    BY <2>2, <2>3 DEF Doing
  <2>5. w \notin req.at + 1..req.at + Len(req.data)
    BY <2>2, <2>3, <2>4 DEF WriteOf
  <2> QED BY <1>1, <1>3, <2>3, <2>5, ProgramMoves
<1> QED BY <1>1, <1>2, <1>3, ImageMoves

\* A WRITE that is in flash stays there while it is asked.
LEMMA WriteKept ==
  ASSUME PairInv, FlightOK, [Next]_vars, host.todo # <<>>, Asked.cmd = "WRITE", InFlash(Asked)
  PROVE  \A j \in 1..Len(Asked.data) : img'[Asked.slot][Asked.at + j] = Asked.data[j]
<1> DEFINE at == Asked.at
           n  == Len(Asked.data)
<1>1. IInv /\ host.slot # NoSlot /\ Asked \in Fitting
  BY AskedFacts DEF PairInv, HelloReq
<1>2. /\ Asked.slot \in Slots /\ at \in Nat /\ n \in Nat
      /\ PartOf(Asked, Build, host.slot) /\ Len(Build) \in 1..SlotWords
  <2>1. Asked \in [cmd : {"WRITE"}, slot : Slots, at : Nat, data : Seq(Word) \ {<<>>}]
    BY <1>1 DEF Fitting, HostRequests, HelloReq
  <2>2. Asked.slot \in Slots /\ Asked.at \in Nat /\ Asked.data \in Seq(Word)
    BY <2>1
  <2>3. Len(Asked.data) \in Nat
    BY <2>2
  <2> QED BY <1>1, <2>2, <2>3, AskedFacts
<1>3. at + n <= Len(Build)
  BY <1>2 DEF PartOf
<1> HIDE DEF at, n
<1>4. ASSUME NEW j \in 1..n
      PROVE  at + j \in 1..SlotWords /\ (at + j) - at = j /\ at + j \in at + 1..at + n
  BY <1>2, <1>3, DecisionAssumption DEF DecisionAssumption
<1>5. CASE img' = img
  BY <1>5 DEF InFlash
<1>6. CASE pc \in {"erase", "program"} /\ img' \in ImgResidues
  <2>1. Doing(Asked)
    BY <1>1, <1>6, WorksOnAsked
  <2>2. pc = "program" /\ req.cmd = "WRITE"
    BY <1>1, <1>6, <2>1 DEF IInv, PcOK, Doing
  <2>3. req.slot = Asked.slot /\ req.at = at /\ req.data = Asked.data /\ Len(req.data) = n
    BY <2>1, <2>2 DEF Doing, at, n
  <2>4. ASSUME NEW j \in 1..n PROVE img'[Asked.slot][at + j] = Asked.data[j]
    <3>1. img[Asked.slot][at + j] = Asked.data[j]
      BY <2>4 DEF InFlash, at, n
    <3>2. img'[Asked.slot][at + j] = img[Asked.slot][at + j]
      BY <1>1, <1>2, <1>4, <1>6, <2>2, <2>3, <2>4, <3>1, ProgramMoves
    <3> QED BY <3>1, <3>2
  <2> QED BY <2>4 DEF at, n
<1> QED BY <1>1, <1>5, <1>6, ImageMoves

\* Every step of the device.
LEMMA DeviceData ==
  ASSUME PairInv, FlightOK, DataOK, Device
  PROVE  DataOK'
<1>1. host' = host /\ [Next]_vars
  <2>1. host' = host
    BY DEF Device, ServeGarbled, ServeHello, ServeUnopened, ServeErase, ServeWrite, ServeCommit,
          ServeCrc, ServeBoot, FlashDone, FlashFails, Elsewhere, DevicePowerCut, Serve
  <2>2. [Next]_vars
    BY Simulates DEF PairInv, UpdateNext
  <2> QED BY <2>1, <2>2
<1>2. Asked' = Asked /\ BuildOf(host)' = BuildOf(host)
  BY <1>1 DEF Asked, BuildOf
<1>3. ASSUME host.todo # <<>>, Asked.cmd = "WRITE", OkAnswer("WRITE")'
      PROVE  \A j \in 1..Len(Asked.data) : img'[Asked.slot][Asked.at + j] = Asked.data[j]
  <2>1. CASE OkAnswer("WRITE")
    BY <1>1, <1>3, <2>1, WriteKept DEF DataOK, WrittenOK
  <2>2. CASE ~OkAnswer("WRITE")
    <3>1. /\ pc # "idle" /\ req.cmd = "WRITE"
          /\ \A j \in 1..Len(req.data) : img'[req.slot][req.at + j] = req.data[j]
      BY <1>3, <2>2, NewOk
    <3>2. req.slot = Asked.slot /\ req.at = Asked.at /\ req.data = Asked.data
      BY <1>3, <3>1, AskedFacts, WorksOnAsked DEF HelloReq, Doing
    <3> QED BY <3>1, <3>2
  <2> QED BY <2>1, <2>2
<1>4. WrittenOK'
  BY <1>1, <1>2, <1>3 DEF WrittenOK, InFlash
<1>5. ASSUME Flashes(host.flow), host.slot # NoSlot, \A q \in Members(host.todo) : q.cmd # "ERASE",
             NEW w \in 1..Len(BuildOf(host)), ~WriteOf(host.todo, w)
      PROVE  img'[host.slot][w] = BuildOf(host)[w]
  <2>1. img[host.slot][w] = BuildOf(host)[w]
    BY <1>5 DEF DataOK, AckedOK
  <2>2. w \in 1..SlotWords
    <3>1. host.version \in 1..MaxRuns /\ host.slot \in Slots
      BY <1>5 DEF PairInv, ToolOK, DeliveryOK, Hosts
    <3>2. Len(BuildOf(host)) \in 1..SlotWords
      BY <3>1, ClientAssumption DEF ClientAssumption, BuildOf
    <3> QED BY <1>5, <3>2, DecisionAssumption DEF DecisionAssumption
  <2> QED BY <1>1, <1>5, <2>1, <2>2, WordsKept
<1>6. AckedOK'
  BY <1>1, <1>2, <1>5 DEF AckedOK
<1> QED BY <1>4, <1>6 DEF DataOK

-----------------------------------------------------------------------------
(* The tool keeps it *)

\* What Accepted does to the flow.
LEMMA Acceptance ==
  ASSUME PairInv, FlightOK, Accepted
  PROVE  /\ host.todo # <<>> /\ OkAnswer(Asked.cmd)
         /\ ~OkAnswer("WRITE")' /\ ~OkAnswer("COMMIT")' /\ (Asked.cmd # "HELLO" => toDev' = <<>>)
         /\ host'.flow = host.flow /\ host'.version = host.version
         /\ host'.committed = (host.committed \/ Asked.cmd = "COMMIT")
         /\ \/ host'.slot = host.slot /\ host'.todo = host.todo /\ Asked.cmd # "COMMIT"
            \/ host'.slot = host.slot /\ host'.todo = Tail(host.todo) /\ Asked.cmd # "HELLO"
            \/ Asked.cmd = "HELLO" /\ (Flashes(host.flow) => \A w \in 1..Len(BuildOf(host)') : WriteOf(host'.todo, w))
<1> DEFINE f == Head(toHost)
           next == Advance(Tail(host.todo))
<1>1. /\ Running /\ f \in Responses /\ f.cmd = Asked.cmd /\ f.status = "OK"
      /\ host \in Hosts /\ host.todo \in Seq(Fitting) /\ host.todo # <<>> /\ host.committed \in BOOLEAN
      /\ toHost \in Seq(Responses) /\ toHost # <<>> /\ f = toHost[1] /\ 1 \in 1..Len(toHost)
      /\ host.flow \in Flows /\ host.version \in 1..MaxRuns
  <2>1. /\ Running /\ toHost # <<>> /\ f.cmd = Asked.cmd /\ f.status = "OK" /\ ToolOK(host)
        /\ toHost \in Seq(Responses)
    BY SeqTypes DEF Accepted, Answers, Waiting, PairInv
  <2>2. f \in Responses /\ f = toHost[1] /\ 1 \in 1..Len(toHost)
    BY <2>1, Queues, QueueItems
  <2> QED BY <2>1, <2>2 DEF ToolOK, Hosts, Running
<1>2. OkAnswer(Asked.cmd)
  BY <1>1 DEF OkAnswer
<1>3. ~OkAnswer("WRITE")' /\ ~OkAnswer("COMMIT")' /\ (Asked.cmd # "HELLO" => toDev' = <<>>)
  <2>1. toHost' = Tail(toHost) /\ toDev' = toDev /\ f.seq = host.seq /\ AsksCmd(f.cmd) /\ FramesOK
    BY <1>1 DEF Accepted, Answers, AsksCmd, PairInv
  <2>2. CASE Own
    <3>1. toHost' = <<>> /\ toDev' = <<>>
      BY <1>1, <2>1, <2>2, AnswerIsLast
    <3> QED BY <3>1 DEF OkAnswer
  <2>3. CASE ~Own
    <3>1. Opening /\ f.cmd = "HELLO"
      BY <1>1, <2>3 DEF Own, Opening, AsksCmd
    <3>2. \A j \in 1..Len(toHost') : toHost'[j].cmd \in {"HELLO", "FRAME_ERR"}
      BY <1>1, <2>1, <3>1, OnlyHellosFollow
    <3> QED BY <1>1, <3>1, <3>2 DEF OkAnswer
  <2> QED BY <2>2, <2>3
<1>4. host' = CASE Asked.cmd = "HELLO" ->
                IF f.value.cap = 0 /\ NeedsWriteSlot(host.flow)
                THEN [host EXCEPT !.waiting = FALSE, !.result = "no_slot"]
                ELSE [Advance(Plan(host.flow, host.version, f.value)) EXCEPT !.slot = f.value.slot]
             [] Asked.cmd = "CRC" /\ f.value # Asked.crc ->
                [host EXCEPT !.waiting = FALSE, !.result = "mismatch"]
             [] Asked.cmd = "COMMIT" -> [next EXCEPT !.committed = TRUE]
             [] OTHER -> next
  BY DEF Accepted
<1>5. Asked.cmd = "HELLO" => f.value \in Infos
  BY <1>1 DEF Responses
<1>6. /\ next.flow = host.flow /\ next.version = host.version /\ next.slot = host.slot
      /\ next.todo = Tail(host.todo) /\ next.committed = host.committed
      /\ [next EXCEPT !.committed = TRUE].flow = host.flow
      /\ [next EXCEPT !.committed = TRUE].version = host.version
      /\ [next EXCEPT !.committed = TRUE].slot = host.slot
      /\ [next EXCEPT !.committed = TRUE].todo = Tail(host.todo)
      /\ [next EXCEPT !.committed = TRUE].committed = TRUE
  BY <1>1 DEF Advance, Hosts
<1> DEFINE opened == [Advance(Plan(host.flow, host.version, f.value)) EXCEPT !.slot = f.value.slot]
<1>7. /\ opened.flow = host.flow /\ opened.version = host.version /\ opened.slot = f.value.slot
      /\ opened.todo = Plan(host.flow, host.version, f.value) /\ opened.committed = host.committed
  BY <1>1 DEF Advance, Hosts
<1>8. \A r \in {"no_slot", "mismatch"} :
        LET h == [host EXCEPT !.waiting = FALSE, !.result = r]
        IN  /\ h.flow = host.flow /\ h.version = host.version /\ h.slot = host.slot
            /\ h.todo = host.todo /\ h.committed = host.committed
  BY <1>1 DEF Hosts
<1> HIDE DEF f, next, opened
<1>9. CASE Asked.cmd = "HELLO" /\ f.value.cap = 0 /\ NeedsWriteSlot(host.flow)
  <2>1. host' = [host EXCEPT !.waiting = FALSE, !.result = "no_slot"]
    BY <1>4, <1>9
  <2> QED BY <1>1, <1>2, <1>3, <1>8, <1>9, <2>1
<1>10. CASE Asked.cmd = "HELLO" /\ ~(f.value.cap = 0 /\ NeedsWriteSlot(host.flow))
  <2>1. host' = opened
    BY <1>4, <1>10 DEF opened
  <2>2. Flashes(host.flow) =>
          \A w \in 1..Len(Builds[host.version][f.value.slot]) :
            WriteOf(Plan(host.flow, host.version, f.value), w)
    BY <1>1, <1>5, <1>10, PlanFits
  <2>3. BuildOf(host)' = Builds[host.version][f.value.slot]
    BY <1>7, <2>1 DEF BuildOf
  <2> QED BY <1>1, <1>2, <1>3, <1>7, <1>10, <2>1, <2>2, <2>3
<1>11. CASE Asked.cmd = "CRC" /\ f.value # Asked.crc
  <2>1. host' = [host EXCEPT !.waiting = FALSE, !.result = "mismatch"]
    BY <1>4, <1>11
  <2> QED BY <1>1, <1>2, <1>3, <1>8, <1>11, <2>1
<1>12. CASE Asked.cmd = "COMMIT"
  <2>1. host' = [next EXCEPT !.committed = TRUE]
    BY <1>4, <1>12
  <2> QED BY <1>1, <1>2, <1>3, <1>6, <1>12, <2>1
<1>13. CASE /\ Asked.cmd # "HELLO" /\ Asked.cmd # "COMMIT"
            /\ ~(Asked.cmd = "CRC" /\ f.value # Asked.crc)
  <2>1. host' = next
    BY <1>4, <1>13
  <2> QED BY <1>1, <1>2, <1>3, <1>6, <1>13, <2>1
<1> QED BY <1>9, <1>10, <1>11, <1>12, <1>13

\* A request that is sent is the one that is asked.
LEMMA SentIsAsked ==
  ASSUME PairInv, Send, OnlyAsked
  PROVE  OnlyAsked'
<1>1. host'.todo = host.todo /\ host.todo # <<>> /\ toDev \in Seq(Frames)
  BY SeqTypes DEF Send, Hosts, PairInv, ToolOK, Running
<1>2. CASE toDev' = toDev
  BY <1>1, <1>2 DEF OnlyAsked, Asks, Asked
<1>3. ASSUME NEW body \in {Asked, Garbled}, toDev' = Append(toDev, [seq |-> NextSeq, body |-> body])
      PROVE  OnlyAsked'
  <2>1. /\ Len(toDev) \in Nat /\ Len(toDev') = Len(toDev) + 1 /\ toDev'[Len(toDev) + 1].body = body
        /\ \A k \in 1..Len(toDev) : toDev'[k] = toDev[k]
    BY <1>1, <1>3, QueueItems
  <2>2. \A k \in 1..Len(toDev') : k \in 1..Len(toDev) \/ k = Len(toDev) + 1
    BY <2>1
  <2>3. \A x : Asks(x)' = Asks(x)
    BY <1>1 DEF Asks, Asked
  <2> QED BY <1>1, <1>3, <2>1, <2>2, <2>3 DEF OnlyAsked, Asks
<1> QED BY <1>2, <1>3 DEF Send

\* What the other steps do.
LEMMA OtherToolSteps ==
  ASSUME PairInv, HostStep, ~Accepted
  PROVE  \/ /\ host'.flow = host.flow /\ host'.version = host.version /\ host'.slot = host.slot
            /\ host'.todo = host.todo /\ host'.committed = host.committed
            /\ (\A cmd : OkAnswer(cmd)' => OkAnswer(cmd)) /\ (OnlyAsked => OnlyAsked')
         \/ host'.slot = NoSlot /\ host'.committed = FALSE /\ toHost' = <<>>
<1>1. host \in Hosts /\ toHost \in Seq(Responses)
  BY SeqTypes DEF PairInv, ToolOK
<1>2. ASSUME toHost # <<>>, toHost' = Tail(toHost), NEW cmd, OkAnswer(cmd)' PROVE OkAnswer(cmd)
  <2>1. \A i \in 1..Len(toHost') : toHost'[i] = toHost[i + 1] /\ i + 1 \in 1..Len(toHost)
    BY <1>1, <1>2, QueueItems
  <2>2. PICK i \in 1..Len(toHost') : toHost'[i].cmd = cmd /\ toHost'[i].status = "OK"
    BY <1>2 DEF OkAnswer
  <2>3. toHost[i + 1].cmd = cmd /\ toHost[i + 1].status = "OK" /\ i + 1 \in 1..Len(toHost)
    BY <2>1, <2>2
  <2> QED BY <2>3 DEF OkAnswer
<1>3. CASE Send
  <2>1. /\ host'.flow = host.flow /\ host'.version = host.version /\ host'.slot = host.slot
        /\ host'.todo = host.todo /\ host'.committed = host.committed
        /\ \A cmd : OkAnswer(cmd)' => OkAnswer(cmd)
    BY <1>1, <1>3 DEF Send, Hosts, OkAnswer
  <2> QED BY <1>3, <2>1, SentIsAsked
<1>8. host'.todo = host.todo /\ toDev' = toDev => (OnlyAsked => OnlyAsked')
  BY DEF OnlyAsked, Asks, Asked
<1>4. CASE FrameError \/ Timeout
  <2>1. /\ host'.flow = host.flow /\ host'.version = host.version /\ host'.slot = host.slot
        /\ host'.todo = host.todo /\ host'.committed = host.committed
    BY <1>1, <1>4 DEF FrameError, Timeout, Retry, Hosts
  <2>2. toHost' = toHost \/ (toHost # <<>> /\ toHost' = Tail(toHost))
    BY <1>4 DEF FrameError, Timeout, link
  <2>3. \A cmd : OkAnswer(cmd)' => OkAnswer(cmd)
    BY <1>2, <2>2 DEF OkAnswer
  <2>4. toDev' = toDev
    BY <1>4 DEF FrameError, Timeout, link
  <2> QED BY <1>8, <2>1, <2>3, <2>4
<1>5. CASE DiscardStale
  BY <1>2, <1>5, <1>8 DEF DiscardStale
<1>6. CASE Refused
  <2>1. /\ host'.flow = host.flow /\ host'.version = host.version /\ host'.slot = host.slot
        /\ host'.todo = host.todo /\ host'.committed = host.committed
    BY <1>1, <1>6 DEF Refused, Hosts
  <2>2. toHost # <<>> /\ toHost' = Tail(toHost) /\ toDev' = toDev
    BY <1>6 DEF Refused
  <2> QED BY <1>2, <1>8, <2>1, <2>2
<1>7. ASSUME NEW flow \in Flows, StartRun(flow)
      PROVE  host'.slot = NoSlot /\ host'.committed = FALSE /\ toHost' = <<>>
  BY <1>7 DEF StartRun
<1> QED BY <1>3, <1>4, <1>5, <1>6, <1>7 DEF HostStep, ClientStep

\* An answered request leaves less to be written, and what is written.
LEMMA AcceptedData ==
  ASSUME PairInv, FlightOK, DataOK, Accepted, UNCHANGED vars
  PROVE  AckedOK'
<1>1. img' = img /\ host.todo # <<>> /\ OkAnswer(Asked.cmd)
      /\ host'.flow = host.flow /\ host'.version = host.version
  BY Acceptance DEF vars, flash
<1>2. CASE host'.slot = host.slot /\ host'.todo = host.todo
  BY <1>1, <1>2 DEF DataOK, AckedOK, BuildOf
<1>3. CASE Flashes(host.flow) => \A w \in 1..Len(BuildOf(host)') : WriteOf(host'.todo, w)
  BY <1>1, <1>3 DEF AckedOK
<1>4. CASE host'.slot = host.slot /\ host'.todo = Tail(host.todo) /\ Asked.cmd # "HELLO"
  <2>1. /\ Members(host.todo) = {Asked} \union Members(Tail(host.todo))
        /\ host.slot # NoSlot => Build = BuildOf(host) /\ (Asked.cmd = "WRITE" => PartOf(Asked, Build, host.slot))
    <3>1. host.todo \in Seq(Fitting)
      BY DEF PairInv, ToolOK, Hosts
    <3>2. host.slot # NoSlot => Build = BuildOf(host) /\ (Asked.cmd = "WRITE" => PartOf(Asked, Build, host.slot))
      BY <1>1, AskedFacts
    <3> QED BY <1>1, <3>1, <3>2, TailKeeps DEF Asked
  <2>2. SUFFICES ASSUME Flashes(host.flow), host.slot # NoSlot,
                        \A q \in Members(Tail(host.todo)) : q.cmd # "ERASE",
                        NEW w \in 1..Len(BuildOf(host)), ~WriteOf(Tail(host.todo), w)
                 PROVE  img[host.slot][w] = BuildOf(host)[w]
    BY <1>1, <1>4 DEF AckedOK, BuildOf
  <2>3. CASE Asked.cmd = "ERASE"
    <3>1. Asked \in Members(host.todo)
      BY <2>1
    <3>2. WriteOf(host.todo, w)
      BY <2>2, <2>3, <3>1 DEF PairInv, DeliveryOK
    <3> QED BY <2>1, <2>2, <2>3, <3>2 DEF WriteOf
  <2>4. CASE Asked.cmd # "ERASE" /\ ~WriteOf(host.todo, w)
    BY <2>1, <2>2, <2>4 DEF DataOK, AckedOK
  <2>5. CASE WriteOf(host.todo, w) /\ Asked.cmd # "ERASE"
    <3>1. Asked.cmd = "WRITE" /\ w \in Asked.at + 1..Asked.at + Len(Asked.data)
      BY <2>1, <2>2, <2>5 DEF WriteOf
    <3>2. InFlash(Asked) /\ PartOf(Asked, BuildOf(host), host.slot)
      BY <1>1, <2>1, <2>2, <3>1 DEF DataOK, WrittenOK
    <3>3. Asked.at \in Nat /\ Len(Asked.data) \in Nat
      <4>1. Asked \in Fitting
        BY <1>1, AskedFacts
      <4>2. Asked \in [cmd : {"WRITE"}, slot : Slots, at : Nat, data : Seq(Word) \ {<<>>}]
        BY <3>1, <4>1 DEF Fitting, HostRequests, HelloReq
      <4>3. Asked.at \in Nat /\ Asked.data \in Seq(Word)
        BY <4>2
      <4> QED BY <4>3
    <3>4. PICK j \in 1..Len(Asked.data) : Asked.at + j = w
      <4>1. w - Asked.at \in 1..Len(Asked.data) /\ Asked.at + (w - Asked.at) = w
        BY <3>1, <3>3
      <4> QED BY <4>1
    <3> QED BY <3>2, <3>4 DEF InFlash, PartOf
  <2> QED BY <2>3, <2>4, <2>5
<1> QED BY <1>2, <1>3, <1>4, Acceptance

\* Every step of the tool.
LEMMA ToolData ==
  ASSUME PairInv, FlightOK, DataOK, HostStep, UNCHANGED vars
  PROVE  DataOK'
<1>1. img' = img
  BY DEF vars, flash
<1>2. toHost' = <<>> => WrittenOK'
  BY DEF WrittenOK, OkAnswer
<1>3. CASE Accepted
  <2>1. ~OkAnswer("WRITE")'
    BY <1>3, Acceptance
  <2>2. WrittenOK'
    BY <2>1 DEF WrittenOK
  <2> QED BY <1>3, <2>2, AcceptedData DEF DataOK
<1>4. CASE /\ host'.flow = host.flow /\ host'.version = host.version /\ host'.slot = host.slot
           /\ host'.todo = host.todo /\ \A cmd : OkAnswer(cmd)' => OkAnswer(cmd)
  <2>1. Asked' = Asked /\ BuildOf(host)' = BuildOf(host)
    BY <1>4 DEF Asked, BuildOf
  <2>2. OkAnswer("WRITE")' => OkAnswer("WRITE")
    BY <1>4
  <2>3. WrittenOK'
    BY <1>1, <1>4, <2>1, <2>2 DEF DataOK, WrittenOK, InFlash
  <2>4. AckedOK'
    BY <1>1, <1>4, <2>1 DEF DataOK, AckedOK
  <2> QED BY <2>3, <2>4 DEF DataOK
<1>5. CASE host'.slot = NoSlot /\ toHost' = <<>>
  BY <1>2, <1>5 DEF DataOK, AckedOK
<1> QED BY <1>3, <1>4, <1>5, OtherToolSteps

\* What is acknowledged stays true.
LEMMA StepData ==
  ASSUME PairInv, FlightOK, DataOK, [UpdateNext]_allVars
  PROVE  DataOK'
<1>1. CASE UNCHANGED allVars
  BY <1>1 DEF allVars, link, vars, flash, DataOK, WrittenOK, AckedOK, OkAnswer, InFlash, Asked, BuildOf
<1>2. CASE Client
  BY <1>2, ToolData DEF Client
<1>3. CASE Device
  BY <1>3, DeviceData
<1> QED BY <1>1, <1>2, <1>3 DEF UpdateNext

-----------------------------------------------------------------------------
(* What was reported as committed is installed *)

\* The device takes one frame at most, or none is left.
LEMMA DevicePops ==
  ASSUME PairInv, FlightOK, Device
  PROVE  /\ host' = host
         /\ toDev # <<>> =>
              /\ ~Opening => Asks(Frame.body) \/ Frame.body \in {Garbled, HelloReq}
              /\ OnlyAsked => Asks(Frame.body) \/ Frame.body = Garbled
         /\ OnlyAsked => OnlyAsked'
<1>1. host' = host /\ (toDev' = toDev \/ toDev' = <<>> \/ (toDev # <<>> /\ toDev' = Tail(toDev)))
  BY DEF Device, ServeGarbled, ServeHello, ServeUnopened, ServeErase, ServeWrite, ServeCommit,
        ServeCrc, ServeBoot, FlashDone, FlashFails, Elsewhere, DevicePowerCut, Serve
<1>2. CASE toDev # <<>>
  <2>1. toDev' \in {toDev, Tail(toDev), <<>>} /\ FramesOK
    BY <1>1 DEF PairInv
  <2> QED BY <1>1, <1>2, <2>1, PopFlight
<1>3. CASE toDev = <<>>
  BY <1>1, <1>3 DEF OnlyAsked
<1> QED BY <1>2, <1>3

\* No step of the device undoes it: the flow asks nothing that writes, and the
\* COMMIT it may ask again is a replay.
LEMMA InstalledKept ==
  ASSUME PairInv, FlightOK, OnlyAsked, Device, Installed, host.slot # NoSlot,
         host.todo # <<>> => Asked.cmd \in {"COMMIT", "CRC", "BOOT"}
  PROVE  Installed'
<1>1. /\ IInv /\ FramesOK /\ pc = "idle" /\ [Next]_vars
  BY Simulates DEF PairInv, UpdateNext, Installed
<1>2. host' = host
  BY DEF Device, ServeGarbled, ServeHello, ServeUnopened, ServeErase, ServeWrite, ServeCommit,
        ServeCrc, ServeBoot, FlashDone, FlashFails, Elsewhere, DevicePowerCut, Serve
<1>3. Build' = Build /\ img' = img /\ rec' = rec
  BY <1>1, <1>2, OnlyWriteSlot DEF Build
<1>4. ASSUME pc' = "idle", s'.open => UNCHANGED <<s, rec_state, committed>>
      PROVE  Installed'
  BY <1>3, <1>4 DEF Installed, ImageOf
<1>5. toDev # <<>> => Frame.body = Garbled \/ (Frame.body = Asked /\ host.todo # <<>>)
  <2>1. toDev # <<>> => Asks(Frame.body) \/ Frame.body = Garbled
    BY <1>1, <1>2, DevicePops
  <2> QED BY <2>1 DEF Asks
<1>6. CASE UNCHANGED vars
  BY <1>1, <1>4, <1>6 DEF vars, record
<1>7. CASE ServeHello \/ ServeErase \/ ServeWrite
  <2>1. toDev # <<>> /\ Frame.body.cmd \in {"HELLO", "ERASE", "WRITE"}
    BY <1>7 DEF ServeHello, ServeErase, ServeWrite, Serve
  <2> QED BY <1>5, <2>1 DEF Garbled
<1>8. CASE ServeCommit
  <2>1. toDev # <<>> /\ Frame.body.cmd = "COMMIT" /\ s.open
    BY <1>8 DEF ServeCommit, Serve
  <2>2. Frame.body = CommitReq(Build)
    BY <1>1, <1>5, <2>1, AskedFacts DEF Garbled
  <2>3. Frame.body.len = Len(Build) /\ Frame.body.crc = Build
    BY <2>2 DEF CommitReq
  <2>4. CommitReplays(Frame.body.len, Frame.body.crc)
    BY <2>1, <2>3 DEF Installed, CommitReplays
  <2>5. CommitAnswer(Frame.body.len, Frame.body.crc) # "GO"
    BY <2>4 DEF CommitAnswer
  <2>6. UNCHANGED vars
    BY <1>8, <2>5 DEF ServeCommit, AnswerNow
  <2> QED BY <1>6, <2>6
<1>9. CASE ServeBoot
  <2>1. UNCHANGED vars \/ (pc' = "idle" /\ s' = EmptySession)
    BY <1>9 DEF ServeBoot, BootStay, BootApp, Reset, ClearRam
  <2> QED BY <1>4, <1>6, <2>1 DEF EmptySession
<1>10. CASE FlashDone \/ FlashFails
  BY <1>1, <1>10 DEF FlashDone, FlashFails, Disarm, EraseBlock, Program, RecErase, RecProgram,
        MutationFails, RecStoreFails
<1>11. CASE Elsewhere \/ DevicePowerCut
  <2>1. pc' = "idle" /\ s' = EmptySession
    BY <1>1, <1>11 DEF Elsewhere, DevicePowerCut, Decide, CoreInit, IdleBoot, AppResets, PowerCut, Reset,
          ClearRam, IInv, RamOK
  <2> QED BY <1>4, <2>1 DEF EmptySession
<1>12. CASE ServeGarbled \/ ServeUnopened \/ ServeCrc
  BY <1>6, <1>12 DEF ServeGarbled, ServeUnopened, ServeCrc, AnswerNow
<1> QED BY <1>7, <1>8, <1>9, <1>10, <1>11, <1>12 DEF Device

\* A COMMIT is answered OK when its record has landed, or once more after that.
LEMMA OkInstalls ==
  ASSUME PairInv, FlightOK, FreshMeansInstalled, FreshMeansInstalled', Device, host.todo # <<>>,
         Asked.cmd = "COMMIT", OkAnswer("COMMIT")', ~OkAnswer("COMMIT")
  PROVE  Installed'
<1>1. /\ IInv /\ FramesOK /\ host' = host
  BY DEF PairInv, Device, ServeGarbled, ServeHello, ServeUnopened, ServeErase, ServeWrite, ServeCommit,
        ServeCrc, ServeBoot, FlashDone, FlashFails, Elsewhere, DevicePowerCut, Serve
<1>2. Asked = CommitReq(Build) /\ Build' = Build
  BY <1>1, AskedFacts DEF HelloReq, Build
<1>3. Asked.len = Len(Build) /\ Asked.crc = Build
  BY <1>2 DEF CommitReq
<1>4. CASE FlashDone /\ pc # "idle" /\ pc' = "idle" /\ req.cmd = "COMMIT"
  <2>1. RecProgram /\ pc = "recProgram"
    BY <1>1, <1>4 DEF FlashDone, Disarm, EraseBlock, Program, RecErase, RecProgram, IInv, PcOK
  <2>2. req.rec.len = Len(Build) /\ req.rec.crc = Build
    <3>1. host.slot # NoSlot
      BY AskedFacts DEF HelloReq
    <3>2. Doing(Asked)
      BY <1>4, <3>1, WorksOnAsked
    <3> QED BY <1>3, <1>4, <3>2 DEF Doing
  <2>3. /\ rec_state' = "FRESH" /\ committed' = [len |-> Len(Build), crc |-> Build]
        /\ active' = write /\ img' = img /\ rec' = [rec EXCEPT ![write] = req.rec]
    BY <2>1, <2>2 DEF RecProgram, NoteCommitted, FlashChanges
  <2>4. write \in Slots /\ rec'[write] = req.rec /\ write # NoSlot
    BY <1>1, <2>3 DEF IInv, TypeOK, Slots, NoSlot
  <2>5. BootSelect(img', rec') = write
    BY <2>3 DEF FreshMeansInstalled
  <2>6. Crc(img[write], req.rec.len) = Build
    BY <1>1, <1>4, <2>2 DEF IInv, RequestOK
  <2>7. ImageOf(BootSelect(img, rec))' = Build
    BY <2>3, <2>4, <2>5, <2>6 DEF ImageOf
  <2> QED BY <1>2, <1>4, <2>3, <2>7 DEF Installed
<1>5. CASE /\ Idle /\ s.open /\ UNCHANGED vars /\ toDev # <<>> /\ Frame.body.cmd = "COMMIT"
           /\ CommitAnswer(Frame.body.len, Frame.body.crc) = "OK"
  <2>1. Frame.body = Asked
    <3>1. ~Opening
      BY DEF Opening, AsksCmd
    <3>2. Frame.body # Garbled /\ Frame.body # HelloReq
      BY <1>5, RequestIs
    <3> QED BY <1>5, <3>1, <3>2, DevicePops DEF Asks
  <2>2. CommitAnswer(Len(Build), Build) = "OK"
    BY <1>3, <1>5, <2>1
  <2>3. CommitReplays(Len(Build), Build)
    BY <2>2 DEF CommitAnswer
  <2>4. rec_state = "FRESH" /\ committed = [len |-> Len(Build), crc |-> Build] /\ active # NoSlot
    BY <1>1, <2>3 DEF CommitReplays, IInv, RamOK
  <2>5. BootSelect(img, rec) = active /\ rec[active].crc = Build
    BY <2>4 DEF FreshMeansInstalled
  <2>6. active \in Slots /\ RecordLoads(active, rec[active])
    BY <2>4, <2>5, SelectSound DEF Bootable, AppValid
  <2>7. ImageOf(BootSelect(img, rec)) = Build
    BY <1>1, <2>4, <2>5, <2>6 DEF IInv, RecordAttestsImage, ImageOf
  <2>8. Installed
    BY <1>5, <2>4, <2>7 DEF Installed, Idle
  <2> QED BY <1>2, <1>5, <2>8 DEF Installed, ImageOf, vars, flash, record
<1> QED BY <1>4, <1>5, NewOk

\* Every step of the device.
LEMMA DeviceCommitted ==
  ASSUME PairInv, FlightOK, CommittedOK, FreshMeansInstalled, FreshMeansInstalled', Device
  PROVE  CommittedOK'
<1>1. host' = host
  BY DEF Device, ServeGarbled, ServeHello, ServeUnopened, ServeErase, ServeWrite, ServeCommit,
        ServeCrc, ServeBoot, FlashDone, FlashFails, Elsewhere, DevicePowerCut, Serve
<1>2. Asked' = Asked
  BY <1>1 DEF Asked
<1>3. ASSUME host.todo # <<>>, Asked.cmd = "COMMIT", OkAnswer("COMMIT")'
      PROVE  Installed'
  <2>1. host.slot # NoSlot
    BY <1>3, AskedFacts DEF HelloReq
  <2>2. CASE OkAnswer("COMMIT")
    <3>1. OnlyAsked
      BY <1>3, <2>2 DEF OkAnswer, FlightOK, AnsweredOK, AsksCmd
    <3> QED BY <1>3, <2>1, <2>2, <3>1, InstalledKept DEF CommittedOK
  <2>3. CASE ~OkAnswer("COMMIT")
    BY <1>3, <2>3, OkInstalls
  <2> QED BY <2>2, <2>3
<1>4. ASSUME host.committed
      PROVE  /\ Installed' /\ OnlyAsked' /\ host.slot # NoSlot
             /\ \A q \in Members(host.todo) : q.cmd \in {"CRC", "BOOT"}
  <2>1. host.todo # <<>> => Asked.cmd \in {"CRC", "BOOT"}
    BY <1>4, AskedFacts DEF CommittedOK
  <2> QED BY <1>4, <2>1, DevicePops, InstalledKept DEF CommittedOK
<1> QED BY <1>1, <1>2, <1>3, <1>4 DEF CommittedOK

\* Every step of the tool.
LEMMA ToolCommitted ==
  ASSUME PairInv, FlightOK, CommittedOK, HostStep, UNCHANGED vars
  PROVE  CommittedOK'
<1>1. ASSUME host'.slot = host.slot, host'.version = host.version, Installed
      PROVE  Installed'
  <2>1. Build' = Build
    BY <1>1 DEF Build
  <2> QED BY <1>1, <2>1 DEF Installed, ImageOf, vars, flash, record
<1>2. toHost' = <<>> => ~OkAnswer("COMMIT")'
  BY DEF OkAnswer
<1>3. CASE Accepted
  <2>1. /\ host.todo # <<>> /\ OkAnswer(Asked.cmd) /\ ~OkAnswer("COMMIT")'
        /\ host'.version = host.version /\ (Asked.cmd # "HELLO" => toDev' = <<>>)
        /\ host'.committed = (host.committed \/ Asked.cmd = "COMMIT")
        /\ \/ host'.slot = host.slot /\ host'.todo = host.todo /\ Asked.cmd # "COMMIT"
           \/ host'.slot = host.slot /\ host'.todo = Tail(host.todo) /\ Asked.cmd # "HELLO"
           \/ Asked.cmd = "HELLO"
    BY <1>3, Acceptance
  <2>2. /\ host.todo \in Seq(Fitting) /\ InSequence(host.todo) /\ Asked \in Fitting
        /\ Asked \in Members(host.todo) /\ (host.slot = NoSlot => Asked = HelloReq)
    BY <2>1, AskedFacts DEF PairInv, ToolOK, Hosts
  <2>3. /\ Members(host.todo) = {Asked} \union Members(Tail(host.todo))
        /\ Rank(Asked) > 2 => \A q \in Members(Tail(host.todo)) : Rank(Asked) < Rank(q)
        /\ \A q \in Members(Tail(host.todo)) : q \in Fitting
    <3>1. Tail(host.todo) \in Seq(Fitting)
      BY <2>1, <2>2, TailKeeps
    <3>2. \A q \in Members(Tail(host.todo)) : q \in Fitting
      BY <3>1 DEF Members
    <3> QED BY <2>1, <2>2, <3>2, TailKeeps DEF Asked
  <2>4. ASSUME host'.committed
        PROVE  /\ Installed' /\ OnlyAsked' /\ host'.slot # NoSlot
               /\ \A q \in Members(host'.todo) : q.cmd \in {"CRC", "BOOT"}
    <3>0. toDev' = <<>> => OnlyAsked'
      BY DEF OnlyAsked
    <3>1. CASE host.committed
      <4>1. Installed /\ host.slot # NoSlot /\ \A q \in Members(host.todo) : q.cmd \in {"CRC", "BOOT"}
        BY <3>1 DEF CommittedOK
      <4>2. Asked.cmd \in {"CRC", "BOOT"}
        BY <2>2, <4>1
      <4>3. host'.slot = host.slot /\ host'.todo \in {host.todo, Tail(host.todo)}
        BY <2>1, <4>2
      <4> QED BY <1>1, <2>1, <2>3, <3>0, <4>1, <4>2, <4>3
    <3>2. CASE Asked.cmd = "COMMIT"
      <4>1. host'.slot = host.slot /\ host'.todo = Tail(host.todo) /\ host.slot # NoSlot
        BY <2>1, <2>2, <3>2 DEF HelloReq
      <4>2. Installed
        BY <2>1, <3>2 DEF CommittedOK
      <4>3. Rank(Asked) = 3
        BY <2>2, <3>2, Ranks
      <4>4. ASSUME NEW q \in Members(Tail(host.todo)) PROVE q.cmd \in {"CRC", "BOOT"}
        <5>1. q \in Fitting /\ 3 < Rank(q)
          BY <2>3, <4>3
        <5>2. Rank(q) \in 0..5 /\ (q.cmd = "CRC" <=> Rank(q) = 4) /\ (q.cmd = "BOOT" <=> Rank(q) = 5)
          BY <5>1, Ranks
        <5> QED BY <5>1, <5>2
      <4> QED BY <1>1, <2>1, <3>0, <3>2, <4>1, <4>2, <4>4
    <3> QED BY <2>1, <2>4, <3>1, <3>2
  <2> QED BY <2>1, <2>4 DEF CommittedOK
<1>4. CASE /\ host'.version = host.version /\ host'.slot = host.slot
           /\ host'.todo = host.todo /\ host'.committed = host.committed
           /\ (\A cmd : OkAnswer(cmd)' => OkAnswer(cmd)) /\ (OnlyAsked => OnlyAsked')
  <2>1. Asked' = Asked /\ (OkAnswer("COMMIT")' => OkAnswer("COMMIT"))
    BY <1>4 DEF Asked
  <2> QED BY <1>1, <1>4, <2>1 DEF CommittedOK
<1>5. CASE host'.committed = FALSE /\ toHost' = <<>>
  BY <1>2, <1>5 DEF CommittedOK
<1> QED BY <1>3, <1>4, <1>5, OtherToolSteps

\* What is reported stays true.
LEMMA StepCommitted ==
  ASSUME PairInv, FlightOK, CommittedOK, FreshMeansInstalled, FreshMeansInstalled', [UpdateNext]_allVars
  PROVE  CommittedOK'
<1>1. CASE UNCHANGED allVars
  BY <1>1 DEF allVars, link, vars, flash, record, CommittedOK, OkAnswer, Installed, ImageOf, Build, Asked,
              OnlyAsked, Asks
<1>2. CASE Client
  BY <1>2, ToolCommitted DEF Client
<1>3. CASE Device
  BY <1>3, DeviceCommitted
<1> QED BY <1>1, <1>2, <1>3 DEF UpdateNext

-----------------------------------------------------------------------------
(* The order of a flash's requests *)

\* What the device's run of sequential writes needs of two adjacent requests.
Follows(p, q, n) ==
  /\ p.cmd = "ERASE" => q.cmd = "ERASE" \/ (q.cmd = "WRITE" /\ q.at = 0)
  /\ p.cmd = "WRITE" => IF q.cmd = "WRITE" THEN q.at = p.at + Len(p.data)
                        ELSE q.cmd = "COMMIT" /\ p.at + Len(p.data) = n

Linked(todo, n) == \A i \in 1..Len(todo), j \in 1..Len(todo) : j = i + 1 => Follows(todo[i], todo[j], n)

\* An ERASE of words of the slot.
Within(q, slot) == q.cmd = "ERASE" => q.slot = slot /\ q.at + q.n <= SlotWords

\* The word is still to be erased.
EraseOf(todo, w) == \E q \in Members(todo) : q.cmd = "ERASE" /\ w \in q.at + 1..q.at + q.n

\* A flash in the right order.
Orderly(todo, build, slot) ==
  Linked(todo, Len(build)) /\ \A q \in Members(todo) : Within(q, slot)

\* Each piece begins where the one before it ended, the first at 0, and the last
\* ends with the whole.
LEMMA PieceChain ==
  ASSUME NEW n \in Nat \ {0}, NEW size \in Nat \ {0}, NEW c, c = CeilDiv(n, size),
         NEW P, P = Pieces(n, size)
  PROVE  /\ c \in Nat \ {0} /\ P[1].at = 0 /\ P[c].at + P[c].n = n
         /\ \A i \in 1..c : i + 1 <= c => P[i + 1].at = P[i].at + P[i].n
<1>1. c \in Nat \ {0} /\ n <= size * c /\ size * c < n + size
  BY RoundsUp
<1>2. \A i \in 1..c : P[i].at = size * (i - 1) /\ P[i].n = Least(size, n - size * (i - 1))
  BY PieceFacts
<1>3. ASSUME NEW i \in 1..c
      PROVE  /\ i + 1 <= c => size * ((i + 1) - 1) = P[i].at + P[i].n
             /\ i = c => P[i].at + P[i].n = n
             /\ i = 1 => P[i].at = 0
  <2>1. i \in Nat /\ i - 1 \in Nat
    BY <1>1
  <2>2. PICK at \in Nat : at = size * (i - 1) /\ (i = 1 => at = 0)
    BY <2>1, Z3
  <2>3. size * i = at + size /\ size * ((i + 1) - 1) = at + size
    BY <2>1, <2>2, Z3
  <2>4. P[i].at = at /\ P[i].n = Least(size, n - at)
    BY <1>2, <2>2
  <2>5. CASE i + 1 <= c
    <3>1. PICK m \in Nat : m = size * c
      BY <1>1, Z3
    <3>2. size * (i + 1) <= m
      BY <1>1, <2>1, <2>5, <3>1, Times
    <3>3. size * (i + 1) = at + size + size
      BY <2>1, <2>2, Z3
    <3>4. at + size < n
      BY <1>1, <3>1, <3>2, <3>3
    <3>5. Least(size, n - at) = size
      BY <3>4 DEF Least
    <3> QED BY <2>1, <2>2, <2>3, <2>4, <2>5, <3>5
  <2>6. CASE i = c
    <3>1. n <= at + size
      BY <1>1, <2>3, <2>6
    <3>2. Least(size, n - at) = n - at
      BY <3>1, <2>2 DEF Least
    <3> QED BY <1>1, <2>2, <2>4, <2>6, <3>2
  <2> QED BY <1>1, <2>5, <2>6
<1> QED BY <1>1, <1>2, <1>3

\* The blocks of a build that fits are in the slot.
LEMMA BlocksFit ==
  ASSUME NEW n \in 1..SlotWords, NEW m, m = CeilDiv(n, BlockSize) * BlockSize
  PROVE  m \in Nat \ {0} /\ m % BlockSize = 0 /\ n <= m /\ m <= SlotWords
<1>1. BlockSize \in Nat \ {0} /\ SlotWords \in Nat \ {0} /\ SlotWords % BlockSize = 0 /\ n \in Nat \ {0}
  BY CoreAssumption, DecisionAssumption DEF CoreAssumption, DecisionAssumption
<1>2. PICK c \in Nat \ {0} : c = CeilDiv(n, BlockSize) /\ n <= BlockSize * c /\ BlockSize * c < n + BlockSize
  BY <1>1, RoundsUp
<1>3. m = BlockSize * c
  BY <1>1, <1>2, Z3
<1>4. PICK q \in Nat : SlotWords = BlockSize * q
  BY <1>1, Quotient
<1>5. c <= q
  <2>1. ASSUME q + 1 <= c PROVE FALSE
    <3>1. BlockSize * (q + 1) <= BlockSize * c
      BY <1>1, <2>1, Times
    <3>2. BlockSize * (q + 1) = SlotWords + BlockSize
      BY <1>1, <1>4, Z3
    <3>3. m \in Nat /\ m < n + BlockSize /\ SlotWords + BlockSize <= m
      BY <1>1, <1>2, <1>3, <3>1, <3>2, Multiple
    <3> QED BY <1>1, <3>3
  <2> QED BY <2>1
<1>6. BlockSize * c <= BlockSize * q
  BY <1>1, <1>5, Times
<1>7. m \in Nat /\ m % BlockSize = 0
  BY <1>2, <1>3, Multiple
<1> QED BY <1>1, <1>2, <1>3, <1>4, <1>6, <1>7

\* The erases reach every word of the region and none beyond it.
LEMMA EraseChain ==
  ASSUME NEW info \in Infos, NEW n \in Nat \ {0}, n % BlockSize = 0, n <= SlotWords
  PROVE  /\ \A q \in Members(EraseReqs(info, n)) : q.cmd = "ERASE" /\ Within(q, info.slot)
         /\ \A w \in 1..n : EraseOf(EraseReqs(info, n), w)
<1>1. BlockSize \in Nat \ {0} /\ EraseChunk \in Nat \ {0} /\ info.block = BlockSize
  BY CoreAssumption, ClientAssumption DEF CoreAssumption, ClientAssumption, Infos
<1>2. PICK k \in Nat \ {0} : k = IF BlockSize < EraseChunk THEN EraseChunk \div BlockSize ELSE 1
  <2>1. PICK q \in Nat : q = EraseChunk \div BlockSize /\ EraseChunk < BlockSize * q + BlockSize
    BY <1>1, Quotient
  <2>2. BlockSize < EraseChunk => q # 0
    BY <1>1, <2>1, Z3
  <2> QED BY <2>1, <2>2
<1>3. PICK size \in Nat \ {0} : size = BlockSize * k
  BY <1>1, <1>2, Z3
<1> DEFINE c == CeilDiv(n, size)
           P == Pieces(n, size)
           es == EraseReqs(info, n)
<1>4. /\ c \in Nat \ {0} /\ DOMAIN P = 1..c
      /\ \A i \in 1..c : P[i].at \in Nat /\ P[i].n \in 1..size /\ P[i].at + P[i].n <= n
      /\ \A w \in 1..n : \E i \in 1..c : w \in P[i].at + 1..P[i].at + P[i].n
  BY PieceFacts, ZenonT(60)
<1>5. es = [i \in 1..c |-> [cmd |-> "ERASE", slot |-> info.slot, at |-> P[i].at, n |-> P[i].n]]
  BY <1>1, <1>2, <1>3, <1>4 DEF EraseReqs
<1> HIDE DEF c, P, es
<1>6. Len(es) = c
  BY <1>4, <1>5
<1>7. \A i \in 1..c : es[i].cmd = "ERASE" /\ es[i].slot = info.slot /\ es[i].at = P[i].at /\ es[i].n = P[i].n
  BY <1>5
<1>8. SlotWords \in Nat
  BY DecisionAssumption DEF DecisionAssumption
<1>9. \A i \in 1..c : P[i].at + P[i].n <= SlotWords
  BY <1>4, <1>8
<1>10. \A q \in Members(es) : q.cmd = "ERASE" /\ Within(q, info.slot)
  BY <1>6, <1>7, <1>9 DEF Members, Within
<1>11. ASSUME NEW w \in 1..n PROVE EraseOf(es, w)
  <2>1. PICK i \in 1..c : w \in P[i].at + 1..P[i].at + P[i].n
    BY <1>4
  <2>2. es[i] \in Members(es) /\ es[i].cmd = "ERASE" /\ w \in es[i].at + 1..es[i].at + es[i].n
    BY <1>6, <1>7, <2>1 DEF Members
  <2> QED BY <2>2 DEF EraseOf
<1> QED BY <1>10, <1>11 DEF es

\* The writes go through the build without a gap.
LEMMA WriteChain ==
  ASSUME NEW info \in Infos, NEW build \in Seq(Word), Len(build) \in 1..SlotWords,
         NEW ws, ws = WriteReqs(info, build)
  PROVE  /\ Len(ws) \in Nat \ {0} /\ ws[1].at = 0 /\ Linked(ws, Len(build))
         /\ \A i \in 1..Len(ws) : ws[i].cmd = "WRITE"
         /\ ws[Len(ws)].at + Len(ws[Len(ws)].data) = Len(build)
<1>1. info.chunk = MaxChunk /\ MaxChunk \in Nat \ {0} /\ Len(build) \in Nat \ {0}
  BY CoreAssumption, DecisionAssumption DEF CoreAssumption, DecisionAssumption, Infos
<1> DEFINE c == CeilDiv(Len(build), MaxChunk)
           P == Pieces(Len(build), MaxChunk)
<1>2. /\ c \in Nat \ {0} /\ P[1].at = 0 /\ P[c].at + P[c].n = Len(build)
      /\ \A i \in 1..c : i + 1 <= c => P[i + 1].at = P[i].at + P[i].n
  BY <1>1, PieceChain, SMTT(60)
<1>3. /\ DOMAIN P = 1..c
      /\ \A i \in 1..c : P[i].at \in Nat /\ P[i].n \in 1..MaxChunk /\ P[i].at + P[i].n <= Len(build)
  BY <1>1, PieceFacts
<1>4. ws = [i \in 1..c |-> [cmd |-> "WRITE", slot |-> info.slot, at |-> P[i].at,
                            data |-> SubSeq(build, P[i].at + 1, P[i].at + P[i].n)]]
  BY <1>1, <1>3 DEF WriteReqs
<1> HIDE DEF c, P
<1>5. Len(ws) = c
  BY <1>2, <1>4
<1>6. ASSUME NEW i \in 1..c
      PROVE  ws[i].cmd = "WRITE" /\ ws[i].at = P[i].at /\ Len(ws[i].data) = P[i].n
  <2> DEFINE at == P[i].at
             n == P[i].n
  <2>1. at \in Nat /\ n \in 1..MaxChunk /\ n \in Nat /\ at + n <= Len(build)
    BY <1>1, <1>3
  <2>2. ws[i].cmd = "WRITE" /\ ws[i].at = at /\ ws[i].data = SubSeq(build, at + 1, at + n)
    BY <1>4
  <2> HIDE DEF at, n
  <2>3. \A j \in at + 1..at + n : build[j] \in Word
    BY <1>1, <2>1
  <2>4. at + 1 \in Int /\ at + n \in Int /\ (at + n) - (at + 1) + 1 = n /\ at + 1 <= at + n
    BY <1>1, <2>1
  <2>5. Len(SubSeq(build, at + 1, at + n)) = n
    BY <2>3, <2>4, SubSeqProperties
  <2> QED BY <2>2, <2>5 DEF at, n
<1>7. Linked(ws, Len(build))
  BY <1>2, <1>5, <1>6 DEF Linked, Follows
<1>8. 1 \in 1..c /\ c \in 1..c
  BY <1>2
<1> QED BY <1>2, <1>5, <1>6, <1>7, <1>8

\* Two lists in order, of which the second continues the first.
LEMMA JoinedChain ==
  ASSUME NEW a \in Seq(Fitting), NEW b \in Seq(Fitting), a # <<>>, NEW n,
         Linked(a, n), Linked(b, n), b # <<>> => Follows(a[Len(a)], b[1], n)
  PROVE  /\ Linked(a \o b, n) /\ (a \o b)[1] = a[1] /\ a \o b # <<>>
         /\ (a \o b)[Len(a \o b)] = IF b = <<>> THEN a[Len(a)] ELSE b[Len(b)]
<1> DEFINE t == a \o b
<1>1. t \in Seq(Fitting) /\ Len(t) = Len(a) + Len(b) /\ Len(a) \in Nat /\ Len(b) \in Nat
      /\ \A i \in 1..Len(t) : t[i] = IF i <= Len(a) THEN a[i] ELSE b[i - Len(a)]
  BY ConcatProperties
<1> HIDE DEF t
<1>2. Len(a) # 0 /\ (b = <<>> <=> Len(b) = 0)
  BY EmptySeq
<1>3. ASSUME NEW i \in 1..Len(t), NEW j \in 1..Len(t), j = i + 1
      PROVE  Follows(t[i], t[j], n)
  <2>1. CASE j <= Len(a)
    BY <1>1, <1>3, <2>1, SMTT(60) DEF Linked
  <2>2. CASE i > Len(a)
    <3>1. i - Len(a) \in 1..Len(b) /\ j - Len(a) \in 1..Len(b) /\ j - Len(a) = (i - Len(a)) + 1
      BY <1>1, <1>3, <2>2
    <3>2. t[i] = b[i - Len(a)] /\ t[j] = b[j - Len(a)]
      BY <1>1, <1>3, <2>2
    <3> QED BY <3>1, <3>2 DEF Linked
  <2>3. CASE i = Len(a)
    <3>1. t[i] = a[Len(a)] /\ t[j] = b[1] /\ Len(b) # 0
      BY <1>1, <1>3, <2>3
    <3> QED BY <1>2, <3>1
  <2> QED BY <1>1, <1>3, <2>1, <2>2, <2>3
<1>4. t[1] = a[1] /\ t # <<>> /\ t[Len(t)] = IF b = <<>> THEN a[Len(a)] ELSE b[Len(b)]
  BY <1>1, <1>2
<1> QED BY <1>3, <1>4 DEF Linked, t

\* plan_flash and execute_flash: an erase first, of the words that are written
\* then from the first to the last, and the commit.
LEMMA FlashPlanChain ==
  ASSUME NEW info \in Infos, NEW build \in Seq(Word), Len(build) \in 1..SlotWords
  PROVE  LET p == FlashPlan(info, build) IN
         /\ p \in Seq(Fitting) /\ p # <<>> /\ p[1].cmd = "ERASE"
         /\ p[Len(p)].cmd \in {"COMMIT", "CRC"}
         /\ Orderly(p, build, info.slot)
         /\ \A w \in 1..Len(build) : EraseOf(p, w)
<1> DEFINE n == CeilDiv(Len(build), info.block) * info.block
           es == EraseReqs(info, n)
           ws == WriteReqs(info, build)
           cs == <<CommitReq(build)>>
           rs == IF info.live THEN <<CrcReq(info.slot, build)>> ELSE <<>>
           p == FlashPlan(info, build)
           len == Len(build)
<1>1. /\ info.slot \in Slots /\ info.live \in BOOLEAN /\ info.block = BlockSize
      /\ len \in Nat \ {0} /\ SlotWords \in Nat
  BY DecisionAssumption DEF DecisionAssumption, Infos
<1>2. n \in Nat \ {0} /\ n % BlockSize = 0 /\ len <= n /\ n <= SlotWords
  BY <1>1, BlocksFit
<1>3. p = ((es \o ws) \o cs) \o rs
  BY DEF FlashPlan
<1> HIDE DEF n, len
<1>4. /\ es \in Seq(Fitting) /\ Len(es) > 0
      /\ \A i \in 1..Len(es) : es[i].cmd = "ERASE"
      /\ \A q \in Members(es) : q.cmd = "ERASE" /\ Within(q, info.slot)
      /\ \A w \in 1..n : EraseOf(es, w)
  BY <1>2, EraseFits, EraseChain
<1>5. /\ ws \in Seq(Fitting) /\ \A i \in 1..Len(ws) : ws[i].cmd = "WRITE"
      /\ Len(ws) \in Nat \ {0} /\ ws[1].at = 0 /\ Linked(ws, len)
      /\ ws[Len(ws)].at + Len(ws[Len(ws)].data) = len
  BY WriteFits, WriteChain DEF len
<1>6. /\ cs \in Seq(Fitting) /\ Len(cs) = 1 /\ cs[1].cmd = "COMMIT" /\ Members(cs) = {CommitReq(build)}
  BY FittingRequests, Runs DEF CommitReq
<1>7. /\ rs \in Seq(Fitting) /\ (rs = <<>> \/ (Len(rs) = 1 /\ rs[1].cmd = "CRC"))
      /\ \A q \in Members(rs) : q.cmd = "CRC"
  <2>1. CrcReq(info.slot, build) \in Fitting /\ CrcReq(info.slot, build).cmd = "CRC"
    BY <1>1, FittingRequests DEF CrcReq
  <2>2. <<CrcReq(info.slot, build)>> \in Seq(Fitting)
        /\ \A q \in Members(<<CrcReq(info.slot, build)>>) : q.cmd = "CRC"
    BY <2>1, Runs
  <2> QED BY <2>1, <2>2, Runs
<1> HIDE DEF es, ws, cs, rs, p
<1>8. Linked(es, len) /\ Linked(cs, len) /\ Linked(rs, len)
  <2>1. Linked(es, len)
    BY <1>4 DEF Linked, Follows
  <2>2. Linked(cs, len)
    BY <1>6 DEF Linked, Follows
  <2>3. Linked(rs, len)
    BY <1>7 DEF Linked, Follows
  <2> QED BY <2>1, <2>2, <2>3
<1>9. es # <<>> /\ ws # <<>> /\ cs # <<>> /\ es[1].cmd = "ERASE" /\ es[Len(es)].cmd = "ERASE"
      /\ ws[1].cmd = "WRITE" /\ ws[Len(ws)].cmd = "WRITE"
  <2>1. Len(es) \in Nat /\ Len(<<>>) = 0
    BY <1>4
  <2>2. Len(es) # 0 /\ Len(ws) # 0 /\ Len(cs) # 0
    BY <1>4, <1>5, <1>6, <2>1
  <2>4. es # <<>> /\ ws # <<>> /\ cs # <<>>
    BY ZenonT(30), <2>1, <2>2
  <2>3. 1 \in 1..Len(es) /\ Len(es) \in 1..Len(es) /\ 1 \in 1..Len(ws) /\ Len(ws) \in 1..Len(ws)
    BY <1>4, <1>5, <2>1
  <2> QED BY <1>4, <1>5, <2>3, <2>4
<1>10. /\ es \o ws \in Seq(Fitting) /\ Members(es \o ws) = Members(es) \union Members(ws)
       /\ Linked(es \o ws, len) /\ (es \o ws)[1] = es[1] /\ es \o ws # <<>>
       /\ (es \o ws)[Len(es \o ws)] = ws[Len(ws)]
  <2>1. Follows(es[Len(es)], ws[1], len)
    BY <1>5, <1>9 DEF Follows
  <2> QED BY <1>4, <1>5, <1>8, <1>9, <2>1, Joined, JoinedChain
<1> DEFINE t == es \o ws
<1> HIDE DEF t
<1>11. /\ t \o cs \in Seq(Fitting) /\ Members(t \o cs) = Members(es) \union Members(ws) \union Members(cs)
       /\ Linked(t \o cs, len) /\ (t \o cs)[1] = es[1] /\ t \o cs # <<>>
       /\ (t \o cs)[Len(t \o cs)].cmd = "COMMIT"
  <2>1. /\ t \in Seq(Fitting) /\ Members(t) = Members(es) \union Members(ws)
        /\ Linked(t, len) /\ t[1] = es[1] /\ t # <<>> /\ t[Len(t)] = ws[Len(ws)]
    BY <1>10 DEF t
  <2>2. Follows(t[Len(t)], cs[1], len)
    BY <1>5, <1>6, <1>9, <2>1 DEF Follows
  <2> QED BY <1>6, <1>8, <1>9, <2>1, <2>2, Joined, JoinedChain
<1> DEFINE u == t \o cs
<1>12. u \in Seq(Fitting) /\ Linked(u, len) /\ u # <<>> /\ u[1] = es[1] /\ u[Len(u)].cmd = "COMMIT"
       /\ Members(u) = Members(es) \union Members(ws) \union Members(cs) /\ p = u \o rs
  BY <1>3, <1>11 DEF t
<1> HIDE DEF u
<1>13. /\ p \in Seq(Fitting) /\ Members(p) = Members(es) \union Members(ws) \union Members(cs) \union Members(rs)
       /\ Linked(p, len) /\ p[1].cmd = "ERASE" /\ p # <<>> /\ p[Len(p)].cmd \in {"COMMIT", "CRC"}
  <2>1. rs # <<>> => Follows(u[Len(u)], rs[1], len)
    BY <1>12 DEF Follows
  <2>2. /\ Linked(u \o rs, len) /\ (u \o rs)[1] = u[1] /\ u \o rs # <<>>
        /\ (u \o rs)[Len(u \o rs)] = IF rs = <<>> THEN u[Len(u)] ELSE rs[Len(rs)]
    BY <1>7, <1>8, <1>12, <2>1, JoinedChain
  <2>3. u \o rs \in Seq(Fitting) /\ Members(u \o rs) = Members(u) \union Members(rs)
    BY <1>7, <1>12, Joined
  <2> QED BY <1>7, <1>9, <1>12, <2>2, <2>3
<1>14. \A q \in Members(p) : Within(q, info.slot)
  <2>1. \A q \in Members(ws) : q.cmd = "WRITE"
    BY <1>5 DEF Members
  <2>2. CommitReq(build).cmd = "COMMIT"
    BY DEF CommitReq
  <2> QED BY <1>4, <1>6, <1>7, <1>13, <2>1, <2>2 DEF Within
<1>15. ASSUME NEW w \in 1..Len(build) PROVE EraseOf(p, w)
  <2>1. w \in 1..n
    BY <1>1, <1>2, <1>15 DEF len
  <2> QED BY <1>4, <1>13, <2>1 DEF EraseOf
<1> QED BY <1>13, <1>14, <1>15 DEF Orderly, p, len

\* The same of the flows that flash.
LEMMA PlanChain ==
  ASSUME NEW flow, Flashes(flow), NEW version \in 1..MaxRuns, NEW info \in Infos
  PROVE  LET p == Plan(flow, version, info)
             build == Builds[version][info.slot]
         IN  /\ p # <<>> /\ Head(p).cmd = "ERASE" /\ Orderly(p, build, info.slot)
             /\ \A w \in 1..Len(build) : EraseOf(p, w)
<1> DEFINE build == Builds[version][info.slot]
           p == Plan(flow, version, info)
           fp == FlashPlan(info, build)
<1>1. build \in Seq(Word) /\ Len(build) \in 1..SlotWords
  <2>1. info.slot \in Slots
    BY DEF Infos
  <2> QED BY <2>1, ClientAssumption DEF ClientAssumption
<1>2. /\ fp \in Seq(Fitting) /\ fp # <<>> /\ fp[1].cmd = "ERASE" /\ fp[Len(fp)].cmd \in {"COMMIT", "CRC"}
      /\ Orderly(fp, build, info.slot) /\ \A w \in 1..Len(build) : EraseOf(fp, w)
  BY <1>1, FlashPlanChain
<1>3. CASE flow = "flash_no_boot"
  <2>1. p = fp
    BY <1>3 DEF Plan
  <2>2. Head(fp) = fp[1]
    BY <1>2, QueueItems
  <2> QED BY <1>2, <2>1, <2>2
<1>4. ASSUME NEW stay \in BOOLEAN, p = fp \o <<BootReq(stay)>>
      PROVE  /\ p # <<>> /\ Head(p).cmd = "ERASE" /\ Orderly(p, build, info.slot)
             /\ \A w \in 1..Len(build) : EraseOf(p, w)
  <2> DEFINE b == <<BootReq(stay)>>
  <2>1. /\ b \in Seq(Fitting) /\ Members(b) = {BootReq(stay)} /\ BootReq(stay).cmd = "BOOT"
        /\ Len(b) = 1 /\ b # <<>> /\ b[1] = BootReq(stay)
    BY FittingRequests, Runs DEF BootReq
  <2> HIDE DEF p, fp, b
  <2>2. Linked(b, Len(build)) /\ Follows(fp[Len(fp)], b[1], Len(build))
    BY <1>2, <2>1 DEF Linked, Follows
  <2>3. p = fp \o b
    BY <1>4 DEF b
  <2>4. Linked(fp \o b, Len(build)) /\ (fp \o b)[1] = fp[1] /\ fp \o b # <<>>
    BY <1>2, <2>1, <2>2, JoinedChain DEF Orderly
  <2>5. fp \o b \in Seq(Fitting) /\ Members(fp \o b) = Members(fp) \union Members(b)
    BY <1>2, <2>1, Joined
  <2>6. Head(p) = p[1]
    BY <2>3, <2>4, <2>5, QueueItems
  <2>7. Orderly(p, build, info.slot)
    BY <1>2, <2>1, <2>3, <2>4, <2>5 DEF Orderly, Within
  <2>8. \A w \in 1..Len(build) : EraseOf(p, w)
    BY <1>2, <2>3, <2>5 DEF EraseOf
  <2> QED BY <1>2, <2>3, <2>4, <2>6, <2>7, <2>8
<1>5. CASE flow = "flash"
  BY <1>4, <1>5 DEF Plan
<1>6. CASE flow = "flash_park"
  BY <1>4, <1>6 DEF Plan
<1> QED BY <1>3, <1>5, <1>6 DEF Flashes

-----------------------------------------------------------------------------
(* Why a flash is not refused *)

\* A flash is under way, and neither flash nor power has failed.
FlashRun == faults = 0 /\ Running /\ Flashes(host.flow)

\* The session has erased the word.
Covered(w) == \E a \in s.bitmap : w \in InBlock(a)

\* No answer that the tool may take is a refusal.
AnswersGood ==
  FlashRun => \A i \in 1..Len(toHost) : AsksCmd(toHost[i].cmd) => toHost[i].status = "OK"

\* A HELLO was answered by a session in which nothing has been done yet.
OpenedOK ==
  FlashRun /\ Opening =>
    \A i \in 1..Len(toHost) : toHost[i].cmd = "HELLO" =>
      mode = "core" /\ s = [EmptySession EXCEPT !.open = TRUE] /\ toHost[i].value.slot = write

LinkedOK == FlashRun /\ host.slot # NoSlot => Orderly(host.todo, BuildOf(host), host.slot)

\* The flow is past HELLO, and has not sent the BOOT that ends the session.
Listening ==
  FlashRun /\ host.slot # NoSlot /\ (Asked.cmd = "BOOT" => host.att = 0 \/ toDev # <<>>)

\* The session is open.  A HELLO that still comes starts it again before
\* anything was erased, or not at all.
SessionOK ==
  Listening =>
    /\ mode = "core" /\ s.open
    /\ OnlyAsked \/ \A w \in 1..Len(BuildOf(host)) : EraseOf(host.todo, w)
    /\ Asked.cmd \in {"CRC", "BOOT"} => rec_state = "FRESH"

\* The device writes the slot that the build is linked for.  What is not to be
\* erased any more is, and a word that is erased takes that of the build.
SlotOK ==
  FlashRun /\ Asked.cmd \in {"ERASE", "WRITE"} =>
    /\ write = host.slot /\ s.stream = "RUN"
    /\ \A w \in 1..Len(BuildOf(host)) :
         /\ EraseOf(host.todo, w) \/ Covered(w)
         /\ Covered(w) => img[host.slot][w] \subseteq BuildOf(host)[w]

\* How far an ERASE is.
ErasingOK ==
  FlashRun /\ Asked.cmd = "ERASE" =>
    /\ s.next = 0
    /\ pc # "idle" => /\ req.end = Asked.at + Asked.n /\ Asked.at <= req.at
                      /\ \A w \in Asked.at + 1..req.at : Covered(w)
    /\ OkAnswer("ERASE") => \A w \in Asked.at + 1..Asked.at + Asked.n : Covered(w)

\* The run of sequential writes is where this WRITE begins or, once it has been
\* carried out, where it ends; a repetition is then known for what it is.
WritingOK ==
  FlashRun /\ Asked.cmd = "WRITE" =>
    LET end == Asked.at + Len(Asked.data) IN
    /\ \/ s.next = Asked.at
       \/ s.next = end /\ s.last = [addr |-> Asked.at, data |-> Asked.data]
    /\ OkAnswer("WRITE") => s.next = end

\* The COMMIT has landed, and its repetition is a replay.
Landed ==
  pc = "idle" /\ rec_state = "FRESH" /\ committed = [len |-> Len(BuildOf(host)), crc |-> BuildOf(host)]

CommittingOK ==
  FlashRun /\ Asked.cmd = "COMMIT" =>
    /\ Landed \/ (write = host.slot /\ s.stream = "RUN" /\ s.next = Len(BuildOf(host)))
    /\ OkAnswer("COMMIT") => Landed

RetryInv ==
  /\ faults \in Nat
  /\ AnswersGood /\ OpenedOK /\ LinkedOK /\ SessionOK /\ SlotOK /\ ErasingOK /\ WritingOK
  /\ CommittingOK /\ RetriesAreHarmless

\* What a flash that is under way may have asked.
LEMMA FlashFacts ==
  ASSUME PairInv, FlashRun
  PROVE  /\ host.todo # <<>> /\ host.todo \in Seq(Fitting) /\ Asked \in Fitting
         /\ Asked \in Members(host.todo) /\ \A q \in Members(host.todo) : q \in Fitting /\ Rank(Asked) <= Rank(q)
         /\ host.slot = NoSlot => Opening /\ Asked = HelloReq
         /\ host.slot # NoSlot =>
              /\ ~Opening /\ Own /\ Asked.cmd \in {"ERASE", "WRITE", "COMMIT", "CRC", "BOOT"}
              /\ host.slot \in Slots /\ host.version \in 1..MaxRuns
              /\ BuildOf(host) \in Seq(Word) /\ Len(BuildOf(host)) \in 1..SlotWords
<1>1. /\ host.todo # <<>> /\ host.todo \in Seq(Fitting) /\ InSequence(host.todo) /\ ToolOK(host)
  BY DEF PairInv, FlashRun, Running, ToolOK, Hosts
<1>2. /\ Asked \in Fitting /\ Asked \in Members(host.todo)
      /\ host.slot = NoSlot => Asked = HelloReq
      /\ host.slot # NoSlot =>
           /\ host.slot \in Slots /\ host.version \in 1..MaxRuns
           /\ BuildOf(host) \in Seq(Word) /\ Len(BuildOf(host)) \in 1..SlotWords
  BY <1>1, AskedFacts
<1>3. ASSUME NEW q \in Members(host.todo) PROVE q \in Fitting /\ Rank(Asked) <= Rank(q)
  <2>1. q \in Fitting
    BY <1>1, <1>3 DEF Members
  <2>2. q = Asked \/ q \in Members(Tail(host.todo))
    BY <1>1, <1>3, TailKeeps DEF Asked
  <2>3. Rank(Asked) \in 0..5 /\ (q \in Members(Tail(host.todo)) => Rank(Asked) <= Rank(q))
    BY <1>1, <1>2, Ranks, TailKeeps DEF Asked
  <2> QED BY <2>1, <2>2, <2>3
<1>4. host.slot = NoSlot => Opening
  BY <1>1, <1>2, AskedIs
<1>5. host.slot # NoSlot => ~Opening
  BY AskedIs DEF PairInv
<1>6. host.slot # NoSlot => Asked.cmd \in {"ERASE", "WRITE", "COMMIT", "CRC", "BOOT"}
  BY <1>1, <1>2, <1>5, Ranks DEF Opening, AsksCmd
<1> QED BY <1>1, <1>2, <1>3, <1>4, <1>5, <1>6 DEF Own

\* When no flash goes on there is little to say.
LEMMA NoFlash ==
  ASSUME ~FlashRun', faults' \in Nat, RetriesAreHarmless'
  PROVE  RetryInv'
BY DEF RetryInv, AnswersGood, OpenedOK, LinkedOK, SessionOK, SlotOK, ErasingOK, WritingOK, CommittingOK,
       Listening

-----------------------------------------------------------------------------
(* Why a flash is not refused: the tool keeps it *)

\* The tool asks on for the same, and no answer was added.
LEMMA AskedOn ==
  ASSUME PairInv, RetryInv, UNCHANGED <<vars, faults>>, host'.flow = host.flow,
         host'.version = host.version, host'.slot = host.slot, host'.todo = host.todo,
         \A i \in 1..Len(toHost') : \E j \in 1..Len(toHost) : toHost'[i] = toHost[j],
         OnlyAsked => OnlyAsked', Running' => Running, host'.result # "refused",
         Listening' => Listening
  PROVE  RetryInv'
<1>1. /\ Asked' = Asked /\ Opening' = Opening /\ BuildOf(host)' = BuildOf(host)
      /\ \A x : AsksCmd(x)' = AsksCmd(x)
  BY DEF Asked, Opening, BuildOf, AsksCmd
<1>2. /\ mode' = mode /\ s' = s /\ write' = write /\ img' = img /\ pc' = pc /\ req' = req
      /\ rec_state' = rec_state /\ committed' = committed /\ faults' = faults
  BY DEF vars, flash, life, slots, record
<1>3. FlashRun' => FlashRun
  BY <1>2 DEF FlashRun
<1>4. \A c : OkAnswer(c)' => OkAnswer(c)
  BY DEF OkAnswer
<1>5. \A w : Covered(w)' = Covered(w)
  BY <1>2 DEF Covered
<1>6. AnswersGood'
  BY <1>1, <1>3 DEF RetryInv, AnswersGood
<1>7. OpenedOK'
  BY <1>1, <1>2, <1>3 DEF RetryInv, OpenedOK
<1>8. LinkedOK'
  BY <1>1, <1>3 DEF RetryInv, LinkedOK
<1>9. SessionOK'
  BY <1>1, <1>2 DEF RetryInv, SessionOK
<1>10. SlotOK'
  BY <1>1, <1>2, <1>3, <1>5 DEF RetryInv, SlotOK
<1>11. ErasingOK'
  BY <1>1, <1>2, <1>3, <1>4, <1>5 DEF RetryInv, ErasingOK
<1>12. WritingOK'
  BY <1>1, <1>2, <1>3, <1>4 DEF RetryInv, WritingOK
<1>13. CommittingOK'
  BY <1>1, <1>2, <1>3, <1>4 DEF RetryInv, CommittingOK, Landed
<1>14. RetriesAreHarmless' /\ faults' \in Nat
  BY <1>2 DEF RetryInv, RetriesAreHarmless
<1> QED BY <1>6, <1>7, <1>8, <1>9, <1>10, <1>11, <1>12, <1>13, <1>14 DEF RetryInv

\* Every step of the tool that goes on asking the same.
LEMMA AsksOn ==
  ASSUME PairInv, RetryInv, Send \/ FrameError \/ DiscardStale \/ Timeout, UNCHANGED <<vars, faults>>
  PROVE  RetryInv'
<1>1. /\ host \in Hosts /\ Running /\ host.todo # <<>> /\ toHost \in Seq(Responses) /\ ToolOK(host)
  BY SeqTypes DEF Send, FrameError, DiscardStale, Timeout, Waiting, Running, PairInv, ToolOK
<1>2. /\ host'.flow = host.flow /\ host'.version = host.version /\ host'.slot = host.slot
      /\ host'.todo = host.todo /\ host'.result # "refused"
  <2>1. host.result = "running"
    BY <1>1 DEF Running
  <2>2. CASE Send
    BY <1>1, <2>1, <2>2 DEF Send, Hosts
  <2>3. CASE FrameError \/ Timeout
    BY <1>1, <2>1, <2>3 DEF FrameError, Timeout, Retry, Hosts
  <2>4. CASE DiscardStale
    BY <1>1, <2>1, <2>4 DEF DiscardStale
  <2> QED BY <1>1, <2>2, <2>3, <2>4
<1>3. Asked' = Asked /\ (FlashRun' => FlashRun)
  BY <1>1, <1>2 DEF Asked, FlashRun
<1>4. CASE Send
  <2>1. OnlyAsked => OnlyAsked'
    BY <1>4, SentIsAsked
  <2>2. \A i \in 1..Len(toHost') : \E j \in 1..Len(toHost) : toHost'[i] = toHost[j]
    BY <1>4 DEF Send
  <2>3. Asked.cmd = "BOOT" => host.att = 0
    <3>1. host.att \in Nat
      BY <1>1, ClientAssumption DEF Hosts, ClientAssumption
    <3> QED BY <1>1, <1>4, <3>1 DEF Send, ToolOK, Running, Attempts, Asked
  <2>4. Listening' => Listening
    BY <1>2, <1>3, <2>3 DEF Listening
  <2> QED BY <1>1, <1>2, <2>1, <2>2, <2>4, AskedOn
<1>5. CASE FrameError \/ DiscardStale \/ Timeout
  <2>1. toDev' = toDev /\ (toHost' = toHost \/ (toHost # <<>> /\ toHost' = Tail(toHost)))
    BY <1>5 DEF FrameError, DiscardStale, Timeout, link
  <2>2. \A i \in 1..Len(toHost') : \E j \in 1..Len(toHost) : toHost'[i] = toHost[j]
    BY <1>1, <2>1, QueueItems
  <2>3. host'.att = host.att
    BY <1>1, <1>5 DEF FrameError, DiscardStale, Timeout, Retry, Hosts
  <2>4. (OnlyAsked => OnlyAsked') /\ (Listening' => Listening)
    BY <1>2, <1>3, <2>1, <2>3 DEF OnlyAsked, Asks, Listening
  <2> QED BY <1>1, <1>2, <2>2, <2>4, AskedOn
<1> QED BY <1>4, <1>5

\* A refusal that the tool takes was given with a fault before it.
LEMMA RefusedForFault ==
  ASSUME PairInv, RetryInv, Refused, faults' = faults
  PROVE  RetryInv'
<1>1. /\ toHost \in Seq(Responses) /\ toHost # <<>> /\ host \in Hosts /\ host.result = "running"
      /\ host.todo # <<>> /\ Running
  BY SeqTypes DEF Refused, Waiting, Running, PairInv, ToolOK
<1>2. AsksCmd(toHost[1].cmd) /\ toHost[1].status # "OK" /\ 1 \in 1..Len(toHost)
  <2>1. Head(toHost) = toHost[1] /\ 1 \in 1..Len(toHost)
    BY <1>1, QueueItems
  <2> QED BY <1>1, <2>1 DEF Refused, Answers, AsksCmd
<1>3. ~FlashRun
  BY <1>2 DEF RetryInv, AnswersGood
<1>4. host'.result = "refused" /\ host'.flow = host.flow
  BY <1>1 DEF Refused, Hosts
<1>5. ~FlashRun'
  BY <1>4 DEF FlashRun, Running
<1>6. faults \in Nat /\ (Flashes(host.flow) => faults > 0)
  BY <1>1, <1>3 DEF RetryInv, FlashRun
<1> QED BY <1>4, <1>5, <1>6, NoFlash DEF RetriesAreHarmless, Flashes

\* A run begins with nothing answered and no slot named.
LEMMA StartsClean ==
  ASSUME PairInv, RetryInv, NEW flow \in Flows, StartRun(flow), faults' = faults
  PROVE  RetryInv'
<1>1. /\ toHost' = <<>> /\ host'.slot = NoSlot /\ Asked' = HelloReq /\ host'.result = "running"
  BY DEF StartRun, Asked
<1>2. AnswersGood' /\ OpenedOK'
  BY <1>1 DEF AnswersGood, OpenedOK
<1>3. LinkedOK' /\ SessionOK'
  BY <1>1 DEF LinkedOK, SessionOK, Listening
<1>4. SlotOK' /\ ErasingOK' /\ WritingOK' /\ CommittingOK'
  BY <1>1 DEF SlotOK, ErasingOK, WritingOK, CommittingOK, HelloReq
<1>5. RetriesAreHarmless' /\ faults' \in Nat
  BY <1>1 DEF RetryInv, RetriesAreHarmless
<1> QED BY <1>2, <1>3, <1>4, <1>5 DEF RetryInv

\* Which flow goes on after an OK.
LEMMA GoesOn ==
  ASSUME PairInv, Accepted, FlashRun'
  PROVE  /\ Running /\ Flashes(host.flow) /\ host.todo # <<>> /\ toHost # <<>>
         /\ Head(toHost) \in Responses /\ AsksCmd(Head(toHost).cmd) /\ Head(toHost).seq = host.seq
         /\ OkAnswer(Asked.cmd) /\ toHost' = Tail(toHost) /\ toDev' = toDev
         /\ host'.version = host.version /\ host'.att = 0 /\ host'.todo # <<>>
         /\ \/ /\ Asked.cmd = "HELLO" /\ Head(toHost).value \in Infos
               /\ host'.todo = Plan(host.flow, host.version, Head(toHost).value)
               /\ host'.slot = Head(toHost).value.slot
            \/ /\ Asked.cmd # "HELLO" /\ host'.todo = Tail(host.todo) /\ host'.slot = host.slot
<1> DEFINE f == Head(toHost)
           next == Advance(Tail(host.todo))
           opened == [Advance(Plan(host.flow, host.version, f.value)) EXCEPT !.slot = f.value.slot]
<1>1. /\ Running /\ toHost # <<>> /\ f.cmd = Asked.cmd /\ f.status = "OK" /\ f.seq = host.seq
      /\ host \in Hosts /\ host.todo # <<>> /\ toHost \in Seq(Responses)
      /\ toHost' = Tail(toHost) /\ toDev' = toDev
  BY SeqTypes DEF Accepted, Answers, Waiting, Running, PairInv, ToolOK
<1>2. f \in Responses /\ f = toHost[1] /\ 1 \in 1..Len(toHost)
  BY <1>1, Queues, QueueItems
<1>3. AsksCmd(f.cmd) /\ OkAnswer(Asked.cmd) /\ (Asked.cmd = "HELLO" => f.value \in Infos)
  BY <1>1, <1>2 DEF AsksCmd, OkAnswer, Responses
<1>4. /\ next.flow = host.flow /\ next.version = host.version /\ next.slot = host.slot
      /\ next.todo = Tail(host.todo) /\ next.att = 0
      /\ next.result = "running" => next.todo # <<>>
      /\ LET h == [next EXCEPT !.committed = TRUE] IN
           /\ h.flow = host.flow /\ h.version = host.version /\ h.slot = host.slot
           /\ h.todo = Tail(host.todo) /\ h.att = 0
           /\ h.result = "running" => h.todo # <<>>
  BY <1>1 DEF Advance, Hosts
<1>5. /\ opened.flow = host.flow /\ opened.version = host.version /\ opened.slot = f.value.slot
      /\ opened.todo = Plan(host.flow, host.version, f.value) /\ opened.att = 0
      /\ opened.result = "running" => opened.todo # <<>>
  BY <1>1 DEF Advance, Hosts
<1>6. \A r \in {"no_slot", "mismatch"} : host' # [host EXCEPT !.waiting = FALSE, !.result = r]
  BY <1>1 DEF FlashRun, Running, Hosts
<1>7. host'.result = "running" /\ Flashes(host'.flow)
  BY DEF FlashRun, Running
<1>8. \/ Asked.cmd = "HELLO" /\ host' = opened
      \/ Asked.cmd # "HELLO" /\ host' \in {next, [next EXCEPT !.committed = TRUE]}
  BY <1>6 DEF Accepted
<1> HIDE DEF f, next, opened
<1> QED BY <1>1, <1>2, <1>3, <1>4, <1>5, <1>7, <1>8 DEF f

\* The answer to HELLO begins a flash from nothing.
LEMMA OpensInOrder ==
  ASSUME PairInv, FlightOK, RetryInv, Accepted, UNCHANGED <<vars, faults>>, Asked.cmd = "HELLO", FlashRun'
  PROVE  RetryInv'
<1> DEFINE f == Head(toHost)
<1>1. /\ Running /\ Flashes(host.flow) /\ host.todo # <<>> /\ toHost # <<>>
      /\ toHost' = Tail(toHost) /\ host'.version = host.version /\ f.cmd = "HELLO"
      /\ f.value \in Infos /\ host'.todo = Plan(host.flow, host.version, f.value)
      /\ host'.slot = f.value.slot /\ toHost \in Seq(Responses) /\ faults' = faults
      /\ host.version \in 1..MaxRuns
  BY GoesOn, SeqTypes DEF Accepted, Answers, PairInv, ToolOK, Running
<1>2. Opening /\ FlashRun
  BY <1>1 DEF Opening, AsksCmd, FlashRun
<1>3. f = toHost[1] /\ 1 \in 1..Len(toHost)
  BY <1>1, QueueItems
<1>4. mode = "core" /\ s = [EmptySession EXCEPT !.open = TRUE] /\ f.value.slot = write
  BY <1>1, <1>2, <1>3 DEF RetryInv, OpenedOK
<1>5. pc = "idle" /\ \A j \in 1..Len(toHost') : toHost'[j].cmd \in {"HELLO", "FRAME_ERR"}
  BY <1>1, <1>2, OnlyHellosFollow
<1> HIDE DEF f
<1>6. /\ host'.todo # <<>> /\ Asked'.cmd = "ERASE" /\ Orderly(host'.todo, BuildOf(host)', host'.slot)
      /\ \A w \in 1..Len(BuildOf(host)') : EraseOf(host'.todo, w)
  BY <1>1, PlanChain DEF BuildOf, Asked
<1>7. /\ mode' = "core" /\ s' = [EmptySession EXCEPT !.open = TRUE] /\ write' = host'.slot /\ pc' = "idle"
  BY <1>1, <1>4, <1>5 DEF vars, life, slots
<1>8. s'.open /\ s'.stream = "RUN" /\ s'.bitmap = {} /\ s'.next = 0
  BY <1>7 DEF EmptySession
<1>9. AnswersGood' /\ OpenedOK' /\ ~OkAnswer("ERASE")'
  BY <1>5, <1>6 DEF AnswersGood, OpenedOK, Opening, AsksCmd, OkAnswer
<1>10. LinkedOK' /\ SessionOK'
  BY <1>6, <1>7, <1>8 DEF LinkedOK, SessionOK
<1>11. SlotOK' /\ ErasingOK'
  BY <1>6, <1>7, <1>8, <1>9 DEF SlotOK, ErasingOK, Covered
<1>12. WritingOK' /\ CommittingOK'
  BY <1>6 DEF WritingOK, CommittingOK
<1>13. RetriesAreHarmless' /\ faults' \in Nat
  BY <1>1 DEF RetriesAreHarmless, FlashRun, Running, RetryInv
<1> QED BY <1>9, <1>10, <1>11, <1>12, <1>13 DEF RetryInv

\* An order that is kept by what is left of a flash, and what comes next.
LEMMA NextInOrder ==
  ASSUME NEW todo \in Seq(Fitting), todo # <<>>, InSequence(todo), NEW build, NEW slot,
         Orderly(todo, build, slot), Tail(todo) # <<>>
  PROVE  /\ Orderly(Tail(todo), build, slot) /\ Follows(Head(todo), Head(Tail(todo)), Len(build))
         /\ Head(Tail(todo)) \in Fitting
         /\ Rank(Head(todo)) <= Rank(Head(Tail(todo)))
         /\ Rank(Head(todo)) > 2 => Rank(Head(todo)) < Rank(Head(Tail(todo)))
<1> DEFINE left == Tail(todo)
           n == Len(todo)
           m == Len(left)
<1>1. /\ n \in Nat \ {0} /\ Head(todo) = todo[1] /\ m = n - 1 /\ m \in Nat \ {0}
      /\ left \in Seq(Fitting) /\ Head(left) = left[1] /\ Head(left) \in Fitting
      /\ \A i \in 1..m : left[i] = todo[i + 1] /\ i + 1 \in 1..n
  <2>1. left \in Seq(Fitting) /\ n \in Nat \ {0} /\ Head(todo) = todo[1] /\ m = n - 1
        /\ \A i \in 1..m : left[i] = todo[i + 1] /\ i + 1 \in 1..n
    BY QueueItems, Queues
  <2>2. Head(left) = left[1] /\ m \in Nat \ {0} /\ Head(left) \in Fitting
    BY <2>1, QueueItems, Queues
  <2> QED BY <2>1, <2>2
<1>2. Members(todo) = {Head(todo)} \union Members(left) /\ Head(left) \in Members(left)
  BY <1>1, TailKeeps
<1> HIDE DEF left, n, m
<1>3. ASSUME NEW i \in 1..m, NEW j \in 1..m, j = i + 1 PROVE Follows(left[i], left[j], Len(build))
  BY <1>1, <1>3 DEF Orderly, Linked, n
<1>4. Follows(todo[1], left[1], Len(build))
  BY <1>1 DEF Orderly, Linked, n
<1>5. \A q \in Members(left) : Within(q, slot)
  BY <1>2 DEF Orderly
<1>6. Orderly(left, build, slot)
  BY <1>3, <1>5 DEF Orderly, Linked, m
<1> QED BY <1>1, <1>2, <1>4, <1>6, TailKeeps DEF left

\* An OK to anything else leaves the device where the next request needs it.
LEMMA GoesOnInOrder ==
  ASSUME PairInv, FlightOK, RetryInv, Accepted, UNCHANGED <<vars, faults>>, Asked.cmd # "HELLO", FlashRun'
  PROVE  RetryInv'
<1>1. /\ FlashRun /\ host.todo # <<>> /\ toHost # <<>> /\ AsksCmd(Head(toHost).cmd)
      /\ Head(toHost).seq = host.seq /\ OkAnswer(Asked.cmd) /\ toHost' = Tail(toHost) /\ toDev' = toDev
      /\ host'.version = host.version /\ host'.att = 0 /\ host'.todo # <<>>
      /\ host'.todo = Tail(host.todo) /\ host'.slot = host.slot /\ faults' = faults
  BY GoesOn DEF FlashRun
<1>2. /\ host.slot # NoSlot /\ Own /\ host.todo \in Seq(Fitting) /\ InSequence(host.todo)
      /\ Asked \in Fitting /\ FramesOK /\ Members(host.todo) = {Asked} \union Members(host'.todo)
  BY <1>1, FlashFacts, TailKeeps DEF PairInv, ToolOK, HelloReq, Asked
<1>3. toHost' = <<>> /\ toDev' = <<>> /\ pc = "idle"
  BY <1>1, <1>2, AnswerIsLast
<1> DEFINE build == BuildOf(host)
           q == Asked'
<1>4. /\ BuildOf(host)' = build /\ mode' = mode /\ s' = s /\ write' = write /\ img' = img /\ pc' = pc
      /\ rec_state' = rec_state /\ \A w : Covered(w)' = Covered(w)
  BY <1>1 DEF BuildOf, vars, flash, life, slots, record, Covered
<1>5. /\ Orderly(host'.todo, build, host.slot) /\ Follows(Asked, q, Len(build)) /\ q \in Fitting
      /\ Rank(Asked) <= Rank(q) /\ (Rank(Asked) > 2 => Rank(Asked) < Rank(q))
  BY <1>1, <1>2, NextInOrder DEF RetryInv, LinkedOK, Asked
<1> HIDE DEF build, q
<1>6. Rank(Asked) \in 0..5 /\ Rank(q) \in 0..5
  BY <1>2, <1>5, Ranks
<1>7. /\ Asked.cmd \in {"ERASE", "WRITE", "COMMIT", "CRC"}
      /\ q.cmd \in {"CRC", "BOOT"} => Asked.cmd \in {"COMMIT", "CRC"}
      /\ q.cmd = "COMMIT" => Asked.cmd = "WRITE"
      /\ q.cmd = "WRITE" => Asked.cmd \in {"ERASE", "WRITE"}
      /\ q.cmd = "ERASE" => Asked.cmd = "ERASE"
  <2>1. /\ Asked.cmd \in {"HELLO", "ERASE", "WRITE", "COMMIT", "CRC", "BOOT"}
        /\ Asked.cmd = "ERASE" <=> Rank(Asked) = 1
        /\ Asked.cmd = "WRITE" <=> Rank(Asked) = 2
        /\ Asked.cmd = "COMMIT" <=> Rank(Asked) = 3
        /\ Asked.cmd = "CRC" <=> Rank(Asked) = 4
        /\ Asked.cmd = "BOOT" <=> Rank(Asked) = 5
    BY <1>2, Ranks
  <2>2. /\ q.cmd = "ERASE" <=> Rank(q) = 1
        /\ q.cmd = "WRITE" <=> Rank(q) = 2
        /\ q.cmd = "COMMIT" <=> Rank(q) = 3
        /\ q.cmd = "CRC" <=> Rank(q) = 4
        /\ q.cmd = "BOOT" <=> Rank(q) = 5
    BY <1>5, Ranks
  <2>3. /\ Asked.cmd = "ERASE" => q.cmd \in {"ERASE", "WRITE"}
        /\ Asked.cmd = "WRITE" => q.cmd \in {"WRITE", "COMMIT"}
    BY <1>5 DEF Follows
  <2>4. Asked.cmd # "BOOT"
    BY <1>5, <1>6, <2>1
  <2> QED BY <1>5, <1>6, <2>1, <2>2, <2>3, <2>4
<1>8. AnswersGood' /\ OpenedOK' /\ LinkedOK'
  BY <1>1, <1>3, <1>4, <1>5 DEF AnswersGood, OpenedOK, LinkedOK
<1>9. SessionOK'
  <2>1. mode = "core" /\ s.open
    BY <1>1, <1>2, <1>7 DEF RetryInv, SessionOK, Listening
  <2>2. Asked.cmd = "COMMIT" => rec_state = "FRESH"
    BY <1>1 DEF RetryInv, CommittingOK, Landed
  <2>3. Asked.cmd = "CRC" => rec_state = "FRESH"
    BY <1>1, <1>2 DEF RetryInv, SessionOK, Listening
  <2>4. OnlyAsked'
    BY <1>3 DEF OnlyAsked
  <2> QED BY <1>4, <1>7, <2>1, <2>2, <2>3, <2>4 DEF SessionOK, q
<1>10. SlotOK'
  <2> SUFFICES ASSUME q.cmd \in {"ERASE", "WRITE"}
               PROVE  /\ write = host.slot /\ s.stream = "RUN"
                      /\ \A w \in 1..Len(build) :
                           /\ EraseOf(host'.todo, w) \/ Covered(w)
                           /\ Covered(w) => img[host.slot][w] \subseteq build[w]
    BY <1>1, <1>4 DEF SlotOK, q
  <2>1. /\ write = host.slot /\ s.stream = "RUN"
        /\ \A w \in 1..Len(build) :
             /\ EraseOf(host.todo, w) \/ Covered(w)
             /\ Covered(w) => img[host.slot][w] \subseteq build[w]
    BY <1>1, <1>7 DEF RetryInv, SlotOK, build
  <2>2. ASSUME NEW w \in 1..Len(build), EraseOf(host.todo, w) PROVE EraseOf(host'.todo, w) \/ Covered(w)
    <3>1. PICK r \in Members(host.todo) : r.cmd = "ERASE" /\ w \in r.at + 1..r.at + r.n
      BY <2>2 DEF EraseOf
    <3>2. CASE r = Asked
      BY <1>1, <3>1, <3>2 DEF RetryInv, ErasingOK
    <3>3. CASE r \in Members(host'.todo)
      BY <3>1, <3>3 DEF EraseOf
    <3> QED BY <1>2, <3>2, <3>3
  <2> QED BY <2>1, <2>2
<1>11. ErasingOK'
  <2>1. ~OkAnswer("ERASE")'
    BY <1>3 DEF OkAnswer
  <2> QED BY <1>1, <1>3, <1>4, <1>7, <2>1 DEF RetryInv, ErasingOK, q
<1>12. WritingOK'
  <2>1. ~OkAnswer("WRITE")'
    BY <1>3 DEF OkAnswer
  <2>2. q.cmd = "WRITE" => s.next = q.at
    BY <1>1, <1>5, <1>7 DEF RetryInv, ErasingOK, WritingOK, Follows
  <2> QED BY <1>4, <2>1, <2>2 DEF WritingOK, q
<1>13. CommittingOK'
  <2>1. ~OkAnswer("COMMIT")'
    BY <1>3 DEF OkAnswer
  <2>2. q.cmd = "COMMIT" => write = host.slot /\ s.stream = "RUN" /\ s.next = Len(build)
    BY <1>1, <1>5, <1>7 DEF RetryInv, SlotOK, WritingOK, Follows
  <2> QED BY <1>1, <1>4, <2>1, <2>2 DEF CommittingOK, q
<1>14. RetriesAreHarmless' /\ faults' \in Nat
  BY <1>1 DEF RetriesAreHarmless, FlashRun, Running, RetryInv
<1> QED BY <1>8, <1>9, <1>10, <1>11, <1>12, <1>13, <1>14 DEF RetryInv

\* Every step of the tool.
LEMMA ToolRetry ==
  ASSUME PairInv, FlightOK, RetryInv, HostStep, UNCHANGED <<vars, faults>>
  PROVE  RetryInv'
<1>1. CASE Send \/ FrameError \/ DiscardStale \/ Timeout
  BY <1>1, AsksOn
<1>2. CASE Refused
  BY <1>2, RefusedForFault
<1>3. CASE Accepted
  <2>1. CASE FlashRun'
    BY <1>3, <2>1, OpensInOrder, GoesOnInOrder
  <2>2. CASE ~FlashRun'
    <3>1. host'.result # "refused"
      <4>1. host \in Hosts /\ host.result = "running"
        BY <1>3 DEF Accepted, Waiting, Running, PairInv, ToolOK
      <4> QED BY <1>3, <4>1 DEF Accepted, Advance, Hosts
    <3> QED BY <2>2, <3>1, NoFlash DEF RetriesAreHarmless, RetryInv
  <2> QED BY <2>1, <2>2
<1>4. ASSUME NEW flow \in Flows, StartRun(flow) PROVE RetryInv'
  BY <1>4, StartsClean
<1> QED BY <1>1, <1>2, <1>3, <1>4 DEF HostStep, ClientStep

-----------------------------------------------------------------------------
(* Why a flash is not refused: the device keeps it *)

\* What is in the line of answers was there, or has just been given.
LEMMA AnswerItems ==
  ASSUME FramesOK, NEW c, NEW seq, NEW status, NEW value, Answer(c, seq, status, value),
         NEW i \in 1..Len(toHost')
  PROVE  \/ \E j \in 1..Len(toHost) : toHost'[i] = toHost[j]
         \/ toHost'[i].cmd = c /\ toHost'[i].status = status /\ toHost'[i].value = value
<1> DEFINE f == [cmd |-> c, seq |-> seq, status |-> status, value |-> value]
           n == Len(toHost)
<1>1. f.cmd = c /\ f.status = status /\ f.value = value
  OBVIOUS
<1>2. n \in Nat /\ Len(Append(toHost, f)) = n + 1 /\ Append(toHost, f)[n + 1] = f
      /\ \A j \in 1..n : Append(toHost, f)[j] = toHost[j]
  BY SeqTypes, QueueItems
<1> HIDE DEF f
<1>3. CASE toHost' = toHost
  BY <1>3
<1>4. CASE toHost' = Append(toHost, f)
  <2>1. i \in 1..n \/ i = n + 1
    BY <1>2, <1>4
  <2> QED BY <1>1, <1>2, <1>4, <2>1
<1> QED BY <1>3, <1>4 DEF Answer, f

\* An answer that is not one to what is asked, or is no refusal.
LEMMA AnswersStayGood ==
  ASSUME FramesOK, AnswersGood, host' = host, faults' = faults, NEW c, NEW seq, NEW status, NEW value,
         Answer(c, seq, status, value), AsksCmd(c) => status = "OK"
  PROVE  AnswersGood' /\ \A cmd : OkAnswer(cmd)' => OkAnswer(cmd) \/ c = cmd
<1>1. (FlashRun' <=> FlashRun) /\ \A x : AsksCmd(x)' = AsksCmd(x)
  BY DEF FlashRun, Running, AsksCmd, Asked
<1>2. AnswersGood'
  BY <1>1, AnswerItems DEF AnswersGood
<1>3. \A cmd : OkAnswer(cmd)' => OkAnswer(cmd) \/ c = cmd
  BY AnswerItems DEF OkAnswer
<1> QED BY <1>2, <1>3

\* As long as the line is as it was.
LEMMA NoAnswer ==
  ASSUME AnswersGood, host' = host, faults' = faults, toHost' = toHost
  PROVE  AnswersGood' /\ \A cmd : OkAnswer(cmd)' <=> OkAnswer(cmd)
BY DEF AnswersGood, FlashRun, Running, AsksCmd, Asked, OkAnswer

\* What a step of the device leaves to be shown once the slot is known.
LEMMA FlashStays ==
  ASSUME RetryInv, FlashRun, host.slot # NoSlot, ~Opening, host' = host, faults' = faults,
         AnswersGood', SessionOK', SlotOK', ErasingOK', WritingOK', CommittingOK'
  PROVE  RetryInv'
<1>1. OpenedOK'
  BY DEF OpenedOK, Opening, AsksCmd, Asked
<1>2. LinkedOK'
  BY DEF RetryInv, LinkedOK, FlashRun, Running, BuildOf
<1>3. RetriesAreHarmless' /\ faults' \in Nat
  BY DEF RetryInv, RetriesAreHarmless
<1> QED BY <1>1, <1>2, <1>3 DEF RetryInv

\* Who the device can hear while a flash goes on.
LEMMA DeviceTurn ==
  ASSUME PairInv, FlightOK, RetryInv, FlashRun, host.slot # NoSlot, Device, faults' = faults
  PROVE  /\ host' = host /\ (OnlyAsked => OnlyAsked')
         /\ \/ ServeGarbled
            \/ ServeHello /\ ~OnlyAsked
            \/ ~s.open /\ ServeUnopened
            \/ FlashDone /\ pc # "idle" /\ Doing(Asked)
            \/ /\ toDev # <<>> /\ Frame.body = Asked /\ pc = "idle"
               /\ \/ ServeErase /\ Asked.cmd = "ERASE"
                  \/ ServeWrite /\ Asked.cmd = "WRITE"
                  \/ ServeCommit /\ Asked.cmd = "COMMIT"
                  \/ ServeCrc /\ Asked.cmd = "CRC"
                  \/ ServeBoot /\ Asked.cmd = "BOOT"
            \/ Elsewhere
<1>1. /\ host' = host /\ (OnlyAsked => OnlyAsked') /\ ~Opening /\ FramesOK
      /\ toDev # <<>> => /\ Asks(Frame.body) \/ Frame.body \in {Garbled, HelloReq}
                         /\ OnlyAsked => Asks(Frame.body) \/ Frame.body = Garbled
  BY DevicePops, FlashFacts DEF PairInv
<1>2. ~FlashFails /\ ~DevicePowerCut
  BY DEF FlashFails, DevicePowerCut, RetryInv
<1>3. CASE ServeHello
  <2>1. toDev # <<>> /\ Frame.body.cmd = "HELLO"
    BY <1>3 DEF ServeHello, Serve
  <2>2. Asks(Frame.body) => Opening
    BY <2>1 DEF Asks, Opening, AsksCmd
  <2> QED BY <1>1, <1>3, <2>1, <2>2, RequestIs
<1>4. CASE FlashDone
  <2>1. pc # "idle"
    BY <1>4 DEF FlashDone, Disarm, EraseBlock, Program, RecErase, RecProgram
  <2> QED BY <1>1, <1>4, <2>1, WorksOnAsked
<1>5. ASSUME NEW cmd \in {"ERASE", "WRITE", "COMMIT", "CRC", "BOOT"},
             toDev # <<>>, Frame.body.cmd = cmd
      PROVE  Frame.body = Asked /\ Asked.cmd = cmd
  BY <1>1, <1>5, RequestIs DEF Asks
<1>6. CASE ServeErase \/ ServeWrite \/ ServeCommit \/ ServeCrc
  <2>1. pc = "idle" /\ toDev # <<>>
    BY <1>6 DEF ServeErase, ServeWrite, ServeCommit, ServeCrc, Serve, Idle
  <2> QED BY <1>1, <1>5, <1>6, <2>1 DEF ServeErase, ServeWrite, ServeCommit, ServeCrc, Serve
<1>7. CASE ServeBoot
  BY <1>1, <1>5, <1>7 DEF ServeBoot, Idle
<1>8. CASE ServeUnopened
  BY <1>1, <1>8 DEF ServeUnopened
<1> QED BY <1>1, <1>2, <1>3, <1>4, <1>6, <1>7, <1>8 DEF Device

\* HELLO: only the device's own answer to it begins a session.
LEMMA OpeningStays ==
  ASSUME PairInv, FlightOK, RetryInv, FlashRun, host.slot = NoSlot, Device, faults' = faults
  PROVE  RetryInv'
<1>1. /\ host' = host /\ Opening /\ Asked = HelloReq /\ FramesOK
      /\ toDev # <<>> /\ OnlyAsked => Frame.body \in {HelloReq, Garbled}
  BY DevicePops, FlashFacts DEF PairInv, Asks
<1>2. ~FlashFails /\ ~DevicePowerCut
  BY DEF FlashFails, DevicePowerCut, RetryInv
<1>3. /\ Asked' = HelloReq /\ Opening' /\ \A x : AsksCmd(x) <=> x = "HELLO"
      /\ \A c, seq, status, value : Answer(c, seq, status, value) /\ (c = "HELLO" => status = "OK") => AnswersGood'
  BY <1>1, AnswersStayGood DEF Opening, AsksCmd, Asked, HelloReq, RetryInv
<1>4. ASSUME ~ServeHello
      PROVE  toHost' = toHost \/ \E c, seq, status, value : Answer(c, seq, status, value) /\ c # "HELLO"
  <2>1. CASE ServeGarbled \/ ServeBoot
    BY <2>1 DEF ServeGarbled, ServeBoot
  <2>2. CASE ServeUnopened
    <3>1. PICK cmd \in {"ERASE", "WRITE", "COMMIT", "CRC", "BOOT"} : Serve(cmd)
      BY <2>2 DEF ServeUnopened
    <3> QED BY <2>2, <3>1 DEF ServeUnopened, AnswerNow, Serve
  <2>3. CASE ServeErase \/ ServeWrite \/ ServeCommit \/ ServeCrc
    <3>1. Frame.body.cmd # "HELLO" /\ (AnswerLater \/ \E status, value : AnswerNow(status, value))
      BY <2>3 DEF ServeErase, ServeWrite, ServeCommit, ServeCrc, Serve
    <3> QED BY <3>1 DEF AnswerLater, AnswerNow
  <2>4. CASE FlashDone
    <3>1. req.cmd # "HELLO"
      BY <2>4 DEF FlashDone, Disarm, EraseBlock, Program, RecErase, RecProgram, PairInv, IInv, PcOK
    <3> QED BY <2>4, <3>1 DEF FlashDone
  <2>5. CASE Elsewhere
    BY <2>5 DEF Elsewhere
  <2> QED BY <1>2, <1>4, <2>1, <2>2, <2>3, <2>4, <2>5 DEF Device
<1>5. AnswersGood'
  BY <1>1, <1>3, <1>4, NoAnswer DEF ServeHello, RetryInv
<1>6. OpenedOK'
  <2> SUFFICES ASSUME NEW i \in 1..Len(toHost'), toHost'[i].cmd = "HELLO"
               PROVE  mode' = "core" /\ s' = [EmptySession EXCEPT !.open = TRUE] /\ toHost'[i].value.slot = write'
    BY DEF OpenedOK
  <2>1. CASE ServeHello
    <3>1. mode' = "core" /\ s' = [EmptySession EXCEPT !.open = TRUE] /\ write' = write
      BY <2>1 DEF ServeHello, Hello, Idle, life, slots
    <3>2. (\E j \in 1..Len(toHost) : toHost'[i] = toHost[j]) \/ toHost'[i].value.slot = write
      <4> DEFINE info == [slot |-> write, cap |-> Capacity(write), block |-> BlockSize, chunk |-> MaxChunk,
                          live |-> CrcLive]
      <4>1. Answer("HELLO", Frame.seq, "OK", info) /\ info.slot = write
        BY <2>1 DEF ServeHello
      <4> HIDE DEF info
      <4> QED BY <1>1, <4>1, AnswerItems
    <3>3. ASSUME NEW j \in 1..Len(toHost), toHost'[i] = toHost[j] PROVE toHost'[i].value.slot = write
      BY <1>1, <3>3 DEF RetryInv, OpenedOK
    <3> QED BY <3>1, <3>2, <3>3
  <2>2. ASSUME NEW j \in 1..Len(toHost), toHost'[i] = toHost[j], ~ServeHello
        PROVE  mode' = "core" /\ s' = [EmptySession EXCEPT !.open = TRUE] /\ toHost'[i].value.slot = write'
    <3>1. /\ mode = "core" /\ s = [EmptySession EXCEPT !.open = TRUE] /\ toHost'[i].value.slot = write
          /\ OnlyAsked /\ pc = "idle"
      BY <1>1, <1>3, <2>2 DEF RetryInv, OpenedOK, FlightOK, AnsweredOK
    <3>2. s.open
      BY <3>1 DEF EmptySession
    <3>3. CASE ServeGarbled
      BY <3>1, <3>3 DEF ServeGarbled, vars, life, slots
    <3>4. CASE ServeErase \/ ServeWrite \/ ServeCommit \/ ServeCrc \/ ServeBoot
      <4>1. toDev # <<>> /\ Frame.body.cmd \in {"ERASE", "WRITE", "COMMIT", "CRC", "BOOT"}
        BY <3>4 DEF ServeErase, ServeWrite, ServeCommit, ServeCrc, ServeBoot, Serve
      <4> QED BY <1>1, <3>1, <4>1, RequestIs
    <3>5. CASE ServeUnopened \/ FlashDone
      BY <3>1, <3>2, <3>5 DEF ServeUnopened, FlashDone, Disarm, EraseBlock, Program, RecErase, RecProgram
    <3>6. CASE Elsewhere
      BY <3>1, <3>2, <3>6 DEF Elsewhere, Decide, IdleBoot, AppResets
    <3> QED BY <1>2, <2>2, <3>3, <3>4, <3>5, <3>6 DEF Device
  <2>3. ASSUME ~ServeHello PROVE \E j \in 1..Len(toHost) : toHost'[i] = toHost[j]
    BY <1>1, <1>4, <2>3, AnswerItems
  <2> QED BY <2>1, <2>2, <2>3
<1>7. LinkedOK' /\ SessionOK'
  BY <1>1 DEF LinkedOK, SessionOK, Listening
<1>8. SlotOK' /\ ErasingOK' /\ WritingOK' /\ CommittingOK'
  BY <1>3 DEF SlotOK, ErasingOK, WritingOK, CommittingOK, HelloReq
<1>9. RetriesAreHarmless' /\ faults' \in Nat
  BY <1>1 DEF RetryInv, RetriesAreHarmless
<1> QED BY <1>6, <1>7, <1>8, <1>9, <1>5 DEF RetryInv

\* After the BOOT that ends the flow was heard, the device hears no more of it.
LEMMA DeafStays ==
  ASSUME PairInv, FlightOK, RetryInv, FlashRun, host.slot # NoSlot, ~Listening, Device, faults' = faults
  PROVE  RetryInv'
<1>1. /\ Asked.cmd = "BOOT" /\ host.att # 0 /\ toDev = <<>> /\ host' = host /\ ~Opening
  BY FlashFacts, DevicePops DEF Listening
<1>2. ~FlashFails /\ ~DevicePowerCut
  BY DEF FlashFails, DevicePowerCut, RetryInv
<1>3. ~FlashDone
  <2>1. FlashDone => pc # "idle"
    BY DEF FlashDone, Disarm, EraseBlock, Program, RecErase, RecProgram
  <2>2. pc # "idle" => req.cmd = "BOOT"
    BY <1>1, WorksOnAsked DEF Doing
  <2> QED BY <2>1, <2>2, Working DEF PairInv
<1>4. Elsewhere
  BY <1>1, <1>2, <1>3 DEF Device, ServeGarbled, ServeHello, ServeUnopened, ServeErase, ServeWrite, ServeCommit,
        ServeCrc, ServeBoot, Serve
<1>5. toHost' = toHost /\ toDev' = <<>> /\ Asked' = Asked
  BY <1>1, <1>4 DEF Elsewhere, Asked
<1>6. AnswersGood'
  BY <1>1, <1>5, NoAnswer DEF RetryInv
<1>7. SessionOK' /\ SlotOK' /\ ErasingOK' /\ WritingOK' /\ CommittingOK'
  BY <1>1, <1>5 DEF SessionOK, Listening, SlotOK, ErasingOK, WritingOK, CommittingOK
<1> QED BY <1>1, <1>6, <1>7, FlashStays

\* A frame that cannot be read changes nothing.
LEMMA GarbledStays ==
  ASSUME PairInv, RetryInv, Listening, ServeGarbled, OnlyAsked => OnlyAsked'
  PROVE  RetryInv'
<1>1. /\ FlashRun /\ host.slot # NoSlot /\ host' = host /\ faults' = faults /\ ~Opening /\ FramesOK
      /\ Answer("FRAME_ERR", Frame.seq, "E_CRC", 0) /\ ~AsksCmd("FRAME_ERR")
  BY FlashFacts, AskedIs DEF Listening, ServeGarbled, Serve, PairInv
<1>2. AnswersGood' /\ \A cmd : OkAnswer(cmd)' => OkAnswer(cmd) \/ "FRAME_ERR" = cmd
  BY <1>1, AnswersStayGood DEF RetryInv
<1>3. /\ Asked' = Asked /\ BuildOf(host)' = BuildOf(host) /\ mode' = mode /\ s' = s /\ write' = write /\ img' = img
      /\ pc' = pc /\ req' = req /\ rec_state' = rec_state /\ committed' = committed
      /\ \A w : Covered(w)' = Covered(w)
  BY <1>1 DEF ServeGarbled, vars, flash, life, slots, record, Asked, BuildOf, Covered
<1>4. SessionOK'
  BY <1>1, <1>3 DEF RetryInv, SessionOK, Listening
<1>5. SlotOK'
  BY <1>1, <1>3 DEF RetryInv, SlotOK
<1>6. ErasingOK' /\ WritingOK'
  BY <1>1, <1>2, <1>3 DEF RetryInv, ErasingOK, WritingOK
<1>7. CommittingOK'
  BY <1>1, <1>2, <1>3 DEF RetryInv, CommittingOK, Landed
<1> QED BY <1>1, <1>2, <1>4, <1>5, <1>6, <1>7, FlashStays

\* A HELLO that comes late starts the session again, before anything was erased.
LEMMA HelloStays ==
  ASSUME PairInv, FlightOK, RetryInv, Listening, ServeHello, ~OnlyAsked
  PROVE  RetryInv'
<1>1. /\ FlashRun /\ host.slot # NoSlot /\ host' = host /\ faults' = faults /\ ~Opening /\ FramesOK
      /\ ~AsksCmd("HELLO") /\ \E value : Answer("HELLO", Frame.seq, "OK", value)
  BY FlashFacts DEF Listening, ServeHello, Serve, PairInv, Hello, Opening
<1>2. AnswersGood' /\ \A cmd : OkAnswer(cmd)' => OkAnswer(cmd) \/ "HELLO" = cmd
  BY <1>1, AnswersStayGood DEF RetryInv
<1>3. /\ Asked' = Asked /\ BuildOf(host)' = BuildOf(host) /\ mode' = "core" /\ write' = write /\ pc' = "idle"
      /\ s' = [EmptySession EXCEPT !.open = TRUE] /\ rec_state' = rec_state
  BY <1>1 DEF ServeHello, Hello, Idle, life, slots, record, Asked, BuildOf
<1>4. s'.open /\ s'.stream = "RUN" /\ s'.bitmap = {} /\ s'.next = 0
  BY <1>3 DEF EmptySession
<1>5. \A w \in 1..Len(BuildOf(host)) : EraseOf(host.todo, w)
  BY DEF RetryInv, SessionOK
<1>6. Asked.cmd = "ERASE"
  <2>1. 1 \in 1..Len(BuildOf(host)) /\ Asked \in Fitting /\ ~Opening /\ host.todo # <<>>
    BY <1>1, FlashFacts, DecisionAssumption DEF DecisionAssumption
  <2>2. PICK q \in Members(host.todo) : q.cmd = "ERASE"
    BY <1>5, <2>1 DEF EraseOf
  <2>3. q \in Fitting /\ Rank(Asked) <= Rank(q)
    BY <1>1, <2>2, FlashFacts
  <2>4. Rank(Asked) \in 0..5 /\ Rank(q) = 1 /\ (Asked.cmd = "HELLO" <=> Rank(Asked) = 0)
        /\ (Asked.cmd = "ERASE" <=> Rank(Asked) = 1)
    BY <2>1, <2>2, <2>3, Ranks
  <2> QED BY <2>1, <2>3, <2>4 DEF Opening, AsksCmd
<1>7. ~OkAnswer("ERASE")'
  <2>1. ~OkAnswer("ERASE")
    BY <1>1, <1>6, FlashFacts DEF OkAnswer, FlightOK, AnsweredOK, AsksCmd
  <2> QED BY <1>2, <2>1
<1>8. SessionOK'
  BY <1>1, <1>3, <1>4, <1>5, <1>6 DEF SessionOK
<1>9. SlotOK' /\ ErasingOK'
  <2>1. write = host.slot
    BY <1>1, <1>6 DEF RetryInv, SlotOK
  <2> QED BY <1>1, <1>3, <1>4, <1>5, <1>6, <1>7, <2>1 DEF SlotOK, ErasingOK, Covered
<1>10. WritingOK' /\ CommittingOK'
  BY <1>3, <1>6 DEF WritingOK, CommittingOK
<1> QED BY <1>1, <1>2, <1>8, <1>9, <1>10, FlashStays

\* What the slot and the device's run are while words are erased and written.
LEMMA SlotFacts ==
  ASSUME PairInv, RetryInv, FlashRun, host.slot # NoSlot, Usable = {0, 1}
  PROVE  /\ BlockSize \in Nat \ {0} /\ SlotWords \in Nat \ {0} /\ s \in Session /\ img \in [Slots -> Image]
         /\ write \in Slots /\ Capacity(write) = SlotWords
         /\ Asked.cmd = "ERASE" =>
              /\ Asked.slot = host.slot /\ Asked.at \in Nat /\ Asked.n \in Nat \ {0}
              /\ Asked.at % BlockSize = 0 /\ Asked.n % BlockSize = 0 /\ Asked.at + Asked.n <= SlotWords
         /\ Asked.cmd = "WRITE" =>
              /\ Asked.slot = host.slot /\ Asked.at \in Nat /\ Asked.data \in Chunk /\ Asked.data \in Seq(Word)
              /\ Len(Asked.data) \in Nat \ {0} /\ Asked.at + Len(Asked.data) <= Len(BuildOf(host))
              /\ \A j \in 1..Len(Asked.data) : Asked.data[j] = BuildOf(host)[Asked.at + j]
              /\ \A w \in 1..Len(BuildOf(host)) : Covered(w) /\ img[host.slot][w] \subseteq BuildOf(host)[w]
<1>1. /\ BlockSize \in Nat \ {0} /\ SlotWords \in Nat \ {0} /\ s \in Session /\ img \in [Slots -> Image]
      /\ write \in Slots /\ Capacity(write) = SlotWords
  BY CoreAssumption, DecisionAssumption DEF CoreAssumption, DecisionAssumption, PairInv, IInv, TypeOK, Slots,
     Capacity
<1>2. Asked \in Fitting /\ Asked \in Members(host.todo) /\ host.todo # <<>>
  BY FlashFacts
<1>3. ASSUME Asked.cmd = "ERASE"
      PROVE  /\ Asked.slot = host.slot /\ Asked.at \in Nat /\ Asked.n \in Nat \ {0}
             /\ Asked.at % BlockSize = 0 /\ Asked.n % BlockSize = 0 /\ Asked.at + Asked.n <= SlotWords
  <2>1. Asked \in [cmd : {"ERASE"}, slot : Slots, at : Nat, n : Nat \ {0}] /\ Fits(Asked)
    BY <1>2, <1>3 DEF Fitting, HostRequests, HelloReq
  <2>2. Within(Asked, host.slot)
    BY <1>2 DEF RetryInv, LinkedOK, Orderly
  <2> QED BY <1>3, <2>1, <2>2 DEF Fits, Within
<1>4. ASSUME Asked.cmd = "WRITE"
      PROVE  /\ Asked.slot = host.slot /\ Asked.at \in Nat /\ Asked.data \in Chunk /\ Asked.data \in Seq(Word)
             /\ Len(Asked.data) \in Nat \ {0} /\ Asked.at + Len(Asked.data) <= Len(BuildOf(host))
             /\ \A j \in 1..Len(Asked.data) : Asked.data[j] = BuildOf(host)[Asked.at + j]
             /\ \A w \in 1..Len(BuildOf(host)) : Covered(w) /\ img[host.slot][w] \subseteq BuildOf(host)[w]
  <2>1. Asked \in [cmd : {"WRITE"}, slot : Slots, at : Nat, data : Seq(Word) \ {<<>>}] /\ Fits(Asked)
    BY <1>2, <1>4 DEF Fitting, HostRequests, HelloReq
  <2>2. Asked.at \in Nat /\ Asked.data \in Chunk
    BY <1>4, <2>1 DEF Fits
  <2>3. Asked.data \in Seq(Word) /\ Len(Asked.data) \in Nat \ {0}
    BY <2>2, ChunkType
  <2>4. PartOf(Asked, BuildOf(host), host.slot)
    BY <1>2, <1>4, AskedFacts
  <2>5. ASSUME NEW w, EraseOf(host.todo, w) PROVE FALSE
    <3>1. PICK q \in Members(host.todo) : q.cmd = "ERASE"
      BY <2>5 DEF EraseOf
    <3>2. q \in Fitting /\ Rank(Asked) <= Rank(q)
      BY <3>1, FlashFacts
    <3>3. Rank(Asked) = 2 /\ Rank(q) = 1
      BY <1>2, <1>4, <3>1, <3>2, Ranks
    <3> QED BY <3>2, <3>3
  <2>6. \A w \in 1..Len(BuildOf(host)) : Covered(w) /\ img[host.slot][w] \subseteq BuildOf(host)[w]
    BY <1>4, <2>5 DEF RetryInv, SlotOK
  <2> QED BY <2>2, <2>3, <2>4, <2>6 DEF PartOf
<1> QED BY <1>1, <1>3, <1>4

\* ERASE is taken, or another of its blocks is erased.
LEMMA EraseStays ==
  ASSUME PairInv, FlightOK, RetryInv, Listening, Asked.cmd = "ERASE", host' = host, faults' = faults,
         OnlyAsked => OnlyAsked', Usable = {0, 1},
         (toDev # <<>> /\ Frame.body = Asked /\ pc = "idle" /\ ServeErase) \/ (FlashDone /\ pc # "idle" /\ Doing(Asked))
  PROVE  RetryInv'
<1> DEFINE at == Asked.at
           n  == Asked.n
           build == BuildOf(host)
           keeps == /\ AnswersGood' /\ mode' = mode /\ s'.open /\ s'.stream = "RUN" /\ s'.next = 0 /\ write' = write
                    /\ \A w : Covered(w) => Covered(w)'
                    /\ \A w \in 1..Len(build) : Covered(w)' => img'[host.slot][w] \subseteq build[w]
                    /\ pc' # "idle" => /\ req'.end = at + n /\ at <= req'.at
                                       /\ \A w \in at + 1..req'.at : Covered(w)'
                    /\ OkAnswer("ERASE")' => \A w \in at + 1..at + n : Covered(w)'
<1>1. /\ FlashRun /\ host.slot # NoSlot /\ FramesOK /\ mode = "core" /\ s.open /\ s.stream = "RUN" /\ s.next = 0
      /\ write = host.slot /\ IInv /\ ~Opening
      /\ \A w \in 1..Len(build) : Covered(w) => img[host.slot][w] \subseteq build[w]
      /\ pc # "idle" => /\ req.end = at + n /\ at <= req.at
                        /\ \A w \in at + 1..req.at : Covered(w)
      /\ OkAnswer("ERASE") => \A w \in at + 1..at + n : Covered(w)
  BY FlashFacts DEF Listening, PairInv, RetryInv, SessionOK, SlotOK, ErasingOK
<1>2. /\ BlockSize \in Nat \ {0} /\ SlotWords \in Nat \ {0} /\ s \in Session /\ img \in [Slots -> Image]
      /\ write \in Slots /\ Capacity(write) = SlotWords
      /\ Asked.slot = write /\ at \in Nat /\ n \in Nat \ {0} /\ at + n <= SlotWords
  BY <1>1, SlotFacts
<1>3. Asked' = Asked /\ BuildOf(host)' = build
  BY DEF Asked, BuildOf
<1>4. Len(build) \in 1..SlotWords
  BY <1>1, FlashFacts
<1>5. SUFFICES keeps
  <2>1. ASSUME keeps PROVE SessionOK' /\ SlotOK' /\ ErasingOK' /\ WritingOK' /\ CommittingOK'
    <3>1. SessionOK'
      BY <1>1, <1>3, <2>1 DEF RetryInv, SessionOK, Listening
    <3>2. SlotOK'
      BY <1>1, <1>3, <2>1 DEF RetryInv, SlotOK
    <3>3. ErasingOK'
      BY <1>3, <2>1 DEF ErasingOK
    <3>4. WritingOK' /\ CommittingOK'
      BY <1>3 DEF WritingOK, CommittingOK
    <3> QED BY <3>1, <3>2, <3>3, <3>4
  <2> QED BY <1>1, <2>1, FlashStays
<1> HIDE DEF at, n, build
<1>6. CASE Frame.body = Asked /\ pc = "idle" /\ ServeErase
  <2>1. WriteRangeOk(Asked.slot, at, n)
    BY <1>2 DEF WriteRangeOk
  <2>2. Erase(Asked.slot, at, at + n) /\ toHost' = toHost
    BY <1>6, <2>1 DEF ServeErase, AnswerLater, at, n
  <2>3. /\ mode' = mode /\ write' = write /\ img' = img
        /\ s' = [s EXCEPT !.stream = IF at < s.next THEN "POISONED" ELSE @]
        /\ req' = [cmd |-> "ERASE", slot |-> Asked.slot, at |-> at, end |-> at + n]
    BY <2>2 DEF Erase, BeginMutation, flash, life, slots
  <2>4. ~(at < s.next)
    BY <1>1, <1>2
  <2>5. s' = s
    BY <1>2, <2>3, <2>4 DEF Session
  <2>6. AnswersGood' /\ (OkAnswer("ERASE")' => OkAnswer("ERASE"))
    BY <2>2, NoAnswer DEF RetryInv
  <2>7. \A w : Covered(w)' <=> Covered(w)
    BY <2>5 DEF Covered
  <2>8. req'.end = at + n /\ req'.at = at /\ at + 1..at = {}
    BY <1>2, <2>3
  <2> QED BY <1>1, <1>2, <2>3, <2>5, <2>6, <2>7, <2>8
<1>7. CASE FlashDone /\ pc # "idle" /\ Doing(Asked)
  <2>1. req.cmd = "ERASE" /\ pc \in {"disarm", "erase"}
    BY <1>1, <1>7 DEF Doing, IInv, PcOK, TypeOK
  <2>2. CASE Disarm
    <3>1. /\ pc' = "erase" /\ img' = img /\ s' = [s EXCEPT !.disarmed = TRUE] /\ mode' = mode /\ write' = write
          /\ req' = req
      BY <2>1, <2>2 DEF Disarm, FlashChanges, life, slots
    <3>2. toHost' = toHost
      BY <1>7, <3>1 DEF FlashDone
    <3>3. AnswersGood' /\ (OkAnswer("ERASE")' => OkAnswer("ERASE"))
      BY <3>2, NoAnswer DEF RetryInv
    <3>4. s'.open = s.open /\ s'.stream = s.stream /\ s'.next = s.next /\ s'.bitmap = s.bitmap
      BY <1>2, <3>1 DEF Session
    <3>5. \A w : Covered(w)' <=> Covered(w)
      BY <3>4 DEF Covered
    <3> QED BY <1>1, <1>2, <1>7, <3>1, <3>3, <3>4, <3>5
  <2>3. CASE EraseBlock
    <3>1. /\ img' = [img EXCEPT ![req.slot] = EraseWords(@, req.at)] /\ mode' = mode /\ write' = write
          /\ s' = [s EXCEPT !.bitmap = @ \union {req.at}]
          /\ IF req.at + BlockSize < req.end THEN req' = [req EXCEPT !.at = @ + BlockSize] /\ pc' = pc
             ELSE pc' = "idle"
      BY <2>3 DEF EraseBlock, FlashChanges, life, slots, Return
    <3>2. req \in [cmd : {"ERASE"}, slot : Slots, at : Blocks, end : 0..SlotWords] /\ req.slot = write
          /\ req.at \in Nat /\ pc = "erase"
      BY <1>1, <2>1, <2>3 DEF IInv, TypeOK, PcOK, Requests, NoReq, Blocks, EraseBlock
    <3>3. s'.open = s.open /\ s'.stream = s.stream /\ s'.next = s.next /\ s'.bitmap = s.bitmap \union {req.at}
      BY <1>2, <3>1 DEF Session
    <3>4. \A w : Covered(w)' <=> Covered(w) \/ w \in InBlock(req.at)
      BY <3>3 DEF Covered
    <3>5. ASSUME NEW w \in 1..Len(build), Covered(w)' PROVE img'[host.slot][w] \subseteq build[w]
      <4>1. w \in 1..SlotWords /\ img[write] \in Image /\ DOMAIN img[write] = 1..SlotWords
        BY <1>2, <1>4 DEF Image
      <4>2. img'[write][w] = IF w \in InBlock(req.at) THEN {} ELSE img[write][w]
        BY <1>2, <3>1, <3>2, <4>1 DEF EraseWords, ErasedWord
      <4> QED BY <1>1, <3>4, <3>5, <4>2
    <3>6. InBlock(req.at) = req.at + 1..req.at + BlockSize
      BY DEF InBlock
    <3>7. CASE req.at + BlockSize < req.end
      <4>1. req' = [req EXCEPT !.at = @ + BlockSize] /\ pc' = "erase"
        BY <3>1, <3>2, <3>7
      <4>2. req'.at = req.at + BlockSize /\ req'.end = req.end
        BY <3>2, <4>1
      <4>3. toHost' = toHost
        BY <1>7, <4>1 DEF FlashDone
      <4>4. AnswersGood' /\ (OkAnswer("ERASE")' => OkAnswer("ERASE"))
        BY <4>3, NoAnswer DEF RetryInv
      <4>5. \A w \in at + 1..req'.at : Covered(w)'
        <5>1. \A w \in at + 1..req'.at : w \in at + 1..req.at \/ w \in InBlock(req.at)
          BY <1>2, <3>2, <3>6, <4>2
        <5> QED BY <1>1, <1>7, <3>4, <5>1
      <4>6. at <= req'.at /\ req'.end = at + n
        BY <1>1, <1>2, <1>7, <3>2, <4>2
      <4> QED BY <1>1, <3>1, <3>3, <3>4, <3>5, <4>4, <4>5, <4>6
    <3>8. CASE ~(req.at + BlockSize < req.end)
      <4>1. pc' = "idle"
        BY <3>1, <3>8
      <4>2. Answer("ERASE", serving, "OK", 0)
        BY <1>7, <2>1, <4>1 DEF FlashDone
      <4>3. AnswersGood'
        BY <1>1, <4>2, AnswersStayGood DEF RetryInv
      <4>4. \A w \in at + 1..at + n : Covered(w)'
        <5>1. \A w \in at + 1..at + n : w \in at + 1..req.at \/ w \in InBlock(req.at)
          BY <1>1, <1>2, <1>7, <3>2, <3>6, <3>8
        <5> QED BY <1>1, <1>7, <3>4, <5>1
      <4> QED BY <1>1, <3>1, <3>3, <3>4, <3>5, <4>1, <4>3, <4>4
    <3> QED BY <3>7, <3>8
  <2> QED BY <1>7, <2>1, <2>2, <2>3 DEF FlashDone, Program, RecErase, RecProgram
<1> QED BY <1>6, <1>7

\* WRITE is taken for the next part of the run or for the last one again, and
\* its words are then what the build has there.
LEMMA WriteStays ==
  ASSUME PairInv, FlightOK, RetryInv, Listening, Asked.cmd = "WRITE", host' = host, faults' = faults,
         OnlyAsked => OnlyAsked', Usable = {0, 1},
         (toDev # <<>> /\ Frame.body = Asked /\ pc = "idle" /\ ServeWrite) \/ (FlashDone /\ pc # "idle" /\ Doing(Asked))
  PROVE  RetryInv'
<1> DEFINE at == Asked.at
           data == Asked.data
           n  == Len(Asked.data)
           build == BuildOf(host)
           keeps == /\ AnswersGood' /\ mode' = mode /\ s'.open /\ s'.stream = "RUN" /\ write' = write
                    /\ s'.bitmap = s.bitmap
                    /\ \A w \in 1..Len(build) : img'[host.slot][w] \subseteq build[w]
                    /\ s'.next = at \/ (s'.next = at + n /\ s'.last = [addr |-> at, data |-> data])
                    /\ OkAnswer("WRITE")' => s'.next = at + n
<1>1. /\ FlashRun /\ host.slot # NoSlot /\ FramesOK /\ mode = "core" /\ s.open /\ s.stream = "RUN"
      /\ write = host.slot /\ IInv /\ ~Opening
      /\ s.next = at \/ (s.next = at + n /\ s.last = [addr |-> at, data |-> data])
      /\ OkAnswer("WRITE") => s.next = at + n
  BY FlashFacts DEF Listening, PairInv, RetryInv, SessionOK, SlotOK, WritingOK
<1>2. /\ SlotWords \in Nat \ {0} /\ s \in Session /\ img \in [Slots -> Image]
      /\ write \in Slots /\ Capacity(write) = SlotWords /\ Asked.slot = write /\ at \in Nat /\ data \in Seq(Word)
      /\ n \in Nat \ {0} /\ at + n <= Len(build) /\ \A j \in 1..n : data[j] = build[at + j]
      /\ \A w \in 1..Len(build) : Covered(w) /\ img[host.slot][w] \subseteq build[w]
  BY <1>1, SlotFacts
<1>3. Asked' = Asked /\ BuildOf(host)' = build
  BY DEF Asked, BuildOf
<1>4. Len(build) \in 1..SlotWords
  BY <1>1, FlashFacts
<1>5. SUFFICES keeps
  <2>1. ASSUME keeps PROVE SessionOK' /\ SlotOK' /\ ErasingOK' /\ WritingOK' /\ CommittingOK'
    <3>1. SessionOK'
      BY <1>1, <1>3, <2>1 DEF RetryInv, SessionOK, Listening
    <3>2. \A w \in 1..Len(build) : Covered(w)'
      BY <1>2, <2>1 DEF Covered
    <3>3. SlotOK'
      BY <1>1, <1>3, <2>1, <3>2 DEF SlotOK
    <3>4. WritingOK'
      BY <1>3, <2>1 DEF WritingOK
    <3>5. ErasingOK' /\ CommittingOK'
      BY <1>3 DEF ErasingOK, CommittingOK
    <3> QED BY <3>1, <3>3, <3>4, <3>5
  <2> QED BY <1>1, <2>1, FlashStays
<1> HIDE DEF at, data, n, build
<1>6. ASSUME NEW w \in at + 1..at + n PROVE w \in 1..Len(build) /\ w - at \in 1..n /\ data[w - at] = build[w]
  <2>1. w \in 1..Len(build) /\ w - at \in 1..n /\ at + (w - at) = w
    BY <1>2, <1>4
  <2> QED BY <1>2, <2>1
<1>7. s.next \in Nat
  BY <1>2, DecisionAssumption DEF DecisionAssumption, Session
<1>8. CASE Frame.body = Asked /\ pc = "idle" /\ ServeWrite
  <2>1. WriteRangeOk(Asked.slot, at, n)
    BY <1>2, <1>4 DEF WriteRangeOk
  <2>2. Covers(s.bitmap, at, n)
    BY <1>2, <1>6 DEF Covers, Covered
  <2>3. Write(Asked.slot, at, data) /\ toHost' = toHost
    BY <1>8, <2>1, <2>2 DEF ServeWrite, AnswerLater, at, data, n
  <2>4. Classify(at, data) # "POISON"
    BY <1>1, <1>2, <1>7 DEF Classify, n, data
  <2>5. /\ mode' = mode /\ write' = write /\ img' = img
        /\ s' = [s EXCEPT !.stream = IF Classify(at, data) = "POISON" THEN "POISONED" ELSE @]
    BY <2>3 DEF Write, flash, life, slots
  <2>6. s' = s
    BY <1>2, <2>4, <2>5 DEF Session
  <2>7. AnswersGood' /\ (OkAnswer("WRITE")' => OkAnswer("WRITE"))
    BY <2>3, NoAnswer DEF RetryInv
  <2> QED BY <1>1, <1>2, <2>5, <2>6, <2>7
<1>9. CASE FlashDone /\ pc # "idle" /\ Doing(Asked)
  <2>1. /\ req.cmd = "WRITE" /\ pc \in {"disarm", "program"} /\ req.slot = write /\ req.at = at /\ req.data = data
        /\ Len(req.data) = n
    BY <1>1, <1>2, <1>9 DEF Doing, IInv, PcOK, TypeOK, at, data, n
  <2>2. CASE Disarm
    <3>1. /\ pc' = "program" /\ img' = img /\ s' = [s EXCEPT !.disarmed = TRUE] /\ mode' = mode /\ write' = write
      BY <2>1, <2>2 DEF Disarm, FlashChanges, life, slots
    <3>2. toHost' = toHost
      BY <1>9, <3>1 DEF FlashDone
    <3>3. AnswersGood' /\ (OkAnswer("WRITE")' => OkAnswer("WRITE"))
      BY <3>2, NoAnswer DEF RetryInv
    <3>4. s'.open = s.open /\ s'.stream = s.stream /\ s'.next = s.next /\ s'.bitmap = s.bitmap /\ s'.last = s.last
      BY <1>2, <3>1 DEF Session
    <3> QED BY <1>1, <1>2, <3>1, <3>3, <3>4
  <2>3. CASE Program
    <3> DEFINE result == ProgramWords(img[req.slot], req.at, req.data)
               verified == \A i \in 1..Len(req.data) : result[req.at + i] = req.data[i]
    <3>1. /\ pc' = "idle" /\ mode' = mode /\ write' = write /\ img' = [img EXCEPT ![req.slot] = result]
          /\ s' = IF verified /\ req.class = "FOLD"
                  THEN [s EXCEPT !.crc = @ \o req.data, !.next = @ + Len(req.data),
                                 !.last = [addr |-> req.at, data |-> req.data]]
                  ELSE s
      BY <2>3 DEF Program, FlashChanges, life, slots, Return
    <3>2. ASSUME NEW w \in 1..Len(build)
          PROVE  /\ result[w] = IF w \in at + 1..at + n THEN img[write][w] \union data[w - at] ELSE img[write][w]
                 /\ w \in at + 1..at + n => result[w] = build[w]
      <4>1. w \in 1..SlotWords /\ DOMAIN img[write] = 1..SlotWords
        BY <1>2, <1>4 DEF Image
      <4>2. result[w] = IF w \in at + 1..at + n THEN img[write][w] \union data[w - at] ELSE img[write][w]
        BY <2>1, <4>1 DEF ProgramWords
      <4>3. w \in at + 1..at + n => data[w - at] = build[w] /\ img[write][w] \subseteq build[w]
        BY <1>1, <1>2, <1>6
      <4> QED BY <4>2, <4>3
    <3>3. verified
      <4>1. ASSUME NEW i \in 1..n PROVE result[at + i] = data[i]
        <5>1. at + i \in 1..Len(build) /\ at + i \in at + 1..at + n /\ data[i] = build[at + i]
          BY <1>2, <1>4
        <5>2. result[at + i] = build[at + i]
          BY <3>2, <5>1
        <5> QED BY <5>1, <5>2
      <4> QED BY <2>1, <4>1
    <3>4. img'[write] = result
      BY <1>2, <2>1, <3>1
    <3> HIDE DEF result
    <3>5. \A w \in 1..Len(build) : img'[host.slot][w] \subseteq build[w]
      <4>1. ASSUME NEW w \in 1..Len(build) PROVE result[w] \subseteq build[w]
        BY <1>1, <1>2, <3>2
      <4> QED BY <1>1, <3>4, <4>1
    <3>6. Answer("WRITE", serving, "OK", 0)
      <4>1. ~\E i \in 1..Len(req.data) : img'[req.slot][req.at + i] # req.data[i]
        BY <2>1, <3>3, <3>4
      <4> QED BY <1>9, <2>1, <3>1, <4>1 DEF FlashDone
    <3>7. AnswersGood'
      BY <1>1, <3>6, AnswersStayGood DEF RetryInv
    <3>8. /\ req.class \in {"FOLD", "RETRY", "POISON"}
          /\ req.class = "FOLD" => at = s.next
          /\ req.class = "RETRY" => at + n <= s.next
          /\ req.class # "POISON"
      BY <1>1, <2>1 DEF IInv, TypeOK, Requests, NoReq, RequestOK
    <3>9. CASE req.class = "FOLD"
      <4>1. s' = [s EXCEPT !.crc = @ \o data, !.next = @ + n, !.last = [addr |-> at, data |-> data]]
        BY <2>1, <3>1, <3>3, <3>9
      <4>2. /\ s'.open = s.open /\ s'.stream = s.stream /\ s'.next = s.next + n /\ s'.bitmap = s.bitmap
            /\ s'.last = [addr |-> at, data |-> data]
        BY <1>2, <4>1 DEF Session
      <4> QED BY <1>1, <3>1, <3>5, <3>7, <3>8, <3>9, <4>2
    <3>10. CASE req.class # "FOLD"
      <4>1. s' = s /\ at + n <= s.next
        BY <3>1, <3>8, <3>10
      <4>2. s.next = at + n
        BY <1>1, <1>2, <1>7, <4>1
      <4>3. s.last = [addr |-> at, data |-> data]
        BY <1>1, <1>2, <4>2
      <4> QED BY <1>1, <3>1, <3>5, <3>7, <4>1, <4>2, <4>3
    <3> QED BY <3>9, <3>10
  <2> QED BY <1>9, <2>1, <2>2, <2>3 DEF FlashDone, EraseBlock, RecErase, RecProgram
<1> QED BY <1>8, <1>9

\* A generation is left for one more record.
GenerationsLeft == NextGen \notin {0, GenLimit}

\* What the device attests before it is the build, over XIP or over the run.
LEMMA BuildIsAttested ==
  ASSUME PairInv, DataOK, RetryInv, FlashRun, Asked.cmd = "COMMIT", write = host.slot, s.stream = "RUN",
         s.next = Len(BuildOf(host)), host.slot # NoSlot
  PROVE  BuildOf(host) \in Attested(Len(BuildOf(host)))
<1> DEFINE build == BuildOf(host)
           n == Len(BuildOf(host))
<1>1. /\ build \in Seq(Word) /\ n \in 1..SlotWords /\ host.todo # <<>> /\ Asked \in Fitting
      /\ \A q \in Members(host.todo) : q \in Fitting /\ Rank(Asked) <= Rank(q)
  BY FlashFacts
<1>2. /\ IInv /\ img \in [Slots -> Image] /\ write \in Slots /\ s \in Session /\ n \in Nat
      /\ SlotWords \in Nat
  BY <1>1, DecisionAssumption DEF DecisionAssumption, PairInv, IInv, TypeOK
<1>3. \A q \in Members(host.todo) : q.cmd # "ERASE" /\ q.cmd # "WRITE"
  <2> SUFFICES ASSUME NEW q \in Members(host.todo) PROVE q.cmd # "ERASE" /\ q.cmd # "WRITE"
    OBVIOUS
  <2>1. Rank(Asked) = 3 /\ q \in Fitting /\ 3 <= Rank(q)
    BY <1>1, Ranks
  <2>2. (q.cmd = "ERASE" => Rank(q) = 1) /\ (q.cmd = "WRITE" => Rank(q) = 2)
    BY <2>1, Ranks
  <2> QED BY <2>1, <2>2
<1>4. \A w \in 1..n : img[write][w] = build[w]
  BY <1>3 DEF DataOK, AckedOK, FlashRun, WriteOf
<1> HIDE DEF build, n
<1>5. build = [i \in 1..n |-> build[i]]
  BY <1>1 DEF n, build
<1>6. CASE AttestViaXip
  <2>1. img[write] \in XipImages(write)
    <3>1. {} \in SUBSET Blocks /\ img[write] = [w \in 1..SlotWords |-> img[write][w]]
      BY <1>2 DEF Image
    <3>2. [w \in 1..SlotWords |-> IF \E a \in {} : w \in InBlock(a) THEN xipImg[write][w] ELSE img[write][w]]
            = [w \in 1..SlotWords |-> img[write][w]]
      OBVIOUS
    <3> QED BY <3>1, <3>2, SMTT(60) DEF XipImages
  <2>2. Crc(img[write], n) = build
    BY <1>4, <1>5 DEF Crc
  <2> QED BY <1>6, <2>1, <2>2 DEF Attested, build, n
<1>7. CASE ~AttestViaXip
  <2>1. Len(s.crc) = n /\ (\A i \in 1..n : img[write][0 + i] = s.crc[i]) /\ s.crc \in Seq(Word)
    BY <1>2 DEF IInv, StreamOK, Holds, Session, n
  <2>2. \A i \in 1..n : s.crc[i] = build[i]
    <3>1. \A i \in 1..n : 0 + i = i
      BY <1>2
    <3> QED BY <1>4, <2>1, <3>1
  <2>3. s.crc = build
    BY <1>5, <2>1, <2>2
  <2> QED BY <1>7, <2>3 DEF Attested, StreamCovers, build, n
<1> QED BY <1>6, <1>7

\* COMMIT finds what it needs, or it has landed and is a replay.
LEMMA CommitStays ==
  ASSUME PairInv, FlightOK, DataOK, RetryInv, Listening, Asked.cmd = "COMMIT", host' = host, faults' = faults,
         OnlyAsked => OnlyAsked', Usable = {0, 1}, GenerationsLeft,
         (toDev # <<>> /\ Frame.body = Asked /\ pc = "idle" /\ ServeCommit) \/ (FlashDone /\ pc # "idle" /\ Doing(Asked))
  PROVE  RetryInv'
<1> DEFINE build == BuildOf(host)
           n == Len(BuildOf(host))
           ready == write = host.slot /\ s.stream = "RUN" /\ s.next = n
           keeps == /\ AnswersGood' /\ mode' = mode /\ s'.open
                    /\ Landed' \/ (write' = host.slot /\ s'.stream = "RUN" /\ s'.next = n)
                    /\ OkAnswer("COMMIT")' => Landed'
<1>1. /\ FlashRun /\ host.slot # NoSlot /\ FramesOK /\ mode = "core" /\ s.open /\ IInv /\ ~Opening
      /\ (Landed \/ ready) /\ (OkAnswer("COMMIT") => Landed)
  BY FlashFacts DEF Listening, PairInv, RetryInv, SessionOK, CommittingOK
<1>2. /\ write \in Slots /\ Capacity(write) = SlotWords /\ n \in 1..SlotWords
      /\ Asked.len = n /\ Asked.crc = build
  <2>1. Asked = CommitReq(build)
    BY <1>1, FlashFacts, AskedFacts
  <2> QED BY <1>1, <2>1, FlashFacts, SlotFacts DEF CommitReq
<1>3. Asked' = Asked /\ BuildOf(host)' = build
  BY DEF Asked, BuildOf
<1>4. OkAnswer("COMMIT") => Landed
  BY <1>1 DEF RetryInv, CommittingOK
<1>5. SUFFICES keeps
  <2>1. ASSUME keeps PROVE SessionOK' /\ SlotOK' /\ ErasingOK' /\ WritingOK' /\ CommittingOK'
    <3>1. SessionOK'
      BY <1>1, <1>3, <2>1 DEF RetryInv, SessionOK, Listening
    <3>2. CommittingOK'
      BY <1>3, <2>1 DEF CommittingOK
    <3>3. SlotOK' /\ ErasingOK' /\ WritingOK'
      BY <1>3 DEF SlotOK, ErasingOK, WritingOK
    <3> QED BY <3>1, <3>2, <3>3
  <2> QED BY <1>1, <2>1, FlashStays
<1>6. CASE Frame.body = Asked /\ pc = "idle" /\ ServeCommit
  <2>1. IF CommitAnswer(n, build) = "GO" THEN Commit(n, build) /\ AnswerLater
        ELSE AnswerNow(CommitAnswer(n, build), 0)
    BY <1>2, <1>6 DEF ServeCommit
  <2> HIDE DEF build, n
  <2>2. CommitRangeOk(n)
    BY <1>2 DEF CommitRangeOk
  <2>3. CASE CommitReplays(n, build)
    <3>1. CommitAnswer(n, build) = "OK"
      BY <2>2, <2>3 DEF CommitAnswer
    <3>2. Answer("COMMIT", Frame.seq, "OK", 0) /\ UNCHANGED vars
      BY <1>6, <2>1, <3>1 DEF AnswerNow
    <3>3. AnswersGood'
      BY <1>1, <3>2, AnswersStayGood DEF RetryInv
    <3>4. Landed /\ Landed'
      BY <1>3, <1>6, <2>3, <3>2 DEF CommitReplays, Landed, build, n, vars, record
    <3> QED BY <1>1, <3>2, <3>3, <3>4 DEF vars, life
  <2>4. CASE ~CommitReplays(n, build)
    <3>1. ~Landed
      BY <2>4 DEF CommitReplays, Landed, build, n
    <3>2. ready
      BY <1>1, <3>1
    <3>3. build \in Attested(n)
      BY <1>1, <3>2, BuildIsAttested DEF build, n
    <3>4. CommitAnswer(n, build) = "GO"
      BY <2>2, <2>4, <3>3 DEF CommitAnswer, GenerationsLeft
    <3>5. toHost' = toHost /\ mode' = mode /\ s' = s /\ write' = write
      BY <2>1, <3>4 DEF AnswerLater, Commit, life, slots
    <3>6. AnswersGood' /\ ~OkAnswer("COMMIT")'
      BY <1>4, <3>1, <3>5, NoAnswer DEF RetryInv
    <3> QED BY <1>1, <3>2, <3>5, <3>6
  <2> QED BY <2>3, <2>4
<1>7. CASE FlashDone /\ pc # "idle" /\ Doing(Asked)
  <2>1. /\ req.cmd = "COMMIT" /\ pc \in {"recErase", "recProgram"} /\ req.rec.len = n /\ req.rec.crc = build
    BY <1>1, <1>2, <1>7 DEF Doing, IInv, PcOK, TypeOK
  <2>2. ~Landed
    BY <1>7 DEF Landed
  <2>3. ready /\ ~OkAnswer("COMMIT")
    BY <1>1, <1>4, <2>2
  <2> HIDE DEF build, n
  <2>4. CASE RecErase
    <3>1. pc' = "recProgram" /\ s' = s /\ mode' = mode /\ write' = write
      BY <2>4 DEF RecErase, life, slots
    <3>2. toHost' = toHost
      BY <1>7, <3>1 DEF FlashDone
    <3>3. AnswersGood' /\ ~OkAnswer("COMMIT")'
      BY <2>3, <3>2, NoAnswer DEF RetryInv
    <3> QED BY <1>1, <2>3, <3>1, <3>3
  <2>5. CASE RecProgram
    <3>1. /\ pc' = "idle" /\ rec_state' = "FRESH" /\ committed' = [len |-> n, crc |-> build]
          /\ s' = [EmptySession EXCEPT !.open = s.open] /\ mode' = mode
      BY <2>1, <2>5 DEF RecProgram, NoteCommitted, Return, life
    <3>2. s'.open
      BY <1>1, <3>1 DEF EmptySession
    <3>3. Landed'
      BY <1>3, <3>1 DEF Landed, n, build
    <3>4. Answer("COMMIT", serving, "OK", 0)
      BY <1>7, <2>1, <3>1 DEF FlashDone
    <3>5. AnswersGood'
      BY <1>1, <3>4, AnswersStayGood DEF RetryInv
    <3> QED BY <1>1, <3>1, <3>2, <3>3, <3>5
  <2> QED BY <1>7, <2>1, <2>4, <2>5 DEF FlashDone, Disarm, EraseBlock, Program
<1> QED BY <1>6, <1>7

\* CRC is always answered, and changes nothing.
LEMMA CrcStays ==
  ASSUME PairInv, RetryInv, Listening, Asked.cmd = "CRC", ServeCrc, OnlyAsked => OnlyAsked'
  PROVE  RetryInv'
<1>1. /\ FlashRun /\ host.slot # NoSlot /\ host' = host /\ faults' = faults /\ ~Opening /\ FramesOK
  BY FlashFacts DEF Listening, ServeCrc, Serve, PairInv
<1>2. UNCHANGED vars /\ \E value : Answer("CRC", Frame.seq, "OK", value)
  <2>1. Frame.body.cmd = "CRC" /\ \E value : AnswerNow("OK", value)
    BY DEF ServeCrc, Serve
  <2> QED BY <2>1 DEF AnswerNow
<1>3. AnswersGood'
  BY <1>1, <1>2, AnswersStayGood DEF RetryInv
<1>4. Asked' = Asked /\ BuildOf(host)' = BuildOf(host) /\ mode' = mode /\ s' = s /\ rec_state' = rec_state
  BY <1>1, <1>2 DEF vars, life, record, Asked, BuildOf
<1>5. SessionOK'
  BY <1>1, <1>4 DEF RetryInv, SessionOK, Listening
<1>6. SlotOK' /\ ErasingOK' /\ WritingOK' /\ CommittingOK'
  BY <1>4 DEF SlotOK, ErasingOK, WritingOK, CommittingOK
<1> QED BY <1>1, <1>3, <1>5, <1>6, FlashStays

\* BOOT is not refused after the COMMIT, and the session is over.
LEMMA BootStays ==
  ASSUME PairInv, FlightOK, RetryInv, Listening, Asked.cmd = "BOOT", toDev # <<>>, Frame.body = Asked, ServeBoot
  PROVE  RetryInv'
<1>1. /\ FlashRun /\ host.slot # NoSlot /\ host' = host /\ faults' = faults /\ ~Opening /\ FramesOK
      /\ Own /\ host.todo # <<>> /\ rec_state = "FRESH"
  BY FlashFacts DEF Listening, ServeBoot, PairInv, RetryInv, SessionOK
<1>2. toDev' = <<>> /\ Answer("BOOT", Frame.seq, "OK", 0)
  <2>1. \A images, cells : BootTrusted(images, cells)
    BY <1>1 DEF BootTrusted
  <2> QED BY <2>1 DEF ServeBoot
<1>3. host.att # 0
  <2>1. /\ toDev \in Seq(Frames) /\ 1 \in 1..Len(toDev) /\ Frame = toDev[1] /\ toDev[1].seq \in 0..SeqMod - 1
    <3>1. toDev \in Seq(Frames) /\ \A i \in 1..Len(toDev) : toDev[i].seq \in 0..SeqMod - 1
      BY <1>1, SeqTypes
    <3>2. 1 \in 1..Len(toDev) /\ Frame = toDev[1]
      BY <3>1, QueueItems DEF Frame
    <3> QED BY <3>1, <3>2
  <2>2. Recent(toDev[1].seq)
    BY <1>1, <2>1 DEF FlightOK, SentOK, Asks
  <2>3. host.att \in Nat /\ host.seq \in 0..SeqMod - 1
    BY ClientAssumption DEF ClientAssumption, PairInv, ToolOK, Hosts
  <2>4. Age(toDev[1].seq, host.seq) \in Nat
    BY <2>1, <2>3, Ages
  <2> QED BY <2>2, <2>3, <2>4 DEF Recent
<1>4. AnswersGood'
  BY <1>1, <1>2, AnswersStayGood DEF RetryInv
<1>5. Asked' = Asked
  BY <1>1 DEF Asked
<1>6. SessionOK'
  BY <1>1, <1>2, <1>3, <1>5 DEF SessionOK, Listening
<1>7. SlotOK' /\ ErasingOK' /\ WritingOK' /\ CommittingOK'
  BY <1>5 DEF SlotOK, ErasingOK, WritingOK, CommittingOK
<1> QED BY <1>1, <1>4, <1>6, <1>7, FlashStays

\* Every step of the device.
LEMMA DeviceRetry ==
  ASSUME PairInv, FlightOK, DataOK, RetryInv, Usable = {0, 1}, GenerationsLeft, Device
  PROVE  RetryInv'
<1>1. host' = host /\ (OnlyAsked => OnlyAsked')
  BY DevicePops
<1>2. faults \in Nat /\ faults' \in {faults, faults + 1}
  BY DEF RetryInv, Device, ServeGarbled, ServeHello, ServeUnopened, ServeErase, ServeWrite, ServeCommit,
        ServeCrc, ServeBoot, FlashDone, FlashFails, Elsewhere, DevicePowerCut, Serve
<1>3. CASE ~FlashRun'
  <2>1. faults' \in Nat /\ RetriesAreHarmless'
    BY <1>1, <1>2 DEF RetryInv, RetriesAreHarmless
  <2> QED BY <1>3, <2>1, NoFlash
<1>4. CASE FlashRun' /\ ~Listening
  <2>1. FlashRun /\ faults' = faults
    BY <1>1, <1>2, <1>4 DEF FlashRun, Running
  <2> QED BY <1>4, <2>1, OpeningStays, DeafStays
<1>5. CASE FlashRun' /\ Listening
  <2>1. FlashRun /\ host.slot # NoSlot /\ faults' = faults /\ mode = "core" /\ s.open /\ IInv
    BY <1>2, <1>5 DEF FlashRun, Listening, RetryInv, SessionOK, PairInv
  <2>2. ~Elsewhere
    BY <2>1 DEF Elsewhere, Decide, IdleBoot, AppResets
  <2>3. CASE ServeGarbled
    BY <1>1, <1>5, <2>3, GarbledStays
  <2>4. CASE ServeHello /\ ~OnlyAsked
    BY <1>5, <2>4, HelloStays
  <2>5. CASE FlashDone /\ pc # "idle" /\ Doing(Asked)
    <3>1. Asked.cmd \in {"ERASE", "WRITE", "COMMIT"}
      BY <2>1, <2>5 DEF IInv, TypeOK, PcOK, Doing
    <3> QED BY <1>1, <1>5, <2>1, <2>5, <3>1, EraseStays, WriteStays, CommitStays
  <2>6. CASE toDev # <<>> /\ Frame.body = Asked /\ pc = "idle" /\ ServeErase /\ Asked.cmd = "ERASE"
    BY <1>1, <1>5, <2>1, <2>6, EraseStays
  <2>7. CASE toDev # <<>> /\ Frame.body = Asked /\ pc = "idle" /\ ServeWrite /\ Asked.cmd = "WRITE"
    BY <1>1, <1>5, <2>1, <2>7, WriteStays
  <2>8. CASE toDev # <<>> /\ Frame.body = Asked /\ pc = "idle" /\ ServeCommit /\ Asked.cmd = "COMMIT"
    BY <1>1, <1>5, <2>1, <2>8, CommitStays
  <2>9. CASE ServeCrc /\ Asked.cmd = "CRC"
    BY <1>1, <1>5, <2>9, CrcStays
  <2>10. CASE toDev # <<>> /\ Frame.body = Asked /\ ServeBoot /\ Asked.cmd = "BOOT"
    BY <1>5, <2>10, BootStays
  <2> QED BY <2>1, <2>2, <2>3, <2>4, <2>5, <2>6, <2>7, <2>8, <2>9, <2>10, DeviceTurn
<1> QED BY <1>3, <1>4, <1>5

\* What keeps a flash from being refused stays true.
LEMMA StepRetry ==
  ASSUME PairInv, FlightOK, DataOK, RetryInv, Usable = {0, 1}, GenerationsLeft, [UpdateNext]_allVars
  PROVE  RetryInv'
<1>1. CASE UNCHANGED allVars
  BY <1>1 DEF allVars, link, vars, flash, life, slots, record, RetryInv, AnswersGood, OpenedOK, LinkedOK, SessionOK,
              SlotOK, ErasingOK, WritingOK, CommittingOK, RetriesAreHarmless, FlashRun, Running, Listening,
              Asked, AsksCmd, Opening, BuildOf, Covered, OkAnswer, OnlyAsked, Asks, Landed
<1>2. CASE Client
  BY <1>2, ToolRetry DEF Client
<1>3. CASE Device
  BY <1>3, DeviceRetry
<1> QED BY <1>1, <1>2, <1>3 DEF UpdateNext

-----------------------------------------------------------------------------
(* The theorems *)

\* Nothing is in flight and nothing was said before the tool is first started.
LEMMA InitAnswers == UpdateInit => FlightOK /\ DataOK /\ CommittedOK
<1> SUFFICES ASSUME UpdateInit PROVE FlightOK /\ DataOK /\ CommittedOK
  OBVIOUS
<1>1. /\ toDev = <<>> /\ toHost = <<>> /\ pc = "idle"
      /\ host.todo = <<>> /\ host.slot = NoSlot /\ host.committed = FALSE /\ host.runs = 0
  BY DEF UpdateInit, HostInit, Init
<1>2. FlightOK
  BY <1>1, EmptyFlight
<1> QED BY <1>1, <1>2 DEF DataOK, WrittenOK, AckedOK, CommittedOK

\* client.rs:6-13: a retry is safe, because what the device acknowledged to a
\* flow is in flash for the rest of it, whichever of the attempts was answered.
THEOREM AckedSound == UpdateSpec /\ OrderlyStarts => []AckedMeansWritten
<1>1. UpdateInit => FlightOK /\ DataOK
  BY InitAnswers
<1>2. PairInv /\ PairInv' /\ FlightOK /\ DataOK /\ [UpdateNext]_allVars /\ [OrderlyStart]_allVars
        => FlightOK' /\ DataOK'
  BY StepFlight, StepData
<1>3. ASSUME PairInv, DataOK PROVE AckedMeansWritten
  <2>1. host \in Hosts /\ host.todo \in Seq(Fitting)
    BY <1>3 DEF PairInv, ToolOK, Hosts
  <2>2. {host.todo[i] : i \in DOMAIN host.todo} = Members(host.todo)
    BY <2>1 DEF Members
  <2>3. host.slot # NoSlot => Build = BuildOf(host)
    BY DEF Build, BuildOf
  <2> QED BY <1>3, <2>2, <2>3 DEF DataOK, AckedOK, AckedMeansWritten, Flashes, WriteOf
<1> QED BY <1>1, <1>2, <1>3, PairInductive, PTL DEF UpdateSpec, OrderlyStarts

\* flows.rs:426-431: a tool that says "commit OK" tells the truth: from then on
\* every reset launches the build it sent, whatever was lost, garbled, late or
\* sent again on the way, and however often flash or power failed.
THEOREM ReportedSound ==
  ASSUME ~BlankFirstWord
  PROVE  UpdateSpec /\ OrderlyStarts => []ReportedMeansInstalled
<1>1. UpdateInit => FlightOK /\ CommittedOK
  BY InitAnswers
<1>2. PairInv /\ PairInv' /\ FlightOK /\ [UpdateNext]_allVars /\ [OrderlyStart]_allVars => FlightOK'
  BY StepFlight
<1>3. PairInv /\ FlightOK /\ CommittedOK /\ FreshMeansInstalled /\ FreshMeansInstalled'
        /\ [UpdateNext]_allVars => CommittedOK'
  BY StepCommitted
<1>4. UpdateSpec => []FreshMeansInstalled
  BY DrivenByTool, CommitSound, PTL
<1>5. CommittedOK => ReportedMeansInstalled
  BY DEF CommittedOK, Installed, ReportedMeansInstalled
<1> QED BY <1>1, <1>2, <1>3, <1>4, <1>5, PairInductive, PTL DEF UpdateSpec, OrderlyStarts

\* client.rs:9-11: every mutating command is idempotent: as long as neither flash
\* nor power fails, and a generation is left for each COMMIT, no flash is refused,
\* whatever was lost, garbled, late or sent again on the way.
THEOREM RetriesSound ==
  ASSUME Usable = {0, 1}
  PROVE  UpdateSpec /\ OrderlyStarts /\ []GenerationsLeft => []RetriesAreHarmless
<1>1. UpdateInit => FlightOK /\ DataOK /\ RetryInv
  <2> SUFFICES ASSUME UpdateInit PROVE RetryInv
    BY InitAnswers
  <2>1. host.result = "none" /\ faults = 0
    BY DEF UpdateInit, HostInit
  <2> QED BY <2>1 DEF RetryInv, AnswersGood, OpenedOK, LinkedOK, SessionOK, SlotOK, ErasingOK, WritingOK,
             CommittingOK, RetriesAreHarmless, FlashRun, Running, Listening
<1>2. PairInv /\ PairInv' /\ FlightOK /\ DataOK /\ [UpdateNext]_allVars /\ [OrderlyStart]_allVars
        => FlightOK' /\ DataOK'
  BY StepFlight, StepData
<1>3. PairInv /\ FlightOK /\ DataOK /\ RetryInv /\ GenerationsLeft /\ [UpdateNext]_allVars => RetryInv'
  BY StepRetry
<1>4. RetryInv => RetriesAreHarmless
  BY DEF RetryInv
<1> QED BY <1>1, <1>2, <1>3, <1>4, PairInductive, PTL DEF UpdateSpec, OrderlyStarts

\* A tool that is started once or twice finds what one earlier run has left.
LEMMA TwoRunsOrderly ==
  ASSUME MaxRuns <= 2
  PROVE  UpdateSpec => OrderlyStarts
<1>1. ASSUME PairInv PROVE OrderlyStart
  <2>1. host.runs \in Nat /\ MaxRuns \in Nat
    BY <1>1, ClientAssumption DEF ClientAssumption, PairInv, ToolOK, Hosts
  <2>2. \A flow \in Flows : StartRun(flow) => host.runs < MaxRuns
    BY DEF StartRun
  <2> QED BY <2>1, <2>2 DEF OrderlyStart
<1> QED BY <1>1, PairInductive, PTL DEF OrderlyStarts

\* client.rs:6-13 and flows.rs:426-431, for a tool that is started once or twice:
\* then nothing need be assumed of what an earlier run has left on the link.
THEOREM TwoRunsSound ==
  ASSUME MaxRuns <= 2, ~BlankFirstWord
  PROVE  UpdateSpec => []AckedMeansWritten /\ []ReportedMeansInstalled
BY TwoRunsOrderly, AckedSound, ReportedSound, PTL
=============================================================================
