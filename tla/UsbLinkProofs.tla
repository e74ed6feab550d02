---------------------------- MODULE UsbLinkProofs ----------------------------
(***************************************************************************)
(* Every answer over USB is to one whole report, in order and once, for    *)
(* any number of reports, of faults of the bus and of drain polls.         *)
(*                                                                         *)
(* The argument follows one report from the host to its answer.  A packet  *)
(* that the toggles let through has a number higher than whatever went     *)
(* before (PacketOK); a report that waits for the core, or is with it, is  *)
(* whole and higher than the last answer (ReportOK); an answer that the    *)
(* host would take is higher than those it has taken (AnswerOK).           *)
(***************************************************************************)
EXTENDS UsbLink, TLAPS

-----------------------------------------------------------------------------
(* The inductive invariant, of a firmware u and a host h *)

Data == [head : Nat, tail : Nat]

Devices ==
  [pc : {"poll", "hand back", "handle", "send", "drain", "give up"}, rx_state : {"idle", "pending", "core"},
   tx_busy : BOOLEAN, i : Nat, read : {0, 1} \X {0, 1}, int : Transfers \union {None},
   reset : BOOLEAN, slips : SUBSET {"given away", "toggle lost"},
   rRes : {"ACK", "NAK"}, rTog : {0, 1}, tRes : {"ACK", "NAK"}, tTog : {0, 1},
   rx : Data, frame : Data, tx : Data]

Peers ==
  [up : BOOLEAN, asking : BOOLEAN, out : Packets \union {None}, outTog : {0, 1},
   inTog : {0, 1}, sent : Nat, whole : SUBSET Nat, taken : Seq(Data), faults : Nat]

Token(int) == IF int = None THEN "none" ELSE int.token

\* Who may be doing what: the host waits for its SETUP, offers nothing during a
\* bus reset, and the device answers only between tr_send and the end of its drain.
PhaseOK(u, h) ==
  /\ Token(u.int) = "SETUP" <=> h.asking
  /\ h.up <=> ~u.reset
  /\ ~h.up => h.out = None /\ ~h.asking
  /\ u.tRes = "ACK" => u.pc \in {"drain", "give up"} /\ u.tx_busy
  /\ u.pc \in {"handle", "send"} =>
       Token(u.int) \in {"none", "SETUP"} /\ u.rx_state = "core" /\ u.rRes = "NAK"
  /\ u.pc = "hand back" => u.rx_state = "idle"
  /\ u.rx_state = "pending" => u.rRes = "NAK" /\ Token(u.int) # "OUT"

\* The report in the buffer is one that nobody has answered.
Unanswered(u) ==
  \/ Token(u.int) = "OUT" /\ TakesPacket(u.int)
  \/ u.rx_state = "pending" \/ u.pc = "handle"

\* It is whole, and newer than the last answer.
ReportOK(u, h) ==
  Unanswered(u) => IsReport(u.rx) /\ u.rx.head \in h.whole /\ u.tx.head < u.rx.head

\* Report n is newer than every report that was taken.
NotSeen(u, n) == u.tx.head < n /\ (Unanswered(u) => u.rx.head < n)

\* The packet on offer has the last number given.  If the toggles would let it
\* through, now or after the host's request, it was never taken before.
PacketOK(u, h) ==
  /\ u.rx.head <= h.sent /\ u.tx.head <= h.sent
  /\ h.out # None =>
       /\ h.out.id = h.sent
       /\ h.out.full => h.sent \in h.whole
       /\ h.outTog # u.rTog \/ NotSeen(u, h.sent)
       /\ Token(u.int) = "SETUP" /\ u.int.ep = "OUT" => NotSeen(u, h.sent)

\* What the host took is whole and in order, up to the last answer.
InOrder(taken, whole, last) ==
  /\ \A n \in 1..Len(taken) :
       IsReport(taken[n]) /\ taken[n].head \in whole /\ taken[n].head <= last
  /\ \A n \in 2..Len(taken) : taken[n - 1].head < taken[n].head

\* An answer that its toggle would let the host take is newer; so is one that is
\* about to be offered, whatever its toggle.
AnswerOK(u, h) ==
  /\ InOrder(h.taken, h.whole, u.tx.head)
  /\ u.tRes = "ACK" \/ u.pc = "send" => IsReport(u.tx) /\ u.tx.head \in h.whole
  /\ \/ u.pc = "send"
     \/ u.tRes = "ACK" /\ h.up /\ Token(u.int) # "IN" /\ h.inTog = u.tTog
     => \A n \in 1..Len(h.taken) : h.taken[n].head < u.tx.head

LinkOK(u, h) ==
  u.slips = {} => PhaseOK(u, h) /\ ReportOK(u, h) /\ PacketOK(u, h) /\ AnswerOK(u, h)

UsbInv == usb \in Devices /\ peer \in Peers /\ LinkOK(usb, peer)

-----------------------------------------------------------------------------
(* The firmware's helpers keep it *)

\* The interrupt flags name one transfer or none.
LEMMA Ints ==
  ASSUME NEW int \in Transfers \union {None}
  PROVE  /\ int # None => Token(int) = int.token /\ int.token \in {"IN", "OUT", "SETUP"}
         /\ int # None /\ int.token = "OUT" => int.togOk \in BOOLEAN /\ int.full \in BOOLEAN
         /\ int # None /\ int.token = "SETUP" => int.ep \in {"IN", "OUT"}
         /\ Token(None) = "none"
BY DEF Transfers, Token

\* The control register is read, and nothing changes.
LEMMA LoadIs ==
  ASSUME NEW u \in Devices
  PROVE  /\ Load(u) \in Devices /\ Load(u).pc = u.pc /\ Load(u).i = u.i
         /\ Load(u).int = u.int /\ Load(u).reset = u.reset
         /\ Load(u).slips = u.slips /\ Load(u).rx_state = u.rx_state
         /\ Load(u).tx_busy = u.tx_busy /\ Load(u).rRes = u.rRes /\ Load(u).rTog = u.rTog
         /\ Load(u).tRes = u.tRes /\ Load(u).tTog = u.tTog
         /\ Load(u).rx = u.rx /\ Load(u).frame = u.frame /\ Load(u).tx = u.tx
<1>1. <<u.rTog, u.tTog>> \in {0, 1} \X {0, 1}
  BY DEF Devices
<1> QED BY <1>1 DEF Load, Devices

\* It is written, and if no slip is recorded the OUT toggle is as it was.
LEMMA StoreIs ==
  ASSUME NEW u \in Devices
  PROVE  /\ Store(u) \in Devices /\ Store(u).pc = u.pc /\ Store(u).i = u.i
         /\ Store(u).int = u.int /\ Store(u).reset = u.reset
         /\ Store(u).rx_state = u.rx_state
         /\ Store(u).tx_busy = u.tx_busy /\ Store(u).rRes = u.rRes
         /\ Store(u).tRes = u.tRes
         /\ Store(u).rx = u.rx /\ Store(u).frame = u.frame /\ Store(u).tx = u.tx
         /\ Store(u).slips = {} => u.slips = {} /\ Store(u).rTog = u.rTog
<1> DEFINE slips == IF u.rTog # u.read[1] THEN u.slips \union {"toggle lost"} ELSE u.slips
           v == [u EXCEPT !.slips = slips, !.rTog = u.read[1], !.tTog = u.read[2],
                          !.read = <<0, 0>>]
<1>1. Store(u) = v
  BY DEF Store, Devices
<1>2. slips \in SUBSET {"given away", "toggle lost"} /\ u.read[1] \in {0, 1} /\ u.read[2] \in {0, 1}
  BY DEF Devices
<1>3. slips = {} => u.slips = {} /\ u.rTog = u.read[1]
  OBVIOUS
<1> HIDE DEF slips
<1>4. <<0, 0>> \in {0, 1} \X {0, 1}
  OBVIOUS
<1>5. v \in Devices
  BY <1>2, <1>4 DEF Devices
<1>6. /\ v.pc = u.pc /\ v.i = u.i /\ v.int = u.int /\ v.reset = u.reset /\ v.slips = slips
      /\ v.rx_state = u.rx_state /\ v.tx_busy = u.tx_busy /\ v.rRes = u.rRes
      /\ v.rTog = u.read[1] /\ v.tRes = u.tRes
      /\ v.rx = u.rx /\ v.frame = u.frame /\ v.tx = u.tx
  BY DEF Devices
<1> QED BY <1>1, <1>3, <1>5, <1>6

\* The event pump, whatever it finds: the end of a transfer, a request to clear
\* the endpoint, a bus reset, or nothing.
LEMMA PumpKeeps ==
  ASSUME NEW u \in Devices, peer \in Peers, LinkOK(u, peer), u.pc \in {"poll", "drain"}
  PROVE  /\ usb_process(u) \in Devices /\ PeerAfter(u) \in Peers
         /\ LinkOK(usb_process(u), PeerAfter(u))
         /\ usb_process(u).pc = u.pc
         /\ usb_process(u).int = None
<1> DEFINE v == usb_process(u)
           h == PeerAfter(u)
<1>0. u.int \in Transfers \union {None} /\ None \notin Transfers
  BY UsbAssumption DEF Devices, UsbAssumption
<1>1. CASE u.int # None /\ u.int.token = "IN"
  <2>1. v = [u EXCEPT !.int = None, !.tRes = "NAK", !.tx_busy = FALSE] /\ h = peer
    BY <1>1 DEF usb_process, PeerAfter, Devices
  <2>2. v \in Devices
    BY <2>1 DEF Devices
  <2>3. /\ v.pc = u.pc /\ v.int = None /\ v.reset = u.reset /\ v.slips = u.slips
        /\ v.rx_state = u.rx_state /\ v.rRes = u.rRes /\ v.rTog = u.rTog /\ v.tRes = "NAK"
        /\ v.rx = u.rx /\ v.tx = u.tx
    BY <2>1 DEF Devices
  <2>4. Token(u.int) = "IN" /\ Token(v.int) = "none"
    BY <1>0, <1>1, <2>3, Ints
  <2> HIDE DEF v, h
  <2>5. LinkOK(v, h)
    BY <2>1, <2>3, <2>4 DEF LinkOK, PhaseOK, ReportOK, PacketOK, NotSeen, AnswerOK, Unanswered
  <2> QED BY <2>1, <2>2, <2>3, <2>4, <2>5 DEF v, h
<1>2. CASE u.int # None /\ u.int.token = "SETUP" /\ u.int.ep = "IN"
  <2>1. v = [u EXCEPT !.int = None, !.tTog = 0, !.tRes = "NAK"]
        /\ h = [peer EXCEPT !.asking = FALSE, !.inTog = 0]
    BY <1>2 DEF usb_process, ClearHalt, PeerAfter, Devices
  <2>2. v \in Devices /\ h \in Peers
    BY ZenonT(60), <2>1 DEF Devices, Peers
  <2>3. /\ v.pc = u.pc /\ v.int = None /\ v.reset = u.reset /\ v.slips = u.slips
        /\ v.rx_state = u.rx_state /\ v.rRes = u.rRes /\ v.rTog = u.rTog /\ v.tRes = "NAK"
        /\ v.rx = u.rx /\ v.tx = u.tx
    BY <2>1 DEF Devices
  <2>4. Token(u.int) = "SETUP" /\ Token(v.int) = "none"
    BY <1>0, <1>2, <2>3, Ints
  <2>5. /\ ~h.asking /\ h.up = peer.up /\ h.out = peer.out /\ h.outTog = peer.outTog
        /\ h.sent = peer.sent /\ h.whole = peer.whole /\ h.taken = peer.taken
    BY <2>1 DEF Peers
  <2> HIDE DEF v, h
  <2>6. LinkOK(v, h)
    BY <2>3, <2>4, <2>5 DEF LinkOK, PhaseOK, ReportOK, PacketOK, NotSeen, AnswerOK, Unanswered
  <2> QED BY <2>2, <2>3, <2>4, <2>6 DEF v, h
<1>3. CASE u.int # None /\ u.int.token = "SETUP" /\ u.int.ep = "OUT"
  <2>1. v = [u EXCEPT !.int = None, !.rTog = 0, !.rRes = "ACK",
                      !.slips = IF u.rx_state = "pending" THEN @ \union {"given away"} ELSE @]
        /\ h = [peer EXCEPT !.asking = FALSE, !.outTog = 0]
    BY <1>3 DEF usb_process, ClearHalt, PeerAfter, Devices
  <2> DEFINE slips == IF u.rx_state = "pending" THEN u.slips \union {"given away"} ELSE u.slips
  <2>a. slips \in SUBSET {"given away", "toggle lost"}
    BY DEF Devices
  <2>b. v = [u EXCEPT !.int = None, !.rTog = 0, !.rRes = "ACK", !.slips = slips]
    BY <2>1 DEF Devices
  <2>c. h \in Peers
    BY <2>1 DEF Peers
  <2>2. v \in Devices /\ h \in Peers
    <3> HIDE DEF slips, v, h
    <3> QED BY <2>a, <2>b, <2>c DEF Devices
  <2>3. /\ v.pc = u.pc /\ v.int = None /\ v.reset = u.reset
        /\ v.rx_state = u.rx_state /\ v.tRes = u.tRes /\ v.tTog = u.tTog /\ v.tx_busy = u.tx_busy
        /\ v.rx = u.rx /\ v.tx = u.tx
        /\ v.slips = IF u.rx_state = "pending" THEN u.slips \union {"given away"} ELSE u.slips
    BY <2>1 DEF Devices
  <2>4. Token(u.int) = "SETUP" /\ Token(v.int) = "none"
    BY <1>0, <1>3, <2>3, Ints
  <2>5. /\ ~h.asking /\ h.up = peer.up /\ h.out = peer.out /\ h.inTog = peer.inTog
        /\ h.sent = peer.sent /\ h.whole = peer.whole /\ h.taken = peer.taken
    BY <2>1 DEF Peers
  <2>6. v.slips = {} => u.slips = {} /\ u.rx_state # "pending"
    BY <2>3
  <2> HIDE DEF v, h
  <2>7. v.slips = {} => ~Unanswered(v) /\ ~Unanswered(u)
    BY <2>3, <2>4, <2>6 DEF Unanswered
  <2>8. LinkOK(v, h)
    BY <1>3, <2>3, <2>4, <2>5, <2>6, <2>7
    DEF LinkOK, PhaseOK, ReportOK, PacketOK, NotSeen, AnswerOK
  <2> QED BY <2>2, <2>3, <2>4, <2>8 DEF v, h
<1>4. CASE u.int # None /\ u.int.token = "OUT"
  <2>1. v = (IF TakesPacket(u.int) THEN [u EXCEPT !.int = None, !.rRes = "NAK", !.rx_state = "pending"]
             ELSE [u EXCEPT !.int = None])
        /\ h = peer
    BY <1>4 DEF usb_process, PeerAfter, Devices
  <2>2. v \in Devices
    <3>1. CASE TakesPacket(u.int)
      <4> DEFINE w == [u EXCEPT !.int = None, !.rRes = "NAK", !.rx_state = "pending"]
      <4>1. w \in Devices
        BY DEF Devices
      <4>2. v = w
        BY <2>1, <3>1
      <4> QED BY <4>1, <4>2
    <3>2. CASE ~TakesPacket(u.int)
      <4>1. [u EXCEPT !.int = None] \in Devices
        BY ZenonT(60) DEF Devices
      <4>2. v = [u EXCEPT !.int = None]
        BY <2>1, <3>2
      <4> QED BY <4>1, <4>2
    <3> QED BY <3>1, <3>2
  <2>3. /\ v.pc = u.pc /\ v.int = None /\ v.reset = u.reset /\ v.slips = u.slips
        /\ v.rTog = u.rTog /\ v.tRes = u.tRes /\ v.tTog = u.tTog /\ v.tx_busy = u.tx_busy
        /\ v.rx = u.rx /\ v.tx = u.tx
        /\ IF TakesPacket(u.int) THEN v.rRes = "NAK" /\ v.rx_state = "pending"
           ELSE v.rRes = u.rRes /\ v.rx_state = u.rx_state
    BY ZenonT(60), <2>1 DEF Devices
  <2>4. Token(u.int) = "OUT" /\ Token(v.int) = "none"
    BY <1>0, <1>4, <2>3, Ints
  <2> HIDE DEF v, h
  <2>5. Unanswered(v) => Unanswered(u)
    BY <2>3, <2>4 DEF Unanswered
  <2>6. LinkOK(v, h)
    BY <2>1, <2>3, <2>4, <2>5 DEF LinkOK, PhaseOK, ReportOK, PacketOK, NotSeen, AnswerOK
  <2> QED BY <2>1, <2>2, <2>3, <2>4, <2>6 DEF v, h
<1>5. CASE u.int = None /\ u.reset
  <2>1. v = [u EXCEPT !.reset = FALSE, !.rRes = "ACK", !.rTog = 0, !.tRes = "NAK", !.tTog = 0,
                      !.rx_state = "idle", !.tx_busy = FALSE]
        /\ h = [peer EXCEPT !.up = TRUE]
    BY <1>5 DEF usb_process, usb_ep_reset, PeerAfter, Devices
  <2>2. v \in Devices /\ h \in Peers
    BY ZenonT(60), <2>1 DEF Devices, Peers
  <2>3. /\ v.pc = u.pc /\ v.int = None /\ ~v.reset /\ v.slips = u.slips
        /\ v.rx_state = "idle" /\ v.rRes = "ACK" /\ v.tRes = "NAK"
        /\ v.rx = u.rx /\ v.tx = u.tx
    BY ZenonT(60), <1>5, <2>1 DEF Devices
  <2>4. Token(v.int) = "none" /\ Token(u.int) = "none"
    BY <1>5, <2>3, Ints
  <2>5. /\ h.up /\ h.asking = peer.asking /\ h.out = peer.out
        /\ h.sent = peer.sent /\ h.whole = peer.whole /\ h.taken = peer.taken
    BY <2>1 DEF Peers
  <2> HIDE DEF v, h
  <2>6. ~Unanswered(v)
    BY <2>3, <2>4 DEF Unanswered
  <2>7. LinkOK(v, h)
    BY <1>5, <2>3, <2>4, <2>5, <2>6 DEF LinkOK, PhaseOK, ReportOK, PacketOK, AnswerOK
  <2> QED BY <2>2, <2>3, <2>4, <2>7 DEF v, h
<1>6. CASE u.int = None /\ ~u.reset
  <2>1. v = u /\ h = peer
    BY <1>6 DEF usb_process, PeerAfter
  <2> QED BY <1>6, <2>1, Ints
<1> QED BY <1>0, <1>1, <1>2, <1>3, <1>4, <1>5, <1>6, Ints

-----------------------------------------------------------------------------
(* Every step keeps it *)

\* Initially nothing was sent and the endpoint waits.
LEMMA UsbStart == UsbInit => UsbInv
<1> SUFFICES ASSUME UsbInit PROVE UsbInv
  OBVIOUS
<1>1. Token(usb.int) = "none" /\ ~Unanswered(usb)
  BY DEF UsbInit, Token, Unanswered
<1>2. usb \in Devices /\ peer \in Peers
  BY DEF UsbInit, Devices, Peers, Data, NoData
<1>3. PhaseOK(usb, peer)
  BY <1>1 DEF UsbInit, PhaseOK
<1>4. ReportOK(usb, peer) /\ PacketOK(usb, peer) /\ AnswerOK(usb, peer)
  BY <1>1 DEF UsbInit, ReportOK, PacketOK, AnswerOK, InOrder, NoData
<1> QED BY <1>2, <1>3, <1>4 DEF UsbInv, LinkOK

\* Giving the endpoint back answers the report in the buffer.
LEMMA HandBackKeeps == UsbInv /\ (HandBackRead \/ HandBackWrite) => UsbInv'
<1> SUFFICES ASSUME UsbInv, HandBackRead \/ HandBackWrite PROVE UsbInv'
  OBVIOUS
<1>1. usb \in Devices /\ peer \in Peers /\ LinkOK(usb, peer)
  BY DEF UsbInv
<1>2. CASE HandBackRead
  <2> DEFINE l == Load(usb)
             v == [l EXCEPT !.rx_state = "idle", !.pc = "hand back"]
  <2>1. usb' = v /\ peer' = peer /\ usb.pc = "poll" /\ usb.rx_state = "core"
    BY <1>2 DEF HandBackRead
  <2>2. /\ l \in Devices /\ l.int = usb.int /\ l.reset = usb.reset /\ l.slips = usb.slips
        /\ l.tx_busy = usb.tx_busy /\ l.rRes = usb.rRes /\ l.rTog = usb.rTog
        /\ l.tRes = usb.tRes /\ l.tTog = usb.tTog /\ l.rx = usb.rx /\ l.tx = usb.tx
    BY <1>1, LoadIs
  <2> HIDE DEF l
  <2>3. v \in Devices
    BY <2>2 DEF Devices
  <2>4. /\ v.pc = "hand back" /\ v.int = usb.int /\ v.reset = usb.reset
        /\ v.slips = usb.slips /\ v.rx_state = "idle" /\ v.tx_busy = usb.tx_busy
        /\ v.rRes = usb.rRes /\ v.rTog = usb.rTog
        /\ v.tRes = usb.tRes /\ v.tTog = usb.tTog /\ v.rx = usb.rx /\ v.tx = usb.tx
    BY <2>2 DEF Devices
  <2> HIDE DEF v
  <2>5. Unanswered(v) => Unanswered(usb)
    BY <2>4 DEF Unanswered
  <2>6. LinkOK(v, peer)
    BY <1>1, <2>1, <2>4, <2>5 DEF LinkOK, PhaseOK, ReportOK, PacketOK, NotSeen, AnswerOK
  <2> QED BY <1>1, <2>1, <2>3, <2>6 DEF UsbInv
<1>3. CASE HandBackWrite
  <2> DEFINE l == Store(usb)
             v == [l EXCEPT !.rRes = "ACK", !.pc = "poll"]
  <2>1. usb' = v /\ peer' = peer /\ usb.pc = "hand back"
    BY <1>3 DEF HandBackWrite
  <2>2. /\ l \in Devices /\ l.int = usb.int /\ l.reset = usb.reset
        /\ l.rx_state = usb.rx_state /\ l.tx_busy = usb.tx_busy
        /\ l.tRes = usb.tRes /\ l.rx = usb.rx /\ l.tx = usb.tx
        /\ l.slips = {} => usb.slips = {} /\ l.rTog = usb.rTog
    BY <1>1, StoreIs
  <2> HIDE DEF l
  <2>3. v \in Devices
    BY <2>2 DEF Devices
  <2>4. /\ v.pc = "poll" /\ v.int = usb.int /\ v.reset = usb.reset
        /\ v.rx_state = usb.rx_state /\ v.tx_busy = usb.tx_busy
        /\ v.rRes = "ACK" /\ v.tRes = usb.tRes /\ v.rx = usb.rx /\ v.tx = usb.tx
        /\ v.slips = {} => usb.slips = {} /\ v.rTog = usb.rTog
    BY <2>2 DEF Devices
  <2> HIDE DEF v
  <2>5. Unanswered(v) => Unanswered(usb)
    BY <2>1, <2>4 DEF Unanswered
  <2>6. LinkOK(v, peer)
    BY <1>1, <2>1, <2>4, <2>5 DEF LinkOK, PhaseOK, ReportOK, PacketOK, NotSeen, AnswerOK
  <2> QED BY <1>1, <2>1, <2>3, <2>6 DEF UsbInv
<1> QED BY <1>2, <1>3

\* tr_poll: the pump runs, and a report that it found is the core's.
LEMMA PollKeeps == UsbInv /\ tr_poll => UsbInv'
<1> SUFFICES ASSUME UsbInv, tr_poll PROVE UsbInv'
  OBVIOUS
<1> DEFINE v == usb_process(usb)
           h == PeerAfter(usb)
<1>1. usb.pc = "poll"
  BY DEF tr_poll
<1>3. v \in Devices /\ h \in Peers /\ LinkOK(v, h) /\ v.pc = "poll" /\ v.int = None
  BY <1>1, PumpKeeps DEF UsbInv
<1>4. usb' = (IF v.rx_state = "pending"
              THEN [v EXCEPT !.rx_state = "core", !.pc = "handle", !.frame = v.rx] ELSE v)
      /\ peer' = h
  BY DEF tr_poll
<1> HIDE DEF v, h
<1>5. CASE v.rx_state # "pending"
  BY <1>3, <1>4, <1>5 DEF UsbInv
<1>6. CASE v.rx_state = "pending"
  <2> DEFINE w == [v EXCEPT !.rx_state = "core", !.pc = "handle", !.frame = v.rx]
  <2>1. w \in Devices
    BY <1>3 DEF Devices
  <2>2. /\ w.pc = "handle" /\ w.int = None /\ w.reset = v.reset /\ w.slips = v.slips
        /\ w.rx_state = "core" /\ w.rRes = v.rRes /\ w.rTog = v.rTog /\ w.tRes = v.tRes
        /\ w.tTog = v.tTog /\ w.tx_busy = v.tx_busy /\ w.rx = v.rx /\ w.tx = v.tx
    BY <1>3 DEF Devices
  <2>3. Token(None) = "none"
    BY DEF Token
  <2> HIDE DEF w
  <2>4. Unanswered(w) <=> Unanswered(v)
    BY <1>6, <2>2 DEF Unanswered
  <2>5. LinkOK(w, h)
    BY <1>3, <1>6, <2>2, <2>3, <2>4 DEF LinkOK, PhaseOK, ReportOK, PacketOK, NotSeen, AnswerOK
  <2> QED BY <1>3, <1>4, <1>6, <2>1, <2>5 DEF w, UsbInv
<1> QED BY <1>5, <1>6
\* The answers taken are reports, and one more makes one more.
LEMMA TakenAre ==
  ASSUME NEW h \in Peers
  PROVE  \A n \in 1..Len(h.taken) : h.taken[n] \in Data /\ h.taken[n].head \in Nat
<1>1. h.taken \in Seq(Data)
  BY DEF Peers
<1>2. \A n \in 1..Len(h.taken) : h.taken[n] \in Data
  BY <1>1
<1> QED BY <1>2 DEF Data

\* tr_send: the answer is to the report in the buffer, which counts as answered.
LEMMA AnswerKeeps == UsbInv /\ tr_send => UsbInv'
<1> SUFFICES ASSUME UsbInv, tr_send PROVE UsbInv'
  OBVIOUS
<1>1. usb \in Devices /\ peer \in Peers /\ LinkOK(usb, peer) /\ usb.pc = "handle" /\ peer' = peer
  BY DEF UsbInv, tr_send
<1> DEFINE l == Load(usb)
           v == [l EXCEPT !.tx = usb.rx, !.pc = "send"]
<1>2. usb' = v
  BY DEF tr_send
<1>a. /\ l \in Devices /\ l.int = usb.int /\ l.reset = usb.reset /\ l.slips = usb.slips
      /\ l.rx_state = usb.rx_state /\ l.rRes = usb.rRes /\ l.rTog = usb.rTog
      /\ l.tRes = usb.tRes /\ l.tTog = usb.tTog /\ l.rx = usb.rx
  BY <1>1, LoadIs
<1>b. usb.rx \in Data
  BY <1>1 DEF Devices
<1> HIDE DEF l
<1>3. v \in Devices
  BY <1>a, <1>b DEF Devices
<1>4. /\ v.pc = "send" /\ v.int = usb.int /\ v.reset = usb.reset /\ v.slips = usb.slips
      /\ v.rx_state = usb.rx_state /\ v.rRes = usb.rRes /\ v.rTog = usb.rTog
      /\ v.tRes = usb.tRes /\ v.tTog = usb.tTog /\ v.rx = usb.rx /\ v.tx = usb.rx
  BY <1>a DEF Devices
<1> HIDE DEF v
<1>5. CASE v.slips # {}
  BY <1>1, <1>2, <1>3, <1>5 DEF UsbInv, LinkOK
<1>6. CASE v.slips = {}
  <2>1. PhaseOK(usb, peer) /\ ReportOK(usb, peer) /\ PacketOK(usb, peer) /\ AnswerOK(usb, peer)
    BY <1>1, <1>4, <1>6 DEF LinkOK
  <2>2. Unanswered(usb) /\ ~Unanswered(v)
    BY <1>1, <1>4, <2>1 DEF Unanswered, PhaseOK
  <2>3. /\ IsReport(usb.rx) /\ usb.rx.head \in peer.whole /\ usb.tx.head < usb.rx.head
        /\ usb.tx.head \in Nat /\ usb.rx.head \in Nat
    BY <1>1, <2>1, <2>2 DEF ReportOK, Devices, Data
  <2>4. \A n \in 1..Len(peer.taken) : peer.taken[n].head \in Nat
    BY <1>1, TakenAre
  <2>5. PhaseOK(v, peer) /\ ReportOK(v, peer)
    BY <1>1, <1>4, <2>1, <2>2 DEF PhaseOK, ReportOK
  <2>6. PacketOK(v, peer)
    BY <1>4, <2>1, <2>2, <2>3 DEF PacketOK, NotSeen
  <2>7. AnswerOK(v, peer)
    BY <1>4, <2>1, <2>3, <2>4 DEF AnswerOK, InOrder
  <2> QED BY <1>1, <1>2, <1>3, <2>5, <2>6, <2>7 DEF UsbInv, LinkOK
<1> QED BY <1>5, <1>6

\* ... and is offered to the host.
LEMMA SendKeeps == UsbInv /\ SendWrite => UsbInv'
<1> SUFFICES ASSUME UsbInv, SendWrite PROVE UsbInv'
  OBVIOUS
<1>1. usb \in Devices /\ peer \in Peers /\ LinkOK(usb, peer) /\ usb.pc = "send" /\ peer' = peer
  BY DEF UsbInv, SendWrite
<1> DEFINE l == Store(usb)
           v == [l EXCEPT !.tRes = "ACK", !.tx_busy = TRUE, !.i = 0, !.pc = "drain"]
<1>2. usb' = v
  BY DEF SendWrite
<1>3. /\ l \in Devices /\ l.int = usb.int /\ l.reset = usb.reset
      /\ l.rx_state = usb.rx_state /\ l.rRes = usb.rRes /\ l.rx = usb.rx /\ l.tx = usb.tx
      /\ l.slips = {} => usb.slips = {} /\ l.rTog = usb.rTog
  BY <1>1, StoreIs
<1> HIDE DEF l
<1>4. v \in Devices
  BY <1>3 DEF Devices
<1>5. /\ v.pc = "drain" /\ v.int = usb.int /\ v.reset = usb.reset
      /\ v.rx_state = usb.rx_state /\ v.rRes = usb.rRes /\ v.tRes = "ACK"
      /\ v.tx_busy = TRUE /\ v.rx = usb.rx /\ v.tx = usb.tx
      /\ v.slips = {} => usb.slips = {} /\ v.rTog = usb.rTog
  BY <1>3 DEF Devices
<1> HIDE DEF v
<1>6. Unanswered(v) => Unanswered(usb)
  BY <1>1, <1>5 DEF Unanswered
<1>7. LinkOK(v, peer)
  BY <1>1, <1>5, <1>6 DEF LinkOK, PhaseOK, ReportOK, PacketOK, NotSeen, AnswerOK
<1> QED BY <1>1, <1>2, <1>4, <1>7 DEF UsbInv

\* The rest of the firmware between two calls of the pump.
LEMMA DrainKeeps ==
  UsbInv /\ (CoreIgnores \/ DrainPoll \/ DrainedTx \/ GiveUpRead \/ GiveUpWrite) => UsbInv'
<1> SUFFICES ASSUME UsbInv, CoreIgnores \/ DrainPoll \/ DrainedTx \/ GiveUpRead \/ GiveUpWrite
             PROVE  UsbInv'
  OBVIOUS
<1>1. usb \in Devices /\ peer \in Peers /\ LinkOK(usb, peer)
  BY DEF UsbInv
<1>2. CASE CoreIgnores
  <2> DEFINE v == [usb EXCEPT !.pc = "poll"]
  <2>1. usb' = v /\ peer' = peer /\ usb.pc = "handle"
    BY <1>2 DEF CoreIgnores
  <2>2. v \in Devices
    BY <1>1 DEF Devices
  <2>3. /\ v.pc = "poll" /\ v.int = usb.int /\ v.reset = usb.reset /\ v.slips = usb.slips
        /\ v.rx_state = usb.rx_state /\ v.rRes = usb.rRes /\ v.rTog = usb.rTog
        /\ v.tRes = usb.tRes /\ v.tTog = usb.tTog /\ v.rx = usb.rx /\ v.tx = usb.tx
    BY <1>1 DEF Devices
  <2> HIDE DEF v
  <2>4. Unanswered(v) => Unanswered(usb)
    BY <2>3 DEF Unanswered
  <2>5. LinkOK(v, peer)
    BY <1>1, <2>1, <2>3, <2>4 DEF LinkOK, PhaseOK, ReportOK, PacketOK, NotSeen, AnswerOK
  <2> QED BY <1>1, <2>1, <2>2, <2>5 DEF UsbInv
<1>3. CASE DrainPoll
  <2> DEFINE u == usb_process(usb)
             v == [u EXCEPT !.i = u.i + 1]
             h == PeerAfter(usb)
  <2>1. usb' = v /\ peer' = h /\ usb.pc = "drain"
    BY <1>3 DEF DrainPoll
  <2>2. u \in Devices /\ h \in Peers /\ LinkOK(u, h)
    BY <1>1, <2>1, PumpKeeps
  <2> HIDE DEF u, h
  <2>3. v \in Devices
    <3>1. u.i \in Nat
      BY <2>2 DEF Devices
    <3>2. u.i + 1 \in Nat
      BY <3>1
    <3> QED BY <2>2, <3>2 DEF Devices
  <2>4. /\ v.pc = u.pc /\ v.int = u.int /\ v.reset = u.reset /\ v.slips = u.slips
        /\ v.rx_state = u.rx_state /\ v.rRes = u.rRes /\ v.rTog = u.rTog /\ v.tRes = u.tRes
        /\ v.tTog = u.tTog /\ v.tx_busy = u.tx_busy /\ v.rx = u.rx /\ v.tx = u.tx
    BY <2>2 DEF Devices
  <2> HIDE DEF v
  <2>5. Unanswered(v) <=> Unanswered(u)
    BY <2>4 DEF Unanswered
  <2>6. LinkOK(v, h)
    BY <2>2, <2>4, <2>5 DEF LinkOK, PhaseOK, ReportOK, PacketOK, NotSeen, AnswerOK
  <2> QED BY <2>1, <2>2, <2>3, <2>6 DEF UsbInv
<1>4. CASE DrainedTx
  <2> DEFINE v == [usb EXCEPT !.pc = "poll"]
  <2>1. usb' = v /\ peer' = peer /\ usb.pc = "drain" /\ ~usb.tx_busy
    BY <1>4 DEF DrainedTx
  <2>2. v \in Devices
    BY <1>1 DEF Devices
  <2>3. /\ v.pc = "poll" /\ v.int = usb.int /\ v.reset = usb.reset /\ v.slips = usb.slips
        /\ v.rx_state = usb.rx_state /\ v.rRes = usb.rRes /\ v.rTog = usb.rTog
        /\ v.tRes = usb.tRes /\ v.tTog = usb.tTog /\ v.rx = usb.rx /\ v.tx = usb.tx
    BY <1>1 DEF Devices
  <2> HIDE DEF v
  <2>4. Unanswered(v) => Unanswered(usb)
    BY <2>3 DEF Unanswered
  <2>5. LinkOK(v, peer)
    BY <1>1, <2>1, <2>3, <2>4 DEF LinkOK, PhaseOK, ReportOK, PacketOK, NotSeen, AnswerOK
  <2> QED BY <1>1, <2>1, <2>2, <2>5 DEF UsbInv
<1>5. CASE GiveUpRead
  <2> DEFINE l == Load(usb)
             v == [l EXCEPT !.pc = "give up"]
  <2>1. usb' = v /\ peer' = peer /\ usb.pc = "drain" /\ usb.tx_busy
    BY <1>5 DEF GiveUpRead
  <2>2. /\ l \in Devices /\ l.int = usb.int /\ l.reset = usb.reset /\ l.slips = usb.slips
        /\ l.rx_state = usb.rx_state /\ l.tx_busy = usb.tx_busy /\ l.rRes = usb.rRes
        /\ l.rTog = usb.rTog /\ l.tRes = usb.tRes /\ l.tTog = usb.tTog
        /\ l.rx = usb.rx /\ l.tx = usb.tx
    BY <1>1, LoadIs
  <2> HIDE DEF l
  <2>a. v \in Devices
    BY <2>2 DEF Devices
  <2>3. /\ v.pc = "give up" /\ v.int = usb.int /\ v.reset = usb.reset /\ v.slips = usb.slips
        /\ v.rx_state = usb.rx_state /\ v.rRes = usb.rRes /\ v.rTog = usb.rTog
        /\ v.tRes = usb.tRes /\ v.tTog = usb.tTog /\ v.rx = usb.rx /\ v.tx = usb.tx
        /\ v.tx_busy = usb.tx_busy
    BY <2>2 DEF Devices
  <2> HIDE DEF v
  <2>4. Unanswered(v) => Unanswered(usb)
    BY <2>1, <2>3 DEF Unanswered
  <2>5. LinkOK(v, peer)
    BY <1>1, <2>1, <2>3, <2>4 DEF LinkOK, PhaseOK, ReportOK, PacketOK, NotSeen, AnswerOK
  <2> QED BY <1>1, <2>1, <2>a, <2>5 DEF UsbInv
<1>6. CASE GiveUpWrite
  <2> DEFINE l == Store(usb)
             v == [l EXCEPT !.tRes = "NAK", !.tx_busy = FALSE, !.pc = "poll"]
  <2>1. usb' = v /\ peer' = peer /\ usb.pc = "give up"
    BY <1>6 DEF GiveUpWrite
  <2>2. /\ l \in Devices /\ l.int = usb.int /\ l.reset = usb.reset
        /\ l.rx_state = usb.rx_state /\ l.rRes = usb.rRes /\ l.rx = usb.rx /\ l.tx = usb.tx
        /\ l.slips = {} => usb.slips = {} /\ l.rTog = usb.rTog
    BY <1>1, StoreIs
  <2> HIDE DEF l
  <2>4. v \in Devices
    BY <2>2 DEF Devices
  <2>5. /\ v.pc = "poll" /\ v.int = usb.int /\ v.reset = usb.reset
        /\ v.rx_state = usb.rx_state /\ v.rRes = usb.rRes /\ v.tRes = "NAK"
        /\ v.rx = usb.rx /\ v.tx = usb.tx
        /\ v.slips = {} => usb.slips = {} /\ v.rTog = usb.rTog
    BY <2>2 DEF Devices
  <2> HIDE DEF v
  <2>6. Unanswered(v) => Unanswered(usb)
    BY <2>5 DEF Unanswered
  <2>7. LinkOK(v, peer)
    BY <1>1, <2>1, <2>5, <2>6 DEF LinkOK, PhaseOK, ReportOK, PacketOK, NotSeen, AnswerOK
  <2> QED BY <1>1, <2>1, <2>4, <2>7 DEF UsbInv
<1> QED BY <1>2, <1>3, <1>4, <1>5, <1>6
-----------------------------------------------------------------------------
(* Every step of the host and the bus keeps it *)

\* An answer newer than those taken is taken in order.
LEMMA TakeInOrder ==
  ASSUME NEW h \in Peers, NEW d \in Data, NEW last \in Nat,
         InOrder(h.taken, h.whole, last), IsReport(d), d.head \in h.whole,
         \A n \in 1..Len(h.taken) : h.taken[n].head < d.head
  PROVE  Append(h.taken, d) \in Seq(Data) /\ InOrder(Append(h.taken, d), h.whole, d.head)
<1> DEFINE s == h.taken
           t == Append(h.taken, d)
<1>1. s \in Seq(Data) /\ Len(s) \in Nat
  BY DEF Peers
<1>2. t \in Seq(Data) /\ Len(t) = Len(s) + 1 /\ t[Len(s) + 1] = d
      /\ \A n \in 1..Len(s) : t[n] = s[n]
  BY <1>1
<1>3. \A n \in 1..Len(s) : s[n].head \in Nat
  BY TakenAre
<1>4. d.head \in Nat
  BY DEF Data
<1> HIDE DEF s, t
<1>5. \A n \in 1..Len(t) : IsReport(t[n]) /\ t[n].head \in h.whole /\ t[n].head <= d.head
  <2> TAKE n \in 1..Len(t)
  <2>1. CASE n \in 1..Len(s)
    BY <1>2, <1>3, <1>4, <2>1 DEF InOrder, s
  <2>2. CASE n = Len(s) + 1
    BY <1>2, <1>4, <2>2
  <2> QED BY <1>1, <1>2, <2>1, <2>2
<1>6. \A n \in 2..Len(t) : t[n - 1].head < t[n].head
  <2> TAKE n \in 2..Len(t)
  <2>1. n \in Nat /\ n - 1 \in 1..Len(s)
    BY <1>1, <1>2
  <2>2. CASE n \in 1..Len(s)
    <3>1. t[n] = s[n] /\ t[n - 1] = s[n - 1] /\ n \in 2..Len(s)
      BY <1>1, <1>2, <2>1, <2>2
    <3> QED BY <3>1 DEF InOrder, s
  <2>3. CASE n = Len(s) + 1
    BY <1>1, <1>2, <2>1, <2>3 DEF s
  <2> QED BY <1>1, <1>2, <2>1, <2>2, <2>3
<1> QED BY <1>2, <1>5, <1>6 DEF InOrder, t

\* The driver offers a report, with the next number.
LEMMA SubmitKeeps == UsbInv /\ Submit => UsbInv'
<1> SUFFICES ASSUME UsbInv, Submit PROVE UsbInv'
  OBVIOUS
<1>1. usb \in Devices /\ peer \in Peers /\ LinkOK(usb, peer) /\ usb' = usb /\ peer.up
  BY DEF UsbInv, Submit
<1>2. PICK full \in BOOLEAN :
        peer' = [peer EXCEPT !.sent = @ + 1, !.out = [id |-> peer.sent + 1, full |-> full],
                             !.whole = IF full THEN @ \union {peer.sent + 1} ELSE @]
  BY DEF Submit
<1> DEFINE sent == peer.sent + 1
           whole == IF full THEN peer.whole \union {sent} ELSE peer.whole
           out == [id |-> sent, full |-> full]
           h == [peer EXCEPT !.sent = sent, !.out = out, !.whole = whole]
<1>3. peer' = h
  BY <1>1, <1>2 DEF Peers
<1>4. /\ peer.sent \in Nat /\ sent \in Nat /\ peer.sent < sent /\ peer.whole \subseteq whole
      /\ whole \in SUBSET Nat
      /\ full => sent \in whole
  BY <1>1 DEF Peers
<1>5. out \in Packets /\ out # None /\ out.id = sent /\ (out.full => sent \in whole)
  BY <1>4, UsbAssumption DEF Packets, UsbAssumption
<1> HIDE DEF sent, whole, out
<1>6. h \in Peers
  <2>1. out \in Packets \union {None}
    BY <1>5
  <2> QED BY <1>1, <1>4, <2>1 DEF Peers
<1>7. /\ h.up = peer.up /\ h.asking = peer.asking /\ h.out = out
      /\ h.outTog = peer.outTog /\ h.inTog = peer.inTog /\ h.sent = sent /\ h.whole = whole
      /\ h.taken = peer.taken
  BY <1>1 DEF Peers
<1> HIDE DEF h
<1>8. ASSUME usb.slips = {}
      PROVE  PhaseOK(usb, h) /\ ReportOK(usb, h) /\ PacketOK(usb, h) /\ AnswerOK(usb, h)
  <2>1. PhaseOK(usb, peer) /\ ReportOK(usb, peer) /\ PacketOK(usb, peer) /\ AnswerOK(usb, peer)
    BY <1>1, <1>8 DEF LinkOK
  <2>2. usb.rx.head \in Nat /\ usb.tx.head \in Nat
    BY <1>1 DEF Devices, Data
  <2>3. PhaseOK(usb, h) /\ ReportOK(usb, h)
    BY <1>1, <1>4, <1>7, <2>1 DEF PhaseOK, ReportOK
  <2>4. NotSeen(usb, sent)
    BY <1>4, <2>1, <2>2 DEF NotSeen, PacketOK
  <2>5. PacketOK(usb, h)
    BY <1>4, <1>5, <1>7, <2>1, <2>2, <2>4 DEF PacketOK
  <2>6. AnswerOK(usb, h)
    BY <1>4, <1>7, <2>1 DEF AnswerOK, InOrder
  <2> QED BY <2>3, <2>5, <2>6
<1> QED BY <1>1, <1>3, <1>6, <1>8 DEF UsbInv, LinkOK
\* A packet lands in the buffer.  If its toggle is right it has a new number; if
\* its handshake is lost its toggle is wrong from now on.
LEMMA OutKeeps == UsbInv /\ OutPacket => UsbInv'
<1> SUFFICES ASSUME UsbInv, OutPacket PROVE UsbInv'
  OBVIOUS
<1>1. /\ usb \in Devices /\ peer \in Peers /\ LinkOK(usb, peer)
      /\ peer.up /\ ~peer.asking /\ usb.int = None /\ peer.out # None /\ usb.rRes = "ACK"
  BY DEF UsbInv, OutPacket, BusFree
<1> DEFINE togOk == peer.outTog = usb.rTog
           full == peer.out.full
           int == [token |-> "OUT", togOk |-> togOk, full |-> full]
           rTog == IF togOk THEN Flip(usb.rTog) ELSE usb.rTog
           rx == [usb.rx EXCEPT !.head = peer.out.id,
                                !.tail = IF full THEN peer.out.id ELSE usb.rx.tail]
           v == [usb EXCEPT !.rx = rx, !.rTog = rTog, !.int = int]
<1>2. peer.out \in Packets /\ peer.out.id \in Nat /\ full \in BOOLEAN /\ togOk \in BOOLEAN
  BY <1>1 DEF Peers, Packets
<1>3. usb.rx \in Data /\ usb.rx.head \in Nat /\ usb.rx.tail \in Nat /\ usb.tx.head \in Nat
      /\ usb.rTog \in {0, 1} /\ peer.outTog \in {0, 1} /\ peer.faults \in Nat
  BY <1>1 DEF Devices, Peers, Data
<1>4. usb' = v
  BY <1>1, <1>3 DEF OutPacket, Devices, Data
<1>5. /\ rx \in Data /\ rx.head = peer.out.id
      /\ full => IsReport(rx)
  BY <1>2, <1>3 DEF Data, IsReport
<1>6. /\ rTog \in {0, 1}
      /\ rTog # peer.outTog
  BY <1>3 DEF Flip
<1>a. Flip(peer.outTog) \in {0, 1} /\ (peer.outTog = usb.rTog <=> togOk)
  BY <1>3 DEF Flip
<1> HIDE DEF rx, rTog, togOk, full
<1>b. int \in Transfers
  BY <1>2 DEF Transfers
<1>c. int.token = "OUT" /\ int.togOk = togOk /\ int.full = full
  OBVIOUS
<1> HIDE DEF int
<1>7. int \in Transfers \union {None} /\ int # None /\ Token(int) = "OUT"
      /\ (TakesPacket(int) => togOk /\ full) /\ (togOk /\ full => TakesPacket(int))
  BY <1>b, <1>c, UsbAssumption DEF UsbAssumption, Token, TakesPacket
<1>8. v \in Devices
  BY <1>1, <1>5, <1>6, <1>7 DEF Devices
<1>9. /\ v.pc = usb.pc /\ v.int = int /\ v.reset = usb.reset /\ v.slips = usb.slips
      /\ v.rx_state = usb.rx_state /\ v.rRes = usb.rRes /\ v.rTog = rTog
      /\ v.tRes = usb.tRes /\ v.tTog = usb.tTog /\ v.tx_busy = usb.tx_busy
      /\ v.rx = rx /\ v.tx = usb.tx
  BY <1>1 DEF Devices
<1> HIDE DEF v
<1>10. PICK h \in Peers :
         /\ peer' = h /\ h.up = peer.up /\ h.asking = peer.asking /\ h.inTog = peer.inTog
         /\ h.sent = peer.sent /\ h.whole = peer.whole /\ h.taken = peer.taken
         /\ h.out # None => h.out = peer.out /\ h.outTog = peer.outTog
  <2>1. CASE peer' = [peer EXCEPT !.out = None, !.outTog = Flip(@)]
    <3> DEFINE h == [peer EXCEPT !.out = None, !.outTog = Flip(peer.outTog)]
    <3>1. h \in Peers
      BY <1>1, <1>a DEF Peers
    <3>2. /\ h.up = peer.up /\ h.asking = peer.asking /\ h.inTog = peer.inTog /\ h.out = None
          /\ h.sent = peer.sent /\ h.whole = peer.whole /\ h.taken = peer.taken
      BY <1>1 DEF Peers
    <3>3. peer' = h
      BY <1>1, <2>1 DEF Peers
    <3> HIDE DEF h
    <3> QED BY <3>1, <3>2, <3>3
  <2>2. CASE peer' = Faulted(peer)
    <3>1. peer.faults + 1 \in Nat
      BY <1>3
    <3> DEFINE h == [peer EXCEPT !.faults = peer.faults + 1]
    <3>2. h \in Peers
      BY <1>1, <3>1 DEF Peers
    <3> QED BY <1>1, <2>2, <3>2 DEF Peers, Faulted
  <2> QED BY <2>1, <2>2 DEF OutPacket
<1>11. ASSUME usb.slips = {}
       PROVE  PhaseOK(v, h) /\ ReportOK(v, h) /\ PacketOK(v, h) /\ AnswerOK(v, h)
  <2>1. PhaseOK(usb, peer) /\ ReportOK(usb, peer) /\ PacketOK(usb, peer) /\ AnswerOK(usb, peer)
    BY <1>1, <1>11 DEF LinkOK
  <2>2. Token(usb.int) = "none"
    BY <1>1 DEF Token
  <2>3. /\ usb.rx_state # "pending" /\ usb.pc \notin {"handle", "send"}
        /\ Unanswered(v) => togOk /\ full
    BY <1>1, <1>7, <1>9, <2>1, <2>2 DEF PhaseOK, Unanswered
  <2>4. PhaseOK(v, h)
    BY <1>1, <1>7, <1>9, <1>10, <2>1, <2>2, <2>3 DEF PhaseOK
  <2>5. /\ togOk => NotSeen(usb, peer.sent)
        /\ full => peer.sent \in peer.whole
        /\ peer.out.id = peer.sent /\ peer.sent \in Nat /\ usb.tx.head <= peer.sent
    BY <1>1, <1>a, <2>1 DEF PacketOK, full, Peers
  <2>6. ReportOK(v, h)
    BY <1>5, <1>9, <1>10, <2>3, <2>5 DEF ReportOK, NotSeen
  <2>7. PacketOK(v, h)
    BY <1>1, <1>5, <1>6, <1>7, <1>9, <1>10, <1>a, <2>1, <2>3, <2>5 DEF PacketOK, NotSeen, full
  <2>8. AnswerOK(v, h)
    BY <1>7, <1>9, <1>10, <2>1, <2>2 DEF AnswerOK
  <2> QED BY <2>4, <2>6, <2>7, <2>8
<1> QED BY <1>4, <1>8, <1>9, <1>10, <1>11 DEF UsbInv, LinkOK
\* The host fetches an answer, and takes it if its toggle is right; or the device
\* misses the handshake, and offers the answer with what is now a wrong toggle.
LEMMA InKeeps == UsbInv /\ InPacket => UsbInv'
<1> SUFFICES ASSUME UsbInv, InPacket PROVE UsbInv'
  OBVIOUS
<1>1. /\ usb \in Devices /\ peer \in Peers /\ LinkOK(usb, peer)
      /\ peer.up /\ ~peer.asking /\ usb.int = None /\ usb.tRes = "ACK"
  BY DEF UsbInv, InPacket, BusFree
<1>2. /\ usb.tx \in Data /\ usb.tx.head \in Nat /\ usb.tTog \in {0, 1} /\ peer.inTog \in {0, 1}
      /\ peer.faults \in Nat /\ peer.taken \in Seq(Data)
  BY <1>1 DEF Devices, Peers, Data
<1>a. /\ Flip(usb.tTog) \in {0, 1} /\ Flip(peer.inTog) \in {0, 1} /\ Flip(peer.inTog) # peer.inTog
      /\ peer.faults + 1 \in Nat
  BY <1>2 DEF Flip
<1>3. Token(usb.int) = "none"
  BY <1>1 DEF Token
<1> DEFINE takes == peer.inTog = usb.tTog
           inTog == IF takes THEN Flip(peer.inTog) ELSE peer.inTog
           taken == IF takes THEN Append(peer.taken, usb.tx) ELSE peer.taken
           g == [peer EXCEPT !.taken = taken, !.inTog = inTog]
           v == [usb EXCEPT !.tTog = Flip(usb.tTog), !.int = [token |-> "IN"]]
<1>4. inTog \in {0, 1} /\ inTog # usb.tTog
  BY <1>2, <1>a
<1>5. taken \in Seq(Data)
  BY <1>2
<1>6. \/ usb' = v /\ peer' = g
      \/ usb' = usb /\ peer' = [g EXCEPT !.faults = peer.faults + 1]
  <2> DEFINE h == IF takes THEN [peer EXCEPT !.taken = Append(peer.taken, usb.tx),
                                             !.inTog = Flip(peer.inTog)] ELSE peer
  <2>1. h = g
    BY <1>1 DEF Peers
  <2>2. \/ usb' = v /\ peer' = h
        \/ usb' = usb /\ peer' = [h EXCEPT !.faults = h.faults + 1]
    BY <1>1 DEF InPacket, Faulted, Devices, Peers
  <2>3. g.faults = peer.faults
    BY <1>1 DEF Peers
  <2> HIDE DEF g, h, v
  <2> QED BY <2>1, <2>2, <2>3
<1>7. usb.slips = {} => InOrder(taken, peer.whole, usb.tx.head)
  <2> SUFFICES ASSUME usb.slips = {} PROVE InOrder(taken, peer.whole, usb.tx.head)
    OBVIOUS
  <2>1. AnswerOK(usb, peer)
    BY <1>1 DEF LinkOK
  <2>2. CASE takes
    <3>1. /\ InOrder(peer.taken, peer.whole, usb.tx.head) /\ IsReport(usb.tx)
          /\ usb.tx.head \in peer.whole
          /\ \A n \in 1..Len(peer.taken) : peer.taken[n].head < usb.tx.head
      BY <1>1, <1>3, <2>1, <2>2 DEF AnswerOK
    <3> QED BY <1>1, <1>2, <2>2, <3>1, TakeInOrder
  <2>3. CASE ~takes
    BY <2>1, <2>3 DEF AnswerOK
  <2> QED BY <2>2, <2>3
<1> HIDE DEF takes, inTog, taken
<1>8. CASE usb' = v /\ peer' = g
  <2>1. g \in Peers
    BY <1>1, <1>4, <1>5 DEF Peers
  <2>2. [token |-> "IN"] \in Transfers \union {None} /\ Token([token |-> "IN"]) = "IN"
    BY UsbAssumption DEF UsbAssumption, Transfers, Token
  <2>3. v \in Devices
    BY <1>1, <1>a, <2>2 DEF Devices
  <2>4. /\ v.pc = usb.pc /\ Token(v.int) = "IN" /\ v.reset = usb.reset /\ v.slips = usb.slips
        /\ v.rx_state = usb.rx_state /\ v.rRes = usb.rRes /\ v.rTog = usb.rTog
        /\ v.tRes = usb.tRes /\ v.tx_busy = usb.tx_busy /\ v.rx = usb.rx /\ v.tx = usb.tx
    BY <1>1, <2>2 DEF Devices
  <2>5. /\ g.up = peer.up /\ g.asking = peer.asking /\ g.out = peer.out /\ g.outTog = peer.outTog
        /\ g.sent = peer.sent /\ g.whole = peer.whole /\ g.taken = taken
    BY <1>1 DEF Peers
  <2> HIDE DEF v, g
  <2>6. Unanswered(v) <=> Unanswered(usb)
    BY <1>3, <2>4 DEF Unanswered
  <2>7. LinkOK(v, g)
    BY <1>1, <1>3, <1>7, <2>4, <2>5, <2>6
    DEF LinkOK, PhaseOK, ReportOK, PacketOK, NotSeen, AnswerOK
  <2> QED BY <1>8, <2>1, <2>3, <2>7 DEF UsbInv
<1>9. CASE usb' = usb /\ peer' = [g EXCEPT !.faults = peer.faults + 1]
  <2> DEFINE h == [g EXCEPT !.faults = peer.faults + 1]
  <2>1. h \in Peers
    BY <1>1, <1>a, <1>4, <1>5 DEF Peers
  <2>2. /\ h.up = peer.up /\ h.asking = peer.asking /\ h.out = peer.out /\ h.outTog = peer.outTog
        /\ h.sent = peer.sent /\ h.whole = peer.whole /\ h.taken = taken /\ h.inTog = inTog
    BY <1>1 DEF Peers
  <2> HIDE DEF h
  <2>3. LinkOK(usb, h)
    BY <1>1, <1>4, <1>7, <2>2 DEF LinkOK, PhaseOK, ReportOK, PacketOK, AnswerOK
  <2> QED BY <1>1, <1>9, <2>1, <2>3 DEF UsbInv, h
<1> QED BY <1>6, <1>8, <1>9

\* A transfer is abandoned and its pipe cleared.
LEMMA ClearKeeps == UsbInv /\ ClearPipe => UsbInv'
<1> SUFFICES ASSUME UsbInv, ClearPipe PROVE UsbInv'
  OBVIOUS
<1>1. /\ usb \in Devices /\ peer \in Peers /\ LinkOK(usb, peer)
      /\ peer.up /\ ~peer.asking /\ usb.int = None
  BY DEF UsbInv, ClearPipe, BusFree
<1>2. PICK ep \in {"IN", "OUT"} :
        /\ usb' = [usb EXCEPT !.int = [token |-> "SETUP", ep |-> ep]]
        /\ peer' = [Faulted(peer) EXCEPT !.asking = TRUE, !.out = IF ep = "OUT" THEN None ELSE @]
  BY DEF ClearPipe
<1> DEFINE int == [token |-> "SETUP", ep |-> ep]
           out == IF ep = "OUT" THEN None ELSE peer.out
           v == [usb EXCEPT !.int = int]
           h == [peer EXCEPT !.faults = peer.faults + 1, !.asking = TRUE, !.out = out]
<1>3. usb' = v /\ peer' = h
  BY <1>1, <1>2 DEF Faulted, Peers
<1>4. int \in Transfers \union {None} /\ Token(int) = "SETUP" /\ int.ep = ep
  BY UsbAssumption DEF UsbAssumption, Transfers, Token
<1>5. /\ out \in Packets \union {None}
      /\ out # None => out = peer.out /\ ep # "OUT"
  BY <1>1 DEF Peers
<1>6. peer.faults + 1 \in Nat
  BY <1>1 DEF Peers
<1>7. Token(usb.int) = "none"
  BY <1>1 DEF Token
<1> HIDE DEF int, out
<1>8. v \in Devices
  BY <1>1, <1>4 DEF Devices
<1>9. h \in Peers
  BY <1>1, <1>5, <1>6 DEF Peers
<1>10. /\ v.pc = usb.pc /\ v.int = int /\ v.reset = usb.reset /\ v.slips = usb.slips
       /\ v.rx_state = usb.rx_state /\ v.rRes = usb.rRes /\ v.rTog = usb.rTog
       /\ v.tRes = usb.tRes /\ v.tTog = usb.tTog /\ v.tx_busy = usb.tx_busy
       /\ v.rx = usb.rx /\ v.tx = usb.tx
  BY <1>1 DEF Devices
<1>11. /\ h.up = peer.up /\ h.asking = TRUE /\ h.out = out /\ h.outTog = peer.outTog
       /\ h.sent = peer.sent /\ h.whole = peer.whole /\ h.taken = peer.taken
       /\ h.inTog = peer.inTog
  BY <1>1 DEF Peers
<1> HIDE DEF v, h
<1>12. Unanswered(v) <=> Unanswered(usb)
  BY <1>4, <1>7, <1>10 DEF Unanswered
<1>13. LinkOK(v, h)
  BY <1>1, <1>4, <1>5, <1>7, <1>10, <1>11, <1>12
  DEF LinkOK, PhaseOK, ReportOK, PacketOK, NotSeen, AnswerOK
<1> QED BY <1>3, <1>8, <1>9, <1>13 DEF UsbInv

\* The bus is reset: the host forgets its packet and its toggles, and talks again
\* when the firmware has seen the reset.
LEMMA ResetKeeps == UsbInv /\ BusReset => UsbInv'
<1> SUFFICES ASSUME UsbInv, BusReset PROVE UsbInv'
  OBVIOUS
<1>1. usb \in Devices /\ peer \in Peers /\ LinkOK(usb, peer) /\ peer.up /\ ~peer.asking
  BY DEF UsbInv, BusReset
<1> DEFINE v == [usb EXCEPT !.reset = TRUE]
           h == [peer EXCEPT !.faults = peer.faults + 1, !.up = FALSE, !.out = None,
                             !.outTog = 0, !.inTog = 0]
<1>2. usb' = v /\ peer' = h
  BY <1>1 DEF BusReset, Faulted, Peers
<1>3. peer.faults + 1 \in Nat
  BY <1>1 DEF Peers
<1>4. v \in Devices /\ h \in Peers
  BY <1>1, <1>3 DEF Devices, Peers
<1>5. /\ v.pc = usb.pc /\ v.int = usb.int /\ v.reset = TRUE /\ v.slips = usb.slips
      /\ v.rx_state = usb.rx_state /\ v.rRes = usb.rRes /\ v.rTog = usb.rTog
      /\ v.tRes = usb.tRes /\ v.tTog = usb.tTog /\ v.tx_busy = usb.tx_busy
      /\ v.rx = usb.rx /\ v.tx = usb.tx
  BY <1>1 DEF Devices
<1>6. /\ h.up = FALSE /\ h.asking = peer.asking /\ h.out = None
      /\ h.sent = peer.sent /\ h.whole = peer.whole /\ h.taken = peer.taken
  BY <1>1 DEF Peers
<1> HIDE DEF v, h
<1>7. Unanswered(v) <=> Unanswered(usb)
  BY <1>5 DEF Unanswered
<1>8. LinkOK(v, h)
  BY <1>1, <1>5, <1>6, <1>7 DEF LinkOK, PhaseOK, ReportOK, PacketOK, AnswerOK
<1> QED BY <1>2, <1>4, <1>8 DEF UsbInv

-----------------------------------------------------------------------------
(* The property *)

\* Every reachable state of the link satisfies the invariant.
THEOREM UsbInductive == UsbSpec => []UsbInv
<1>1. UsbInv /\ [UsbNext]_usbVars => UsbInv'
  <2> SUFFICES ASSUME UsbInv, [UsbNext]_usbVars PROVE UsbInv'
    OBVIOUS
  <2>1. CASE UNCHANGED usbVars
    BY <2>1 DEF usbVars, UsbInv
  <2> QED BY <2>1, HandBackKeeps, PollKeeps, AnswerKeeps, SendKeeps, DrainKeeps, SubmitKeeps, OutKeeps, InKeeps, ClearKeeps, ResetKeeps
          DEF UsbNext, Firmware
<1> QED BY <1>1, UsbStart, PTL DEF UsbSpec

\* usb_transport.c:239-247, 315-330, 343-357: each answer that the host takes is to
\* one whole report, in the order of the reports and once, unless the pipe was
\* cleared while a report waited, or an unheld write of the control register put
\* back the toggle of a report that came in.
THEOREM AnswersSound == UsbSpec => []AnswersMatchReports
<1>1. UsbInv => AnswersMatchReports
  <2> SUFFICES ASSUME UsbInv, usb.slips = {}
               PROVE  InOrder(peer.taken, peer.whole, usb.tx.head) /\ peer.taken \in Seq(Data)
    BY DEF AnswersMatchReports, InOrder
  <2> QED BY DEF UsbInv, LinkOK, AnswerOK, Peers
<1> QED BY <1>1, UsbInductive, PTL
=============================================================================
