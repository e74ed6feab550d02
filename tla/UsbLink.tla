------------------------------ MODULE UsbLink ------------------------------
(***************************************************************************)
(* The USB transport of the firmware (usb_transport.c): endpoint 1 of a    *)
(* full-speed device, polled, between the core and a host.                 *)
(*                                                                         *)
(* The serial interface engine (SIE) moves a packet by itself whenever the *)
(* endpoint answers ACK, sets an interrupt flag and answers NAK until the  *)
(* flag is cleared (RB_UC_INT_BUSY); the firmware sees the flag when it    *)
(* next calls usb_process.  Of a report the model keeps its head and its   *)
(* tail, of a frame the report it came in: an answer is named after the    *)
(* report that the core read.  Of the control endpoint it keeps the        *)
(* requests that touch endpoint 1.                                         *)
(***************************************************************************)
EXTENDS Naturals, Sequences

CONSTANTS
  None,
  DrainPolls,   \* 10000 / OB_POLL_INTERVAL_US
  MaxReports,   \* bound: reports the host sends
  MaxFaults     \* bound: lost handshakes, bus resets, cleared and abandoned transfers

\* A transfer that the interrupt flags report, and a packet the host offers.
Transfers ==
  [token : {"IN"}] \union [token : {"OUT"}, togOk : BOOLEAN, full : BOOLEAN]
  \union [token : {"SETUP"}, ep : {"IN", "OUT"}]
Packets == [id : Nat, full : BOOLEAN]

ASSUME UsbAssumption ==
  /\ DrainPolls \in Nat \ {0} /\ MaxReports \in Nat /\ MaxFaults \in Nat
  /\ None \notin Transfers \union Packets

VARIABLES
  usb,    \* the firmware's variables and the registers of endpoint 1
  peer    \* the host: its side of the two pipes, and what went through them

usbVars == <<usb, peer>>

Flip(t) == 1 - t
NoData == [head |-> 0, tail |-> 0]
IsReport(p) == p.head = p.tail

-----------------------------------------------------------------------------
(* The firmware *)

usb_ep_reset(u) ==
  [u EXCEPT !.rRes = "ACK", !.rTog = 0, !.tRes = "NAK", !.tTog = 0,
            !.rx_state = "idle", !.tx_busy = FALSE]

\* Fault: a packet of any length is a report.
TakesPacket_Short(int) == int.togOk
TakesPacket(int) == int.togOk /\ int.full

\* ep0_setup: CLEAR_FEATURE(ENDPOINT_HALT).  The endpoint answers ACK again, with
\* a report in its buffer or not; `slips' remembers that one was waiting.
ClearHalt(u, ep) ==
  IF ep = "IN" THEN [u EXCEPT !.tTog = 0, !.tRes = "NAK"]
  ELSE [u EXCEPT !.rTog = 0, !.rRes = "ACK",
                  !.slips = IF u.rx_state = "pending" THEN @ \union {"given away"} ELSE @]

\* The event pump: one transfer, or else a bus reset.
usb_process(u) ==
  LET done == [u EXCEPT !.int = None] IN
  IF u.int # None
  THEN CASE u.int.token = "IN"    -> [done EXCEPT !.tRes = "NAK", !.tx_busy = FALSE]
         [] u.int.token = "SETUP" -> ClearHalt(done, u.int.ep)
         [] u.int.token = "OUT"   -> IF TakesPacket(u.int)
                                     THEN [done EXCEPT !.rRes = "NAK", !.rx_state = "pending"]
                                     ELSE done
  ELSE IF u.reset THEN usb_ep_reset([u EXCEPT !.reset = FALSE]) ELSE u

\* What the host learns: the status stage of its request ended, or the device
\* answers at address 0 again.
PeerAfter(u) ==
  IF u.int # None
  THEN IF u.int.token # "SETUP" THEN peer
       ELSE IF u.int.ep = "IN" THEN [peer EXCEPT !.asking = FALSE, !.inTog = 0]
       ELSE [peer EXCEPT !.asking = FALSE, !.outTog = 0]
  ELSE IF u.reset THEN [peer EXCEPT !.up = TRUE] ELSE peer

\* Outside the pump nothing keeps the SIE off the endpoint.  The control register,
\* which holds the toggles that the SIE flips, is read in one step and written in
\* the next; `slips' remembers that the OUT toggle was put back.
Load(u) == [u EXCEPT !.read = <<u.rTog, u.tTog>>]
Store(u) ==
  [u EXCEPT !.slips = IF u.rTog # u.read[1] THEN @ \union {"toggle lost"} ELSE @,
            !.rTog = u.read[1], !.tTog = u.read[2], !.read = <<0, 0>>]

\* The core is done with the last report: the endpoint goes back to the hardware.
HandBackRead ==
  /\ usb.pc = "poll" /\ usb.rx_state = "core"
  /\ usb' = [Load(usb) EXCEPT !.rx_state = "idle", !.pc = "hand back"] /\ UNCHANGED peer

\* Fault: the endpoint is not given back.
HandBackWrite_Never ==
  /\ usb.pc = "hand back"
  /\ usb' = [Store(usb) EXCEPT !.pc = "poll"] /\ UNCHANGED peer
HandBackWrite ==
  /\ usb.pc = "hand back"
  /\ usb' = [Store(usb) EXCEPT !.rRes = "ACK", !.pc = "poll"] /\ UNCHANGED peer

\* The rest of the call: the pump, and what it found.
tr_poll ==
  /\ usb.pc = "poll" /\ usb.rx_state # "core"
  /\ LET u == usb_process(usb) IN
       usb' = IF u.rx_state = "pending" THEN [u EXCEPT !.rx_state = "core", !.pc = "handle",
                                                               !.frame = u.rx] ELSE u
  /\ peer' = PeerAfter(usb)

\* The core has read the report, and may have nothing to say.
CoreIgnores == usb.pc = "handle" /\ usb' = [usb EXCEPT !.pc = "poll"] /\ UNCHANGED peer

tr_send ==
  /\ usb.pc = "handle"
  /\ usb' = [Load(usb) EXCEPT !.tx = usb.rx, !.pc = "send"] /\ UNCHANGED peer

SendWrite ==
  /\ usb.pc = "send"
  /\ usb' = [Store(usb) EXCEPT !.tRes = "ACK", !.tx_busy = TRUE, !.i = 0, !.pc = "drain"]
  /\ UNCHANGED peer

DrainPoll ==
  /\ usb.pc = "drain" /\ usb.tx_busy /\ usb.i < DrainPolls
  /\ usb' = [usb_process(usb) EXCEPT !.i = @ + 1]
  /\ peer' = PeerAfter(usb)

DrainedTx ==
  /\ usb.pc = "drain" /\ ~usb.tx_busy
  /\ usb' = [usb EXCEPT !.pc = "poll"] /\ UNCHANGED peer

\* The host never came.
GiveUpRead ==
  /\ usb.pc = "drain" /\ usb.tx_busy /\ usb.i = DrainPolls
  /\ usb' = [Load(usb) EXCEPT !.pc = "give up"] /\ UNCHANGED peer

GiveUpWrite ==
  /\ usb.pc = "give up"
  /\ usb' = [Store(usb) EXCEPT !.tRes = "NAK", !.tx_busy = FALSE, !.pc = "poll"]
  /\ UNCHANGED peer

Firmware ==
  \/ HandBackRead \/ HandBackWrite \/ tr_poll \/ CoreIgnores
  \/ tr_send \/ SendWrite \/ DrainPoll \/ DrainedTx \/ GiveUpRead \/ GiveUpWrite

-----------------------------------------------------------------------------
(* The host and the bus *)

\* A packet passes: the host talks, and no transfer is waiting for the firmware.
BusFree == peer.up /\ ~peer.asking /\ usb.int = None /\ ~usb.reset

MayFault == peer.faults < MaxFaults
Faulted(h) == [h EXCEPT !.faults = @ + 1]

\* A report of 64 bytes, or a shorter packet.
Submit ==
  /\ peer.up /\ peer.out = None /\ peer.sent < MaxReports
  /\ \E full \in BOOLEAN :
       peer' = [peer EXCEPT !.sent = @ + 1, !.out = [id |-> peer.sent + 1, full |-> full],
                            !.whole = IF full THEN @ \union {peer.sent + 1} ELSE @]
  /\ UNCHANGED usb

\* The packet lands in the DMA buffer.  Its toggle tells whether it was seen
\* before; if the host misses the handshake it sends the packet again.
OutPacket ==
  /\ BusFree /\ peer.out # None /\ usb.rRes = "ACK"
  /\ LET togOk == peer.outTog = usb.rTog IN
       usb' = [usb EXCEPT !.rx.head = peer.out.id,
                          !.rx.tail = IF peer.out.full THEN peer.out.id ELSE @,
                          !.rTog = IF togOk THEN Flip(@) ELSE @,
                          !.int = [token |-> "OUT", togOk |-> togOk, full |-> peer.out.full]]
  /\ \/ peer' = [peer EXCEPT !.out = None, !.outTog = Flip(@)]
     \/ MayFault /\ peer' = Faulted(peer)

\* The host takes an answer, unless its toggle says that it has it already.  If
\* the device misses the handshake nothing happens there.
InPacket ==
  /\ BusFree /\ usb.tRes = "ACK"
  /\ LET h == IF peer.inTog = usb.tTog
              THEN [peer EXCEPT !.taken = Append(@, usb.tx), !.inTog = Flip(@)] ELSE peer IN
       \/ /\ usb' = [usb EXCEPT !.tTog = Flip(@), !.int = [token |-> "IN"]]
          /\ peer' = h
       \/ MayFault /\ peer' = Faulted(h) /\ UNCHANGED usb

\* A transfer is abandoned, and the pipe cleared.
ClearPipe ==
  /\ BusFree /\ MayFault
  /\ \E ep \in {"IN", "OUT"} :
       /\ usb' = [usb EXCEPT !.int = [token |-> "SETUP", ep |-> ep]]
       /\ peer' = [Faulted(peer) EXCEPT !.asking = TRUE, !.out = IF ep = "OUT" THEN None ELSE @]

\* A transfer that the SIE has taken stays ahead of the reset.
BusReset ==
  /\ peer.up /\ ~peer.asking /\ MayFault
  /\ usb' = [usb EXCEPT !.reset = TRUE]
  /\ peer' = [Faulted(peer) EXCEPT !.up = FALSE, !.out = None, !.outTog = 0, !.inTog = 0]

UsbInit ==
  /\ usb = [pc |-> "poll", rx_state |-> "idle", tx_busy |-> FALSE, i |-> 0, read |-> <<0, 0>>,
            int |-> None, reset |-> FALSE, slips |-> {}, rRes |-> "ACK", rTog |-> 0, tRes |-> "NAK", tTog |-> 0,
            rx |-> NoData, frame |-> NoData, tx |-> NoData]
  /\ peer = [up |-> TRUE, asking |-> FALSE, out |-> None, outTog |-> 0, inTog |-> 0, sent |-> 0,
             whole |-> {}, taken |-> <<>>, faults |-> 0]

UsbNext == Firmware \/ Submit \/ OutPacket \/ InPacket \/ ClearPipe \/ BusReset

\* The firmware runs and the host's driver offers a report again; nobody need
\* ask for the answers.
UsbSpec == UsbInit /\ [][UsbNext]_usbVars /\ WF_usbVars(Firmware) /\ WF_usbVars(OutPacket)

-----------------------------------------------------------------------------
(* Properties *)

\* Every answer the host takes is to one whole report that it sent; answers come
\* in the order of the reports, and no report is answered twice, whatever
\* handshakes are lost and whenever the pipes are cleared or the bus is reset
\* (usb_transport.c:239-247, 315-330, 343-357).  The exceptions are a pipe
\* cleared while a report waits for the core, and a report that comes in between
\* the read and the write of line 321 or 355, the pipe having been cleared while
\* the core held the last one (its toggle is lost, and the packet, sent again,
\* passes for a new one).  Line 343 can lose it only after the first of them.
AnswersMatchReports ==
  usb.slips # {} \/
  /\ \A n \in DOMAIN peer.taken : IsReport(peer.taken[n]) /\ peer.taken[n].head \in peer.whole
  /\ \A n \in 2..Len(peer.taken) : peer.taken[n - 1].head < peer.taken[n].head

\* The endpoint never wedges: a packet that the host keeps offering is taken,
\* whether or not anybody fetches the answers (usb_transport.c:317-322, 344-357).
UsbNeverWedges ==
  \A r \in 1..MaxReports :
    (peer.out # None /\ peer.out.id = r) ~> ~(peer.out # None /\ peer.out.id = r)

\* "the buffer stays valid until the next tr_poll/tr_send as the transport
\* contract requires" (usb_transport.c:29-30).  It does not when the pipe is
\* cleared in the poll that hands over a report which came in during tr_send.
BufferStaysValid == usb.pc = "handle" => usb.rx = usb.frame
=============================================================================
