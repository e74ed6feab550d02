----------------------------- MODULE MCFirmware -----------------------------
(***************************************************************************)
(* Small instances of what surrounds the engine in the firmware: the main  *)
(* loop, the USB transport and the flash driver.  They share no state, so  *)
(* a behaviour is about one of them.                                       *)
(***************************************************************************)
EXTENDS MainLoop, UsbLink, FlashDriver

-----------------------------------------------------------------------------
(* Calls of the flash driver: ranges that start and end within a page of    *)
(* eight bytes, span pages and blocks of sixteen, are empty, unaligned, or  *)
(* run over the end of the address space.                                   *)

Addrs == {0, 4, 6, 16, 62}
Lens  == {0, 3, 8, 10, 16, 32}
Ranges == {r \in Addrs \X Lens : r[1] + r[2] <= DieLen \/ r[1] + r[2] >= Top}

\* One word per place, the last one cut short.
Same(len)   == [k \in 1..(len + 1) \div 2 |-> {1}]
Rising(len) == [k \in 1..(len + 1) \div 2 |-> {k % 3}]

MCRequests ==
  {[op |-> "erase", addr |-> r[1], len |-> r[2], buf |-> <<>>, aligned |-> TRUE] : r \in Ranges}
  \union {[op |-> o, addr |-> r[1], len |-> r[2], buf |-> b, aligned |-> g] :
            o \in {"write", "verify"}, r \in Ranges, b \in {Same(32), Rising(32)}, g \in BOOLEAN}
  \union {[op |-> "info", addr |-> 0, len |-> 0, buf |-> <<>>, aligned |-> TRUE]}

MCContents == {[a \in Words |-> {}], [a \in Words |-> {1}]}

-----------------------------------------------------------------------------
VARIABLE job   \* what the behaviour is about

vars == <<job, loopVars, usbVars, flashVars>>

\* A loop that is not looked at has nothing to boot.
LoopAsleep ==
  /\ pc = "poll" /\ act = FALSE /\ session = FALSE /\ bootable = FALSE /\ mutated = FALSE
  /\ clock = 0 /\ idleStart = 0 /\ idle = 0 /\ busy = 0 /\ unsent = 0 /\ fifo = 0

FlashAsleep == FlashInit /\ die.mem = [a \in Words |-> {}]

Init ==
  /\ UsbInit
  /\ \/ job = "loop" /\ LoopInit /\ FlashAsleep
     \/ job = "usb" /\ LoopAsleep /\ FlashAsleep
     \/ job = "flash" /\ LoopAsleep /\ FlashInit

Next ==
  \/ job = "loop" /\ LoopNext /\ UNCHANGED <<job, usbVars, flashVars>>
  \/ job = "usb" /\ UsbNext /\ UNCHANGED <<job, loopVars, flashVars>>
  \/ job = "flash" /\ FlashNext /\ UNCHANGED <<job, loopVars, usbVars>>
  \/ job = "flash" /\ drv.pc = "idle" /\ UNCHANGED vars   \* the core may be done

\* The fairness of LoopSpec and of UsbSpec.
Fairness ==
  /\ WF_loopVars(job = "loop" /\ Loop) /\ WF_loopVars(job = "loop" /\ Wire)
  /\ WF_usbVars(job = "usb" /\ Firmware) /\ WF_usbVars(job = "usb" /\ OutPacket)

FirmwareSpec == Init /\ [][Next]_vars /\ Fairness
=============================================================================
