------------------------------ MODULE MainLoop ------------------------------
(***************************************************************************)
(* The main loop of the firmware (main.c) around the engine, with the      *)
(* transport it polls and the free-running counter it reads: one thread,   *)
(* no interrupts.                                                          *)
(*                                                                         *)
(* The host may send anything at any pace.  Of the engine the loop needs   *)
(* to know whether a session is open, whether flash was changed and        *)
(* whether a slot would boot; BootCore says when each may change.  The     *)
(* transport is that of uart_transport.c: an answer goes through a FIFO    *)
(* that the wire empties.  The counter wraps modulo `Wrap'.                *)
(***************************************************************************)
EXTENDS Naturals

CONSTANTS
  Wrap,          \* 2^32
  IdleTimeout,   \* OB_IDLE_TIMEOUT_TICKS
  BusyPollsMax,  \* OB_BUSY_POLLS_MAX
  HandleTime,    \* bound: the longest a frame takes to be handled and answered
  FifoSize,      \* UART_FIFO_SIZE
  AnswerLen      \* bytes of an answer

\* One pass sleeps for one tick at the end.
PassTime == HandleTime + 1
MaxGap   == BusyPollsMax * PassTime

\* The first two are the _Static_asserts of main.c: room is left between the
\* deadline and the wrap for the longest time between two reads.
ASSUME LoopAssumption ==
  /\ IdleTimeout \in Nat \ {0} /\ Wrap \in Nat /\ 2 * IdleTimeout <= Wrap
  /\ IdleTimeout + MaxGap < Wrap
  /\ BusyPollsMax \in Nat \ {0} /\ HandleTime \in Nat
  /\ FifoSize \in Nat \ {0} /\ AnswerLen \in Nat \ {0}

VARIABLES
  pc,          \* where the loop is, or where the processor went
  act,         \* ob_action_t of the frame being answered: a reset follows
  session,     \* ob_core_session_active
  bootable,    \* ob_boot_select finds a slot
  mutated,     \* history: flash was changed since the last reset
  clock,       \* SysTick
  idleStart,   \* idle_start
  idle,        \* history: the time that really passed since
  busy,        \* busy_polls
  unsent,      \* bytes of the answer still to be put
  fifo         \* bytes in the transmit FIFO

loopVars == <<pc, act, session, bootable, mutated, clock, idleStart, idle, busy, unsent, fifo>>
engine == <<session, bootable, mutated>>
timer  == <<clock, idleStart, idle>>
txd    == <<unsent, fifo>>

\* The counter runs on; the history saturates beyond any deadline.
Least(a, b) == IF a < b THEN a ELSE b
IdleCap == IdleTimeout + MaxGap + 1
Pass(t) == clock' = (clock + t) % Wrap /\ idle' = Least(idle + t, IdleCap)

\* Fault: the deadline is a value of the counter, to which others are compared.
ob_idle_elapsed_Absolute(start, now) == now >= (start + IdleTimeout) % Wrap
\* boot_decision.c: a 32-bit difference
ob_idle_elapsed(start, now) == (now + Wrap - start) % Wrap >= IdleTimeout

-----------------------------------------------------------------------------
PollNothing ==
  /\ pc = "poll"
  /\ pc' = "busy" /\ UNCHANGED <<act, engine, timer, busy, txd>>

\* Fault: any frame puts the deadline off.
Restart_OnTraffic == idleStart' = clock'
\* The deadline is anchored once.
KeepAnchor == UNCHANGED idleStart

\* A frame is handled.  HELLO opens the session, without which nothing is done;
\* ERASE, WRITE and COMMIT change what is in flash; BOOT asks for a reset.
PollFrame ==
  /\ pc = "poll"
  /\ \/ UNCHANGED engine /\ act' = FALSE
     \/ session' = TRUE /\ UNCHANGED <<bootable, mutated>> /\ act' = FALSE
     \/ session /\ mutated' = TRUE /\ bootable' \in BOOLEAN /\ UNCHANGED session /\ act' = FALSE
     \/ session /\ UNCHANGED engine /\ act' = TRUE
  /\ \E t \in 0..HandleTime : Pass(t)
  /\ KeepAnchor
  /\ unsent' = AnswerLen /\ pc' = "send"
  /\ UNCHANGED <<busy, fifo>>

\* uart_put: a byte waits for room in the FIFO.
Put ==
  /\ pc = "send" /\ unsent > 0 /\ fifo < FifoSize
  /\ unsent' = unsent - 1 /\ fifo' = fifo + 1
  /\ UNCHANGED <<pc, act, engine, timer, busy>>

\* Respond before acting.
Answered ==
  /\ pc = "send" /\ unsent = 0
  /\ pc' = IF act THEN "quiesce" ELSE "busy"
  /\ UNCHANGED <<act, engine, timer, busy, txd>>

\* The wire takes a byte.
Wire ==
  /\ fifo > 0 /\ fifo' = fifo - 1
  /\ UNCHANGED <<pc, act, engine, timer, busy, unsent>>

\* Fault: the reset does not wait for the wire.
Drained_Never == TRUE
\* tr_deinit
Drained == fifo = 0

\* A reset that somebody asked for.
Reset ==
  /\ pc = "quiesce" /\ Drained
  /\ pc' = "reset" /\ UNCHANGED <<act, engine, timer, busy, txd>>

BusyExhausted == busy + 1 >= BusyPollsMax

\* Mid-frame the clock is not looked at, for a number of passes.
BusySkip ==
  /\ pc = "busy" /\ ~BusyExhausted
  /\ busy' = busy + 1 /\ pc' = "sleep"
  /\ UNCHANGED <<act, engine, timer, txd>>

\* The receiver is idle, or has been busy for too long.
BusyOver ==
  /\ pc = "busy"
  /\ busy' = 0 /\ pc' = "idle"
  /\ UNCHANGED <<act, engine, timer, txd>>

\* Fault: a session does not hold the device.
Suppressed_Never == FALSE
Suppressed == session

\* Idle auto-boot.  With nothing to boot the deadline is anchored anew.
IdleCheck ==
  /\ pc = "idle"
  /\ IF ~Suppressed /\ ob_idle_elapsed(idleStart, clock)
     THEN IF bootable THEN pc' = "jump" /\ UNCHANGED timer
          ELSE pc' = "sleep" /\ idleStart' = clock /\ idle' = 0 /\ UNCHANGED clock
     ELSE pc' = "sleep" /\ UNCHANGED timer
  /\ UNCHANGED <<act, engine, busy, txd>>

\* tr_deinit, then ob_jump_app
Jump ==
  /\ pc = "jump" /\ Drained
  /\ pc' = "app" /\ UNCHANGED <<act, engine, timer, busy, txd>>

Sleep ==
  /\ pc = "sleep"
  /\ Pass(1) /\ pc' = "poll"
  /\ UNCHANGED <<act, engine, idleStart, busy, txd>>

\* ob_boot_decide after a reset, by request or with nothing to boot: bring-up,
\* and the anchor of the deadline.  Otherwise the application starts.
Decide ==
  /\ pc = "reset"
  /\ \/ /\ pc' = "poll"
        /\ session' = FALSE /\ mutated' = FALSE /\ idleStart' = clock /\ idle' = 0 /\ busy' = 0
        /\ UNCHANGED <<bootable, clock, txd, act>>
     \/ /\ bootable /\ pc' = "app" /\ mutated' = FALSE
        /\ UNCHANGED <<act, session, bootable, timer, busy, txd>>

\* The application resets into the bootloader, or the power is cut.
AppResets ==
  /\ pc = "app"
  /\ pc' = "reset" /\ act' = FALSE /\ session' = FALSE
  /\ UNCHANGED <<bootable, mutated, timer, busy, txd>>

LoopInit ==
  /\ pc = "poll" /\ act = FALSE /\ session = FALSE /\ bootable \in BOOLEAN /\ mutated = FALSE
  /\ clock \in 0..Wrap - 1 /\ idleStart = clock /\ idle = 0 /\ busy = 0
  /\ unsent = 0 /\ fifo = 0

Loop ==
  \/ PollNothing \/ PollFrame \/ Put \/ Answered \/ Reset \/ BusySkip \/ BusyOver \/ IdleCheck
  \/ Jump \/ Sleep \/ Decide

LoopNext == Loop \/ Wire \/ AppResets

\* The processor runs, and the wire moves.  Nothing is asked of the host.
LoopSpec == LoopInit /\ [][LoopNext]_loopVars /\ WF_loopVars(Loop) /\ WF_loopVars(Wire)

-----------------------------------------------------------------------------
(* Properties *)

InLoop == pc \notin {"app", "reset"}

\* A device that could start its application is not kept from it past the
\* deadline by any traffic that opens no session, wherever the counter wraps
\* (main.c:18-20, 26-33, 100-105).
DeadlineHolds == InLoop /\ ~session /\ bootable => idle <= IdleTimeout + MaxGap

\* The window in which a host may connect is never cut short: the loop starts
\* the application only when the whole timeout has passed (main.c:67-69).
WindowIsWhole == pc = "jump" => idle >= IdleTimeout

\* The jump out of the loop bypasses the reset, so it never happens with flash
\* changed in this power cycle, which XIP may not show (main.c:90-93).
NeverJumpsDirty == pc = "jump" => ~mutated

\* The host gets the whole answer of whatever it asked: what was put is on the
\* wire before the chip resets or the application takes the pins
\* (main.c:75-79, uart_transport.c:156-160).
AnswerPrecedesReset == ~InLoop => unsent = 0 /\ fifo = 0

\* A bootable device in which nobody opens a session leaves its bootloader
\* (main.c:81-84, 100-105).
BootableLeaves == (InLoop /\ bootable) ~> (~InLoop \/ session)
=============================================================================
