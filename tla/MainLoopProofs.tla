--------------------------- MODULE MainLoopProofs ---------------------------
(***************************************************************************)
(* The safety properties of the main loop, for every counter, deadline,    *)
(* number of busy polls, handling time and FIFO that LoopAssumption        *)
(* admits.                                                                 *)
(*                                                                         *)
(* The argument: as long as less than a whole turn of the counter has      *)
(* passed since the anchor, the difference of two readings is the time     *)
(* that passed (AnchorOK), and without a session less than a turn passes,  *)
(* because every place of the loop bounds the time since the anchor        *)
(* (GapOK).                                                                *)
(***************************************************************************)
EXTENDS MainLoop, TLAPS

-----------------------------------------------------------------------------
(* The inductive invariant *)

LoopTypes ==
  /\ pc \in {"poll", "send", "busy", "idle", "sleep", "quiesce", "jump", "reset", "app"}
  /\ act \in BOOLEAN /\ session \in BOOLEAN /\ bootable \in BOOLEAN /\ mutated \in BOOLEAN
  /\ clock \in 0..Wrap - 1 /\ idleStart \in 0..Wrap - 1
  /\ idle \in 0..IdleCap
  /\ busy \in 0..BusyPollsMax - 1
  /\ unsent \in 0..AnswerLen /\ fifo \in 0..FifoSize

\* The counter reads the anchor and the time since, at most once wrapped.
AnchorOK ==
  idle < IdleCap => clock = idleStart + idle \/ clock + Wrap = idleStart + idle

\* How late it can be at each place of the loop: the deadline was not over at
\* the last look, and each poll skipped since then took one pass at most.
GapOK ==
  InLoop /\ ~session =>
    CASE pc = "sleep"             -> idle + 1 <= IdleTimeout + busy * PassTime
      [] pc = "poll"              -> idle <= IdleTimeout + busy * PassTime
      [] pc \in {"send", "busy"}  -> idle <= IdleTimeout + busy * PassTime + HandleTime
      [] OTHER                    -> idle < IdleTimeout + MaxGap

\* Nobody changes flash without a session, and the jump and what precedes it
\* belong to a device without one; a reset by request belongs to one with.
SessionOK ==
  /\ InLoop /\ ~session => ~mutated
  /\ pc = "jump" => ~session /\ idle >= IdleTimeout
  /\ pc = "quiesce" => act
  /\ pc \in {"send", "quiesce"} /\ act => session

\* Bytes wait to be put only while the answer is being sent.
TxOK ==
  /\ pc # "send" => unsent = 0
  /\ ~InLoop => fifo = 0

LoopInv == LoopTypes /\ AnchorOK /\ GapOK /\ SessionOK /\ TxOK

-----------------------------------------------------------------------------
(* Arithmetic of the counter *)

\* A sum below two turns wraps at most once.
LEMMA WrapOnce ==
  ASSUME NEW w \in Nat \ {0}, NEW x \in Nat, x < w + w
  PROVE  x % w = IF x < w THEN x ELSE x - w
<1>1. x % w \in 0..w - 1 /\ x \div w \in Nat
  OBVIOUS
<1>2. x = w * (x \div w) + (x % w)
  OBVIOUS
<1>3. x \div w < 2
  OBVIOUS
<1> QED BY <1>1, <1>2, <1>3

\* One pass is shorter than the gap, and the gap than a turn.
LEMMA Gaps ==
  /\ PassTime \in Nat /\ MaxGap \in Nat /\ IdleCap \in Nat
  /\ PassTime = HandleTime + 1 /\ IdleCap = IdleTimeout + MaxGap + 1
  /\ PassTime <= MaxGap /\ IdleCap <= Wrap /\ IdleTimeout + MaxGap < Wrap
  /\ \A n \in 0..BusyPollsMax - 1 : n * PassTime \in Nat /\ n * PassTime + PassTime <= MaxGap
<1>1. PassTime \in Nat \ {0} /\ MaxGap = BusyPollsMax * PassTime
  BY LoopAssumption DEF LoopAssumption, PassTime, MaxGap
<1>2. ASSUME NEW n \in 0..BusyPollsMax - 1
      PROVE  n * PassTime \in Nat /\ n * PassTime + PassTime <= BusyPollsMax * PassTime
  <2>1. n * PassTime + PassTime = (n + 1) * PassTime
    BY <1>1, LoopAssumption DEF LoopAssumption
  <2>2. BusyPollsMax = (n + 1) + (BusyPollsMax - 1 - n) /\ BusyPollsMax - 1 - n \in Nat
    BY LoopAssumption DEF LoopAssumption
  <2>3. BusyPollsMax * PassTime = (n + 1) * PassTime + (BusyPollsMax - 1 - n) * PassTime
    BY <1>1, <2>2
  <2> QED BY <1>1, <2>1, <2>2, <2>3
<1>3. 0 \in 0..BusyPollsMax - 1
  BY LoopAssumption DEF LoopAssumption
<1>4. PassTime <= MaxGap /\ MaxGap \in Nat
  BY <1>1, <1>2, <1>3, LoopAssumption DEF LoopAssumption
<1> QED BY <1>1, <1>2, <1>4, LoopAssumption DEF LoopAssumption, IdleCap, PassTime

\* The time of a pass moves the counter and the history alike.
LEMMA PassKeeps ==
  ASSUME LoopTypes, AnchorOK, NEW t \in 0..PassTime, Pass(t), UNCHANGED idleStart
  PROVE  /\ clock' \in 0..Wrap - 1 /\ idle' \in 0..IdleCap /\ AnchorOK'
         /\ idle' <= idle + t /\ idle <= idle'
<1>1. Wrap \in Nat \ {0} /\ clock \in Nat /\ clock + t \in Nat /\ clock + t < Wrap + Wrap /\ t \in Nat
  BY Gaps, LoopAssumption DEF LoopAssumption, LoopTypes
<1>2. clock' = IF clock + t < Wrap THEN clock + t ELSE clock + t - Wrap
  <2>1. PICK x \in Nat : x = clock + t
    BY <1>1
  <2>2. x % Wrap = IF x < Wrap THEN x ELSE x - Wrap
    BY <1>1, <2>1, WrapOnce
  <2> QED BY <1>1, <2>1, <2>2 DEF Pass
<1>3. idle' = IF idle + t < IdleCap THEN idle + t ELSE IdleCap
  BY DEF Pass, Least
<1>4. idle \in 0..IdleCap /\ idleStart \in 0..Wrap - 1 /\ clock \in 0..Wrap - 1 /\ IdleCap \in Nat
  BY Gaps DEF LoopTypes
<1>5. clock' \in 0..Wrap - 1 /\ idle' \in 0..IdleCap /\ idle' <= idle + t /\ idle <= idle'
  BY <1>1, <1>2, <1>3, <1>4
<1>6. AnchorOK'
  <2> SUFFICES ASSUME idle' < IdleCap
               PROVE  clock' = idleStart + idle' \/ clock' + Wrap = idleStart + idle'
    BY DEF AnchorOK
  <2>1. idle' = idle + t /\ idle < IdleCap
    BY <1>1, <1>3, <1>4
  <2>2. clock = idleStart + idle \/ clock + Wrap = idleStart + idle
    BY <2>1 DEF AnchorOK
  <2>3. idle' < Wrap
    BY <1>1, <1>5, Gaps
  <2> QED BY <1>1, <1>2, <1>4, <2>1, <2>2, <2>3
<1> QED BY <1>5, <1>6

\* The comparison of the code is right while less than a turn has passed.
LEMMA ElapsedIsTime ==
  ASSUME LoopTypes, AnchorOK, idle < IdleCap
  PROVE  ob_idle_elapsed(idleStart, clock) <=> idle >= IdleTimeout
<1>1. Wrap \in Nat \ {0} /\ clock \in Nat /\ idleStart \in Nat /\ clock + Wrap - idleStart \in Nat
      /\ clock + Wrap - idleStart < Wrap + Wrap
  BY LoopAssumption DEF LoopAssumption, LoopTypes
<1>2. (clock + Wrap - idleStart) % Wrap =
        IF clock + Wrap - idleStart < Wrap THEN clock + Wrap - idleStart
        ELSE clock + Wrap - idleStart - Wrap
  <2>1. PICK x \in Nat : x = clock + Wrap - idleStart
    BY <1>1
  <2>2. x % Wrap = IF x < Wrap THEN x ELSE x - Wrap
    BY <1>1, <2>1, WrapOnce
  <2> QED BY <1>1, <2>1, <2>2
<1>3. clock = idleStart + idle \/ clock + Wrap = idleStart + idle
  BY DEF AnchorOK
<1>4. (clock + Wrap - idleStart) % Wrap = idle
  BY <1>1, <1>2, <1>3, Gaps DEF LoopTypes
<1> QED BY <1>4 DEF ob_idle_elapsed

-----------------------------------------------------------------------------
(* The invariant holds *)

\* At power-on nothing has passed.
LEMMA LoopStart == LoopInit => LoopInv
<1> SUFFICES ASSUME LoopInit PROVE LoopInv
  OBVIOUS
<1>1. LoopTypes
  <2>1. /\ clock \in 0..Wrap - 1 /\ 0 \in 0..IdleCap /\ 0 \in 0..BusyPollsMax - 1
        /\ 0 \in 0..AnswerLen /\ 0 \in 0..FifoSize
    BY Gaps, LoopAssumption DEF LoopAssumption, LoopInit
  <2> QED BY <2>1 DEF LoopInit, LoopTypes
<1>2. AnchorOK
  BY <1>1 DEF LoopInit, AnchorOK, LoopTypes
<1>3. GapOK
  BY Gaps, LoopAssumption DEF LoopAssumption, LoopInit, GapOK
<1> QED BY <1>1, <1>2, <1>3 DEF LoopInv, LoopInit, SessionOK, TxOK, InLoop

\* One step for each action.  A step that leaves the timer alone keeps
\* AnchorOK, and GapOK when its place allows as much lateness as the last.
LEMMA LoopStep == LoopInv /\ [LoopNext]_loopVars => LoopInv'
<1> SUFFICES ASSUME LoopInv, [LoopNext]_loopVars PROVE LoopInv'
  OBVIOUS
<1> USE DEF LoopInv
<1>0. /\ IdleTimeout \in Nat \ {0} /\ HandleTime \in Nat /\ BusyPollsMax \in Nat \ {0}
      /\ idle \in Nat /\ busy \in Nat /\ busy * PassTime \in Nat
      /\ busy * PassTime + PassTime <= MaxGap
  BY Gaps, LoopAssumption DEF LoopAssumption, LoopTypes
<1>1. UNCHANGED timer => AnchorOK'
  BY DEF AnchorOK, timer
<1>2. CASE PollNothing
  <2>1. LoopTypes' /\ SessionOK' /\ TxOK' /\ AnchorOK'
    BY <1>1, <1>2 DEF PollNothing, LoopTypes, SessionOK, TxOK, InLoop, engine, timer, txd
  <2>2. GapOK'
    BY <1>0, <1>2 DEF PollNothing, GapOK, InLoop, engine, timer
  <2> QED BY <2>1, <2>2
<1>3. CASE PollFrame
  <2>1. PICK t \in 0..HandleTime : Pass(t)
    BY <1>3 DEF PollFrame
  <2>2. t \in 0..PassTime
    BY <1>0, <2>1, Gaps
  <2>3. clock' \in 0..Wrap - 1 /\ idle' \in 0..IdleCap /\ AnchorOK' /\ idle' <= idle + t
    BY <1>3, <2>1, <2>2, PassKeeps DEF PollFrame, KeepAnchor
  <2>4. LoopTypes'
    <3>1. AnswerLen \in 0..AnswerLen
      BY LoopAssumption DEF LoopAssumption
    <3>2. act' \in BOOLEAN /\ session' \in BOOLEAN /\ bootable' \in BOOLEAN /\ mutated' \in BOOLEAN
      BY <1>3 DEF PollFrame, LoopTypes, engine
    <3> QED BY <1>3, <2>3, <3>1, <3>2 DEF PollFrame, KeepAnchor, LoopTypes
  <2>5. SessionOK' /\ TxOK'
    BY <1>3 DEF PollFrame, LoopTypes, SessionOK, TxOK, InLoop, engine
  <2>6. GapOK'
    <3>1. ~session' => ~session
      BY <1>3 DEF PollFrame, engine
    <3>2. ~session => idle <= IdleTimeout + busy * PassTime
      BY <1>3 DEF PollFrame, GapOK, InLoop
    <3>3. ~session => idle' <= IdleTimeout + busy * PassTime + HandleTime
      BY <1>0, <2>1, <2>3, <3>2, Gaps
    <3> QED BY <1>3, <3>1, <3>3 DEF PollFrame, GapOK
  <2> QED BY <2>3, <2>4, <2>5, <2>6
<1>4. CASE Put
  <2>1. LoopTypes' /\ SessionOK' /\ TxOK' /\ AnchorOK'
    BY <1>1, <1>4, LoopAssumption
    DEF LoopAssumption, Put, LoopTypes, SessionOK, TxOK, InLoop, engine, timer
  <2>2. GapOK'
    BY <1>4 DEF Put, GapOK, InLoop, engine, timer
  <2> QED BY <2>1, <2>2
<1>5. CASE Answered
  <2>1. LoopTypes' /\ SessionOK' /\ TxOK' /\ AnchorOK'
    BY <1>1, <1>5 DEF Answered, LoopTypes, SessionOK, TxOK, InLoop, engine, timer, txd
  <2>2. GapOK'
    BY <1>0, <1>5 DEF Answered, GapOK, SessionOK, InLoop, engine, timer, LoopTypes
  <2> QED BY <2>1, <2>2
<1>6. CASE Wire
  <2>1. LoopTypes' /\ SessionOK' /\ TxOK' /\ AnchorOK'
    BY <1>1, <1>6, LoopAssumption
    DEF LoopAssumption, Wire, LoopTypes, SessionOK, TxOK, InLoop, engine, timer
  <2>2. GapOK'
    BY <1>6 DEF Wire, GapOK, InLoop, engine, timer
  <2> QED BY <2>1, <2>2
<1>7. CASE Reset
  BY <1>1, <1>7 DEF Reset, Drained, LoopTypes, GapOK, SessionOK, TxOK, InLoop, engine, timer, txd
<1>8. CASE BusySkip
  <2>1. busy' = busy + 1 /\ busy' \in 0..BusyPollsMax - 1
    BY <1>0, <1>8 DEF BusySkip, BusyExhausted
  <2>2. LoopTypes' /\ SessionOK' /\ TxOK' /\ AnchorOK'
    BY <1>1, <1>8, <2>1 DEF BusySkip, LoopTypes, SessionOK, TxOK, InLoop, engine, timer, txd
  <2>3. busy' * PassTime = busy * PassTime + PassTime
    BY <1>0, <2>1, Gaps
  <2>4. GapOK'
    <3>1. ~session => idle <= IdleTimeout + busy * PassTime + HandleTime
      BY <1>8 DEF BusySkip, GapOK, InLoop
    <3>2. ~session => idle + 1 <= IdleTimeout + busy' * PassTime
      BY <1>0, <2>3, <3>1, Gaps
    <3> QED BY <1>8, <3>2 DEF BusySkip, GapOK, engine, timer
  <2> QED BY <2>2, <2>4
<1>9. CASE BusyOver
  <2>1. LoopTypes' /\ SessionOK' /\ TxOK' /\ AnchorOK'
    BY <1>0, <1>1, <1>9 DEF BusyOver, LoopTypes, SessionOK, TxOK, InLoop, engine, timer, txd
  <2>2. ~session => idle < IdleTimeout + MaxGap
    <3>1. ~session => idle <= IdleTimeout + busy * PassTime + HandleTime
      BY <1>9 DEF BusyOver, GapOK, InLoop
    <3> QED BY <1>0, <3>1, Gaps
  <2>3. GapOK'
    BY <1>9, <2>2 DEF BusyOver, GapOK, engine, timer
  <2> QED BY <2>1, <2>3
<1>10. CASE IdleCheck
  <2>1. ~session => idle < IdleTimeout + MaxGap
    BY <1>10 DEF IdleCheck, GapOK, InLoop
  <2>2. ~session => (ob_idle_elapsed(idleStart, clock) <=> idle >= IdleTimeout)
    BY <1>0, <2>1, ElapsedIsTime, Gaps
  <2>3. UNCHANGED <<act, engine, busy, txd>> /\ clock' = clock
    BY <1>10 DEF IdleCheck, timer
  <2>4. CASE session \/ idle < IdleTimeout
    <3>1. pc' = "sleep" /\ UNCHANGED timer
      BY <1>0, <1>10, <2>2, <2>4 DEF IdleCheck, Suppressed
    <3>2. LoopTypes' /\ SessionOK' /\ TxOK' /\ AnchorOK'
      BY <1>1, <1>10, <2>3, <3>1
      DEF IdleCheck, LoopTypes, SessionOK, TxOK, InLoop, engine, timer, txd
    <3>3. GapOK'
      BY <1>0, <2>3, <2>4, <3>1 DEF GapOK, engine, timer
    <3> QED BY <3>2, <3>3
  <2>5. CASE ~session /\ idle >= IdleTimeout /\ bootable
    <3>1. pc' = "jump" /\ UNCHANGED timer
      BY <1>10, <2>2, <2>5 DEF IdleCheck, Suppressed
    <3>2. LoopTypes' /\ SessionOK' /\ TxOK' /\ AnchorOK'
      BY <1>1, <1>10, <2>3, <2>5, <3>1
      DEF IdleCheck, LoopTypes, SessionOK, TxOK, InLoop, engine, timer, txd
    <3>3. GapOK'
      BY <2>1, <2>3, <2>5, <3>1 DEF GapOK, engine, timer
    <3> QED BY <3>2, <3>3
  <2>6. CASE ~session /\ idle >= IdleTimeout /\ ~bootable
    <3>1. pc' = "sleep" /\ idleStart' = clock /\ idle' = 0
      BY <1>10, <2>2, <2>6 DEF IdleCheck, Suppressed
    <3>2. LoopTypes' /\ SessionOK' /\ TxOK' /\ AnchorOK'
      BY <1>10, <2>3, <2>6, <3>1, Gaps
      DEF IdleCheck, LoopTypes, AnchorOK, SessionOK, TxOK, InLoop, engine, txd
    <3>3. GapOK'
      BY <1>0, <2>3, <3>1 DEF GapOK
    <3> QED BY <3>2, <3>3
  <2> QED BY <1>0, <2>4, <2>5, <2>6
<1>11. CASE Jump
  BY <1>1, <1>11 DEF Jump, Drained, LoopTypes, GapOK, SessionOK, TxOK, InLoop, engine, timer, txd
<1>12. CASE Sleep
  <2>1. 1 \in 0..PassTime
    BY <1>0, Gaps
  <2>2. clock' \in 0..Wrap - 1 /\ idle' \in 0..IdleCap /\ AnchorOK' /\ idle' <= idle + 1
    BY <1>12, <2>1, PassKeeps DEF Sleep
  <2>3. LoopTypes' /\ SessionOK' /\ TxOK'
    BY <1>12, <2>2 DEF Sleep, LoopTypes, SessionOK, TxOK, InLoop, engine, txd
  <2>4. GapOK'
    <3>1. ~session => idle + 1 <= IdleTimeout + busy * PassTime
      BY <1>12 DEF Sleep, GapOK, InLoop
    <3>2. ~session => idle' <= IdleTimeout + busy * PassTime
      BY <1>0, <2>2, <3>1, Gaps
    <3> QED BY <1>12, <3>2 DEF Sleep, GapOK, engine
  <2> QED BY <2>2, <2>3, <2>4
<1>13. CASE Decide
  <2>1. CASE pc' = "app"
    BY <1>1, <1>13, <2>1
    DEF Decide, LoopTypes, GapOK, SessionOK, TxOK, InLoop, timer, txd
  <2>2. CASE pc' # "app"
    <3>1. /\ pc = "reset" /\ pc' = "poll" /\ session' = FALSE /\ mutated' = FALSE
          /\ idleStart' = clock /\ idle' = 0 /\ busy' = 0
          /\ UNCHANGED <<bootable, clock, txd, act>>
      BY <1>13, <2>2 DEF Decide
    <3>2. LoopTypes' /\ AnchorOK'
      <4>1. 0 \in 0..BusyPollsMax - 1 /\ 0 \in 0..IdleCap
        BY <1>0, Gaps
      <4>2. LoopTypes'
        BY <3>1, <4>1 DEF LoopTypes, txd
      <4> QED BY <3>1, <4>2 DEF LoopTypes, AnchorOK
    <3>3. SessionOK' /\ TxOK'
      BY <3>1 DEF SessionOK, TxOK, InLoop, txd
    <3>4. GapOK'
      BY <1>0, <3>1, Gaps DEF GapOK
    <3> QED BY <3>2, <3>3, <3>4
  <2> QED BY <2>1, <2>2
<1>14. CASE AppResets
  BY <1>1, <1>14 DEF AppResets, LoopTypes, GapOK, SessionOK, TxOK, InLoop, timer, txd
<1>15. CASE UNCHANGED loopVars
  <2>1. UNCHANGED <<pc, act, engine, timer, busy, txd>>
    BY <1>15 DEF loopVars, engine, timer, txd
  <2> QED BY <1>1, <2>1 DEF LoopTypes, GapOK, SessionOK, TxOK, InLoop, engine, timer, txd
<1> QED BY <1>2, <1>3, <1>4, <1>5, <1>6, <1>7, <1>8, <1>9, <1>10, <1>11, <1>12, <1>13, <1>14, <1>15
        DEF LoopNext, Loop

\* Every reachable state of the loop satisfies the invariant.
THEOREM LoopInductive == LoopSpec => []LoopInv
BY LoopStart, LoopStep, PTL DEF LoopSpec

-----------------------------------------------------------------------------
(* The properties *)

\* main.c:18-20, 26-33: no traffic keeps a bootable device in its bootloader.
THEOREM DeadlineSound == LoopSpec => []DeadlineHolds
<1>1. LoopInv => DeadlineHolds
  <2> SUFFICES ASSUME LoopInv, InLoop, ~session PROVE idle <= IdleTimeout + MaxGap
    BY DEF DeadlineHolds
  <2>1. /\ IdleTimeout \in Nat /\ HandleTime \in Nat /\ idle \in Nat /\ busy * PassTime \in Nat
        /\ busy * PassTime + PassTime <= MaxGap
    BY Gaps, LoopAssumption DEF LoopAssumption, LoopInv, LoopTypes
  <2> QED BY <2>1, Gaps DEF LoopInv, GapOK
<1> QED BY <1>1, LoopInductive, PTL

\* main.c:67-69: the window for a host is as long as promised, also when the
\* counter wraps within it.
THEOREM WindowSound == LoopSpec => []WindowIsWhole
<1>1. LoopInv => WindowIsWhole
  BY DEF LoopInv, SessionOK, WindowIsWhole
<1> QED BY <1>1, LoopInductive, PTL

\* main.c:90-93: the jump that bypasses the reset sees flash as it was at reset.
THEOREM JumpSound == LoopSpec => []NeverJumpsDirty
<1>1. LoopInv => NeverJumpsDirty
  BY DEF LoopInv, SessionOK, NeverJumpsDirty, InLoop
<1> QED BY <1>1, LoopInductive, PTL

\* main.c:75-79, uart_transport.c:156-160: the answer is out before the reset.
THEOREM AnswerSound == LoopSpec => []AnswerPrecedesReset
<1>1. LoopInv => AnswerPrecedesReset
  BY DEF LoopInv, TxOK, AnswerPrecedesReset, InLoop
<1> QED BY <1>1, LoopInductive, PTL
=============================================================================
