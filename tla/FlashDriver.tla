---------------------------- MODULE FlashDriver ----------------------------
(***************************************************************************)
(* The flash driver of the ports (flash_ch5xx.c) and the serial NOR die    *)
(* behind it, transaction by transaction.                                  *)
(*                                                                         *)
(* The die is external: what the driver's sequences and their comments say *)
(* of it.  It takes a mutation only after WREN, is busy for a while after  *)
(* one and answers nothing but its status meanwhile; it wraps the words of *)
(* a program within their page.  A word is the set of its cleared bits, so *)
(* that to program is to unite; an address counts bytes modulo `Top'.      *)
(***************************************************************************)
EXTENDS Naturals, Sequences

CONSTANTS
  WordLen,    \* 4
  PageLen,    \* 256, of a program
  EraseLen,   \* OB_FLASH_ERASE_BLOCK
  DieLen,     \* bytes of the die
  Top,        \* 2^32
  WaitIters,  \* OB_FL_WAIT_ITERS
  Requests,   \* calls of the core: [op, addr, buf, len, aligned]
  Contents,   \* what the die may hold at first
  MaxCalls    \* bound

Words == {a \in 0..DieLen - 1 : a % WordLen = 0}

\* The core asks for nothing that ends beyond the die, but for what runs over
\* the end of the address space.
ASSUME FlashAssumption ==
  /\ {WordLen, PageLen, EraseLen, DieLen, Top, WaitIters} \subseteq Nat \ {0}
  /\ PageLen % WordLen = 0 /\ EraseLen % PageLen = 0 /\ DieLen % EraseLen = 0 /\ Top % DieLen = 0
  /\ Contents \subseteq [Words -> SUBSET Nat] /\ MaxCalls \in Nat
  /\ \A r \in Requests :
       /\ r.op \in {"erase", "write", "verify", "info"} /\ (r.op = "info" => r.len = 0)
       /\ r.addr \in 0..Top - 1 /\ r.len \in 0..Top - 1
       /\ r.addr + r.len <= DieLen \/ r.addr + r.len >= Top

VARIABLES
  drv,   \* the call in progress
  die    \* the die and the controller before it

flashVars == <<drv, die>>

Span(addr, len) == {a \in Words : addr <= a /\ a < addr + len}

-----------------------------------------------------------------------------
(* The die *)

Idle(d) == d.pending = {}

\* WREN, ignored by a busy die.
Enable(d) == [d EXCEPT !.wel = Idle(d)]

\* Chip select ends a program: the page buffer goes into the array.  `pending'
\* holds the writes in progress, pairs of an address and the word to be.
Commence(d, writes) == IF d.wel THEN [d EXCEPT !.pending = writes, !.wel = FALSE] ELSE d

\* The die is done with a mutation, at any time or never.
DieDone ==
  /\ ~Idle(die)
  /\ die' = [die EXCEPT !.pending = {},
               !.mem = [a \in Words |-> IF \E w \in die.pending : w[1] = a
                                        THEN (CHOOSE w \in die.pending : w[1] = a)[2] ELSE die.mem[a]]]
  /\ UNCHANGED drv

\* Word n of a program that began at `from'.
InPage(from, n) == (from \div PageLen) * PageLen + ((from + n * WordLen) % PageLen)

-----------------------------------------------------------------------------
(* The driver *)

ParamsOk(r) ==
  LET grain == IF r.op = "erase" THEN EraseLen ELSE WordLen IN
  \/ r.op = "info"
  \/ r.len # 0 /\ r.addr % grain = 0 /\ r.len % grain = 0 /\ (r.op = "erase" \/ r.aligned)
     /\ (r.addr + r.len) % Top >= r.addr

\* ob_fl_open; the power-down is released.
Call ==
  /\ drv.pc = "idle" /\ drv.calls < MaxCalls
  /\ \E r \in Requests :
       LET call == [drv EXCEPT !.calls = @ + 1, !.req = r, !.before = die.mem, !.idle = Idle(die),
                               !.rc = "ok", !.addr = r.addr, !.left = r.len, !.i = 0] IN
       IF ~ParamsOk(r)
       THEN drv' = [call EXCEPT !.rc = "param"] /\ UNCHANGED die
       ELSE /\ drv' = [call EXCEPT !.pc = r.op]
            /\ die' = [die EXCEPT !.gate = IF r.op \in {"verify", "info"} THEN "read" ELSE "write"]

\* One block: WREN, opcode and address.
EraseBegin ==
  /\ drv.pc = "erase" /\ drv.left # 0
  /\ die' = Commence(Enable(die), {<<a, {}>> : a \in Span(drv.addr, EraseLen)})
  /\ drv' = [drv EXCEPT !.pc = "wait", !.i = WaitIters,
                        !.addr = (@ + EraseLen) % Top, !.left = @ - EraseLen]

\* Fault: the stream goes on into the next page.
WordsNow_All(addr, left) == left \div WordLen
\* The words of one program: those before the page ends.
WordsNow(addr, left) ==
  LET room == PageLen - (addr % PageLen) IN (IF left < room THEN left ELSE room) \div WordLen

\* Word n of the data that is left.
Datum(n) == drv.req.buf[(drv.req.len - drv.left) \div WordLen + n + 1]

\* One page program: WREN, opcode and address, and each word through the buffer.
\* Of two words that fall on one place the later one counts.
WriteBegin ==
  /\ drv.pc = "write" /\ drv.left # 0
  /\ LET count == WordsNow(drv.addr, drv.left)
         last(a) == {n \in 0..count - 1 : InPage(drv.addr, n) = a
                       /\ \A m \in n + 1..count - 1 : InPage(drv.addr, m) # a} IN
       /\ die' = Commence(Enable(die),
                   UNION {{<<a, die.mem[a] \union Datum(n)>> : n \in last(a)} : a \in Words})
       /\ drv' = [drv EXCEPT !.pc = "wait", !.i = WaitIters,
                             !.addr = (@ + count * WordLen) % Top, !.left = @ - count * WordLen]

\* ob_fl_wait: the status register, a number of times.
WaitPoll ==
  /\ drv.pc = "wait"
  /\ drv' = IF drv.i = 0 THEN [drv EXCEPT !.rc = "timeout", !.pc = "close"]
            ELSE IF Idle(die) THEN [drv EXCEPT !.pc = drv.req.op]
            ELSE [drv EXCEPT !.i = @ - 1]
  /\ UNCHANGED die

\* Fast read, and compare word by word.  A busy die answers anything.
VerifyWord ==
  /\ drv.pc = "verify" /\ drv.left # 0
  /\ \/ Idle(die) /\ die.mem[drv.addr] = Datum(0)
        /\ drv' = [drv EXCEPT !.addr = (@ + WordLen) % Top, !.left = @ - WordLen]
     \/ (Idle(die) => die.mem[drv.addr] # Datum(0))
        /\ drv' = [drv EXCEPT !.rc = "mismatch", !.pc = "close"]
     \/ ~Idle(die)
        /\ drv' = [drv EXCEPT !.addr = (@ + WordLen) % Top, !.left = @ - WordLen]
  /\ UNCHANGED die

\* All is done.
Finish ==
  /\ drv.pc \in {"erase", "write", "verify"} /\ drv.left = 0
  /\ drv' = [drv EXCEPT !.pc = "close"] /\ UNCHANGED die

\* ob_ch5xx_flash_uid_read, ob_ch5xx_flash_rom_info_read: what they read is not
\* in the array.
InfoRead ==
  /\ drv.pc = "info"
  /\ drv' = [drv EXCEPT !.pc = "close"] /\ UNCHANGED die

\* ob_fl_end, ob_fl_close: "every path that reaches ob_fl_open() leaves through
\* ob_fl_close()".
Close ==
  /\ drv.pc = "close"
  /\ drv' = [drv EXCEPT !.pc = "idle"]
  /\ die' = [die EXCEPT !.gate = "closed"]

FlashInit ==
  /\ \E mem \in Contents :
       /\ die = [mem |-> mem, pending |-> {}, wel |-> FALSE, gate |-> "closed"]
       /\ drv = [pc |-> "idle", calls |-> 0, idle |-> TRUE, rc |-> "param", before |-> mem, i |-> 0,
                 req |-> [op |-> "erase", addr |-> 0, len |-> 0, buf |-> <<>>, aligned |-> TRUE],
                 addr |-> 0, left |-> 0]

FlashNext ==
  Call \/ EraseBegin \/ WriteBegin \/ WaitPoll \/ VerifyWord \/ Finish \/ InfoRead \/ Close \/ DieDone

FlashSpec == FlashInit /\ [][FlashNext]_flashVars

-----------------------------------------------------------------------------
(* Properties *)

\* What the call is to leave in the die.
Wanted ==
  [a \in Words |->
     IF a \notin Span(drv.req.addr, drv.req.len) THEN drv.before[a]
     ELSE CASE drv.req.op = "erase"  -> {}
            [] drv.req.op = "write"  ->
                 drv.before[a] \union drv.req.buf[(a - drv.req.addr) \div WordLen + 1]
            [] OTHER                 -> drv.before[a]]

Matches ==
  \A a \in Span(drv.req.addr, drv.req.len) :
    drv.before[a] = drv.req.buf[(a - drv.req.addr) \div WordLen + 1]

\* A call leaves the gate closed, however it ends.  Begun on a die that is not
\* busy, it touches no word outside its range even when it fails, it answers OK
\* only when every word of the range is as asked, across pages and blocks and
\* with any start within a page, and a verify tells equal from different
\* (flash_ch5xx.c:243-245, 249-274, 287-310, 323-339).
FlashCallIsWhole ==
  drv.pc = "idle" =>
    /\ die.gate = "closed"
    /\ drv.idle =>
         /\ \A a \in Words \ Span(drv.req.addr, drv.req.len) : die.mem[a] = drv.before[a]
         /\ drv.rc = "ok" => die.mem = Wanted
         /\ drv.req.op = "verify" /\ drv.rc # "param" => (drv.rc = "ok" <=> Matches)
=============================================================================
