------------------------- MODULE FlashDriverProofs -------------------------
(***************************************************************************)
(* Proofs about the flash driver: for every size of word, page, block and  *)
(* die that FlashAssumption admits, every request the core may make, and a *)
(* die that may be done with a mutation at any time or never.              *)
(*                                                                         *)
(* The argument is about the die as it will be when it is done (After): at *)
(* the head of the driver's loop it holds what was asked for in the part   *)
(* of the range that is behind, and what it held before in all the rest.   *)
(***************************************************************************)
EXTENDS FlashDriver, TLAPS

Ops == {"erase", "write", "verify", "info"}

\* What the die holds when it is done with what it is doing.
After ==
  [a \in Words |-> IF \E w \in die.pending : w[1] = a
                   THEN (CHOOSE w \in die.pending : w[1] = a)[2] ELSE die.mem[a]]

\* The word of the call's data for a place of its range
Given(a) == drv.req.buf[(a - drv.req.addr) \div WordLen + 1]

\* What a call is to make of a word.
Asked(a) ==
  CASE drv.req.op = "erase" -> {}
    [] drv.req.op = "write" -> drv.before[a] \union Given(a)
    [] OTHER                -> drv.before[a]

\* How far the call has come.
Behind == drv.req.len - drv.left

\* What is to be in the die when the first `len' bytes of the range are done.
Progress(len) ==
  [a \in Words |-> IF a \in Span(drv.req.addr, len) THEN Asked(a) ELSE drv.before[a]]

DieOK ==
  /\ die = [mem |-> die.mem, pending |-> die.pending, wel |-> FALSE, gate |-> die.gate]
  /\ drv = [pc |-> drv.pc, calls |-> drv.calls, idle |-> drv.idle, rc |-> drv.rc, before |-> drv.before,
            i |-> drv.i, req |-> drv.req, addr |-> drv.addr, left |-> drv.left]
  /\ die.mem = [a \in Words |-> die.mem[a]] /\ drv.before = [a \in Words |-> drv.before[a]]
  /\ drv.pc \in Ops \union {"wait", "close", "idle"}
  /\ drv.pc = "idle" => die.gate = "closed"

\* The call is one that the parameter test lets through, and its address and
\* length are where its loop has brought them.
CallOK ==
  drv.pc # "idle" =>
    /\ drv.req \in Requests /\ ParamsOk(drv.req)
    /\ drv.left \in Nat /\ drv.left <= drv.req.len
    /\ drv.addr = (drv.req.addr + Behind) % Top
    /\ drv.req.op = "erase" => drv.left % EraseLen = 0
    /\ drv.req.op \in {"write", "verify"} => drv.left % WordLen = 0
    /\ drv.req.op \in {"verify", "info"} => drv.pc # "wait" /\ drv.rc # "timeout"
    /\ drv.pc \in Ops => drv.pc = drv.req.op
    /\ drv.pc # "close" => drv.rc = "ok"
    /\ drv.pc = "close" => drv.rc \in {"ok", "timeout", "mismatch"} /\ (drv.rc = "ok" => drv.left = 0)

\* The range is kept, and what is behind is done.
WorkOK ==
  drv.idle =>
    /\ \A a \in Words \ Span(drv.req.addr, drv.req.len) : die.mem[a] = drv.before[a] /\ After[a] = drv.before[a]
    /\ drv.pc \in Ops => Idle(die)
    /\ drv.pc \in Ops \union {"wait"} => After = Progress(Behind)
    /\ drv.pc \in {"close", "idle"} /\ drv.rc = "ok" => Idle(die) /\ die.mem = Wanted
    /\ drv.pc = "verify" => \A a \in Span(drv.req.addr, Behind) : drv.before[a] = Given(a)
    /\ drv.pc \in {"close", "idle"} /\ drv.req.op = "verify" /\ drv.rc # "param" =>
         (drv.rc = "ok" <=> Matches)

FlashInv == DieOK /\ CallOK /\ WorkOK

-----------------------------------------------------------------------------
(* Arithmetic of words, pages and blocks *)

\* Quotient and remainder.
LEMMA DivMod ==
  ASSUME NEW m \in Nat \ {0}, NEW x \in Nat
  PROVE  x % m \in 0..m - 1 /\ x \div m \in Nat /\ x = m * (x \div m) + (x % m)
OBVIOUS

\* They are the only ones.
LEMMA DivModUnique ==
  ASSUME NEW m \in Nat \ {0}, NEW q \in Nat, NEW r \in 0..m - 1
  PROVE  (m * q + r) % m = r /\ (m * q + r) \div m = q
OBVIOUS

\* A multiple has no remainder, and what has none is a multiple.
LEMMA Multiple ==
  ASSUME NEW m \in Nat \ {0}
  PROVE  /\ \A q \in Nat : (m * q) % m = 0 /\ (m * q) \div m = q
         /\ \A x \in Nat : x % m = 0 => x = m * (x \div m) /\ x \div m \in Nat
<1>1. ASSUME NEW q \in Nat PROVE (m * q) % m = 0 /\ (m * q) \div m = q
  <2>1. m * q \in Nat /\ m * q + 0 = m * q
    OBVIOUS
  <2> QED BY <2>1, DivModUnique
<1>2. ASSUME NEW x \in Nat, x % m = 0 PROVE x = m * (x \div m) /\ x \div m \in Nat
  <2>1. m * (x \div m) \in Nat
    BY DivMod
  <2> QED BY <1>2, <2>1, DivMod
<1> QED BY <1>1, <1>2

\* Sums and differences of multiples.
LEMMA MultiplesAdd ==
  ASSUME NEW m \in Nat \ {0}, NEW x \in Nat, NEW y \in Nat, x % m = 0, y % m = 0
  PROVE  /\ (x + y) % m = 0 /\ (x + y) \div m = x \div m + y \div m
         /\ x < y => x + m <= y
         /\ x <= y => (y - x) % m = 0 /\ (y - x) \div m = y \div m - x \div m
<1> DEFINE p == x \div m
           q == y \div m
<1>1. p \in Nat /\ q \in Nat /\ x = m * p /\ y = m * q
  BY Multiple
<1> HIDE DEF p, q
<1>2. m * (p + q) = x + y /\ p + q \in Nat
  BY <1>1
<1>3. x < y => p < q
  <2> SUFFICES ASSUME p >= q PROVE x >= y
    BY <1>1
  <2>1. p = q + (p - q) /\ p - q \in Nat
    BY <1>1
  <2>2. m * p = m * q + m * (p - q) /\ m * (p - q) \in Nat
    BY <1>1, <2>1
  <2> QED BY <1>1, <2>2
<1>4. p <= q => m * (q - p) = y - x /\ q - p \in Nat
  BY <1>1
<1>5. (x + y) % m = 0 /\ (x + y) \div m = p + q
  BY <1>2, Multiple
<1>6. ASSUME x < y PROVE x + m <= y
  <2>1. q - p \in Nat \ {0} /\ q - p - 1 \in Nat
    BY <1>1, <1>3, <1>6
  <2>2. m * (q - p) = m + m * (q - p - 1) /\ m * (q - p - 1) \in Nat
    BY <2>1
  <2> QED BY <1>1, <1>4, <2>1, <2>2
<1>7. ASSUME x <= y PROVE (y - x) % m = 0 /\ (y - x) \div m = q - p
  <2>1. p <= q
    BY <1>1, <1>3, <1>7
  <2> QED BY <1>4, <2>1, Multiple
<1> QED BY <1>5, <1>6, <1>7 DEF p, q

\* A multiple that is not zero is at least one.
LEMMA AtLeastOne ==
  ASSUME NEW m \in Nat \ {0}, NEW x \in Nat \ {0}, x % m = 0
  PROVE  m <= x
<1>1. PICK q \in Nat : x = m * q
  BY Multiple
<1>2. q - 1 \in Nat /\ m * q = m + m * (q - 1) /\ m * (q - 1) \in Nat
  BY <1>1
<1> QED BY <1>1, <1>2

\* A multiple of a multiple.
LEMMA MultipleOf ==
  ASSUME NEW n \in Nat \ {0}, NEW m \in Nat \ {0}, NEW x \in Nat, m % n = 0, x % m = 0
  PROVE  x % n = 0
<1>1. PICK p \in Nat, q \in Nat : m = n * p /\ x = m * q
  BY Multiple
<1>2. x = n * (p * q) /\ p * q \in Nat
  BY <1>1
<1> QED BY <1>2, Multiple

\* Within one turn nothing wraps.
LEMMA Small ==
  ASSUME NEW m \in Nat \ {0}, NEW x \in 0..m - 1
  PROVE  x % m = x
<1>1. m * 0 + x = x
  OBVIOUS
<1> QED BY <1>1, DivModUnique

\* What stays within a page keeps its page.
LEMMA SamePage ==
  ASSUME NEW m \in Nat \ {0}, NEW x \in Nat, NEW k \in Nat, (x % m) + k < m
  PROVE  (x \div m) * m + ((x + k) % m) = x + k
<1> DEFINE q == x \div m
           r == x % m
<1>1. q \in Nat /\ r \in 0..m - 1 /\ x = m * q + r /\ r + k < m
  <2>1. x % m \in 0..m - 1 /\ x \div m \in Nat /\ x = m * (x \div m) + (x % m)
    BY DivMod
  <2> QED BY <2>1
<1> HIDE DEF q, r
<1>2. x + k = m * q + (r + k) /\ q * m = m * q /\ m * q \in Nat /\ r + k \in 0..m - 1
  BY <1>1
<1>3. (x + k) % m = r + k
  BY <1>1, <1>2, DivModUnique
<1> QED BY <1>2, <1>3, <1>1 DEF q

\* The sizes, one within the other.
LEMMA Sizes ==
  /\ WordLen \in Nat \ {0} /\ PageLen \in Nat \ {0} /\ EraseLen \in Nat \ {0}
  /\ DieLen \in Nat \ {0} /\ Top \in Nat \ {0} /\ DieLen <= Top
  /\ PageLen % WordLen = 0 /\ EraseLen % WordLen = 0 /\ DieLen % WordLen = 0
<1>1. /\ WordLen \in Nat \ {0} /\ PageLen \in Nat \ {0} /\ EraseLen \in Nat \ {0}
      /\ DieLen \in Nat \ {0} /\ Top \in Nat \ {0}
      /\ PageLen % WordLen = 0 /\ EraseLen % PageLen = 0 /\ DieLen % EraseLen = 0 /\ Top % DieLen = 0
  BY FlashAssumption DEF FlashAssumption
<1>2. EraseLen % WordLen = 0
  BY <1>1, MultipleOf
<1>3. DieLen % WordLen = 0
  BY <1>1, <1>2, MultipleOf
<1>4. 0 % DieLen = 0
  BY <1>1, Small
<1>5. DieLen <= Top
  BY <1>1, <1>4, MultiplesAdd
<1> QED BY <1>1, <1>2, <1>3, <1>5

\* What the parameter test lets through lies on the die, on word boundaries.
LEMMA Inside ==
  ASSUME NEW r \in Requests, ParamsOk(r), r.op # "info"
  PROVE  /\ r.addr \in Nat /\ r.len \in Nat \ {0} /\ r.addr + r.len <= DieLen
         /\ r.addr % WordLen = 0 /\ r.len % WordLen = 0
         /\ r.op = "erase" => r.len % EraseLen = 0
<1>1. /\ r.addr \in 0..Top - 1 /\ r.len \in 0..Top - 1
      /\ r.addr + r.len <= DieLen \/ r.addr + r.len >= Top
  BY FlashAssumption DEF FlashAssumption
<1>2. /\ r.len # 0 /\ (r.addr + r.len) % Top >= r.addr
      /\ r.op = "erase" => r.addr % EraseLen = 0 /\ r.len % EraseLen = 0
      /\ r.op # "erase" => r.addr % WordLen = 0 /\ r.len % WordLen = 0
  BY DEF ParamsOk
<1>3. r.addr + r.len <= DieLen
  <2> SUFFICES ASSUME r.addr + r.len >= Top PROVE FALSE
    BY <1>1
  <2>1. PICK d \in 0..Top - 1 : d = r.addr + r.len - Top
    BY <1>1, Sizes
  <2>2. Top * 1 + d = r.addr + r.len /\ 1 \in Nat
    BY <1>1, <2>1, Sizes
  <2>3. (Top * 1 + d) % Top = d
    BY <2>2, Sizes, DivModUnique
  <2> QED BY <1>1, <1>2, <2>1, <2>2, <2>3, Sizes
<1>4. r.addr % WordLen = 0 /\ r.len % WordLen = 0
  <2>1. r.addr \in Nat /\ r.len \in Nat
    BY <1>1, Sizes
  <2> QED BY <1>2, <2>1, Sizes, MultipleOf
<1> QED BY <1>1, <1>2, <1>3, <1>4, Sizes

\* The words of a range one after the other.
LEMMA SpanSplit ==
  ASSUME NEW x \in Nat, NEW k \in Nat, NEW n \in Nat
  PROVE  /\ Span(x, k + n) = Span(x, k) \union Span(x + k, n)
         /\ Span(x, k) \cap Span(x + k, n) = {}
         /\ Span(x, 0) = {}
BY Sizes DEF Span, Words

\* A word of a range is one of its places.
LEMMA PlaceOf ==
  ASSUME NEW x \in Nat, NEW n \in Nat, x % WordLen = 0, n % WordLen = 0, NEW a \in Span(x, n)
  PROVE  /\ (a - x) \div WordLen \in 0..(n \div WordLen) - 1
         /\ a = x + ((a - x) \div WordLen) * WordLen
<1>1. a \in Nat /\ a % WordLen = 0 /\ x <= a /\ a < x + n /\ a - x \in Nat
  BY DEF Span, Words
<1>2. (a - x) % WordLen = 0
  BY ZenonT(60), <1>1, Sizes, MultiplesAdd
<1> DEFINE k == (a - x) \div WordLen
           h == n \div WordLen
<1>3. k \in Nat /\ a - x = WordLen * k /\ h \in Nat /\ n = WordLen * h
  BY <1>1, <1>2, Sizes, Multiple
<1> HIDE DEF k, h
<1>4. k < h
  <2> SUFFICES ASSUME k >= h PROVE FALSE
    BY <1>3
  <2>1. k - h \in Nat /\ WordLen * k = WordLen * h + WordLen * (k - h) /\ WordLen * (k - h) \in Nat
    BY <1>3, Sizes
  <2> QED BY <1>1, <1>3, <2>1
<1>5. k * WordLen = WordLen * k
  BY <1>3, Sizes
<1>6. a = x + k * WordLen
  BY <1>1, <1>3, <1>5
<1> QED BY <1>3, <1>4, <1>6 DEF k, h

-----------------------------------------------------------------------------
(* The head of the driver's loops *)

\* Where the loop stands: on a word boundary of the range, which has not
\* wrapped, with whole words (an erase: blocks) to go.
LEMMA LoopHead ==
  ASSUME FlashInv, drv.pc \in {"erase", "write", "verify"}, drv.left # 0
  PROVE  /\ drv.req \in Requests /\ ParamsOk(drv.req) /\ drv.req.op = drv.pc /\ drv.rc = "ok"
         /\ drv.req.addr \in Nat /\ drv.req.len \in Nat /\ Behind \in Nat /\ drv.left \in Nat \ {0}
         /\ drv.addr = drv.req.addr + Behind /\ Behind + drv.left = drv.req.len
         /\ drv.addr + drv.left <= DieLen
         /\ drv.req.addr % WordLen = 0 /\ Behind % WordLen = 0
         /\ drv.addr % WordLen = 0 /\ drv.left % WordLen = 0
<1>1. /\ drv.req \in Requests /\ ParamsOk(drv.req) /\ drv.req.op = drv.pc /\ drv.rc = "ok"
      /\ drv.left \in Nat \ {0} /\ drv.left <= drv.req.len
      /\ drv.addr = (drv.req.addr + Behind) % Top
  BY DEF FlashInv, CallOK, Ops
<1>2. /\ drv.req.addr \in Nat /\ drv.req.len \in Nat \ {0} /\ drv.req.addr + drv.req.len <= DieLen
      /\ drv.req.addr % WordLen = 0 /\ drv.req.len % WordLen = 0
  BY <1>1, Inside
<1>3. Behind \in Nat /\ Behind + drv.left = drv.req.len
  BY <1>1, <1>2 DEF Behind
<1>4. drv.addr = drv.req.addr + Behind
  <2>1. /\ drv.req.addr \in Nat /\ Behind \in Nat /\ drv.left \in Nat \ {0} /\ drv.req.len \in Nat
        /\ drv.req.addr + drv.req.len <= DieLen /\ Behind + drv.left = drv.req.len
    BY <1>1, <1>2, <1>3
  <2>2. DieLen \in Nat /\ Top \in Nat /\ DieLen <= Top
    BY Sizes
  <2>3. drv.req.addr + Behind \in 0..Top - 1
    BY <2>1, <2>2
  <2> QED BY <1>1, <2>3, Sizes, Small
<1>5. drv.left % WordLen = 0
  <2>1. CASE drv.pc = "erase"
    <3>1. drv.left % EraseLen = 0
      BY <1>1, <2>1 DEF FlashInv, CallOK
    <3> QED BY <1>1, <3>1, Sizes, MultipleOf
  <2> QED BY <1>1, <2>1 DEF FlashInv, CallOK
<1>6. Behind % WordLen = 0
  <2>1. (drv.req.len - drv.left) % WordLen = 0
    BY ZenonT(60), <1>1, <1>2, <1>5, Sizes, MultiplesAdd
  <2> QED BY <2>1 DEF Behind
<1>7. drv.addr % WordLen = 0
  <2>1. drv.req.addr \in Nat /\ Behind \in Nat /\ drv.req.addr % WordLen = 0 /\ WordLen \in Nat \ {0}
    BY <1>2, <1>3, Sizes
  <2>2. (drv.req.addr + Behind) % WordLen = 0
    BY <2>1, <1>6, MultiplesAdd
  <2> QED BY <2>2, <1>4
<1> QED BY <1>1, <1>2, <1>3, <1>4, <1>5, <1>6, <1>7

\* One program: whole words, at least one, no further than the page or the data.
LEMMA CountOk ==
  ASSUME NEW x \in Nat, NEW left \in Nat \ {0}, x % WordLen = 0, left % WordLen = 0
  PROVE  LET count == WordsNow(x, left) IN
         /\ count \in Nat \ {0} /\ count * WordLen \in Nat /\ count * WordLen <= left
         /\ (count * WordLen) % WordLen = 0 /\ (count * WordLen) \div WordLen = count
         /\ \A n \in 0..count - 1 : InPage(x, n) = x + n * WordLen
<1> DEFINE r == x % PageLen
           room == PageLen - r
           part == IF left < room THEN left ELSE room
           count == part \div WordLen
<1>1. x % PageLen \in 0..PageLen - 1 /\ x \div PageLen \in Nat
      /\ x = PageLen * (x \div PageLen) + (x % PageLen)
  BY Sizes, DivMod
<1>2. r % WordLen = 0
  <2> DEFINE q == x \div PageLen
  <2>1. q \in Nat /\ r \in Nat /\ x = PageLen * q + r
    BY <1>1
  <2> HIDE DEF q, r
  <2>2. PageLen * q \in Nat /\ (PageLen * q) % PageLen = 0
    BY <2>1, Sizes, Multiple
  <2>3. (PageLen * q) % WordLen = 0
    BY <2>2, Sizes, MultipleOf
  <2>4. PageLen * q <= x /\ x - PageLen * q = r
    BY <2>1, <2>2
  <2> QED BY <2>2, <2>3, <2>4, Sizes, MultiplesAdd
<1>3. r \in 0..PageLen - 1
  BY <1>1
<1> HIDE DEF r
<1>4. room \in Nat \ {0} /\ room % WordLen = 0 /\ r + room = PageLen
  <2>1. r \in Nat /\ r <= PageLen /\ PageLen \in Nat
    BY <1>3, Sizes
  <2>2. (PageLen - r) % WordLen = 0
    BY <2>1, <1>2, Sizes, MultiplesAdd
  <2> QED BY <1>3, <2>2, Sizes
<1> HIDE DEF room
<1>5. part \in Nat \ {0} /\ part % WordLen = 0 /\ part <= left /\ part <= room
  BY <1>4
<1> HIDE DEF part
<1>6. part = WordLen * count /\ count \in Nat
  BY <1>5, Sizes, Multiple
<1> HIDE DEF count
<1>7. count # 0 /\ count * WordLen = part
  BY <1>5, <1>6, Sizes
<1>8. part \div WordLen = count
  BY DEF count
<1>9. ASSUME NEW n \in 0..count - 1 PROVE InPage(x, n) = x + n * WordLen
  <2>1. count = n + 1 + (count - n - 1) /\ count - n - 1 \in Nat /\ n \in Nat
    BY <1>6
  <2>2. count * WordLen = n * WordLen + WordLen + (count - n - 1) * WordLen
        /\ n * WordLen \in Nat /\ (count - n - 1) * WordLen \in Nat
    BY <2>1, Sizes
  <2>3. r + n * WordLen < PageLen
    BY <1>3, <1>4, <1>5, <1>7, <2>2, Sizes
  <2>4. (x % PageLen) + n * WordLen < PageLen
    BY <2>3 DEF r
  <2>5. (x \div PageLen) * PageLen + ((x + n * WordLen) % PageLen) = x + n * WordLen
    <3>1. PICK k \in Nat : k = n * WordLen
      BY <2>2
    <3>2. (x % PageLen) + k < PageLen
      BY <2>4, <3>1
    <3>3. PageLen \in Nat \ {0} /\ k \in Nat /\ x \in Nat
      BY Sizes
    <3>4. (x \div PageLen) * PageLen + ((x + k) % PageLen) = x + k
      BY ONLY <3>2, <3>3, SamePage
    <3> QED BY <3>1, <3>4
  <2> QED BY <2>5 DEF InPage
<1>10. WordsNow(x, left) = count
  BY DEF WordsNow, count, part, room, r
<1> QED BY <1>5, <1>6, <1>7, <1>8, <1>9, <1>10

-----------------------------------------------------------------------------
(* What is behind *)

\* To do the next n bytes of the range is to come n bytes further.
LEMMA Further ==
  ASSUME FlashInv, drv.pc \in {"erase", "write", "verify"}, drv.left # 0,
         NEW n \in Nat, n <= drv.left, n % WordLen = 0
  PROVE  /\ Progress(Behind + n)
              = [a \in Words |-> IF a \in Span(drv.addr, n) THEN Asked(a) ELSE Progress(Behind)[a]]
         /\ \A a \in Span(drv.addr, n) : a \notin Span(drv.req.addr, Behind)
         /\ Span(drv.addr, n) \subseteq Span(drv.req.addr, drv.req.len)
<1>1. /\ drv.req.addr \in Nat /\ Behind \in Nat /\ drv.req.len \in Nat /\ drv.left \in Nat
      /\ drv.addr = drv.req.addr + Behind /\ Behind + drv.left = drv.req.len
  BY LoopHead
<1>2. /\ Span(drv.req.addr, Behind + n) = Span(drv.req.addr, Behind) \union Span(drv.addr, n)
      /\ Span(drv.req.addr, Behind) \cap Span(drv.addr, n) = {}
  <2>1. PICK x \in Nat, k \in Nat : x = drv.req.addr /\ k = Behind
    BY <1>1
  <2>2. Span(x, k + n) = Span(x, k) \union Span(x + k, n) /\ Span(x, k) \cap Span(x + k, n) = {}
    BY SpanSplit
  <2> QED BY <1>1, <2>1, <2>2
<1>3. Span(drv.addr, n) \subseteq Span(drv.req.addr, drv.req.len)
  BY <1>1 DEF Span, Words
<1> QED BY <1>2, <1>3 DEF Progress

\* The data for a place that lies ahead.
LEMMA DatumIs ==
  ASSUME FlashInv, drv.pc \in {"erase", "write", "verify"}, drv.left # 0, NEW n \in Nat,
         NEW a, a = drv.addr + n * WordLen
  PROVE  Given(a) = Datum(n)
<1>1. /\ drv.req.addr \in Nat /\ Behind \in Nat /\ drv.addr = drv.req.addr + Behind
      /\ Behind % WordLen = 0
  BY LoopHead
<1>2. PICK k \in Nat : k = n * WordLen
  BY Sizes
<1>3. k % WordLen = 0 /\ k \div WordLen = n
  <2>1. k = WordLen * n
    BY <1>2, Sizes
  <2> QED BY <2>1, Sizes, Multiple
<1>4. (Behind + k) \div WordLen = Behind \div WordLen + n
  <2>1. PICK b \in Nat : b = Behind
    BY <1>1
  <2>2. b % WordLen = 0
    BY <1>1, <2>1
  <2>3. k % WordLen = 0 /\ b \in Nat /\ k \in Nat /\ WordLen \in Nat \ {0}
    BY <1>3, Sizes
  <2>4. (b + k) \div WordLen = b \div WordLen + k \div WordLen
    BY ONLY <2>2, <2>3, MultiplesAdd
  <2> QED BY <1>3, <2>1, <2>4
<1>5. a - drv.req.addr = Behind + k
  BY <1>1, <1>2
<1> QED BY <1>4, <1>5 DEF Given, Datum, Behind

\* An idle die holds what it will hold.
LEMMA IdleAfter ==
  ASSUME DieOK, Idle(die)
  PROVE  After = die.mem
BY DEF DieOK, Idle, After

\* A mutation of an idle die: WREN takes, and the writes are in progress.
LEMMA Mutates ==
  ASSUME DieOK, NEW writes, die' = Commence(Enable(die), writes)
  PROVE  /\ die' = [mem |-> die.mem, pending |-> IF Idle(die) THEN writes ELSE die.pending,
                    wel |-> FALSE, gate |-> die.gate]
         /\ die'.mem = die.mem /\ die'.gate = die.gate
         /\ Idle(die) => die'.pending = writes
<1>1. PICK m, p, g : die = [mem |-> m, pending |-> p, wel |-> FALSE, gate |-> g]
  BY DEF DieOK
<1>2. die.mem = m /\ die.pending = p /\ die.gate = g /\ (Idle(die) <=> p = {})
  BY <1>1 DEF Idle
<1> DEFINE e == Enable(die)
           f == [e EXCEPT !.pending = writes]
<1>3. e = [die EXCEPT !.wel = e.wel] /\ (e.wel <=> Idle(die)) /\ e.wel \in BOOLEAN
  <2>1. e = [die EXCEPT !.wel = e.wel] /\ (e.wel <=> Idle(die))
    BY <1>1 DEF Enable
  <2>2. e.wel \in BOOLEAN
    BY <1>1 DEF Enable, Idle
  <2> QED BY <2>1, <2>2
<1>4. die' = IF e.wel THEN [f EXCEPT !.wel = FALSE] ELSE e
  BY DEF Commence
<1> HIDE DEF e
<1>5. e = [mem |-> m, pending |-> p, wel |-> e.wel, gate |-> g]
  BY <1>1, <1>3
<1>6. f = [mem |-> m, pending |-> writes, wel |-> e.wel, gate |-> g]
  BY <1>5
<1> HIDE DEF f
<1>7. CASE Idle(die)
  <2>1. die' = [mem |-> m, pending |-> writes, wel |-> FALSE, gate |-> g]
    BY <1>3, <1>4, <1>6, <1>7
  <2> QED BY <1>2, <1>7, <2>1
<1>8. CASE ~Idle(die)
  <2>1. e.wel = FALSE /\ die' = e
    BY <1>3, <1>4, <1>8
  <2>2. die' = [mem |-> m, pending |-> p, wel |-> FALSE, gate |-> g]
    BY <1>5, <2>1
  <2> QED BY <1>2, <1>8, <2>2
<1> QED BY <1>7, <1>8

\* After a mutation that writes each of some places at most once.
LEMMA AfterWrites ==
  ASSUME NEW places, NEW value,
         die'.pending = {<<a, value[a]>> : a \in places}
  PROVE  After' = [a \in Words |-> IF a \in places THEN value[a] ELSE die'.mem[a]]
<1> DEFINE W == die'.pending
           M == die'.mem
           C(a) == CHOOSE w \in W : w[1] = a
<1>1. ASSUME NEW a, a \in places PROVE (\E w \in W : w[1] = a) /\ C(a)[2] = value[a]
  <2>1. <<a, value[a]>> \in W
    BY <1>1
  <2>2. ASSUME NEW w \in W, w[1] = a PROVE w = <<a, value[a]>>
    BY <2>2
  <2>3. \E w \in W : w[1] = a
    BY <2>1
  <2>5. C(a) \in W /\ C(a)[1] = a
    BY <2>3
  <2>4. C(a) = <<a, value[a]>>
    BY <2>2, <2>5
  <2> QED BY <2>3, <2>4
<1>2. ASSUME NEW a, a \notin places PROVE ~\E w \in W : w[1] = a
  BY <1>2
<1>3. After' = [a \in Words |-> IF \E w \in W : w[1] = a THEN C(a)[2] ELSE M[a]]
  BY DEF After
<1> HIDE DEF W, M, C
<1>4. After' = [a \in Words |-> IF a \in places THEN value[a] ELSE M[a]]
  BY <1>1, <1>2, <1>3
<1> QED BY <1>4 DEF M

-----------------------------------------------------------------------------
(* Every step keeps the invariant *)

\* One turn of the erase or the write loop: the next n bytes are asked of the
\* die, each word once and as the call wants it.
LEMMA TurnKeeps ==
  ASSUME FlashInv, drv.pc \in {"erase", "write"}, drv.left # 0,
         NEW n \in Nat \ {0}, n <= drv.left, n % WordLen = 0, drv.pc = "erase" => n = EraseLen,
         drv' = [drv EXCEPT !.pc = "wait", !.i = WaitIters,
                            !.addr = (@ + n) % Top, !.left = @ - n],
         NEW writes, die' = Commence(Enable(die), writes), NEW value,
         Idle(die) => /\ writes = {<<a, value[a]>> : a \in Span(drv.addr, n)}
                      /\ \A a \in Span(drv.addr, n) : drv.idle => value[a] = Asked(a)
  PROVE  FlashInv'
<1>1. /\ drv.req \in Requests /\ ParamsOk(drv.req) /\ drv.req.op = drv.pc /\ drv.rc = "ok"
      /\ drv.req.addr \in Nat /\ drv.req.len \in Nat /\ Behind \in Nat /\ drv.left \in Nat \ {0}
      /\ drv.addr = drv.req.addr + Behind /\ Behind + drv.left = drv.req.len
  BY LoopHead
<1>2. /\ drv'.pc = "wait" /\ drv'.idle = drv.idle /\ drv'.rc = drv.rc
      /\ drv'.before = drv.before /\ drv'.req = drv.req
  BY DEF FlashInv, DieOK
<1>3. drv'.addr = (drv.addr + n) % Top /\ drv'.left = drv.left - n
  BY DEF FlashInv, DieOK
<1>4. drv' = [pc |-> drv'.pc, calls |-> drv'.calls, idle |-> drv'.idle, rc |-> drv'.rc,
              before |-> drv'.before, i |-> drv'.i, req |-> drv'.req, addr |-> drv'.addr,
              left |-> drv'.left]
  BY DEF FlashInv, DieOK
<1>5. /\ die' = [mem |-> die.mem, pending |-> IF Idle(die) THEN writes ELSE die.pending,
                 wel |-> FALSE, gate |-> die.gate]
      /\ die'.mem = die.mem /\ die'.gate = die.gate
      /\ Idle(die) => die'.pending = writes
  BY Mutates DEF FlashInv
<1>6. DieOK'
  BY <1>2, <1>4, <1>5 DEF FlashInv, DieOK
<1>7. Behind' = Behind + n
  BY <1>1, <1>2, <1>3 DEF Behind
<1>8. CallOK'
  <2>1. drv'.left \in Nat /\ drv'.left <= drv'.req.len
    BY <1>1, <1>2, <1>3
  <2>2. drv'.addr = (drv'.req.addr + Behind') % Top
    <3>1. drv.addr + n = drv.req.addr + (Behind + n)
      BY <1>1
    <3> QED BY <1>2, <1>3, <1>7, <3>1
  <2>3. drv'.req.op = "erase" => drv'.left % EraseLen = 0
    <3> SUFFICES ASSUME drv.req.op = "erase" PROVE (drv.left - n) % EraseLen = 0
      BY <1>2, <1>3
    <3>1. n = EraseLen /\ n % EraseLen = 0 /\ EraseLen \in Nat \ {0}
      <4>1. n = EraseLen * 1
        BY <1>1, Sizes
      <4>2. (EraseLen * 1) % EraseLen = 0 /\ EraseLen \in Nat \ {0}
        BY Sizes, Multiple
      <4> QED BY <1>1, <4>1, <4>2
    <3>2. drv.left % EraseLen = 0 /\ drv.left \in Nat
      BY <1>1 DEF FlashInv, CallOK
    <3> QED BY ONLY <3>1, <3>2, n <= drv.left, n \in Nat, MultiplesAdd
  <2>4. drv'.left % WordLen = 0
    <3>1. drv.left % WordLen = 0 /\ WordLen \in Nat \ {0} /\ drv.left \in Nat
      BY LoopHead, Sizes
    <3>2. (drv.left - n) % WordLen = 0
      BY ONLY <3>1, n <= drv.left, n % WordLen = 0, n \in Nat, MultiplesAdd
    <3> QED BY <1>3, <3>2
  <2> QED BY <1>1, <1>2, <2>1, <2>2, <2>3, <2>4 DEF CallOK, Ops
<1>9. WorkOK'
  <2> SUFFICES ASSUME drv.idle PROVE WorkOK'
    BY <1>2 DEF WorkOK
  <2>1. Idle(die) /\ After = Progress(Behind)
        /\ \A a \in Words \ Span(drv.req.addr, drv.req.len) : die.mem[a] = drv.before[a]
    BY DEF FlashInv, WorkOK, Ops
  <2>2. After = die.mem
    BY <2>1, IdleAfter DEF FlashInv
  <2>3. die'.pending = {<<a, value[a]>> : a \in Span(drv.addr, n)}
    BY <1>5, <2>1
  <2>4. After' = [a \in Words |-> IF a \in Span(drv.addr, n) THEN value[a] ELSE die.mem[a]]
    BY <2>3, <1>5, AfterWrites
  <2>5. After' = [a \in Words |-> IF a \in Span(drv.addr, n) THEN Asked(a) ELSE Progress(Behind)[a]]
    BY <2>1, <2>2, <2>4
  <2>6. /\ Progress(Behind + n)
              = [a \in Words |-> IF a \in Span(drv.addr, n) THEN Asked(a) ELSE Progress(Behind)[a]]
        /\ Span(drv.addr, n) \subseteq Span(drv.req.addr, drv.req.len)
    BY Further
  <2>7. After' = Progress(Behind + n)
    BY <2>5, <2>6
  <2>8. Progress(Behind)' = Progress(Behind + n)
    BY <1>2, <1>7 DEF Progress, Asked, Given
  <2>9. \A a \in Words \ Span(drv.req.addr, drv.req.len) :
          die'.mem[a] = drv.before[a] /\ After'[a] = drv.before[a]
    BY <2>1, <2>4, <2>6, <1>5
  <2> QED BY <1>2, <2>7, <2>8, <2>9 DEF WorkOK, Ops
<1> QED BY <1>6, <1>8, <1>9 DEF FlashInv

\* flash_ch5xx.c:263-271: the erase of one block.
LEMMA EraseKeeps ==
  ASSUME FlashInv, EraseBegin
  PROVE  FlashInv'
<1>1. /\ drv.pc = "erase" /\ drv.left # 0 /\ drv.req.op = "erase" /\ drv.left \in Nat \ {0}
      /\ drv.left % EraseLen = 0
  <2>1. drv.pc = "erase" /\ drv.left # 0
    BY DEF EraseBegin
  <2> QED BY <2>1, LoopHead DEF FlashInv, CallOK
<1>2. EraseLen <= drv.left
  <2>1. PICK x \in Nat \ {0} : x = drv.left
    BY <1>1
  <2>2. x % EraseLen = 0
    BY <1>1, <2>1
  <2>3. EraseLen <= x
    BY <2>2, Sizes, AtLeastOne
  <2> QED BY <2>1, <2>3
<1> DEFINE value == [a \in Words |-> {}]
           writes == {<<a, {}>> : a \in Span(drv.addr, EraseLen)}
<1>3. writes = {<<a, value[a]>> : a \in Span(drv.addr, EraseLen)}
  BY DEF Span
<1>4. \A a \in Span(drv.addr, EraseLen) : value[a] = Asked(a)
  BY <1>1 DEF Span, Asked
<1>5. die' = Commence(Enable(die), writes)
      /\ drv' = [drv EXCEPT !.pc = "wait", !.i = WaitIters,
                            !.addr = (@ + EraseLen) % Top, !.left = @ - EraseLen]
  BY DEF EraseBegin
<1> HIDE DEF value, writes
<1>6. EraseLen \in Nat \ {0} /\ EraseLen % WordLen = 0
  BY Sizes
<1> QED BY <1>1, <1>2, <1>3, <1>4, <1>5, <1>6, TurnKeeps

\* flash_ch5xx.c:287-310: the program of what is left of a page.
LEMMA WriteKeeps ==
  ASSUME FlashInv, WriteBegin
  PROVE  FlashInv'
<1>1. drv.pc = "write" /\ drv.left # 0
  BY DEF WriteBegin
<1>2. /\ drv.addr \in Nat /\ drv.addr % WordLen = 0 /\ drv.left % WordLen = 0 /\ drv.left \in Nat \ {0}
      /\ drv.addr + drv.left <= DieLen /\ drv.req.op = "write"
      /\ drv.req.addr \in Nat /\ Behind \in Nat /\ drv.addr = drv.req.addr + Behind
  BY <1>1, LoopHead
<1> DEFINE count == WordsNow(drv.addr, drv.left)
           n == count * WordLen
           last(a) == {k \in 0..count - 1 : InPage(drv.addr, k) = a
                         /\ \A m \in k + 1..count - 1 : InPage(drv.addr, m) # a}
           writes == UNION {{<<a, die.mem[a] \union Datum(k)>> : k \in last(a)} : a \in Words}
           value == [a \in Words |-> die.mem[a] \union Datum((a - drv.addr) \div WordLen)]
<1>3. die' = Commence(Enable(die), writes)
      /\ drv' = [drv EXCEPT !.pc = "wait", !.i = WaitIters, !.addr = (@ + n) % Top, !.left = @ - n]
  BY DEF WriteBegin
<1>4. /\ count \in Nat \ {0} /\ n \in Nat /\ n <= drv.left /\ n % WordLen = 0 /\ n \div WordLen = count
      /\ \A k \in 0..count - 1 : InPage(drv.addr, k) = drv.addr + k * WordLen
  BY <1>2, CountOk
<1> HIDE DEF count
<1>5. n # 0
  BY <1>4, Sizes
<1> HIDE DEF n
<1>6. ASSUME NEW a \in Words, a \in Span(drv.addr, n)
      PROVE  last(a) = {(a - drv.addr) \div WordLen}
  <2> DEFINE j == (a - drv.addr) \div WordLen
  <2>1. j \in 0..count - 1 /\ a = drv.addr + j * WordLen
    BY <1>2, <1>4, <1>6, PlaceOf
  <2>2. ASSUME NEW k \in 0..count - 1, InPage(drv.addr, k) = a PROVE k = j
    BY <1>2, <1>4, <2>1, <2>2, Sizes
  <2> QED BY <1>4, <2>1, <2>2
<1>7. ASSUME NEW a \in Words, a \notin Span(drv.addr, n)
      PROVE  last(a) = {}
  <2> SUFFICES ASSUME NEW k \in 0..count - 1, a = drv.addr + k * WordLen PROVE FALSE
    BY <1>4
  <2>1. k \in Nat /\ k * WordLen \in Nat /\ count = k + (count - k) /\ count - k \in Nat \ {0}
    BY <1>4, Sizes
  <2>2. count * WordLen = k * WordLen + (count - k) * WordLen /\ (count - k) * WordLen \in Nat \ {0}
    BY <2>1, Sizes
  <2>3. k * WordLen < n
    BY <2>1, <2>2 DEF n
  <2>4. a \in Nat /\ drv.addr <= a /\ a < drv.addr + n
    BY <1>2, <1>4, <2>1, <2>3
  <2> QED BY <1>7, <2>4 DEF Span
<1>8. writes = {<<a, value[a]>> : a \in Span(drv.addr, n)}
  <2> DEFINE part(a) == {<<a, die.mem[a] \union Datum(k)>> : k \in last(a)}
  <2>1. ASSUME NEW a \in Words
        PROVE  part(a) = IF a \in Span(drv.addr, n) THEN {<<a, value[a]>>} ELSE {}
    <3> HIDE DEF last
    <3>1. CASE a \in Span(drv.addr, n)
      <4>1. last(a) = {(a - drv.addr) \div WordLen}
        BY <1>6, <3>1
      <4> QED BY <3>1, <4>1
    <3>2. CASE a \notin Span(drv.addr, n)
      <4>1. last(a) = {}
        BY <1>7, <3>2
      <4> QED BY <3>2, <4>1
    <3> QED BY <3>1, <3>2
  <2>2. writes = UNION {part(a) : a \in Words}
    OBVIOUS
  <2>3. Span(drv.addr, n) \subseteq Words
    BY DEF Span
  <2> HIDE DEF part, writes, value
  <2> QED BY <2>1, <2>2, <2>3
<1>9. ASSUME NEW a \in Span(drv.addr, n), drv.idle, Idle(die)
      PROVE  value[a] = Asked(a)
  <2> DEFINE j == (a - drv.addr) \div WordLen
  <2>1. a \in Words /\ j \in Nat /\ a = drv.addr + j * WordLen
    BY <1>2, <1>4, PlaceOf DEF Span
  <2>2. Given(a) = Datum(j)
    BY <1>1, <2>1, DatumIs
  <2>3. a \notin Span(drv.req.addr, Behind)
    BY <1>1, <1>4, Further
  <2>4. die.mem[a] = Progress(Behind)[a]
    BY <1>1, <1>9, IdleAfter DEF FlashInv, WorkOK, Ops
  <2>5. die.mem[a] = drv.before[a]
    BY <2>1, <2>3, <2>4 DEF Progress
  <2>6. value[a] = die.mem[a] \union Datum(j)
    BY <2>1
  <2> QED BY <1>2, <2>2, <2>5, <2>6 DEF Asked
<1> HIDE DEF writes, value
<1>10. Idle(die) => /\ writes = {<<a, value[a]>> : a \in Span(drv.addr, n)}
                    /\ \A a \in Span(drv.addr, n) : drv.idle => value[a] = Asked(a)
  BY <1>8, <1>9
<1>11. n \in Nat \ {0} /\ drv.pc # "erase"
  BY <1>1, <1>4, <1>5
<1> QED BY <1>1, <1>3, <1>4, <1>10, <1>11, TurnKeeps

\* What a step leaves alone in the die, and what it leaves of the die to come.
LEMMA SameDie ==
  ASSUME UNCHANGED die.pending, UNCHANGED die.mem
  PROVE  After' = After /\ Idle(die)' = Idle(die)
BY DEF After, Idle

\* flash_ch5xx.c:175-198, 254-257: a call that its parameters stop touches
\* nothing; one that is let in has all its range ahead.
LEMMA CallKeeps ==
  ASSUME FlashInv, Call
  PROVE  FlashInv'
<1>1. PICK r \in Requests :
        LET call == [drv EXCEPT !.calls = @ + 1, !.req = r, !.before = die.mem, !.idle = Idle(die),
                                !.rc = "ok", !.addr = r.addr, !.left = r.len, !.i = 0] IN
        IF ~ParamsOk(r)
        THEN drv' = [call EXCEPT !.rc = "param"] /\ UNCHANGED die
        ELSE /\ drv' = [call EXCEPT !.pc = r.op]
             /\ die' = [die EXCEPT !.gate = IF r.op \in {"verify", "info"} THEN "read" ELSE "write"]
  BY DEF Call
<1>2. drv.pc = "idle"
  BY DEF Call
<1> DEFINE call == [drv EXCEPT !.calls = @ + 1, !.req = r, !.before = die.mem, !.idle = Idle(die),
                               !.rc = "ok", !.addr = r.addr, !.left = r.len, !.i = 0]
<1>3. call = [pc |-> "idle", calls |-> call.calls, idle |-> Idle(die), rc |-> "ok",
              before |-> die.mem, i |-> 0, req |-> r, addr |-> r.addr, left |-> r.len]
  <2>1. call = [pc |-> call.pc, calls |-> call.calls, idle |-> call.idle, rc |-> call.rc,
                before |-> call.before, i |-> call.i, req |-> call.req, addr |-> call.addr,
                left |-> call.left]
    <3>1. PICK p, c, d, e, f, i, q, x, y :
            drv = [pc |-> p, calls |-> c, idle |-> d, rc |-> e, before |-> f, i |-> i,
                   req |-> q, addr |-> x, left |-> y]
      BY DEF FlashInv, DieOK
    <3>2. PICK b, k, m, z, n : b = Idle(die) /\ k = drv.calls + 1 /\ m = die.mem /\ z = r.addr /\ n = r.len
      OBVIOUS
    <3>3. call = [drv EXCEPT !.calls = k, !.req = r, !.before = m, !.idle = b,
                             !.rc = "ok", !.addr = z, !.left = n, !.i = 0]
      BY <3>2
    <3> HIDE DEF call
    <3>4. call = [pc |-> p, calls |-> k, idle |-> b, rc |-> "ok", before |-> m, i |-> 0,
                  req |-> r, addr |-> z, left |-> n]
      BY <3>1, <3>3
    <3> QED BY <3>4
  <2>2. call.pc = "idle" /\ call.rc = "ok" /\ call.i = 0
    BY <1>2 DEF FlashInv, DieOK
  <2>3. call.req = r /\ call.addr = r.addr /\ call.left = r.len /\ call.before = die.mem
    BY DEF FlashInv, DieOK
  <2>4. call.idle = Idle(die)
    BY DEF FlashInv, DieOK
  <2> HIDE DEF call
  <2> QED BY <2>1, <2>2, <2>3, <2>4
<1>4. /\ r.addr \in 0..Top - 1 /\ r.len \in Nat /\ r.op \in Ops
  BY Sizes, FlashAssumption DEF FlashAssumption, Ops
<1>5. CASE ~ParamsOk(r)
  <2>1. drv' = [call EXCEPT !.rc = "param"] /\ die' = die
    BY <1>1, <1>5
  <2> HIDE DEF call
  <2>2. drv' = [pc |-> "idle", calls |-> call.calls, idle |-> Idle(die), rc |-> "param",
                before |-> die.mem, i |-> 0, req |-> r, addr |-> r.addr, left |-> r.len]
    BY <1>3, <2>1
  <2>3. DieOK'
    <3>1. drv'.pc = "idle" /\ drv'.before = die.mem /\ die.gate = "closed"
      BY <1>2, <2>2 DEF FlashInv, DieOK
    <3> QED BY <2>1, <2>2, <3>1 DEF FlashInv, DieOK
  <2>4. CallOK'
    BY <2>2 DEF CallOK
  <2>5. WorkOK'
    <3> SUFFICES ASSUME Idle(die) PROVE WorkOK'
      BY <2>2 DEF WorkOK
    <3>1. After' = die.mem
      BY <2>1, SameDie, IdleAfter DEF FlashInv
    <3> QED BY <2>1, <2>2, <3>1 DEF WorkOK, Ops
  <2> QED BY <2>3, <2>4, <2>5 DEF FlashInv
<1>6. CASE ParamsOk(r)
  <2>1. /\ drv' = [call EXCEPT !.pc = r.op]
        /\ \E g \in {"read", "write"} : die' = [die EXCEPT !.gate = g]
    BY <1>1, <1>6
  <2> HIDE DEF call
  <2>2. drv' = [pc |-> r.op, calls |-> call.calls, idle |-> Idle(die), rc |-> "ok",
                before |-> die.mem, i |-> 0, req |-> r, addr |-> r.addr, left |-> r.len]
    BY <1>3, <2>1
  <2>3. die'.mem = die.mem /\ die'.pending = die.pending
        /\ die' = [mem |-> die'.mem, pending |-> die'.pending, wel |-> FALSE, gate |-> die'.gate]
    <3>1. PICK g : die' = [die EXCEPT !.gate = g]
      BY <2>1
    <3>2. PICK m, p, h : die = [mem |-> m, pending |-> p, wel |-> FALSE, gate |-> h]
      BY DEF FlashInv, DieOK
    <3>3. die' = [mem |-> m, pending |-> p, wel |-> FALSE, gate |-> g]
      BY <3>1, <3>2
    <3> QED BY <3>2, <3>3
  <2>4. DieOK'
    BY <1>4, <2>2, <2>3 DEF FlashInv, DieOK, Ops
  <2>5. Behind' = 0
    BY <1>4, <2>2 DEF Behind
  <2>6. CallOK'
    <3>1. drv'.addr = (drv'.req.addr + Behind') % Top
      <4>1. r.addr % Top = r.addr /\ r.addr + 0 = r.addr
        BY <1>4, Sizes, Small
      <4> QED BY <2>2, <2>5, <4>1
    <3>2. drv'.left \in Nat /\ drv'.left <= drv'.req.len
      BY <1>4, <2>2
    <3>3. /\ r.op = "erase" => r.len % EraseLen = 0
          /\ r.op \in {"write", "verify"} => r.len % WordLen = 0
      BY <1>6 DEF ParamsOk
    <3> QED BY <1>4, <1>6, <2>2, <3>1, <3>2, <3>3 DEF CallOK, Ops
  <2>7. WorkOK'
    <3> SUFFICES ASSUME Idle(die) PROVE WorkOK'
      BY <2>2 DEF WorkOK
    <3>1. After' = die.mem /\ Idle(die)'
      BY <2>3, SameDie, IdleAfter DEF FlashInv
    <3>2. Span(r.addr, 0) = {}
      BY <1>4, Sizes DEF Span, Words
    <3>3. Progress(Behind)' = die.mem
      BY <2>2, <2>5, <3>2 DEF Progress, FlashInv, DieOK
    <3> QED BY <1>4, <2>2, <2>3, <2>5, <3>1, <3>2, <3>3 DEF WorkOK, Ops
  <2> QED BY <2>4, <2>6, <2>7 DEF FlashInv
<1> QED BY <1>5, <1>6

\* flash_ch5xx.c:221-242: a poll ends the wait with an idle die, or for good.
LEMMA PollKeeps ==
  ASSUME FlashInv, WaitPoll
  PROVE  FlashInv'
<1>1. /\ drv.pc = "wait" /\ die' = die
      /\ \/ drv' = [drv EXCEPT !.rc = "timeout", !.pc = "close"]
         \/ Idle(die) /\ drv' = [drv EXCEPT !.pc = drv.req.op]
         \/ drv' = [drv EXCEPT !.i = @ - 1]
  BY DEF WaitPoll
<1>2. /\ drv.req.op \in {"erase", "write"} /\ drv.rc = "ok"
  BY <1>1, FlashAssumption DEF FlashInv, CallOK, FlashAssumption
<1>3. /\ drv'.idle = drv.idle /\ drv'.before = drv.before /\ drv'.req = drv.req
      /\ drv'.addr = drv.addr /\ drv'.left = drv.left
      /\ drv' = [pc |-> drv'.pc, calls |-> drv'.calls, idle |-> drv'.idle, rc |-> drv'.rc,
                 before |-> drv'.before, i |-> drv'.i, req |-> drv'.req, addr |-> drv'.addr,
                 left |-> drv'.left]
  BY <1>1 DEF FlashInv, DieOK
<1>4. \/ drv'.pc = "close" /\ drv'.rc = "timeout"
      \/ drv'.pc = drv.req.op /\ drv'.rc = "ok" /\ Idle(die)
      \/ drv'.pc = "wait" /\ drv'.rc = "ok"
  BY <1>1, <1>2 DEF FlashInv, DieOK
<1>5. DieOK'
  BY <1>1, <1>2, <1>3, <1>4 DEF FlashInv, DieOK, Ops
<1>6. Behind' = Behind /\ After' = After /\ Idle(die)' = Idle(die) /\ Progress(Behind)' = Progress(Behind)
  BY <1>1, <1>3, SameDie DEF Behind, Progress, Asked, Given
<1>7. CallOK'
  BY <1>1, <1>2, <1>3, <1>4, <1>6 DEF FlashInv, CallOK, Ops
<1>8. WorkOK'
  BY <1>1, <1>2, <1>3, <1>4, <1>6 DEF FlashInv, WorkOK, Ops
<1> QED BY <1>5, <1>7, <1>8 DEF FlashInv

\* flash_ch5xx.c:323-339: one word compared; what is behind is equal.
LEMMA VerifyKeeps ==
  ASSUME FlashInv, VerifyWord
  PROVE  FlashInv'
<1>1. /\ drv.pc = "verify" /\ drv.left # 0 /\ die' = die
      /\ \/ (Idle(die) => die.mem[drv.addr] = Datum(0))
            /\ drv' = [drv EXCEPT !.addr = (@ + WordLen) % Top, !.left = @ - WordLen]
         \/ (Idle(die) => die.mem[drv.addr] # Datum(0))
            /\ drv' = [drv EXCEPT !.rc = "mismatch", !.pc = "close"]
  BY DEF VerifyWord
<1>2. /\ drv.req \in Requests /\ ParamsOk(drv.req) /\ drv.req.op = "verify" /\ drv.rc = "ok"
      /\ drv.req.addr \in Nat /\ drv.req.len \in Nat /\ Behind \in Nat /\ drv.left \in Nat \ {0}
      /\ drv.addr = drv.req.addr + Behind /\ Behind + drv.left = drv.req.len
      /\ drv.addr + drv.left <= DieLen
  BY <1>1, LoopHead
<1>3. drv.addr % WordLen = 0 /\ drv.left % WordLen = 0
  BY <1>1, LoopHead
<1>4. drv'.idle = drv.idle /\ drv'.before = drv.before /\ drv'.req = drv.req
      /\ drv' = [pc |-> drv'.pc, calls |-> drv'.calls, idle |-> drv'.idle, rc |-> drv'.rc,
                 before |-> drv'.before, i |-> drv'.i, req |-> drv'.req, addr |-> drv'.addr,
                 left |-> drv'.left]
  BY <1>1 DEF FlashInv, DieOK
<1>5. WordLen <= drv.left
  <2>1. PICK x \in Nat \ {0} : x = drv.left
    BY <1>2
  <2>2. x % WordLen = 0
    BY <1>3, <2>1
  <2>3. WordLen <= x
    BY <2>2, Sizes, AtLeastOne
  <2> QED BY <2>1, <2>3
<1>6. Given(drv.addr) = Datum(0)
  <2>1. drv.addr = drv.addr + 0 * WordLen
    BY <1>2, Sizes
  <2> QED BY <1>1, <2>1, DatumIs
<1>7. drv.addr \in Words /\ drv.addr \in Span(drv.req.addr, drv.req.len)
  <2>1. drv.addr \in 0..DieLen - 1 /\ drv.req.addr <= drv.addr /\ drv.addr < drv.req.addr + drv.req.len
    BY <1>2, Sizes
  <2> QED BY <1>3, <2>1 DEF Words, Span
<1>8. ASSUME drv.idle
      PROVE  /\ Idle(die) /\ After = drv.before /\ die.mem[drv.addr] = drv.before[drv.addr]
             /\ \A a \in Span(drv.req.addr, Behind) : drv.before[a] = Given(a)
             /\ \A a \in Words \ Span(drv.req.addr, drv.req.len) : die.mem[a] = drv.before[a]
  <2>1. /\ Idle(die) /\ After = Progress(Behind)
        /\ \A a \in Span(drv.req.addr, Behind) : drv.before[a] = Given(a)
        /\ \A a \in Words \ Span(drv.req.addr, drv.req.len) : die.mem[a] = drv.before[a]
    BY <1>1, <1>8 DEF FlashInv, WorkOK, Ops
  <2>2. After = die.mem
    BY <2>1, IdleAfter DEF FlashInv
  <2>3. \A a : Asked(a) = drv.before[a]
    BY <1>2 DEF Asked
  <2>4. Progress(Behind) = drv.before
    BY <2>3 DEF Progress, FlashInv, DieOK
  <2> QED BY <2>1, <2>2, <2>4
<1>9. After' = After /\ Idle(die)' = Idle(die)
  BY <1>1, SameDie
<1>10. CASE (Idle(die) => die.mem[drv.addr] = Datum(0))
            /\ drv' = [drv EXCEPT !.addr = (@ + WordLen) % Top, !.left = @ - WordLen]
  <2>1. drv'.pc = drv.pc /\ drv'.rc = drv.rc
        /\ drv'.addr = (drv.addr + WordLen) % Top /\ drv'.left = drv.left - WordLen
    BY <1>10 DEF FlashInv, DieOK
  <2>2. DieOK'
    BY <1>1, <1>4, <2>1 DEF FlashInv, DieOK, Ops
  <2>3. Behind' = Behind + WordLen
    BY <1>2, <1>4, <2>1, Sizes DEF Behind
  <2>4. CallOK'
    <3>1. drv'.left \in Nat /\ drv'.left <= drv'.req.len
      BY <1>2, <1>4, <1>5, <2>1, Sizes
    <3>2. drv'.addr = (drv'.req.addr + Behind') % Top
      <4>1. drv.addr + WordLen = drv.req.addr + (Behind + WordLen)
        BY <1>2, Sizes
      <4> QED BY <1>4, <2>1, <2>3, <4>1
    <3>3. drv'.left % WordLen = 0
      <4>1. WordLen % WordLen = 0 /\ WordLen \in Nat \ {0}
        <5>1. WordLen * 1 = WordLen /\ WordLen \in Nat \ {0}
          BY Sizes
        <5>2. (WordLen * 1) % WordLen = 0
          BY <5>1, Multiple
        <5> QED BY <5>1, <5>2
      <4>2. drv.left \in Nat
        BY <1>2
      <4>3. (drv.left - WordLen) % WordLen = 0
        BY ONLY <1>3, <1>5, <4>1, <4>2, MultiplesAdd
      <4> QED BY <2>1, <4>3
    <3> QED BY <1>1, <1>2, <1>4, <2>1, <3>1, <3>2, <3>3 DEF CallOK, Ops
  <2>5. WorkOK'
    <3> SUFFICES ASSUME drv.idle PROVE WorkOK'
      BY <1>4 DEF WorkOK
    <3>1. /\ Idle(die) /\ After = drv.before /\ drv.before[drv.addr] = Given(drv.addr)
          /\ \A a \in Span(drv.req.addr, Behind) : drv.before[a] = Given(a)
          /\ \A a \in Words \ Span(drv.req.addr, drv.req.len) :
               die.mem[a] = drv.before[a] /\ After[a] = drv.before[a]
      BY <1>6, <1>8, <1>10
    <3>2. Progress(Behind)' = drv.before
      <4>1. \A a : Asked(a)' = drv.before[a]
        BY <1>2, <1>4 DEF Asked
      <4> QED BY <1>4, <4>1 DEF Progress, FlashInv, DieOK
    <3>3. ASSUME NEW a \in Span(drv.req.addr, Behind + WordLen) PROVE drv.before[a] = Given(a)
      <4>1. a \in Nat /\ a % WordLen = 0 /\ a \in Words /\ a < drv.addr + WordLen /\ drv.req.addr <= a
        BY <1>2, Sizes DEF Span, Words
      <4>2. ~(drv.addr < a)
        <5>1. PICK x \in Nat : x = drv.addr
          BY <1>2
        <5>2. x % WordLen = 0
          BY <1>3, <5>1
        <5>3. x < a => x + WordLen <= a
          BY <4>1, <5>2, Sizes, MultiplesAdd
        <5> QED BY <4>1, <5>1, <5>3, Sizes
      <4>3. CASE a = drv.addr
        BY <3>1, <4>3
      <4>4. CASE a < drv.addr
        BY <1>2, <3>1, <4>1, <4>4 DEF Span
      <4> QED BY <1>2, <4>1, <4>2, <4>3, <4>4
    <3>4. \A a \in Span(drv.req.addr, Behind)' : drv'.before[a] = Given(a)'
      BY <1>4, <2>3, <3>3 DEF Given
    <3> QED BY <1>1, <1>4, <1>9, <2>1, <3>1, <3>2, <3>4 DEF WorkOK, Ops
  <2> QED BY <2>2, <2>4, <2>5 DEF FlashInv
<1>11. CASE (Idle(die) => die.mem[drv.addr] # Datum(0))
            /\ drv' = [drv EXCEPT !.rc = "mismatch", !.pc = "close"]
  <2>1. drv'.pc = "close" /\ drv'.rc = "mismatch" /\ drv'.addr = drv.addr /\ drv'.left = drv.left
    BY <1>11 DEF FlashInv, DieOK
  <2>2. DieOK'
    BY <1>1, <1>4, <2>1 DEF FlashInv, DieOK, Ops
  <2>3. CallOK'
    BY <1>1, <1>2, <1>4, <2>1 DEF FlashInv, CallOK, Ops, Behind
  <2>4. drv.idle => ~Matches
    BY <1>6, <1>7, <1>8, <1>11 DEF Matches, Given
  <2>5. Matches' = Matches
    BY <1>4 DEF Matches
  <2>6. WorkOK'
    BY <1>1, <1>4, <1>8, <1>9, <2>1, <2>4, <2>5 DEF WorkOK, Ops
  <2> QED BY <2>2, <2>3, <2>6 DEF FlashInv
<1> QED BY <1>1, <1>10, <1>11

\* The end of a loop: all of the range is behind.
LEMMA FinishKeeps ==
  ASSUME FlashInv, Finish \/ InfoRead
  PROVE  FlashInv'
<1>1. /\ drv.pc \in Ops /\ drv.left = 0 /\ die' = die
      /\ drv' = [drv EXCEPT !.pc = "close"]
  <2>1. CASE Finish
    BY <2>1 DEF Finish, Ops
  <2>2. CASE InfoRead
    <3>1. drv.req \in Requests /\ drv.req.op = "info" /\ drv.left \in Nat /\ drv.left <= drv.req.len
      BY <2>2 DEF InfoRead, FlashInv, CallOK, Ops
    <3>2. drv.req.len = 0
      BY <3>1, FlashAssumption DEF FlashAssumption
    <3> QED BY <2>2, <3>1, <3>2 DEF InfoRead, Ops
  <2> QED BY <2>1, <2>2
<1>2. /\ drv.req \in Requests /\ drv.req.len \in Nat /\ drv.req.op = drv.pc /\ drv.rc = "ok"
  BY <1>1, FlashAssumption DEF FlashInv, CallOK, FlashAssumption, Ops
<1>3. drv'.pc = "close" /\ drv'.idle = drv.idle /\ drv'.before = drv.before /\ drv'.req = drv.req
      /\ drv'.addr = drv.addr /\ drv'.left = drv.left /\ drv'.rc = drv.rc
      /\ drv' = [pc |-> drv'.pc, calls |-> drv'.calls, idle |-> drv'.idle, rc |-> drv'.rc,
                 before |-> drv'.before, i |-> drv'.i, req |-> drv'.req, addr |-> drv'.addr,
                 left |-> drv'.left]
  BY <1>1 DEF FlashInv, DieOK
<1>4. DieOK'
  BY <1>1, <1>3 DEF FlashInv, DieOK, Ops
<1>5. Behind' = Behind /\ Behind = drv.req.len
  BY <1>1, <1>2, <1>3 DEF Behind
<1>6. CallOK'
  BY <1>1, <1>2, <1>3, <1>5 DEF FlashInv, CallOK, Ops
<1>7. WorkOK'
  <2> SUFFICES ASSUME drv.idle PROVE WorkOK'
    BY <1>3 DEF WorkOK
  <2>1. After' = After /\ Idle(die)' /\ After = die.mem
    BY <1>1, SameDie, IdleAfter DEF FlashInv, WorkOK
  <2>2. Progress(drv.req.len) = Wanted
    BY DEF Progress, Asked, Given, Wanted
  <2>3. die.mem = Wanted /\ Wanted' = Wanted
    <3>1. After = Progress(Behind)
      BY <1>1 DEF FlashInv, WorkOK
    <3> QED BY <1>3, <1>5, <2>1, <2>2, <3>1 DEF Wanted
  <2>4. drv.req.op = "verify" => Matches /\ Matches'
    BY <1>1, <1>2, <1>3, <1>5 DEF FlashInv, WorkOK, Matches, Given
  <2>5. \A a \in Words \ Span(drv.req.addr, drv.req.len) : die.mem[a] = drv.before[a] /\ After[a] = drv.before[a]
    BY DEF FlashInv, WorkOK
  <2> QED BY <1>1, <1>2, <1>3, <2>1, <2>3, <2>4, <2>5 DEF WorkOK, Ops
<1> QED BY <1>4, <1>6, <1>7 DEF FlashInv

\* flash_ch5xx.c:150-154: the gate is closed, and nothing else changes.
LEMMA CloseKeeps ==
  ASSUME FlashInv, Close
  PROVE  FlashInv'
<1>1. drv.pc = "close" /\ drv' = [drv EXCEPT !.pc = "idle"] /\ die' = [die EXCEPT !.gate = "closed"]
  BY DEF Close
<1>2. drv'.pc = "idle" /\ drv'.idle = drv.idle /\ drv'.before = drv.before /\ drv'.req = drv.req
      /\ drv'.rc = drv.rc
      /\ drv' = [pc |-> drv'.pc, calls |-> drv'.calls, idle |-> drv'.idle, rc |-> drv'.rc,
                 before |-> drv'.before, i |-> drv'.i, req |-> drv'.req, addr |-> drv'.addr,
                 left |-> drv'.left]
  BY <1>1 DEF FlashInv, DieOK
<1>3. die' = [mem |-> die.mem, pending |-> die.pending, wel |-> FALSE, gate |-> "closed"]
  <2>1. PICK m, p, h : die = [mem |-> m, pending |-> p, wel |-> FALSE, gate |-> h]
    BY DEF FlashInv, DieOK
  <2>2. die' = [mem |-> m, pending |-> p, wel |-> FALSE, gate |-> "closed"]
    BY <1>1, <2>1
  <2> QED BY <2>1, <2>2
<1>4. die'.mem = die.mem /\ die'.pending = die.pending /\ die'.gate = "closed"
  BY <1>3
<1>5. DieOK'
  BY <1>2, <1>3, <1>4 DEF FlashInv, DieOK
<1>6. CallOK'
  BY <1>2 DEF CallOK
<1>7. After' = After /\ Idle(die)' = Idle(die) /\ Wanted' = Wanted /\ Matches' = Matches
  BY <1>2, <1>4, SameDie DEF Wanted, Matches
<1>8. WorkOK'
  BY <1>1, <1>2, <1>4, <1>7 DEF FlashInv, WorkOK, Ops
<1> QED BY <1>5, <1>6, <1>8 DEF FlashInv

\* The die comes to hold what it was to hold.
LEMMA DoneKeeps ==
  ASSUME FlashInv, DieDone
  PROVE  FlashInv'
<1>1. /\ ~Idle(die) /\ drv' = drv
      /\ die' = [die EXCEPT !.pending = {}, !.mem = After]
  BY DEF DieDone, After
<1>2. die'.mem = After /\ die'.pending = {}
      /\ die' = [mem |-> After, pending |-> {}, wel |-> FALSE, gate |-> die.gate]
  <2>1. PICK m, p, h : die = [mem |-> m, pending |-> p, wel |-> FALSE, gate |-> h] /\ h = die.gate
    BY DEF FlashInv, DieOK
  <2>2. die' = [mem |-> After, pending |-> {}, wel |-> FALSE, gate |-> h]
    BY <1>1, <2>1
  <2> QED BY <2>1, <2>2
<1>3. After = [a \in Words |-> After[a]]
  BY DEF After
<1>4. DieOK'
  BY <1>1, <1>2, <1>3 DEF FlashInv, DieOK
<1>5. CallOK'
  BY <1>1 DEF FlashInv, CallOK, Behind
<1>6. After' = After
  <2>1. Idle(die)'
    BY <1>2 DEF Idle
  <2>2. After' = die'.mem
    BY <1>2 DEF After, Idle, FlashInv, DieOK
  <2> QED BY <1>2, <2>2
<1>7. WorkOK'
  <2> SUFFICES ASSUME drv.idle PROVE WorkOK'
    BY <1>1 DEF WorkOK
  <2>1. drv.pc \notin Ops /\ ~(drv.pc \in {"close", "idle"} /\ drv.rc = "ok") /\ drv.pc # "verify"
    BY <1>1 DEF FlashInv, WorkOK, Ops
  <2>2. Progress(Behind)' = Progress(Behind) /\ Matches' = Matches
    BY <1>1 DEF Progress, Asked, Given, Behind, Matches
  <2> QED BY <1>1, <1>2, <1>6, <2>1, <2>2 DEF FlashInv, WorkOK
<1> QED BY <1>4, <1>5, <1>7 DEF FlashInv

\* The driver has not been called, and the die is idle.
LEMMA FlashStarts ==
  ASSUME FlashInit
  PROVE  FlashInv
<1>1. PICK mem \in Contents :
       /\ die = [mem |-> mem, pending |-> {}, wel |-> FALSE, gate |-> "closed"]
       /\ drv = [pc |-> "idle", calls |-> 0, idle |-> TRUE, rc |-> "param", before |-> mem, i |-> 0,
                 req |-> [op |-> "erase", addr |-> 0, len |-> 0, buf |-> <<>>, aligned |-> TRUE],
                 addr |-> 0, left |-> 0]
  BY DEF FlashInit
<1>2. mem = [a \in Words |-> mem[a]]
  BY FlashAssumption DEF FlashAssumption
<1>3. die.mem = mem /\ die.pending = {} /\ die.gate = "closed"
      /\ drv.pc = "idle" /\ drv.rc = "param" /\ drv.before = mem
  BY <1>1
<1>4. DieOK
  BY <1>1, <1>2, <1>3 DEF DieOK
<1>5. CallOK
  BY <1>3 DEF CallOK
<1>6. WorkOK
  <2>1. After = mem
    BY <1>3, <1>4, IdleAfter DEF Idle
  <2> QED BY <1>3, <2>1 DEF WorkOK, Ops
<1> QED BY <1>4, <1>5, <1>6 DEF FlashInv

\* Nothing happens.
LEMMA FlashStutters ==
  ASSUME FlashInv, UNCHANGED flashVars
  PROVE  FlashInv'
<1>1. drv' = drv /\ die' = die
  BY DEF flashVars
<1>2. DieOK'
  BY <1>1 DEF FlashInv, DieOK
<1>3. CallOK'
  BY <1>1 DEF FlashInv, CallOK, Behind
<1>4. /\ After' = After /\ Idle(die)' = Idle(die) /\ Wanted' = Wanted /\ Matches' = Matches
      /\ Progress(Behind)' = Progress(Behind)
  BY <1>1 DEF After, Idle, Wanted, Matches, Progress, Behind, Asked, Given
<1>5. WorkOK'
  BY <1>1, <1>4 DEF FlashInv, WorkOK, Behind, Given
<1> QED BY <1>2, <1>3, <1>5 DEF FlashInv

-----------------------------------------------------------------------------

\* The invariant of the driver and the die.
THEOREM FlashInductive == FlashSpec => []FlashInv
<1>1. FlashInit => FlashInv
  BY FlashStarts
<1>2. FlashInv /\ [FlashNext]_flashVars => FlashInv'
  BY CallKeeps, EraseKeeps, WriteKeeps, PollKeeps, VerifyKeeps, FinishKeeps, CloseKeeps,
     DoneKeeps, FlashStutters DEF FlashNext
<1> QED BY <1>1, <1>2, PTL DEF FlashSpec

\* flash_ch5xx.c:243-245, 249-274, 287-310, 323-339: for every page, block and
\* die, a call leaves the gate closed; on a die that was idle it touches no word
\* outside its range, answers OK only when every word of it is as asked, and a
\* verify tells equal from different.
THEOREM FlashCallSound == FlashSpec => []FlashCallIsWhole
<1>1. FlashInv => FlashCallIsWhole
  BY DEF FlashInv, DieOK, WorkOK, FlashCallIsWhole, Ops
<1> QED BY <1>1, FlashInductive, PTL
=============================================================================
