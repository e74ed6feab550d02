-------------------------- MODULE HostUpdateProofs --------------------------
(***************************************************************************)
(* The tool and the device together, for every size of slot, block, chunk  *)
(* and build and any number of faults.                                     *)
(*                                                                         *)
(* First the arithmetic of the flows: the requests that Plan cuts a build  *)
(* into fit the device that HELLO described.  Then every step of the pair  *)
(* is a step of BootCore or leaves the device alone, so that all that is   *)
(* proved of BootCore holds of a device that the tool drives.              *)
(***************************************************************************)
EXTENDS HostUpdate, BootCoreProofs

-----------------------------------------------------------------------------
(* What a request that fits the device looks like *)

\* What HELLO may tell.
Infos ==
  [slot : Slots, cap : {0, SlotWords}, block : {BlockSize}, chunk : {MaxChunk}, live : BOOLEAN]

\* Whole blocks, a chunk that the receive buffer holds, a CRC over words of a slot.
Fits(q) ==
  /\ q.cmd = "ERASE" => q.at % BlockSize = 0 /\ q.n % BlockSize = 0
  /\ q.cmd = "WRITE" => q.data \in Chunk
  /\ q.cmd = "COMMIT" => q.len \in 1..SlotWords /\ q.crc \in [1..q.len -> Word]
  /\ q.cmd = "CRC" => Len(q.crc) \in 1..SlotWords

Fitting == {q \in HostRequests : Fits(q)}

\* The order of a flow: erases, then writes, then at most one each of the rest.
Rank(q) ==
  CASE q.cmd = "HELLO" -> 0 [] q.cmd = "ERASE" -> 1 [] q.cmd = "WRITE" -> 2
    [] q.cmd = "COMMIT" -> 3 [] q.cmd = "CRC" -> 4 [] q.cmd = "BOOT" -> 5

InSequence(todo) ==
  \A i, j \in 1..Len(todo) : i < j =>
    Rank(todo[i]) <= Rank(todo[j]) /\ (Rank(todo[i]) > 2 => Rank(todo[i]) < Rank(todo[j]))

-----------------------------------------------------------------------------
(* Arithmetic *)

\* A multiple of the block size.
LEMMA Multiple ==
  ASSUME NEW k \in Nat
  PROVE  (BlockSize * k) \in Nat /\ (BlockSize * k) % BlockSize = 0
BY CoreAssumption, Z3 DEF CoreAssumption

\* And the other way round.
LEMMA Quotient ==
  ASSUME NEW a \in Nat, NEW b \in Nat \ {0}
  PROVE  \E q \in Nat : q = a \div b /\ b * q <= a /\ a < b * q + b /\ (a % b = 0 => a = b * q)
<1>1. a \div b \in Nat /\ a = b * (a \div b) + (a % b) /\ (a % b) \in 0..b - 1
  BY Z3
<1> QED BY <1>1, Z3

\* CeilDiv rounds up.
LEMMA RoundsUp ==
  ASSUME NEW a \in Nat \ {0}, NEW b \in Nat \ {0}
  PROVE  CeilDiv(a, b) \in Nat \ {0} /\ a <= b * CeilDiv(a, b) /\ b * CeilDiv(a, b) < a + b
<1>1. a + b - 1 \in Nat
  OBVIOUS
<1>2. PICK q \in Nat : q = (a + b - 1) \div b /\ b * q <= a + b - 1 /\ a + b - 1 < b * q + b
  BY <1>1, Quotient
<1>3. q # 0
  BY <1>2, Z3
<1> QED BY <1>2, <1>3, Z3 DEF CeilDiv

\* A product is monotonic.
LEMMA Times ==
  ASSUME NEW a \in Nat, NEW b \in Nat, NEW c \in Nat, a <= b
  PROVE  c * a \in Nat /\ c * b \in Nat /\ c * a <= c * b
BY Z3

\* The pieces cover the whole, and each is within it and not empty.
LEMMA PieceFacts ==
  ASSUME NEW n \in Nat \ {0}, NEW size \in Nat \ {0}
  PROVE  /\ CeilDiv(n, size) \in Nat \ {0}
         /\ DOMAIN Pieces(n, size) = 1..CeilDiv(n, size)
         /\ \A i \in 1..CeilDiv(n, size) :
              /\ Pieces(n, size)[i].at = size * (i - 1) /\ Pieces(n, size)[i].at \in Nat
              /\ Pieces(n, size)[i].n = Least(size, n - size * (i - 1))
              /\ Pieces(n, size)[i].n \in 1..size
              /\ Pieces(n, size)[i].at + Pieces(n, size)[i].n <= n
         /\ \A w \in 1..n : \E i \in 1..CeilDiv(n, size) :
              w \in Pieces(n, size)[i].at + 1..Pieces(n, size)[i].at + Pieces(n, size)[i].n
<1> DEFINE c == CeilDiv(n, size)
<1>1. c \in Nat \ {0} /\ n <= size * c /\ size * c < n + size
  BY RoundsUp
<1>2. DOMAIN Pieces(n, size) = 1..c
      /\ \A i \in 1..c : Pieces(n, size)[i] = [at |-> (i - 1) * size, n |-> Least(size, n - (i - 1) * size)]
  BY DEF Pieces
<1> HIDE DEF c
<1>3. ASSUME NEW i \in 1..c
      PROVE  /\ Pieces(n, size)[i].at = size * (i - 1) /\ Pieces(n, size)[i].at \in Nat
             /\ Pieces(n, size)[i].n = Least(size, n - size * (i - 1))
             /\ Pieces(n, size)[i].n \in 1..size
             /\ Pieces(n, size)[i].at + Pieces(n, size)[i].n <= n
  <2>1. i \in Nat /\ i - 1 \in Nat
    BY <1>1
  <2>2. PICK at \in Nat : at = size * (i - 1) /\ at = (i - 1) * size
    BY <2>1, Z3
  <2>3. size * i <= size * c /\ size * i \in Nat /\ size * c \in Nat
    BY <1>1, <2>1, Times
  <2>4. size * i = at + size
    BY <2>1, <2>2, Z3
  <2>5. at < n
    BY <1>1, <2>3, <2>4
  <2>6. Least(size, n - at) \in 1..size /\ at + Least(size, n - at) <= n
    BY <2>5 DEF Least
  <2> QED BY <1>2, <2>2, <2>6
<1>4. ASSUME NEW w \in 1..n
      PROVE  \E i \in 1..c : w \in Pieces(n, size)[i].at + 1..Pieces(n, size)[i].at + Pieces(n, size)[i].n
  <2>1. w - 1 \in Nat /\ w \in Nat
    OBVIOUS
  <2>2. PICK q \in Nat : size * q <= w - 1 /\ w - 1 < size * q + size
    BY <2>1, Quotient
  <2>3. q + 1 \in 1..c
    <3>1. ASSUME c <= q PROVE FALSE
      <4>1. size * c <= size * q /\ size * c \in Nat /\ size * q \in Nat
        BY <1>1, <3>1, Times
      <4> QED BY <1>1, <2>2, <4>1
    <3> QED BY <1>1, <3>1
  <2>4. PICK at \in Nat : at = size * q /\ at = size * ((q + 1) - 1)
    BY Z3
  <2>5. Pieces(n, size)[q + 1].at = at /\ Pieces(n, size)[q + 1].n = Least(size, n - at)
    BY <1>3, <2>3, <2>4
  <2>6. w \in at + 1..at + Least(size, n - at)
    BY <2>1, <2>2, <2>4 DEF Least
  <2> QED BY <2>3, <2>5, <2>6
<1> QED BY <1>1, <1>2, <1>3, <1>4 DEF c
-----------------------------------------------------------------------------
(* The requests that a flow is made of *)

\* Requests of each kind that fit.
LEMMA FittingRequests ==
  /\ HelloReq \in Fitting
  /\ \A slot \in Slots, at \in Nat, n \in Nat \ {0} :
       at % BlockSize = 0 /\ n % BlockSize = 0 =>
         [cmd |-> "ERASE", slot |-> slot, at |-> at, n |-> n] \in Fitting
  /\ \A slot \in Slots, at \in Nat, data \in Chunk :
       [cmd |-> "WRITE", slot |-> slot, at |-> at, data |-> data] \in Fitting
  /\ \A build \in Seq(Word) : Len(build) \in 1..SlotWords => CommitReq(build) \in Fitting
  /\ \A slot \in Slots, build \in Seq(Word) :
       Len(build) \in 1..SlotWords => CrcReq(slot, build) \in Fitting
  /\ \A stay \in BOOLEAN : BootReq(stay) \in Fitting
<1>1. HelloReq \in Fitting
  BY DEF HelloReq, Fitting, Fits, HostRequests
<1>2. ASSUME NEW slot \in Slots, NEW at \in Nat, NEW n \in Nat \ {0}, at % BlockSize = 0, n % BlockSize = 0
      PROVE  [cmd |-> "ERASE", slot |-> slot, at |-> at, n |-> n] \in Fitting
  BY <1>2 DEF Fitting, Fits, HostRequests
<1>3. ASSUME NEW slot \in Slots, NEW at \in Nat, NEW data \in Chunk
      PROVE  [cmd |-> "WRITE", slot |-> slot, at |-> at, data |-> data] \in Fitting
  <2>1. data \in Seq(Word) \ {<<>>}
    BY ChunkType
  <2> QED BY <2>1 DEF Fitting, Fits, HostRequests
<1>4. ASSUME NEW build \in Seq(Word), Len(build) \in 1..SlotWords
      PROVE  CommitReq(build) \in Fitting
  <2>1. build \in [1..Len(build) -> Word] /\ Len(build) \in Nat \ {0}
    BY <1>4, DecisionAssumption DEF DecisionAssumption
  <2> QED BY <1>4, <2>1 DEF CommitReq, Fitting, Fits, HostRequests
<1>5. ASSUME NEW slot \in Slots, NEW build \in Seq(Word), Len(build) \in 1..SlotWords
      PROVE  CrcReq(slot, build) \in Fitting
  BY <1>5 DEF CrcReq, Fitting, Fits, HostRequests
<1>6. ASSUME NEW stay \in BOOLEAN PROVE BootReq(stay) \in Fitting
  BY DEF BootReq, Fitting, Fits, HostRequests
<1> QED BY <1>1, <1>2, <1>3, <1>4, <1>5, <1>6

\* erase_region asks for whole blocks.
LEMMA EraseFits ==
  ASSUME NEW info \in Infos, NEW n \in Nat \ {0}, n % BlockSize = 0
  PROVE  /\ EraseReqs(info, n) \in Seq(Fitting) /\ Len(EraseReqs(info, n)) > 0
         /\ \A i \in 1..Len(EraseReqs(info, n)) : EraseReqs(info, n)[i].cmd = "ERASE"
<1>1. /\ info.slot \in Slots /\ info.block = BlockSize
      /\ BlockSize \in Nat \ {0} /\ EraseChunk \in Nat \ {0}
  BY CoreAssumption, ClientAssumption DEF CoreAssumption, ClientAssumption, Infos
<1>2. PICK k \in Nat \ {0} : k = IF BlockSize < EraseChunk THEN EraseChunk \div BlockSize ELSE 1
  <2>1. PICK q \in Nat : q = EraseChunk \div BlockSize /\ EraseChunk < BlockSize * q + BlockSize
    BY <1>1, Quotient
  <2>2. BlockSize < EraseChunk => q # 0
    BY <1>1, <2>1, Z3
  <2> QED BY <2>1, <2>2
<1>3. PICK size \in Nat : size = BlockSize * k /\ size # 0
  BY <1>1, Z3
<1> DEFINE c == CeilDiv(n, size)
           P == Pieces(n, size)
           es == EraseReqs(info, n)
<1>4. /\ c \in Nat \ {0} /\ DOMAIN P = 1..c
      /\ \A i \in 1..c : /\ P[i].at = size * (i - 1) /\ P[i].at \in Nat
                         /\ P[i].n = Least(size, n - size * (i - 1)) /\ P[i].n \in 1..size
                         /\ P[i].at + P[i].n <= n
  <2>1. size \in Nat \ {0}
    BY <1>3
  <2>2. c \in Nat \ {0} /\ DOMAIN P = 1..c
    BY <2>1, PieceFacts
  <2>3. \A i \in 1..c : P[i].at = size * (i - 1) /\ P[i].n = Least(size, n - size * (i - 1))
    BY <2>1, PieceFacts
  <2>4. \A i \in 1..c : P[i].at \in Nat /\ P[i].n \in 1..size /\ P[i].at + P[i].n <= n
    BY <2>1, PieceFacts
  <2> QED BY <2>2, <2>3, <2>4
<1>5. es = [i \in 1..c |-> [cmd |-> "ERASE", slot |-> info.slot, at |-> P[i].at, n |-> P[i].n]]
  BY <1>1, <1>2, <1>3, <1>4 DEF EraseReqs
<1> HIDE DEF c, P, es
<1>6. ASSUME NEW i \in 1..c
      PROVE  P[i].at % BlockSize = 0 /\ P[i].n % BlockSize = 0 /\ P[i].n \in Nat \ {0}
  <2>1. PICK j \in Nat : j = k * (i - 1)
    <3>1. i - 1 \in Nat
      BY <1>4
    <3> QED BY <1>2, <3>1, Z3
  <2>2. i - 1 \in Nat /\ k \in Nat
    BY <1>2, <1>4
  <2>3. size * (i - 1) = BlockSize * j
    BY <1>1, <1>3, <2>1, <2>2, Z3
  <2>4. PICK m \in Nat : n = BlockSize * m
    BY <1>1, Quotient
  <2>a. P[i].at = size * (i - 1) /\ P[i].at \in Nat /\ P[i].n \in Nat \ {0} /\ P[i].at + P[i].n <= n
    BY SMTT(60), <1>3, <1>4
  <2>5. P[i].at = BlockSize * j /\ P[i].at < n
    BY <2>3, <2>a
  <2>6. j < m
    <3>1. ASSUME m <= j PROVE FALSE
      <4>1. BlockSize * m <= BlockSize * j
        BY <1>1, <3>1, Times
      <4>2. n <= P[i].at
        BY <2>4, <2>5, <4>1
      <4> QED BY <2>5, <2>a, <4>2
    <3> QED BY <3>1
  <2>7. m - j \in Nat /\ n - BlockSize * j = BlockSize * (m - j)
    BY <1>1, <2>4, <2>6, Z3
  <2>8. P[i].n = BlockSize * k \/ P[i].n = BlockSize * (m - j)
    BY <1>3, <1>4, <2>3, <2>7 DEF Least
  <2>9. P[i].at % BlockSize = 0
    BY <2>5, Multiple
  <2>b. P[i].n % BlockSize = 0
    BY <2>2, <2>7, <2>8, Multiple
  <2> QED BY <2>9, <2>a, <2>b
<1>7. \A i \in 1..c : es[i] \in Fitting /\ es[i].cmd = "ERASE"
  BY <1>1, <1>4, <1>5, <1>6, FittingRequests
<1>8. es \in Seq(Fitting) /\ Len(es) = c
  BY <1>4, <1>5, <1>7
<1> QED BY <1>4, <1>7, <1>8 DEF es

\* A WRITE that carries its part of the build.
PartOf(q, build, slot) ==
  /\ q.slot = slot /\ q.at + Len(q.data) <= Len(build)
  /\ \A j \in 1..Len(q.data) : q.data[j] = build[q.at + j]

\* execute_flash's loop sends every word of the build in chunks that fit.
LEMMA WriteFits ==
  ASSUME NEW info \in Infos, NEW build \in Seq(Word), Len(build) \in 1..SlotWords
  PROVE  /\ WriteReqs(info, build) \in Seq(Fitting)
         /\ \A i \in 1..Len(WriteReqs(info, build)) :
              /\ WriteReqs(info, build)[i].cmd = "WRITE"
              /\ PartOf(WriteReqs(info, build)[i], build, info.slot)
         /\ \A w \in 1..Len(build) : \E i \in 1..Len(WriteReqs(info, build)) :
              LET q == WriteReqs(info, build)[i] IN w \in q.at + 1..q.at + Len(q.data)
<1>1. /\ info.slot \in Slots /\ info.chunk = MaxChunk
      /\ MaxChunk \in Nat \ {0} /\ Len(build) \in Nat \ {0}
  BY CoreAssumption, DecisionAssumption DEF CoreAssumption, DecisionAssumption, Infos
<1> DEFINE c == CeilDiv(Len(build), MaxChunk)
           P == Pieces(Len(build), MaxChunk)
           ws == WriteReqs(info, build)
           part(i) == SubSeq(build, P[i].at + 1, P[i].at + P[i].n)
<1>2. /\ c \in Nat \ {0} /\ DOMAIN P = 1..c
      /\ \A i \in 1..c : P[i].at \in Nat /\ P[i].n \in 1..MaxChunk /\ P[i].at + P[i].n <= Len(build)
      /\ \A w \in 1..Len(build) : \E i \in 1..c : w \in P[i].at + 1..P[i].at + P[i].n
  BY <1>1, PieceFacts
<1>3. ws = [i \in 1..c |-> [cmd |-> "WRITE", slot |-> info.slot, at |-> P[i].at, data |-> part(i)]]
  BY <1>1, <1>2 DEF WriteReqs
<1> HIDE DEF c, P, ws
<1>4. ASSUME NEW i \in 1..c
      PROVE  /\ part(i) \in Chunk /\ Len(part(i)) = P[i].n
             /\ \A j \in 1..P[i].n : part(i)[j] = build[P[i].at + j]
  <2> DEFINE at == P[i].at
             n == P[i].n
  <2>1. at \in Nat /\ n \in 1..MaxChunk /\ n \in Nat /\ at + n <= Len(build)
    BY <1>1, <1>2
  <2> HIDE DEF at, n
  <2>2. \A j \in at + 1..at + n : build[j] \in Word
    BY <1>1, <2>1
  <2>3. at + 1 \in Int /\ at + n \in Int /\ (at + n) - (at + 1) + 1 = n /\ at + 1 <= at + n
    BY <1>1, <2>1
  <2>4. /\ SubSeq(build, at + 1, at + n) \in Seq(Word)
        /\ Len(SubSeq(build, at + 1, at + n)) = n
        /\ \A j \in 1..n : SubSeq(build, at + 1, at + n)[j] = build[(at + 1) + j - 1]
    BY <2>2, <2>3, SubSeqProperties
  <2>5. \A j \in 1..n : (at + 1) + j - 1 = at + j
    BY <2>1
  <2>6. SubSeq(build, at + 1, at + n) \in [1..n -> Word]
    BY <2>4, LenProperties
  <2>7. SubSeq(build, at + 1, at + n) \in Chunk
    BY <2>1, <2>6 DEF Chunk
  <2> QED BY <2>4, <2>5, <2>7 DEF at, n
<1> HIDE DEF part
<1>5. \A i \in 1..c : /\ ws[i] \in Fitting /\ ws[i].cmd = "WRITE" /\ ws[i].at = P[i].at
                      /\ ws[i].slot = info.slot /\ ws[i].data = part(i)
  BY <1>1, <1>2, <1>3, <1>4, FittingRequests
<1>6. ws \in Seq(Fitting) /\ Len(ws) = c
  BY <1>2, <1>3, <1>5
<1>7. \A i \in 1..c : PartOf(ws[i], build, info.slot)
  BY ZenonT(60), <1>2, <1>4, <1>5 DEF PartOf
<1>8. \A w \in 1..Len(build) : \E i \in 1..c : w \in ws[i].at + 1..ws[i].at + Len(ws[i].data)
  BY <1>2, <1>4, <1>5
<1> QED BY <1>5, <1>6, <1>7, <1>8 DEF ws
-----------------------------------------------------------------------------
(* The flows *)

Members(todo) == {todo[i] : i \in 1..Len(todo)}

\* Ranks are numbers.
LEMMA Ranks ==
  ASSUME NEW q \in Fitting
  PROVE  /\ Rank(q) \in 0..5
         /\ q.cmd \in {"HELLO", "ERASE", "WRITE", "COMMIT", "CRC", "BOOT"}
         /\ q.cmd = "HELLO" <=> Rank(q) = 0
         /\ q.cmd = "ERASE" <=> Rank(q) = 1
         /\ q.cmd = "WRITE" <=> Rank(q) = 2
         /\ q.cmd = "COMMIT" <=> Rank(q) = 3
         /\ q.cmd = "CRC" <=> Rank(q) = 4
         /\ q.cmd = "BOOT" <=> Rank(q) = 5
<1>1. q.cmd \in {"HELLO", "ERASE", "WRITE", "COMMIT", "CRC", "BOOT"}
  BY DEF Fitting, HostRequests, HelloReq
<1> QED BY <1>1 DEF Rank

\* One list of requests after another.
LEMMA Joined ==
  ASSUME NEW a \in Seq(Fitting), NEW b \in Seq(Fitting)
  PROVE  /\ a \o b \in Seq(Fitting) /\ Members(a \o b) = Members(a) \union Members(b)
         /\ InSequence(a) /\ InSequence(b)
            /\ (\A p \in Members(a), q \in Members(b) : Rank(p) < Rank(q)) => InSequence(a \o b)
<1> DEFINE t == a \o b
<1>1. t \in Seq(Fitting) /\ Len(t) = Len(a) + Len(b) /\ Len(a) \in Nat /\ Len(b) \in Nat
      /\ \A i \in 1..Len(t) : t[i] = IF i <= Len(a) THEN a[i] ELSE b[i - Len(a)]
  BY ConcatProperties
<1> HIDE DEF t
<1>2. Members(t) = Members(a) \union Members(b)
  <2>1. ASSUME NEW i \in 1..Len(t) PROVE t[i] \in Members(a) \union Members(b)
    BY <1>1 DEF Members
  <2>2. ASSUME NEW i \in 1..Len(a) PROVE a[i] \in Members(t)
    <3>1. i \in 1..Len(t) /\ t[i] = a[i]
      BY <1>1
    <3> QED BY <3>1 DEF Members
  <2>3. ASSUME NEW i \in 1..Len(b) PROVE b[i] \in Members(t)
    <3>1. i + Len(a) \in 1..Len(t) /\ ~(i + Len(a) <= Len(a)) /\ (i + Len(a)) - Len(a) = i
      BY <1>1
    <3>2. t[i + Len(a)] = b[i]
      BY <1>1, <3>1
    <3> QED BY <3>1, <3>2 DEF Members
  <2> QED BY <2>1, <2>2, <2>3 DEF Members
<1>3. ASSUME InSequence(a), InSequence(b), \A p \in Members(a), q \in Members(b) : Rank(p) < Rank(q),
             NEW i \in 1..Len(t), NEW j \in 1..Len(t), i < j
      PROVE  Rank(t[i]) <= Rank(t[j]) /\ (Rank(t[i]) > 2 => Rank(t[i]) < Rank(t[j]))
  <2>1. CASE j <= Len(a)
    BY <1>1, <1>3, <2>1 DEF InSequence
  <2>2. CASE i > Len(a)
    <3>1. i - Len(a) \in 1..Len(b) /\ j - Len(a) \in 1..Len(b) /\ i - Len(a) < j - Len(a)
      BY <1>1, <1>3, <2>2
    <3> QED BY <1>1, <1>3, <2>2, <3>1 DEF InSequence
  <2>3. CASE i <= Len(a) /\ j > Len(a)
    <3>1. t[i] \in Members(a) /\ t[j] \in Members(b) /\ t[i] \in Fitting /\ t[j] \in Fitting
      BY <1>1, <2>3 DEF Members
    <3> QED BY <1>3, <3>1, Ranks
  <2> QED BY <1>1, <2>1, <2>2, <2>3
<1> QED BY <1>1, <1>2, <1>3 DEF InSequence, t

\* A list of one request, and one of erases or writes only.
LEMMA Runs ==
  /\ \A q \in Fitting : <<q>> \in Seq(Fitting) /\ Members(<<q>>) = {q} /\ InSequence(<<q>>)
  /\ <<>> \in Seq(Fitting) /\ Members(<<>>) = {} /\ InSequence(<<>>)
  /\ \A a \in Seq(Fitting), k \in 0..2 :
       (\A i \in 1..Len(a) : Rank(a[i]) = k) => InSequence(a) /\ \A q \in Members(a) : Rank(q) = k
BY DEF Members, InSequence

\* The flow has this request's build in its WRITEs and its COMMIT.
Delivers(todo, build, slot) ==
  \A q \in Members(todo) : /\ q.cmd = "WRITE" => PartOf(q, build, slot)
                           /\ q.cmd = "COMMIT" => q = CommitReq(build)

WriteOf(todo, w) == \E q \in Members(todo) : q.cmd = "WRITE" /\ w \in q.at + 1..q.at + Len(q.data)

Flashes(flow) == flow \in {"flash", "flash_no_boot", "flash_park"}

\* plan_flash and execute_flash.
LEMMA FlashPlanFits ==
  ASSUME NEW info \in Infos, NEW build \in Seq(Word), Len(build) \in 1..SlotWords
  PROVE  /\ FlashPlan(info, build) \in Seq(Fitting) /\ InSequence(FlashPlan(info, build))
         /\ Delivers(FlashPlan(info, build), build, info.slot)
         /\ \A q \in Members(FlashPlan(info, build)) : Rank(q) \in 1..4
         /\ \A w \in 1..Len(build) : WriteOf(FlashPlan(info, build), w)
<1> DEFINE n == CeilDiv(Len(build), info.block) * info.block
           es == EraseReqs(info, n)
           ws == WriteReqs(info, build)
           cs == <<CommitReq(build)>>
           rs == IF info.live THEN <<CrcReq(info.slot, build)>> ELSE <<>>
<1>1. n \in Nat \ {0} /\ n % BlockSize = 0
  <2>1. PICK c \in Nat \ {0} : c = CeilDiv(Len(build), BlockSize)
    <3>1. Len(build) \in Nat \ {0} /\ BlockSize \in Nat \ {0}
      BY CoreAssumption, DecisionAssumption DEF CoreAssumption, DecisionAssumption
    <3> QED BY <3>1, RoundsUp
  <2>2. n = BlockSize * c
    BY <2>1, CoreAssumption, Z3 DEF CoreAssumption, Infos
  <2>3. BlockSize * c # 0
    BY <2>1, CoreAssumption, Z3 DEF CoreAssumption
  <2> QED BY <2>1, <2>2, <2>3, Multiple
<1>2. info.slot \in Slots /\ info.live \in BOOLEAN
  BY DEF Infos
<1>3. es \in Seq(Fitting) /\ InSequence(es) /\ \A q \in Members(es) : Rank(q) = 1
  <2> HIDE DEF n
  <2>1. es \in Seq(Fitting) /\ \A i \in 1..Len(es) : es[i].cmd = "ERASE"
    BY <1>1, EraseFits
  <2> HIDE DEF es
  <2>2. \A i \in 1..Len(es) : es[i] \in Fitting
    BY <2>1
  <2>3. \A i \in 1..Len(es) : Rank(es[i]) = 1
    BY <2>1, <2>2, Ranks
  <2> QED BY <2>1, <2>3, Runs
<1>4. /\ ws \in Seq(Fitting) /\ InSequence(ws) /\ \A q \in Members(ws) : Rank(q) = 2
      /\ \A q \in Members(ws) : q.cmd = "WRITE" /\ PartOf(q, build, info.slot)
      /\ \A w \in 1..Len(build) : WriteOf(ws, w)
  <2>1. /\ ws \in Seq(Fitting)
        /\ \A i \in 1..Len(ws) : ws[i].cmd = "WRITE" /\ PartOf(ws[i], build, info.slot)
        /\ \A w \in 1..Len(build) : \E i \in 1..Len(ws) : w \in ws[i].at + 1..ws[i].at + Len(ws[i].data)
    BY WriteFits
  <2> HIDE DEF ws
  <2>2. \A i \in 1..Len(ws) : ws[i] \in Fitting
    BY <2>1
  <2>3. \A i \in 1..Len(ws) : Rank(ws[i]) = 2
    BY <2>1, <2>2, Ranks
  <2>4. \A q \in Members(ws) : q.cmd = "WRITE" /\ PartOf(q, build, info.slot)
    BY <2>1 DEF Members
  <2>5. \A w \in 1..Len(build) : WriteOf(ws, w)
    BY <2>1 DEF Members, WriteOf
  <2> QED BY <2>1, <2>3, <2>4, <2>5, Runs
<1>5. /\ cs \in Seq(Fitting) /\ InSequence(cs) /\ Members(cs) = {CommitReq(build)}
      /\ \A q \in Members(cs) : Rank(q) = 3
  <2>1. CommitReq(build) \in Fitting /\ CommitReq(build).cmd = "COMMIT"
    BY FittingRequests DEF CommitReq
  <2> QED BY <2>1, Runs, Ranks
<1>6. rs \in Seq(Fitting) /\ InSequence(rs) /\ \A q \in Members(rs) : Rank(q) = 4
  <2>1. CrcReq(info.slot, build) \in Fitting /\ CrcReq(info.slot, build).cmd = "CRC"
    BY <1>2, FittingRequests DEF CrcReq
  <2>2. <<CrcReq(info.slot, build)>> \in Seq(Fitting) /\ InSequence(<<CrcReq(info.slot, build)>>)
        /\ \A q \in Members(<<CrcReq(info.slot, build)>>) : Rank(q) = 4
    BY <2>1, Runs, Ranks
  <2> QED BY <2>2, Runs
<1>7. FlashPlan(info, build) = ((es \o ws) \o cs) \o rs
  BY DEF FlashPlan
<1> HIDE DEF es, ws, cs, rs, n
<1>8. es \o ws \in Seq(Fitting) /\ InSequence(es \o ws)
      /\ Members(es \o ws) = Members(es) \union Members(ws)
  BY <1>3, <1>4, Joined
<1>9. (es \o ws) \o cs \in Seq(Fitting) /\ InSequence((es \o ws) \o cs)
      /\ Members((es \o ws) \o cs) = Members(es \o ws) \union Members(cs)
  <2>1. \A p \in Members(es \o ws), q \in Members(cs) : Rank(p) < Rank(q)
    BY <1>3, <1>4, <1>5, <1>8
  <2> QED BY <1>5, <1>8, <2>1, Joined
<1>10. FlashPlan(info, build) \in Seq(Fitting) /\ InSequence(FlashPlan(info, build))
       /\ Members(FlashPlan(info, build)) = Members((es \o ws) \o cs) \union Members(rs)
  <2>1. \A p \in Members((es \o ws) \o cs), q \in Members(rs) : Rank(p) < Rank(q)
    BY <1>3, <1>4, <1>5, <1>6, <1>8, <1>9
  <2> QED BY <1>6, <1>7, <1>9, <2>1, Joined
<1>11. Members(FlashPlan(info, build)) = Members(es) \union Members(ws) \union Members(cs) \union Members(rs)
  BY <1>8, <1>9, <1>10
<1>12. \A q \in Members(FlashPlan(info, build)) : q \in Fitting
  BY <1>10 DEF Members
<1>13. Delivers(FlashPlan(info, build), build, info.slot)
  BY <1>3, <1>4, <1>5, <1>6, <1>11, <1>12, Ranks DEF Delivers
<1>14. \A w \in 1..Len(build) : WriteOf(FlashPlan(info, build), w)
  BY <1>4, <1>11 DEF WriteOf
<1>15. \A q \in Members(FlashPlan(info, build)) : Rank(q) \in 1..4
  BY <1>3, <1>4, <1>5, <1>6, <1>11
<1> QED BY <1>10, <1>13, <1>14, <1>15
\* Every flow, as HELLO's answer yields it.
LEMMA PlanFits ==
  ASSUME NEW flow \in Flows, NEW version \in 1..MaxRuns, NEW info \in Infos,
         info.cap = 0 => ~NeedsWriteSlot(flow)
  PROVE  /\ Plan(flow, version, info) \in Seq(Fitting) /\ InSequence(Plan(flow, version, info))
         /\ \A q \in Members(Plan(flow, version, info)) : q.cmd # "HELLO"
         /\ Delivers(Plan(flow, version, info), Builds[version][info.slot], info.slot)
         /\ Flashes(flow) =>
              \A w \in 1..Len(Builds[version][info.slot]) : WriteOf(Plan(flow, version, info), w)
<1> DEFINE build == Builds[version][info.slot]
           p == Plan(flow, version, info)
           fp == FlashPlan(info, build)
<1>1. /\ info.slot \in Slots /\ 1 - info.slot \in Slots
      /\ build \in Seq(Word) /\ Len(build) \in 1..SlotWords
      /\ Builds[version][1 - info.slot] \in Seq(Word)
      /\ Len(Builds[version][1 - info.slot]) \in 1..SlotWords
  <2>1. info.slot \in Slots /\ 1 - info.slot \in Slots
    BY DEF Infos, Slots
  <2> QED BY <2>1, ClientAssumption DEF ClientAssumption
<1>2. /\ CommitReq(build) \in Fitting /\ CrcReq(1 - info.slot, Builds[version][1 - info.slot]) \in Fitting
      /\ \A stay \in BOOLEAN : BootReq(stay) \in Fitting
  BY <1>1, FittingRequests
<1>3. ASSUME NEW q \in Fitting, q.cmd \in {"COMMIT", "CRC", "BOOT"}, q.cmd = "COMMIT" => q = CommitReq(build)
      PROVE  /\ <<q>> \in Seq(Fitting) /\ InSequence(<<q>>)
             /\ \A r \in Members(<<q>>) : r.cmd # "HELLO"
             /\ Delivers(<<q>>, build, info.slot)
  BY <1>3, Runs DEF Delivers
<1>4. /\ fp \in Seq(Fitting) /\ InSequence(fp) /\ Delivers(fp, build, info.slot)
      /\ \A q \in Members(fp) : q \in Fitting /\ Rank(q) \in 1..4
      /\ \A q \in Members(fp) : q.cmd # "HELLO"
      /\ \A w \in 1..Len(build) : WriteOf(fp, w)
  <2>1. /\ fp \in Seq(Fitting) /\ InSequence(fp) /\ Delivers(fp, build, info.slot)
        /\ \A q \in Members(fp) : Rank(q) \in 1..4
        /\ \A w \in 1..Len(build) : WriteOf(fp, w)
    BY <1>1, FlashPlanFits
  <2> HIDE DEF fp
  <2>2. \A q \in Members(fp) : q \in Fitting
    BY <2>1 DEF Members
  <2> QED BY <2>1, <2>2, Ranks
<1>5. flow \in {"flash", "flash_no_boot", "flash_park", "bless", "erase", "verify", "boot", "stay", "probe"}
  BY ClientAssumption DEF ClientAssumption
<1>6. CASE flow = "flash_no_boot"
  BY <1>4, <1>6 DEF Plan
<1>7. ASSUME NEW stay \in BOOLEAN, p = fp \o <<BootReq(stay)>>
      PROVE  /\ p \in Seq(Fitting) /\ InSequence(p) /\ \A q \in Members(p) : q.cmd # "HELLO"
             /\ Delivers(p, build, info.slot) /\ \A w \in 1..Len(build) : WriteOf(p, w)
  <2> DEFINE b == <<BootReq(stay)>>
  <2>1. BootReq(stay) \in Fitting /\ BootReq(stay).cmd = "BOOT" /\ Rank(BootReq(stay)) = 5
    BY <1>2, Ranks DEF BootReq
  <2>2. b \in Seq(Fitting) /\ InSequence(b) /\ Members(b) = {BootReq(stay)}
    BY <2>1, Runs
  <2> HIDE DEF p, fp, b
  <2>3. \A q \in Members(fp), r \in Members(b) : Rank(q) < Rank(r)
    BY <1>4, <2>1, <2>2
  <2>4. p \in Seq(Fitting) /\ InSequence(p) /\ Members(p) = Members(fp) \union Members(b)
    BY <1>4, <1>7, <2>2, <2>3, Joined DEF b
  <2>5. \A q \in Members(p) : q.cmd # "HELLO"
    BY <1>4, <2>1, <2>2, <2>4
  <2>6. Delivers(p, build, info.slot)
    BY <1>4, <2>1, <2>2, <2>4 DEF Delivers
  <2>7. \A w \in 1..Len(build) : WriteOf(p, w)
    BY <1>4, <2>4 DEF WriteOf
  <2> QED BY <2>4, <2>5, <2>6, <2>7
<1>8. CASE flow = "flash"
  BY <1>7, <1>8 DEF Plan
<1>9. CASE flow = "flash_park"
  BY <1>7, <1>9 DEF Plan
<1>10. CASE flow = "bless"
  <2>1. p = <<CommitReq(build)>> /\ CommitReq(build).cmd = "COMMIT"
    BY <1>10 DEF Plan, CommitReq
  <2> QED BY <1>2, <1>3, <1>10, <2>1 DEF Flashes
<1>11. CASE flow = "verify"
  <2>1. p = <<CrcReq(1 - info.slot, Builds[version][1 - info.slot])>>
    BY <1>11 DEF Plan
  <2>2. CrcReq(1 - info.slot, Builds[version][1 - info.slot]).cmd = "CRC"
    BY DEF CrcReq
  <2> QED BY <1>2, <1>3, <1>11, <2>1, <2>2 DEF Flashes
<1>12. CASE flow \in {"boot", "stay"}
  <2>1. PICK stay \in BOOLEAN : p = <<BootReq(stay)>> /\ BootReq(stay).cmd = "BOOT"
    BY <1>12 DEF Plan, BootReq
  <2> QED BY <1>2, <1>3, <1>12, <2>1 DEF Flashes
<1>13. CASE flow = "probe"
  <2>1. p = <<>>
    BY <1>13 DEF Plan
  <2> QED BY <1>13, <2>1, Runs DEF Flashes, Delivers
<1>14. CASE flow = "erase"
  <2> DEFINE es == EraseReqs(info, info.cap)
  <2>1. p = es
    BY <1>14 DEF Plan
  <2>2. info.cap \in Nat \ {0} /\ info.cap % BlockSize = 0
    BY <1>14, DecisionAssumption, CoreAssumption DEF NeedsWriteSlot, Infos, DecisionAssumption, CoreAssumption
  <2>3. es \in Seq(Fitting) /\ \A i \in 1..Len(es) : es[i].cmd = "ERASE"
    BY <2>2, EraseFits
  <2> HIDE DEF es, p
  <2>4. \A i \in 1..Len(es) : es[i] \in Fitting
    BY <2>3
  <2>5. \A i \in 1..Len(es) : Rank(es[i]) = 1
    BY <2>3, <2>4, Ranks
  <2>6. InSequence(es)
    BY <2>3, <2>5, Runs
  <2>7. \A q \in Members(es) : q.cmd = "ERASE"
    BY <2>3 DEF Members
  <2> QED BY <1>14, <2>1, <2>3, <2>6, <2>7 DEF Flashes, Delivers, p
<1> QED BY <1>5, <1>6, <1>8, <1>9, <1>10, <1>11, <1>12, <1>13, <1>14
-----------------------------------------------------------------------------
(* What holds of the tool and of the frames in flight *)

Frames == [seq : 0..SeqMod - 1, body : Fitting \union {Garbled}]

Commands == {"FRAME_ERR", "HELLO", "ERASE", "WRITE", "COMMIT", "CRC", "BOOT"}
Statuses == {"OK", "E_CRC", "E_STATE", "E_ADDR", "E_NOT_ERASED", "E_VERIFY", "E_FLASH"}
Responses ==
  {f \in [cmd : Commands, seq : 0..SeqMod - 1, status : Statuses,
          value : Infos \union {0} \union Seq(Word)] :
     f.cmd = "HELLO" /\ f.status = "OK" => f.value \in Infos}

FramesOK ==
  /\ toDev \in Seq(Frames) /\ Len(toDev) <= LinkCap
  /\ toHost \in Seq(Responses) /\ Len(toHost) <= LinkCap
  /\ serving \in 0..SeqMod - 1

Hosts ==
  [flow : Flows \union {"none"}, version : 0..MaxRuns, slot : Slots \union {NoSlot},
   todo : Seq(Fitting), att : 0..MaxAttempts, seq : 0..SeqMod - 1, waiting : BOOLEAN,
   committed : BOOLEAN, runs : 0..MaxRuns,
   result : {"none", "running", "done", "refused", "exhausted", "no_response", "mismatch", "no_slot"}]

\* The requests left are the flow's, in its order, and the attempts within the
\* request's policy.
ToolOK(h) ==
  /\ h \in Hosts /\ h.version = h.runs
  /\ h.result = "running" =>
       /\ h.flow \in Flows /\ h.version \in 1..MaxRuns /\ h.todo # <<>>
       /\ h.att <= Attempts(Head(h.todo))
       /\ ~h.waiting => h.att < Attempts(Head(h.todo))
  /\ h.waiting => h.result = "running"
  /\ h.todo = <<>> => h.att = 0
  /\ InSequence(h.todo)
  /\ h.slot = NoSlot => h.todo \in {<<>>, <<HelloReq>>}

\* Once HELLO named the slot the flow delivers the build for it.
BuildOf(h) == Builds[h.version][h.slot]

DeliveryOK(h) ==
  h.slot # NoSlot =>
    /\ h.version \in 1..MaxRuns
    /\ \A q \in Members(h.todo) : q.cmd # "HELLO"
    /\ Delivers(h.todo, BuildOf(h), h.slot)
    /\ Flashes(h.flow) /\ (\E q \in Members(h.todo) : q.cmd = "ERASE") =>
         \A w \in 1..Len(BuildOf(h)) : WriteOf(h.todo, w)

PairInv == IInv /\ FramesOK /\ ToolOK(host) /\ DeliveryOK(host)

-----------------------------------------------------------------------------
(* The tool keeps it *)

\* BOOT is tried once, everything else MAX_ATTEMPTS times.
LEMMA AttemptsType == \A q : Attempts(q) \in 1..MaxAttempts
BY ClientAssumption DEF ClientAssumption, Attempts

\* What is left of a flow's requests is a flow's.
LEMMA TailKeeps ==
  ASSUME NEW todo \in Seq(Fitting), todo # <<>>
  PROVE  /\ Head(todo) \in Fitting /\ Tail(todo) \in Seq(Fitting)
         /\ Members(todo) = {Head(todo)} \union Members(Tail(todo))
         /\ InSequence(todo) =>
              /\ InSequence(Tail(todo))
              /\ \A q \in Members(Tail(todo)) :
                   /\ Rank(Head(todo)) <= Rank(q)
                   /\ Rank(Head(todo)) > 2 => Rank(Head(todo)) < Rank(q)
<1> DEFINE t == Tail(todo)
<1>1. /\ Head(todo) = todo[1] /\ todo[1] \in Fitting /\ t \in Seq(Fitting)
      /\ Len(t) = Len(todo) - 1 /\ Len(todo) \in Nat \ {0} /\ Len(t) \in Nat
      /\ \A i \in 1..Len(t) : t[i] = todo[i + 1]
  BY HeadTailProperties
<1> HIDE DEF t
<1>2. \A i \in 1..Len(t) : i + 1 \in 1..Len(todo) /\ 1 < i + 1 /\ 1 \in 1..Len(todo)
  BY <1>1
<1>3. \A i \in 1..Len(todo) : i = 1 \/ (i - 1 \in 1..Len(t) /\ (i - 1) + 1 = i)
  BY <1>1
<1>4. Members(todo) = {Head(todo)} \union Members(t)
  <2>1. \A i \in 1..Len(todo) : todo[i] \in {Head(todo)} \union Members(t)
    <3> TAKE i \in 1..Len(todo)
    <3>1. CASE i = 1
      BY <1>1, <3>1
    <3>2. CASE i - 1 \in 1..Len(t) /\ (i - 1) + 1 = i
      <4>1. todo[i] = t[i - 1]
        BY <1>1, <3>2
      <4> QED BY <3>2, <4>1 DEF Members
    <3> QED BY <1>3, <3>1, <3>2
  <2>2. \A i \in 1..Len(t) : t[i] \in Members(todo)
    BY <1>1, <1>2 DEF Members
  <2>3. Head(todo) \in Members(todo)
    BY <1>1 DEF Members
  <2> QED BY <2>1, <2>2, <2>3 DEF Members
<1>5. ASSUME InSequence(todo)
      PROVE  /\ InSequence(t)
             /\ \A i \in 1..Len(t) : /\ Rank(Head(todo)) <= Rank(t[i])
                                     /\ Rank(Head(todo)) > 2 => Rank(Head(todo)) < Rank(t[i])
  <2>1. InSequence(t)
    <3> SUFFICES ASSUME NEW i \in 1..Len(t), NEW j \in 1..Len(t), i < j
                 PROVE  Rank(t[i]) <= Rank(t[j]) /\ (Rank(t[i]) > 2 => Rank(t[i]) < Rank(t[j]))
      BY DEF InSequence
    <3>1. i + 1 \in 1..Len(todo) /\ j + 1 \in 1..Len(todo) /\ i + 1 < j + 1
      BY <1>1
    <3> QED BY <1>1, <1>5, <3>1 DEF InSequence
  <2> QED BY <1>1, <1>2, <1>5, <2>1 DEF InSequence
<1> QED BY <1>1, <1>4, <1>5 DEF Members, t

\* An attempt failed: another is made, or the flow ends.
LEMMA RetryKeeps ==
  ASSUME ToolOK(host), DeliveryOK(host), Waiting, Retry
  PROVE  ToolOK(host') /\ DeliveryOK(host')
<1> DEFINE result == IF host.att < Attempts(Asked) THEN host.result
                     ELSE IF Asked.cmd = "BOOT" THEN "no_response" ELSE "exhausted"
           h == [host EXCEPT !.waiting = FALSE, !.result = result]
<1>1. host \in Hosts /\ host.result = "running" /\ host' = h
  BY DEF ToolOK, Waiting, Running, Retry, Hosts
<1>2. result \in {"running", "no_response", "exhausted"} /\ (result = "running" => host.att < Attempts(Asked))
  BY <1>1
<1> HIDE DEF result
<1>3. h \in Hosts
  BY <1>1, <1>2 DEF Hosts
<1>4. /\ h.flow = host.flow /\ h.version = host.version /\ h.slot = host.slot /\ h.todo = host.todo
      /\ h.att = host.att /\ h.waiting = FALSE /\ h.runs = host.runs /\ h.result = result
  BY <1>1 DEF Hosts
<1> HIDE DEF h
<1>5. ToolOK(h)
  BY <1>1, <1>2, <1>3, <1>4 DEF ToolOK, Asked
<1>6. DeliveryOK(h)
  BY <1>4 DEF DeliveryOK, BuildOf
<1> QED BY <1>1, <1>5, <1>6
\* A flow ends where it stands.
LEMMA EndKeeps ==
  ASSUME ToolOK(host), DeliveryOK(host), NEW r \in {"refused", "mismatch", "no_slot"},
         host' = [host EXCEPT !.waiting = FALSE, !.result = r]
  PROVE  ToolOK(host') /\ DeliveryOK(host')
<1> DEFINE h == [host EXCEPT !.waiting = FALSE, !.result = r]
<1>1. host \in Hosts
  BY DEF ToolOK
<1>2. h \in Hosts
  BY <1>1 DEF Hosts
<1>3. /\ h.flow = host.flow /\ h.version = host.version /\ h.slot = host.slot /\ h.todo = host.todo
      /\ h.att = host.att /\ h.waiting = FALSE /\ h.runs = host.runs /\ h.result # "running"
  BY <1>1 DEF Hosts
<1>4. host' = h
  OBVIOUS
<1> HIDE DEF h
<1> QED BY <1>2, <1>3, <1>4 DEF ToolOK, DeliveryOK, BuildOf

\* A request was answered: the rest of the flow is left.
LEMMA AdvanceKeeps ==
  ASSUME ToolOK(host), DeliveryOK(host), Running, Asked.cmd # "HELLO", NEW c \in BOOLEAN,
         host' = [Advance(Tail(host.todo)) EXCEPT !.committed = c]
  PROVE  ToolOK(host') /\ DeliveryOK(host')
<1> DEFINE left == Tail(host.todo)
           result == IF left = <<>> THEN "done" ELSE "running"
           h == [host EXCEPT !.waiting = FALSE, !.att = 0, !.todo = left, !.result = result,
                             !.committed = c]
<1>1. /\ host \in Hosts /\ host.result = "running" /\ host.todo \in Seq(Fitting) /\ host.todo # <<>>
      /\ InSequence(host.todo)
  BY DEF ToolOK, Running, Hosts
<1>2. host' = h
  BY <1>1 DEF Advance, Hosts
<1>3. /\ Asked \in Fitting /\ left \in Seq(Fitting) /\ InSequence(left)
      /\ Members(host.todo) = {Asked} \union Members(left)
      /\ \A q \in Members(left) : Rank(Asked) <= Rank(q) /\ q \in Fitting
  <2>1. /\ Asked \in Fitting /\ left \in Seq(Fitting) /\ InSequence(left)
        /\ Members(host.todo) = {Asked} \union Members(left)
    BY <1>1, TailKeeps DEF Asked
  <2>2. \A q \in Members(left) : Rank(Asked) <= Rank(q)
    BY <1>1, TailKeeps DEF Asked
  <2> HIDE DEF left
  <2>3. \A q \in Members(left) : q \in Fitting
    BY <2>1 DEF Members
  <2> QED BY <2>1, <2>2, <2>3
<1>4. host.slot # NoSlot
  BY <1>1 DEF ToolOK, HelloReq, Asked
<1>5. 0 \in 0..MaxAttempts
  BY ClientAssumption DEF ClientAssumption
<1>6. result \in {"done", "running"} /\ (result = "running" => left # <<>>)
  OBVIOUS
<1> HIDE DEF left, result
<1>7. h \in Hosts
  BY <1>1, <1>3, <1>5, <1>6 DEF Hosts
<1>8. /\ h.flow = host.flow /\ h.version = host.version /\ h.slot = host.slot /\ h.todo = left
      /\ h.att = 0 /\ h.waiting = FALSE /\ h.runs = host.runs /\ h.result = result
  BY <1>1 DEF Hosts
<1> HIDE DEF h
<1>9. ToolOK(h)
  <2>1. 0 < Attempts(Head(left)) /\ 0 <= Attempts(Head(left))
    BY AttemptsType, ClientAssumption DEF ClientAssumption
  <2> QED BY <1>1, <1>3, <1>4, <1>6, <1>7, <1>8, <2>1 DEF ToolOK
<1>10. DeliveryOK(h)
  <2>1. /\ host.version \in 1..MaxRuns /\ \A q \in Members(host.todo) : q.cmd # "HELLO"
        /\ Delivers(host.todo, BuildOf(host), host.slot)
        /\ Flashes(host.flow) /\ (\E q \in Members(host.todo) : q.cmd = "ERASE") =>
             \A w \in 1..Len(BuildOf(host)) : WriteOf(host.todo, w)
    BY <1>4 DEF DeliveryOK
  <2>2. BuildOf(h) = BuildOf(host)
    BY <1>8 DEF BuildOf
  <2>3. Delivers(left, BuildOf(host), host.slot)
    BY <1>3, <2>1 DEF Delivers
  <2>4. ASSUME NEW q \in Members(left), q.cmd = "ERASE" PROVE Asked.cmd = "ERASE"
    <3>1. Rank(q) = 1 /\ Rank(Asked) <= 1 /\ Rank(Asked) \in 0..5 /\ Rank(Asked) # 0
      BY <1>3, <2>4, Ranks
    <3>2. Rank(Asked) = 1
      BY <3>1
    <3> QED BY <1>3, <3>2, Ranks
  <2>5. ASSUME Asked.cmd = "ERASE", NEW w, WriteOf(host.todo, w) PROVE WriteOf(left, w)
    BY <1>3, <2>5 DEF WriteOf
  <2> QED BY <1>3, <1>8, <2>1, <2>2, <2>3, <2>4, <2>5 DEF DeliveryOK
<1> QED BY <1>2, <1>9, <1>10

\* HELLO was answered: the flow is known.
LEMMA OpenKeeps ==
  ASSUME ToolOK(host), Running, NEW info \in Infos, info.cap = 0 => ~NeedsWriteSlot(host.flow),
         host' = [Advance(Plan(host.flow, host.version, info)) EXCEPT !.slot = info.slot]
  PROVE  ToolOK(host') /\ DeliveryOK(host')
<1> DEFINE left == Plan(host.flow, host.version, info)
           result == IF left = <<>> THEN "done" ELSE "running"
           h == [host EXCEPT !.waiting = FALSE, !.att = 0, !.todo = left, !.result = result,
                             !.slot = info.slot]
<1>1. /\ host \in Hosts /\ host.result = "running" /\ host.flow \in Flows /\ host.version \in 1..MaxRuns
      /\ host.version = host.runs
  BY DEF ToolOK, Running
<1>2. host' = h
  BY <1>1 DEF Advance, Hosts
<1>3. /\ left \in Seq(Fitting) /\ InSequence(left) /\ \A q \in Members(left) : q.cmd # "HELLO"
      /\ Delivers(left, Builds[host.version][info.slot], info.slot)
      /\ Flashes(host.flow) => \A w \in 1..Len(Builds[host.version][info.slot]) : WriteOf(left, w)
  BY <1>1, PlanFits
<1>4. info.slot \in Slots /\ info.slot # NoSlot /\ 0 \in 0..MaxAttempts
  BY ClientAssumption DEF ClientAssumption, Infos, Slots, NoSlot
<1>5. result \in {"done", "running"} /\ (result = "running" => left # <<>>)
  OBVIOUS
<1> HIDE DEF left, result
<1>6. h \in Hosts
  BY <1>1, <1>3, <1>4, <1>5 DEF Hosts
<1>7. /\ h.flow = host.flow /\ h.version = host.version /\ h.slot = info.slot /\ h.todo = left
      /\ h.att = 0 /\ h.waiting = FALSE /\ h.runs = host.runs /\ h.result = result
  BY <1>1 DEF Hosts
<1> HIDE DEF h
<1>8. ToolOK(h)
  <2>1. 0 < Attempts(Head(left)) /\ 0 <= Attempts(Head(left))
    BY AttemptsType, ClientAssumption DEF ClientAssumption
  <2> QED BY <1>1, <1>3, <1>4, <1>5, <1>6, <1>7, <2>1 DEF ToolOK
<1>9. DeliveryOK(h)
  BY <1>1, <1>3, <1>7 DEF DeliveryOK, BuildOf
<1> QED BY <1>2, <1>8, <1>9

\* A queue of frames.
LEMMA Queues ==
  ASSUME NEW S, NEW q \in Seq(S)
  PROVE  /\ q # <<>> => /\ Head(q) \in S /\ Tail(q) \in Seq(S)
                        /\ Len(Tail(q)) \in Nat /\ Len(Tail(q)) = Len(q) - 1
         /\ \A f \in S : Append(q, f) \in Seq(S) /\ Len(Append(q, f)) = Len(q) + 1
OBVIOUS

\* The tool is started.
LEMMA StartKeeps ==
  ASSUME ToolOK(host), FramesOK, serving' = serving, NEW flow \in Flows, StartRun(flow)
  PROVE  ToolOK(host') /\ DeliveryOK(host') /\ FramesOK'
<1>1. host \in Hosts /\ host.runs \in 0..MaxRuns /\ host.runs < MaxRuns /\ host.version = host.runs
  BY DEF ToolOK, Hosts, StartRun
<1>2. /\ MaxRuns \in Nat /\ SeqMod \in Nat \ {0} /\ SeqMod - 1 \in 0..SeqMod - 1
      /\ 0 \in 0..MaxAttempts /\ LinkCap \in Nat
  BY ClientAssumption DEF ClientAssumption
<1>3. host.runs + 1 \in 1..MaxRuns /\ host.runs + 1 \in 0..MaxRuns
  BY <1>1, <1>2
<1>4. HelloReq \in Fitting /\ <<HelloReq>> \in Seq(Fitting) /\ InSequence(<<HelloReq>>)
  BY FittingRequests, Runs
<1>5. /\ host'.flow = flow /\ host'.version = host.runs + 1 /\ host'.slot = NoSlot
      /\ host'.todo = <<HelloReq>> /\ host'.att = 0 /\ host'.waiting = FALSE
      /\ host'.result = "running" /\ host'.runs = host.runs + 1
  BY DEF StartRun
<1>6. host' \in Hosts
  BY <1>2, <1>3, <1>4 DEF StartRun, Hosts
<1>7. 0 <= Attempts(Head(host'.todo)) /\ 0 < Attempts(Head(host'.todo)) /\ host'.todo # <<>>
  BY <1>5, AttemptsType, ClientAssumption DEF ClientAssumption
<1>8. ToolOK(host')
  BY <1>3, <1>4, <1>5, <1>6, <1>7 DEF ToolOK
<1>9. FramesOK'
  BY <1>2 DEF StartRun, FramesOK
<1> QED BY <1>5, <1>8, <1>9 DEF DeliveryOK

\* A request goes out.
LEMMA SendKeeps ==
  ASSUME ToolOK(host), DeliveryOK(host), FramesOK, serving' = serving, Send
  PROVE  ToolOK(host') /\ DeliveryOK(host') /\ FramesOK'
<1> DEFINE h == [host EXCEPT !.waiting = TRUE, !.att = @ + 1, !.seq = NextSeq]
<1>1. /\ host \in Hosts /\ host.result = "running" /\ host' = h /\ host.todo # <<>>
      /\ host.todo \in Seq(Fitting) /\ host.att < Attempts(Head(host.todo))
  BY DEF ToolOK, Send, Running, Hosts
<1>2. NextSeq \in 0..SeqMod - 1
  BY <1>1, ClientAssumption, SMTT(60) DEF ClientAssumption, NextSeq, Hosts
<1>3. host.att \in Nat /\ host.att + 1 \in 0..MaxAttempts /\ host.att + 1 <= Attempts(Head(host.todo))
  <2>1. host.att \in Nat /\ MaxAttempts \in Nat
    BY <1>1, ClientAssumption DEF ClientAssumption, Hosts
  <2>2. Attempts(Head(host.todo)) \in 1..MaxAttempts
    BY AttemptsType
  <2> QED BY <1>1, <2>1, <2>2
<1>4. h \in Hosts
  BY <1>1, <1>2, <1>3 DEF Hosts
<1>5. /\ h.flow = host.flow /\ h.version = host.version /\ h.slot = host.slot /\ h.todo = host.todo
      /\ h.att = host.att + 1 /\ h.waiting = TRUE /\ h.runs = host.runs /\ h.result = host.result
  BY <1>1 DEF Hosts
<1> HIDE DEF h
<1>6. ToolOK(h)
  BY <1>1, <1>3, <1>4, <1>5 DEF ToolOK
<1>7. DeliveryOK(h)
  BY <1>5 DEF DeliveryOK, BuildOf
<1>8. FramesOK'
  <2>1. Asked \in Fitting
    BY <1>1, TailKeeps DEF Asked
  <2>2. \A body \in {Asked, Garbled} : [seq |-> NextSeq, body |-> body] \in Frames
    BY <1>2, <2>1 DEF Frames
  <2>3. toDev' \in Seq(Frames) /\ Len(toDev') <= LinkCap
    <3>1. toDev \in Seq(Frames) /\ Len(toDev) <= LinkCap /\ LinkCap \in Nat
      BY ClientAssumption DEF ClientAssumption, FramesOK
    <3> QED BY <2>2, <3>1, Queues DEF Send
  <2> QED BY <2>3 DEF FramesOK, Send
<1> QED BY <1>1, <1>6, <1>7, <1>8

\* An answer is read and accepted.
LEMMA AcceptKeeps ==
  ASSUME ToolOK(host), DeliveryOK(host), FramesOK, Accepted
  PROVE  ToolOK(host') /\ DeliveryOK(host')
<1> DEFINE f == Head(toHost)
           next == Advance(Tail(host.todo))
<1>1. /\ Running /\ f \in Responses /\ f.cmd = Asked.cmd /\ f.status = "OK"
      /\ host \in Hosts /\ host.todo \in Seq(Fitting) /\ host.todo # <<>>
  BY Queues DEF Accepted, Answers, Waiting, Running, FramesOK, ToolOK, Hosts
<1>2. host' = CASE Asked.cmd = "HELLO" ->
                IF f.value.cap = 0 /\ NeedsWriteSlot(host.flow)
                THEN [host EXCEPT !.waiting = FALSE, !.result = "no_slot"]
                ELSE [Advance(Plan(host.flow, host.version, f.value)) EXCEPT !.slot = f.value.slot]
             [] Asked.cmd = "CRC" /\ f.value # Asked.crc ->
                [host EXCEPT !.waiting = FALSE, !.result = "mismatch"]
             [] Asked.cmd = "COMMIT" -> [next EXCEPT !.committed = TRUE]
             [] OTHER -> next
  BY DEF Accepted
<1>3. Asked.cmd = "HELLO" => f.value \in Infos
  BY <1>1 DEF Responses
<1>4. next = [next EXCEPT !.committed = host.committed] /\ host.committed \in BOOLEAN
  BY <1>1 DEF Advance, Hosts
<1> HIDE DEF f, next
<1>5. CASE Asked.cmd = "HELLO" /\ f.value.cap = 0 /\ NeedsWriteSlot(host.flow)
  <2>1. host' = [host EXCEPT !.waiting = FALSE, !.result = "no_slot"]
    BY <1>2, <1>5
  <2> QED BY <2>1, EndKeeps
<1>6. CASE Asked.cmd = "HELLO" /\ ~(f.value.cap = 0 /\ NeedsWriteSlot(host.flow))
  <2>1. host' = [Advance(Plan(host.flow, host.version, f.value)) EXCEPT !.slot = f.value.slot]
    BY <1>2, <1>6
  <2>2. f.value.cap = 0 => ~NeedsWriteSlot(host.flow)
    BY <1>6
  <2> QED BY <1>1, <1>3, <1>6, <2>1, <2>2, OpenKeeps
<1>7. CASE Asked.cmd = "CRC" /\ f.value # Asked.crc
  <2>1. host' = [host EXCEPT !.waiting = FALSE, !.result = "mismatch"]
    BY <1>2, <1>7
  <2> QED BY <2>1, EndKeeps
<1>8. CASE Asked.cmd = "COMMIT"
  <2>1. host' = [next EXCEPT !.committed = TRUE]
    BY <1>2, <1>8
  <2> QED BY <1>1, <1>8, <2>1, AdvanceKeeps DEF next
<1>9. CASE /\ Asked.cmd # "HELLO" /\ Asked.cmd # "COMMIT"
           /\ ~(Asked.cmd = "CRC" /\ f.value # Asked.crc)
  <2>1. host' = [next EXCEPT !.committed = host.committed]
    BY <1>2, <1>4, <1>9
  <2> QED BY <1>1, <1>4, <1>9, <2>1, AdvanceKeeps DEF next
<1> QED BY <1>5, <1>6, <1>7, <1>8, <1>9

\* Every step of the tool.
LEMMA ToolKeeps ==
  ASSUME ToolOK(host), DeliveryOK(host), FramesOK, serving' = serving, HostStep
  PROVE  ToolOK(host') /\ DeliveryOK(host') /\ FramesOK'
<1>1. ASSUME toHost # <<>>, toHost' = Tail(toHost), toDev' = toDev PROVE FramesOK'
  <2>1. toHost' \in Seq(Responses) /\ Len(toHost') <= LinkCap
    <3>1. toHost \in Seq(Responses) /\ Len(toHost) <= LinkCap /\ LinkCap \in Nat
      BY ClientAssumption DEF ClientAssumption, FramesOK
    <3> QED BY <1>1, <3>1, Queues
  <2> QED BY <1>1, <2>1 DEF FramesOK
<1>2. CASE Send
  BY <1>2, SendKeeps
<1>3. CASE FrameError
  BY <1>1, <1>3, RetryKeeps DEF FrameError
<1>4. CASE DiscardStale
  BY <1>1, <1>4 DEF DiscardStale
<1>5. CASE Refused
  BY <1>1, <1>5, EndKeeps DEF Refused
<1>6. CASE Accepted
  BY <1>1, <1>6, AcceptKeeps DEF Accepted
<1>7. CASE Timeout
  <2>1. FramesOK'
    BY <1>7 DEF Timeout, link, FramesOK
  <2> QED BY <1>7, <2>1, RetryKeeps DEF Timeout
<1>8. ASSUME NEW flow \in Flows, StartRun(flow) PROVE ToolOK(host') /\ DeliveryOK(host') /\ FramesOK'
  BY <1>8, StartKeeps
<1> QED BY <1>2, <1>3, <1>4, <1>5, <1>6, <1>7, <1>8 DEF HostStep, ClientStep

-----------------------------------------------------------------------------
(* The device end, a step of BootCore or none *)

\* The frame at the head of the line carries a request that fits, or garbage.
LEMMA FrameFits ==
  ASSUME FramesOK, toDev # <<>>
  PROVE  /\ Frame.seq \in 0..SeqMod - 1 /\ Frame.body \in Fitting \union {Garbled}
         /\ Tail(toDev) \in Seq(Frames) /\ Len(Tail(toDev)) <= LinkCap
         /\ Frame.body.cmd # "GARBLED" => Frame.body \in Fitting
         /\ Frame.body.cmd = "ERASE" =>
              Frame.body \in [cmd : {"ERASE"}, slot : Slots, at : Nat, n : Nat \ {0}]
         /\ Frame.body.cmd = "WRITE" =>
              Frame.body \in [cmd : {"WRITE"}, slot : Slots, at : Nat, data : Seq(Word) \ {<<>>}]
         /\ Frame.body.cmd = "CRC" => Frame.body \in [cmd : {"CRC"}, slot : Slots, crc : Seq(Word)]
<1>1. /\ Frame \in Frames /\ Tail(toDev) \in Seq(Frames) /\ Len(Tail(toDev)) = Len(toDev) - 1
      /\ Len(toDev) <= LinkCap /\ LinkCap \in Nat /\ Len(Tail(toDev)) \in Nat /\ Len(toDev) \in Nat
  BY Queues, ClientAssumption DEF ClientAssumption, FramesOK, Frame
<1>2. Frame.seq \in 0..SeqMod - 1 /\ Frame.body \in Fitting \union {Garbled}
  BY <1>1 DEF Frames
<1>3. Frame.body.cmd # "GARBLED" => Frame.body \in Fitting
  BY <1>2 DEF Garbled
<1> DEFINE b == Frame.body
<1> HIDE DEF b
<1>4. b \in Fitting => /\ b.cmd = "ERASE" => b \in [cmd : {"ERASE"}, slot : Slots, at : Nat, n : Nat \ {0}]
                       /\ b.cmd = "WRITE" => b \in [cmd : {"WRITE"}, slot : Slots, at : Nat, data : Seq(Word) \ {<<>>}]
                       /\ b.cmd = "CRC" => b \in [cmd : {"CRC"}, slot : Slots, crc : Seq(Word)]
  BY DEF Fitting, HostRequests, HelloReq
<1>5. Len(Tail(toDev)) <= LinkCap
  BY <1>1
<1> QED BY <1>1, <1>2, <1>3, <1>4, <1>5 DEF b

\* A request is handed to the engine as BootCore takes it.
LEMMA ServeSimulates ==
  ASSUME IInv, FramesOK, ServeErase \/ ServeWrite \/ ServeCommit
  PROVE  [Next]_vars
<1> DEFINE b == Frame.body
<1>1. /\ SlotWords \in Nat \ {0} /\ write \in Slots /\ Capacity(write) <= SlotWords /\ Capacity(write) \in Nat
  BY DecisionAssumption DEF DecisionAssumption, IInv, TypeOK, Capacity
<1>2. CASE ServeErase
  <2>1. toDev # <<>> /\ b.cmd = "ERASE"
    BY <1>2 DEF ServeErase, Serve
  <2>2. b \in Fitting /\ b \in [cmd : {"ERASE"}, slot : Slots, at : Nat, n : Nat \ {0}]
    BY <2>1, FrameFits
  <2>3. b.at % BlockSize = 0 /\ b.n % BlockSize = 0
    BY <2>1, <2>2 DEF Fitting, Fits
  <2>4. CASE WriteRangeOk(b.slot, b.at, b.n)
    <3>1. b.at + b.n <= Capacity(write)
      BY <2>4 DEF WriteRangeOk
    <3>2. b.at \in 0..SlotWords - 1 /\ b.n \in 1..SlotWords /\ b.slot \in Slots
      BY <1>1, <2>2, <3>1
    <3>3. b.at \in Blocks
      BY <2>3, <3>2 DEF Blocks
    <3>4. Erase(b.slot, b.at, b.at + b.n)
      BY <1>2, <2>4 DEF ServeErase
    <3> QED BY <2>3, <3>2, <3>3, <3>4 DEF Next, Request
  <2>5. CASE ~WriteRangeOk(b.slot, b.at, b.n)
    BY <1>2, <2>5 DEF ServeErase, AnswerNow
  <2> QED BY <2>4, <2>5
<1>3. CASE ServeWrite
  <2>1. toDev # <<>> /\ b.cmd = "WRITE"
    BY <1>3 DEF ServeWrite, Serve
  <2>2. b \in Fitting /\ b \in [cmd : {"WRITE"}, slot : Slots, at : Nat, data : Seq(Word) \ {<<>>}]
    BY <2>1, FrameFits
  <2>3. b.data \in Chunk /\ Len(b.data) \in Nat \ {0}
    BY <2>1, <2>2, ChunkType DEF Fitting, Fits
  <2>4. CASE ~WriteRangeOk(b.slot, b.at, Len(b.data)) \/ ~Covers(s.bitmap, b.at, Len(b.data))
    BY <1>3, <2>4 DEF ServeWrite, AnswerNow
  <2>5. CASE WriteRangeOk(b.slot, b.at, Len(b.data)) /\ Covers(s.bitmap, b.at, Len(b.data))
    <3>1. b.at + Len(b.data) <= Capacity(write)
      BY <2>5 DEF WriteRangeOk
    <3>2. b.at \in 0..SlotWords - 1 /\ b.slot \in Slots
      BY <1>1, <2>2, <2>3, <3>1
    <3>3. Write(b.slot, b.at, b.data)
      BY <1>3, <2>5 DEF ServeWrite
    <3> QED BY <2>3, <3>2, <3>3 DEF Next, Request
  <2> QED BY <2>4, <2>5
<1>4. CASE ServeCommit
  <2>1. toDev # <<>> /\ b.cmd = "COMMIT"
    BY <1>4 DEF ServeCommit, Serve
  <2>2. b.len \in 1..SlotWords /\ b.crc \in [1..b.len -> Word]
    BY <2>1, FrameFits DEF Fitting, Fits
  <2>3. CASE CommitAnswer(b.len, b.crc) = "GO"
    BY <1>4, <2>2, <2>3 DEF ServeCommit, Next, Request
  <2>4. CASE CommitAnswer(b.len, b.crc) # "GO"
    BY <1>4, <2>4 DEF ServeCommit, AnswerNow
  <2> QED BY <2>3, <2>4
<1> QED BY <1>2, <1>3, <1>4

\* And so is everything else the pair does.
LEMMA Simulates ==
  ASSUME IInv, FramesOK, [UpdateNext]_allVars
  PROVE  [Next]_vars
<1>1. CASE Client
  BY <1>1 DEF Client
<1>2. CASE ServeGarbled \/ ServeUnopened \/ ServeCrc
  BY <1>2 DEF ServeGarbled, ServeUnopened, ServeCrc, AnswerNow
<1>3. CASE ServeHello
  BY <1>3 DEF ServeHello, Next, Request
<1>4. CASE ServeErase \/ ServeWrite \/ ServeCommit
  BY <1>4, ServeSimulates
<1>5. CASE ServeBoot
  BY <1>5 DEF ServeBoot, Next, Request
<1>6. CASE FlashDone
  BY <1>6 DEF FlashDone, Next, FlashStep
<1>7. CASE FlashFails
  BY <1>7 DEF FlashFails, Next, FlashStep
<1>8. CASE Elsewhere
  BY <1>8 DEF Elsewhere, Next
<1>9. CASE DevicePowerCut
  BY <1>9 DEF DevicePowerCut, Next
<1>10. CASE UNCHANGED allVars
  BY <1>10 DEF allVars
<1> QED BY <1>1, <1>2, <1>3, <1>4, <1>5, <1>6, <1>7, <1>8, <1>9, <1>10 DEF UpdateNext, Device

\* An answer joins the line of responses.
LEMMA AnswerKeeps ==
  ASSUME FramesOK, NEW cmd \in Commands, NEW seq \in 0..SeqMod - 1, NEW status \in Statuses,
         NEW value \in Infos \union {0} \union Seq(Word),
         cmd = "HELLO" /\ status = "OK" => value \in Infos,
         Answer(cmd, seq, status, value)
  PROVE  toHost' \in Seq(Responses) /\ Len(toHost') <= LinkCap
<1>1. [cmd |-> cmd, seq |-> seq, status |-> status, value |-> value] \in Responses
  BY DEF Responses
<1>2. toHost \in Seq(Responses) /\ Len(toHost) <= LinkCap /\ LinkCap \in Nat
  BY ClientAssumption DEF ClientAssumption, FramesOK
<1> QED BY <1>1, <1>2, Queues DEF Answer

\* What the device is working on has a name and a slot.
LEMMA Working ==
  ASSUME IInv, pc # "idle"
  PROVE  req.cmd \in {"ERASE", "WRITE", "COMMIT"} /\ mode = "core" /\ s.open
BY DEF IInv, TypeOK, PcOK, RamOK

\* The device keeps the frames as they must be.
LEMMA DeviceFrames ==
  ASSUME IInv, FramesOK, Device
  PROVE  FramesOK'
<1> DEFINE Sent == toHost' \in Seq(Responses) /\ Len(toHost') <= LinkCap
           b == Frame.body
<1>1. /\ toDev \in Seq(Frames) /\ Len(toDev) <= LinkCap /\ LinkCap \in Nat
      /\ serving \in 0..SeqMod - 1
  BY ClientAssumption DEF ClientAssumption, FramesOK
<1>2. ASSUME NEW cmd, Serve(cmd)
      PROVE  /\ toDev # <<>> /\ toDev' \in Seq(Frames) /\ Len(toDev') <= LinkCap
             /\ Frame.seq \in 0..SeqMod - 1 /\ b.cmd = cmd
  BY <1>2, FrameFits DEF Serve
<1>3. toHost' = toHost => Sent
  BY DEF FramesOK
<1>e. toDev' = <<>> => toDev' \in Seq(Frames) /\ Len(toDev') <= LinkCap
  <2>1. <<>> \in Seq(Frames) /\ Len(<<>>) = 0 /\ 0 <= LinkCap
    BY <1>1
  <2> QED BY <2>1
<1>4. ASSUME NEW cmd \in Commands, NEW seq \in 0..SeqMod - 1, NEW status \in Statuses,
             Answer(cmd, seq, status, 0), cmd # "HELLO"
      PROVE  Sent
  BY <1>4, AnswerKeeps
<1>5. ASSUME NEW cmd \in Commands, cmd # "HELLO", Serve(cmd), NEW status \in Statuses, AnswerNow(status, 0)
      PROVE  FramesOK'
  <2>1. Answer(cmd, Frame.seq, status, 0) /\ serving' = serving
    BY <1>2, <1>5 DEF AnswerNow
  <2> QED BY <1>1, <1>2, <1>4, <1>5, <2>1 DEF FramesOK
<1>6. ASSUME NEW cmd, Serve(cmd), AnswerLater PROVE FramesOK'
  BY <1>2, <1>3, <1>6 DEF AnswerLater, FramesOK
<1>7. CASE ServeGarbled
  <2>1. Serve("GARBLED") /\ Answer("FRAME_ERR", Frame.seq, "E_CRC", 0) /\ serving' = serving
    BY <1>7 DEF ServeGarbled
  <2>2. Sent
    BY <1>2, <1>4, <2>1 DEF Commands, Statuses
  <2> QED BY <1>1, <1>2, <2>1, <2>2 DEF FramesOK
<1>8. CASE ServeHello
  <2> DEFINE info == [slot |-> write, cap |-> Capacity(write), block |-> BlockSize, chunk |-> MaxChunk,
                      live |-> CrcLive]
  <2>1. Serve("HELLO") /\ Answer("HELLO", Frame.seq, "OK", info) /\ serving' = serving
    BY <1>8 DEF ServeHello
  <2>2. info \in Infos
    BY CoreAssumption DEF CoreAssumption, IInv, TypeOK, Infos, Capacity
  <2> HIDE DEF info
  <2>3. Sent
    BY <1>2, <2>1, <2>2, AnswerKeeps DEF Commands, Statuses
  <2> QED BY <1>1, <1>2, <2>1, <2>3 DEF FramesOK
<1>9. CASE ServeUnopened
  BY <1>5, <1>9 DEF ServeUnopened, Commands, Statuses
<1>10. CASE ServeErase
  BY <1>5, <1>6, <1>10 DEF ServeErase, Commands, Statuses
<1>11. CASE ServeWrite
  BY <1>5, <1>6, <1>11 DEF ServeWrite, Commands, Statuses
<1>12. CASE ServeCommit
  <2>1. CommitAnswer(b.len, b.crc) # "GO" => CommitAnswer(b.len, b.crc) \in Statuses
    BY DEF CommitAnswer, Statuses
  <2> QED BY <1>5, <1>6, <1>12, <2>1 DEF ServeCommit, Commands
<1>13. CASE ServeCrc
  <2>1. Serve("CRC")
    BY <1>13 DEF ServeCrc
  <2>2. toDev # <<>> /\ b.cmd = "CRC"
    BY <1>2, <2>1
  <2>3. b \in Fitting /\ b \in [cmd : {"CRC"}, slot : Slots, crc : Seq(Word)]
    BY <2>2, FrameFits
  <2>4. Len(b.crc) \in 1..SlotWords
    BY <2>2, <2>3 DEF Fitting, Fits
  <2>5. PICK image \in XipImages(b.slot) : AnswerNow("OK", Crc(image, Len(b.crc)))
    BY <1>13 DEF ServeCrc
  <2>6. image \in Image
    <3>1. b.slot \in Slots
      BY <2>3
    <3>2. img[b.slot] \in Image /\ xipImg[b.slot] \in Image
      BY <3>1 DEF IInv, TypeOK
    <3> QED BY <2>5, <3>2 DEF XipImages, Image
  <2>7. Crc(image, Len(b.crc)) \in Seq(Word)
    <3>1. Crc(image, Len(b.crc)) \in [1..Len(b.crc) -> Word]
      BY <2>4, <2>6, DecisionAssumption DEF DecisionAssumption, Crc, Image
    <3> QED BY <2>4, <3>1, DecisionAssumption DEF DecisionAssumption
  <2>8. Answer("CRC", Frame.seq, "OK", Crc(image, Len(b.crc))) /\ serving' = serving
    BY <2>2, <2>5 DEF AnswerNow
  <2>9. Sent
    BY <1>2, <2>1, <2>7, <2>8, AnswerKeeps DEF Commands, Statuses
  <2> QED BY <1>1, <1>2, <2>1, <2>8, <2>9 DEF FramesOK
<1>14. CASE ServeBoot
  <2>1. toDev # <<>> /\ serving' = serving /\ (toDev' = <<>> \/ toDev' = Tail(toDev))
        /\ \E status \in {"OK", "E_VERIFY"} : Answer("BOOT", Frame.seq, status, 0)
    BY <1>14 DEF ServeBoot
  <2>2. Frame.seq \in 0..SeqMod - 1 /\ Tail(toDev) \in Seq(Frames) /\ Len(Tail(toDev)) <= LinkCap
    BY <2>1, FrameFits
  <2>3. Sent
    BY <1>4, <2>1, <2>2 DEF Commands, Statuses
  <2>4. toDev' \in Seq(Frames) /\ Len(toDev') <= LinkCap
    BY <1>e, <2>1, <2>2
  <2> QED BY <1>1, <2>1, <2>3, <2>4 DEF FramesOK
<1>15. CASE FlashDone
  <2>1. toDev' = toDev /\ serving' = serving /\ pc # "idle"
    BY <1>15 DEF FlashDone, Disarm, EraseBlock, Program, RecErase, RecProgram
  <2>2. req.cmd \in Commands /\ req.cmd # "HELLO"
    BY <2>1, Working DEF Commands
  <2>3. toHost' = toHost \/ \E status \in {"OK", "E_FLASH"} : Answer(req.cmd, serving, status, 0)
    BY <1>15 DEF FlashDone
  <2>4. Sent
    BY <1>1, <1>3, <1>4, <2>2, <2>3 DEF Statuses
  <2> QED BY <1>1, <2>1, <2>4 DEF FramesOK
<1>16. CASE FlashFails
  <2>1. toDev' = toDev /\ serving' = serving /\ pc # "idle" /\ Answer(req.cmd, serving, "E_FLASH", 0)
    BY <1>16 DEF FlashFails, MutationFails, RecStoreFails
  <2>2. req.cmd \in Commands /\ req.cmd # "HELLO"
    BY <2>1, Working DEF Commands
  <2>3. Sent
    BY <1>1, <1>4, <2>1, <2>2 DEF Statuses
  <2> QED BY <1>1, <2>1, <2>3 DEF FramesOK
<1>17. CASE Elsewhere \/ DevicePowerCut
  <2>1. toDev' = <<>> /\ toHost' = toHost /\ serving' = serving
    BY <1>17 DEF Elsewhere, DevicePowerCut
  <2> QED BY <1>1, <1>3, <1>e, <2>1 DEF FramesOK
<1> QED BY <1>7, <1>8, <1>9, <1>10, <1>11, <1>12, <1>13, <1>14, <1>15, <1>16, <1>17 DEF Device

-----------------------------------------------------------------------------
(* The invariant of the pair, and what BootCore's theorems say of it *)

\* The device from the factory and no tool running.
LEMMA InitPair == UpdateInit => PairInv
<1> SUFFICES ASSUME UpdateInit PROVE PairInv
  OBVIOUS
<1>1. IInv
  BY InitIInv DEF UpdateInit
<1>2. SeqMod \in Nat \ {0} /\ 0 \in 0..SeqMod - 1 /\ 0 \in 0..MaxRuns /\ 0 \in 0..MaxAttempts
      /\ 0 <= LinkCap
  BY ClientAssumption DEF ClientAssumption
<1>3. toDev = <<>> /\ toHost = <<>> /\ serving = 0
  BY DEF UpdateInit, HostInit
<1>4. toDev \in Seq(Frames) /\ toHost \in Seq(Responses) /\ Len(toDev) = 0 /\ Len(toHost) = 0
  BY <1>3
<1>5. host \in Hosts
  BY <1>2, Runs DEF UpdateInit, HostInit, Hosts
<1>6. ToolOK(host) /\ DeliveryOK(host)
  BY <1>5, Runs DEF UpdateInit, HostInit, ToolOK, DeliveryOK
<1> QED BY <1>1, <1>2, <1>3, <1>4, <1>6 DEF PairInv, FramesOK

\* Neither side disturbs it.
LEMMA StepPair ==
  ASSUME PairInv, [UpdateNext]_allVars
  PROVE  PairInv'
<1>1. IInv'
  BY Simulates, StepIInv DEF PairInv
<1>2. CASE Client
  BY <1>1, <1>2, ToolKeeps DEF PairInv, Client
<1>3. CASE Device
  <2>1. host' = host
    BY <1>3 DEF Device, ServeGarbled, ServeHello, ServeUnopened, ServeErase, ServeWrite, ServeCommit,
          ServeCrc, ServeBoot, FlashDone, FlashFails, Elsewhere, DevicePowerCut, Serve
  <2>2. FramesOK'
    BY <1>3, DeviceFrames DEF PairInv
  <2> QED BY <1>1, <2>1, <2>2 DEF PairInv
<1>4. CASE UNCHANGED allVars
  BY <1>1, <1>4 DEF allVars, link, PairInv, FramesOK
<1> QED BY <1>2, <1>3, <1>4 DEF UpdateNext

\* The invariant holds in every behaviour of the tool and the device.
THEOREM PairInductive == UpdateSpec => []PairInv
<1>1. UpdateInit => PairInv
  BY InitPair
<1>2. PairInv /\ [UpdateNext]_allVars => PairInv'
  BY StepPair
<1> QED BY <1>1, <1>2, PTL DEF UpdateSpec

\* Whatever the tool asks, and however the link treats it, the device is one of
\* BootCore's (boot_core.c takes any frame): each step of the pair is one of its
\* steps, or none.
THEOREM DrivenByTool == UpdateSpec => Spec
<1>1. UpdateInit => Init
  BY DEF UpdateInit
<1>2. PairInv /\ [UpdateNext]_allVars => [Next]_vars
  BY Simulates DEF PairInv
<1> QED BY <1>1, <1>2, PairInductive, PTL DEF UpdateSpec, Spec

\* docs/AB-UPDATE.md: the promise of A/B update, of a device that a tool updates
\* over a bad link.
THEOREM ToolNeverBricks ==
  ASSUME ~BlankFirstWord
  PROVE  UpdateSpec => ABSpec /\ StaysBootable
BY DrivenByTool, Refines, NeverBricked, PTL

\* client.rs:187-190 and client.rs:13-16: no request is tried more often than
\* its policy allows, and BOOT is the last request of every flow.
THEOREM HostTypeSound == UpdateSpec => []HostTypeOK
<1>1. ASSUME PairInv PROVE HostTypeOK
  <2>1. ToolOK(host) /\ FramesOK /\ host \in Hosts /\ host.todo \in Seq(Fitting)
    BY <1>1 DEF PairInv, ToolOK, Hosts
  <2>2. \A q \in Fitting : q \in HostRequests
    BY DEF Fitting
  <2>3. host.todo \in Seq(HostRequests)
    BY <2>1, <2>2
  <2>4. toDev \in Seq([seq : 0..SeqMod - 1, body : HostRequests \union {Garbled}])
    <3> DEFINE Sendable == [seq : 0..SeqMod - 1, body : HostRequests \union {Garbled}]
    <3>1. \A f \in Frames : f \in Sendable
      BY <2>2 DEF Frames
    <3> HIDE DEF Sendable
    <3>2. toDev \in Seq(Sendable)
      BY <2>1, <3>1 DEF FramesOK
    <3> QED BY <3>2 DEF Sendable
  <2>5. ASSUME NEW i \in 1..Len(host.todo), host.todo[i].cmd = "BOOT" PROVE i = Len(host.todo)
    <3>1. Len(host.todo) \in 1..Len(host.todo) /\ Len(host.todo) \in Nat
      BY <2>1
    <3>2. Rank(host.todo[i]) = 5 /\ Rank(host.todo[Len(host.todo)]) \in 0..5
      BY <2>1, <2>5, <3>1, Ranks
    <3>3. i < Len(host.todo) => Rank(host.todo[i]) < Rank(host.todo[Len(host.todo)])
      BY <2>1, <3>1, <3>2 DEF ToolOK, InSequence
    <3> QED BY <3>1, <3>2, <3>3
  <2>6. DOMAIN host.todo = 1..Len(host.todo)
    BY <2>1
  <2>7. Running => host.todo # <<>> /\ host.att <= Attempts(Asked)
    BY <2>1 DEF ToolOK, Running, Asked
  <2>8. /\ host.flow \in Flows \union {"none"} /\ host.version = host.runs /\ host.runs \in 0..MaxRuns
        /\ host.slot \in Slots \union {NoSlot} /\ host.seq \in 0..SeqMod - 1
        /\ host.waiting \in BOOLEAN /\ (host.waiting => Running) /\ host.committed \in BOOLEAN
        /\ host.result \in {"none", "running", "done", "refused", "exhausted", "no_response",
                            "mismatch", "no_slot"}
    BY <2>1 DEF ToolOK, Hosts, Running
  <2>9. Len(toDev) <= LinkCap /\ Len(toHost) <= LinkCap
    BY <2>1 DEF FramesOK
  <2> QED BY <2>3, <2>4, <2>5, <2>6, <2>7, <2>8, <2>9 DEF HostTypeOK
<1> QED BY <1>1, PairInductive, PTL
=============================================================================
