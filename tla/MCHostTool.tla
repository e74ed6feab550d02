----------------------------- MODULE MCHostTool -----------------------------
(* The runs of the tool and the line of its serial transport, side by side:  *)
(* a behaviour is about one of the two.  A byte is a hexadecimal digit, the  *)
(* two slots are [8, 16) and [16, 24), an erase block is 4 bytes.            *)
EXTENDS HostCli, SofLine

-----------------------------------------------------------------------------
(* Intel HEX *)

Rec(type, addr, data) ==
  LET cells == <<Len(data), addr \div ByteRange, addr % ByteRange, type>> \o data
      sum   == FoldLeft(LAMBDA s, b : s + b, 0, cells)
  IN [colon |-> TRUE, ascii |-> TRUE, half |-> FALSE,
      bytes |-> Append(cells, (ByteRange - (sum % ByteRange)) % ByteRange)]
Eof == Rec(1, 0, <<>>)

Hex(lines, damaged) == [ext |-> "hex", lines |-> lines, raw |-> <<>>, damaged |-> damaged]

\* a gap, an odd end, records in any order, both kinds of base
SoundHex ==
  {<<Rec(0, 8, <<1, 2>>), Rec(0, 12, <<3>>), Eof>>,
   <<Rec(0, 13, <<3>>), Blank, Rec(0, 8, <<1, 2, 1>>), Rec(5, 0, <<1>>), Eof, Blank>>,
   <<Rec(2, 0, <<0, 1>>), Rec(0, 8, <<4>>), Rec(2, 0, <<0, 2>>), Rec(0, 1, <<5, 6>>), Eof>>,
   <<Rec(4, 0, <<0, 1>>), Rec(0, 0, <<7>>), Rec(4, 0, <<0, 0>>), Rec(0, 250, <<8>>), Eof>>,
   <<Rec(0, 8, <<1, 2>>), Rec(0, 13, <<>>), Eof>>,
   <<Rec(0, 8, <<1, 2, 3, 4>>), Rec(0, 12, <<5, 6, 7, 8>>), Eof>>,
   <<Rec(0, 12, <<1, 2, 3>>), Rec(0, 16, <<4, 5, 6>>), Eof>>}

\* an address twice, or partly; no end; more after the end; too wide; beyond the
\* address space; an end with an address or data; nothing in it; a short base
UnsoundHex ==
  {<<Rec(0, 8, <<1, 2>>), Rec(0, 9, <<3, 4>>), Eof>>, <<Rec(0, 8, <<1>>), Rec(0, 8, <<1>>), Eof>>,
   <<Rec(0, 8, <<1>>)>>, <<Rec(0, 8, <<1>>), Eof, Rec(0, 9, <<1>>)>>, <<Eof, Eof>>, <<Eof>>,
   <<Rec(0, 8, <<1>>), Rec(0, 20, <<1>>), Eof>>, <<Rec(4, 0, <<0, 1>>), Rec(0, 255, <<1, 2>>), Eof>>,
   <<Rec(0, 8, <<1>>), Rec(1, 1, <<>>)>>, <<Rec(0, 8, <<1>>), Rec(1, 0, <<1>>)>>,
   <<Rec(2, 0, <<1>>), Rec(0, 8, <<1>>), Eof>>, <<Rec(4, 0, <<0, 0, 0>>), Rec(0, 8, <<1>>), Eof>>}

Torn(l, n, half) == [l EXCEPT !.bytes = SubSeq(@, 1, n), !.half = half]
Joined(l, m) == [l EXCEPT !.bytes = @ \o <<NotHex>> \o Tail(m.bytes), !.half = TRUE]

\* One thing wrong with line i
Damages(lines, i) ==
  {[lines EXCEPT ![i].colon = FALSE], [lines EXCEPT ![i].ascii = FALSE]}
  \union {[lines EXCEPT ![i] = Torn(@, Len(@.bytes) - 1, half)] : half \in BOOLEAN}
  \union ({[lines EXCEPT ![i].bytes[k] = b] :
             k \in DOMAIN lines[i].bytes, b \in {0, 1, 5, 15, NotHex}} \ {lines})
  \union {Append(SubSeq(lines, 1, i - 1), Torn(lines[i], n, half)) :
            n \in 0..Len(lines[i].bytes) - 1, half \in BOOLEAN}
  \union (IF i = 1 THEN {} ELSE {SubSeq(lines, 1, i - 1)})
  \union (IF i = Len(lines) THEN {}
          ELSE {SubSeq(lines, 1, i - 1) \o <<Joined(lines[i], lines[i + 1])>>
                  \o SubSeq(lines, i + 2, Len(lines))})

NoBlanks == {lines \in SoundHex : \A i \in DOMAIN lines : lines[i] # Blank}

HexFiles ==
  {Hex(lines, FALSE) : lines \in SoundHex \union UnsoundHex}
  \union UNION {{Hex(d, TRUE) : d \in UNION {Damages(lines, i) : i \in DOMAIN lines}} : lines \in NoBlanks}

-----------------------------------------------------------------------------
(* Flat binaries and bundles *)

Raw(ext, raw, damaged) == [ext |-> ext, lines |-> <<>>, raw |-> raw, damaged |-> damaged]
Flat(raw) == Raw("bin", raw, FALSE)

Build(base, n) == [base |-> base, bytes |-> [i \in 1..n |-> (base + i) % ByteRange]]

Releases ==
  {BundleOf(1, <<Build(8, 4), Build(16, 2)>>), BundleOf(0, <<Build(16, 2), Build(8, 2)>>),
   BundleOf(1, <<Build(8, 2)>>), BundleOf(0, <<Build(16, 4)>>),
   BundleOf(0, <<Build(8, 2), Build(16, 2), Build(24, 2)>>)}

\* cut short, or one cell of it changed
DamagedBundles ==
  UNION {LET raw == EncodeBundle(r) IN
         {SubSeq(raw, 1, n) : n \in 1..Len(raw) - 1}
         \union {[raw EXCEPT ![k] = @ + d] : k \in DOMAIN raw, d \in {1, 2}} : r \in Releases}

\* made by another tool: one cell is different, the CRCs agree
WithCell(raw, i, c, v) == [raw EXCEPT ![HeaderLen + (i - 1) * EntryLen + c] = v]
Attested(raw, i) ==
  IF PayloadInside(raw, Entry(raw, i)) THEN WithCell(raw, i, 3, Crc32(Payload(raw, Entry(raw, i)))) ELSE raw

ForgedBundles ==
  LET raws == {EncodeBundle(r) : r \in Releases} IN
  UNION {{Sealed([raw EXCEPT ![k] = v]) : k \in 2..HeaderLen + raw[4] * EntryLen, v \in 0..24} : raw \in raws}
  \union UNION {{Sealed(Attested(WithCell(raw, i, c, v), i)) :
                   i \in 1..raw[4], c \in {2, 4}, v \in 1..Len(raw)} : raw \in raws}

BundleFiles ==
  {Raw("obb", EncodeBundle(r), FALSE) : r \in Releases}
  \union {Raw("obb", raw, TRUE) : raw \in DamagedBundles}
  \union {Raw("obb", raw, FALSE) : raw \in ForgedBundles}

-----------------------------------------------------------------------------
(* Command lines *)

Interface(id, serial, usage, path) == [id |-> id, serial |-> serial, usage |-> usage, path |-> path]
Module1  == Interface(BootId, "s1", BootUsage, "module1")
Module2  == Interface(BootId, "s2", BootUsage, "module2")
Vague    == Interface(BootId, "s1", UnknownUsage, "vague")
Keyboard == Interface(<<5, 1>>, "s1", TunnelUsage, "raw hid")
Keys     == Interface(<<5, 1>>, "s1", <<6, 6>>, "keys")
Keyboard2 == Interface(<<5, 1>>, "s2", TunnelUsage, "raw hid 2")

MCBootId == <<1, 1>>
MCBootUsage == <<2, 2>>
MCTunnelUsage == <<3, 3>>
MCUnknownUsage == <<0, 0>>

Worlds ==
  {{Module1}, {Module1, Vague}, {Vague, Keyboard, Keys}, {Module1, Module2, Keyboard, Keyboard2},
   {[Module1 EXCEPT !.usage = <<6, 6>>], Keys},
   {Module1, [Module1 EXCEPT !.usage = UnknownUsage], [Keyboard EXCEPT !.usage = <<6, 3>>]}}

NoFileAtAll == Flat(<<>>)

Command(cmd) ==
  [cmd |-> cmd, malformed |-> FALSE, transport |-> None, port |-> FALSE, serial |-> None,
   vid |-> None, pid |-> None, page |-> None, usage |-> None, file |-> NoFileAtAll, base |-> None,
   force |-> FALSE, no_verify |-> FALSE, no_boot |-> FALSE, all |-> FALSE, start |-> None,
   length |-> None, stay |-> FALSE, images |-> <<>>, chip |-> None]

WithDevice(commands) == {[args |-> c, world |-> {Module1}] : c \in commands}

Selections ==
  {[args |-> [Command("probe") EXCEPT !.transport = t, !.port = p, !.serial = s, !.vid = v, !.pid = i,
                !.page = g, !.usage = u], world |-> w] :
     t \in {None, "usb", "uart", "qmk"}, p \in BOOLEAN, s \in {None, "s1"}, v \in {None, 1, 5},
     i \in {None, 1}, g \in {None, 6}, u \in {None, 6}, w \in Worlds}

Erasures ==
  {[Command("erase") EXCEPT !.all = a, !.start = s, !.length = n, !.force = f] :
     a \in BOOLEAN, s \in {None, 8, 9, 12, 16}, n \in {None, 0, 3, 4, 8, 12}, f \in BOOLEAN}

AnyFile ==
  {[Command(cmd) EXCEPT !.file = f, !.force = TRUE] :
     cmd \in {"flash", "verify"}, f \in HexFiles \union BundleFiles}
GoodFiles ==
  {Raw("obb", EncodeBundle(r), FALSE) : r \in Releases}
  \union {Flat(<<1, 2, 3>>), Flat([i \in 1..10 |-> 1]), NoFileAtAll}
  \union {Hex(lines, FALSE) : lines \in SoundHex}
Flashes ==
  {[Command("flash") EXCEPT !.file = f, !.base = b, !.force = o, !.no_verify = v, !.no_boot = n] :
     f \in GoodFiles, b \in {None, 9, 16}, o \in BOOLEAN, v \in BOOLEAN, n \in BOOLEAN}
  \union {[Command(cmd) EXCEPT !.file = f, !.base = b] :
            cmd \in {"verify", "bless"}, f \in GoodFiles, b \in {None, 16}}

Tunnelled ==
  {[args |-> [Command(cmd) EXCEPT !.transport = "qmk", !.vid = 5, !.pid = 1, !.no_boot = n,
                !.stay = n, !.force = TRUE, !.file = Flat(<<1, 2>>)], world |-> {Keyboard, Keys}] :
     cmd \in {"flash", "boot"}, n \in BOOLEAN}

Spec(file, base, malformed) == [file |-> file, base |-> base, malformed |-> malformed]
Specs ==
  {Spec(Flat(<<1, 2, 3, 4>>), b, m) : b \in {None, 8, 9, 10, 16}, m \in BOOLEAN}
  \union {Spec(Flat(<<>>), 8, FALSE), Spec(Flat(<<6>>), 12, FALSE)}
  \union {Spec(Hex(<<Rec(0, a, <<7>>), Eof>>, FALSE), b, FALSE) : a \in {8, 11, 14}, b \in {None, 8}}
Creations ==
  {[Command("bundle_create") EXCEPT !.images = s, !.chip = c] :
     s \in UNION {[1..n -> Specs] : n \in 0..2}, c \in {None, 1, 3}}
  \union {[Command("bundle_create") EXCEPT !.images = [i \in 1..4 |-> Spec(Flat(<<1, 2>>), 4 * i, FALSE)]]}

MCRuns ==
  WithDevice(Erasures \union AnyFile \union Flashes \union Creations \union {Command("help"),
     [Command("probe") EXCEPT !.malformed = TRUE], Command("boot")}
     \union {[Command("bundle_info") EXCEPT !.file = f] : f \in GoodFiles})
  \union Selections \union Tunnelled

WritesA ==
  [short |-> FALSE, proto_major |-> ProtoMajor, app_start |-> 8, app_end |-> 24, erase_block |-> 4,
   write_align |-> 2, max_write_data |-> 4, slot_count |-> 2, active_slot |-> 1, write_slot |-> 0,
   write_base |-> 8, write_capacity |-> 8, chip_family |-> 1, crc_live |-> TRUE]
WritesB == [WritesA EXCEPT !.active_slot = 0, !.write_slot = 1, !.write_base = 16, !.crc_live = FALSE]

MCInfos ==
  {WritesA, WritesB, [WritesA EXCEPT !.active_slot = None, !.chip_family = 2],
   [WritesB EXCEPT !.write_capacity = 0], [WritesA EXCEPT !.write_capacity = 6],
   [WritesA EXCEPT !.proto_major = 1], [WritesA EXCEPT !.short = TRUE],
   [WritesA EXCEPT !.erase_block = 0], [WritesA EXCEPT !.max_write_data = 3],
   [WritesA EXCEPT !.active_slot = 2], [WritesB EXCEPT !.write_base = 20]}

-----------------------------------------------------------------------------
(* The line *)

MCFrames == {[cmd |-> SOF1, seq |-> s, payload |-> p] : s \in {0, SOF2}, p \in {<<>>, <<SOF1>>}}

VARIABLE job   \* what the behaviour is about

NoRun == Start([args |-> Command("help"), world |-> {}])

Init ==
  /\ LineInit
  /\ \/ job = "run" /\ CliInit
     \/ job = "line" /\ cli = NoRun

Next ==
  \/ job = "run" /\ CliNext /\ UNCHANGED <<job, lineVars>>
  \/ job = "line" /\ LineNext /\ UNCHANGED <<job, cli>>

ToolSpec == Init /\ [][Next]_<<job, cli, lineVars>>
=============================================================================
