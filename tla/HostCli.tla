------------------------------- MODULE HostCli ------------------------------
(***************************************************************************)
(* One run of the command line tool (main.rs, with flows.rs and            *)
(* transport/hidsel.rs): arguments, file, device, exit status.             *)
(*                                                                         *)
(* Unlike in HostClient, which has the requests of a flow one frame at a   *)
(* time on an unreliable link, here a request is the range of addresses a  *)
(* flow asks for, and whoever answers may refuse or fail.                  *)
(***************************************************************************)
EXTENDS SlotBundle, FiniteSets

CONSTANTS
  Runs,            \* bound: command lines, each with the HID interfaces plugged in
  Infos,           \* bound: what a device may say of itself
  BootId,          \* <<DEFAULT_VID, DEFAULT_PID>>
  BootUsage,       \* <<OB_USAGE_PAGE, OB_USAGE>>
  TunnelUsage,     \* <<TUNNEL_USAGE_PAGE, TUNNEL_USAGE>>
  UnknownUsage     \* <<0, 0>>: the platform cannot tell

\* Numbers are numbers, and what a file is read as is bytes.
ASSUME RunsAssumption ==
  /\ \A run \in Runs :
       LET a   == run.args
           src == LoadSource(a.file, a.base)
       IN /\ IsFiniteSet(run.world) /\ \A i \in run.world : "path" \in DOMAIN i
          /\ a.transport \in {None, "usb", "uart", "qmk"} /\ {a.port, a.all, a.force} \subseteq BOOLEAN
          /\ \A n \in {a.start, a.length} : n = None \/ n \in Nat
          /\ src # Refused => \A i \in DOMAIN src.images : src.images[i] \in [base : Nat, bytes : Seq(Nat)]
  /\ \A info \in Infos :
       {info.erase_block, info.write_base, info.write_capacity} \subseteq Nat

VARIABLES cli      \* the run

Args == cli.args
NeedsFile == Args.cmd \in {"flash", "verify", "bless"}

At(pc) == cli.pc = pc
Exit(code) == cli' = [cli EXCEPT !.pc = "exited", !.exit = code]

-----------------------------------------------------------------------------
(* Arguments *)

\* Fault: a usage error has the exit code that clap gives it.
UsageExit_Clap == 2
\* main remaps it: 2 means that the verification failed.
UsageExit == 1

\* The attributes of Cli and Cmd: a value that does not parse, options that
\* conflict or miss each other, and a bundle of nothing.
ClapAccepts(a) ==
  /\ ~a.malformed
  /\ a.all => a.start = None /\ a.length = None
  /\ (a.start = None) = (a.length = None)
  /\ a.cmd = "bundle_create" => a.images # <<>>

ParseArgs ==
  /\ At("parse")
  /\ IF Args.cmd = "help" THEN Exit(0)
     ELSE IF ~ClapAccepts(Args) THEN Exit(UsageExit)
     ELSE cli' = [cli EXCEPT !.pc = "load"]

\* Files are read before a device is looked for.
LoadFile ==
  /\ At("load") /\ NeedsFile
  /\ LET src == LoadSource(Args.file, Args.base) IN
     IF src = Refused THEN Exit(1) ELSE cli' = [cli EXCEPT !.pc = "open", !.src = src]

NoFile ==
  /\ At("load") /\ Args.cmd \in {"probe", "erase", "boot"}
  /\ IF Args.cmd = "erase" /\ ~Args.all /\ Args.start = None THEN Exit(1)
     ELSE cli' = [cli EXCEPT !.pc = "open"]

\* PATH@BASE: a flat binary needs its base, a .hex file has one.
SpecImage(spec) ==
  IF spec.malformed \/ ((spec.base = None) # (spec.file.ext = "hex")) THEN Refused
  ELSE LoadImage(spec.file, spec.base)

\* run_bundle: needs no device
Created ==
  LET images == [i \in DOMAIN Args.images |-> SpecImage(Args.images[i])]
      family == IF Args.chip = None THEN Unspecified ELSE Args.chip
  IN IF family \notin Families \union {Unspecified} \/ \E i \in DOMAIN images : images[i] = Refused
     THEN Refused ELSE BundleOf(family, images)

\* The file is written in place: a write that fails leaves the part it got to.
CreateBundle ==
  /\ At("load") /\ Args.cmd = "bundle_create"
  /\ IF Created = Refused THEN Exit(1)
     ELSE \E n \in 0..Len(EncodeBundle(Created)) :
            cli' = [cli EXCEPT !.pc = "exited", !.written = SubSeq(EncodeBundle(Created), 1, n),
                               !.exit = IF n = Len(EncodeBundle(Created)) THEN 0 ELSE 1]

BundleInfo ==
  /\ At("load") /\ Args.cmd = "bundle_info"
  /\ Exit(IF ParseBundle(Args.file.raw) = Refused THEN 1 ELSE 0)

-----------------------------------------------------------------------------
(* The device to talk to *)

\* Fault: --port is not looked at when the keyboard's tunnel is asked for.
PortConflicts_UsbOnly(a) == a.transport = "usb" \/ (a.transport = None /\ a.serial # None)
\* Only the UART has a port.
PortConflicts(a) == a.transport \in {"usb", "qmk"} \/ (a.transport = None /\ a.serial # None)

\* resolve_transport_kind.  A serial picks a USB device, also a keyboard, but
\* qmk is never implied.
Conflicts(a) == (a.port /\ PortConflicts(a)) \/ (a.transport = "uart" /\ a.serial # None)
TransportKind(a) ==
  IF a.transport # None THEN a.transport ELSE IF a.port THEN "uart" ELSE "usb"

\* narrow: those that report the usage; if none does, those that report none
Narrow(usage, interfaces) ==
  LET exact == {i \in interfaces : i.usage = usage} IN
  IF exact # {} THEN exact ELSE {i \in interfaces : i.usage = UnknownUsage}

\* open_hid: --serial picks the device, the usage the interface on it, and it
\* must be the only one.
OpenHid(id, usage) ==
  LET found == Narrow(usage, {i \in cli.world : i.id = id /\ Args.serial \in {None, i.serial}})
  IN IF Cardinality({i.path : i \in found}) = 1 THEN CHOOSE i \in found : TRUE ELSE Refused

Given(option, default) == IF option = None THEN default ELSE option

\* open_transport.  The usage of the bootloader is not for the user to choose,
\* and a keyboard has no default identity.
Choice(kind) ==
  IF kind # "qmk" /\ (Args.page # None \/ Args.usage # None) THEN Refused
  ELSE CASE kind = "uart" ->
              IF ~Args.port \/ Args.vid # None \/ Args.pid # None THEN Refused ELSE [path |-> "port"]
         [] kind = "usb" ->
              OpenHid(<<Given(Args.vid, BootId[1]), Given(Args.pid, BootId[2])>>, BootUsage)
         [] kind = "qmk" ->
              IF Args.vid = None \/ Args.pid = None THEN Refused
              ELSE OpenHid(<<Args.vid, Args.pid>>,
                           <<Given(Args.page, TunnelUsage[1]), Given(Args.usage, TunnelUsage[2])>>)

OpenTransport ==
  /\ At("open")
  /\ LET kind == TransportKind(Args) IN
     IF Conflicts(Args) \/ Choice(kind) = Refused THEN Exit(1)
     ELSE cli' = [cli EXCEPT !.pc = "hello", !.kind = kind, !.opened = Choice(kind)]

\* Nobody there, or not allowed; no HELLO; or an error on the way
OpenFails == At("open") /\ Exit(1)
HelloFails == At("hello") /\ Exit(1)

-----------------------------------------------------------------------------
(* The flows: what is asked of the device after HELLO *)

Request(cmd, at, len) == [cmd |-> cmd, at |-> at, len |-> len]
Boot(cmd) == Request(cmd, 0, 0)
CeilDiv(a, b) == (a + b - 1) \div b

\* check_in_region: for what is only read
InRegion(info, at, len) == at >= info.app_start /\ at + len <= info.app_end

\* write_window, check_in_write_window: for what is changed
InWriteWindow(info, at, len) ==
  /\ info.write_capacity # 0
  /\ at >= info.write_base /\ at + len <= info.write_base + info.write_capacity

\* check_committable: COMMIT attests what starts at the write base.
Committable(info, img) ==
  img.base = info.write_base /\ InWriteWindow(info, img.base, Len(img.bytes))

\* plan_flash and execute_flash.  Without --force the plan is printed.
FlashRequests(info, img) ==
  LET len   == Len(img.bytes)
      erase == CeilDiv(len, info.erase_block) * info.erase_block
  IN
  IF ~Committable(info, img) \/ ~InWriteWindow(info, img.base, erase) THEN Refused
  ELSE IF ~Args.force THEN <<>>
  ELSE <<Request("ERASE", img.base, erase), Request("WRITE", img.base, len),
         Request("COMMIT", img.base, len)>>
       \o (IF info.crc_live /\ ~Args.no_verify THEN <<Request("CRC", img.base, len)>> ELSE <<>>)
       \o (IF ~Args.no_boot THEN <<Boot("BOOT_APP")>>
           ELSE IF cli.kind = "qmk" THEN <<Boot("BOOT_STAY")>> ELSE <<>>)

\* erase: --all is the window, otherwise the range that was asked for
EraseRequests(info) ==
  LET start == IF Args.all THEN info.write_base ELSE Args.start
      len   == IF Args.all THEN info.write_capacity ELSE Args.length
  IN
  IF \/ len = 0 \/ start % info.erase_block # 0 \/ len % info.erase_block # 0
     \/ ~InWriteWindow(info, start, len)
  THEN Refused
  ELSE IF Args.force THEN <<Request("ERASE", start, len)>> ELSE <<>>

\* bless: the image is already in flash.
BlessRequests(info, img) ==
  IF Committable(info, img) THEN <<Request("COMMIT", img.base, Len(img.bytes))>> ELSE Refused

\* verify: what the device runs, if the file tells which that is
VerifyRequests(info, img) ==
  IF InRegion(info, img.base, Len(img.bytes))
  THEN <<Request("CRC", img.base, Len(img.bytes))>> ELSE Refused

\* The image a flow is about
Chosen(info) ==
  IF ~FamilyFits(cli.src, info.chip_family) THEN Refused
  ELSE IF Args.cmd = "verify" THEN ForRunningImage(cli.src, info.write_base)
  ELSE ForBase(cli.src, info.write_base)

Requests(info) ==
  CASE NeedsFile /\ Chosen(info) = Refused -> Refused
    [] Args.cmd = "flash"  /\ Chosen(info) # Refused -> FlashRequests(info, Chosen(info))
    [] Args.cmd = "bless"  /\ Chosen(info) # Refused -> BlessRequests(info, Chosen(info))
    [] Args.cmd = "verify" /\ Chosen(info) # Refused -> VerifyRequests(info, Chosen(info))
    [] Args.cmd = "erase" -> EraseRequests(info)
    [] Args.cmd = "boot"  -> <<Boot(IF Args.stay THEN "BOOT_STAY" ELSE "BOOT_APP")>>
    [] Args.cmd = "probe" -> <<>>

HelloAnswered(info) ==
  /\ At("hello")
  /\ IF ~HelloAccepted(info) THEN Exit(1)
     ELSE IF Requests(info) = Refused THEN Exit(1)
     ELSE cli' = [cli EXCEPT !.pc = "ask", !.info = info, !.todo = Requests(info)]

-----------------------------------------------------------------------------
\* exit_code_for: only a checksum that does not match is 2.
ExitCodeFor(answer) == IF answer = "mismatch" THEN 2 ELSE 1

\* The device agrees; or CRC or COMMIT says that flash holds something else;
\* or there is any other status, no answer, or an error.
Asked(answer) ==
  /\ At("ask") /\ cli.todo # <<>>
  /\ answer = "mismatch" => Head(cli.todo).cmd \in {"COMMIT", "CRC"}
  /\ LET next == [cli EXCEPT !.todo = Tail(@), !.asked = Append(@, Head(cli.todo)), !.said = answer]
     IN cli' = IF answer = "ok" THEN next
               ELSE [next EXCEPT !.pc = "exited", !.exit = ExitCodeFor(answer)]

Done == At("ask") /\ cli.todo = <<>> /\ Exit(0)

\* what is not there yet
Nothing == <<>>

Start(run) ==
  [pc |-> "parse", args |-> run.args, world |-> run.world, src |-> Nothing, kind |-> "none",
   opened |-> Nothing, info |-> Nothing, todo |-> <<>>, asked |-> <<>>, said |-> "none",
   written |-> <<>>, exit |-> None]

CliInit == \E run \in Runs : cli = Start(run)

CliNext ==
  \/ ParseArgs \/ LoadFile \/ NoFile \/ CreateBundle \/ BundleInfo \/ OpenTransport
  \/ OpenFails \/ HelloFails \/ \E info \in Infos : HelloAnswered(info)
  \/ \E answer \in {"ok", "mismatch", "failed"} : Asked(answer)
  \/ Done

CliSpec == CliInit /\ [][CliNext]_cli

-----------------------------------------------------------------------------
(* Properties *)

Loaded == cli.src # Nothing
Opened == cli.opened # Nothing

\* A .hex file loads as exactly what its records say: every data byte at its
\* address under the base in force, no address twice, 0xFF elsewhere
\* (hex.rs:193-196).
HexImageIsTheRecords ==
  NeedsFile /\ Loaded /\ Args.file.ext = "hex" =>
    LET lines == Args.file.lines
        data  == DataOf(lines)
        img   == cli.src.images[1]
    IN /\ \A i \in DataLines(lines) : img.base <= Address(lines, i, 1)
       /\ \A d \in data, e \in data : d.at = e.at => d = e
       /\ \A d \in data : img.bytes[d.at - img.base + 1] = d.byte
       /\ \A k \in DOMAIN img.bytes :
            (\A d \in data : d.at # img.base + k - 1) => img.bytes[k] = Erased

\* A file that was cut short, lost a newline or a colon, or was changed in one
\* place is never flashed (hex.rs:11-14, bundle.rs:34-36).  A bundle must still
\* be known for one: without its magic it is a flat binary like any other.  What
\* spells the same numbers (case, space around a line, `+' for a leading zero) is
\* no damage.
DamagedFileIsRefused ==
  NeedsFile /\ Args.file.damaged /\ (Args.file.ext = "hex" \/ LooksLikeBundle(Args.file.raw)) =>
    ~Loaded

\* What is taken from a bundle is a build for every base, in order and apart
\* from each other, whoever made the file (bundle.rs:235-237).
ParsedBundleIsSound ==
  Loaded /\ ~cli.src.single =>
    LET images == cli.src.images IN
    /\ \A i, j \in DOMAIN images : i < j => images[i].base + Len(images[i].bytes) <= images[j].base
    /\ \A i \in DOMAIN images :
         /\ images[i].base % Align = 0 /\ Len(images[i].bytes) % Align = 0
         /\ ForBase(cli.src, images[i].base) = images[i]

\* What `bundle create' has written the tool reads back, with every image under
\* its base; what it leaves of a file when it says that it failed is refused
\* (bundle.rs:95-97, 224-227, main.rs:320-327).
BundleReadsBack ==
  LET b == ParseBundle(cli.written) IN
  cli.written # <<>> =>
    IF cli.exit = 1 THEN b = Refused
    ELSE /\ b # Refused
         /\ \A i \in DOMAIN Args.images :
              \E j \in DOMAIN b.images : b.images[j] = SpecImage(Args.images[i])

\* None is opened that an option of the command line contradicts; no option
\* is silently ignored; and what is opened is the interface that was looked for,
\* or the only one that does not say what it is (main.rs:363-382,
\* hidsel.rs:35-41, 101-107).
OpensWhatWasAskedFor ==
  Opened =>
    LET a == Args
        o == cli.opened
    IN
    /\ a.transport \in {None, cli.kind} /\ (cli.kind = "qmk" => a.transport = "qmk")
    /\ a.port <=> cli.kind = "uart"
    /\ (a.page # None \/ a.usage # None) => cli.kind = "qmk"
    /\ (a.serial # None \/ a.vid # None \/ a.pid # None) => cli.kind # "uart"
    /\ cli.kind # "uart" =>
         /\ a.serial \in {None, o.serial} /\ a.vid \in {None, o.id[1]} /\ a.pid \in {None, o.id[2]}
         /\ \/ o.usage = IF cli.kind = "usb" THEN BootUsage
                         ELSE <<Given(a.page, TunnelUsage[1]), Given(a.usage, TunnelUsage[2])>>
            \/ o.usage = UnknownUsage
         /\ \A i \in cli.world :
              i.id = o.id /\ a.serial \in {None, i.serial} /\ i.usage = o.usage => i.path = o.path

\* Whatever the file and the device: what is changed stays in the slot the
\* device offers, in whole blocks, and only with --force; what is attested was
\* made for that base; and the build of a bundle that is verified is not the one
\* for the slot about to be overwritten (flows.rs:199-223, 506-509).
RequestsFitTheDevice ==
  \A k \in DOMAIN cli.asked :
    LET q == cli.asked[k]
        info == cli.info
        end  == info.write_base + info.write_capacity
    IN
    /\ q.cmd \in {"ERASE", "WRITE", "COMMIT"} => q.at >= info.write_base /\ q.at + q.len <= end
    /\ q.cmd \in {"ERASE", "WRITE"} => Args.force
    /\ q.cmd = "ERASE" => q.len % info.erase_block = 0
    /\ q.cmd \in {"WRITE", "COMMIT"} =>
         /\ q.at = info.write_base
         /\ \E i \in DOMAIN cli.src.images :
              cli.src.images[i].base = q.at /\ Len(cli.src.images[i].bytes) = q.len
         /\ cli.src.single \/ cli.src.family \in {Unspecified, info.chip_family}
    /\ q.cmd = "CRC" /\ Args.cmd = "verify" /\ ~cli.src.single => q.at # info.write_base

\* Exit status 2 says that flash holds something else, and nothing but that; 0
\* that all that was asked for was done (main.rs:520-532).
ExitTellsWhatHappened ==
  At("exited") =>
    /\ cli.exit = 2 <=> cli.said = "mismatch"
    /\ cli.exit = 0 /\ Opened => cli.said \in {"none", "ok"} /\ cli.todo = <<>>
    /\ cli.exit = 0 /\ NeedsFile => Loaded /\ Opened
    /\ cli.said # "none" => Opened /\ (NeedsFile => Loaded)
=============================================================================
