# OpenBoot in TLA+

OpenBoot is an 8 KiB A/B bootloader for the WCH CH57x and CH59x parts
(`src/firmware`, C) with a host command-line tool (`src/tools`, Rust) that
speaks the OBP protocol to it over UART, USB HID or a keyboard's QMK tunnel.
The device must survive a power cut at any instant of an update, on a part
whose memory-mapped flash (XIP) can serve stale data after every controller
write (CH57x, called F26 in the sources). This directory specifies the
program, model-checks the specification with TLC and proves its main theorems
with TLAPS.

Paths below are relative to `src/`.

## 1. Inventory

### Firmware

| Part | State | Operations | Interacts with |
|---|---|---|---|
| Boot decision (`firmware/core/boot_decision.c`) | none (reads flash) | `ob_slot_capacity`, `ob_record_load`, `ob_record_store`, `ob_boot_select`, `ob_boot_app_valid`, `ob_boot_decide`, `ob_idle_elapsed` | called by the main loop at reset and by the engine; reads XIP |
| Engine (`firmware/core/boot_core.c`) | session (`open`, `disarmed`, stream run, erase bitmap), `rec_state`, committed tuple, `active_slot`, `write_slot`, `highest_gen` | HELLO, ERASE, WRITE, CRC, COMMIT, BOOT | flash driver, boot decision, main loop |
| Main loop (`firmware/core/main.c`) | `idle_start`, `busy_polls` | poll, handle, respond, reset; idle auto-boot | transport, engine, tick counter |
| UART transport (`firmware/transports/uart_transport.c`) | parser state, position, need, idle count | SOF hunt, collect, inter-byte timeout, send, drain | main loop, UART FIFO |
| USB transport (`firmware/transports/usb_transport.c`) | `rx_state`, `tx_busy`, `pend_addr`, `dev_config`, the two halves of the EP1 buffer | event pump, SETUP, report hand-over, bounded send, detach | main loop, USB engine |
| Flash driver (`firmware/ports/flash_ch5xx.c`) | the gate | erase, program by page, verify through the controller | flash controller |
| Ports, startup, linker script | hardware registers | clock, UID, delay, jump, reset | everything above |
| Application companion (`firmware/app/openboot_app.c`) | the request word in RAM | `openboot_request_update`, `openboot_record_valid`, `openboot_get_record` | boot decision, across a reset |
| Factory composer (`firmware/compose_factory.py`) | none | builds the flash a device is born with | boot decision |

### Host tool

| Part | State | Operations | Interacts with |
|---|---|---|---|
| Client (`tools/src/client.rs`) | `seq`, attempts made | one method per command; up to 3 attempts with fresh `seq`; BOOT once | transport |
| Transport seam (`tools/src/transport/mod.rs`) | none | send, discard stale or corrupt frames, accept a frame-error report | framing, HID |
| Flows (`tools/src/flows.rs`) | position in the plan | probe, flash, verify, erase, boot, bless | client, image |
| Framing and UART (`tools/src/transport/{framing,uart}.rs`) | hunt position | SOF hunt on the host side, write pacing | serial port |
| HID and selection (`tools/src/transport/{hid,hidsel}.rs`) | none | report I/O, choice of one device | OS |
| QMK tunnel (`tools/src/transport/qmk.rs`) | `passthrough`, `entered`, `booted`, receive queue | handshake, enter, probe, frame pump, teardown on drop | keyboard firmware, module |
| Image, HEX and bundle readers (`tools/src/{image,hex,bundle}.rs`) | parser state | load, assemble, select the build for a slot | flows |
| Codec (`tools/src/proto/`), command line (`tools/src/main.rs`) | none | encode, decode, arguments, exit codes | all |

### What is hard here

- *Crashes.* Power may go before, during or after each flash operation; RAM is
  lost, and flash keeps a partial result. Nothing in a test suite cuts power
  between every two operations of every sequence of commands.
- *Stale reads.* After the first controller write of a power cycle every block
  may read, through XIP, as it was at reset. Each decision the engine takes
  from flash must be right for every mixture of old and new blocks.
- *Partial failures.* An erase loop that fails in its second block, a failed
  invalidation, a record write that fails after it has landed.
- *Long legal sequences.* Two updates in one session, in one power cycle, a
  second HELLO in the middle, replays of COMMIT, BOOT in the middle of an
  update, generations up to their ceiling.
- *Loss and delay.* Lost, corrupted and late frames and the retries they cause;
  the 10 s auto-boot against a host that is about to say HELLO.
- *Liveness.* A device must not be kept out of its application by traffic that
  opens no session; a host must not wait for ever; a tunnel must be given back.

### What makes each part correct

- Boot decision: it launches the valid slot of the highest generation; a cut
  record never loads; no tie.
- Engine: a valid record describes its slot; the active slot is out of reach;
  an application is never lost; BOOT never lies; COMMIT means installed.
- Main loop: the answer precedes the reset; a device without a session leaves
  for its application.
- Transports: every complete frame is delivered once and whole, every partial
  one is dropped, and the parser locks again.
- Client and flows: a retry does no harm; success reported is success on the
  device; every flow ends.
- Tunnel: every exit gives the keyboard back.

## 2. Modules

| Module | Stands for |
|---|---|
| `BootDecision` | Flash words, records and slots as data; validity of a record and of an image; `ob_boot_select` as the loop it is, beside its reference definition (`IsBest`, `IsHighest`) |
| `BootCore` | The engine over fallible flash, stale XIP and power cuts, with the reset path, the idle auto-boot, and the running application around it |
| `ABUpdate` | The abstract promise of A/B update: what a reset would launch, what the device answers for, and what a COMMIT is installing |
| `HostClient` | The host tool: attempts, retry policies, `seq`, matching of answers, and each flow as the requests it makes |
| `HostUpdate` | `HostClient` and `BootCore` together over a link that loses, corrupts and delays frames |
| `MCHostUpdate` | The builds of two versions for the runs of `HostUpdate` |
| `MainLoop` | The loop around the engine: ticks that wrap, the idle deadline, busy polls, the answer and its drain, reset and jump |
| `UsbLink` | Endpoint 1 of the USB transport, its interface engine, and a host on the bus |
| `FlashDriver` | The flash driver, transaction by transaction, and the die |
| `MCFirmware` | Small instances of the three modules above, side by side |
| `QmkTunnel` | The tool's tunnel transport, the keyboard's bridge and the module behind it |
| `HostWire` | Frames, HID reports, the device description and the tool's checks of it |
| `HexImage` | Intel HEX: lines, records, assembly; and what a file means by the format |
| `SlotBundle` | The bundle file in both directions, and the choice of a build for a slot |
| `HostCli` | One run of the command line tool, from its arguments to its exit status |
| `SofLine` | One serial line: the tool's paced writes, and both SOF parsers on it |
| `MCHostTool` | Small files, command lines, devices and frames for `HostCli` and `SofLine` |
| `BootCoreProofs` | Proofs: the loop of `ob_boot_select` is its reference definition; the engine's inductive invariant and its properties; that it implements `ABUpdate` |
| `MainLoopProofs`, `UsbLinkProofs`, `FlashDriverProofs` | Proofs: the safety properties of these three |
| `HostUpdateProofs` | Proofs: the tool's requests fit the device, and a device driven by the tool is one of `BootCore`'s |
| `HostAnswersProofs` | Proofs: what the tool was told stays true |
| `QmkTunnelProofs` | Proofs: the safety properties of the tunnel |
| `HostToolProofs` | Proofs: the serial line (`SofLine`), and what a run of the command line tool opens, asks and says (`HostCli`) |

### How `BootCore` corresponds to the code

The firmware is a single polling thread without interrupts, so a handler is
atomic except that the device can die in it. The model therefore splits a
handler at its flash operations and nowhere else. `pc` names the operation
about to run:

    ERASE    Erase  [disarm]  erase ... erase       do_erase, mutation_begin
    WRITE    Write  [disarm]  program               do_write
    COMMIT   Commit recErase  recProgram            do_commit, ob_record_store

`Erase`, `Write` and `Commit` carry the handler's tests and everything it does
before its first flash operation (poisoning the stream, distrusting the
record); `Disarm`, `EraseBlock`, `Program`, `RecErase` and `RecProgram` carry
an operation that succeeds with all the handler does next, the last one with
its return; `MutationFails` and `RecStoreFails` carry a ROM error, with the
partial result it may leave. `PowerCut` may strike in every state, and leaves
what the pending operation may leave. A refused request changes no state and
is a stuttering step; its answer appears in `HostUpdate`.

Verification: `ob_flash_verify` reads through the controller, never through
XIP, so `Program` compares with the flash itself. A verify that fails answers
E_FLASH with the words programmed, which is `Program` with `verified` false.
`RecProgram` has no such case, because it programs a block erased one step
earlier; an error is `RecStoreFails`.

Data:

- A flash word is the set of its cleared bits. Erased is `{}`, programming is
  union, and an operation cut short leaves any word in between. The erased
  pattern of the parts is not all ones, but is the word a sector erase
  leaves, which is all that the code tests for.
- A CRC is the sequence of words it covers: distinct images have distinct
  CRCs. This is the assumption the design itself makes
  (`docs/AB-UPDATE.md:123-125`).
- A record block is blank, torn (it does not load) or a sealed record. A
  record cut in the middle is torn; it is not a valid record by chance.
- Lengths and addresses count words from the base of a slot; the alignment
  tests hold by construction, and the geometry tests are those of the code.
- `GenLimit` is 0xFFFFFFFF, and generations wrap modulo `GenLimit + 1`.
- `xipImg` and `xipRec` hold flash as it was at reset. Each block of a slot
  reads, at each look, either as it is or as it was then (`XipImages`,
  `XipCells`); on a `CRC_LIVE` part the two are kept equal. This is wider than
  any cache: every answer the hardware may give is among them.

History variables: `promised` (BOOT was answered OK, the reset is pending) and
`erased` (the blocks this session really erased). Neither is read by the
actions that model code.

### How `HostClient` and `HostUpdate` correspond to the code

The tool is a straight-line program: HELLO, then the requests that the flow
makes from its answer, each repeated until it is answered. `host.todo` is what
is left to ask, and `Plan` computes it once HELLO has named the slot, as
`plan_flash`, `execute_flash`, `erase_region` and `Source::for_base` do (a flow
carries a bundle with a build for either slot). One iteration of
`BootClient::run` is `Send` (`attempt`, with `next_seq`) followed by one of
`FrameError`, `Refused`, `Accepted`, `Timeout`, with any number of
`DiscardStale` in between (`xfer`). `host.committed` is the moment at which the
tool prints "commit OK".

The link is two queues of frames. `Send` and `Answer` may lose the frame,
a request may arrive `Garbled` (the device answers with a frame-error report),
and a frame may stay in its queue past any deadline. A garbled answer is a lost
one, since `xfer` drops what it cannot decode. Neither UART nor HID reorders or
duplicates frames, and neither does the model. Opening the link drains what
waits for the host (`uart.rs:117`), but what the device still has to read, or is
working on, survives a restart of the tool.

The device takes a frame when it is idle (`Serve`), runs the actions of
`BootCore` for it, and answers in the step in which the handler returns
(`FlashDone`, `FlashFails`, or `AnswerNow`). Every step of `HostUpdate` is a step
of `BootCore` or leaves its variables alone. A frame that reaches a device which
is not in its bootloader is lost, and a reset loses what was not read.

`faults` counts flash errors and power cuts; properties about a device that does
not fail refer to it, and no action that models code reads it except for its
bound.

### The assumption on images

`BlankFirstWord` says whether hosts may COMMIT an image whose first word is
the erased pattern. The code does not refuse one (finding 1), so the
properties that fail because of it are checked and proved for hosts that do not.

### How `MainLoop` corresponds to the code

`pc` walks through the body of `main`'s loop: `poll`, `send`, `busy`, `idle`,
`sleep`, or out of it (`quiesce` and `jump` wait in `tr_deinit`; `reset`, `app`).
Of the engine the loop sees only whether a session is open and whether a slot
boots, so `PollFrame` lets a frame change these as `BootCore` may: nothing
without a session, anything with one. Time passes where the code spends it: a
frame takes up to `HandleTime`, a pass ends with one tick. `idle` and `mutated`
are histories. The UART's bounded waits (`UART_TX_TIMEOUT_POLLS`) are three
orders of magnitude above what the wire needs and expire only on a wedged
peripheral (`uart_transport.c:121-126`); the model waits for the wire.

### How `UsbLink` corresponds to the code

The record `usb` holds the variables of `usb_transport.c` and the fields of
`R8_UEP1_CTRL`: response and toggle, for each direction. `rx_state` 0, 1, 2 is
`idle`, `pending`, `core`. The interface engine acts between any two steps of the
firmware when the endpoint answers ACK and no transfer flag is set
(`RB_UC_INT_BUSY`), and it flips the toggles itself (`RB_UEP_AUTO_TOG`). All of
`usb_process` is one step, because the engine is held off while it runs. Outside
it nothing holds the engine off: `R8_UEP1_CTRL` is read, changed and written back
at lines 321 (the report's endpoint is given back), 341 (an answer is offered) and
355 (the answer is given up), and each of these is two steps, `Load` and `Store`. A
packet that completes in between has its toggle put back. At lines 321 and 355
that can happen to a report when the pipe was cleared while the core held the
last one (the endpoint is then at ACK already, line 185); at line 341 only after
one of these. The host
keeps the other toggle of each pipe, repeats a packet whose handshake it missed,
drops one it has already, clears a pipe, and resets the bus. A short packet
changes the head of the buffer and leaves the tail. The core's answer carries
what was in the buffer when it had finished reading.

### How `FlashDriver` corresponds to the code

`Call` is the parameter test and `ob_fl_open`; `EraseBegin` and `WriteBegin` are
one turn of the loops (WREN, opcode, address, data, and the end of the
transaction with which `ob_fl_wait` begins); `WaitPoll` is one status poll; `Close`
is `ob_fl_close`. `InfoRead` is either read of identification data (unique ID and
ROM information), which open and close the gate around a read. The die may finish at any time or never, ignores WREN while
it is busy, and wraps a program within its page. A call that begins while the
die is still busy after a timeout may answer OK and have done nothing; the
sources take such a die for dead (`flash_ch5xx.c:86-90`), and the property
speaks of calls that find the die idle.

### How `QmkTunnel` corresponds to the code

`host.pc` is where the tool is in `with_link`, `handshake`, `enter`,
`probe_until_alive`, the client's HELLO, a flow, `boot` and `drop`; `passthrough`,
`entered` and `booted` are the fields of `QmkTransport` that the teardown reads.
Time is counted in ticks of one probe; the deadlines of the tool, of the
bootloader and of the keyboard's watchdog are ordered as their values are, and a
party acts within the tick in which it can. One report carries one control
record or one whole frame (frames are split into reports in the code, and
reports on one pipe stay in order). What a flow asks between HELLO and its end is
one step (`FlowEnds`), since `HostUpdate` has it. The keyboard and the module are
external: the keyboard's firmware is not in this repository, and it does what
`qmk.rs` and its comments rely on. `StartTool` waits until what an earlier run
wrote has reached the module and the answers to it have left the bridge; a tool
is started by hand, and what still waits for the tool is drained as `open_hid`
does.

Every write and read of a report may fail. Up to the teardown the error ends the
run (`IoError`); a flow's BOOT is noted in `booted` before its report is written, so
that the run may end with a BOOT noted that was never sent (`BootUnwritten`, lines
500-502 and 517). The teardown passes over its own errors, as `let _ =` does:
`DropBootUnwritten`, `DropUnread` and `ExitUnwritten` (lines 545, 547, 554). Once one
report has failed any other of that run may fail too (`faults.broken`), as when the
keyboard is unplugged. `causes` remembers why a tunnel may leave its module parked:
the tool was killed, a BOOT was lost or could not be written, a HELLO succeeded
whose answer was not heard. `unsaid` remembers an EXIT that could not be written.

### How the modules of the host tool correspond to the code

`HexImage` and `SlotBundle` are operators. `ParseIntelHex` folds `FeedLine` over
the lines and `Finish` places the records, as `parse_intel_hex` does with its
`Accumulator`; a line is the numbers its digits spell, or what is wrong with it.
`DataOf` and `Address` say by the format, not by the code, which byte a file puts
where; the two are compared. `ParseBundle` and `EncodeBundle` work on the cells
of a file (a header, entries of base, offset, CRC and length, the payloads, a
CRC of it all); the CRC is a checksum that tells apart what the runs change.
`LoadSource`, `ForBase`, `ForRunningImage` and `FamilyFits` are the functions of
those names.

`HostCli` is a run: parse the arguments, load the file, choose and open the
transport, HELLO, and then the requests of the command for what the device said
(`Requests`), which may fail at any one. Only COMMIT and CRC can be answered with a
mismatch, and BOOT may stay unanswered as `HostClient` has it. Which of several
errors is reported, and all wording, is left out. `CreateBundle` writes the file
whole or, when the write fails, any part of it.

`SofLine` sends frames and stray bytes over a line on which time passes in
polls of the device. `DevByte` and `DevEmptyPoll` are the parser of
`uart_transport.c`, `HostByte` and `HostGap` that of `framing.rs`, and
`WritePlan` with `PauseAfter` the chunked writes of `uart.rs`. `got` is the frame the last
call returned. Both parsers measure a gap on the line's one clock. The real host
measures it after its USB scheduling (`framing.rs:9-14`), which may merge gaps or
stretch them; what is said of both parsers holds for gaps that both see alike.

## 3. Properties and runs

Geometry of the engine's runs: two slots of two words, one bit per word, `GenLimit` 4
(generations 1 to 3, so that the ceiling is reached). Two words are the least
with a first word that decides bootability and a second that a WRITE may
break, and two blocks of one word the least in which an erase loop can fail in
between. One bit per word gives every relation between an old and a new word
(cleared, kept, still to be cleared). Nothing else is bounded: any number of
sessions, power cuts and failures may occur.

| Run | Shows |
|---|---|
| `core_f26` | A part with stale XIP, two blocks of one word per slot. The type invariant, five state invariants and three action properties below, in every order of commands, failures and cuts |
| `ab_f26` | The same part, attesting the whole image at boot, with one block of two words, where an erase hits the middle of a run: the engine implements `ABUpdate` |
| `host_f26` | Two flashes of a part with stale XIP, each of two ERASEs, two WRITEs and a COMMIT, three attempts each, with one flash error or power cut in all: the type invariant and three invariants of the composition |
| `host_flows` | Every flow of the tool, once, against a part with a live CRC, two attempts each, one flash error or power cut: both liveness properties |
| `firmware` | The main loop under any traffic, the USB endpoint against a faulty bus, the flash driver on a slow die: six invariants and two liveness properties |
| `qmk_tunnel` | Two uses of the tunnel, with noise after the module's reset, one kill and one mishap (a run whose reports fail, or a lost, garbled or late frame): six invariants and one liveness property |
| `host_tool` | One run of the tool for each of some 9,000 command lines and files, against eleven descriptions of a device; and frames, noise and pauses on a serial line: nine invariants |
| `commit_replay` | (violation) Finding 2 |
| `tunnel_exit` | (violation) Finding 3 |
| `tunnel_flow_error` | (violation) Finding 5 |
| `usb_clear` | (violation) Finding 4 |
| `blank_first_word` | (violation) Finding 1 |

- `RecordAttestsImage`: at every instant a record that loads describes the
  words its slot holds.
- `BootPromiseKept`: BOOT answers OK only if the reset lands in an application,
  whatever XIP served.
- `FlashStateMeansCoherent`: `OB_REC_FLASH` implies a coherent XIP, the licence
  `attest_via_xip` relies on.
- `NoGenerationTie`: no two records that load share a generation.
- `FreshMeansInstalled`: after a COMMIT answered OK the reset path launches
  exactly the image it named, so an exact replay may be answered blindly.
- `StaysBootable`: a device that has an application still has one after any step.
- `ProgramsErasedBlocksOnly`: a word gains cleared bits only in a block that
  this session erased, also across the slot flip.
- `ActiveSlotUntouched`: no step of a session changes the slot the device
  booted from or would boot from.
- `ABSpec`: refinement of `ABUpdate`. What would launch is always what the
  device answers for or, between an E_FLASH and the next mutation, the attested
  image whose record landed nevertheless; it changes in one step, to the image
  of a COMMIT; nothing else ever starts.

- `ReportedMeansInstalled`: once the tool has printed "commit OK", a reset at
  any moment launches exactly the build it sent.
- `AckedMeansWritten`: what the device acknowledged to a flash is in flash for
  the rest of the flow, whatever was lost, late or sent again.
- `RetriesAreHarmless`: while the device neither fails nor loses power, a flash
  is never refused; that is, a request sent twice is as good as one sent once.
- `FlashedAppStarts`: the BOOT that ends a flash, once answered, is followed by
  the start of the build that was sent, even through a power cut.
- `EveryRunEnds`: every flow ends.

The surroundings of the engine (`firmware`):

- `DeadlineHolds`: a device that could start its application is not kept from
  it past the deadline by traffic that opens no session, wherever the counter
  wraps; `WindowIsWhole`: nor is the window of the host cut short.
- `NeverJumpsDirty`: the jump that bypasses the reset never happens after flash
  was changed in the same power cycle.
- `AnswerPrecedesReset`: what was answered is on the wire before the chip resets.
- `BootableLeaves`: a bootable device in which nobody opens a session leaves.
- `AnswersMatchReports`: every answer the host takes over USB is to one whole
  report it sent, in order and once. Two exceptions are named in the model
  (`slips`): finding 4, and a report that comes in between the read and the
  write of line 321 or 355 and is answered twice, because its toggle is lost.
- `UsbNeverWedges`: a packet that the host keeps offering is taken.
- `FlashCallIsWhole`: a flash call leaves the gate closed however it ends, and on
  a die that was idle answers OK only when every word of its range is as asked,
  and never touches another.

The tunnel (`qmk_tunnel`):

- `ParkedOnlyByAccident`: a module is left in its bootloader with the auto-boot
  off only for one of the reasons in `causes`.
- `KeyboardGivenBack` and `KeyboardComesBack`: a tool that noted its tunnel and was
  not killed gives the keyboard back unless the EXIT itself cannot be written; and
  the keyboard comes back in any case, by its watchdog if by nothing else.
- `FlowHoldsModule`, `ProbesBeatAutoBoot`: no flow runs on a module that may
  leave, and the probes end before the auto-boot.
- `ClientHearsItsOwn`: a late answer to a probe is never taken for the client's.

The tool (`host_tool`):

- `HexImageIsTheRecords`: a .hex file loads as what its records say, or not at all.
- `DamagedFileIsRefused`: a file that lost or changed something is never
  flashed. A bundle whose magic is what was damaged is a flat binary to the tool
  (`bundle.rs:166-169`). What does not change the numbers a line of HEX spells is no
  damage: the case of its digits, space around it, and `+` for a leading zero, which
  `from_str_radix` takes. The image flashed is then the same.
- `ParsedBundleIsSound`, `BundleReadsBack`: whoever made a bundle, its builds are
  aligned, apart and found by their base; what `bundle create` writes can be read, and
  what it leaves of a file that it fails to write is refused.
- `OpensWhatWasAskedFor`: what is opened contradicts no option.
- `RequestsFitTheDevice`: what is changed lies in the slot the device offers, and
  the build is the one for it, whatever the file and the device. Flash is erased and
  written only with `--force`; the COMMIT of `bless`, which changes the record, asks
  for none, and a single image carries no family to compare.
- `ExitTellsWhatHappened`: 2 means that flash differs, 0 that all was done.
- `HostMirrorsDevice`: both parsers of the line are in the same place after any
  bytes and pauses, unless a deadline cut the tool short.
- `QuietFrameArrives`: a frame sent after a quiet gap arrives at both ends,
  whatever went before, in however many writes.

Bounds of the host's runs. `MaxRuns` is how often the tool is started: two, so
that the second run meets a device left in the middle of an update and the
frames of the first (`host_f26`); one where every flow is explored
(`host_flows`). `LinkCap` is the number of frames in flight in one direction:
two, a stale one and a current one. `SeqMod` is 256 in the code and 4 in the
runs, so that `seq` wraps within a flow; what matters is that it exceeds the
number of frames in flight. `MaxFaults` is one: a second error or cut only
starts again from a state that the engine's runs reach with any number of them.
`MaxAttempts` is 3 in the code and in `host_f26`. The builds of the two versions
differ for each slot, so that a mix of old and new is seen.

Bounds of `firmware`. The deadline is a third of the counter and every start
value of the counter is tried, so that the difference wraps; two busy polls
are skipped before one is not; an answer is longer than the transmit FIFO. On
USB three reports and two faults: a lost handshake and its repetition is one, a
packet before, one during and one after it are three. The invariants were also
checked with four of each. A flash page is four words and a block two pages;
ranges begin and end within pages, span pages and blocks, and run over the end
of the address space; two calls, so that the second may meet a busy die.

Bounds of `qmk_tunnel`. Two uses of the tunnel, so that the second meets what
the first left; the tool may be killed once. `MaxMishaps` counts runs in which
reports fail, any number of them in such a run, and frames lost, garbled or late
once the line is quiet; while it is noisy they cost nothing. One is enough for each
of them to meet every place of a run; the invariants were also checked with two.
The acknowledgement, the first
probe and the last, the auto-boot and the watchdog are as few ticks as their
order allows (`TunnelAssumption`).

Bounds of `host_tool`. A byte has sixteen values, an image at most twelve, a
bundle at most three builds, the application region two slots of eight bytes.
The files are all those that differ in one place from a sound one, are cut
short, or are bundles of another maker with one field changed and the CRCs set
right. A frame carries at most one byte; noise is the two SOF bytes and two
others, and an inter-byte timeout is six polls.

Deadlock is checked in the engine's passing runs and in `firmware`. It is not in
`host_tool`, where a run of the tool ends, in `qmk_tunnel`, where the tool is
started a bounded number of times, nor in the runs of `HostUpdate`: when the tool has been started `MaxRuns` times and the device waits in
its bootloader or runs its application, nothing is left to happen.

Fairness. The engine's properties are safety properties and assume none.
`FairUpdate` assumes weak fairness of the host's steps while a flow runs
(every wait of `xfer` has a deadline, so the host goes on whatever the device
does) and of the boot decision after a reset (straight-line code). No fairness
is assumed of the link, of the device's handlers, or of the idle auto-boot.
`LoopSpec` assumes that the processor runs and the wire takes bytes, and nothing
of the host. `UsbSpec` assumes that the firmware runs and that the driver of
the host repeats its packet, which is what USB does with a NAK; nobody need
fetch an answer. `TunnelSpec` assumes that tool, keyboard and module each go on
and that time passes; every wait of the tool and the keyboard's watchdog are
bounded by time. `MCFirmware` states the first two for the part that a
behaviour is about.

### Findings

1. `blank_first_word`. COMMIT accepts an image whose first word is the erased
   pattern and swaps the slots; the reset path will not launch it. The old
   slot, the only bootable one, becomes the write slot, and the next ERASE
   takes its record. `docs/AB-UPDATE.md:105-107` promises that a bootable slot
   exists at every instant.
2. `commit_replay`. `docs/PROTOCOL.md:458-459` says an exact replay of a COMMIT
   answers OK. The code tests the length against the capacity of the write slot
   first (`boot_core.c:527`), and the COMMIT has just moved the write slot. On a
   die that is too small for slot B its capacity is 0, and the replay is
   answered E_ADDR: the tool reports a failure for an installed image. On a die
   that holds both slots (`host_f26`) the replay is harmless.
3. `tunnel_exit`. `qmk.rs:528-531` says that every exit path puts the module
   back, and 540-544 that a module whose probe never landed has a live idle timer.
   A tool that was killed leaves an open tunnel and a module held by its session.
   The next run adopts that tunnel with the keyboard's clock (`qmk.rs:343-347`);
   past `enter_deadline` it gives up before its first probe, so `entered` is
   false, no BOOT is sent, and the module stays in its bootloader with its
   auto-boot off, although this run was not killed.
4. `usb_clear`. `usb_transport.c:27-30` says that the buffer of a report stays
   valid until the next `tr_poll` or `tr_send`. Clearing the halt of the OUT
   endpoint sets it to ACK whatever `rx_state` is (lines 184-185). When the host
   clears it during `tr_send`, a report can come in early; when it clears it
   again, the `tr_poll` that hands out that report leaves the endpoint at ACK,
   and the next packet is written over the frame the core is reading.
5. `tunnel_flow_error`. `qmk.rs:529-531` says that an error anywhere in a flow puts
   the module back. `send_frame` sets `booted` (line 500) before it writes the flow's
   BOOT (line 517). When that write fails the teardown takes the module for booted
   and sends no BOOT of its own (line 543): with every other report written and no
   frame lost, the module stays in its bootloader with its auto-boot off.

One document is out of date without a run of its own: `docs/PROTOCOL.md:474-477`
says BOOT is refused from the first mutation until a COMMIT succeeds. `BootCore`
answers it, like the code, when the other slot is bootable
(`boot_core.c:353-357`, on purpose).

## 4. Proofs

TLAPS checks every proof to its last leaf. The theorems hold for every value of
the constants that the named assumptions admit: every number of words per slot,
every block size that divides it, every set of bits, usable slots and generation
limit, with live or stale XIP, with or without attestation at boot
(`DecisionAssumption`, `CoreAssumption`); every flow, build, number of attempts,
runs, frames in flight and faults, with more values of `seq` than attempts
(`ClientAssumption`, `FaultsAssumption`); every counter, deadline, busy limit,
handling time and FIFO such that a deadline and one gap are less than a wrap
(`LoopAssumption`); any number of reports and bus faults (`UsbAssumption`); every
word, page, block and die size that divide each other, and every request that
lies in the die or runs over the end of the address space (`FlashAssumption`);
every timing in the order acknowledgement, probes, auto-boot and watchdog
(`TunnelAssumption`); every frame, payload size, noise, chunk and deadline such
that the pause after a chunk is shorter than the deadline (`LineAssumption`,
`WireAssumption`, `SenderAssumption`); every command line, file, device
description and set of interfaces (`RunsAssumption`). The bounds of the runs, such as `MaxFaults`, are arbitrary
numbers here. `~BlankFirstWord` is stated where a theorem needs it.

None of the properties is inductive alone. What each proof adds, and why:

*The engine.*

- `BootCoreProofs!SelectIsBest`, `SelectSound`: the loop of `ob_boot_select` is its
  reference definition.
- `Inductive`: `Spec => []IInv`. `RecordAttestsImage` needs that no
  image operation runs while the record of its slot may load (`DisarmedOK`: a
  disarmed session has `rec_state = INVALID` and a blank record in the write
  slot), which needs that a failed record write clears `disarmed`. It needs too
  that what COMMIT attests is what flash holds: either XIP is coherent
  (`CoherentOK`), or the stream describes the prefix of the slot (`StreamOK`),
  which is carried through every erase and write by the poisoning rules.
  `RequestOK` says the same of a COMMIT under way. `ActiveOK` says the active
  slot is bootable and is never the write slot.
- Beside it there are three strengthenings: `GenOK` (generations of the two
  records differ, and `highest_gen` bounds them, so that the next one is
  greater) for `NoGenerationTie` and `FreshMeansInstalled`; `BitmapOK` (a bit of the
  bitmap stands for a block of the write slot in `erased`) for
  `ProgramsErasedBlocksOnly`; `HeldOK` (what would launch, what is held and what
  is offered) for the refinement.
- `Refines`: initial states map to initial states and each action to a step of
  `ABUpdate` or a stutter.

*The tool and the device.*

- `HostUpdateProofs!PairInductive`: the requests left are a suffix of a plan, in
  its order, and together they deliver the build (`ToolOK`, `DeliveryOK`). The
  arithmetic of `Plan` is proved first (`PlanFits`): the pieces cover the build,
  each fits the block, chunk and capacity that HELLO gave, for every geometry.
- `DrivenByTool`: every step of `HostUpdate` is one of `BootCore` or none, so all
  theorems above hold of a device that the tool drives; `ToolNeverBricks` says so of
  the refinement and of `StaysBootable`. `HostTypeSound` follows from the pair's
  invariant.
- `HostAnswersProofs!AckedSound`, `ReportedSound`. `FlightOK` says what may be under
  way: what the device still has to read is what is asked now, unreadable, or a
  HELLO nobody waits for; a frame with the newest `seq` is the last one, so that
  the answer the tool accepts leaves nothing behind. `DataOK` and `CommittedOK` say
  that an OK under way is true now and stays true: the device works on what is
  asked and on nothing else, and what it may do to other words is nothing.
  `DataOK` also carries that a word of the build is either still to be written or
  in flash, once no erase is left.
- `RetriesSound` needs to know where the session is. While neither flash nor power has
  failed, `RetryInv` says of a flash: a HELLO is answered by an empty session
  (`OpenedOK`); the requests left continue each other (`LinkedOK`, from the plan); a
  word of the build is still to be erased or is erased, and has no bit cleared
  that the build has not (`SlotOK`); the run of sequential writes is where this WRITE
  begins or, carried out, where it ends, with it as the last one (`WritingOK`), so
  that it is folded or known for a repetition, never poison; a COMMIT finds the run
  at the end of the build or has landed (`CommittingOK`), so that it is attested -
  over XIP by `AckedOK`, over the run by `StreamOK` - or a replay. Hence what the tool
  may take for an answer is no refusal (`AnswersGood`).
- `RetriesSound` has two hypotheses of its own. `Usable = {0, 1}`: on a die without
  slot B the replay of a COMMIT is refused (finding 2). `GenerationsLeft`: past the
  last generation a COMMIT is refused, as it should be. TLC finds both true in every
  state of `host_f26`.
- All three assume `OrderlyStarts`: from the *third* start of the tool on, what the device
  has not read yet must not be a HELLO in front of something else. That takes the
  requests of two dead runs, kept by the link until a third HELLO comes. Its
  answer may then carry the `seq` of the third run's HELLO, and the answer to what
  is behind it may pass for an answer to the third run. The hypothesis is
  needed: TLC, given three runs of `HostUpdate` without it, violates
  `ReportedMeansInstalled` in this way, and with it finds nothing.
  `TwoRunsOrderly` shows that a tool that is started at most twice, as in `host_f26`,
  needs no such hypothesis; `TwoRunsSound` says so of the first two.

*Around the engine.*

- `MainLoopProofs`: the difference of two counter readings is the time that passed,
  as long as that is less than a wrap (`AnchorOK`), and without a session it is,
  because every place of the loop bounds the time since the anchor (`GapOK`). From
  these `DeadlineSound` and `WindowSound`; `SessionOK` (flash is changed only in
  a session) gives `JumpSound`, `TxOK` gives `AnswerSound`.
- `UsbLinkProofs!AnswersSound`: reports are numbered as they are sent. A packet which
  the toggles would let through has a number above all that went before
  (`PacketOK`); a report that waits or is with the core is whole and above the last
  answer (`ReportOK`); an answer that its toggle would let the host take is above
  those it took (`AnswerOK`); `PhaseOK` says who may act when. Writing the
  copy of the control register back leaves the toggles as they are or is the second
  of the two `slips` (`StoreIs`). All four hold until one of them, after which nothing
  is claimed.
- `FlashDriverProofs!FlashCallSound`: `After` is what the die will hold when it is done.
  At the head of the driver's loop it is what was asked for behind the driver,
  and what was there before elsewhere (`WorkOK`); address and length are where the
  loop has brought them, modulo the address space (`CallOK`).
- `QmkTunnelProofs`: the frames of a probe carry its `seq`, so what is queued tells where
  keyboard and module stand. `SeqOK`: nothing older than the current probe has left
  the keyboard's queue, and a probe's `seq` is never a client's (`HearsItsOwn`).
  `HoldOK`: before its way out the tool has sent no BOOT, and whatever says that a
  HELLO succeeded is true (`FlowHolds`). `ClockOK`: the module has been in its
  bootloader no longer than the keyboard says (`BeatsAutoBoot`). `GivenBackOK`: an
  EXIT is on its way and no ENTER is behind it, or it could not be written
  (`GivesBack`). `ParkOK`, `PassedOK` and
  `BridgeOK`: unless something in `causes` happened, whenever the module may be held
  there is an answer under way that the tool will still read, or a BOOT behind
  every HELLO on a bridge that stays open (`ParksByAccident`).

*The line and the command line* (`HostToolProofs`).

- `LineInductive`, `Mirrors`: outside HUNT1 the device's count of empty polls is the
  tool's time since the last byte, so that both give a frame up in the same tick;
  in a frame both have collected the same bytes, and those fix the state of the one
  and the phase of the other (`SamePlace`). No byte of the noise is excepted.
- `Arrives`: after silence both parsers are in HUNT1, and from then on what they have
  collected is a prefix of the frame being sent (`FramePlace`). A pause between two
  chunks may not reach the deadline: `SenderAssumption` says so of every chunk below
  the size of a frame, which at 115200 baud holds for all of them (the pause after
  64 bytes is less than 9 ms, the deadline is 50 ms).
- `CliInductive`: the stage of a run determines what is known (`StageOK`), the file and
  the interface are what the command line makes of them (`ChoiceOK`), and what is
  planned fits the answer to HELLO (`AskOK`, from the arithmetic of each flow,
  `RequestsFit`). From it `OpensRight`, `RequestsSound` and `ExitSound`.
- `RunsAssumption` says that what a file is read as has a base and bytes. The readers are
  folds over the file, whose results the prover cannot type; TLC evaluates the
  assumption for every file of `host_tool`. Nothing else of the readers is needed: the
  three theorems hold whatever a file contains.

The invariants were checked with TLC, as invariants of runs like those of section
3, before they were proved.

Only model-checked:

- `HexImageIsTheRecords`, `DamagedFileIsRefused`, `ParsedBundleIsSound` and
  `BundleReadsBack` (`HostCli`): they compare what the folds of `HexImage` and
  `SlotBundle` compute for a file with what the file says.
- The five liveness properties, which need ENABLED and fairness, and whatever is
  an induction over data: both are beyond this prover.

## 5. Not modelled

See `PROJECT.json`, "components", for each part and its reason. Of the engine:
reserved commands, frame lengths and alignment. Of USB: enumeration, with its
fixed descriptors, and the detach before a reset. Of the flash driver: opcodes
and register values, and power cuts, which `BootCore` has. Of the UART: the
8-byte receive FIFO, whose overrun is a question of cycles per pass. Of the
host: the parsing of single values, wording, which of several errors is
reported. Not at all: clock, startup and linker script, the code generator,
boards and build checks, the tests; CRC-32 itself, whose collisions the design
accepts.

`qmk.rs:409` is the one hazard without a property: an answer to the first
ENTER's poll may end the forced one at once. `QmkTunnel` has it, and the
keyboard is given back; no promise of the code says that the forced attempt
must be made.

## 6. Plan

What is left: the companion's reading of the records (`openboot_record_valid`) against
the boot decision's.
