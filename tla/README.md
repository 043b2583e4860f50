# Verification of mechatronics-embedded

TLA+ models of the embedded software of the FPGA V3 controller boards: the
Linux library and programs under `petalinux/`, and the bare-metal library, boot
loader hook and test programs under `platform_standalone/`. Paths below are relative
to `src/`; L stands for `petalinux/libfpgav3/files`, MT for
`platform_standalone/mfg_test_src`.

## 1. The system

A Zynq SoC joins an ARM processor to an FPGA. The FPGA firmware (another
repository) has a file of 32-bit registers that Firewire, Ethernet and the
processor share. The processor reaches it over EMIO pins: 32 data pins that turn
around, 16 address pins, a duplicate of the address LSB, `req_bus`, `blk_start`,
`blk_end`, and from the firmware `op_done` and a bus version.

| Component | Source | State | Operations | Talks to |
|---|---|---|---|---|
| EMIO_Interface | L/fpgav3_emio.h, .cpp | wait mode, timing mode | ReadQuadlet, WriteQuadlet, ReadBlock, WriteBlock, WritePromData, SetEventMode | the drivers implement it, all programs call it |
| mmap driver | L/fpgav3_emio_mmap.cpp | `isInput`, version, GPIO registers | the same, polling | pins, through /dev/mem |
| gpiod driver | L/fpgav3_emio_gpiod.cpp | `isInput`, version, lines, event queue of `op_done_line` | the same, polling or events | pins, through libgpiod |
| standalone library | platform_standalone/fpgav3_lib_src/fpgav3_emio.c | none of its own | EMIO_ReadQuadlet ... EMIO_WritePromData | pins, through GPIO registers |
| firmware side of the bus | not in the repository | request state, op_done | accept, serve, next, release | pins |
| flash library | L/fpgav3_qspi.cpp | file offsets, buffers; the flash partitions | ProgramFlash, ProgramFpgaSerialNumber, GetFpgaSerialNumber | MTD devices |
| fpgav3init | petalinux/fpgav3init | bitstream files, environment script, what the FPGA runs | detect board, load firmware, program flash, enable Ethernet, copy serial number | gpiod driver, flash library, FPGA manager |
| fpgav3block, fpgav3quad | petalinux/fpgav3block | arguments | read or write registers from the shell | either driver |
| fpgav3sn | petalinux/fpgav3sn | none | query or program the serial number | flash library |
| FSBL hooks | platform_standalone/fsbl_src/fsbl_hooks.c | flash status register 2, read buffer | quad-enable bit, serial number to FPGA | standalone library |
| demo_app | platform_standalone/demo_app_src | `argv`, `argc` | command line reader, quad and block calls | standalone library |
| mfg_test, memory tests | MT/memtest.c | patterns, counters, error log, mailbox | fifteen tests of the DDR memory | caches, memory |
| mfg_test, eye tests | MT/memtest.c | DDR controller registers, list of them, results | write and read eye, choice of the drive strength | memory tests, controller |
| mfg_test, command loop | MT/memtest.c | mailbox GO and DONE, settings | menu and host commands | a host, the tests |
| mfg_test, menu | MT/menu.c | switch positions found | board-id switch test | operator |
| echo_test | platform_standalone/echo_test_src | network stack | TCP echo | lwIP |

### What is hard here

* *Handshakes without a clock in common.* The firmware may be kept waiting for the
  register bus by Firewire or Ethernet for any time. The drivers sample `op_done`
  and must never take the `op_done` of an earlier quadlet or call for that of the
  present one; within a block the only thing that asks for the next quadlet is a
  change of the LSB pin.
* *Timeouts.* A wait that gives up leaves the firmware in the middle of something,
  and what it does later meets the next quadlet or the next call.
* *Cached direction.* `isInput` remembers across calls how the data pins are set.
* *Calls of several steps that fail half way*: libgpiod, reads, erases and writes.
* *Power loss* between erasing and writing a flash sector, on any boot, or while the
  flash writes its status register.
* *A sequence of steps most of whose results are ignored*: fpgav3init goes on after a
  failure, and may be run again over what an earlier run left.
* *Shared buffers and caches*: the hook writes the status register out of a buffer
  that other transfers use; a memory test may read the cache instead of the memory.
* *Saved and restored settings*: an eye measurement changes the controller that the
  program itself runs from, and must put it back on every path.
* *C details*: a bitwise complement used as a toggle, `strchr` past the end of what
  was read, empty blocks, 16-bit addresses that wrap.

`PROJECT.json` lists these hazards one by one, at their lines.

### What makes each component correct

* Drivers: a call that returns true has made exactly the bus transactions it was
  asked for; a call that does not has made a prefix of them; none touches other
  registers or the other direction; the bus is free between calls; calls return. A
  failure of libgpiod that goes unnoticed does not spoil a later call.
* ProgramFlash: afterwards the image is in flash, whatever was there before;
  sectors that are right are not worn; nothing beyond the image changes, as far as the
  sizes it goes by are right.
* Serial number: what is read is what was programmed, or a prefix of it when
  programming was cut short.
* Boot: each thing is set up unless its own step failed, whatever else failed; the
  FPGA runs the firmware of its board; the quad-enable bit is never lost.
* Memory tests: they report the tests that can show the fault, no others, in the
  right byte lane, and counters, log and mailbox agree.
* Eye tests: an eye is measured to its ends, the controller is as it was afterwards,
  and the setting that is chosen is not worse in every lane than another.
* Command loop: every test stays in the memory; a host's commands are answered once.
* Switch test and command line reader: what they report is what the operator did.

## 2. The modules

| Module | Models |
|---|---|
| `EmioCalls` | the calls of EMIO_Interface and the bus transactions each stands for; no state |
| `EmioContract` | abstract specification: what a caller of EMIO_Interface may rely on |
| `EmioBus` | the pins, and the firmware as the code uses it (external) |
| `EmioMmap` | EMIO_Interface_Mmap on EmioBus |
| `EmioGpiod` | EMIO_Interface_Gpiod on EmioBus, with failing libgpiod calls and events |
| `EmioStandalone` | the bare-metal library on EmioBus, with EMIO_WritePromData |
| `QspiFlash` | ProgramFlash on an MTD partition, over any number of boots |
| `SerialNumber` | ProgramFpgaSerialNumber and GetFpgaSerialNumber |
| `Boot` | the FSBL hook and fpgav3init, over power cycles, reruns and failures |
| `MemTest` | memtest_all: patterns, caches, faults, counters, error log |
| `EyeTest` | measure_write_eye, measure_read_eye, ddrc_init, weye_test1, find_best_eye |
| `MfgTest` | memtest_run: the command loop, its mailbox and a host |
| `BoardId` | TestBoardID of the manufacturing test |
| `DemoApp` | get_input, get_hex, get_dec and the dispatch of the demo application |
| `EmioCallsProofs` | lemmas about calls and addresses, for the three drivers |
| `EmioMmapProofs`, `EmioGpiodProofs`, `EmioStandaloneProofs`, `QspiFlashProofs`, `SerialNumberProofs`, `BootProofs` | theorems about the module of the same name |
| `MfgTestProofs` | theorems about `MfgTest`, `BoardId`, `EyeTest`, `MemTest` and `DemoApp` |
| `MC*` | small instances for TLC; `MCPrograms` takes the five bare-metal programs together |

`EmioCalls` is extended by everything on the EMIO side. The three drivers extend
`EmioBus`, so driver and firmware run interleaved in one specification, and each
instantiates `EmioContract` with a refinement mapping: a call is active while the
program counter is not at `ready`, the contract's log is the list of quadlets that
the firmware has served (`served`), the delivered data is `buf`.

### How the models correspond to the code

*EmioBus.* `pins` are the output pins, `fw` the firmware: idle, busy (a quadlet is
latched, the register bus perhaps withheld) or done (`op_done` high). Registers
are shared, so a read returns any quadlet. What the firmware does is inferred from
the drivers' comments and actions and is listed in the module's header. `FabricPrompt` says
that the firmware has seen an edge that drops `op_done` (req_bus low, LSB changed)
before the processor makes its *next* access: a GPIO access takes hundreds of
nanoseconds, the firmware's clock tens. The code depends on it; see section 6.

*EmioMmap.* One step is one access to the GPIO registers, `pc` names the next one.
`WaitOpDone(state)` is the expression of the code, `(x & Bits_OpDone) ^ (!state)`,
as a truth value; it and the polling loop are one step that either finds the test
true or times out. A timeout is possible whenever the test is false. The failure
branches after `if (!WaitOpDone(...))` cannot be reached, since the method always
returns true, and have no action. Init's failures leave no usable object.

*EmioGpiod.* One step is one libgpiod call. `Set(kind, ...)` gives each call its
failing alternative: with the error handling of the code where the result is
checked, unnoticed where it is not. `Faulty` selects the kinds of calls that fail;
`slipped` remembers that one failed unnoticed in the present call, or that the call
began with lines up that an earlier one left so.
`lsbVal` is the C int that the code complements. In event mode rising edges go to a
queue of bounded length that outlives the call.

*EmioStandalone.* The firmware's `Bits_Write` input (`writeSeen`) follows the data
direction after a while, so `setDataInput` and `setDataOutput` can see the old
value and refuse. `WaitOpDone` has no timeout.

*QspiFlash.* Bytes are abstract cells; erasing blanks a sector, programming only
clears bits, and cells that were being erased or written when power failed, or when the
erase did, hold anything. One step is one system call, and every one of them may fail,
which the code does not notice: a read or a write transfers a part or nothing, a seek to
a negative offset leaves the position, and MEMGETINFO and fstat leave `erasesize` and
`size` uninitialised (`Garbage` is what memory may hold there). `faulted` remembers
that a call failed in this run, `short` that the device's first read got a part. A boot
may bring another image. An image that is larger than the partition is included. The
buffers come from malloc with any contents.

*SerialNumber.* The five header bytes count as one cell. `GetFpgaSerialNumber`
runs in another process at any time, its two reads are two steps, and the buffer's
last byte and the memory behind it are uninitialised. The model of `strchr` stops
at a NUL, as the function does.

*Boot.* One step is one call of the hook or of fpgav3init, with its outcomes; `pc` names
the next one. `fails` remembers which calls went wrong, by what they are for, because
the programs look at few results and the promises need to be excused one by one.
Power may fail at any step: files are on a RAM disk and are lost with the FPGA's
configuration, the status register and the serial number partition are not. The
flash takes its time for the register write (`settling`), which nothing waits for.
The files of fpgav3init are missing, cut short or complete; `made` is the one that
ProgramFpga's earlier steps made and the next one reads, `lib` the one that the FPGA
manager loads. A register that was not read may hold anything (DetectBoard). The
firmware is identified with the board it is for; ProgramFlash itself is `QspiFlash`.

*MemTest.* A word has one bit per byte lane, so every pattern keeps what the tests
distinguish: all ones, all zeros, one half, the other half, a walking bit group,
random words of a shift register. The write loop, the cache flush, every word of the
read loop and the summing up are steps. Dirty lines of the cache reach the memory in
any order. Faults are a stuck bit, an address line that is not connected and a memory
that always reads the same.

*EyeTest.* The memory works at the offsets of an interval per lane and drive
strength. `ddrc_init` is three steps: disable, program, enable. The list of register
values and its saved copy are variables. `find_best_eye` is one operator; its reads
outside the table give any choice among the tied ones.

*MfgTest.* A command is chosen by the host or, without one, by the menu; the tests
are one step here, of which the window of memory matters. `StartMB` is the 32-bit
product of the code, in megabytes.

*BoardId, DemoApp.* One step per reading of the switch and per character. Rows of
`argv` have room for one word and one row lies behind them.

## 3. The runs

| Run | Instance | States | Shows |
|---|---|---|---|
| `emio_mmap` | 4 addresses, 2 values, blocks of 0, 1, 3 quadlets | 49,864 | the mmap driver implements the contract, and every call returns |
| `emio_mmap_timeout` | the same | | violation of TrueMeansSuccess |
| `emio_gpiod` | 2 addresses, 2 values, blocks of 0 and 3; one queued event; failures that the driver looks at, and of setting the control lines | 848,912 | the gpiod driver implements the contract outside `Mishandled`, a failure that it ignores spoils its own call only, and every call returns |
| `emio_gpiod_first_quadlet`, `_odd_address`, `_stale_event` | the same, smaller | | violations, one for each entry of `Mishandled` that a comment contradicts |
| `emio_standalone` | 4 addresses, PROM at 3 (wraps), 0 or 2 PROM quadlets | 103,108 | the bare-metal library implements the contract without exception |
| `qspi_flash` | 2 sectors of 2 cells of one bit, 6 images; sizes misread as 0, 1 or 4 | 379,921 | ProgramFlash repairs, does not wear, and how far failures let it overrun |
| `serial_number` | buffer of 4, 2 characters | 858,572 | read-back and torn programming |
| `serial_number_full` | buffer of 3 | | violation of FullReadBack |
| `boot` | 4 boards, 2 of them with firmware; one bit beside QE | 5,155,928 | hook and fpgav3init keep their promises |
| `programs` | see below | 346,508 | the five bare-metal programs, one at a time |

What the properties say, by theme:

* `CallExact`, `Confined`, `BlockFramed`: what the bus has seen after,
  during and in spite of a failed call, and with which block markers.
* `QuietBetweenCalls`: what a call leaves to the next one. In the gpiod driver these
  four speak of calls that have not slipped, and `BlockFramed` also not of calls that
  began with an event queued, after which the driver may be ahead of the firmware.
* `PinsSteady` (action property): nothing moves under the working firmware.
* `ImplementsContract`: refinement, for each driver.
* `CallReturns`, `ReturnsIfGranted`, `ImageGetsWritten`: liveness.
* `PromExact`: a PROM transfer is whole, or a prefix.
* `ImageWritten`, `NoNeedlessErase`: ProgramFlash, in runs without a failed call.
* `BeyondImageKept` (action property): ProgramFlash, whatever fails, changes nothing
  beyond the sector of the image that it is at. Two failures are excepted, since the code
  does not guard against them: sizes that were misread, after which nothing is
  promised, and a first read of the device that got a part, after which the bound is
  less than a sector further.
* `ReadBack`, `PartitionInv`: the serial number, and that a torn programming shows
  only a prefix of it.
* `BootDelivers`: what the hook and fpgav3init promise, each part excused only by its
  own failure. `RightFirmware`: never the firmware of another board. `QeKept` (action
  property): status register 2 only ever gains the quad-enable bit.
* `FaultFound`, `ErrorsExact`: the memory test and its account of errors.
* `EyeMeasured`, `SettingsKept` (action property), `ParetoChosen`: the eye tests.
* `WindowInMemory`, `RemoteServed` (liveness): the command loop.
* `SwitchSeen`, `LineParsed`: switch test and command line reader. `CallMeant`: the
  register call that the demo application makes of a line.
* `IInv` (mmap and gpiod driver), `FlashInv`, `PartitionInv`, `StandaloneInv`: inductive
  invariants of section 5; TLC checks them too.

*Why the bounds are enough.* Blocks of three quadlets have a first, a middle and a
last one, so every branch of the block loops is taken and the LSB toggles twice;
from four addresses a block wraps around 2^16 and starts at even and at odd
addresses (two in the gpiod run, where it starts at each parity and wraps);
byte counts 0, 3, 9 include the empty block, the block of one and rounding up (0 and 12
in the gpiod run, where blocks of one are left to the proofs: with them the run has
992,760 states and no violation, but takes nearly twice as long). Two values
that are each other's byte swap tell swapped from unswapped and stale from fresh.
Calls follow each other without bound: the state space is finite because the
histories are those of one call. Of the five kinds of
libgpiod calls whose results the driver ignores, `emio_gpiod` lets one fail, by which
calls slip and `blk_end` may stay up; with all five the states are too many for a run
of this size, and the theorems of section 5 cover them. One queued event suffices to be stale; a longer
queue only delays the effect. A cell of one bit is enough for the flash, because
programming and erasing treat every bit alike and the comparison tells only whether all
agree. Of the sizes that a failed call leaves, 0 lets the loop stand still, 1 is no
whole sector, 4 is two sectors, and each is too small or too large for some image. Two
sectors of two cells, with images of 0, 1, 3, 4
and 5 cells, have a partial last sector, an exact fit and an image that is too large;
blanks within an image make a failed or missing erase harmless in some places and
not in others. The serial number run has a buffer of four, so that a number that
does not fill it (two characters) can be torn in the middle.

In the boot run "none" and "unknown" are boards without firmware; two with firmware
suffice to have the wrong one. Power cycles and reruns are unbounded. In `programs`
each program has its own constants: four lanes, eight words (two cache lines, the
period of the simple patterns, and an address line that folds them), a log of three
so that it overflows, an error limit of one so that tests stop early, two runs so
that the second finds the first one's log; two selections of tests that together are
all fifteen; step sizes 4 and 2, eyes that are open, cut off at either end, closed
and different in one lane, one to four drive strengths with ties at the ends and in
the middle; start and size values at the limits and beyond 2048 MB, two commands of a
host; three positions of the switch, a debounce of three and as many spoilt readings;
four arguments of two characters, words of five bits. `prog` picks the program; the
programs share nothing, so that one run of all of them is the runs of each. Its
deadlock check is off, since the programs end at these bounds.

*Fairness.* Weak fairness of the driver: the processor keeps executing a call it
has begun. Weak fairness of the edges: the firmware's clock runs, so changed pins
are seen. Nothing is assumed about when the register bus is granted, except in the
premise of `ReturnsIfGranted`, where the code (an endless loop) needs it. ProgramFlash
is started at every boot by fpgav3init and runs on; power may fail at any step, and
`ImageGetsWritten` allows for its failing for ever. The command loop of the
manufacturing test runs on (`MfgFairness`); its host may stop at any time. The boot
has no liveness property: its programs are straight-line code whose end depends on
every call returning.

## 4. Findings

Each has a run that shows it.

1. *mmap: a timeout is reported as success* (L/fpgav3_emio_mmap.cpp:196).
   `WaitOpDone` returns true also after the timeout, so the header's "Returns: true
   if success" fails, and the error branches of its callers are dead.
2. *gpiod: WriteBlock after a write sends stale data first*
   (L/fpgav3_emio_gpiod.cpp:626). The first quadlet is put on the lines only when
   they turn from input to output.
3. *gpiod: blocks from odd addresses stop after one quadlet*
   (L/fpgav3_emio_gpiod.cpp:537, 664). `~1` is -2, driven as 1 like 1 itself, so the
   LSB does not toggle; polling then sees the old `op_done` and reports success.
4. *gpiod: an event that comes after the timeout ends the next wait at once*
   (L/fpgav3_emio_gpiod.cpp:253).
5. *The serial number of full length is read with memory behind it*
   (L/fpgav3_qspi.cpp:33). `strchr` searches beyond the eight bytes that were read.

Noted while modelling, without a run of their own:

* The waits for `op_done` to clear in the mmap driver never wait: with state false
  the expression is nonzero whatever the pin says. WriteBlock (474) makes this wait
  before it lowers `req_bus`, when `op_done` could not clear. Nothing follows from
  it under `FabricPrompt`.
* The gpiod driver requests the bus for a block of no bytes too; WriteBlock reads
  and writes `data[0]` then. `fpgav3block` reaches this with a count of 0. `Confined`
  shows that no register but the first is touched.
* The gpiod quadlet methods and WriteBlock ignore most results of libgpiod (325). A
  request that was silently not made can read or write the wrong register with result
  true, and req_bus or blk_end may stay up. Nothing is promised of such a call
  (`slipped`), nor of the next one if it finds these lines up; but the damage ends as
  soon as a call finds them low, which `emio_gpiod` shows for failures to set the control
lines, and the proofs for all of them.
* The comment at lines 89-92 of the standalone library ("the Write methods set them
  to input before returning") no longer describes the code, which sets the direction
  at every call.
* The gpiod driver raises `blk_end` only beside a quadlet after the first (523, 526,
  672, 675): a block of one quadlet is requested with `blk_start` and ends without
  `blk_end`. The mmap driver (L/fpgav3_emio_mmap.cpp:359, 449) takes `blk_start` down and
  raises `blk_end` for it. `BlockFramed` states for each driver what it does.
* ProgramFlash returns true whatever failed on the way, and for an image that is
  larger than the partition.
* ProgramFlash looks at the result of neither MEMGETINFO (104) nor fstat (120). If one
  fails, the sector size (`ei.length`, 127) or the image size is uninitialised: MEMERASE
  may then wipe sectors beyond the image, and a sector size of 0 keeps the loop going for
  ever. ProgramFpgaSerialNumber ignores MEMGETINFO (58) in the same way.
* If the read of the device for the first sector (132) gets a part, the seek back (139)
  would lead to a negative offset and fails; the write (145) starts that much too far and
  runs into the sector behind, and later sectors are compared with and written to places
  as far off. `BeyondImageKept` says by how little.
* fpgav3init uses `reg_hw` and `reg_status` whether or not ReadQuadlet succeeded
  (278); with a value left from elsewhere it loads another board's firmware.
  `RightFirmware` and `BootDelivers` except this case and only this one.
* fpgav3init does not look at the results of `stat` (141), of copying the converted
  bitstream (156), or of a `sendfile` that copied less than the file (61).
  The bin file of an earlier run may be what is loaded.
  `CopyQspiToFpga` does not free what it allocated.
* FpgaV3_Init_SD does not wait for the register write to end; it relies on what comes
  next leaving the flash alone for a few milliseconds.
* MT/memtest.c: `error_info` is called with `werr` zero when a test run clears the
  mailbox, and then writes `err_buf[-3]` to `err_buf[-1]` (1517). `memtest_simple`
  logs the address of a group of words plus 4 + j, not that of the word (1614);
  `ErrorsExact` leaves the address of these tests out. Centre mode
  (`fix_ctr`, 2268) has no effect: it adjusts lane j after a loop that leaves j at 4,
  whose registers are not in the list.
* MT/memtest.c: the write offset 128 does not fit the 7-bit field of R46 and acts as
  0 (2161). `find_best_eye` takes the sum of the widths for their mean, compares
  neighbours outside the table and returns -1 when every setting is equally bad; a
  setting with no eye at all then ranks above one that works in some lanes (2632).
* MT/memtest.c: commands 's' and '1' return to the menu without reporting DONE, so
  that a host waits for ever (3041); command '7' reports DONE but its results are not
  uploaded. The letter 'z' is tested twice, so that the second use, which toggles the
  remote mode, cannot be reached. `pll_div` may be used uninitialised, and the test
  loop's doubling count overflows after 31 rounds.
* demo_app: MAX_ARG arguments followed by a space make `get_input` write behind
  `argv`; MAX_ARG + 1 arguments are accepted; the rest of a line that is dropped is
  read as the next line; a negative count passes the test against the maximum (131).
  `LineParsed` and `CallMeant` except these cases and no others.

## 5. What is proved

TLAPS proves, for every value of the constants that satisfies the ASSUMEs:

| Module | Theorems (property) | Beyond the ASSUMEs |
|---|---|---|
| `EmioMmapProofs` | `Agreement` (`IInv`), `TypeCorrect`, `ExactCalls` (`CallExact`), `OnlyAskedAlways`, `ConfinedAlways`, `BlockFramedAlways`, `QuietAlways`, `PinsSteadyAlways`, `DriverImplements` | `FabricPrompt` |
| `EmioGpiodProofs` | `ControlInvariant`, `GpiodInvariant` | nothing |
| | `Agreement` (`IInv`), `ExactCalls` (`CallExact`), `ConfinedAlways`, `BlockFramedAlways`, `QuietAlways`, `DriverImplements` | `FabricPrompt` |
| | `NeverSlips` | `FabricPrompt`, and that ignored calls do not fail |
| `EmioStandaloneProofs` | `StandaloneInvariant` (`StandaloneInv`), `ExactCalls`, `PromExactAlways`, `LibraryImplements` | `FabricPrompt` |
| `QspiFlashProofs` | `FlashInvariant` (`FlashInv`), `ImageIsWritten`, `ErasedOnlyIfDifferent` (`NoNeedlessErase`), `BeyondImageIsKept` | nothing |
| `SerialNumberProofs` | `PartitionInvariant` (`PartitionInv`), `ReadBackAlways` | nothing |
| `BootProofs` | `BootInvariant`, `BootDeliversAlways`, `RightFirmwareAlways`, `QeKeptAlways` | nothing |
| `MfgTestProofs` | `WindowAlwaysInMemory`, `SwitchSeenAlways`, `SettingsAlwaysKept`, `MeasureInvariant`, `EyesAlwaysMeasured`, `ChoiceAlwaysPareto`, `ErrorsAlwaysExact`, `FaultAlwaysFound`, `LineAlwaysParsed`, `CallAlwaysMeant` | nothing |

`DriverImplements` and `LibraryImplements` say that driver and firmware together
implement `EmioContract` (`ImplementsContract`). `FabricPrompt` is explained in
section 6. The theorems about the gpiod driver hold for every `Faulty`: any set of
libgpiod calls may fail at any time. They except calls that slipped, which no call
does while the calls whose results are ignored do not fail (`NeverSlips`). Every
invariant, action property and refinement that a passing run checks is proved; only
liveness is not. The ASSUMEs are
`CallsAssumption` (an even, non-empty address space, a set of values with an
involution, any block lengths), `GpiodAssumption` (an event queue with room for one),
`StandaloneAssumption` (the bus is not swapped, any PROM window), `FlashAssumption`
(any sector size, partition of at least a sector, images, and misread sizes),
`SerialAssumption` (a
buffer of at least two cells, memory behind it, any characters), `BootAssumption` (any
boards, with "none" and "unknown" among those without firmware), `MfgAssumption` (any
mailbox values without bit 15), `MemTestAssumption` (at least two lanes, a multiple of
four words), `EyeAssumption` (the step sizes of the menu, any non-empty tables of eyes,
ratios that leave room in their fields for an offset), `BoardIdAssumption` (no more
spoilt readings in a row than the debounce count), `DemoAssumption` (room for an
argument and a letter, words of at least one bit, letters that the hex digits and a few
other characters stand for).

*The argument for the mmap driver.* `CallExact` speaks of the moment of return only. It
is preserved because at every access driver and firmware agree how far the transfer
is: `IInv` says, for each `pc`, how many quadlets the driver has asked for
(`Asked`), what it has put on the pins for it (`DriverInv`), that the firmware is
never beyond that and has latched the LSB of the quadlet it is at (`FirmwareInv`),
that without a timeout the two are in step, so that a set `op_done` belongs to
the quadlet being waited for (`InStep`), and that what a reader has is what was
served (`Delivered`). That successive addresses differ in their last bit, also
across the wrap, needs the evenness of the address space; `EmioCallsProofs` has the
modular arithmetic. The refinement proof maps serving to `Transact`, reading the
data pins to `Deliver`, a timeout to `Excuse`, the return to `Finish`, and shows all
other accesses invisible. `BlockFramed` and `PinsSteady` follow from the same
invariant: what the firmware is at is never beyond what the driver has framed.

*The argument for the gpiod driver* has two layers. `ControlInv` holds in every call:
the types, the direction as the driver believes it (`GpiodInv`), and the places of the
loops. `CallInv` holds until a call slips: the agreement above and two things. An
event in the queue is that of the quadlet that is being waited for, or there was one
before the call and the call is excused (`InStep`). And a block from an odd address
(`Stuck`) goes on in the driver while the firmware stays at the first quadlet, so that
what was served and what was waited for are two different counts (`Served`), and what
the lines are for is told apart from what the firmware still has to see (`Pending`,
`LinesInv`). `IInv` is `ControlInv` and, unless the call has slipped, `CallInv`. It is
inductive because entering a method with req_bus and blk_end low establishes `CallInv`
from `ControlInv` alone, whatever the earlier call left in the firmware, in the event
queue or on the other lines (`EnterStep`), and entering it otherwise counts as slipping.
In the contract a slip is `Lose`: a call begins lost only after a lost one, and the
firmware may still serve what such a call left requested.

*The argument for the standalone library.* As for the mmap driver, without timeouts; a
call may also be refused at its start, because the firmware's view of the direction
lags, and has then asked for nothing. A PROM transfer is a sequence of writes, each of
which has been made whole before the next begins (`PromInv`).

*The argument for the flash.* Until a call fails, both file offsets and both buffers
are in step with `nBytes` and every earlier sector holds its part of the image
(`LoopInv`). After a failed call offsets may lag (`OffsetsInv`). The device's can run
ahead only if a seek back fails, which needs an offset between 0 and what the sector
holds: that is a partial read for the first sector, and less than a sector. So the bound
on writes is the sector that the loop is at, plus `Ahead`. All of this needs the true
sizes, and a run that goes by others is one in which a call has failed.

*The argument for the serial number.* Since the erase of the present call, the sector
holds a beginning of its number: nothing before the write, all of it if the function
returned true (`WrittenInv`). What was read since is such a beginning too (`GotInv`).
A number that does not fill the buffer leaves a blank cell behind it, in which the search
for its end stops, whatever is in memory beyond.

*The argument for the boot.* `BootDelivers` speaks of the two places where a program
is done. `HookInv` says what the hook knows at each step: nothing is being written to
the flash before the hook writes, the read buffer still holds the register when it
does, and what is being written differs from the register in the quad-enable bit
only. That also makes `QeKept` inductive: a power loss picks the old or the new value.
`InitInv` says what fpgav3init has achieved at each step unless the call for it failed
(the board it saw is the one that is there, the file made is complete, the FPGA runs
the firmware). Loading the firmware resets the registers that later steps set, so the
conjuncts for Ethernet and the serial number begin only after it. `TypeOK` is needed
because the file table is indexed by the board that was seen. Each part is preserved
action by action, then put together.

*The argument for the command loop.* The scale, its static source and the size selector
stay in their ranges (`SettingsOK`), and for settings in range every window is inside
the memory: the limits hold for any two integers, hence for any overflow.

*The argument for the eye tests.* `EyeInv`: what was saved is what there was when the
test began; on the way out list and registers return to it. `MeasureInv`: the offset
being set is in the list, then in the registers (`OffsetSet`), so that a lane works at
it exactly if its eye holds it, also with the 7-bit field but for the case that
`Wraps` names; the search has found everything of an eye that it has passed and
nothing else (`EyesFound`). A lane that fails ends its own search only, because eyes
are intervals and the search goes outwards. For the choice: four times `qual3` is, but
for rounding, the sum of the squares of the widths and four times their products, in
which every width counts (`QualityGrows`); `find_best_eye` returns one of the best
by it, through all its ties and neighbours (`ChoiceIsBest`).

*The argument for the memory test.* `ErrorsExact`: counts, mailbox and log are, at each
word of the read loop, those of the words before it (`MemInv`); nothing about the
memory is needed. `FaultFound`: while the cache is flushed every word has its pattern in
a dirty line or reaches the memory as the fault lets it, so that afterwards each word
reads what the fault makes of its pattern; two words that a missing address line folds
may come in either order, and then one of them is wrong (`MemoryInv`). `RunInv` follows
the seed through the random tests of a call, each of which advances it by three, and
the tests reported so far. A stuck bit changes one lane of one word, which is the
arithmetic of one binary digit (`OneBit`).

*The argument for the switch test and the command line.* The count of equal readings
never runs ahead of the switch nor, at rest, behind it (`SwitchInv`); what `argv`
holds is the words read so far, up to the limits, and `ignore` tells whether there
were more (`DemoInv`). `CallMeant` compares two ways to give a word a value: the loop of
`get_hex` and `get_dec`, which cuts to the width of a word at every digit and stops at
another character, and the sum of digits times powers, cut once. The loop without the
cuts is the digits left out times a power, plus the sum of the last n, for every n
(`HornerIsSum`); the cuts can wait (`ModularStep`).

*Induction over data.* Powers, the shift register and the conversions of words are
recursive functions, and the best of a list of results is found by a search. Facts about them are proved
without an induction scheme: of the numbers for which a fact fails there is a least
one (`LeastNumber`, from the well-foundedness of <), for which the definition gives it
after all.

*Only model-checked*: liveness, which is beyond this prover (`CallReturns`,
`ReturnsIfGranted`, `ImageGetsWritten`, `RemoteServed`). The runs that show findings
state what does not hold.

## 6. What the results rest on

* The firmware as described in `EmioBus`.
* `FabricPrompt`. Without it a driver can sample the `op_done` of the previous
  quadlet after changing the LSB, or of the previous call after lowering `req_bus`,
  and `CallExact` fails; the waits that should guard against the second never wait.
* One process at a time drives the pins. libgpiod gives lines to one process; the
  memory-mapped registers have no such guard.
* System calls are atomic; a failed libgpiod call leaves its lines as they were. In
  ProgramFlash a call may fail half way, as section 2 says; MEMERASE works on whole
  sectors and refuses other lengths, and sizes do not wrap around 2^32.
* Of the boot: the flash finishes its register write before Linux is up; the bit file
  on the card is good; the FPGA manager refuses a missing file, and one that was cut
  short leaves the FPGA without a configuration; bootgen makes a complete file out of
  a complete one or says that it failed.
* Of the memory: one fault at a time; a lane's eye is an interval that does not move
  during a measurement.

## 7. Not modelled, and the plan

Not modelled: `echo_test` (a vendor template around lwIP, whose state is the network
stack's), `fpgav3block` and `fpgav3quad` (sequential parsing of arguments around one
register call; the calls they can make, the block of no quadlets among them, are those
of the driver models), build scripts, block design, device tree. Of `mfg_test`: PLL,
timer and XADC registers, the Xilinx flash self-test, the test modes that the code
disables, the texts of the menus. Left out of modelled parts: timing measurement,
messages, version strings.

The order of the modules was: EmioCalls, EmioBus and EmioMmap with the contract; its
proofs; EmioGpiod; EmioStandalone; QspiFlash and its proofs; SerialNumber; Boot; the
bare-metal programs; the proofs of Boot and of the command loop; those of the gpiod
driver, the standalone library, the serial number and the other bare-metal programs.
What remains:

1. A composition of the contract with fpgav3init's register calls, in place of their
   outcomes as one step.
2. Argument handling of fpgav3block and fpgav3quad.
