-------------------------------- MODULE Boot --------------------------------
(***************************************************************************)
(* The boot of an FPGA V3 board: the hook that the first-stage boot loader *)
(* runs before it hands off (fsbl_hooks.c), and fpgav3init, which the init *)
(* script of Linux runs once and root may run again (fpgav3init.cpp).      *)
(*                                                                         *)
(* What outlives a power cycle is the flash: its status register 2 with    *)
(* the quad-enable bit, and the partition of the serial number. The        *)
(* firmware and the registers of the FPGA are lost, and so are the files,  *)
(* because the root file system is a RAM disk; only the card keeps them.   *)
(* Power may fail at every step, and every call may fail. A step is one    *)
(* call; "fails" remembers which of them went wrong, since neither program *)
(* looks at most of the results.                                           *)
(***************************************************************************)
EXTENDS Naturals, FiniteSets

CONSTANTS
    Boards,     \* boards that may be connected, "none" and "unknown" among them
    Named,      \* those with an entry in FirmwareName
    OtherBits,  \* values of the bits of status register 2 other than QE
    IdByte      \* what the read buffer holds after the chip ID: a value of the register

ASSUME BootAssumption ==
    /\ Named \subseteq Boards /\ {"none", "unknown"} \subseteq Boards \ Named
    /\ {"BCFG", "off", ""} \cap Boards = {}
    /\ IdByte \in [qe : BOOLEAN, other : OtherBits]

SR2s == [qe : BOOLEAN, other : OtherBits]
Contents == {"none", "part", "full"}   \* a file: missing, cut short, complete
Fallible == {"qspi", "status", "export", "fpga", "eth", "net", "prom"}

VARIABLES
    pc,       \* next step of the program that runs; "off", "halt" and "shell": none does
    mode,     \* the boot mode switch
    board,    \* the connected board
    sr2,      \* status register 2 of the flash
    wel,      \* write-enable latch of the flash
    settling, \* the flash is busy writing the register ...
    wbuf,     \* ... with this value
    rbuf,     \* ReadBuffer[1] of the hook
    serial,   \* the serial number partition: "sn" with a header, else "blank"
    fpga,     \* what the FPGA runs: "BCFG", the firmware of a board, or nothing ("off")
    prom,     \* its PROM registers
    eth,      \* its bit that gives Ethernet to the processor
    net,      \* eth0 has its address and is up
    env,      \* board that /etc/profile.d/fpgav3.sh names
    seen,     \* board_type of the running fpgav3init
    made,     \* the file in /tmp that ProgramFpga made last, and reads next
    lib,      \* /lib/firmware/<firmware>.bit.bin
    fails     \* history: what went wrong since fpgav3init started

flash   == <<sr2, wel, settling, wbuf>>
fabric  == <<fpga, prom, eth>>
files   == <<made, lib, env>>
setting == <<mode, board, serial>>
vars    == <<pc, flash, rbuf, setting, fabric, net, seen, files, fails>>

Hook  == {"fsbl", "sr2", "wren", "wrsr2", "emio", "snread"}
Steps == {"start", "export", "copy", "convert", "libdir", "libcopy", "load",
          "mtd0", "eth", "net", "prom", "done"}
Places == Hook \cup Steps \cup {"off", "handoff", "halt", "shell"}

TypeOK ==
    /\ pc \in Places
    /\ mode \in {"SD", "QSPI", "other"}
    /\ board \in Boards /\ serial \in {"sn", "blank"}
    /\ sr2 \in SR2s /\ wbuf \in SR2s /\ rbuf \in SR2s
    /\ wel \in BOOLEAN /\ settling \in BOOLEAN
    /\ fpga \in {"BCFG", "off"} \cup Named
    /\ prom \in {"reset", "torn", "sn", "blank"}
    /\ eth \in BOOLEAN /\ net \in BOOLEAN
    /\ env \in {""} \cup Boards /\ seen \in Boards
    /\ made \in Contents /\ lib \in [Named -> Contents]
    /\ fails \in SUBSET Fallible

NoFiles == [f \in Named |-> "none"]

-----------------------------------------------------------------------------
(* Power, and the flash chip: what is not in src/.                         *)

RamLost ==
    /\ fpga' = "off" /\ prom' = "reset" /\ eth' = FALSE /\ net' = FALSE
    /\ env' = "" /\ made' = "none" /\ lib' = NoFiles

Init ==
    /\ pc = "off" /\ mode = "SD"
    /\ board \in Boards /\ serial \in {"sn", "blank"}
    /\ sr2 \in SR2s /\ wel = FALSE /\ settling = FALSE /\ wbuf = IdByte /\ rbuf = IdByte
    /\ fpga = "off" /\ prom = "reset" /\ eth = FALSE /\ net = FALSE
    /\ env = "" /\ seen = "unknown" /\ made = "none" /\ lib = NoFiles
    /\ fails = {}

\* The boot loader configures the FPGA from the boot image and calls the hook.
PowerOn ==
    /\ pc = "off" /\ pc' = "fsbl"
    /\ mode' \in {"SD", "QSPI", "other"}
    /\ fpga' = "BCFG" /\ fails' = {} /\ rbuf' = IdByte
    /\ UNCHANGED <<flash, board, serial, prom, eth, net, seen, files>>

\* A register write that is under way may take effect or not.
PowerLoss ==
    /\ pc # "off" /\ pc' = "off"
    /\ sr2' \in {sr2} \cup (IF settling THEN {wbuf} ELSE {})
    /\ settling' = FALSE /\ wel' = FALSE /\ wbuf' = IdByte /\ rbuf' = IdByte
    /\ RamLost /\ seen' = "unknown" /\ fails' = {}
    /\ UNCHANGED setting

\* The flash has finished the write of its register.
Settle ==
    /\ settling /\ settling' = FALSE /\ sr2' = wbuf /\ wel' = FALSE /\ wbuf' = IdByte
    /\ UNCHANGED <<pc, rbuf, setting, fabric, net, seen, files, fails>>

-----------------------------------------------------------------------------
(* The hook of the boot loader.                                            *)

Hooked(p, f) ==
    /\ pc' = p /\ fails' = fails \cup f
    /\ UNCHANGED <<setting, net, seen, files>>

\* FsblHookBeforeHandoff: which of the two functions runs. Its status is success.
FsblHookBeforeHandoff ==
    /\ pc = "fsbl" /\ mode # "SD"
    /\ Hooked(IF mode = "QSPI" THEN "emio" ELSE "handoff", {})
    /\ UNCHANGED <<flash, rbuf, fabric>>

\* FpgaV3_Init_SD up to the chip ID: the set-up or the transfer fails, or the ID is
\* not an expected one.
ReadId ==
    /\ pc = "fsbl" /\ mode = "SD"
    /\ \/ Hooked("sr2", {}) /\ rbuf' = IdByte
       \/ Hooked("handoff", {"qspi"}) /\ rbuf' \in {rbuf, IdByte}
    /\ UNCHANGED <<flash, fabric>>

\* The test of the quad-enable bit in status register 2.
ReadStatusReg2 ==
    /\ pc = "sr2"
    /\ \/ rbuf' = sr2 /\ Hooked(IF sr2.qe THEN "handoff" ELSE "wren", {})
       \/ rbuf' = rbuf /\ Hooked("handoff", {"qspi"})
    /\ UNCHANGED <<flash, fabric>>

\* Mutant: the transfer has two bytes, and the second is lost in the read buffer.
WriteEnable_TwoBytes ==
    /\ pc = "wren"
    /\ wel' = TRUE /\ rbuf' \in SR2s /\ Hooked("wrsr2", {})
    /\ UNCHANGED <<sr2, settling, wbuf, fabric>>

\* WRITE_ENABLE: a transfer of one byte, which leaves ReadBuffer[1] alone.
WriteEnable ==
    /\ pc = "wren"
    /\ \/ wel' = TRUE /\ Hooked("wrsr2", {})
       \/ wel' \in {wel, TRUE} /\ Hooked("handoff", {"qspi"})
    /\ UNCHANGED <<sr2, settling, wbuf, rbuf, fabric>>

\* WRITE_STATUS_REG2 with what was read and the bit set; the flash obeys if it is
\* enabled. Nothing waits for it to finish.
WriteStatusReg2 ==
    /\ pc = "wrsr2"
    /\ \/ /\ wbuf' = [rbuf EXCEPT !.qe = TRUE] /\ settling' = wel
          /\ Hooked("handoff", {}) \/ Hooked("handoff", {"qspi"})
       \/ UNCHANGED <<wbuf, settling>> /\ Hooked("handoff", {"qspi"})
    /\ rbuf' \in {rbuf, IdByte}
    /\ UNCHANGED <<sr2, wel, fabric>>

\* FpgaV3_Init_QSPI, EMIO_Init and the two quadlets: read only to be displayed.
EmioInit ==
    /\ pc = "emio" /\ Hooked("snread", {})
    /\ UNCHANGED <<flash, rbuf, fabric>>

\* QspiAccess of the serial number, copied if it has the header; the result of
\* EMIO_WritePromData is not looked at.
CopySerial ==
    /\ pc = "snread"
    /\ \/ prom' = (IF serial = "sn" THEN "sn" ELSE prom) /\ Hooked("handoff", {})
       \/ prom' \in (IF serial = "sn" THEN {prom, "torn"} ELSE {prom})
             /\ Hooked("handoff", {"prom"})
    /\ UNCHANGED <<flash, rbuf, fpga, eth>>

\* After the hook: Linux from the card, where the init script runs fpgav3init, and
\* nothing from the flash. The flash has settled by the time Linux is up.
Handoff ==
    /\ pc = "handoff"
    /\ pc' = IF mode = "SD" THEN "start" ELSE "halt"
    /\ mode = "SD" => ~settling
    /\ fails' = {} /\ rbuf' = IdByte
    /\ UNCHANGED <<flash, setting, fabric, net, seen, files>>

-----------------------------------------------------------------------------
(* fpgav3init.                                                             *)

Ran(p, f) ==
    /\ pc' = p /\ fails' = fails \cup f
    /\ UNCHANGED <<flash, rbuf, setting>>

\* root runs fpgav3init again, or fpgav3sn, which gives the board its number.
Shell ==
    /\ pc \in {"shell", "done"}
    /\ \/ pc' = "start" /\ fails' = fails \cap {"status"} /\ serial' = serial
       \/ pc' = "shell" /\ fails' = fails \cap {"status"} /\ serial' = "sn"
    /\ seen' = "unknown"
    /\ UNCHANGED <<flash, rbuf, mode, board, fabric, net, files>>

\* main up to the switch over board_mask. The program gives up without the lines of
\* the bus, and if register 4 does not say "BCFG". The results of the two reads are
\* not looked at: a value that was not read may be any.
DetectBoard ==
    /\ pc = "start"
    /\ \/ Ran("shell", {}) /\ seen' = seen
       \/ Ran("export", {}) /\ seen' = board /\ fpga = "BCFG"
       \/ Ran("export", {"status"}) /\ seen' \in Boards
    /\ UNCHANGED <<fabric, net, files>>

\* Mutant: an entry of the table stands at the place of another board.
FirmwareName_Misplaced(b) == IF b \in Named THEN CHOOSE f \in Named : f # b ELSE ""

\* The firmware of the board that was seen; "" of none and of an unknown one.
FirmwareName(b) == IF b \in Named THEN b ELSE ""

\* ExportFpgaInfo, whose result main ignores.
ExportFpgaInfo ==
    /\ pc = "export"
    /\ LET next == IF FirmwareName(seen) = "" THEN "mtd0" ELSE "copy"
       IN  \/ env' = seen /\ Ran(next, {})
           \/ env' = env /\ Ran(next, {"export"})
    /\ UNCHANGED <<fabric, net, seen, made, lib>>

\* What CopyFile can make of the file dst when it copies src, and whether the
\* copying is complete: the source or the destination cannot be opened, or
\* sendfile stops early, which is only a warning.
CopyOpened(src) == IF src = "none" THEN {} ELSE {"part", src}
CopyOk(src, out) == src # "none" /\ out = src

\* CopyFile of the bit file, which the card has, to /tmp.
CopyBit ==
    /\ pc = "copy"
    /\ \/ /\ made' \in CopyOpened("full")
          /\ Ran("convert", IF CopyOk("full", made') THEN {} ELSE {"fpga"})
       \/ made' = made /\ Ran("mtd0", {"fpga"})
    /\ UNCHANGED <<fabric, net, seen, lib, env>>

\* ConvertBitstream: bootgen makes the bin file from the bit file, or says that it
\* failed. Of a bit file that was cut short it can make no more than part of one.
ConvertBitstream ==
    /\ pc = "convert"
    /\ \/ made' = made /\ Ran("libdir", {})
       \/ made' = "none" /\ Ran("mtd0", {"fpga"})
    /\ UNCHANGED <<fabric, net, seen, lib, env>>

\* stat and mkdir of /lib/firmware. The result of stat is not looked at: of a
\* directory that is missing, either is taken to be true.
MakeLibFirmware ==
    /\ pc = "libdir"
    /\ \/ made' = made /\ Ran("libcopy", {})
       \/ made' = "none" /\ Ran("mtd0", {"fpga"})
    /\ UNCHANGED <<fabric, net, seen, lib, env>>

\* CopyFile of the bin file to /lib/firmware; ProgramFpga goes on if it failed.
CopyBin ==
    /\ pc = "libcopy" /\ made' = "none"
    /\ \/ \E out \in CopyOpened(made) :
             /\ lib' = [lib EXCEPT ![seen] = out]
             /\ Ran("load", IF CopyOk(made, out) THEN {} ELSE {"fpga"})
       \/ lib' = lib /\ Ran("load", {"fpga"})
    /\ UNCHANGED <<fabric, net, seen, env>>

\* FpgaLoad: the FPGA manager configures the FPGA from the file, after which its
\* registers are those of a reset, and refuses a missing file. A file that was cut
\* short, or an error on the way, leaves the FPGA without a configuration.
FpgaLoad ==
    /\ pc = "load"
    /\ \/ /\ lib[seen] = "full" /\ fpga' = FirmwareName(seen)
          /\ prom' = "reset" /\ eth' = FALSE /\ Ran("mtd0", {})
       \/ /\ lib[seen] # "none" /\ fpga' = "off"
          /\ prom' = "reset" /\ eth' = FALSE /\ Ran("mtd0", {"fpga"})
       \/ UNCHANGED fabric /\ Ran("mtd0", {"fpga"})
    /\ UNCHANGED <<net, seen, files>>

\* ProgramFlash of the boot image to mtd0, which holds nothing that is modelled here.
ProgramFlash ==
    /\ pc = "mtd0" /\ Ran("eth", {})
    /\ UNCHANGED <<fabric, net, seen, files>>

\* Mutant: the value lacks the bit that makes the FPGA look at it.
EnableEthernet_NoMask ==
    /\ pc = "eth" /\ Ran("net", {})
    /\ UNCHANGED <<fabric, net, seen, files>>

\* WriteQuadlet(12, 0x02010000), result ignored.
EnableEthernet ==
    /\ pc = "eth"
    /\ \/ fpga # "off" /\ eth' = TRUE /\ Ran("net", {})
       \/ eth' \in {eth, fpga # "off"} /\ Ran("net", {"eth"})
    /\ UNCHANGED <<fpga, prom, net, seen, files>>

\* SetMACandIP: five commands, each run whatever became of the others.
SetMACandIP ==
    /\ pc = "net"
    /\ \/ net' = TRUE /\ Ran("prom", {})
       \/ net' \in BOOLEAN /\ Ran("prom", {"net"})
    /\ UNCHANGED <<fabric, seen, files>>

\* CopyQspiToFpga of 16 bytes, with a header or not; result ignored.
CopyQspiToFpga ==
    /\ pc = "prom"
    /\ \/ fpga # "off" /\ prom' = serial /\ Ran("done", {})
       \/ prom' \in {prom} \cup (IF fpga = "off" THEN {} ELSE {"torn", serial})
             /\ Ran("done", {"prom"})
    /\ UNCHANGED <<fpga, eth, net, seen, files>>

Next ==
    \/ PowerOn \/ PowerLoss \/ Settle
    \/ FsblHookBeforeHandoff \/ ReadId \/ ReadStatusReg2 \/ WriteEnable
    \/ WriteStatusReg2 \/ EmioInit \/ CopySerial \/ Handoff
    \/ Shell \/ DetectBoard \/ ExportFpgaInfo \/ CopyBit \/ ConvertBitstream
    \/ MakeLibFirmware \/ CopyBin \/ FpgaLoad \/ ProgramFlash \/ EnableEthernet
    \/ SetMACandIP \/ CopyQspiToFpga

Spec == Init /\ [][Next]_vars

-----------------------------------------------------------------------------
(* Properties.                                                             *)

\* The hook never clears the quad-enable bit and never touches another bit of
\* status register 2, though it writes the register from a buffer that the transfers
\* in between also use, and power may fail while the flash writes it (FpgaV3_Init_SD).
QeKept == [][sr2'.other = sr2.other /\ (sr2.qe => sr2'.qe)]_vars

\* What a boot promises if nothing has gone wrong: from the card, quad mode is
\* enabled or about to be; from the flash, the FPGA has the serial number.
HookDelivers ==
    pc = "handoff" /\ fails = {} =>
        /\ mode = "SD" => sr2.qe \/ (settling /\ wbuf.qe)
        /\ mode = "QSPI" /\ serial = "sn" => prom = "sn"

\* When fpgav3init says "complete", each thing is as it should be unless the step
\* for it failed: one failure does not undo, or get in the way of, the rest, and
\* loading the firmware comes before the registers that it would reset.
InitDelivers ==
    pc = "done" =>
        /\ "status" \notin fails /\ "fpga" \notin fails =>
               fpga = IF board \in Named THEN FirmwareName(board) ELSE "BCFG"
        /\ "status" \notin fails /\ "export" \notin fails => env = board
        /\ "eth" \notin fails => eth
        /\ "net" \notin fails => net
        /\ "prom" \notin fails => prom = serial

\* Boot loader and fpgav3init keep their promises, over power cycles and reruns and
\* with any of their calls failing (FsblHookBeforeHandoff, main of fpgav3init).
BootDelivers == HookDelivers /\ InitDelivers

\* The FPGA never runs the firmware of a board that is not there, whatever is lost,
\* cut short or run again, except after a status register that could not be read,
\* which fpgav3init takes for one that was.
RightFirmware == fpga \in Named => fpga = board \/ "status" \in fails

\* The argument behind them. Nothing is being written before the hook writes, and
\* what it read is still in the buffer when it does.
HookInv ==
    /\ settling => wbuf.qe /\ wbuf.other = sr2.other
    /\ pc \in Hook \cup {"off"} => ~settling
    /\ pc \in {"wren", "wrsr2"} => rbuf = sr2
    /\ pc = "wrsr2" => wel
    /\ pc \in {"sr2", "wren", "wrsr2"} => mode = "SD"
    /\ pc \in {"emio", "snread"} => mode = "QSPI"
    /\ pc \in Hook => fails = {}
    /\ pc \in Hook \cup {"handoff"} => fpga = "BCFG"

Failed == "status" \in fails \/ "fpga" \in fails

\* What fpgav3init has achieved so far, step by step, where nothing failed.
InitInv ==
    /\ pc = "start" => fails \subseteq {"status"}
    /\ pc \in {"copy", "convert", "libdir", "libcopy", "load"} => seen \in Named
    /\ pc \in {"export", "copy", "convert", "libdir", "libcopy", "load"} =>
           "status" \in fails \/ (seen = board /\ fpga = "BCFG")
    /\ pc \in {"convert", "libdir", "libcopy"} => "fpga" \in fails \/ made = "full"
    /\ pc = "load" => "fpga" \in fails \/ lib[seen] = "full"
    /\ pc \in {"mtd0", "eth", "net", "prom", "done"} =>
           Failed \/ fpga = IF board \in Named THEN FirmwareName(board) ELSE "BCFG"
    /\ pc \in {"copy", "convert", "libdir", "libcopy", "load",
               "mtd0", "eth", "net", "prom", "done"} =>
           "status" \in fails \/ "export" \in fails \/ env = board
    /\ pc \in {"net", "prom", "done"} => "eth" \in fails \/ eth
    /\ pc \in {"prom", "done"} => "net" \in fails \/ net

\* The hook and fpgav3init each leave things as the other, or their next run, finds
\* them: register and buffer of the flash agree, the firmware that runs is the one
\* that the failures so far allow.
BootInv == TypeOK /\ HookInv /\ InitInv /\ BootDelivers /\ RightFirmware

=============================================================================
