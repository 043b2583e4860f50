------------------------------- MODULE EmioMmap -------------------------------
(***************************************************************************)
(* EMIO_Interface_Mmap: the driver that reaches the EMIO pins through the  *)
(* memory-mapped GPIO registers and polls op_done (fpgav3_emio_mmap.cpp).  *)
(*                                                                         *)
(* One step is one access to the GPIO registers (the two registers that    *)
(* turn the data pins around count as one). The program counter pc names   *)
(* the access that comes next. Timing output and messages are left out.    *)
(***************************************************************************)
EXTENDS EmioBus

VARIABLES
    version,   \* bus version read from the FPGA by Init; set once
    isInput,   \* the driver's belief about the data pins
    pc,        \* next access
    call,      \* the call in progress, or the last one
    q,         \* quadlet counter of the block loops
    buf,       \* data handed to the caller so far
    ret,       \* what the call returned
    timedOut   \* history: some WaitOpDone of this call ran into the timeout

hostVars == <<version, isInput, pc, call, q, buf, ret, timedOut>>
vars == <<busVars, hostVars>>

Labels == {"ready", "dir", "data", "request", "wait", "read", "lower", "clear", "return"}

TypeOK ==
    /\ BusTypeOK
    /\ version \in {0, 1}
    /\ isInput \in BOOLEAN
    /\ pc \in Labels
    /\ call \in Calls
    /\ q \in 0 .. call.n
    /\ buf \in Seq(Quads)
    /\ ret \in {"none", "true", "false"}
    /\ timedOut \in BOOLEAN

-----------------------------------------------------------------------------
\* Init succeeds with bus version 0 or 1; a higher one is refused.
Init ==
    /\ BusInit
    /\ version \in {0, 1}
    /\ isInput = TRUE
    /\ pc = "ready"
    /\ call \in {c \in Calls : c.op = "ReadQuadlet" /\ c.addr = 0}
    /\ q = 0
    /\ buf = <<>>
    /\ ret = "none"
    /\ timedOut = FALSE

\* A method is entered. Block transfers need bus version 1.
Enter ==
    /\ pc = "ready" /\ Settled
    /\ call' \in Calls
    /\ IF IsBlock(call') /\ version < 1
          THEN pc' = "ready" /\ ret' = "false"
          ELSE pc' = "dir" /\ ret' = "none"
    /\ q' = 0 /\ buf' = <<>> /\ timedOut' = FALSE /\ served' = <<>>
    /\ UNCHANGED <<pins, fw, rdata, version, isInput>>

\* Control passes from one access to the next.
Goto(from, to) ==
    /\ pc = from /\ Settled
    /\ pc' = to
    /\ UNCHANGED <<fw, rdata, served, version, call>>

\* Mutant: only the driver's flag is changed, not the data pins.
SetInput_FlagOnly(to) ==
    /\ Goto("dir", to)
    /\ isInput' = TRUE
    /\ UNCHANGED <<pins, q, buf, ret, timedOut>>

\* Data pins become inputs if they are not.
SetInput(to) ==
    /\ Goto("dir", to)
    /\ pins' = IF isInput THEN pins ELSE [pins EXCEPT !.out = FALSE]
    /\ isInput' = TRUE
    /\ UNCHANGED <<q, buf, ret, timedOut>>

\* Data pins become outputs if they are not.
SetOutput(to) ==
    /\ Goto("dir", to)
    /\ pins' = IF isInput THEN [pins EXCEPT !.out = TRUE] ELSE pins
    /\ isInput' = FALSE
    /\ UNCHANGED <<q, buf, ret, timedOut>>

\* RegisterWrite(Reg_OutputLower, ...)
WriteData ==
    /\ Goto("data", "request")
    /\ pins' = [pins EXCEPT !.wdata = OnBus(call, call.data[q + 1])]
    /\ UNCHANGED <<isInput, q, buf, ret, timedOut>>

\* RegisterWrite(Reg_OutputUpper, ...) that makes a quadlet request.
RequestQuadlet ==
    /\ Goto("request", "wait")
    /\ pins' = [pins EXCEPT !.addr = call.addr, !.req = TRUE, !.lsb = FALSE,
                            !.blkStart = FALSE, !.blkEnd = FALSE]
    /\ UNCHANGED <<isInput, q, buf, ret, timedOut>>

\* Mutant: the LSB is that of the start address throughout.
RequestBlock_SameLsb ==
    /\ Goto("request", "wait")
    /\ pins' = [pins EXCEPT !.addr = call.addr, !.req = TRUE, !.lsb = (call.addr % 2 = 1),
                            !.blkStart = (q # call.n - 1), !.blkEnd = (q = call.n - 1)]
    /\ UNCHANGED <<isInput, q, buf, ret, timedOut>>

\* Mutant: blk_end is raised one quadlet early.
RequestBlock_EarlyEnd ==
    /\ Goto("request", "wait")
    /\ pins' = [pins EXCEPT !.addr = call.addr, !.req = TRUE,
                            !.lsb = (QuadletAddr(call, q + 1) % 2 = 1),
                            !.blkStart = (q < call.n - 2), !.blkEnd = (q >= call.n - 2)]
    /\ UNCHANGED <<isInput, q, buf, ret, timedOut>>

\* The same for quadlet q of a block: the address pins keep the start address,
\* the LSB pin follows the incremented address.
RequestBlock ==
    /\ Goto("request", "wait")
    /\ pins' = [pins EXCEPT !.addr = call.addr, !.req = TRUE,
                            !.lsb = (QuadletAddr(call, q + 1) % 2 = 1),
                            !.blkStart = (q # call.n - 1),
                            !.blkEnd = (q = call.n - 1)]
    /\ UNCHANGED <<isInput, q, buf, ret, timedOut>>

\* Bits_OpDone, 0x00020000
BitsOpDone == 131072

\* Mutant: the test is inverted for the other value of state.
OpDoneTest_Inverted(state) ==
    (IF OpDone THEN BitsOpDone ELSE 0) + (IF state THEN 1 ELSE 0) # 0

\* (RegisterRead(Reg_InputUpper) & Bits_OpDone) ^ (!state), as a truth value: the
\* two operands have no bit in common, so exclusive or is addition.
OpDoneTest(state) == (IF OpDone THEN BitsOpDone ELSE 0) + (IF state THEN 0 ELSE 1) # 0

\* Mutant: op_done is sampled once and its value is not looked at.
WaitOpDone_Once(state) == timedOut' = timedOut

\* Mutant: no timeout.
WaitOpDone_Forever(state) == OpDoneTest(state) /\ timedOut' = timedOut

\* Polls until the test succeeds or the timeout passes; returns true either way,
\* so the callers' failure branches are never taken.
WaitOpDone(state) == timedOut' = (timedOut \/ ~OpDoneTest(state))

Wait(state, from, to) ==
    /\ Goto(from, to)
    /\ WaitOpDone(state)
    /\ UNCHANGED <<pins, isInput, q, buf, ret>>

\* Mutant: block data is not swapped.
ReadData_Unswapped(to) ==
    /\ Goto("read", to)
    /\ buf' = Append(buf, rdata)
    /\ q' = IF IsBlock(call) THEN q + 1 ELSE q
    /\ UNCHANGED <<pins, isInput, ret, timedOut>>

\* RegisterRead(Reg_InputLower)
ReadData(to) ==
    /\ Goto("read", to)
    /\ buf' = Append(buf, OnBus(call, rdata))
    /\ q' = IF IsBlock(call) THEN q + 1 ELSE q
    /\ UNCHANGED <<pins, isInput, ret, timedOut>>

\* Mutant: only req_bus is lowered.
LowerLines_ReqOnly(to) ==
    /\ Goto("lower", to)
    /\ pins' = [pins EXCEPT !.req = FALSE]
    /\ UNCHANGED <<isInput, q, buf, ret, timedOut>>

\* RegisterWrite(Reg_OutputUpper, 0)
LowerLines(to) ==
    /\ Goto("lower", to)
    /\ pins' = [pins EXCEPT !.addr = 0, !.req = FALSE, !.lsb = FALSE,
                            !.blkStart = FALSE, !.blkEnd = FALSE]
    /\ UNCHANGED <<isInput, q, buf, ret, timedOut>>

Return ==
    /\ Goto("return", "ready")
    /\ ret' = "true"
    /\ UNCHANGED <<pins, isInput, q, buf, timedOut>>

ReadQuadlet ==
    /\ call.op = "ReadQuadlet"
    /\ \/ SetInput("request")
       \/ RequestQuadlet
       \/ Wait(TRUE, "wait", "read")
       \/ ReadData("lower")
       \/ LowerLines("clear")
       \/ Wait(FALSE, "clear", "return")
       \/ Return

WriteQuadlet ==
    /\ call.op = "WriteQuadlet"
    /\ \/ SetOutput("data")
       \/ WriteData
       \/ RequestQuadlet
       \/ Wait(TRUE, "wait", "lower")
       \/ LowerLines("clear")
       \/ Wait(FALSE, "clear", "return")
       \/ Return

ReadBlock ==
    /\ call.op = "ReadBlock"
    /\ \/ SetInput(IF call.n = 0 THEN "lower" ELSE "request")
       \/ RequestBlock
       \/ Wait(TRUE, "wait", "read")
       \/ ReadData(IF q + 1 < call.n THEN "request" ELSE "lower")
       \/ LowerLines("clear")
       \/ Wait(FALSE, "clear", "return")
       \/ Return

\* The wait that ends a quadlet of a block write; it closes the loop.
WaitWritten ==
    /\ Goto("wait", IF q + 1 < call.n THEN "data" ELSE "clear")
    /\ WaitOpDone(TRUE)
    /\ q' = q + 1
    /\ UNCHANGED <<pins, isInput, buf, ret>>

\* WriteBlock waits for op_done to clear before it lowers the lines.
WriteBlock ==
    /\ call.op = "WriteBlock"
    /\ \/ SetOutput(IF call.n = 0 THEN "clear" ELSE "data")
       \/ WriteData
       \/ RequestBlock
       \/ WaitWritten
       \/ Wait(FALSE, "clear", "lower")
       \/ LowerLines("return")
       \/ Return

Driver == ReadQuadlet \/ WriteQuadlet \/ ReadBlock \/ WriteBlock

Fabric ==
    /\ FwAccept \/ FwServe \/ FwNext \/ FwRelease
    /\ UNCHANGED hostVars

Next == Enter \/ Driver \/ Fabric

Spec == Init /\ [][Next]_vars

\* The processor keeps running the driver, and the firmware's clock keeps
\* running. Nothing is assumed about when the register bus is granted.
Edges == (FwNext \/ FwRelease) /\ UNCHANGED hostVars
FairSpec == Spec /\ WF_vars(Driver) /\ WF_vars(Edges)

-----------------------------------------------------------------------------
(* Properties.                                                             *)

Succeeded == pc = "ready" /\ ret = "true"

\* The bus transactions of the call are those it asked for, and a reader got
\* the quadlets that those transactions delivered.
Carried ==
    /\ Len(served) = call.n
    /\ \A i \in 1 .. call.n : Answers(served[i], call, i)
    /\ ~IsWrite(call) =>
          /\ Len(buf) = call.n
          /\ \A i \in 1 .. call.n : buf[i] = OnBus(call, served[i].val)

\* A call that returns true, with no timeout on the way, has read or written
\* exactly the registers it was asked to, in order, with the right values:
\* ReadQuadlet, WriteQuadlet, ReadBlock and WriteBlock, after any earlier calls,
\* including calls that were abandoned by a timeout.
CallExact == Succeeded /\ ~timedOut => Carried

\* At no moment of a call, as long as nothing timed out, has the firmware done
\* anything but a prefix of what the call asks for: the new LSB, data and
\* direction reach the pins in an order that never lets a wrong value through.
OnlyAsked == ~timedOut => \A i \in DOMAIN served : Answers(served[i], call, i)

\* Whatever times out, no call touches a register outside its block, and no
\* read ever turns into a write: timeouts make WriteBlock move on while the
\* firmware still works on an earlier quadlet.
Confined == \A i \in DOMAIN served : InPlace(served[i], call, i)

\* The firmware sees blk_start on every quadlet of a block but the last, and
\* blk_end on the last one only, although both pins change between quadlets.
BlockFramed ==
    IsBlock(call) /\ ~timedOut =>
        \A i \in DOMAIN served :
            served[i].blkStart = (i < call.n) /\ served[i].blkEnd = (i = call.n)

\* Between calls req_bus is low and the driver's isInput agrees with the pins;
\* a stale flag would make a read drive the bus against the firmware.
QuietBetweenCalls ==
    pc = "ready" => ~pins.req /\ ~pins.blkStart /\ ~pins.blkEnd /\ (isInput <=> ~pins.out)

\* While the firmware works on a quadlet the driver keeps address, direction
\* and data steady, unless a wait has timed out.
PinsSteady ==
    [][fw.st = "busy" /\ ~timedOut' =>
          <<pins.addr, pins.lsb, pins.out, pins.wdata>>' =
          <<pins.addr, pins.lsb, pins.out, pins.wdata>>]_vars

\* The driver implements EMIO_Interface as EmioContract states it: every step of
\* the driver or of the firmware is a step of the contract, or invisible to it.
Contract == INSTANCE EmioContract WITH
    active <- pc # "ready", log <- served, got <- buf, excused <- timedOut,
    lost <- FALSE
ImplementsContract == Contract!Spec

\* Every call returns, even if the register bus is never granted: this is what
\* the timeout in WaitOpDone is for.
CallReturns == pc # "ready" ~> pc = "ready"

\* fpgav3_emio.h: each method "Returns: true if success".
TrueMeansSuccess == Succeeded => Carried

-----------------------------------------------------------------------------
(* The inductive invariant behind the safety properties. It needs          *)
(* FabricPrompt.                                                           *)

\* How many quadlets the driver has asked the firmware for.
Asked == CASE pc = "dir"               -> 0
           [] pc \in {"data", "request"} -> q
           [] pc \in {"wait", "read"}    -> q + 1
           [] OTHER                     -> call.n

\* The quadlet the firmware works on, or has just finished.
At == IF fw.st = "busy" THEN Len(served) + 1 ELSE Len(served)

\* Where the loops are, and what the driver has put on the pins for it.
DriverInv ==
    /\ pc \in {"data", "request", "wait", "read"} => q < call.n
    /\ pc = "dir" \/ ~IsBlock(call) => q = 0
    /\ pc = "data" => IsWrite(call)
    /\ pc = "read" => ~IsWrite(call)
    /\ pc \notin {"ready", "dir"} => (pins.out <=> IsWrite(call))
    /\ pc \in {"request", "wait"} /\ IsWrite(call) => pins.wdata = OnBus(call, call.data[q + 1])
    /\ pins.req <=> \/ pc \in {"wait", "read"}
                    \/ pc \in {"data", "request"} /\ q > 0
                    \/ pc = "lower" /\ call.n > 0
                    \/ pc = "clear" /\ call.op = "WriteBlock" /\ call.n > 0
    /\ pins.req => /\ pins.addr = call.addr
                   /\ pins.lsb <=> IsBlock(call) /\ QuadletAddr(call, Asked) % 2 = 1

\* How far the firmware has come: never beyond what was asked for, and if it has
\* caught up it has seen the current LSB, so it waits.
FirmwareInv ==
    /\ fw.st # "idle" => /\ At \in 1 .. Asked
                         /\ fw.addr = QuadletAddr(call, At)
                         /\ pins.req /\ At = Asked => (fw.lsb <=> pins.lsb)
    /\ fw.st = "idle" /\ pins.req => served = <<>>
    /\ pc = "dir" \/ (pc \in {"data", "request"} /\ q = 0) => fw.st = "idle" /\ served = <<>>
    /\ pc = "ready" => fw.st = "idle"
    /\ fw.st = "done" /\ ~IsWrite(call) => rdata = served[Len(served)].val

\* Without a timeout, driver and firmware are in step.
InStep ==
    ~timedOut =>
        /\ fw.st = "busy" => pc = "wait" /\ At = Asked
        /\ pc = "wait" /\ fw.st = "idle" => q = 0
        /\ pc = "wait" /\ OpDone => Len(served) = Asked \/ (Len(served) = q /\ pins.lsb # fw.lsb)
        /\ pc \in {"read", "data", "request"} /\ Asked > 0 => OpDone /\ Len(served) = Asked
        /\ pc \in {"lower", "clear", "return"} \/ Succeeded => Len(served) = call.n
        /\ pc = "lower" /\ call.n > 0 => OpDone

\* Without a timeout, what a reader has got is what the bus delivered.
Delivered ==
    ~timedOut /\ ~IsWrite(call) =>
        /\ pc \in {"dir", "request", "wait", "read"} => Len(buf) = q
        /\ pc \in {"lower", "clear", "return"} \/ Succeeded => Len(buf) = call.n
        /\ \A i \in 1 .. Len(buf) : i <= Len(served) /\ buf[i] = OnBus(call, served[i].val)

\* The driver and the firmware agree, at every register access, on how far the
\* transfer has come; this is what makes polling op_done sound.
StepInv ==
    /\ TypeOK
    /\ isInput <=> ~pins.out
    /\ DriverInv
    /\ FirmwareInv
    /\ InStep
    /\ Delivered
    /\ OnlyAsked
    /\ Confined

\* The block pins are low whenever req_bus is, and while the driver waits for a
\* quadlet of a block they tell whether it is the last.
FramePins ==
    /\ ~pins.req => ~pins.blkStart /\ ~pins.blkEnd
    /\ pc = "wait" /\ IsBlock(call) => /\ pins.blkStart <=> q # call.n - 1
                                       /\ pins.blkEnd <=> q = call.n - 1

IInv == StepInv /\ FramePins /\ BlockFramed

=============================================================================
