------------------------------ MODULE EmioGpiod ------------------------------
(***************************************************************************)
(* EMIO_Interface_Gpiod: the driver that reaches the EMIO pins through     *)
(* libgpiod, one system call for each group of lines, and waits for        *)
(* op_done by polling or by rising-edge events (fpgav3_emio_gpiod.cpp).    *)
(*                                                                         *)
(* One step is one libgpiod call; pc names the call that comes next. Some  *)
(* calls have their result checked, others not: Faulty is the set of kinds *)
(* of calls that may fail, and a failed call leaves the lines as they were.*)
(* A call of the driver slips when one of its libgpiod calls fails and the *)
(* driver does not look, or when it begins with lines that an earlier slip *)
(* left up.                                                                *)
(***************************************************************************)
EXTENDS EmioBus

CONSTANTS
    Faulty,     \* kinds of libgpiod calls that may fail
    EventFifo   \* events the kernel queues for a line before it drops them (16)

Kinds == {"direction", "getData", "setData", "opDone", "addr", "lsb", "ctrl", "req",
          "lineRequest"}

ASSUME GpiodAssumption == Faulty \subseteq Kinds /\ EventFifo \in Nat \ {0}

VARIABLES
    version,    \* bus version read from the FPGA by Init; set once
    isInput,    \* the driver's belief about the data lines
    useEvents,  \* wait by events instead of polling
    lineOk,     \* op_done_line is requested in the mode useEvents tells
    events,     \* rising edges queued on op_done_line
    pc,         \* next libgpiod call
    call,       \* the call in progress, or the last one
    q,          \* quadlet counter of the block loops
    lsbVal,     \* reg_addr_values[15], a C int
    buf,        \* data handed to the caller so far
    ok,         \* the result that the call is going to return
    ret,        \* what the call returned
    wasInput,   \* history: isInput when the call began
    hadEvents,  \* history: events were queued when the call began
    slipped     \* history: the call has slipped

hostVars == <<version, isInput, useEvents, lineOk, pc, call, q, lsbVal, buf, ok, ret,
              wasInput, hadEvents, slipped>>
vars == <<busVars, events, hostVars>>

Labels == {"ready", "dir", "data", "addr", "lsb", "ctrl", "request", "wait", "read",
           "blkEnd", "toggle", "lower", "zero", "return"}

TypeOK ==
    /\ BusTypeOK
    /\ version \in {0, 1}
    /\ {isInput, useEvents, lineOk, ok, wasInput, hadEvents, slipped} \subseteq BOOLEAN
    /\ events \in 0 .. EventFifo
    /\ pc \in Labels
    /\ call \in Calls
    /\ q \in 0 .. (IF call.n = 0 THEN 1 ELSE call.n)
    /\ lsbVal \in -2 .. 1
    /\ buf \in Seq(Quads)
    /\ ret \in {"none", "true", "false"}

-----------------------------------------------------------------------------
\* Init requests the lines; only the request of op_done_line, made at its end by
\* SetEventMode, may fail without Init failing.
Init ==
    /\ BusInit
    /\ version \in {0, 1}
    /\ isInput = TRUE /\ wasInput = TRUE
    /\ useEvents = FALSE
    /\ lineOk \in {TRUE} \cup (IF "lineRequest" \in Faulty THEN {FALSE} ELSE {})
    /\ events = 0 /\ hadEvents = FALSE
    /\ pc = "ready"
    /\ call \in {c \in Calls : c.op = "ReadQuadlet" /\ c.addr = 0}
    /\ q = 0 /\ lsbVal = 0
    /\ buf = <<>> /\ ok = TRUE /\ ret = "none" /\ slipped = FALSE

\* Mutant: the queue of the line survives its release.
SetEventMode_KeepEvents ==
    /\ pc = "ready" /\ Settled
    /\ useEvents' \in BOOLEAN
    /\ lineOk' \in BOOLEAN
    /\ ~lineOk' => "lineRequest" \in Faulty
    /\ UNCHANGED <<busVars, version, isInput, events, pc, call, q, lsbVal, buf, ok, ret,
                   wasInput, hadEvents, slipped>>

\* The line is released and requested again, which empties its event queue. A
\* failed request is only reported, and leaves the line released.
SetEventMode ==
    /\ pc = "ready" /\ Settled
    /\ useEvents' \in BOOLEAN
    /\ lineOk' \in BOOLEAN
    /\ ~lineOk' => "lineRequest" \in Faulty
    /\ events' = 0
    /\ UNCHANGED <<busVars, version, isInput, pc, call, q, lsbVal, buf, ok, ret,
                   wasInput, hadEvents, slipped>>

\* What a call leaves to the next one.
Quiet == ~pins.req /\ ~pins.blkEnd

\* A method is entered. Block transfers need bus version 1.
Enter ==
    /\ pc = "ready" /\ Settled
    /\ call' \in Calls
    /\ IF IsBlock(call') /\ version < 1
          THEN pc' = "ready" /\ ret' = "false"
          ELSE pc' = "dir" /\ ret' = "none"
    /\ q' = 0 /\ buf' = <<>> /\ ok' = TRUE /\ served' = <<>>
    /\ wasInput' = isInput
    /\ hadEvents' = (events > 0) /\ slipped' = ~Quiet
    /\ UNCHANGED <<pins, fw, rdata, version, isInput, useEvents, lineOk, events, lsbVal>>

\* What every step of a method leaves alone.
Frame == UNCHANGED <<fw, rdata, served, version, useEvents, lineOk, call, wasInput, hadEvents>>

\* A libgpiod call of the given kind that sets lines: it succeeds and control
\* moves on, or it fails and control moves to bad, with the result becoming false
\* if the code checks for the error (bad is not where success leads to). If it does
\* not, the call slips.
Set(kind, from, newPins, to, bad) ==
    /\ pc = from /\ Settled /\ Frame
    /\ \/ pins' = newPins /\ pc' = to /\ UNCHANGED <<ok, slipped>>
       \/ /\ kind \in Faulty
          /\ pins' = pins /\ pc' = bad
          /\ ok' = (ok /\ bad = to) /\ slipped' = (slipped \/ bad = to)
    /\ UNCHANGED <<events, q, buf, ret>>

\* Set for a call whose result is ignored.
SetUnchecked(kind, from, newPins, to) == Set(kind, from, newPins, to, to)

\* Mutant: the direction is left alone.
SetInput_FlagOnly(to) ==
    /\ Set("none", "dir", pins, to, to)
    /\ isInput' = TRUE
    /\ UNCHANGED lsbVal

\* Data lines become inputs if they are not.
SetInput(to) ==
    /\ IF isInput
          THEN Set("none", "dir", pins, to, to)
          ELSE Set("direction", "dir", [pins EXCEPT !.out = FALSE], to, "return")
    /\ isInput' = (isInput \/ pc' = to)
    /\ UNCHANGED lsbVal

DataOnBus == OnBus(call, call.data[q + 1])

\* WriteBlock reads data[0] also for an empty block, which has none.
FirstOnBus == IF call.n = 0 THEN Quads ELSE {DataOnBus}

\* Data lines become outputs that carry the first quadlet. If they are outputs
\* already, WriteQuadlet sets the data; WriteBlock leaves the lines as they are.
SetOutput(kindIfOutput, pinsIfOutput) ==
    /\ IF isInput
          THEN \E v \in FirstOnBus :
                  Set("direction", "dir", [pins EXCEPT !.out = TRUE, !.wdata = v], "addr", "return")
          ELSE SetUnchecked(kindIfOutput, "dir", pinsIfOutput, "addr")
    /\ isInput' = (isInput /\ pc' # "addr")
    /\ UNCHANGED lsbVal

SetData(to) ==
    /\ SetUnchecked("setData", "data", [pins EXCEPT !.wdata = DataOnBus], to)
    /\ UNCHANGED <<isInput, lsbVal>>

SetAddr(to, bad) ==
    /\ Set("addr", "addr", [pins EXCEPT !.addr = call.addr], to, bad)
    /\ UNCHANGED <<isInput, lsbVal>>

SetCtrl(from, blkStart, blkEnd, to, bad) ==
    /\ Set("ctrl", from, [pins EXCEPT !.blkStart = blkStart, !.blkEnd = blkEnd], to, bad)
    /\ UNCHANGED <<isInput, lsbVal>>

SetReq(from, val, to, bad) ==
    /\ Set("req", from, [pins EXCEPT !.req = val], to, bad)
    /\ UNCHANGED <<isInput, lsbVal>>

\* addr_lsb_line gets the last address bit; libgpiod drives any nonzero int as 1.
SetLsb(to) ==
    /\ lsbVal' = call.addr % 2
    /\ SetUnchecked("lsb", "lsb", [pins EXCEPT !.lsb = (lsbVal' # 0)], to)
    /\ UNCHANGED isInput

\* reg_addr_values[15] = ~reg_addr_values[15], the C complement of an int.
Complement(x) == -x - 1
ToggleLsb ==
    /\ lsbVal' = Complement(lsbVal)
    /\ Set("lsb", "toggle", [pins EXCEPT !.lsb = (lsbVal' # 0)], "wait", "lower")
    /\ UNCHANGED isInput

\* WaitOpDone returns true: an event was queued and has been read, or polling
\* found op_done set.
OpDoneSeen ==
    /\ lineOk
    /\ IF useEvents THEN events > 0 ELSE OpDone
    /\ events' = IF useEvents THEN events - 1 ELSE events

\* WaitOpDone returns false: timeout, or an error of libgpiod until the timeout.
OpDoneMissed ==
    /\ \/ ~lineOk
       \/ "opDone" \in Faulty
       \/ IF useEvents THEN events = 0 ELSE ~OpDone
    /\ events' = events

\* Mutant: a failed wait returns without taking the lines down.
WaitOpDone_LeaveLines(to) ==
    /\ pc = "wait" /\ Settled /\ Frame
    /\ \/ OpDoneSeen /\ pc' = to /\ ok' = ok
       \/ OpDoneMissed /\ pc' = "return" /\ ok' = FALSE
    /\ UNCHANGED <<pins, isInput, lsbVal, buf, ret, slipped>>

\* Mutant: a wait that failed is tried again.
WaitOpDone_Retry(to) ==
    /\ pc = "wait" /\ Settled /\ Frame
    /\ \/ OpDoneSeen /\ pc' = to /\ ok' = ok
       \/ OpDoneMissed /\ pc' = pc /\ ok' = ok
    /\ UNCHANGED <<pins, isInput, lsbVal, buf, ret, slipped>>

WaitOpDone(to) ==
    /\ pc = "wait" /\ Settled /\ Frame
    /\ \/ OpDoneSeen /\ pc' = to /\ ok' = ok
       \/ OpDoneMissed /\ pc' = "lower" /\ ok' = FALSE
    /\ UNCHANGED <<pins, isInput, lsbVal, buf, ret, slipped>>

\* Mutant: block data is not swapped.
GetData_Unswapped(to) ==
    /\ pc = "read" /\ Settled /\ Frame
    /\ \/ pc' = to /\ buf' = Append(buf, rdata) /\ ok' = ok
       \/ "getData" \in Faulty /\ pc' = "lower" /\ buf' = buf /\ ok' = FALSE
    /\ q' = IF IsBlock(call) THEN q + 1 ELSE q
    /\ UNCHANGED <<pins, events, isInput, lsbVal, ret, slipped>>

\* The data lines are read into the caller's buffer; on an error they are not.
GetData(to) ==
    /\ pc = "read" /\ Settled /\ Frame
    /\ \/ pc' = to /\ buf' = Append(buf, OnBus(call, rdata)) /\ ok' = ok
       \/ "getData" \in Faulty /\ pc' = "lower" /\ buf' = buf /\ ok' = FALSE
    /\ q' = IF IsBlock(call) THEN q + 1 ELSE q
    /\ UNCHANGED <<pins, events, isInput, lsbVal, ret, slipped>>

\* Mutant: failures are reported as success.
Return_AlwaysTrue ==
    /\ pc = "return" /\ Settled /\ Frame
    /\ pc' = "ready" /\ ret' = "true"
    /\ UNCHANGED <<pins, events, isInput, q, lsbVal, buf, ok, slipped>>

Return ==
    /\ pc = "return" /\ Settled /\ Frame
    /\ pc' = "ready"
    /\ ret' = IF ok THEN "true" ELSE "false"
    /\ UNCHANGED <<pins, events, isInput, q, lsbVal, buf, ok, slipped>>

ReadQuadlet ==
    /\ call.op = "ReadQuadlet"
    /\ \/ SetInput("addr")
       \/ SetAddr("ctrl", "ctrl")
       \/ SetCtrl("ctrl", FALSE, FALSE, "request", "request")
       \/ SetReq("request", TRUE, "wait", "wait")
       \/ WaitOpDone("read") /\ q' = q
       \/ GetData("lower")
       \/ SetReq("lower", FALSE, "return", "return")
       \/ Return

WriteQuadlet ==
    /\ call.op = "WriteQuadlet"
    /\ \/ SetOutput("setData", [pins EXCEPT !.wdata = DataOnBus])
       \/ SetAddr("ctrl", "ctrl")
       \/ SetCtrl("ctrl", FALSE, TRUE, "request", "request")
       \/ SetReq("request", TRUE, "wait", "wait")
       \/ WaitOpDone("lower") /\ q' = q
       \/ SetReq("lower", FALSE, "zero", "zero")
       \/ SetCtrl("zero", FALSE, FALSE, "return", "return")
       \/ Return

\* Mutant: blk_end one quadlet early.
BlkEndIfLast_Early(i) == IF i = call.n - 1 THEN "blkEnd" ELSE "toggle"

\* Where the loops of ReadBlock and WriteBlock go for quadlet i, counted from 1.
BlkEndIfLast(i) == IF i = call.n THEN "blkEnd" ELSE "toggle"

ReadBlock ==
    /\ call.op = "ReadBlock"
    /\ \/ SetInput("ctrl")
       \/ SetCtrl("ctrl", TRUE, FALSE, "addr", "return")
       \/ SetAddr("lsb", "zero")
       \/ SetLsb("request")
       \/ SetReq("request", TRUE, IF call.n = 0 THEN "lower" ELSE "wait", "zero")
       \/ SetCtrl("blkEnd", FALSE, TRUE, "toggle", "lower")
       \/ ToggleLsb
       \/ WaitOpDone("read") /\ q' = q
       \/ GetData(IF q + 1 < call.n THEN BlkEndIfLast(q + 2) ELSE "lower")
       \/ SetReq("lower", FALSE, "zero", "zero")
       \/ SetCtrl("zero", FALSE, FALSE, "return", "return")
       \/ Return

WriteBlock ==
    /\ call.op = "WriteBlock"
    /\ \/ SetOutput("none", pins)
       \/ SetAddr("lsb", "lsb")
       \/ SetLsb("ctrl")
       \/ SetCtrl("ctrl", TRUE, FALSE, "request", "request")
       \/ SetReq("request", TRUE, "wait", "wait")
       \/ WaitOpDone(IF q + 1 < call.n THEN "data" ELSE "lower") /\ q' = q + 1
       \/ SetData(BlkEndIfLast(q + 1))
       \/ SetCtrl("blkEnd", FALSE, TRUE, "toggle", "toggle")
       \/ ToggleLsb
       \/ SetReq("lower", FALSE, "zero", "zero")
       \/ SetCtrl("zero", FALSE, FALSE, "return", "return")
       \/ Return

Driver == ReadQuadlet \/ WriteQuadlet \/ ReadBlock \/ WriteBlock

\* A rising op_done becomes a queued event if the line is requested for events
\* and its queue has room.
EdgeEvent ==
    events' = IF useEvents /\ lineOk /\ events < EventFifo THEN events + 1 ELSE events

Fabric ==
    /\ \/ (FwAccept \/ FwNext \/ FwRelease) /\ UNCHANGED events
       \/ FwServe /\ EdgeEvent
    /\ UNCHANGED hostVars

Next == SetEventMode \/ Enter \/ Driver \/ Fabric

Spec == Init /\ [][Next]_vars

\* As for the mmap driver: the processor and the firmware's clock keep running.
Edges == (FwNext \/ FwRelease) /\ UNCHANGED <<events, hostVars>>
FairSpec == Spec /\ WF_vars(Driver) /\ WF_vars(Edges)

-----------------------------------------------------------------------------
(* Properties.                                                             *)

Succeeded == pc = "ready" /\ ret = "true"

\* The bus transactions of the call are those it asked for, and a reader got
\* the quadlets that those transactions delivered.
Carried ==
    /\ Len(served) = call.n
    /\ \A i \in 1 .. call.n : Answers(served[i], call, i)
    /\ ~IsWrite(call) =>
          /\ Len(buf) = call.n
          /\ \A i \in 1 .. call.n : buf[i] = OnBus(call, served[i].val)

\* What the code gets wrong: a block write that follows a write, a block of several
\* quadlets from an odd address, an event left over from a call that timed out (each
\* shown by a run of its own), and an empty block, for which the bus is requested.
Mishandled ==
    \/ call.op = "WriteBlock" /\ ~wasInput
    \/ IsBlock(call) /\ call.n > 1 /\ call.addr % 2 = 1
    \/ hadEvents
    \/ call.n = 0

\* A call that returns true has read or written exactly the registers it was
\* asked to, in order, with the right values, in either wait mode and after any
\* earlier calls, including calls that failed half way or slipped, as long as it does
\* not slip itself.
CallExact == Succeeded /\ ~Mishandled /\ ~slipped => Carried

\* Each bus transaction is at its register, in the direction of the call.
Within == \A i \in DOMAIN served : InPlace(served[i], NonEmpty(call), i)

\* Even where the contract excuses it no call touches a register outside its block and
\* no read turns into a write, however the direction of the data lines is left by
\* earlier calls, unless it slips. An empty block has no register of its own and
\* touches at most the one it starts at.
Confined == ~slipped => Within

\* The block pins that go with the i-th quadlet of a block. blk_end is raised after the
\* first quadlet only, so that a block of one, or of none, keeps blk_start and has no end.
BlkStart(i) == i = 1 \/ i < call.n
BlkEnd(i) == i > 1 /\ i = call.n

\* The block pins beside each quadlet of a block are those of its place. An event that was
\* queued before the call lets the driver run ahead of the firmware, and raise blk_end
\* beside an earlier quadlet.
Framed ==
    IsBlock(call) /\ ~hadEvents =>
        \A i \in DOMAIN served :
            served[i].blkStart = BlkStart(i) /\ served[i].blkEnd = BlkEnd(i)

\* In a block of several quadlets the firmware sees blk_start on every quadlet but the
\* last and blk_end on the last one only; in a block of one, blk_start and no blk_end. So
\* it does when a late quadlet is served while the lines are being taken down after a
\* timeout. Calls that slip or begin with an event queued are excepted.
BlockFramed == ~slipped => Framed

\* Between calls, successful or not, req_bus is low and blk_end is not left set,
\* unless the last call slipped.
QuietBetweenCalls == pc = "ready" /\ ~slipped => Quiet

\* The driver's isInput agrees with the lines between any two libgpiod calls,
\* whichever of them fail: a failed change of direction must not update it.
DirectionKnown == isInput = ~pins.out

\* The two facts that hold between any two libgpiod calls: the types, with loop
\* counters and queued events within their limits, and DirectionKnown.
GpiodInv == TypeOK /\ DirectionKnown

\* The driver implements EMIO_Interface as EmioContract states it: every step of
\* the driver or of the firmware is a step of the contract, or invisible to it.
Contract == INSTANCE EmioContract WITH
    active <- pc # "ready", log <- served, got <- buf, excused <- Mishandled,
    lost <- slipped
ImplementsContract == Contract!Spec

\* Every call returns, whichever libgpiod calls fail and even if the register bus
\* is never granted.
CallReturns == pc # "ready" ~> pc = "ready"

\* fpgav3_emio_gpiod.cpp: after the first wait of WriteBlock "first quadlet has
\* been written".
FirstQuadletWritten ==
    call.op = "WriteBlock" /\ call.n > 0 /\ served # <<>> => served[1].val = OnBus(call, call.data[1])

\* fpgav3_emio_gpiod.cpp: the LSB is written last "because address change will
\* trigger read" ("actual write"), so a block has as many accesses as quadlets.
EachQuadletServed == Succeeded /\ ~hadEvents => Len(served) = call.n

\* fpgav3_emio_gpiod.cpp: WaitOpDone is to "wait for op_done to be set, using
\* either events or polling", so it reports true only if op_done is set.
WaitMeansDone == [][pc = "wait" /\ pc' # "wait" /\ ok' => OpDone]_vars

-----------------------------------------------------------------------------
(* The inductive invariant behind CallExact, Confined, BlockFramed and     *)
(* QuietBetweenCalls. It needs FabricPrompt.                               *)

Before    == {"dir", "ctrl", "addr", "lsb", "request"}
Requested == {"wait", "read", "data", "blkEnd", "toggle", "lower"}

\* The quadlets that the method has asked the firmware for; on its way out, the most
\* that it may have asked for.
Asked == CASE pc \in Before                       -> 0
           [] pc \in {"wait", "read"}             -> q + 1
           [] pc \in {"data", "blkEnd", "toggle"} -> q
           [] OTHER                               -> NonEmpty(call).n

\* The quadlet the firmware works on, or has just finished.
At == IF fw.st = "busy" THEN Len(served) + 1 ELSE Len(served)

\* The firmware has not yet seen the last change of the LSB line.
Pending == fw.st = "done" /\ pins.req /\ pins.lsb # fw.lsb

Odd == call.addr % 2 = 1

\* Where the methods are in their loops, whichever calls fail; events are queued only
\* for a line that was requested for them.
LoopInv ==
    /\ events > 0 => useEvents
    /\ pc # "ready" => ret = "none"
    /\ pc \in Before \/ ~IsBlock(call) => q = 0
    /\ pc \in {"lsb", "data", "blkEnd", "toggle"} => IsBlock(call)
    /\ pc = "wait" => q < NonEmpty(call).n
    /\ pc = "wait" /\ call.n = 0 => IsWrite(call)
    /\ pc = "read" => q < call.n /\ ~IsWrite(call)
    /\ pc \in {"data", "blkEnd", "toggle"} => q \in 1 .. call.n - 1
    /\ pc = "blkEnd" => q = call.n - 1
    /\ pc = "data" => IsWrite(call)
    /\ pc = "dir" => isInput = wasInput

\* What holds between any two libgpiod calls, whichever of them fail.
ControlInv == GpiodInv /\ LoopInv

\* What the methods have put on the lines.
DriverInv ==
    /\ pins.req <=> pc \in Requested
    /\ pc \notin {"ready", "dir", "return"} \/ fw.st # "idle" => (pins.out <=> IsWrite(call))
    /\ pc \in Requested \cup {"lsb", "request"} \/ (pc = "ctrl" /\ call.op # "ReadBlock") =>
          pins.addr = call.addr
    /\ IsBlock(call) /\ (pc \in Requested \cup {"request"} \/ (pc = "ctrl" /\ IsWrite(call))) =>
          /\ lsbVal \in IF Odd THEN {1, -2} ELSE {0, -1}
          /\ (pins.lsb <=> lsbVal # 0) \/ (pc = "lower" /\ ~Odd)
    /\ \/ pc \in {"ready", "dir", "return"}
       \/ pc = "ctrl" /\ call.op = "ReadBlock"
       \/ call.op = "ReadQuadlet"
       => ~pins.blkEnd

\* How far the firmware has come, whatever the driver believes.
FirmwareInv ==
    /\ fw.st # "idle" => /\ At \in 1 .. Asked
                         /\ fw.addr = QuadletAddr(call, At)
                         /\ pins.req /\ At = Asked => (fw.lsb <=> pins.lsb)
                         /\ IsBlock(call) /\ call.n > 1 /\ Odd => At = 1 /\ fw.lsb
    /\ fw.st = "idle" /\ pins.req => served = <<>>
    /\ pc \in Before => fw.st = "idle" /\ served = <<>>
    /\ pc = "ready" => fw.st = "idle"
    /\ fw.st = "done" /\ ~IsWrite(call) => rdata = served[Len(served)].val

\* No event is queued but the one of the quadlet that is waited for, and the method
\* goes on only when that one has been served.
InStep ==
    ~hadEvents =>
        /\ pc \in Before => events = 0
        /\ pc \in {"read", "data", "blkEnd", "toggle"} =>
              OpDone /\ (fw.lsb <=> pins.lsb) /\ events = 0
        /\ pc = "wait" /\ events > 0 => events = 1 /\ OpDone /\ (fw.lsb <=> pins.lsb)
        /\ pc = "wait" /\ fw.st = "idle" => q = 0
        /\ pins.req /\ fw.st = "busy" => (fw.lsb <=> pins.lsb)

\* A block from an odd address, of which only the first quadlet is served.
Stuck == IsBlock(call) /\ call.n > 1 /\ Odd

\* The method has come to its end without an error.
Ended == (pc \in {"lower", "zero", "return"} /\ ok) \/ Succeeded

\* Except for such a block, the quadlets served are those waited for.
Served ==
    ~hadEvents /\ ~Stuck =>
        /\ pc = "wait" => /\ fw.st = "busy" => At = Asked
                          /\ OpDone => \/ Len(served) = Asked
                                       \/ Len(served) = q /\ Pending
        /\ pc \in {"read", "data", "blkEnd", "toggle"} => Len(served) = Asked
        /\ Ended /\ call.n > 0 => Len(served) = call.n

\* The lines beside the i-th quadlet are those that it should be served with.
Framing(i) ==
    IsBlock(call) /\ ~hadEvents => (pins.blkStart <=> BlkStart(i)) /\ (pins.blkEnd <=> BlkEnd(i))
Written(i) == IsWrite(call) /\ ~Mishandled => pins.wdata = OnBus(call, call.data[i])

\* The lines are right for the quadlet that the firmware serves next.
LinesInv ==
    /\ fw.st = "busy" => Framing(At) /\ Written(At)
    /\ Pending => Framing(At + 1) /\ Written(At + 1)
    /\ fw.st = "idle" /\ pins.req => Framing(1) /\ Written(1)
    /\ pc \in Before \ {"dir"} => Written(1)
    /\ pc = "request" \/ (pc \in {"addr", "lsb"} /\ ~IsWrite(call)) => Framing(1)
    /\ pc \in {"wait", "read", "data", "blkEnd"} => Framing(Asked)
    /\ pc = "toggle" => Framing(q + 1)
    /\ pc \in {"blkEnd", "toggle"} => Written(q + 1)

\* What a reader has got is what the bus delivered.
Delivered ==
    ~IsWrite(call) /\ ~Mishandled =>
        /\ pc \in Before \cup {"wait", "read", "blkEnd", "toggle"} => Len(buf) = q
        /\ Ended => Len(buf) = call.n
        /\ \A i \in 1 .. Len(buf) : i <= Len(served) /\ buf[i] = OnBus(call, served[i].val)

\* A call that is not mishandled has seen nothing on the bus but a prefix of what it
\* asks for.
OnlyAsked == ~Mishandled => \A i \in DOMAIN served : Answers(served[i], call, i)

\* What every step of driver and firmware keeps in a call that has not slipped.
CallInv ==
    /\ ~slipped
    /\ ControlInv
    /\ DriverInv
    /\ FirmwareInv
    /\ InStep
    /\ Served
    /\ LinesInv
    /\ Delivered
    /\ OnlyAsked
    /\ Within
    /\ Framed

\* The invariant that every step keeps, whichever libgpiod calls fail: a call that
\* slips spoils only itself, and a later one that finds the lines quiet is exact again.
IInv == ControlInv /\ (slipped \/ CallInv)

=============================================================================
