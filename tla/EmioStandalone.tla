---------------------------- MODULE EmioStandalone ----------------------------
(***************************************************************************)
(* The bare-metal EMIO library (platform_standalone, fpgav3_emio.c), used  *)
(* by the first-stage boot loader and the test programs.                   *)
(*                                                                         *)
(* It drives the same bus as the Linux drivers, but it waits for op_done   *)
(* without a timeout, sets the direction of the data pins on every call    *)
(* and checks what the firmware makes of it, and does not swap block data. *)
(* EMIO_WritePromData is a loop of EMIO_WriteQuadlet calls. One step is one*)
(* access to the GPIO registers, as in EmioMmap.                           *)
(***************************************************************************)
EXTENDS EmioBus

CONSTANTS
    EndianSwap,   \* Xil_EndianSwap32 on Quads
    PromBase,     \* address of the first PROM register (0x2000)
    PromBytes     \* the lengths that EMIO_WritePromData is asked for (16)

ASSUME StandaloneAssumption ==
    /\ \A v \in Quads : Swap[v] = v
    /\ EndianSwap \in [Quads -> Quads]
    /\ PromBase \in Addrs
    /\ PromBytes \subseteq Nat

VARIABLES
    version,     \* bus version, an input from the firmware
    writeSeen,   \* Bits_Write: the firmware's view of the data pins' direction
    pc,          \* next access
    call,        \* the call in progress, or the last one
    q,           \* quadlet counter of the block loops
    buf,         \* data handed to the caller so far
    ret,         \* what the call returned
    prom,        \* EMIO_WritePromData: data, next quadlet, result
    promServed   \* history: bus transactions of EMIO_WritePromData

hostVars == <<version, writeSeen, pc, call, q, buf, ret, prom, promServed>>
vars == <<busVars, hostVars>>

Labels == {"ready", "dir", "check", "data", "request", "wait", "read", "lower", "return"}

PromData == UNION {[1 .. Quadded(b) -> Quads] : b \in PromBytes}
PromStates == [data : PromData \cup {<<>>}, i : Nat, ret : {"idle", "running", "true", "false"}]

NoProm == [data |-> <<>>, i |-> 0, ret |-> "idle"]

TypeOK ==
    /\ BusTypeOK
    /\ version \in 0 .. 2
    /\ writeSeen \in BOOLEAN
    /\ pc \in Labels
    /\ call \in Calls
    /\ q \in 0 .. call.n
    /\ buf \in Seq(Quads)
    /\ ret \in {"none", "true", "false"}
    /\ prom \in PromStates /\ prom.i <= Len(prom.data)
    /\ promServed \in Seq(Quadlets)

-----------------------------------------------------------------------------
\* EMIO_Init; the version is not looked at here.
Init ==
    /\ BusInit
    /\ version \in 0 .. 2
    /\ writeSeen = FALSE
    /\ pc = "ready"
    /\ call \in {c \in Calls : c.op = "ReadQuadlet" /\ c.addr = 0}
    /\ q = 0 /\ buf = <<>> /\ ret = "none"
    /\ prom = NoProm
    /\ promServed = <<>>

\* A method is entered with call c. Block transfers need bus version 1.
EnterCall(c) ==
    /\ call' = c
    /\ IF IsBlock(c) /\ version # 1
          THEN pc' = "ready" /\ ret' = "false"
          ELSE pc' = "dir" /\ ret' = "none"
    /\ q' = 0 /\ buf' = <<>> /\ served' = <<>>
    /\ UNCHANGED <<pins, fw, rdata, version, writeSeen>>

\* A program calls one of the register methods.
Enter ==
    /\ pc = "ready" /\ Settled
    /\ prom.ret # "running"
    /\ \E c \in Calls : EnterCall(c)
    /\ prom' = NoProm /\ promServed' = <<>>

PromCall(i) ==
    [op |-> "WriteQuadlet", addr |-> (PromBase + i) % AddrSpace, n |-> 1,
     data |-> <<EndianSwap[prom.data[i + 1]]>>]

\* EMIO_WritePromData is called.
EnterProm ==
    /\ pc = "ready" /\ Settled
    /\ prom.ret # "running"
    /\ prom' \in [data : PromData, i : {0}, ret : {"running"}]
    /\ promServed' = <<>>
    /\ UNCHANGED <<busVars, version, writeSeen, pc, call, q, buf, ret>>

PromAt == pc = "ready" /\ Settled /\ prom.ret = "running"

\* Mutant: the result of the last quadlet is not looked at.
PromWrite_Regardless ==
    /\ PromAt
    /\ prom.i < Len(prom.data)
    /\ EnterCall(PromCall(prom.i))
    /\ prom' = [prom EXCEPT !.i = prom.i + 1]
    /\ UNCHANGED promServed

\* Its loop calls EMIO_WriteQuadlet for the next quadlet ...
PromWrite ==
    /\ PromAt
    /\ prom.i > 0 => ret # "false"
    /\ prom.i < Len(prom.data)
    /\ EnterCall(PromCall(prom.i))
    /\ prom' = [prom EXCEPT !.i = prom.i + 1]
    /\ UNCHANGED promServed

\* ... until one fails or all are written.
PromReturn ==
    /\ PromAt
    /\ \/ prom.i > 0 /\ ret = "false" /\ prom' = [prom EXCEPT !.ret = "false"]
       \/ /\ prom.i = Len(prom.data) /\ (prom.i > 0 => ret # "false")
          /\ prom' = [prom EXCEPT !.ret = "true"]
    /\ UNCHANGED <<busVars, version, writeSeen, pc, call, q, buf, ret, promServed>>

\* Control passes from one access to the next.
Goto(from, to) ==
    /\ pc = from /\ Settled
    /\ pc' = to
    /\ UNCHANGED <<fw, rdata, served, version, writeSeen, call, prom, promServed>>

\* Data pins become outputs or inputs: Reg_DirLower, Reg_OutEnLower.
SetDirection(out) ==
    /\ Goto("dir", "check")
    /\ pins' = [pins EXCEPT !.out = out]
    /\ UNCHANGED <<q, buf, ret>>

\* Mutant: the state of the bus is not checked.
CheckState_Never(write, to) ==
    /\ Goto("check", to)
    /\ ret' = ret
    /\ UNCHANGED <<pins, q, buf>>

\* Mutant: a bus that is not in the right state is tried again.
CheckState_Retry(write, to) ==
    /\ \/ ~pins.req /\ writeSeen = write /\ Goto("check", to)
       \/ (pins.req \/ writeSeen # write) /\ Goto("check", "dir")
    /\ UNCHANGED <<pins, q, buf, ret>>

\* The firmware must not see a request and must see the direction that was set.
CheckState(write, to) ==
    /\ \/ ~pins.req /\ writeSeen = write /\ Goto("check", to) /\ ret' = ret
       \/ (pins.req \/ writeSeen # write) /\ Goto("check", "ready") /\ ret' = "false"
    /\ UNCHANGED <<pins, q, buf>>

\* Reg_OutputLower
WriteData ==
    /\ Goto("data", "request")
    /\ pins' = [pins EXCEPT !.wdata = call.data[q + 1]]
    /\ UNCHANGED <<q, buf, ret>>

\* Reg_OutputUpper, quadlet request. The reg_wen bit is no longer used.
RequestQuadlet ==
    /\ Goto("request", "wait")
    /\ pins' = [pins EXCEPT !.addr = call.addr, !.req = TRUE, !.lsb = FALSE,
                            !.blkStart = FALSE, !.blkEnd = FALSE]
    /\ UNCHANGED <<q, buf, ret>>

\* Mutant: the LSB is set for the first quadlet only.
RequestBlock_LateLsb ==
    /\ Goto("request", "wait")
    /\ pins' = [pins EXCEPT !.addr = call.addr, !.req = TRUE,
                            !.lsb = (q = 0 /\ call.addr % 2 = 1),
                            !.blkStart = (q # call.n - 1), !.blkEnd = (q = call.n - 1)]
    /\ UNCHANGED <<q, buf, ret>>

\* The same for quadlet q of a block; the address pins keep the start address.
RequestBlock ==
    /\ Goto("request", "wait")
    /\ pins' = [pins EXCEPT !.addr = call.addr, !.req = TRUE,
                            !.lsb = (QuadletAddr(call, q + 1) % 2 = 1),
                            !.blkStart = (q # call.n - 1),
                            !.blkEnd = (q = call.n - 1)]
    /\ UNCHANGED <<q, buf, ret>>

\* Polls, without a timeout, until op_done is set.
WaitOpDone(to) ==
    /\ Goto("wait", to)
    /\ OpDone
    /\ UNCHANGED <<pins, buf, ret>>

\* Reg_InputLower
ReadData(to) ==
    /\ Goto("read", to)
    /\ buf' = Append(buf, rdata)
    /\ q' = IF IsBlock(call) THEN q + 1 ELSE q
    /\ UNCHANGED <<pins, ret>>

\* Mutant: the lines stay up.
LowerLines_Skipped ==
    /\ Goto("lower", "return")
    /\ UNCHANGED <<pins, q, buf, ret>>

\* Reg_OutputUpper = 0
LowerLines ==
    /\ Goto("lower", "return")
    /\ pins' = [pins EXCEPT !.addr = 0, !.req = FALSE, !.lsb = FALSE,
                            !.blkStart = FALSE, !.blkEnd = FALSE]
    /\ UNCHANGED <<q, buf, ret>>

Return ==
    /\ Goto("return", "ready")
    /\ ret' = "true"
    /\ UNCHANGED <<pins, q, buf>>

ReadQuadlet ==
    /\ call.op = "ReadQuadlet"
    /\ \/ SetDirection(FALSE)
       \/ CheckState(FALSE, "request")
       \/ RequestQuadlet
       \/ WaitOpDone("read") /\ q' = q
       \/ ReadData("lower")
       \/ LowerLines
       \/ Return

WriteQuadlet ==
    /\ call.op = "WriteQuadlet"
    /\ \/ SetDirection(TRUE)
       \/ CheckState(TRUE, "data")
       \/ WriteData
       \/ RequestQuadlet
       \/ WaitOpDone("lower") /\ q' = q
       \/ LowerLines
       \/ Return

ReadBlock ==
    /\ call.op = "ReadBlock"
    /\ \/ SetDirection(FALSE)
       \/ CheckState(FALSE, IF call.n = 0 THEN "lower" ELSE "request")
       \/ RequestBlock
       \/ WaitOpDone("read") /\ q' = q
       \/ ReadData(IF q + 1 < call.n THEN "request" ELSE "lower")
       \/ LowerLines
       \/ Return

WriteBlock ==
    /\ call.op = "WriteBlock"
    /\ \/ SetDirection(TRUE)
       \/ CheckState(TRUE, IF call.n = 0 THEN "lower" ELSE "data")
       \/ WriteData
       \/ RequestBlock
       \/ WaitOpDone(IF q + 1 < call.n THEN "data" ELSE "lower") /\ q' = q + 1
       \/ LowerLines
       \/ Return

Driver == ReadQuadlet \/ WriteQuadlet \/ ReadBlock \/ WriteBlock \/ PromWrite \/ PromReturn

\* The firmware notices the direction of the data pins.
FwTristate ==
    /\ writeSeen # pins.out
    /\ writeSeen' = pins.out
    /\ UNCHANGED <<busVars, version, pc, call, q, buf, ret, prom, promServed>>

\* The other steps of the firmware; what it serves for EMIO_WritePromData is noted.
Fabric ==
    /\ FwAccept \/ FwServeAs(writeSeen) \/ FwNext \/ FwRelease
    /\ promServed' = IF prom.ret = "running" /\ served' # served
                        THEN Append(promServed, served'[Len(served')]) ELSE promServed
    /\ UNCHANGED <<version, writeSeen, pc, call, q, buf, ret, prom>>

Next == Enter \/ EnterProm \/ Driver \/ FwTristate \/ Fabric

Spec == Init /\ [][Next]_vars

\* The processor keeps running and so does the firmware's clock; when the
\* register bus is granted is left open.
Edges == (FwAccept \/ FwNext \/ FwRelease) /\ UNCHANGED hostVars
FairSpec == Spec /\ WF_vars(Driver) /\ WF_vars(Edges)

-----------------------------------------------------------------------------
(* Properties.                                                             *)

\* Bus transactions t are those that call c asks for, all of them.
Carried(t, c) == Len(t) = c.n /\ \A i \in 1 .. c.n : Answers(t[i], c, i)

\* A call that returns true has read or written exactly the registers it was
\* asked to, and a reader got what they delivered: without a wait for op_done to
\* clear, and without a timeout, op_done is never taken for an earlier quadlet's.
CallExact ==
    pc = "ready" /\ ret = "true" =>
        /\ Carried(served, call)
        /\ ~IsWrite(call) => buf = [i \in 1 .. call.n |-> served[i].val]

\* A call that returns false (wrong version, or the firmware does not see the
\* direction that setDataInput or setDataOutput asked for) has touched nothing.
RefusedUntouched == ret = "false" => served = <<>> /\ ~pins.req

\* EMIO_WritePromData: true means that the PROM registers got the whole data, each
\* quadlet in network order; false that they got only a prefix of it.
PromExact ==
    /\ prom.ret = "true" => Len(promServed) = Len(prom.data)
    /\ \A i \in DOMAIN promServed :
          /\ promServed[i].write /\ promServed[i].addr = (PromBase + i - 1) % AddrSpace
          /\ promServed[i].val = EndianSwap[prom.data[i]]

\* The library implements EMIO_Interface as EmioContract states it, and excuses no
\* call from it.
Contract == INSTANCE EmioContract WITH
    active <- pc # "ready", log <- served, got <- buf, excused <- FALSE,
    lost <- FALSE
ImplementsContract == Contract!Spec

\* If the register bus is granted to every request in the end, every call returns,
\* EMIO_WritePromData included; the code's endless loop needs no more than that.
ReturnsIfGranted ==
    (fw.st = "busy" ~> fw.st = "done") =>
        (pc # "ready" \/ prom.ret = "running" ~> pc = "ready" /\ prom.ret # "running")

-----------------------------------------------------------------------------
(* The inductive invariant behind CallExact, RefusedUntouched and          *)
(* PromExact. It needs FabricPrompt.                                       *)

\* How many quadlets the library has asked the firmware for.
Asked == CASE pc \in {"dir", "check"}    -> 0
           [] pc \in {"data", "request"} -> q
           [] pc \in {"wait", "read"}    -> q + 1
           [] OTHER                      -> call.n

\* The quadlet the firmware works on, or has just finished.
At == IF fw.st = "busy" THEN Len(served) + 1 ELSE Len(served)

\* Where the loops are, and what the library has put on the pins for it. Once the
\* check has been passed the firmware's view of the direction is the library's.
DriverInv ==
    /\ pc # "ready" => ret = "none"
    /\ pc \in {"data", "request", "wait", "read"} => q < call.n
    /\ pc \in {"dir", "check"} \/ ~IsBlock(call) => q = 0
    /\ pc = "data" => IsWrite(call)
    /\ pc = "read" => ~IsWrite(call)
    /\ pc \notin {"ready", "dir"} => (pins.out <=> IsWrite(call))
    /\ pc \notin {"ready", "dir", "check"} => (writeSeen <=> pins.out)
    /\ pc \in {"request", "wait"} /\ IsWrite(call) => pins.wdata = call.data[q + 1]
    /\ pins.req <=> \/ pc \in {"wait", "read"}
                    \/ pc \in {"data", "request"} /\ q > 0
                    \/ pc = "lower" /\ call.n > 0
    /\ pins.req => /\ pins.addr = call.addr
                   /\ pins.lsb <=> IsBlock(call) /\ QuadletAddr(call, Asked) % 2 = 1

\* How far the firmware has come; it works only while the library waits for it.
FirmwareInv ==
    /\ fw.st # "idle" => /\ At \in 1 .. Asked
                         /\ fw.addr = QuadletAddr(call, At)
                         /\ pins.req /\ At = Asked => (fw.lsb <=> pins.lsb)
    /\ fw.st = "idle" /\ pins.req => served = <<>>
    /\ pc \in {"dir", "check"} \/ (pc \in {"data", "request"} /\ q = 0) =>
          fw.st = "idle" /\ served = <<>>
    /\ pc = "ready" => fw.st = "idle"
    /\ fw.st = "done" /\ ~IsWrite(call) => rdata = served[Len(served)].val
    /\ fw.st = "busy" => pc = "wait" /\ At = Asked
    /\ pc = "wait" /\ fw.st = "idle" => q = 0
    /\ pc = "wait" /\ OpDone => Len(served) = Asked \/ (Len(served) = q /\ pins.lsb # fw.lsb)
    /\ pc \in {"read", "data", "request"} /\ Asked > 0 => OpDone /\ Len(served) = Asked
    /\ pc \in {"lower", "return"} \/ (pc = "ready" /\ ret = "true") => Len(served) = call.n
    /\ pc = "lower" /\ call.n > 0 => OpDone

\* What a reader has got is what the bus delivered.
Delivered ==
    ~IsWrite(call) =>
        /\ pc \in {"dir", "check", "request", "wait", "read"} => Len(buf) = q
        /\ pc \in {"lower", "return"} \/ (pc = "ready" /\ ret = "true") => Len(buf) = call.n
        /\ \A i \in 1 .. Len(buf) : i <= Len(served) /\ buf[i] = served[i].val

\* The bus has seen nothing but a prefix of what the call asks for.
OnlyAsked == \A i \in DOMAIN served : Answers(served[i], call, i)

\* While EMIO_WritePromData runs, its transactions are those of the quadlets before
\* the current one, and that of the current one once it has been served.
PromInv ==
    /\ prom.ret = "running" /\ prom.i = 0 => pc = "ready" /\ promServed = <<>>
    /\ prom.ret = "running" /\ prom.i > 0 =>
          /\ call = PromCall(prom.i - 1)
          /\ Len(promServed) = prom.i - 1 + Len(served)
          /\ pc = "ready" => ret # "none"

\* The types, with loop counters within the block, and all of the above.
StandaloneInv ==
    /\ TypeOK
    /\ RefusedUntouched
    /\ DriverInv
    /\ FirmwareInv
    /\ Delivered
    /\ OnlyAsked
    /\ PromInv
    /\ PromExact

=============================================================================
