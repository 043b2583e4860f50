------------------------------- MODULE EmioBus -------------------------------
(***************************************************************************)
(* The EMIO bus between the Zynq processor and the FPGA registers, as the  *)
(* two Linux drivers of libfpgav3 use it.                                  *)
(*                                                                         *)
(* The processor drives the output pins (address, duplicate address LSB,   *)
(* req_bus, blk_start, blk_end, and the data pins while they are outputs). *)
(* The FPGA firmware is not part of the repository; FwAccept, FwServe,     *)
(* FwNext and FwRelease model it from what the drivers' comments and       *)
(* actions rely on:                                                        *)
(*   - a request starts when req_bus is high, and may wait for as long as  *)
(*     Firewire or Ethernet keep the register bus busy;                    *)
(*   - whether it is a write is told from the direction of the data pins;  *)
(*   - op_done rises when the quadlet has been read or written;            *)
(*   - within a block a change of the LSB pin asks for the next address,   *)
(*     and drops op_done;                                                  *)
(*   - op_done drops when req_bus does.                                    *)
(* Registers are shared with Firewire and Ethernet, so a read may return   *)
(* any quadlet. The history variable served lists the quadlets that the    *)
(* firmware has read or written since the current call began.              *)
(***************************************************************************)
EXTENDS EmioCalls

CONSTANT
    FabricPrompt  \* the firmware sees a pin change before the next host access

ASSUME FabricAssumption == FabricPrompt \in BOOLEAN

VARIABLES
    pins,    \* the pins the processor drives
    fw,      \* the firmware's request state
    rdata,   \* what the firmware drives on the data pins
    served   \* history: quadlets read or written during the current call

busVars == <<pins, fw, rdata, served>>

PinStates == [req : BOOLEAN, addr : Addrs, lsb : BOOLEAN, blkStart : BOOLEAN,
              blkEnd : BOOLEAN, out : BOOLEAN, wdata : Quads]
FwStates  == [st : {"idle", "busy", "done"}, addr : Addrs, lsb : BOOLEAN]

BusTypeOK ==
    /\ pins \in PinStates
    /\ fw \in FwStates
    /\ rdata \in Quads
    /\ served \in Seq(Quadlets)

-----------------------------------------------------------------------------
(* The firmware.                                                           *)

OpDone == fw.st = "done"

BusInit ==
    /\ pins \in [req : {FALSE}, addr : {0}, lsb : {FALSE}, blkStart : {FALSE},
                 blkEnd : {FALSE}, out : {FALSE}, wdata : Quads]
    /\ fw = [st |-> "idle", addr |-> 0, lsb |-> FALSE]
    /\ rdata \in Quads
    /\ served = <<>>

\* A request is seen and latched.
FwAccept ==
    /\ fw.st = "idle" /\ pins.req
    /\ fw' = [st |-> "busy", addr |-> pins.addr, lsb |-> pins.lsb]
    /\ UNCHANGED <<pins, rdata, served>>

\* The register bus is granted: the quadlet is read, or written if the firmware
\* takes it for a write, and op_done rises. Pins that nobody drives have any value.
FwServeAs(write) ==
    /\ fw.st = "busy"
    /\ fw' = [fw EXCEPT !.st = "done"]
    /\ \E v \in IF write /\ pins.out THEN {pins.wdata} ELSE Quads :
          /\ rdata' = IF write THEN rdata ELSE v
          /\ served' = Append(served, [addr |-> fw.addr, write |-> write, val |-> v,
                                       blkStart |-> pins.blkStart, blkEnd |-> pins.blkEnd])
    /\ UNCHANGED pins

\* With the direction of the data pins known at once.
FwServe == FwServeAs(pins.out)

\* Within a block, a changed LSB asks for the next address.
FwNext ==
    /\ fw.st = "done" /\ pins.req /\ pins.lsb # fw.lsb
    /\ fw' = [st |-> "busy", addr |-> (fw.addr + 1) % AddrSpace, lsb |-> pins.lsb]
    /\ UNCHANGED <<pins, rdata, served>>

\* req_bus low ends the request, also one that was never granted.
FwRelease ==
    /\ fw.st # "idle" /\ ~pins.req
    /\ fw' = [fw EXCEPT !.st = "idle"]
    /\ UNCHANGED <<pins, rdata, served>>

\* A GPIO access takes far longer than a firmware clock: with FabricPrompt,
\* edges that drop op_done have been seen when the host makes its next access.
\* Nothing bounds the wait for the register bus.
EdgePending ==
    \/ fw.st # "idle" /\ ~pins.req
    \/ fw.st = "done" /\ pins.lsb # fw.lsb
Settled == FabricPrompt => ~EdgePending

=============================================================================
