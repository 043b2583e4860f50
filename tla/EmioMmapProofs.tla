---------------------------- MODULE EmioMmapProofs ----------------------------
(***************************************************************************)
(* Proofs about the mmap driver, for every address space, set of quadlets  *)
(* and set of block lengths.                                               *)
(***************************************************************************)
EXTENDS EmioMmap, EmioCallsProofs

\* The initial states satisfy the invariant.
LEMMA InitStep == Init => StepInv
<1> SUFFICES ASSUME Init PROVE StepInv
  OBVIOUS
<1>1. call \in Calls /\ call.op = "ReadQuadlet" /\ ~IsBlock(call) /\ ~IsWrite(call) /\ call.n = 1
  BY CallFacts DEF Init, IsBlock, Blocks, IsWrite, Writes
<1>2. AddrSpace \in Nat \ {0}
  BY CallsAssumption
<1>3. TypeOK
  <2> 0 \in Addrs
    BY <1>2 DEF Addrs
  <2>1. pins \in PinStates
    BY DEF Init, BusInit, PinStates
  <2>2. fw \in FwStates
    BY DEF Init, BusInit, FwStates
  <2>3. served \in Seq(Quadlets) /\ buf \in Seq(Quads) /\ rdata \in Quads
    BY DEF Init, BusInit
  <2> QED
    <3>1. q \in 0 .. call.n
      BY <1>1 DEF Init
    <3> QED
      BY <1>1, <2>1, <2>2, <2>3, <3>1 DEF Init, TypeOK, BusTypeOK, Labels
<1>4. isInput <=> ~pins.out
  BY DEF Init, BusInit
<1>5. DriverInv
  BY <1>1 DEF Init, BusInit, DriverInv
<1>6. FirmwareInv /\ InStep /\ Delivered /\ OnlyAsked /\ Confined
  BY <1>1 DEF Init, BusInit, FirmwareInv, InStep, Delivered, OnlyAsked, Confined, Succeeded
<1> QED
  BY <1>3, <1>4, <1>5, <1>6 DEF StepInv

\* A step of the driver leaves the bus history alone.
LEMMA HistoryKept ==
    ASSUME OnlyAsked, Confined, served' = served, call' = call, timedOut => timedOut'
    PROVE  OnlyAsked' /\ Confined'
BY DEF OnlyAsked, Confined


\* Types that the steps below use, with the records taken apart.
LEMMA TypeFacts ==
    ASSUME TypeOK
    PROVE  /\ pins.req \in BOOLEAN /\ pins.lsb \in BOOLEAN /\ pins.out \in BOOLEAN
           /\ pins.wdata \in Quads /\ pins.addr \in Addrs
           /\ fw.st \in {"idle", "busy", "done"} /\ fw.addr \in Addrs /\ fw.lsb \in BOOLEAN
           /\ Len(served) \in Nat /\ Len(buf) \in Nat
           /\ call \in Calls /\ call.n \in Nat /\ q \in Nat /\ q <= call.n
           /\ call.op \in Ops /\ call.addr \in Addrs
           /\ ~IsBlock(call) => call.n = 1
           /\ isInput \in BOOLEAN /\ timedOut \in BOOLEAN
           /\ IsWrite(call) => call.data \in [1 .. call.n -> Quads]
<1>1. call \in Calls /\ q \in 0 .. call.n
  BY DEF TypeOK
<1>2. /\ call.n \in Nat /\ call.op \in Ops /\ call.addr \in Addrs /\ (~IsBlock(call) => call.n = 1)
      /\ IsWrite(call) => call.data \in [1 .. call.n -> Quads]
  BY <1>1, CallFacts
<1>3. /\ pins.req \in BOOLEAN /\ pins.lsb \in BOOLEAN /\ pins.out \in BOOLEAN
      /\ pins.wdata \in Quads /\ pins.addr \in Addrs
      /\ fw.st \in {"idle", "busy", "done"} /\ fw.addr \in Addrs /\ fw.lsb \in BOOLEAN
  BY DEF TypeOK, BusTypeOK, PinStates, FwStates
<1>4. Len(served) \in Nat /\ Len(buf) \in Nat
  BY DEF TypeOK, BusTypeOK
<1>5. isInput \in BOOLEAN /\ timedOut \in BOOLEAN
  BY DEF TypeOK
<1> QED
  BY <1>1, <1>2, <1>3, <1>4, <1>5

-----------------------------------------------------------------------------
(* One lemma for each register access of the driver.                       *)

LEMMA SetInputStep ==
    ASSUME FabricPrompt, StepInv, NEW to, SetInput(to), ~IsWrite(call),
           \/ to = "request" /\ call.n > 0
           \/ to = "lower" /\ call.n = 0 /\ call.op = "ReadBlock"
    PROVE  StepInv'
<1> USE DEF Goto
<1>1. TypeOK /\ DriverInv /\ FirmwareInv /\ InStep /\ Delivered
  BY DEF StepInv
<1>2. pc = "dir" /\ pc' = to /\ UNCHANGED <<fw, rdata, served, version, call, q, buf, ret, timedOut>>
  BY DEF SetInput
<1>3. q = 0 /\ ~pins.req /\ fw.st = "idle" /\ served = <<>>
  BY <1>1, <1>2, TypeFacts DEF DriverInv, FirmwareInv
<1>4. /\ pins' \in PinStates /\ ~pins'.out /\ pins'.req = pins.req
      /\ isInput' = TRUE
  BY <1>1 DEF SetInput, TypeOK, BusTypeOK, PinStates, StepInv
<1>5. TypeOK'
  BY <1>1, <1>2, <1>4 DEF TypeOK, BusTypeOK, Labels
<1>6. DriverInv'
  BY <1>1, <1>2, <1>3, <1>4, TypeFacts DEF DriverInv
<1>7. FirmwareInv' /\ InStep' /\ Delivered'
  BY <1>1, <1>2, <1>3, <1>4, TypeFacts
     DEF FirmwareInv, InStep, Delivered, At, Asked, OpDone, Succeeded
<1> QED
  BY <1>2, <1>4, <1>5, <1>6, <1>7, HistoryKept DEF StepInv

LEMMA SetOutputStep ==
    ASSUME FabricPrompt, StepInv, NEW to, SetOutput(to), IsWrite(call),
           \/ to = "data" /\ call.n > 0
           \/ to = "clear" /\ call.n = 0 /\ call.op = "WriteBlock"
    PROVE  StepInv'
<1> USE DEF Goto
<1>1. TypeOK /\ DriverInv /\ FirmwareInv /\ InStep /\ Delivered
  BY DEF StepInv
<1>2. pc = "dir" /\ pc' = to /\ UNCHANGED <<fw, rdata, served, version, call, q, buf, ret, timedOut>>
  BY DEF SetOutput
<1>3. q = 0 /\ ~pins.req /\ fw.st = "idle" /\ served = <<>>
  BY <1>1, <1>2, TypeFacts DEF DriverInv, FirmwareInv
<1>4. /\ pins' \in PinStates /\ pins'.out /\ pins'.req = pins.req
      /\ isInput' = FALSE
  BY <1>1 DEF SetOutput, TypeOK, BusTypeOK, PinStates, StepInv
<1>5. TypeOK'
  BY <1>1, <1>2, <1>4 DEF TypeOK, BusTypeOK, Labels
<1>6. DriverInv'
  BY <1>1, <1>2, <1>3, <1>4, TypeFacts DEF DriverInv
<1>7. FirmwareInv' /\ InStep' /\ Delivered'
  BY <1>1, <1>2, <1>3, <1>4, TypeFacts
     DEF FirmwareInv, InStep, Delivered, At, Asked, OpDone, Succeeded
<1> QED
  BY <1>2, <1>4, <1>5, <1>6, <1>7, HistoryKept DEF StepInv

LEMMA WriteDataStep ==
    ASSUME FabricPrompt, StepInv, WriteData
    PROVE  StepInv'
<1> USE DEF Goto
<1>1. TypeOK /\ DriverInv /\ FirmwareInv /\ InStep /\ Delivered
  BY DEF StepInv
<1>2. /\ pc = "data" /\ pc' = "request"
      /\ UNCHANGED <<fw, rdata, served, version, isInput, call, q, buf, ret, timedOut>>
  BY DEF WriteData
<1>3. IsWrite(call) /\ q < call.n
  BY <1>1, <1>2 DEF DriverInv
<1>4. OnBus(call, call.data[q + 1]) \in Quads
  BY <1>1, <1>3, TypeFacts, OnBusType
<1>5. /\ pins' \in PinStates /\ pins'.wdata = OnBus(call, call.data[q + 1])
      /\ pins'.out = pins.out /\ pins'.req = pins.req /\ pins'.lsb = pins.lsb
      /\ pins'.addr = pins.addr
  BY <1>1, <1>4 DEF WriteData, TypeOK, BusTypeOK, PinStates
<1>6. TypeOK'
  BY <1>1, <1>2, <1>5 DEF TypeOK, BusTypeOK, Labels
<1>7. Asked' = Asked /\ At' = At
  BY <1>2 DEF Asked, At
<1>8. DriverInv'
  BY <1>1, <1>2, <1>3, <1>5, <1>7, TypeFacts DEF DriverInv
<1>9. FirmwareInv' /\ InStep' /\ Delivered'
  BY <1>1, <1>2, <1>3, <1>5, <1>7, TypeFacts
     DEF FirmwareInv, InStep, Delivered, OpDone, Succeeded
<1> QED
  BY <1>2, <1>5, <1>6, <1>8, <1>9, HistoryKept DEF StepInv

LEMMA RequestQuadletStep ==
    ASSUME FabricPrompt, StepInv, RequestQuadlet, ~IsBlock(call)
    PROVE  StepInv'
<1> USE DEF Goto
<1>1. TypeOK /\ DriverInv /\ FirmwareInv /\ InStep /\ Delivered
  BY DEF StepInv
<1>2. /\ pc = "request" /\ pc' = "wait"
      /\ UNCHANGED <<fw, rdata, served, version, isInput, call, q, buf, ret, timedOut>>
  BY DEF RequestQuadlet
<1>3. q = 0 /\ call.n = 1 /\ fw.st = "idle" /\ served = <<>>
  BY <1>1, <1>2, TypeFacts DEF DriverInv, FirmwareInv
<1>4. /\ pins' \in PinStates /\ pins'.wdata = pins.wdata /\ pins'.out = pins.out
      /\ pins'.req /\ ~pins'.lsb /\ pins'.addr = call.addr
  BY <1>1, TypeFacts DEF RequestQuadlet, TypeOK, BusTypeOK, PinStates
<1>5. TypeOK'
  BY <1>1, <1>2, <1>4 DEF TypeOK, BusTypeOK, Labels
<1>6. DriverInv'
  BY <1>1, <1>2, <1>3, <1>4, TypeFacts DEF DriverInv
<1>7. FirmwareInv' /\ InStep' /\ Delivered'
  BY <1>1, <1>2, <1>3, <1>4, TypeFacts
     DEF FirmwareInv, InStep, Delivered, At, Asked, OpDone, Succeeded
<1> QED
  BY <1>2, <1>4, <1>5, <1>6, <1>7, HistoryKept DEF StepInv

LEMMA RequestBlockStep ==
    ASSUME FabricPrompt, StepInv, RequestBlock, IsBlock(call)
    PROVE  StepInv'
<1> USE DEF Goto
<1>1. TypeOK /\ DriverInv /\ FirmwareInv /\ InStep /\ Delivered
  BY DEF StepInv
<1>2. /\ pc = "request" /\ pc' = "wait"
      /\ UNCHANGED <<fw, rdata, served, version, isInput, call, q, buf, ret, timedOut>>
  BY DEF RequestBlock
<1>3. /\ q < call.n /\ Asked = q /\ Asked' = q + 1 /\ At' = At
      /\ q \in Nat /\ call.n \in Nat
  BY <1>1, <1>2, TypeFacts DEF DriverInv, Asked, At
<1>4. /\ pins' \in PinStates /\ pins'.wdata = pins.wdata /\ pins'.out = pins.out
      /\ pins'.req /\ pins'.addr = call.addr
      /\ pins'.lsb <=> QuadletAddr(call, q + 1) % 2 = 1
  <2> DEFINE l == QuadletAddr(call, q + 1) % 2 = 1
             s == q # call.n - 1
             e == q = call.n - 1
  <2>1. pins' = [pins EXCEPT !.addr = call.addr, !.req = TRUE, !.lsb = l,
                             !.blkStart = s, !.blkEnd = e]
    BY DEF RequestBlock
  <2>2. pins \in PinStates /\ l \in BOOLEAN /\ s \in BOOLEAN /\ e \in BOOLEAN /\ call.addr \in Addrs
    BY <1>1, TypeFacts DEF TypeOK, BusTypeOK
  <2> HIDE DEF l, s, e
  <2>3. /\ pins' \in PinStates /\ pins'.wdata = pins.wdata /\ pins'.out = pins.out
        /\ pins'.req /\ pins'.addr = call.addr /\ pins'.lsb = l
    BY <2>1, <2>2 DEF PinStates
  <2> QED
    BY <2>3 DEF l
<1>5. TypeOK'
  BY <1>1, <1>2, <1>4 DEF TypeOK, BusTypeOK, Labels
<1>6. DriverInv'
  BY <1>1, <1>2, <1>3, <1>4, TypeFacts DEF DriverInv
<1>7. At \in Nat
  BY <1>1, TypeFacts DEF At
<1>8. q = 0 => fw.st = "idle" /\ served = <<>>
  BY <1>1, <1>2 DEF FirmwareInv
<1>9. q > 0 => /\ pins.req
               /\ pins'.lsb <=> ~pins.lsb
  <2> SUFFICES ASSUME q > 0
               PROVE  pins.req /\ (pins'.lsb <=> ~pins.lsb)
    OBVIOUS
  <2>1. pins.req /\ (pins.lsb <=> QuadletAddr(call, q) % 2 = 1)
    BY <1>1, <1>2, <1>3 DEF DriverInv
  <2>2. (QuadletAddr(call, q + 1) % 2 = 1) # (QuadletAddr(call, q) % 2 = 1)
    BY <1>1, <1>3, TypeFacts, AddrNext
  <2> QED
    BY <2>1, <2>2, <1>4
<1>10. FirmwareInv'
  BY <1>1, <1>2, <1>3, <1>4, <1>7, <1>8, <1>9, TypeFacts DEF FirmwareInv
<1>11. InStep'
  BY <1>1, <1>2, <1>3, <1>4, <1>7, <1>8, <1>9, TypeFacts DEF InStep, FirmwareInv, At, OpDone, Succeeded
<1>12. Delivered'
  BY <1>1, <1>2 DEF Delivered, Succeeded
<1> QED
  BY <1>2, <1>4, <1>5, <1>6, <1>10, <1>11, <1>12, HistoryKept DEF StepInv

LEMMA WaitSetStep ==
    ASSUME FabricPrompt, StepInv, NEW to, Wait(TRUE, "wait", to),
           \/ to = "read" /\ ~IsWrite(call)
           \/ to = "lower" /\ call.op = "WriteQuadlet"
    PROVE  StepInv'
<1> USE DEF Goto
<1>1. TypeOK /\ DriverInv /\ FirmwareInv /\ InStep /\ Delivered
  BY DEF StepInv
<1>2. /\ pc = "wait" /\ pc' = to /\ Settled
      /\ UNCHANGED <<busVars, version, isInput, call, q, buf, ret>>
      /\ timedOut' = (timedOut \/ ~OpDoneTest(TRUE))
  BY DEF Wait, WaitOpDone, busVars
<1>3. /\ q < call.n /\ Asked = q + 1 /\ Asked' = q + 1 /\ At' = At /\ pins.req
      /\ call.op = "WriteQuadlet" => IsWrite(call) /\ ~IsBlock(call) /\ q = 0 /\ call.n = 1
  BY <1>1, <1>2, TypeFacts
     DEF DriverInv, Asked, At, busVars, IsWrite, Writes, IsBlock, Blocks
<1>4. ~timedOut' => ~timedOut /\ OpDone
  <2>1. OpDoneTest(TRUE) => OpDone
    BY DEF OpDoneTest, BitsOpDone
  <2> QED
    BY <1>2, <2>1, Zenon
<1>5. OpDone => (pins.lsb <=> fw.lsb)
  BY <1>1, <1>2, <1>3, TypeFacts DEF Settled, EdgePending, OpDone
<1>6. ~timedOut' => Len(served) = q + 1
  BY <1>1, <1>2, <1>3, <1>4, <1>5, TypeFacts DEF InStep
<1>7. TypeOK'
  BY <1>1, <1>2 DEF TypeOK, BusTypeOK, Labels, busVars
<1>8. DriverInv'
  BY <1>1, <1>2, <1>3, TypeFacts DEF DriverInv, busVars
<1>9. FirmwareInv'
  BY <1>1, <1>2, <1>3, TypeFacts DEF FirmwareInv, busVars
<1>10. InStep'
  BY <1>1, <1>2, <1>3, <1>4, <1>6, TypeFacts DEF InStep, Succeeded, OpDone, busVars
<1>11. Delivered'
  BY <1>1, <1>2, <1>3, <1>4, TypeFacts DEF Delivered, Succeeded, busVars
<1> QED
  BY <1>2, <1>4, <1>7, <1>8, <1>9, <1>10, <1>11, HistoryKept DEF StepInv, busVars

LEMMA WaitWrittenStep ==
    ASSUME FabricPrompt, StepInv, WaitWritten, call.op = "WriteBlock"
    PROVE  StepInv'
<1> USE DEF Goto
<1>1. TypeOK /\ DriverInv /\ FirmwareInv /\ InStep /\ Delivered
  BY DEF StepInv
<1>2. /\ pc = "wait" /\ pc' = (IF q + 1 < call.n THEN "data" ELSE "clear") /\ Settled
      /\ UNCHANGED <<busVars, version, isInput, call, buf, ret>> /\ q' = q + 1
      /\ timedOut' = (timedOut \/ ~OpDoneTest(TRUE))
  BY DEF WaitWritten, WaitOpDone, busVars
<1>3. /\ q < call.n /\ q \in Nat /\ call.n \in Nat /\ pins.req
      /\ IsWrite(call) /\ IsBlock(call)
  BY <1>1, <1>2, TypeFacts DEF DriverInv, IsWrite, Writes, IsBlock, Blocks
<1>4. Asked = q + 1 /\ Asked' = q + 1 /\ At' = At
  BY <1>2, <1>3 DEF Asked, At, busVars
<1>5. ~timedOut' => ~timedOut /\ OpDone
  <2>1. OpDoneTest(TRUE) => OpDone
    BY DEF OpDoneTest, BitsOpDone
  <2> QED
    BY <1>2, <2>1, Zenon
<1>6. OpDone => (pins.lsb <=> fw.lsb)
  BY <1>1, <1>2, <1>3, TypeFacts DEF Settled, EdgePending, OpDone
<1>7. ~timedOut' => Len(served) = q + 1
  BY <1>1, <1>2, <1>3, <1>4, <1>5, <1>6, TypeFacts DEF InStep
<1>8. TypeOK'
  BY <1>1, <1>2, <1>3 DEF TypeOK, BusTypeOK, Labels, busVars
<1>9. DriverInv'
  BY <1>1, <1>2, <1>3, <1>4, TypeFacts DEF DriverInv, busVars
<1>10. FirmwareInv'
  BY <1>1, <1>2, <1>3, <1>4, TypeFacts DEF FirmwareInv, busVars
<1>11. InStep'
  BY <1>1, <1>2, <1>3, <1>4, <1>5, <1>7, TypeFacts DEF InStep, Succeeded, OpDone, busVars
<1>12. Delivered'
  BY <1>2, <1>3 DEF Delivered
<1> QED
  BY <1>2, <1>5, <1>8, <1>9, <1>10, <1>11, <1>12, HistoryKept DEF StepInv, busVars

LEMMA ReadDataStep ==
    ASSUME FabricPrompt, StepInv, NEW to, ReadData(to), ~IsWrite(call),
           to = IF IsBlock(call) /\ q + 1 < call.n THEN "request" ELSE "lower"
    PROVE  StepInv'
<1> USE DEF Goto
<1>1. TypeOK /\ DriverInv /\ FirmwareInv /\ InStep /\ Delivered
  BY DEF StepInv
<1>2. /\ pc = "read" /\ pc' = to
      /\ UNCHANGED <<busVars, version, isInput, call, ret, timedOut>>
      /\ buf' = Append(buf, OnBus(call, rdata))
      /\ q' = IF IsBlock(call) THEN q + 1 ELSE q
  BY DEF ReadData, busVars
<1>3. /\ q < call.n /\ q \in Nat /\ call.n \in Nat /\ pins.req
      /\ ~IsBlock(call) => q = 0 /\ call.n = 1
  BY <1>1, <1>2, TypeFacts DEF DriverInv
<1>4. Asked = q + 1 /\ Asked' = q + 1 /\ At' = At
  BY <1>2, <1>3 DEF Asked, At, busVars
<1>5. OnBus(call, rdata) \in Quads
  BY <1>1, OnBusType DEF TypeOK, BusTypeOK
<1>6. /\ buf \in Seq(Quads) /\ buf' \in Seq(Quads) /\ Len(buf') = Len(buf) + 1
      /\ buf'[Len(buf) + 1] = OnBus(call, rdata)
      /\ \A i \in 1 .. Len(buf) : buf'[i] = buf[i]
  BY <1>1, <1>2, <1>5 DEF TypeOK
<1>7. TypeOK'
  BY <1>1, <1>2, <1>3, <1>6 DEF TypeOK, BusTypeOK, Labels, busVars
<1>8. DriverInv'
  BY <1>1, <1>2, <1>3, <1>4, TypeFacts DEF DriverInv, busVars
<1>9. FirmwareInv'
  BY <1>1, <1>2, <1>3, <1>4, TypeFacts DEF FirmwareInv, busVars
<1>10. InStep'
  BY <1>1, <1>2, <1>3, <1>4, TypeFacts DEF InStep, Succeeded, OpDone, busVars
<1>11. Delivered'
  <2> SUFFICES ASSUME ~timedOut PROVE Delivered'
    BY <1>2 DEF Delivered
  <2>1. OpDone /\ Len(served) = q + 1 /\ Len(buf) = q
    BY <1>1, <1>2, <1>3, <1>4 DEF InStep, Delivered
  <2>2. rdata = served[q + 1].val
    BY <1>1, <2>1 DEF FirmwareInv, OpDone
  <2>3. Len(buf') = q + 1 /\ Len(served') = q + 1
    BY <1>2, <1>6, <2>1 DEF busVars
  <2>4. ASSUME NEW i \in 1 .. Len(buf')
        PROVE  i <= Len(served') /\ buf'[i] = OnBus(call, served[i].val)
    <3>1. i \in 1 .. q + 1
      BY <2>3
    <3>2. CASE i = q + 1
      BY <3>2, <1>6, <2>1, <2>2, <2>3
    <3>3. CASE i # q + 1
      <4>1. i \in 1 .. Len(buf)
        BY <3>1, <3>3, <2>1, <1>3
      <4> QED
        BY <4>1, <3>1, <1>1, <1>6, <2>3 DEF Delivered
    <3> QED
      BY <3>2, <3>3
  <2> QED
    BY <1>2, <1>3, <2>3, <2>4 DEF Delivered, Succeeded, busVars
<1> QED
  BY <1>1, <1>2, <1>7, <1>8, <1>9, <1>10, <1>11, HistoryKept DEF StepInv, busVars

LEMMA LowerLinesStep ==
    ASSUME FabricPrompt, StepInv, NEW to, LowerLines(to),
           to = IF call.op = "WriteBlock" THEN "return" ELSE "clear"
    PROVE  StepInv'
<1> USE DEF Goto
<1>1. TypeOK /\ DriverInv /\ FirmwareInv /\ InStep /\ Delivered
  BY DEF StepInv
<1>2. /\ pc = "lower" /\ pc' = to
      /\ UNCHANGED <<fw, rdata, served, version, isInput, call, q, buf, ret, timedOut>>
  BY DEF LowerLines
<1>3. 0 \in Addrs
  BY CallsAssumption DEF Addrs
<1>4. pins' \in PinStates /\ pins'.out = pins.out /\ ~pins'.req
  BY <1>1, <1>3 DEF LowerLines, TypeOK, BusTypeOK, PinStates
<1>5. Asked' = Asked /\ At' = At
  BY <1>2 DEF Asked, At
<1>6. TypeOK'
  BY <1>1, <1>2, <1>4 DEF TypeOK, BusTypeOK, Labels
<1>7. DriverInv'
  BY <1>1, <1>2, <1>4, TypeFacts DEF DriverInv
<1>8. FirmwareInv'
  BY <1>1, <1>2, <1>4, <1>5, TypeFacts DEF FirmwareInv
<1>9. InStep' /\ Delivered'
  BY <1>1, <1>2, <1>4, <1>5, TypeFacts DEF InStep, Delivered, Succeeded, OpDone
<1> QED
  BY <1>1, <1>2, <1>4, <1>6, <1>7, <1>8, <1>9, HistoryKept DEF StepInv

LEMMA WaitClearStep ==
    ASSUME FabricPrompt, StepInv, NEW to, Wait(FALSE, "clear", to),
           to = IF call.op = "WriteBlock" THEN "lower" ELSE "return"
    PROVE  StepInv'
<1> USE DEF Goto
<1>1. TypeOK /\ DriverInv /\ FirmwareInv /\ InStep /\ Delivered
  BY DEF StepInv
<1>2. /\ pc = "clear" /\ pc' = to /\ Settled
      /\ UNCHANGED <<busVars, version, isInput, call, q, buf, ret>>
      /\ timedOut' = (timedOut \/ ~OpDoneTest(FALSE))
  BY DEF Wait, WaitOpDone, busVars
<1>3. OpDoneTest(FALSE)
  BY DEF OpDoneTest, BitsOpDone
<1>4. timedOut' = timedOut
  BY <1>1, <1>2, <1>3, TypeFacts
<1>5. Asked' = Asked /\ At' = At
  BY <1>2 DEF Asked, At, busVars
<1>6. TypeOK'
  BY <1>1, <1>2, <1>4 DEF TypeOK, BusTypeOK, Labels, busVars
<1>7. DriverInv'
  BY <1>1, <1>2, <1>5, TypeFacts DEF DriverInv, busVars
<1>8. FirmwareInv'
  BY <1>1, <1>2, <1>5, TypeFacts DEF FirmwareInv, busVars
<1>9. InStep' /\ Delivered'
  <2>1. ~timedOut /\ call.op = "WriteBlock" /\ call.n > 0 => fw.st = "done"
    <3>1. call.op = "WriteBlock" /\ call.n > 0 => pins.req
      BY <1>1, <1>2, TypeFacts DEF DriverInv
    <3>2. ~timedOut => Len(served) = call.n /\ fw.st # "busy"
      BY <1>1, <1>2 DEF InStep
    <3>3. call.op = "WriteBlock" /\ call.n > 0 /\ fw.st = "idle" => served = <<>>
      BY <1>1, <3>1 DEF FirmwareInv
    <3> QED
      BY <1>1, <3>2, <3>3, TypeFacts
  <2> QED
    BY <1>1, <1>2, <1>4, <1>5, <2>1, TypeFacts DEF InStep, Delivered, Succeeded, OpDone, busVars
<1> QED
  BY <1>1, <1>2, <1>4, <1>6, <1>7, <1>8, <1>9, HistoryKept DEF StepInv, busVars

LEMMA ReturnStep ==
    ASSUME FabricPrompt, StepInv, Return
    PROVE  StepInv'
<1> USE DEF Goto
<1>1. TypeOK /\ DriverInv /\ FirmwareInv /\ InStep /\ Delivered
  BY DEF StepInv
<1>2. /\ pc = "return" /\ pc' = "ready" /\ Settled
      /\ UNCHANGED <<busVars, version, isInput, call, q, buf, timedOut>>
      /\ ret' = "true"
  BY DEF Return, busVars
<1>3. ~pins.req /\ fw.st = "idle"
  BY <1>1, <1>2, TypeFacts DEF DriverInv, Settled, EdgePending
<1>4. TypeOK'
  BY <1>1, <1>2 DEF TypeOK, BusTypeOK, Labels, busVars
<1>5. DriverInv'
  BY <1>1, <1>2, <1>3, TypeFacts DEF DriverInv, busVars
<1>6. FirmwareInv' /\ InStep' /\ Delivered'
  BY <1>1, <1>2, <1>3, TypeFacts
     DEF FirmwareInv, InStep, Delivered, Succeeded, OpDone, Asked, At, busVars
<1> QED
  BY <1>1, <1>2, <1>4, <1>5, <1>6, HistoryKept DEF StepInv, busVars

LEMMA EnterStep ==
    ASSUME FabricPrompt, StepInv, Enter
    PROVE  StepInv'
<1>1. TypeOK /\ DriverInv /\ FirmwareInv /\ InStep /\ Delivered
  BY DEF StepInv
<1>2. /\ pc = "ready" /\ call' \in Calls /\ q' = 0 /\ buf' = <<>> /\ served' = <<>>
      /\ ~timedOut' /\ UNCHANGED <<pins, fw, rdata, version, isInput>>
      /\ \/ pc' = "dir" /\ ret' = "none"
         \/ pc' = "ready" /\ ret' = "false"
  BY DEF Enter
<1>3. ~pins.req /\ fw.st = "idle"
  BY <1>1, <1>2, TypeFacts DEF DriverInv, FirmwareInv
<1>4. call'.n \in Nat
  BY <1>2, CallFacts
<1>5. TypeOK'
  <2>1. timedOut' = FALSE
    BY DEF Enter
  <2>2. q' \in 0 .. call'.n
    BY <1>2, <1>4
  <2>3. pc' \in Labels /\ ret' \in {"none", "true", "false"} /\ buf' \in Seq(Quads)
    BY <1>2 DEF Labels
  <2>4. BusTypeOK'
    BY <1>1, <1>2 DEF TypeOK, BusTypeOK
  <2> QED
    BY <1>1, <1>2, <2>1, <2>2, <2>3, <2>4 DEF TypeOK
<1>6. DriverInv'
  BY <1>2, <1>3 DEF DriverInv
<1>7. FirmwareInv' /\ InStep' /\ Delivered'
  BY <1>2, <1>3 DEF FirmwareInv, InStep, Delivered, Succeeded, OpDone, Asked
<1>8. OnlyAsked' /\ Confined'
  BY <1>2 DEF OnlyAsked, Confined
<1> QED
  BY <1>1, <1>2, <1>5, <1>6, <1>7, <1>8 DEF StepInv

-----------------------------------------------------------------------------
(* One lemma for each step of the firmware.                                *)

LEMMA FwAcceptStep ==
    ASSUME FabricPrompt, StepInv, FwAccept, UNCHANGED hostVars
    PROVE  StepInv'
<1>1. TypeOK /\ DriverInv /\ FirmwareInv /\ InStep /\ Delivered
  BY DEF StepInv
<1>2. /\ fw.st = "idle" /\ pins.req /\ UNCHANGED <<pins, rdata, served, hostVars>>
      /\ fw'.st = "busy" /\ fw'.addr = pins.addr /\ fw'.lsb = pins.lsb
  BY DEF FwAccept
<1>3. served = <<>> /\ At' = 1 /\ Asked' = Asked
  BY <1>1, <1>2 DEF FirmwareInv, At, Asked, hostVars
<1>4. Asked \in Nat \ {0} /\ pins.addr = call.addr
  BY <1>1, <1>2, TypeFacts DEF DriverInv, Asked
<1>5. fw'.addr = QuadletAddr(call, 1)
  BY <1>1, <1>2, <1>4, TypeFacts, AddrFirst
<1>6. TypeOK'
  <2>1. fw' \in FwStates
    BY <1>1, TypeFacts DEF FwAccept, FwStates
  <2> QED
    BY <1>1, <1>2, <2>1 DEF TypeOK, BusTypeOK, hostVars
<1>7. DriverInv'
  BY <1>1, <1>2, <1>3 DEF DriverInv, hostVars
<1>8. FirmwareInv'
  BY <1>1, <1>2, <1>3, <1>4, <1>5, TypeFacts DEF FirmwareInv, DriverInv, hostVars
<1>9. InStep'
  <2> SUFFICES ASSUME ~timedOut PROVE InStep'
    BY <1>2 DEF InStep, hostVars
  <2>1. pc = "wait" /\ Asked = 1
    BY <1>1, <1>2, <1>3, <1>4, TypeFacts DEF DriverInv, FirmwareInv, InStep, Asked, OpDone
  <2> QED
    BY <1>2, <1>3, <2>1 DEF InStep, OpDone, Succeeded, hostVars
<1>10. Delivered'
  BY <1>1, <1>2 DEF Delivered, Succeeded, hostVars
<1> QED
  BY <1>2, <1>6, <1>7, <1>8, <1>9, <1>10, HistoryKept DEF StepInv, hostVars

LEMMA FwServeStep ==
    ASSUME FabricPrompt, StepInv, FwServe, UNCHANGED hostVars
    PROVE  StepInv'
<1>1. TypeOK /\ DriverInv /\ FirmwareInv /\ InStep /\ Delivered /\ OnlyAsked /\ Confined
  BY DEF StepInv
<1>2. PICK v \in IF pins.out THEN {pins.wdata} ELSE Quads :
         /\ rdata' = IF pins.out THEN rdata ELSE v
         /\ served' = Append(served, [addr |-> fw.addr, write |-> pins.out, val |-> v,
                                      blkStart |-> pins.blkStart, blkEnd |-> pins.blkEnd])
  BY DEF FwServe, FwServeAs
<1> DEFINE e == [addr |-> fw.addr, write |-> pins.out, val |-> v,
                 blkStart |-> pins.blkStart, blkEnd |-> pins.blkEnd]
<1>3. /\ fw.st = "busy" /\ fw' = [fw EXCEPT !.st = "done"] /\ UNCHANGED <<pins, hostVars>>
  BY DEF FwServe, FwServeAs
<1>4. v \in Quads /\ e \in Quadlets /\ fw' \in FwStates
      /\ fw'.st = "done" /\ fw'.addr = fw.addr /\ fw'.lsb = fw.lsb
  BY <1>1, <1>2, <1>3, TypeFacts DEF TypeOK, BusTypeOK, PinStates, FwStates, Quadlets
<1>5. /\ e.addr = fw.addr /\ e.write = pins.out /\ e.val = v
      /\ pins.out => v = pins.wdata
  BY <1>2
<1> HIDE DEF e
<1>6. /\ served \in Seq(Quadlets) /\ served' \in Seq(Quadlets)
      /\ Len(served') = Len(served) + 1 /\ Len(served) \in Nat
      /\ served'[Len(served) + 1] = e
      /\ \A i \in 1 .. Len(served) : served'[i] = served[i]
  BY <1>1, <1>2, <1>4 DEF TypeOK, BusTypeOK, e
<1>7. /\ At = Len(served) + 1 /\ At' = At /\ Asked' = Asked
      /\ At \in 1 .. Asked /\ Asked \in Nat /\ Asked <= call.n
      /\ fw.addr = QuadletAddr(call, At)
  <2>1. At = Len(served) + 1 /\ At' = At /\ Asked' = Asked
    BY <1>3, <1>4, <1>6 DEF At, Asked, hostVars
  <2>2. At \in 1 .. Asked /\ fw.addr = QuadletAddr(call, At)
    BY <1>1, <1>3 DEF FirmwareInv
  <2>3. Asked \in Nat /\ Asked <= call.n
    BY <1>1, TypeFacts DEF DriverInv, Asked
  <2> QED
    BY <2>1, <2>2, <2>3
<1>8. pc \notin {"ready", "dir"} /\ (pins.out <=> IsWrite(call))
  BY <1>1, <1>3 DEF FirmwareInv, DriverInv
<1>9. TypeOK'
  <2>1. rdata' \in Quads
    BY <1>1, <1>2, <1>4 DEF TypeOK, BusTypeOK
  <2> QED
    BY <1>1, <1>3, <1>4, <1>6, <2>1 DEF TypeOK, BusTypeOK, hostVars
<1>10. DriverInv'
  BY <1>1, <1>3, <1>7 DEF DriverInv, hostVars
<1>11. FirmwareInv'
  <2>1. ~IsWrite(call) => rdata' = served'[Len(served')].val
    BY <1>2, <1>5, <1>6, <1>8
  <2>2. ~(pc = "dir" \/ (pc \in {"data", "request"} /\ q = 0)) /\ pc # "ready"
    BY <1>1, <1>3 DEF FirmwareInv
  <2> QED
    BY <1>1, <1>3, <1>4, <1>7, <2>1, <2>2 DEF FirmwareInv, hostVars
<1>12. InStep'
  BY <1>1, <1>3, <1>4, <1>6, <1>7, <1>8, TypeFacts DEF InStep, OpDone, Succeeded, hostVars
<1>13. Delivered'
  <2> SUFFICES ASSUME ~timedOut, ~IsWrite(call) PROVE Delivered'
    BY <1>3 DEF Delivered, hostVars
  <2>1. ASSUME NEW i \in 1 .. Len(buf)
        PROVE  i <= Len(served') /\ buf[i] = OnBus(call, served'[i].val)
    <3>1. i <= Len(served) /\ buf[i] = OnBus(call, served[i].val)
      BY <1>1 DEF Delivered
    <3>2. Len(buf) \in Nat
      BY <1>1, TypeFacts
    <3>3. i \in 1 .. Len(served)
      BY <3>1, <3>2, <1>6
    <3> QED
      BY <3>1, <3>3, <1>6
  <2> QED
    BY <1>1, <1>3, <2>1 DEF Delivered, Succeeded, hostVars
<1>14. InPlace(e, call, At)
  <2>1. e.write = IsWrite(call)
    BY <1>1, <1>5, <1>8, TypeFacts DEF IsWrite
  <2> QED
    BY <1>1, <1>5, <1>7, <2>1, TypeFacts DEF InPlace
<1>15. Confined'
  <2> SUFFICES ASSUME NEW i \in DOMAIN served'
               PROVE  InPlace(served'[i], call, i)
    BY <1>3 DEF Confined, hostVars
  <2>1. i \in 1 .. Len(served) + 1 /\ DOMAIN served = 1 .. Len(served)
    BY <1>6
  <2>2. CASE i = Len(served) + 1
    BY <2>2, <1>6, <1>7, <1>14
  <2>3. CASE i # Len(served) + 1
    <3>1. i \in 1 .. Len(served)
      BY <2>1, <2>3, <1>6
    <3> QED
      BY <1>1, <1>6, <2>1, <3>1 DEF Confined
  <2> QED
    BY <2>2, <2>3
<1>16. OnlyAsked'
  <2> SUFFICES ASSUME ~timedOut, NEW i \in DOMAIN served'
               PROVE  Answers(served'[i], call, i)
    BY <1>3 DEF OnlyAsked, hostVars
  <2>1. i \in 1 .. Len(served) + 1 /\ DOMAIN served = 1 .. Len(served)
    BY <1>6
  <2>2. CASE i = Len(served) + 1
    <3>1. pc = "wait" /\ At = q + 1
      BY <1>1, <1>3, <1>7 DEF InStep, Asked
    <3>2. IsWrite(call) => e.val = OnBus(call, call.data[At])
      BY <1>1, <1>5, <1>8, <3>1 DEF DriverInv
    <3> QED
      BY <2>2, <3>2, <1>6, <1>7, <1>14 DEF Answers
  <2>3. CASE i # Len(served) + 1
    <3>1. i \in 1 .. Len(served)
      BY <2>1, <2>3, <1>6
    <3> QED
      BY <1>1, <1>6, <2>1, <3>1 DEF OnlyAsked
  <2> QED
    BY <2>2, <2>3
<1> QED
  BY <1>1, <1>3, <1>9, <1>10, <1>11, <1>12, <1>13, <1>15, <1>16 DEF StepInv, hostVars

LEMMA FwNextStep ==
    ASSUME FabricPrompt, StepInv, FwNext, UNCHANGED hostVars
    PROVE  StepInv'
<1>1. TypeOK /\ DriverInv /\ FirmwareInv /\ InStep /\ Delivered
  BY DEF StepInv
<1>2. /\ fw.st = "done" /\ pins.req /\ pins.lsb # fw.lsb
      /\ UNCHANGED <<pins, rdata, served, hostVars>>
      /\ fw'.st = "busy" /\ fw'.lsb = pins.lsb /\ fw'.addr = (fw.addr + 1) % AddrSpace
  BY DEF FwNext
<1>3. At = Len(served) /\ At' = Len(served) + 1 /\ Asked' = Asked
  BY <1>2 DEF At, Asked, hostVars
<1>4. At \in 1 .. Asked /\ At # Asked /\ fw.addr = QuadletAddr(call, At) /\ Asked \in Nat
  BY <1>1, <1>2, TypeFacts DEF FirmwareInv, Asked
<1>5. /\ fw'.addr = QuadletAddr(call, At + 1) /\ fw'.addr \in Addrs
  <2>1. At \in Nat \ {0} /\ At + 1 \in Nat \ {0}
    BY <1>4
  <2> QED
    BY <1>1, <1>2, <1>4, <2>1, TypeFacts, AddrNext
<1>6. TypeOK'
  <2>1. fw' \in FwStates
    BY <1>1, <1>5, TypeFacts DEF FwNext, FwStates
  <2> QED
    BY <1>1, <1>2, <2>1 DEF TypeOK, BusTypeOK, hostVars
<1>7. DriverInv'
  BY <1>1, <1>2, <1>3 DEF DriverInv, hostVars
<1>8. FirmwareInv'
  BY <1>1, <1>2, <1>3, <1>4, <1>5, TypeFacts DEF FirmwareInv, hostVars
<1>9. InStep'
  <2> SUFFICES ASSUME ~timedOut PROVE InStep'
    BY <1>2 DEF InStep, hostVars
  <2>1. pc = "wait" /\ Len(served) = q /\ Asked = q + 1
    BY <1>1, <1>2, <1>3, <1>4, TypeFacts DEF InStep, Asked, OpDone, FirmwareInv, DriverInv
  <2> QED
    BY <1>2, <1>3, <2>1 DEF InStep, OpDone, Succeeded, hostVars
<1>10. Delivered'
  BY <1>1, <1>2 DEF Delivered, Succeeded, hostVars
<1> QED
  BY <1>2, <1>6, <1>7, <1>8, <1>9, <1>10, HistoryKept DEF StepInv, hostVars

LEMMA FwReleaseStep ==
    ASSUME FabricPrompt, StepInv, FwRelease, UNCHANGED hostVars
    PROVE  StepInv'
<1>1. TypeOK /\ DriverInv /\ FirmwareInv /\ InStep /\ Delivered
  BY DEF StepInv
<1>2. /\ ~pins.req /\ fw.st # "idle" /\ UNCHANGED <<pins, rdata, served, hostVars>>
      /\ fw' \in FwStates /\ fw'.st = "idle"
  BY <1>1 DEF FwRelease, TypeOK, BusTypeOK, FwStates
<1>3. TypeOK'
  BY <1>1, <1>2 DEF TypeOK, BusTypeOK, hostVars
<1>4. Asked' = Asked
  BY <1>2 DEF Asked, hostVars
<1>5. DriverInv' /\ FirmwareInv'
  BY <1>1, <1>2, <1>4 DEF DriverInv, FirmwareInv, hostVars
<1>6. pc \notin {"wait", "read"} /\ (pc = "lower" => call.n = 0)
  BY <1>1, <1>2, TypeFacts DEF DriverInv
<1>7. ~(pc \in {"data", "request"} /\ Asked > 0)
  BY <1>1, <1>2, <1>6, TypeFacts DEF DriverInv, Asked
<1>8. InStep' /\ Delivered'
  BY <1>1, <1>2, <1>4, <1>6, <1>7, TypeFacts DEF InStep, Delivered, OpDone, Succeeded, hostVars
<1> QED
  BY <1>1, <1>2, <1>3, <1>5, <1>8, HistoryKept DEF StepInv, hostVars

-----------------------------------------------------------------------------
(* All steps.                                                              *)

\* Every step of the driver or of the firmware keeps the invariant.
LEMMA NextStep ==
    ASSUME FabricPrompt, StepInv, [Next]_vars
    PROVE  StepInv'
<1>1. TypeOK
  BY DEF StepInv
<1> USE <1>1, TypeFacts
<1>2. CASE Enter
  BY <1>2, EnterStep
<1>3. CASE ReadQuadlet
  <2>1. ~IsWrite(call) /\ ~IsBlock(call) /\ call.n = 1 /\ call.op # "WriteBlock"
    BY <1>3 DEF ReadQuadlet, IsWrite, Writes, IsBlock, Blocks
  <2>2. CASE SetInput("request")
    BY <2>1, <2>2, SetInputStep
  <2>3. CASE Wait(TRUE, "wait", "read")
    BY <2>1, <2>3, WaitSetStep
  <2>4. CASE ReadData("lower")
    BY <2>1, <2>4, ReadDataStep
  <2> QED
    BY <1>3, <2>1, <2>2, <2>3, <2>4, RequestQuadletStep, LowerLinesStep, WaitClearStep,
       ReturnStep DEF ReadQuadlet
<1>4. CASE WriteQuadlet
  <2>1. IsWrite(call) /\ ~IsBlock(call) /\ call.n = 1
        /\ call.op = "WriteQuadlet" /\ call.op # "WriteBlock"
    BY <1>4 DEF WriteQuadlet, IsWrite, Writes, IsBlock, Blocks
  <2>2. CASE SetOutput("data")
    BY <2>1, <2>2, SetOutputStep
  <2>3. CASE Wait(TRUE, "wait", "lower")
    BY <2>1, <2>3, WaitSetStep
  <2> QED
    BY <1>4, <2>1, <2>2, <2>3, WriteDataStep, RequestQuadletStep, LowerLinesStep,
       WaitClearStep, ReturnStep DEF WriteQuadlet
<1>5. CASE ReadBlock
  <2>1. ~IsWrite(call) /\ IsBlock(call) /\ call.op = "ReadBlock" /\ call.op # "WriteBlock"
    BY <1>5 DEF ReadBlock, IsWrite, Writes, IsBlock, Blocks
  <2>2. CASE SetInput(IF call.n = 0 THEN "lower" ELSE "request")
    BY <2>1, <2>2, SetInputStep
  <2> QED
    BY <1>5, <2>1, <2>2, RequestBlockStep, WaitSetStep, ReadDataStep,
       LowerLinesStep, WaitClearStep, ReturnStep DEF ReadBlock
<1>6. CASE WriteBlock
  <2>1. IsWrite(call) /\ IsBlock(call) /\ call.op = "WriteBlock"
    BY <1>6 DEF WriteBlock, IsWrite, Writes, IsBlock, Blocks
  <2>2. CASE SetOutput(IF call.n = 0 THEN "clear" ELSE "data")
    BY <2>1, <2>2, SetOutputStep
  <2> QED
    BY <1>6, <2>1, <2>2, WriteDataStep, RequestBlockStep, WaitWrittenStep,
       LowerLinesStep, WaitClearStep, ReturnStep DEF WriteBlock
<1>7. CASE Fabric
  BY <1>7, FwAcceptStep, FwServeStep, FwNextStep, FwReleaseStep DEF Fabric
<1>8. CASE UNCHANGED vars
  BY <1>8 DEF vars, busVars, hostVars, StepInv, TypeOK, BusTypeOK, DriverInv, FirmwareInv,
     InStep, Delivered, OnlyAsked, Confined, Asked, At, OpDone, Succeeded
<1> QED
  BY <1>2, <1>3, <1>4, <1>5, <1>6, <1>7, <1>8 DEF Next, Driver

-----------------------------------------------------------------------------
(* The block pins.                                                         *)

\* A step that leaves the block pins, the call and its counter alone, without
\* raising req_bus or beginning to wait.
LEMMA FramePinsKept ==
    ASSUME FramePins, UNCHANGED <<pins.blkStart, pins.blkEnd, pins.req, call>>,
           pc' = "wait" => pc = "wait" /\ q' = q
    PROVE  FramePins'
BY DEF FramePins

\* A step that leaves the bus history alone.
LEMMA BlockFramedKept ==
    ASSUME BlockFramed, UNCHANGED <<served, call>>, timedOut => timedOut'
    PROVE  BlockFramed'
BY DEF BlockFramed

\* A step that leaves the pins and the bus history alone, and does not begin to
\* wait.
LEMMA FramingKept ==
    ASSUME FramePins, BlockFramed, UNCHANGED <<pins, served, call>>, timedOut => timedOut',
           pc' = "wait" => pc = "wait" /\ q' = q
    PROVE  FramePins' /\ BlockFramed'
BY FramePinsKept, BlockFramedKept

\* Requests put up the block pins of their quadlet; what lowers them lowers req_bus.
LEMMA DriverFraming ==
    ASSUME StepInv, FramePins, BlockFramed, Driver
    PROVE  FramePins' /\ BlockFramed'
<1> USE DEF Goto
<1>1. TypeOK /\ DriverInv /\ pins \in PinStates
  BY DEF StepInv, TypeOK, BusTypeOK
<1>2. ASSUME NEW to, to # "wait", SetInput(to) \/ SetOutput(to)
      PROVE  FramePins' /\ BlockFramed'
  <2>1. UNCHANGED <<pins.blkStart, pins.blkEnd, pins.req, call, served, timedOut>> /\ pc' # "wait"
    BY <1>1, <1>2 DEF SetInput, SetOutput, PinStates
  <2> QED
    BY <2>1, FramePinsKept, BlockFramedKept
<1>3. CASE WriteData
  <2>1. UNCHANGED <<pins.blkStart, pins.blkEnd, pins.req, call, served, timedOut>> /\ pc' # "wait"
    BY <1>1, <1>3 DEF WriteData, PinStates
  <2> QED
    BY <2>1, FramePinsKept, BlockFramedKept
<1>4. CASE RequestQuadlet /\ ~IsBlock(call)
  <2>1. /\ UNCHANGED <<call, served, timedOut>>
        /\ ~pins'.blkStart /\ ~pins'.blkEnd
    BY <1>1, <1>4 DEF RequestQuadlet, PinStates
  <2> QED
    BY <1>4, <2>1, BlockFramedKept DEF FramePins
<1>5. CASE RequestBlock
  <2> DEFINE l == QuadletAddr(call, q + 1) % 2 = 1
             s == q # call.n - 1
             e == q = call.n - 1
  <2>1. /\ pins' = [pins EXCEPT !.addr = call.addr, !.req = TRUE, !.lsb = l,
                                !.blkStart = s, !.blkEnd = e]
        /\ UNCHANGED <<call, served, timedOut, q>>
    BY <1>5 DEF RequestBlock
  <2> HIDE DEF l, s, e
  <2>2. pins'.blkStart = s /\ pins'.blkEnd = e /\ pins'.req
    BY <1>1, <2>1 DEF PinStates
  <2> QED
    BY <2>1, <2>2, BlockFramedKept DEF FramePins, s, e
<1>6. ASSUME NEW to, NEW from, NEW state, Wait(state, from, to), to # "wait"
      PROVE  FramePins' /\ BlockFramed'
  <2>1. /\ UNCHANGED <<pins, call, served>> /\ pc' # "wait"
        /\ timedOut => timedOut'
    BY <1>6 DEF Wait, WaitOpDone
  <2> QED
    BY <2>1, FramingKept
<1>7. CASE WaitWritten
  <2>1. /\ UNCHANGED <<pins, call, served>> /\ pc' # "wait"
        /\ timedOut => timedOut'
    BY <1>7 DEF WaitWritten, WaitOpDone
  <2> QED
    BY <2>1, FramingKept
<1>8. ASSUME NEW to, to # "wait", ReadData(to)
      PROVE  FramePins' /\ BlockFramed'
  BY <1>8, FramingKept DEF ReadData
<1>9. ASSUME NEW to, to # "wait", LowerLines(to)
      PROVE  FramePins' /\ BlockFramed'
  <2>1. /\ UNCHANGED <<call, served, timedOut>> /\ pc' # "wait"
        /\ ~pins'.blkStart /\ ~pins'.blkEnd
    BY <1>1, <1>9 DEF LowerLines, PinStates
  <2> QED
    BY <2>1, BlockFramedKept DEF FramePins
<1>10. CASE Return
  BY <1>10, FramingKept DEF Return
<1> HIDE DEF Goto
<1>11. CASE ReadQuadlet
  <2>1. ~IsBlock(call)
    BY <1>11 DEF ReadQuadlet, IsBlock, Blocks
  <2> QED
    BY <1>11, <2>1, <1>2, <1>4, <1>6, <1>8, <1>9, <1>10 DEF ReadQuadlet
<1>12. CASE WriteQuadlet
  <2>1. ~IsBlock(call)
    BY <1>12 DEF WriteQuadlet, IsBlock, Blocks
  <2> QED
    BY <1>12, <2>1, <1>2, <1>3, <1>4, <1>6, <1>9, <1>10 DEF WriteQuadlet
<1>13. CASE ReadBlock
  BY <1>13, <1>2, <1>5, <1>6, <1>8, <1>9, <1>10 DEF ReadBlock
<1>14. CASE WriteBlock
  BY <1>14, <1>2, <1>3, <1>5, <1>6, <1>7, <1>9, <1>10 DEF WriteBlock
<1> QED
  BY <1>11, <1>12, <1>13, <1>14 DEF Driver

\* A quadlet of a block is served while the driver waits for it, so with the block
\* pins that are meant for it.
LEMMA FwServeFraming ==
    ASSUME StepInv, FramePins, BlockFramed, FwServe, UNCHANGED hostVars
    PROVE  BlockFramed'
<1>1. TypeOK /\ DriverInv /\ FirmwareInv /\ InStep
  BY DEF StepInv
<1>2. fw.st = "busy" /\ UNCHANGED hostVars
  BY DEF FwServe, FwServeAs
<1> SUFFICES ASSUME IsBlock(call), ~timedOut, NEW i \in DOMAIN served'
             PROVE  served'[i].blkStart = (i < call.n) /\ served'[i].blkEnd = (i = call.n)
  BY <1>2 DEF BlockFramed, hostVars
<1>3. PICK v \in IF pins.out THEN {pins.wdata} ELSE Quads :
         served' = Append(served, [addr |-> fw.addr, write |-> pins.out, val |-> v,
                                   blkStart |-> pins.blkStart, blkEnd |-> pins.blkEnd])
  BY DEF FwServe, FwServeAs
<1> DEFINE e == [addr |-> fw.addr, write |-> pins.out, val |-> v,
                 blkStart |-> pins.blkStart, blkEnd |-> pins.blkEnd]
<1>4. v \in Quads /\ e \in Quadlets /\ e.blkStart = pins.blkStart /\ e.blkEnd = pins.blkEnd
      /\ pins.blkStart \in BOOLEAN /\ pins.blkEnd \in BOOLEAN
  BY <1>1, <1>3, TypeFacts DEF TypeOK, BusTypeOK, PinStates, Quadlets
<1> HIDE DEF e
<1>5. /\ served \in Seq(Quadlets) /\ served' \in Seq(Quadlets)
      /\ Len(served') = Len(served) + 1 /\ Len(served) \in Nat
      /\ served'[Len(served) + 1] = e
      /\ \A j \in 1 .. Len(served) : served'[j] = served[j]
  BY <1>1, <1>3, <1>4 DEF TypeOK, BusTypeOK, e
<1>6. pc = "wait" /\ Len(served) + 1 = q + 1 /\ q \in Nat /\ call.n \in Nat /\ q < call.n
  BY <1>1, <1>2, TypeFacts DEF InStep, At, Asked, DriverInv
<1>7. i \in 1 .. Len(served) + 1 /\ DOMAIN served = 1 .. Len(served)
  BY <1>5
<1>8. CASE i = Len(served) + 1
  <2>1. e.blkStart = (i < call.n)
    <3>1. (q # call.n - 1) <=> i < call.n
      BY <1>6, <1>8
    <3> QED
      BY <1>4, <1>6, <3>1 DEF FramePins
  <2>2. e.blkEnd = (i = call.n)
    <3>1. (q = call.n - 1) <=> i = call.n
      BY <1>6, <1>8
    <3> QED
      BY <1>4, <1>6, <3>1 DEF FramePins
  <2> QED
    BY <1>5, <1>8, <2>1, <2>2
<1>9. CASE i # Len(served) + 1
  <2>1. i \in 1 .. Len(served)
    BY <1>5, <1>7, <1>9
  <2> QED
    BY <1>5, <1>7, <2>1 DEF BlockFramed
<1> QED
  BY <1>8, <1>9

\* The initial states and every step of the driver or of the firmware.
LEMMA InitInv == Init => IInv
<1> SUFFICES ASSUME Init PROVE FramePins /\ BlockFramed
  BY InitStep DEF IInv
<1>1. ~pins.blkStart /\ ~pins.blkEnd /\ pc = "ready" /\ served = <<>>
  BY DEF Init, BusInit
<1> QED
  BY <1>1 DEF FramePins, BlockFramed

LEMMA NextInv ==
    ASSUME FabricPrompt, IInv, [Next]_vars
    PROVE  IInv'
<1>1. StepInv /\ FramePins /\ BlockFramed
  BY DEF IInv
<1>2. StepInv'
  BY <1>1, NextStep
<1>3. FramePins' /\ BlockFramed'
  <2>1. CASE Enter
    <3>1. UNCHANGED pins /\ served' = <<>> /\ pc' # "wait"
      BY <2>1 DEF Enter
    <3> QED
      BY <1>1, <3>1 DEF FramePins, BlockFramed
  <2>2. CASE Driver
    BY <1>1, <2>2, DriverFraming
  <2>3. CASE FwServe /\ UNCHANGED hostVars
    <3>1. FramePins'
      BY <1>1, <2>3, FramePinsKept DEF FwServe, FwServeAs, hostVars
    <3> QED
      BY <1>1, <2>3, <3>1, FwServeFraming
  <2>4. CASE (FwAccept \/ FwNext \/ FwRelease) /\ UNCHANGED hostVars
    BY <1>1, <2>4, FramingKept DEF FwAccept, FwNext, FwRelease, hostVars
  <2>5. CASE UNCHANGED vars
    BY <1>1, <2>5, FramingKept DEF vars, busVars, hostVars
  <2> QED
    BY <2>1, <2>2, <2>3, <2>4, <2>5 DEF Next, Fabric
<1> QED
  BY <1>2, <1>3 DEF IInv

-----------------------------------------------------------------------------
(* The theorems.                                                           *)

\* The driver and the firmware always agree on how far a transfer has come.
THEOREM Agreement ==
    ASSUME FabricPrompt
    PROVE  Spec => []IInv
<1>1. Init => IInv
  BY InitInv
<1>2. IInv /\ [Next]_vars => IInv'
  BY NextInv
<1> QED
  BY <1>1, <1>2, PTL DEF Spec

\* The variables keep their types: in particular the loop counter never runs past
\* the block and no address leaves the register space.
THEOREM TypeCorrect ==
    ASSUME FabricPrompt
    PROVE  Spec => []TypeOK
<1>1. IInv => TypeOK
  BY DEF IInv, StepInv
<1> QED
  BY <1>1, Agreement, PTL

\* A call of the mmap driver that returns true without a timeout has carried out
\* exactly the transfers it was asked for.
THEOREM ExactCalls ==
    ASSUME FabricPrompt
    PROVE  Spec => []CallExact
<1>1. IInv => CallExact
  <2> SUFFICES ASSUME IInv, Succeeded, ~timedOut
               PROVE  Carried
    BY DEF CallExact
  <2>1. TypeOK /\ InStep /\ Delivered /\ OnlyAsked
    BY DEF IInv, StepInv
  <2>2. Len(served) = call.n /\ DOMAIN served = 1 .. call.n
    BY <2>1 DEF InStep, TypeOK, BusTypeOK
  <2>3. ~IsWrite(call) => Len(buf) = call.n
    BY <2>1 DEF Delivered
  <2> QED
    BY <2>1, <2>2, <2>3 DEF Carried, OnlyAsked, Delivered
<1> QED
  BY <1>1, Agreement, PTL

\* As long as nothing times out, the bus never sees anything but a prefix of what
\* the call asks for.
THEOREM OnlyAskedAlways ==
    ASSUME FabricPrompt
    PROVE  Spec => []OnlyAsked
<1>1. IInv => OnlyAsked
  BY DEF IInv, StepInv
<1> QED
  BY <1>1, Agreement, PTL

\* Whatever times out, a call stays within its registers and its direction.
THEOREM ConfinedAlways ==
    ASSUME FabricPrompt
    PROVE  Spec => []Confined
<1>1. IInv => Confined
  BY DEF IInv, StepInv
<1> QED
  BY <1>1, Agreement, PTL

\* Every quadlet of a block carries blk_start unless it is the last one and blk_end
\* only if it is.
THEOREM BlockFramedAlways ==
    ASSUME FabricPrompt
    PROVE  Spec => []BlockFramed
<1>1. IInv => BlockFramed
  BY DEF IInv
<1> QED
  BY <1>1, Agreement, PTL

\* Between calls the lines are low and the driver's flag agrees with the direction
\* of the data pins, also after calls that timed out.
THEOREM QuietAlways ==
    ASSUME FabricPrompt
    PROVE  Spec => []QuietBetweenCalls
<1>1. IInv => QuietBetweenCalls
  <2> SUFFICES ASSUME IInv, pc = "ready"
               PROVE  ~pins.req /\ ~pins.blkStart /\ ~pins.blkEnd /\ (isInput <=> ~pins.out)
    BY DEF QuietBetweenCalls
  <2>1. TypeOK /\ DriverInv /\ FramePins /\ (isInput <=> ~pins.out)
    BY DEF IInv, StepInv
  <2>2. ~pins.req
    BY <2>1, TypeFacts DEF DriverInv
  <2> QED
    BY <2>1, <2>2 DEF FramePins
<1> QED
  BY <1>1, Agreement, PTL

\* While the firmware works on a quadlet, no step of the driver moves the pins that
\* the quadlet depends on, unless a wait has timed out.
THEOREM PinsSteadyAlways ==
    ASSUME FabricPrompt
    PROVE  Spec => PinsSteady
<1> DEFINE Held == fw.st = "busy" /\ ~timedOut' =>
                      <<pins.addr, pins.lsb, pins.out, pins.wdata>>' =
                      <<pins.addr, pins.lsb, pins.out, pins.wdata>>
<1>1. ASSUME IInv, [Next]_vars
      PROVE  [Held]_vars
  <2> SUFFICES ASSUME fw.st = "busy", ~timedOut'
               PROVE  UNCHANGED pins
    OBVIOUS
  <2>1. TypeOK /\ FirmwareInv /\ InStep /\ pc # "ready"
    BY <1>1 DEF IInv, StepInv, FirmwareInv
  <2>2. ~Enter
    BY <2>1 DEF Enter
  <2>3. CASE Driver
    <3> USE DEF Goto
    <3>1. ASSUME pc # "wait", timedOut' = timedOut
          PROVE  FALSE
      BY <2>1, <3>1 DEF InStep
    <3>2. CASE \E s, from, to : Wait(s, from, to)
      BY <3>2 DEF Wait
    <3>3. CASE WaitWritten
      BY <3>3 DEF WaitWritten
    <3>4. CASE \E to : SetInput(to) \/ SetOutput(to) \/ ReadData(to) \/ LowerLines(to)
      BY <3>1, <3>4 DEF SetInput, SetOutput, ReadData, LowerLines
    <3>5. CASE WriteData \/ RequestQuadlet \/ RequestBlock \/ Return
      BY <3>1, <3>5 DEF WriteData, RequestQuadlet, RequestBlock, Return
    <3> HIDE DEF Goto
    <3> QED
      BY <2>3, <3>2, <3>3, <3>4, <3>5 DEF Driver, ReadQuadlet, WriteQuadlet, ReadBlock, WriteBlock
  <2>4. CASE Fabric
    BY <2>4 DEF Fabric, FwAccept, FwServe, FwServeAs, FwNext, FwRelease
  <2>5. CASE UNCHANGED vars
    BY <2>5 DEF vars, busVars
  <2> QED
    BY <1>1, <2>2, <2>3, <2>4, <2>5 DEF Next
<1> QED
  BY <1>1, Agreement, PTL DEF Spec, PinsSteady

-----------------------------------------------------------------------------
(* The driver implements EmioContract.                                     *)

\* The contract's instance talks about the same calls as the driver.
LEMMA SameCalls ==
    /\ Contract!Calls = Calls
    /\ Contract!Quadlets = Quadlets
    /\ \A c : (Contract!IsBlock(c) <=> IsBlock(c)) /\ (Contract!IsWrite(c) <=> IsWrite(c))
    /\ \A c : Contract!NonEmpty(c) = NonEmpty(c)
    /\ \A c, v : Contract!OnBus(c, v) = OnBus(c, v)
    /\ \A e, c, i : /\ Contract!InPlace(e, c, i) <=> InPlace(e, c, i)
                    /\ Contract!Answers(e, c, i) <=> Answers(e, c, i)
<1>1. Contract!Calls = Calls
  BY DEF Calls, Contract!Calls, CallsOf, Contract!CallsOf, Addrs, Contract!Addrs,
     Quadded, Contract!Quadded, Writes, Contract!Writes, Blocks, Contract!Blocks
<1>2. Contract!Quadlets = Quadlets
  BY DEF Quadlets, Contract!Quadlets, Addrs, Contract!Addrs
<1>3. \A c : (Contract!IsBlock(c) <=> IsBlock(c)) /\ (Contract!IsWrite(c) <=> IsWrite(c))
  BY DEF IsBlock, IsWrite, Contract!IsBlock, Contract!IsWrite, Blocks, Writes,
     Contract!Blocks, Contract!Writes
<1>4. \A c, v : Contract!OnBus(c, v) = OnBus(c, v)
  BY <1>3 DEF OnBus, Contract!OnBus, bswap_32, Contract!bswap_32
<1>5. \A c : Contract!IsWrite(c) = IsWrite(c)
  BY Zenon DEF IsWrite, Contract!IsWrite, Writes, Contract!Writes, Blocks, Contract!Blocks
<1>6. \A e, c, i : Contract!InPlace(e, c, i) <=> InPlace(e, c, i)
  BY <1>5, Zenon DEF InPlace, Contract!InPlace, QuadletAddr, Contract!QuadletAddr
<1>7. \A e, c, i : Contract!Answers(e, c, i) <=> Answers(e, c, i)
  BY <1>3, <1>4, <1>6, Zenon DEF Answers, Contract!Answers
<1>8. \A c : Contract!NonEmpty(c) = NonEmpty(c)
  BY DEF NonEmpty, Contract!NonEmpty
<1> QED
  BY <1>1, <1>2, <1>3, <1>4, <1>6, <1>7, <1>8

\* Pin changes and clear waits that do not time out are invisible to the contract.
LEMMA HiddenStep ==
    ASSUME UNCHANGED <<served, buf, call, ret, timedOut>>, pc # "ready", pc' # "ready"
    PROVE  UNCHANGED Contract!vars
BY DEF Contract!vars

\* A wait excuses the call if it times out, and is invisible otherwise.
LEMMA WaitImplements ==
    ASSUME TypeOK, NEW state, WaitOpDone(state), UNCHANGED <<served, buf, call, ret>>,
           pc # "ready", pc' # "ready"
    PROVE  [Contract!Next]_Contract!vars
<1>1. CASE timedOut' = timedOut
  BY <1>1, HiddenStep
<1>2. CASE timedOut' # timedOut
  <2>1. timedOut = FALSE /\ timedOut' = TRUE
    BY <1>2 DEF WaitOpDone, TypeOK
  <2>2. Contract!Excuse
    BY <2>1 DEF Contract!Excuse
  <2> QED
    BY <2>2 DEF Contract!Next
<1> QED
  BY <1>1, <1>2

\* Reading the data pins hands over the quadlet that the firmware delivered.
LEMMA ReadDataImplements ==
    ASSUME IInv, NEW to, to # "ready", ReadData(to)
    PROVE  Contract!Deliver
<1> USE DEF Goto
<1>1. TypeOK /\ DriverInv /\ FirmwareInv /\ InStep /\ Delivered
  BY DEF IInv, StepInv
<1>2. /\ pc = "read" /\ pc' = to /\ buf' = Append(buf, OnBus(call, rdata))
      /\ UNCHANGED <<served, call, ret, timedOut>>
  BY DEF ReadData
<1>3. ~IsWrite(call) /\ rdata \in Quads /\ buf \in Seq(Quads)
  BY <1>1, <1>2 DEF DriverInv, TypeOK, BusTypeOK
<1>4. Len(buf') = Len(buf) + 1
  <2>1. OnBus(call, rdata) \in Quads
    BY <1>3, OnBusType
  <2> QED
    BY <1>2, <1>3, <2>1
<1>5. ~timedOut => Len(buf') <= Len(served) /\ rdata = served[Len(buf')].val
  <2> SUFFICES ASSUME ~timedOut
               PROVE  Len(buf') <= Len(served) /\ rdata = served[Len(buf')].val
    OBVIOUS
  <2>1. Len(buf) = q
    BY <1>1, <1>2, <1>3 DEF Delivered
  <2>2. Asked = q + 1 /\ Asked > 0
    BY <1>1, <1>2, TypeFacts DEF Asked
  <2>3. OpDone /\ Len(served) = q + 1
    BY <1>1, <1>2, <2>2 DEF InStep
  <2>4. rdata = served[Len(served)].val
    BY <1>1, <1>3, <2>3 DEF FirmwareInv, OpDone
  <2> QED
    BY <1>4, <2>1, <2>3, <2>4, <1>1, TypeFacts
<1> QED
  BY <1>2, <1>3, <1>5, SameCalls DEF Contract!Deliver

\* Serving a quadlet is a transaction of the contract.
LEMMA FwServeImplements ==
    ASSUME IInv, IInv', FwServe, UNCHANGED hostVars
    PROVE  Contract!Transact
<1>1. PICK v \in IF pins.out THEN {pins.wdata} ELSE Quads :
         served' = Append(served, [addr |-> fw.addr, write |-> pins.out, val |-> v,
                                   blkStart |-> pins.blkStart, blkEnd |-> pins.blkEnd])
  BY DEF FwServe, FwServeAs
<1> DEFINE e == [addr |-> fw.addr, write |-> pins.out, val |-> v,
                 blkStart |-> pins.blkStart, blkEnd |-> pins.blkEnd]
<1>2. TypeOK /\ FirmwareInv /\ fw.st = "busy"
  BY DEF IInv, StepInv, FwServe, FwServeAs
<1>3. e \in Quadlets /\ served \in Seq(Quadlets)
  BY <1>2 DEF TypeOK, BusTypeOK, PinStates, FwStates, Quadlets
<1>4. /\ Len(served') = Len(served) + 1 /\ served'[Len(served')] = e
      /\ Len(served') \in DOMAIN served'
  BY <1>1, <1>3
<1>5. pc # "ready" /\ UNCHANGED <<pc, call, buf, ret, timedOut>>
  BY <1>2 DEF FirmwareInv, hostVars
<1>6. InPlace(e, call, Len(served')) /\ (~timedOut => Answers(e, call, Len(served')))
  <2>1. OnlyAsked' /\ Confined'
    BY DEF IInv, StepInv
  <2> HIDE DEF e
  <2> QED
    BY <1>4, <1>5, <2>1 DEF OnlyAsked, Confined
<1> HIDE DEF e
<1>7. served' = Append(served, e)
  BY <1>1 DEF e
<1>8. NonEmpty(call) = call
  <2>1. call.n # 0
    BY <1>2, <1>3, <1>4, <1>6, TypeFacts DEF InPlace
  <2> QED
    BY <1>2, <2>1, TypeFacts, NonEmptySame
<1> QED
  BY <1>3, <1>5, <1>6, <1>7, <1>8, SameCalls DEF Contract!Transact

\* Returning true is a contract's Finish: all quadlets are served and delivered.
LEMMA ReturnImplements ==
    ASSUME IInv, Return
    PROVE  Contract!Finish
<1>1. /\ pc = "return" /\ pc' = "ready" /\ ret' = "true"
      /\ UNCHANGED <<served, call, buf, timedOut>>
  BY DEF Return, Goto
<1>2. ~timedOut => Len(served) = call.n /\ (~IsWrite(call) => Len(buf) = call.n)
  BY <1>1 DEF IInv, StepInv, InStep, Delivered
<1> QED
  BY <1>1, <1>2, SameCalls DEF Contract!Finish

\* Entering a method is a contract's Begin.
LEMMA EnterImplements ==
    ASSUME Enter
    PROVE  Contract!Begin
<1>1. /\ pc = "ready" /\ call' \in Calls /\ served' = <<>> /\ buf' = <<>> /\ timedOut' = FALSE
  BY DEF Enter
<1>2. \/ pc' = "ready" /\ ret' = "false" /\ IsBlock(call')
      \/ pc' = "dir" /\ ret' = "none"
  BY DEF Enter
<1> QED
  BY <1>1, <1>2, SameCalls DEF Contract!Begin

\* Every step of the mmap driver and of the firmware is a step of the contract.
LEMMA NextImplements ==
    ASSUME IInv, IInv', [Next]_vars
    PROVE  [Contract!Next]_Contract!vars
<1>1. TypeOK
  BY DEF IInv, StepInv
<1>2. CASE Enter
  BY <1>2, EnterImplements DEF Contract!Next
<1>3. CASE Driver
  <2> USE DEF Goto
  <2>1. CASE \E to \in Labels \ {"ready"} : SetInput(to) \/ SetOutput(to) \/ LowerLines(to)
    BY <2>1, HiddenStep DEF SetInput, SetOutput, LowerLines
  <2>2. CASE WriteData \/ RequestQuadlet \/ RequestBlock
    BY <2>2, HiddenStep DEF WriteData, RequestQuadlet, RequestBlock
  <2>3. CASE \E s \in BOOLEAN, from, to \in Labels \ {"ready"} : Wait(s, from, to)
    BY <1>1, <2>3, WaitImplements DEF Wait
  <2>4. CASE WaitWritten
    <3>1. UNCHANGED <<served, buf, call, ret>> /\ pc # "ready" /\ pc' # "ready" /\ WaitOpDone(TRUE)
      BY <2>4 DEF WaitWritten
    <3> QED
      BY <1>1, <3>1, WaitImplements
  <2>5. CASE \E to \in Labels \ {"ready"} : ReadData(to)
    BY <2>5, ReadDataImplements DEF Contract!Next
  <2>6. CASE Return
    BY <2>6, ReturnImplements DEF Contract!Next
  <2> HIDE DEF Goto
  <2>7. CASE ReadQuadlet
    BY <2>7, <2>1, <2>2, <2>3, <2>5, <2>6 DEF ReadQuadlet, Labels
  <2>8. CASE WriteQuadlet
    BY <2>8, <2>1, <2>2, <2>3, <2>6 DEF WriteQuadlet, Labels
  <2>9. CASE ReadBlock
    BY <2>9, <2>1, <2>2, <2>3, <2>5, <2>6 DEF ReadBlock, Labels
  <2>10. CASE WriteBlock
    BY <2>10, <2>1, <2>2, <2>3, <2>4, <2>6 DEF WriteBlock, Labels
  <2> QED
    BY <1>3, <2>7, <2>8, <2>9, <2>10 DEF Driver
<1>4. CASE Fabric
  <2>1. CASE FwServe
    BY <1>4, <2>1, FwServeImplements DEF Fabric, Contract!Next
  <2>2. CASE FwAccept \/ FwNext \/ FwRelease
    BY <1>4, <2>2 DEF Fabric, FwAccept, FwNext, FwRelease, hostVars, Contract!vars
  <2> QED
    BY <1>4, <2>1, <2>2 DEF Fabric
<1>5. CASE UNCHANGED vars
  BY <1>5 DEF vars, busVars, hostVars, Contract!vars
<1> QED
  BY <1>2, <1>3, <1>4, <1>5 DEF Next

\* The mmap driver together with the firmware implements EMIO_Interface as
\* EmioContract states it.
THEOREM DriverImplements ==
    ASSUME FabricPrompt
    PROVE  Spec => ImplementsContract
<1>1. Init => Contract!Init
  BY SameCalls DEF Init, BusInit, Contract!Init
<1>2. IInv /\ IInv' /\ [Next]_vars => [Contract!Next]_Contract!vars
  BY NextImplements
<1> QED
  BY <1>1, <1>2, Agreement, PTL DEF Spec, ImplementsContract, Contract!Spec

=============================================================================
