------------------------- MODULE EmioStandaloneProofs -------------------------
(***************************************************************************)
(* Proofs about the bare-metal EMIO library, for every address space, set  *)
(* of quadlets, block length and PROM length.                              *)
(***************************************************************************)
EXTENDS EmioStandalone, EmioCallsProofs, SequenceTheorems

\* The part of the invariant that is about single calls.
CallInv ==
    /\ TypeOK /\ RefusedUntouched
    /\ DriverInv /\ FirmwareInv /\ Delivered /\ OnlyAsked

\* Types that the steps below use, with the records taken apart.
LEMMA TypeFacts ==
    ASSUME TypeOK
    PROVE  /\ pins \in PinStates /\ fw \in FwStates
           /\ pins.req \in BOOLEAN /\ pins.lsb \in BOOLEAN /\ pins.out \in BOOLEAN
           /\ pins.wdata \in Quads /\ pins.addr \in Addrs
           /\ fw.st \in {"idle", "busy", "done"} /\ fw.addr \in Addrs /\ fw.lsb \in BOOLEAN
           /\ Len(served) \in Nat /\ Len(buf) \in Nat /\ rdata \in Quads
           /\ writeSeen \in BOOLEAN
           /\ call \in Calls /\ call.n \in Nat /\ q \in Nat /\ q <= call.n
           /\ call.op \in Ops /\ call.addr \in Addrs
           /\ ~IsBlock(call) => call.n = 1
           /\ IsWrite(call) => call.data \in [1 .. call.n -> Quads]
<1>1. call \in Calls /\ q \in 0 .. call.n
  BY DEF TypeOK
<1>2. /\ call.n \in Nat /\ call.op \in Ops /\ call.addr \in Addrs /\ (~IsBlock(call) => call.n = 1)
      /\ IsWrite(call) => call.data \in [1 .. call.n -> Quads]
  BY <1>1, CallFacts
<1>3. /\ pins.req \in BOOLEAN /\ pins.lsb \in BOOLEAN /\ pins.out \in BOOLEAN
      /\ pins.wdata \in Quads /\ pins.addr \in Addrs
      /\ fw.st \in {"idle", "busy", "done"} /\ fw.addr \in Addrs /\ fw.lsb \in BOOLEAN
  BY DEF TypeOK, BusTypeOK, PinStates, FwStates
<1>4. /\ Len(served) \in Nat /\ Len(buf) \in Nat /\ rdata \in Quads
      /\ writeSeen \in BOOLEAN /\ pins \in PinStates /\ fw \in FwStates
  BY DEF TypeOK, BusTypeOK
<1> QED
  BY <1>1, <1>2, <1>3, <1>4

\* Block data is not swapped here.
LEMMA OnBusSame ==
    ASSUME NEW c, NEW v \in Quads
    PROVE  OnBus(c, v) = v
BY StandaloneAssumption DEF OnBus, bswap_32

\* PROM data is a sequence of quadlets.
LEMMA PromFacts ==
    ASSUME NEW p \in PromStates
    PROVE  /\ p.data \in Seq(Quads) /\ Len(p.data) \in Nat
           /\ p.data \in PromData \cup {<<>>} /\ p.i \in Nat
<1>1. \A b \in PromBytes : Quadded(b) \in Nat
  <2>1. PromBytes \subseteq Nat
    BY StandaloneAssumption
  <2>2. \A b \in Nat : Quadded(b) \in Nat
    BY SMT DEF Quadded
  <2> QED
    BY <2>1, <2>2
<1>2. PromData \subseteq Seq(Quads)
  <2> SUFFICES ASSUME NEW b \in PromBytes
               PROVE  [1 .. Quadded(b) -> Quads] \subseteq Seq(Quads)
    BY DEF PromData
  <2> DEFINE n == Quadded(b)
  <2>1. n \in Nat
    BY <1>1
  <2> HIDE DEF n
  <2>2. [1 .. n -> Quads] \subseteq Seq(Quads)
    BY <2>1, SeqDef
  <2> QED
    BY <2>2 DEF n
<1>3. p.data \in PromData \cup {<<>>} /\ p.i \in Nat
  BY DEF PromStates
<1>4. p.data \in Seq(Quads)
  <2>1. <<>> \in Seq(Quads)
    OBVIOUS
  <2> QED
    BY <1>2, <1>3, <2>1
<1> QED
  BY <1>3, <1>4

\* The calls that EMIO_WritePromData makes are among those that programs can make.
LEMMA PromCallIsCall ==
    ASSUME prom \in PromStates, NEW i \in Nat, i < Len(prom.data)
    PROVE  /\ PromCall(i) \in Calls
           /\ IsWrite(PromCall(i)) /\ ~IsBlock(PromCall(i))
<1>1. (PromBase + i) % AddrSpace \in Addrs
  <2>1. PromBase + i \in Int
    BY StandaloneAssumption, CallsAssumption DEF Addrs
  <2> QED
    BY <2>1, ModSucc, CallsAssumption DEF Addrs
<1>2. EndianSwap[prom.data[i + 1]] \in Quads
  BY PromFacts, StandaloneAssumption
<1> DEFINE d == <<EndianSwap[prom.data[i + 1]]>>
<1>3. d \in [1 .. 1 -> Quads]
  BY <1>2
<1> HIDE DEF d
<1>4. PromCall(i) \in CallsOf("WriteQuadlet", 1)
  <2>1. PromCall(i) = [op |-> "WriteQuadlet", addr |-> (PromBase + i) % AddrSpace, n |-> 1, data |-> d]
    BY DEF PromCall, d
  <2>2. "WriteQuadlet" \in Writes
    BY DEF Writes
  <2> QED
    BY <1>1, <1>3, <2>1, <2>2 DEF CallsOf
<1>5. PromCall(i) \in Calls
  BY <1>4 DEF Calls
<1> QED
  BY <1>5 DEF PromCall, IsWrite, IsBlock, Writes, Blocks

-----------------------------------------------------------------------------
(* What every access of the library leaves alone.                          *)

\* The types, but for what the access changes.
LEMMA TypeKept ==
    ASSUME TypeOK, NEW from, NEW to \in Labels, Goto(from, to),
           pins' \in PinStates, q' \in 0 .. call.n, buf' \in Seq(Quads),
           ret' \in {"none", "true", "false"}
    PROVE  TypeOK'
BY DEF Goto, TypeOK, BusTypeOK

\* The bus history and that of EMIO_WritePromData.
LEMMA HistoryKept ==
    ASSUME OnlyAsked, NEW from, NEW to, Goto(from, to)
    PROVE  OnlyAsked'
BY DEF OnlyAsked, Goto

LEMMA PromKept ==
    ASSUME PromInv, PromExact, NEW from, NEW to, Goto(from, to), from # "ready",
           to = "ready" => ret' # "none"
    PROVE  PromInv' /\ PromExact'
<1>1. UNCHANGED <<call, served, prom, promServed>> /\ pc = from /\ pc' = to
  BY DEF Goto
<1> QED
  BY <1>1 DEF PromInv, PromExact, PromCall

-----------------------------------------------------------------------------
(* One lemma for each register access of the library.                      *)

LEMMA SetDirectionStep ==
    ASSUME FabricPrompt, CallInv, NEW out \in BOOLEAN, SetDirection(out), out <=> IsWrite(call)
    PROVE  CallInv'
<1>1. TypeOK /\ DriverInv /\ FirmwareInv /\ Delivered /\ OnlyAsked
  BY DEF CallInv
<1>2. /\ pc = "dir" /\ pc' = "check" /\ Goto("dir", "check")
      /\ UNCHANGED <<fw, rdata, served, version, writeSeen, call, prom, promServed, q, buf, ret>>
  BY DEF SetDirection, Goto
<1>3. q = 0 /\ ~pins.req /\ fw.st = "idle" /\ served = <<>> /\ ret = "none"
  BY <1>1, <1>2, TypeFacts DEF DriverInv, FirmwareInv
<1>4. /\ pins' \in PinStates /\ (pins'.out <=> out) /\ pins'.req = pins.req
  BY <1>1, TypeFacts DEF SetDirection, PinStates
<1>5. TypeOK'
  <2>1. "check" \in Labels
    BY DEF Labels
  <2> QED
    BY <1>1, <1>2, <1>4, <2>1, TypeKept DEF TypeOK
<1>6. DriverInv' /\ RefusedUntouched'
  BY <1>2, <1>3, <1>4 DEF DriverInv, RefusedUntouched
<1>7. FirmwareInv' /\ Delivered'
  BY <1>1, <1>2, <1>3, <1>4, TypeFacts DEF FirmwareInv, Delivered, At, Asked, OpDone
<1> QED
  BY <1>1, <1>2, <1>5, <1>6, <1>7, HistoryKept DEF CallInv

LEMMA CheckStateStep ==
    ASSUME FabricPrompt, CallInv, NEW write \in BOOLEAN, NEW to, CheckState(write, to),
           write <=> IsWrite(call),
           \/ to = "data" /\ call.n > 0 /\ IsWrite(call)
           \/ to = "request" /\ call.n > 0 /\ ~IsWrite(call)
           \/ to = "lower" /\ call.n = 0
    PROVE  CallInv'
<1>1. TypeOK /\ DriverInv /\ FirmwareInv /\ Delivered /\ OnlyAsked
  BY DEF CallInv
<1>2. /\ pc = "check"
      /\ \/ Goto("check", to) /\ pc' = to /\ writeSeen = write /\ ret' = ret
         \/ Goto("check", "ready") /\ pc' = "ready" /\ ret' = "false"
      /\ UNCHANGED <<pins, fw, rdata, served, version, writeSeen, call, prom, promServed, q, buf>>
  BY DEF CheckState, Goto
<1>3. /\ q = 0 /\ ~pins.req /\ fw.st = "idle" /\ served = <<>> /\ ret = "none"
      /\ pins.out <=> IsWrite(call)
  BY <1>1, <1>2, TypeFacts DEF DriverInv, FirmwareInv
<1>4. TypeOK'
  <2>1. to \in Labels /\ "ready" \in Labels
    BY DEF Labels
  <2>2. pins' \in PinStates /\ q' \in 0 .. call.n /\ buf' \in Seq(Quads)
        /\ ret' \in {"none", "true", "false"}
    BY <1>1, <1>2, <1>3, TypeFacts DEF TypeOK
  <2> QED
    BY <1>1, <1>2, <2>1, <2>2, TypeKept
<1>5. DriverInv' /\ RefusedUntouched'
  BY <1>1, <1>2, <1>3, TypeFacts DEF DriverInv, RefusedUntouched
<1>6. FirmwareInv' /\ Delivered'
  BY <1>1, <1>2, <1>3, TypeFacts DEF FirmwareInv, Delivered, At, Asked, OpDone
<1> QED
  BY <1>1, <1>2, <1>4, <1>5, <1>6, HistoryKept DEF CallInv

LEMMA WriteDataStep ==
    ASSUME FabricPrompt, CallInv, WriteData
    PROVE  CallInv'
<1>1. TypeOK /\ DriverInv /\ FirmwareInv /\ Delivered /\ OnlyAsked
  BY DEF CallInv
<1>2. /\ pc = "data" /\ pc' = "request" /\ Goto("data", "request")
      /\ UNCHANGED <<fw, rdata, served, version, writeSeen, call, prom, promServed, q, buf, ret>>
  BY DEF WriteData, Goto
<1>3. IsWrite(call) /\ q < call.n /\ ret = "none"
  BY <1>1, <1>2 DEF DriverInv
<1>4. call.data[q + 1] \in Quads
  BY <1>1, <1>3, TypeFacts
<1>5. /\ pins' \in PinStates /\ pins'.wdata = call.data[q + 1]
      /\ pins'.out = pins.out /\ pins'.req = pins.req /\ pins'.lsb = pins.lsb
      /\ pins'.addr = pins.addr
  BY <1>1, <1>4, TypeFacts DEF WriteData, PinStates
<1>6. TypeOK'
  <2>1. "request" \in Labels
    BY DEF Labels
  <2> QED
    BY <1>1, <1>2, <1>5, <2>1, TypeKept DEF TypeOK
<1>7. Asked' = Asked /\ At' = At
  BY <1>2 DEF Asked, At
<1>8. DriverInv' /\ RefusedUntouched'
  BY <1>1, <1>2, <1>3, <1>5, <1>7, TypeFacts DEF DriverInv, RefusedUntouched
<1>9. FirmwareInv' /\ Delivered'
  BY <1>1, <1>2, <1>3, <1>5, <1>7, TypeFacts DEF FirmwareInv, Delivered, OpDone
<1> QED
  BY <1>1, <1>2, <1>6, <1>8, <1>9, HistoryKept DEF CallInv

LEMMA RequestQuadletStep ==
    ASSUME FabricPrompt, CallInv, RequestQuadlet, ~IsBlock(call)
    PROVE  CallInv'
<1>1. TypeOK /\ DriverInv /\ FirmwareInv /\ Delivered /\ OnlyAsked
  BY DEF CallInv
<1>2. /\ pc = "request" /\ pc' = "wait" /\ Goto("request", "wait")
      /\ UNCHANGED <<fw, rdata, served, version, writeSeen, call, prom, promServed, q, buf, ret>>
  BY DEF RequestQuadlet, Goto
<1>3. q = 0 /\ call.n = 1 /\ fw.st = "idle" /\ served = <<>> /\ ret = "none"
  BY <1>1, <1>2, TypeFacts DEF DriverInv, FirmwareInv
<1>4. /\ pins' \in PinStates /\ pins'.wdata = pins.wdata /\ pins'.out = pins.out
      /\ pins'.req /\ ~pins'.lsb /\ pins'.addr = call.addr
  BY <1>1, TypeFacts DEF RequestQuadlet, PinStates
<1>5. TypeOK'
  <2>1. "wait" \in Labels
    BY DEF Labels
  <2> QED
    BY <1>1, <1>2, <1>4, <2>1, TypeKept DEF TypeOK
<1>6. DriverInv' /\ RefusedUntouched'
  BY <1>1, <1>2, <1>3, <1>4, TypeFacts DEF DriverInv, RefusedUntouched
<1>7. FirmwareInv' /\ Delivered'
  BY <1>1, <1>2, <1>3, <1>4, TypeFacts DEF FirmwareInv, Delivered, At, Asked, OpDone
<1> QED
  BY <1>1, <1>2, <1>5, <1>6, <1>7, HistoryKept DEF CallInv

LEMMA RequestBlockStep ==
    ASSUME FabricPrompt, CallInv, RequestBlock, IsBlock(call)
    PROVE  CallInv'
<1>1. TypeOK /\ DriverInv /\ FirmwareInv /\ Delivered /\ OnlyAsked
  BY DEF CallInv
<1>2. /\ pc = "request" /\ pc' = "wait" /\ Goto("request", "wait")
      /\ UNCHANGED <<fw, rdata, served, version, writeSeen, call, prom, promServed, q, buf, ret>>
  BY DEF RequestBlock, Goto
<1>3. /\ q < call.n /\ Asked = q /\ Asked' = q + 1 /\ At' = At
      /\ q \in Nat /\ call.n \in Nat /\ ret = "none"
  BY <1>1, <1>2, TypeFacts DEF DriverInv, Asked, At
<1>4. /\ pins' \in PinStates /\ pins'.wdata = pins.wdata /\ pins'.out = pins.out
      /\ pins'.req /\ pins'.addr = call.addr
      /\ pins'.lsb <=> QuadletAddr(call, q + 1) % 2 = 1
  <2> DEFINE l == QuadletAddr(call, q + 1) % 2 = 1
             s == q # call.n - 1
             e == q = call.n - 1
  <2>1. pins' = [pins EXCEPT !.addr = call.addr, !.req = TRUE, !.lsb = l,
                             !.blkStart = s, !.blkEnd = e]
    BY DEF RequestBlock
  <2>2. pins \in PinStates /\ l \in BOOLEAN /\ s \in BOOLEAN /\ e \in BOOLEAN /\ call.addr \in Addrs
    BY <1>1, TypeFacts
  <2> HIDE DEF l, s, e
  <2>3. /\ pins' \in PinStates /\ pins'.wdata = pins.wdata /\ pins'.out = pins.out
        /\ pins'.req /\ pins'.addr = call.addr /\ pins'.lsb = l
    BY <2>1, <2>2 DEF PinStates
  <2> QED
    BY <2>3 DEF l
<1>5. TypeOK'
  <2>1. "wait" \in Labels
    BY DEF Labels
  <2> QED
    BY <1>1, <1>2, <1>4, <2>1, TypeKept DEF TypeOK
<1>6. DriverInv' /\ RefusedUntouched'
  BY <1>1, <1>2, <1>3, <1>4, TypeFacts DEF DriverInv, RefusedUntouched
<1>7. At \in Nat
  BY <1>1, TypeFacts DEF At
<1>8. q = 0 => fw.st = "idle" /\ served = <<>>
  BY <1>1, <1>2 DEF FirmwareInv
<1>9. q > 0 => /\ pins.req
               /\ pins'.lsb <=> ~pins.lsb
  <2> SUFFICES ASSUME q > 0
               PROVE  pins.req /\ (pins'.lsb <=> ~pins.lsb)
    OBVIOUS
  <2>1. pins.req /\ (pins.lsb <=> QuadletAddr(call, q) % 2 = 1)
    BY <1>1, <1>2, <1>3 DEF DriverInv
  <2>2. (QuadletAddr(call, q + 1) % 2 = 1) # (QuadletAddr(call, q) % 2 = 1)
    BY <1>1, <1>3, TypeFacts, AddrNext
  <2> QED
    BY <2>1, <2>2, <1>4
<1>10. FirmwareInv'
  BY <1>1, <1>2, <1>3, <1>4, <1>7, <1>8, <1>9, TypeFacts DEF FirmwareInv, At, OpDone
<1>11. Delivered'
  BY <1>1, <1>2 DEF Delivered
<1> QED
  BY <1>1, <1>2, <1>5, <1>6, <1>10, <1>11, HistoryKept DEF CallInv

\* The wait for op_done; a block write also counts its quadlet here.
LEMMA WaitOpDoneStep ==
    ASSUME FabricPrompt, CallInv, NEW to, WaitOpDone(to),
           \/ to = "read" /\ ~IsWrite(call) /\ q' = q
           \/ to = "lower" /\ call.op = "WriteQuadlet" /\ q' = q
           \/ /\ to = IF q + 1 < call.n THEN "data" ELSE "lower"
              /\ call.op = "WriteBlock" /\ q' = q + 1
    PROVE  CallInv'
<1>1. TypeOK /\ DriverInv /\ FirmwareInv /\ Delivered /\ OnlyAsked
  BY DEF CallInv
<1>2. /\ pc = "wait" /\ pc' = to /\ Goto("wait", to) /\ Settled /\ OpDone
      /\ UNCHANGED <<busVars, version, writeSeen, call, prom, promServed, buf, ret>>
  BY DEF WaitOpDone, Goto, busVars
<1>3. /\ q < call.n /\ q \in Nat /\ call.n \in Nat /\ pins.req /\ ret = "none"
      /\ call.op = "WriteQuadlet" => IsWrite(call) /\ ~IsBlock(call) /\ q = 0 /\ call.n = 1
      /\ call.op = "WriteBlock" => IsWrite(call) /\ IsBlock(call)
  BY <1>1, <1>2, TypeFacts DEF DriverInv, IsWrite, Writes, IsBlock, Blocks
<1>4. Asked = q + 1 /\ Asked' = q + 1 /\ At' = At
  BY <1>2, <1>3 DEF Asked, At, busVars
<1>5. pins.lsb = fw.lsb
  BY <1>2, <1>3 DEF Settled, EdgePending, OpDone
<1>6. Len(served) = q + 1
  BY <1>1, <1>2, <1>4, <1>5 DEF FirmwareInv
<1>7. TypeOK'
  <2>1. to \in Labels
    BY DEF Labels
  <2>2. q' \in 0 .. call.n
    BY <1>3
  <2> QED
    BY <1>1, <1>2, <2>1, <2>2, TypeKept DEF TypeOK, busVars, BusTypeOK
<1>8. DriverInv' /\ RefusedUntouched'
  BY <1>1, <1>2, <1>3, <1>4, TypeFacts DEF DriverInv, RefusedUntouched, busVars
<1>9. FirmwareInv'
  BY <1>1, <1>2, <1>3, <1>4, <1>6, TypeFacts DEF FirmwareInv, OpDone, busVars
<1>10. Delivered'
  BY <1>1, <1>2, <1>3 DEF Delivered, busVars
<1> QED
  BY <1>1, <1>2, <1>7, <1>8, <1>9, <1>10, HistoryKept DEF CallInv

LEMMA ReadDataStep ==
    ASSUME FabricPrompt, CallInv, NEW to, ReadData(to), ~IsWrite(call),
           to = IF IsBlock(call) /\ q + 1 < call.n THEN "request" ELSE "lower"
    PROVE  CallInv'
<1>1. TypeOK /\ DriverInv /\ FirmwareInv /\ Delivered /\ OnlyAsked
  BY DEF CallInv
<1>2. /\ pc = "read" /\ pc' = to /\ Goto("read", to)
      /\ UNCHANGED <<busVars, version, writeSeen, call, prom, promServed, ret>>
      /\ buf' = Append(buf, rdata)
      /\ q' = IF IsBlock(call) THEN q + 1 ELSE q
  BY DEF ReadData, Goto, busVars
<1>3. /\ q < call.n /\ q \in Nat /\ call.n \in Nat /\ pins.req /\ ret = "none"
      /\ ~IsBlock(call) => q = 0 /\ call.n = 1
  BY <1>1, <1>2, TypeFacts DEF DriverInv
<1>4. Asked = q + 1 /\ Asked' = q + 1 /\ At' = At
  BY <1>2, <1>3 DEF Asked, At, busVars
<1>5. /\ buf \in Seq(Quads) /\ buf' \in Seq(Quads) /\ Len(buf') = Len(buf) + 1
      /\ buf'[Len(buf) + 1] = rdata
      /\ \A i \in 1 .. Len(buf) : buf'[i] = buf[i]
  BY <1>1, <1>2 DEF TypeOK, BusTypeOK
<1>6. TypeOK'
  <2>1. to \in Labels
    BY DEF Labels
  <2>2. q' \in 0 .. call.n
    BY <1>2, <1>3
  <2> QED
    BY <1>1, <1>2, <1>5, <2>1, <2>2, TypeKept DEF TypeOK, busVars, BusTypeOK
<1>7. DriverInv' /\ RefusedUntouched'
  BY <1>1, <1>2, <1>3, <1>4, TypeFacts DEF DriverInv, RefusedUntouched, busVars
<1>8. OpDone /\ Len(served) = q + 1 /\ Len(buf) = q
  BY <1>1, <1>2, <1>3, <1>4 DEF FirmwareInv, Delivered
<1>9. FirmwareInv'
  BY <1>1, <1>2, <1>3, <1>4, <1>8, TypeFacts DEF FirmwareInv, OpDone, busVars
<1>10. Delivered'
  <2>1. rdata = served[q + 1].val
    BY <1>1, <1>8 DEF FirmwareInv, OpDone
  <2>2. Len(buf') = q + 1 /\ Len(served') = q + 1
    BY <1>2, <1>5, <1>8 DEF busVars
  <2>3. ASSUME NEW i \in 1 .. Len(buf')
        PROVE  i <= Len(served') /\ buf'[i] = served[i].val
    <3>1. i \in 1 .. q + 1
      BY <2>2
    <3>2. CASE i = q + 1
      BY <3>2, <1>5, <1>8, <2>1, <2>2
    <3>3. CASE i # q + 1
      <4>1. i \in 1 .. Len(buf)
        BY <3>1, <3>3, <1>8, <1>3
      <4> QED
        BY <4>1, <3>1, <1>1, <1>5, <2>2 DEF Delivered
    <3> QED
      BY <3>2, <3>3
  <2> QED
    BY <1>2, <1>3, <2>2, <2>3 DEF Delivered, busVars
<1> QED
  BY <1>1, <1>2, <1>6, <1>7, <1>9, <1>10, HistoryKept DEF CallInv

LEMMA LowerLinesStep ==
    ASSUME FabricPrompt, CallInv, LowerLines
    PROVE  CallInv'
<1>1. TypeOK /\ DriverInv /\ FirmwareInv /\ Delivered /\ OnlyAsked
  BY DEF CallInv
<1>2. /\ pc = "lower" /\ pc' = "return" /\ Goto("lower", "return")
      /\ UNCHANGED <<fw, rdata, served, version, writeSeen, call, prom, promServed, q, buf, ret>>
  BY DEF LowerLines, Goto
<1>3. 0 \in Addrs
  BY CallsAssumption DEF Addrs
<1>4. pins' \in PinStates /\ pins'.out = pins.out /\ ~pins'.req
  BY <1>1, <1>3, TypeFacts DEF LowerLines, PinStates
<1>5. Asked' = Asked /\ At' = At
  BY <1>2 DEF Asked, At
<1>6. TypeOK'
  <2>1. "return" \in Labels
    BY DEF Labels
  <2> QED
    BY <1>1, <1>2, <1>4, <2>1, TypeKept DEF TypeOK
<1>7. DriverInv' /\ RefusedUntouched'
  BY <1>1, <1>2, <1>4, TypeFacts DEF DriverInv, RefusedUntouched
<1>8. FirmwareInv' /\ Delivered'
  BY <1>1, <1>2, <1>4, <1>5, TypeFacts DEF FirmwareInv, Delivered, OpDone
<1> QED
  BY <1>1, <1>2, <1>6, <1>7, <1>8, HistoryKept DEF CallInv

LEMMA ReturnStep ==
    ASSUME FabricPrompt, CallInv, Return
    PROVE  CallInv'
<1>1. TypeOK /\ DriverInv /\ FirmwareInv /\ Delivered /\ OnlyAsked
  BY DEF CallInv
<1>2. /\ pc = "return" /\ pc' = "ready" /\ Goto("return", "ready") /\ Settled
      /\ UNCHANGED <<busVars, version, writeSeen, call, prom, promServed, q, buf>>
      /\ ret' = "true"
  BY DEF Return, Goto, busVars
<1>3. ~pins.req /\ fw.st = "idle"
  BY <1>1, <1>2, TypeFacts DEF DriverInv, Settled, EdgePending
<1>4. TypeOK'
  <2>1. "ready" \in Labels
    BY DEF Labels
  <2> QED
    BY <1>1, <1>2, <2>1, TypeKept DEF TypeOK, busVars, BusTypeOK
<1>5. DriverInv' /\ RefusedUntouched'
  BY <1>1, <1>2, <1>3, TypeFacts DEF DriverInv, RefusedUntouched, busVars
<1>6. FirmwareInv' /\ Delivered'
  BY <1>1, <1>2, <1>3, TypeFacts DEF FirmwareInv, Delivered, OpDone, Asked, At, busVars
<1> QED
  BY <1>1, <1>2, <1>4, <1>5, <1>6, HistoryKept DEF CallInv

\* A method is entered, by a program or by EMIO_WritePromData.
LEMMA EnterCallStep ==
    ASSUME FabricPrompt, CallInv, pc = "ready", NEW c \in Calls, EnterCall(c),
           prom' \in PromStates, prom'.i <= Len(prom'.data), promServed' \in Seq(Quadlets)
    PROVE  CallInv'
<1>1. TypeOK /\ DriverInv /\ FirmwareInv /\ Delivered
  BY DEF CallInv
<1>2. /\ call' = c /\ q' = 0 /\ buf' = <<>> /\ served' = <<>>
      /\ UNCHANGED <<pins, fw, rdata, version, writeSeen>>
      /\ \/ pc' = "dir" /\ ret' = "none"
         \/ pc' = "ready" /\ ret' = "false"
  BY DEF EnterCall
<1>3. ~pins.req /\ fw.st = "idle"
  BY <1>1, TypeFacts DEF DriverInv, FirmwareInv
<1>4. TypeOK'
  <2>1. c.n \in Nat
    BY CallFacts
  <2>2. q' \in 0 .. call'.n /\ call' \in Calls
    BY <1>2, <2>1
  <2>3. pc' \in Labels /\ ret' \in {"none", "true", "false"} /\ buf' \in Seq(Quads)
    BY <1>2 DEF Labels
  <2>4. BusTypeOK'
    BY <1>1, <1>2 DEF TypeOK, BusTypeOK
  <2> QED
    BY <1>1, <1>2, <2>2, <2>3, <2>4 DEF TypeOK
<1>5. DriverInv' /\ RefusedUntouched'
  BY <1>2, <1>3 DEF DriverInv, RefusedUntouched
<1>6. FirmwareInv' /\ Delivered'
  BY <1>2, <1>3 DEF FirmwareInv, Delivered, OpDone, Asked
<1>7. OnlyAsked'
  BY <1>2 DEF OnlyAsked
<1> QED
  BY <1>4, <1>5, <1>6, <1>7 DEF CallInv

-----------------------------------------------------------------------------
(* One lemma for each step of the firmware.                                *)

\* The firmware's steps leave the library alone.
LibraryKept == UNCHANGED <<version, writeSeen, pc, call, q, buf, ret, prom>>

LEMMA FwTristateStep ==
    ASSUME CallInv, FwTristate
    PROVE  CallInv'
<1>1. TypeOK /\ DriverInv /\ RefusedUntouched /\ FirmwareInv /\ Delivered /\ OnlyAsked
  BY DEF CallInv
<1>2. writeSeen' = pins.out
      /\ UNCHANGED <<busVars, version, pc, call, q, buf, ret, prom, promServed>>
  BY DEF FwTristate
<1>3. TypeOK'
  BY <1>1, <1>2, TypeFacts DEF TypeOK, BusTypeOK, busVars
<1>4. Asked' = Asked /\ At' = At /\ OpDone' = OpDone
  BY <1>2 DEF Asked, At, OpDone, busVars
<1>5. DriverInv' /\ RefusedUntouched'
  BY <1>1, <1>2, <1>4 DEF DriverInv, RefusedUntouched, busVars
<1>6. FirmwareInv' /\ Delivered' /\ OnlyAsked'
  BY <1>1, <1>2, <1>4 DEF FirmwareInv, Delivered, OnlyAsked, busVars
<1> QED
  BY <1>3, <1>5, <1>6 DEF CallInv

LEMMA FwAcceptStep ==
    ASSUME CallInv, FwAccept, LibraryKept, promServed' = promServed
    PROVE  CallInv'
<1>1. TypeOK /\ DriverInv /\ RefusedUntouched /\ FirmwareInv /\ Delivered /\ OnlyAsked
  BY DEF CallInv
<1>2. /\ fw.st = "idle" /\ pins.req /\ UNCHANGED <<pins, rdata, served, promServed>>
      /\ UNCHANGED <<version, writeSeen, pc, call, q, buf, ret, prom>>
      /\ fw'.st = "busy" /\ fw'.addr = pins.addr /\ fw'.lsb = pins.lsb
  BY DEF FwAccept, LibraryKept
<1>3. served = <<>> /\ At' = 1 /\ Asked' = Asked
  BY <1>1, <1>2 DEF FirmwareInv, At, Asked
<1>4. Asked \in Nat \ {0} /\ pins.addr = call.addr
  BY <1>1, <1>2, TypeFacts DEF DriverInv, Asked
<1>5. fw'.addr = QuadletAddr(call, 1)
  BY <1>1, <1>2, <1>4, TypeFacts, AddrFirst
<1>6. TypeOK'
  <2>1. fw' \in FwStates
    BY <1>1, TypeFacts DEF FwAccept, FwStates
  <2> QED
    BY <1>1, <1>2, <2>1 DEF TypeOK, BusTypeOK
<1>7. DriverInv' /\ RefusedUntouched'
  BY <1>1, <1>2, <1>3 DEF DriverInv, RefusedUntouched
<1>8. pc = "wait" /\ Asked = 1
  BY <1>1, <1>2, <1>3, <1>4, TypeFacts DEF DriverInv, FirmwareInv, Asked, OpDone
<1>9. FirmwareInv'
  BY <1>1, <1>2, <1>3, <1>4, <1>5, <1>8, TypeFacts DEF FirmwareInv, OpDone
<1>10. Delivered' /\ OnlyAsked'
  BY <1>1, <1>2 DEF Delivered, OnlyAsked
<1> QED
  BY <1>6, <1>7, <1>9, <1>10 DEF CallInv

\* The firmware takes the quadlet for a write exactly if the call is one.
LEMMA FwServeStep ==
    ASSUME CallInv, FwServeAs(writeSeen), LibraryKept, promServed' \in Seq(Quadlets)
    PROVE  /\ CallInv' /\ served \in Seq(Quadlets)
           /\ \E e \in Quadlets : served' = Append(served, e)
           /\ pc = "wait" /\ Len(served) = q
<1>1. TypeOK /\ DriverInv /\ RefusedUntouched /\ FirmwareInv /\ Delivered /\ OnlyAsked
  BY DEF CallInv
<1>2. PICK v \in IF writeSeen /\ pins.out THEN {pins.wdata} ELSE Quads :
         /\ rdata' = IF writeSeen THEN rdata ELSE v
         /\ served' = Append(served, [addr |-> fw.addr, write |-> writeSeen, val |-> v,
                                      blkStart |-> pins.blkStart, blkEnd |-> pins.blkEnd])
  BY DEF FwServeAs
<1> DEFINE e == [addr |-> fw.addr, write |-> writeSeen, val |-> v,
                 blkStart |-> pins.blkStart, blkEnd |-> pins.blkEnd]
<1>3. /\ fw.st = "busy" /\ fw' = [fw EXCEPT !.st = "done"] /\ UNCHANGED pins
      /\ UNCHANGED <<version, writeSeen, pc, call, q, buf, ret, prom>>
  BY DEF FwServeAs, LibraryKept
<1>4. v \in Quads /\ e \in Quadlets /\ fw' \in FwStates
      /\ fw'.st = "done" /\ fw'.addr = fw.addr /\ fw'.lsb = fw.lsb
  BY <1>1, <1>2, <1>3, TypeFacts DEF PinStates, FwStates, Quadlets
<1>5. /\ e.addr = fw.addr /\ e.write = writeSeen /\ e.val = v
      /\ writeSeen /\ pins.out => v = pins.wdata
  BY <1>2
<1> HIDE DEF e
<1>6. /\ served \in Seq(Quadlets) /\ served' \in Seq(Quadlets)
      /\ Len(served') = Len(served) + 1 /\ Len(served) \in Nat
      /\ served'[Len(served) + 1] = e
      /\ \A i \in 1 .. Len(served) : served'[i] = served[i]
  BY <1>1, <1>2, <1>4 DEF TypeOK, BusTypeOK, e
<1>7. /\ At = Len(served) + 1 /\ At' = At /\ Asked' = Asked
      /\ pc = "wait" /\ Asked = q + 1 /\ At = Asked
      /\ At \in 1 .. Asked /\ Asked \in Nat /\ Asked <= call.n
      /\ fw.addr = QuadletAddr(call, At)
  <2>1. At = Len(served) + 1 /\ At' = At /\ Asked' = Asked
    BY <1>3, <1>4, <1>6 DEF At, Asked
  <2>2. /\ pc = "wait" /\ At = Asked
        /\ At \in 1 .. Asked /\ fw.addr = QuadletAddr(call, At)
    BY <1>1, <1>3 DEF FirmwareInv
  <2>3. Asked = q + 1 /\ Asked \in Nat /\ Asked <= call.n
    BY <1>1, <2>2, TypeFacts DEF DriverInv, Asked
  <2> QED
    BY <2>1, <2>2, <2>3
<1>8. (pins.out <=> IsWrite(call)) /\ (writeSeen <=> IsWrite(call)) /\ ret = "none"
  BY <1>1, <1>7 DEF DriverInv
<1>9. TypeOK'
  <2>1. rdata' \in Quads
    BY <1>1, <1>2, <1>4, TypeFacts
  <2> QED
    BY <1>1, <1>3, <1>4, <1>6, <2>1 DEF TypeOK, BusTypeOK
<1>10. DriverInv' /\ RefusedUntouched'
  BY <1>1, <1>3, <1>7, <1>8 DEF DriverInv, RefusedUntouched
<1>11. FirmwareInv'
  <2>1. ~IsWrite(call) => rdata' = served'[Len(served')].val
    BY <1>2, <1>5, <1>6, <1>8
  <2> QED
    BY <1>1, <1>3, <1>4, <1>6, <1>7, <2>1, TypeFacts DEF FirmwareInv, OpDone
<1>12. Delivered'
  <2> SUFFICES ASSUME ~IsWrite(call) PROVE Delivered'
    BY <1>3 DEF Delivered
  <2>1. ASSUME NEW i \in 1 .. Len(buf)
        PROVE  i <= Len(served') /\ buf[i] = served'[i].val
    <3>1. i <= Len(served) /\ buf[i] = served[i].val
      BY <1>1 DEF Delivered
    <3>2. Len(buf) \in Nat
      BY <1>1, TypeFacts
    <3>3. i \in 1 .. Len(served)
      BY <3>1, <3>2, <1>6
    <3> QED
      BY <3>1, <3>3, <1>6
  <2> QED
    BY <1>1, <1>3, <1>7, <2>1 DEF Delivered
<1>13. Answers(e, call, At)
  <2>1. e.write = IsWrite(call)
    BY <1>1, <1>5, <1>8, TypeFacts DEF IsWrite
  <2>2. InPlace(e, call, At)
    BY <1>1, <1>5, <1>7, <2>1, TypeFacts DEF InPlace
  <2>3. IsWrite(call) => e.val = call.data[At] /\ e.val \in Quads
    BY <1>1, <1>4, <1>5, <1>7, <1>8 DEF DriverInv
  <2> QED
    BY <2>2, <2>3, OnBusSame DEF Answers
<1>14. OnlyAsked'
  <2> SUFFICES ASSUME NEW i \in DOMAIN served'
               PROVE  Answers(served'[i], call, i)
    BY <1>3 DEF OnlyAsked
  <2>1. i \in 1 .. Len(served) + 1 /\ DOMAIN served = 1 .. Len(served)
    BY <1>6
  <2>2. CASE i = Len(served) + 1
    BY <2>2, <1>6, <1>7, <1>13
  <2>3. CASE i # Len(served) + 1
    <3>1. i \in 1 .. Len(served)
      BY <2>1, <2>3, <1>6
    <3> QED
      BY <1>1, <1>6, <2>1, <3>1 DEF OnlyAsked
  <2> QED
    BY <2>2, <2>3
<1>15. \E x \in Quadlets : served' = Append(served, x)
  BY <1>2, <1>4 DEF e
<1>16. CallInv'
  BY <1>9, <1>10, <1>11, <1>12, <1>14 DEF CallInv
<1>17. Len(served) = q
  BY <1>6, <1>7, <1>1, TypeFacts
<1> QED
  BY <1>6, <1>7, <1>15, <1>16, <1>17

LEMMA FwNextStep ==
    ASSUME CallInv, FwNext, LibraryKept, promServed' = promServed
    PROVE  CallInv'
<1>1. TypeOK /\ DriverInv /\ RefusedUntouched /\ FirmwareInv /\ Delivered /\ OnlyAsked
  BY DEF CallInv
<1>2. /\ fw.st = "done" /\ pins.req /\ pins.lsb # fw.lsb
      /\ UNCHANGED <<pins, rdata, served, promServed>>
      /\ UNCHANGED <<version, writeSeen, pc, call, q, buf, ret, prom>>
      /\ fw'.st = "busy" /\ fw'.lsb = pins.lsb /\ fw'.addr = (fw.addr + 1) % AddrSpace
  BY DEF FwNext, LibraryKept
<1>3. At = Len(served) /\ At' = Len(served) + 1 /\ Asked' = Asked
  BY <1>2 DEF At, Asked
<1>4. At \in 1 .. Asked /\ At # Asked /\ fw.addr = QuadletAddr(call, At) /\ Asked \in Nat
  BY <1>1, <1>2, TypeFacts DEF FirmwareInv, Asked
<1>5. /\ fw'.addr = QuadletAddr(call, At + 1) /\ fw'.addr \in Addrs
  <2>1. At \in Nat \ {0} /\ At + 1 \in Nat \ {0}
    BY <1>4
  <2> QED
    BY <1>1, <1>2, <1>4, <2>1, TypeFacts, AddrNext
<1>6. TypeOK'
  <2>1. fw' \in FwStates
    BY <1>1, <1>5, TypeFacts DEF FwNext, FwStates
  <2> QED
    BY <1>1, <1>2, <2>1 DEF TypeOK, BusTypeOK
<1>7. DriverInv' /\ RefusedUntouched'
  BY <1>1, <1>2, <1>3 DEF DriverInv, RefusedUntouched
<1>8. pc = "wait" /\ Len(served) = q /\ Asked = q + 1
  BY <1>1, <1>2, <1>3, <1>4, TypeFacts DEF Asked, OpDone, FirmwareInv, DriverInv
<1>9. FirmwareInv'
  BY <1>1, <1>2, <1>3, <1>4, <1>5, <1>8, TypeFacts DEF FirmwareInv, OpDone
<1>10. Delivered' /\ OnlyAsked'
  BY <1>1, <1>2 DEF Delivered, OnlyAsked
<1> QED
  BY <1>6, <1>7, <1>9, <1>10 DEF CallInv

LEMMA FwReleaseStep ==
    ASSUME CallInv, FwRelease, LibraryKept, promServed' = promServed
    PROVE  CallInv'
<1>1. TypeOK /\ DriverInv /\ RefusedUntouched /\ FirmwareInv /\ Delivered /\ OnlyAsked
  BY DEF CallInv
<1>2. /\ ~pins.req /\ fw.st # "idle" /\ UNCHANGED <<pins, rdata, served, promServed>>
      /\ UNCHANGED <<version, writeSeen, pc, call, q, buf, ret, prom>>
      /\ fw' \in FwStates /\ fw'.st = "idle"
  BY <1>1 DEF FwRelease, LibraryKept, TypeOK, BusTypeOK, FwStates
<1>3. TypeOK'
  BY <1>1, <1>2 DEF TypeOK, BusTypeOK
<1>4. Asked' = Asked
  BY <1>2 DEF Asked
<1>5. DriverInv' /\ RefusedUntouched'
  BY <1>1, <1>2, <1>4 DEF DriverInv, RefusedUntouched
<1>6. pc \notin {"wait", "read"} /\ (pc = "lower" => call.n = 0)
  BY <1>1, <1>2, TypeFacts DEF DriverInv
<1>7. ~(pc \in {"data", "request"} /\ Asked > 0)
  BY <1>1, <1>2, <1>6, TypeFacts DEF DriverInv, Asked
<1>8. FirmwareInv' /\ Delivered' /\ OnlyAsked'
  BY <1>1, <1>2, <1>4, <1>6, <1>7, TypeFacts DEF FirmwareInv, Delivered, OnlyAsked, OpDone
<1> QED
  BY <1>3, <1>5, <1>8 DEF CallInv

-----------------------------------------------------------------------------
(* EMIO_WritePromData.                                                     *)

\* The firmware adds to its history the quadlet that it serves for the current one.
LEMMA PromServed ==
    ASSUME StandaloneInv, CallInv', LibraryKept, served \in Seq(Quadlets),
           NEW e \in Quadlets, served' = Append(served, e), pc = "wait", Len(served) = q,
           promServed' = IF prom.ret = "running" /\ served' # served
                            THEN Append(promServed, served'[Len(served')]) ELSE promServed
    PROVE  PromInv' /\ PromExact'
<1>1. TypeOK /\ PromInv /\ PromExact /\ DriverInv
  BY DEF StandaloneInv
<1>2. UNCHANGED <<pc, call, ret, prom>>
  BY DEF LibraryKept
<1>3. /\ Len(served') = Len(served) + 1 /\ Len(served) \in Nat
      /\ served'[Len(served')] = e /\ served' # served /\ e = served'[Len(served) + 1]
  OBVIOUS
<1>4. CASE prom.ret # "running"
  BY <1>1, <1>2, <1>4 DEF PromInv, PromExact
<1>5. CASE prom.ret = "running"
  <2>1. /\ prom.i > 0 /\ call = PromCall(prom.i - 1) /\ prom.i \in Nat
        /\ Len(promServed) = prom.i - 1 + Len(served)
        /\ prom.i <= Len(prom.data) /\ prom \in PromStates
    BY <1>1, <1>5, PromFacts DEF PromInv, TypeOK
  <2>2. call.n = 1 /\ IsWrite(call) /\ ~IsBlock(call)
    BY <2>1 DEF PromCall, IsWrite, IsBlock, Writes, Blocks
  <2>3. q = 0 /\ Len(served) = 0
    BY <1>1, <2>2, TypeFacts DEF DriverInv
  <2>4. /\ promServed \in Seq(Quadlets)
        /\ promServed' = Append(promServed, e)
        /\ Len(promServed) = prom.i - 1 /\ Len(promServed') = prom.i
        /\ promServed'[prom.i] = e /\ DOMAIN promServed' = 1 .. prom.i
        /\ \A j \in 1 .. prom.i - 1 : promServed'[j] = promServed[j] /\ j \in DOMAIN promServed
    BY <1>1, <1>3, <1>5, <2>1, <2>3 DEF TypeOK
  <2>5. /\ e.write /\ e.addr = (PromBase + prom.i - 1) % AddrSpace
        /\ e.val = EndianSwap[prom.data[prom.i]]
    <3>1. Answers(e, call, 1)
      <4>1. 1 \in DOMAIN served'
        BY <1>3, <2>3
      <4> QED
        BY <1>2, <1>3, <2>3, <4>1 DEF CallInv, OnlyAsked
    <3>2. call.addr = (PromBase + (prom.i - 1)) % AddrSpace
          /\ call.data = <<EndianSwap[prom.data[prom.i - 1 + 1]]>>
      BY <2>1 DEF PromCall
    <3>3. call.data[1] = EndianSwap[prom.data[prom.i]]
      <4>1. prom.i - 1 + 1 = prom.i
        BY <2>1
      <4> QED
        BY <3>2, <4>1
    <3>4. e.addr = call.addr /\ e.write = IsWrite(call)
      BY <1>1, <3>1, TypeFacts, AddrFirst DEF Answers, InPlace
    <3>5. e.val = call.data[1]
      BY <2>2, <3>1 DEF Answers, OnBus
    <3>6. PromBase + (prom.i - 1) = PromBase + prom.i - 1
      BY <2>1, StandaloneAssumption, CallsAssumption DEF Addrs
    <3> QED
      BY <2>2, <3>2, <3>3, <3>4, <3>5, <3>6
  <2>6. PromExact'
    <3> SUFFICES ASSUME NEW j \in 1 .. prom.i
                 PROVE  /\ promServed'[j].write
                        /\ promServed'[j].addr = (PromBase + j - 1) % AddrSpace
                        /\ promServed'[j].val = EndianSwap[prom.data[j]]
      BY <1>2, <1>5, <2>4 DEF PromExact
    <3>1. CASE j = prom.i
      BY <2>4, <2>5, <3>1
    <3>2. CASE j # prom.i
      <4>1. j \in 1 .. prom.i - 1
        BY <2>1, <3>2
      <4> QED
        BY <1>1, <2>4, <4>1 DEF PromExact
    <3> QED
      BY <3>1, <3>2
  <2>7. PromInv'
    BY <1>2, <1>3, <2>1, <2>3, <2>4 DEF PromInv, PromCall
  <2> QED
    BY <2>6, <2>7
<1> QED
  BY <1>4, <1>5

\* What the loop of EMIO_WritePromData finds when it looks at the last call: its
\* quadlet has been written, unless the call failed.
LEMMA PromProgress ==
    ASSUME StandaloneInv, PromAt, prom.i > 0 => ret # "false"
    PROVE  Len(promServed) = prom.i
<1>1. TypeOK /\ PromInv /\ FirmwareInv /\ pc = "ready" /\ prom.ret = "running"
  BY DEF StandaloneInv, PromAt
<1>2. prom.i \in Nat
  BY <1>1, PromFacts DEF TypeOK
<1>3. CASE prom.i = 0
  BY <1>1, <1>3 DEF PromInv
<1>4. CASE prom.i > 0
  <2>1. ret = "true"
    BY <1>1, <1>4 DEF PromInv, TypeOK
  <2>2. call = PromCall(prom.i - 1) /\ Len(promServed) = prom.i - 1 + Len(served)
    BY <1>1, <1>4 DEF PromInv
  <2>3. Len(served) = 1
    BY <1>1, <2>1, <2>2 DEF FirmwareInv, PromCall
  <2> QED
    BY <1>2, <2>2, <2>3
<1> QED
  BY <1>2, <1>3, <1>4

LEMMA PromWriteStep ==
    ASSUME FabricPrompt, StandaloneInv, PromWrite
    PROVE  StandaloneInv'
<1>1. TypeOK /\ PromInv /\ PromExact /\ CallInv
  BY DEF StandaloneInv, CallInv
<1>2. /\ PromAt /\ pc = "ready" /\ prom.ret = "running" /\ prom.i < Len(prom.data)
      /\ EnterCall(PromCall(prom.i)) /\ prom' = [prom EXCEPT !.i = prom.i + 1]
      /\ promServed' = promServed
  BY DEF PromWrite, PromAt
<1>3. prom \in PromStates /\ prom.i \in Nat /\ promServed \in Seq(Quadlets)
  BY <1>1, PromFacts DEF TypeOK
<1>4. /\ prom' \in PromStates /\ prom'.i = prom.i + 1 /\ prom'.data = prom.data
      /\ prom'.ret = "running"
  BY <1>2, <1>3 DEF PromStates
<1>5. prom'.i <= Len(prom'.data)
  BY <1>2, <1>3, <1>4, PromFacts
<1>6. PromCall(prom.i) \in Calls /\ ~IsBlock(PromCall(prom.i))
  BY <1>2, <1>3, PromCallIsCall
<1>7. CallInv'
  BY <1>1, <1>2, <1>3, <1>4, <1>5, <1>6, EnterCallStep
<1>8. Len(promServed) = prom.i
  BY <1>2, PromProgress DEF PromWrite
<1>9. call' = PromCall(prom.i) /\ served' = <<>> /\ pc' = "dir"
  BY <1>2, <1>6 DEF EnterCall
<1>10. PromInv'
  <2>1. PromCall(prom.i - 1)' = PromCall(prom.i)
    <3>1. prom'.i - 1 = prom.i
      BY <1>3, <1>4
    <3> QED
      BY <1>4, <3>1 DEF PromCall
  <2>2. Len(promServed') = prom'.i - 1 + Len(served')
    BY <1>2, <1>3, <1>4, <1>8, <1>9
  <2> QED
    BY <1>3, <1>4, <1>9, <2>1, <2>2 DEF PromInv
<1>11. PromExact'
  BY <1>1, <1>2, <1>4 DEF PromExact
<1> QED
  BY <1>7, <1>10, <1>11 DEF StandaloneInv, CallInv

LEMMA PromReturnStep ==
    ASSUME FabricPrompt, StandaloneInv, PromReturn
    PROVE  StandaloneInv'
<1>1. TypeOK /\ PromInv /\ PromExact /\ PromAt
  BY DEF StandaloneInv, PromReturn
<1>2. /\ UNCHANGED <<busVars, version, writeSeen, pc, call, q, buf, ret, promServed>>
      /\ prom \in PromStates /\ promServed' = promServed
  BY <1>1 DEF PromReturn, TypeOK
<1>3. \/ prom' = [prom EXCEPT !.ret = "false"]
      \/ /\ prom.i = Len(prom.data) /\ (prom.i > 0 => ret # "false")
         /\ prom' = [prom EXCEPT !.ret = "true"]
  BY DEF PromReturn
<1>4. /\ prom' \in PromStates /\ prom'.i = prom.i /\ prom'.data = prom.data
      /\ prom'.ret \in {"true", "false"}
      /\ prom'.ret = "true" => prom.i = Len(prom.data) /\ (prom.i > 0 => ret # "false")
  BY <1>2, <1>3 DEF PromStates
<1>5. prom'.ret = "true" => Len(promServed) = Len(prom.data)
  BY <1>1, <1>4, PromProgress
<1>6. PromExact' /\ PromInv'
  BY <1>1, <1>2, <1>4, <1>5 DEF PromExact, PromInv
<1>7. TypeOK'
  BY <1>1, <1>2, <1>4 DEF TypeOK, BusTypeOK, busVars
<1> QED
  BY <1>2, <1>6, <1>7 DEF StandaloneInv, RefusedUntouched, DriverInv, FirmwareInv, Delivered,
     OnlyAsked, Asked, At, OpDone, busVars

LEMMA EnterPromStep ==
    ASSUME FabricPrompt, StandaloneInv, EnterProm
    PROVE  StandaloneInv'
<1>1. TypeOK
  BY DEF StandaloneInv
<1>2. /\ UNCHANGED <<busVars, version, writeSeen, pc, call, q, buf, ret>> /\ pc = "ready"
      /\ prom' \in [data : PromData, i : {0}, ret : {"running"}] /\ promServed' = <<>>
  BY DEF EnterProm
<1>3. prom' \in PromStates /\ prom'.i = 0 /\ prom'.ret = "running" /\ promServed' \in Seq(Quadlets)
  BY <1>2 DEF PromStates
<1>4. prom'.i <= Len(prom'.data)
  BY <1>3, PromFacts
<1>5. TypeOK'
  BY <1>1, <1>2, <1>3, <1>4 DEF TypeOK, BusTypeOK, busVars
<1>6. PromInv' /\ PromExact'
  BY <1>2, <1>3 DEF PromInv, PromExact
<1> QED
  BY <1>2, <1>5, <1>6 DEF StandaloneInv, RefusedUntouched, DriverInv, FirmwareInv, Delivered,
     OnlyAsked, Asked, At, OpDone, busVars

LEMMA EnterStep ==
    ASSUME FabricPrompt, StandaloneInv, Enter
    PROVE  StandaloneInv'
<1>1. TypeOK /\ CallInv
  BY DEF StandaloneInv, CallInv
<1>2. PICK c \in Calls : EnterCall(c)
  BY DEF Enter
<1>3. pc = "ready" /\ prom' = NoProm /\ promServed' = <<>> /\ promServed' \in Seq(Quadlets)
  BY DEF Enter
<1>4. prom' \in PromStates /\ prom'.i <= Len(prom'.data) /\ prom'.ret = "idle"
  BY <1>3 DEF PromStates, NoProm
<1>5. CallInv'
  BY <1>1, <1>2, <1>3, <1>4, EnterCallStep
<1>6. PromInv' /\ PromExact'
  BY <1>3, <1>4 DEF PromInv, PromExact
<1> QED
  BY <1>5, <1>6 DEF StandaloneInv, CallInv

-----------------------------------------------------------------------------
(* All steps.                                                              *)

\* Every step of a register method is an access of the library, and none of them
\* returns without a result.
LEMMA DriverIsAccess ==
    ASSUME ReadQuadlet \/ WriteQuadlet \/ ReadBlock \/ WriteBlock
    PROVE  \E from, to : /\ Goto(from, to) /\ from # "ready"
                         /\ to = "ready" => ret' # "none"
<1>1. CASE \E out : SetDirection(out)
  BY <1>1 DEF SetDirection
<1>2. CASE \E write, to : to # "ready" /\ CheckState(write, to)
  BY <1>2 DEF CheckState
<1>3. CASE WriteData \/ RequestQuadlet \/ RequestBlock \/ LowerLines \/ Return
  BY <1>3 DEF WriteData, RequestQuadlet, RequestBlock, LowerLines, Return
<1>4. CASE \E to : to # "ready" /\ (WaitOpDone(to) \/ ReadData(to))
  BY <1>4 DEF WaitOpDone, ReadData
<1> QED
  BY <1>1, <1>2, <1>3, <1>4 DEF ReadQuadlet, WriteQuadlet, ReadBlock, WriteBlock

LEMMA DriverStep ==
    ASSUME FabricPrompt, CallInv, ReadQuadlet \/ WriteQuadlet \/ ReadBlock \/ WriteBlock
    PROVE  CallInv'
<1>1. TypeOK /\ TRUE \in BOOLEAN /\ FALSE \in BOOLEAN
  BY DEF CallInv
<1> USE <1>1, TypeFacts
<1>2. CASE ReadQuadlet
  <2>1. ~IsWrite(call) /\ ~IsBlock(call) /\ call.n = 1
    BY <1>2 DEF ReadQuadlet, IsWrite, Writes, IsBlock, Blocks
  <2>2. CASE SetDirection(FALSE)
    BY <2>1, <2>2, SetDirectionStep
  <2>3. CASE CheckState(FALSE, "request")
    <3>1. call.n > 0 /\ (FALSE <=> IsWrite(call))
      BY <2>1
    <3> QED
      BY <1>1, <2>1, <2>3, <3>1, CheckStateStep, Zenon
  <2>4. CASE WaitOpDone("read") /\ q' = q
    BY <2>1, <2>4, WaitOpDoneStep
  <2>5. CASE ReadData("lower")
    BY <2>1, <2>5, ReadDataStep
  <2> QED
    BY <1>2, <2>1, <2>2, <2>3, <2>4, <2>5, RequestQuadletStep, LowerLinesStep, ReturnStep
       DEF ReadQuadlet
<1>3. CASE WriteQuadlet
  <2>1. IsWrite(call) /\ ~IsBlock(call) /\ call.n = 1 /\ call.op = "WriteQuadlet"
    BY <1>3 DEF WriteQuadlet, IsWrite, Writes, IsBlock, Blocks
  <2>2. CASE SetDirection(TRUE)
    BY <2>1, <2>2, SetDirectionStep
  <2>3. CASE CheckState(TRUE, "data")
    <3>1. call.n > 0 /\ (TRUE <=> IsWrite(call))
      BY <2>1
    <3> QED
      BY <1>1, <2>1, <2>3, <3>1, CheckStateStep, Zenon
  <2>4. CASE WaitOpDone("lower") /\ q' = q
    BY <2>1, <2>4, WaitOpDoneStep
  <2> QED
    BY <1>3, <2>1, <2>2, <2>3, <2>4, WriteDataStep, RequestQuadletStep, LowerLinesStep,
       ReturnStep DEF WriteQuadlet
<1>4. CASE ReadBlock
  <2>1. ~IsWrite(call) /\ IsBlock(call)
    BY <1>4 DEF ReadBlock, IsWrite, Writes, IsBlock, Blocks
  <2>2. CASE SetDirection(FALSE)
    BY <2>1, <2>2, SetDirectionStep
  <2>3. CASE CheckState(FALSE, IF call.n = 0 THEN "lower" ELSE "request")
    <3>1. call.n = 0 \/ call.n > 0
      BY TypeFacts
    <3>2. CASE call.n = 0
      BY <1>1, <2>1, <2>3, <3>2, CheckStateStep, Zenon
    <3>3. CASE call.n > 0
      <4>1. call.n # 0
        BY <3>3
      <4> QED
        BY <1>1, <2>1, <2>3, <3>3, <4>1, CheckStateStep, Zenon
    <3> QED
      BY <3>1, <3>2, <3>3
  <2>4. CASE WaitOpDone("read") /\ q' = q
    BY <2>1, <2>4, WaitOpDoneStep
  <2>5. CASE ReadData(IF q + 1 < call.n THEN "request" ELSE "lower")
    BY <2>1, <2>5, ReadDataStep
  <2> QED
    BY <1>4, <2>1, <2>2, <2>3, <2>4, <2>5, RequestBlockStep, LowerLinesStep, ReturnStep
       DEF ReadBlock
<1>5. CASE WriteBlock
  <2>1. IsWrite(call) /\ IsBlock(call) /\ call.op = "WriteBlock"
    BY <1>5 DEF WriteBlock, IsWrite, Writes, IsBlock, Blocks
  <2>2. CASE SetDirection(TRUE)
    BY <2>1, <2>2, SetDirectionStep
  <2>3. CASE CheckState(TRUE, IF call.n = 0 THEN "lower" ELSE "data")
    <3>1. call.n = 0 \/ call.n > 0
      BY TypeFacts
    <3>2. CASE call.n = 0
      BY <1>1, <2>1, <2>3, <3>2, CheckStateStep, Zenon
    <3>3. CASE call.n > 0
      <4>1. call.n # 0
        BY <3>3
      <4> QED
        BY <1>1, <2>1, <2>3, <3>3, <4>1, CheckStateStep, Zenon
    <3> QED
      BY <3>1, <3>2, <3>3
  <2>4. CASE WaitOpDone(IF q + 1 < call.n THEN "data" ELSE "lower") /\ q' = q + 1
    BY <2>1, <2>4, WaitOpDoneStep
  <2> QED
    BY <1>5, <2>1, <2>2, <2>3, <2>4, WriteDataStep, RequestBlockStep, LowerLinesStep, ReturnStep
       DEF WriteBlock
<1> QED
  BY <1>2, <1>3, <1>4, <1>5

\* The firmware serves, or takes a step that the histories do not show.
LEMMA FabricCases ==
    ASSUME Fabric
    PROVE  /\ LibraryKept
           /\ \/ FwServeAs(writeSeen)
              \/ FwAccept /\ promServed' = promServed
              \/ FwNext /\ promServed' = promServed
              \/ FwRelease /\ promServed' = promServed
BY DEF Fabric, FwAccept, FwNext, FwRelease, LibraryKept

LEMMA FabricStep ==
    ASSUME StandaloneInv, Fabric
    PROVE  StandaloneInv'
<1>1. TypeOK /\ PromInv /\ PromExact /\ CallInv /\ LibraryKept
  BY FabricCases DEF StandaloneInv, CallInv
<1>2. CASE FwServeAs(writeSeen)
  <2>1. promServed' = IF prom.ret = "running" /\ served' # served
                         THEN Append(promServed, served'[Len(served')]) ELSE promServed
    BY DEF Fabric
  <2>2. promServed' \in Seq(Quadlets)
    <3>1. PICK e \in Quadlets : served' = Append(served, e)
      <4>1. /\ pins \in PinStates /\ fw \in FwStates /\ writeSeen \in BOOLEAN
        BY <1>1, TypeFacts
      <4>2. PICK v \in Quads :
               served' = Append(served, [addr |-> fw.addr, write |-> writeSeen, val |-> v,
                                         blkStart |-> pins.blkStart, blkEnd |-> pins.blkEnd])
        BY <1>2, <4>1 DEF FwServeAs, PinStates
      <4> QED
        BY <4>1, <4>2 DEF PinStates, FwStates, Quadlets
    <3>2. served \in Seq(Quadlets) /\ promServed \in Seq(Quadlets)
      BY <1>1 DEF TypeOK, BusTypeOK
    <3>3. served'[Len(served')] = e
      BY <3>1, <3>2
    <3> QED
      BY <2>1, <3>2, <3>3
  <2>3. PICK e \in Quadlets : served' = Append(served, e)
    BY <1>1, <1>2, <2>2, FwServeStep
  <2>4. CallInv' /\ served \in Seq(Quadlets) /\ pc = "wait" /\ Len(served) = q
    BY <1>1, <1>2, <2>2, FwServeStep
  <2>5. PromInv' /\ PromExact'
    BY <1>1, <2>1, <2>3, <2>4, PromServed
  <2> QED
    BY <2>4, <2>5 DEF StandaloneInv, CallInv
<1>3. CASE (FwAccept \/ FwNext \/ FwRelease) /\ promServed' = promServed
  <2>1. CallInv'
    BY <1>1, <1>3, FwAcceptStep, FwNextStep, FwReleaseStep
  <2>2. UNCHANGED <<call, ret, pc, prom, promServed, served>>
    BY <1>1, <1>3 DEF FwAccept, FwNext, FwRelease, LibraryKept
  <2>3. PromInv' /\ PromExact'
    BY <1>1, <2>2 DEF PromInv, PromExact, PromCall
  <2> QED
    BY <2>1, <2>3 DEF StandaloneInv, CallInv
<1> QED
  BY <1>2, <1>3, FabricCases

LEMMA NextInv ==
    ASSUME FabricPrompt, StandaloneInv, [Next]_vars
    PROVE  StandaloneInv'
<1>1. CallInv /\ PromInv /\ PromExact
  BY DEF StandaloneInv, CallInv
<1>2. CASE Enter
  BY <1>2, EnterStep
<1>3. CASE EnterProm
  BY <1>3, EnterPromStep
<1>4. CASE ReadQuadlet \/ WriteQuadlet \/ ReadBlock \/ WriteBlock
  <2>1. CallInv'
    BY <1>1, <1>4, DriverStep
  <2>2. PromInv' /\ PromExact'
    BY <1>1, <1>4, DriverIsAccess, PromKept
  <2> QED
    BY <2>1, <2>2 DEF StandaloneInv, CallInv
<1>5. CASE PromWrite \/ PromReturn
  BY <1>5, PromWriteStep, PromReturnStep
<1>6. CASE FwTristate
  <2>1. CallInv'
    BY <1>1, <1>6, FwTristateStep
  <2>2. UNCHANGED <<call, ret, pc, prom, promServed, served>>
    BY <1>6 DEF FwTristate, busVars
  <2>3. PromInv' /\ PromExact'
    BY <1>1, <2>2 DEF PromInv, PromExact, PromCall
  <2> QED
    BY <2>1, <2>3 DEF StandaloneInv, CallInv
<1>7. CASE Fabric
  BY <1>7, FabricStep
<1>8. CASE UNCHANGED vars
  BY <1>8 DEF vars, busVars, hostVars, StandaloneInv, TypeOK, BusTypeOK, RefusedUntouched,
     DriverInv, FirmwareInv, Delivered, OnlyAsked, PromInv, PromExact, PromCall, Asked, At, OpDone
<1> QED
  BY <1>2, <1>3, <1>4, <1>5, <1>6, <1>7, <1>8 DEF Next, Driver

LEMMA InitInv == Init => StandaloneInv
<1> SUFFICES ASSUME Init PROVE StandaloneInv
  OBVIOUS
<1>1. call \in Calls /\ ~IsBlock(call) /\ ~IsWrite(call) /\ call.n = 1
  BY CallFacts DEF Init, IsBlock, Blocks, IsWrite, Writes
<1>2. /\ pins \in PinStates /\ ~pins.req /\ fw \in FwStates /\ fw.st = "idle"
      /\ served = <<>> /\ rdata \in Quads
  <2>1. 0 \in Addrs
    BY CallsAssumption DEF Addrs
  <2> QED
    BY <2>1 DEF Init, BusInit, PinStates, FwStates
<1>3. /\ version \in 0 .. 2 /\ writeSeen = FALSE /\ pc = "ready" /\ q = 0 /\ buf = <<>>
      /\ ret = "none" /\ prom = NoProm /\ promServed = <<>>
  BY DEF Init
<1>4. prom \in PromStates /\ prom.i <= Len(prom.data) /\ prom.ret = "idle"
  BY <1>3 DEF PromStates, NoProm
<1>5. TypeOK
  <2>1. served \in Seq(Quadlets) /\ buf \in Seq(Quads) /\ promServed \in Seq(Quadlets)
    BY <1>2, <1>3
  <2>2. q \in 0 .. call.n
    BY <1>1, <1>3
  <2> QED
    BY <1>1, <1>2, <1>3, <1>4, <2>1, <2>2 DEF TypeOK, BusTypeOK, Labels
<1>6. DriverInv /\ RefusedUntouched
  BY <1>1, <1>2, <1>3 DEF DriverInv, RefusedUntouched
<1>7. FirmwareInv /\ Delivered /\ OnlyAsked
  BY <1>1, <1>2, <1>3 DEF FirmwareInv, Delivered, OnlyAsked, OpDone
<1>8. PromInv /\ PromExact
  BY <1>3, <1>4 DEF PromInv, PromExact
<1> QED
  BY <1>5, <1>6, <1>7, <1>8 DEF StandaloneInv

-----------------------------------------------------------------------------
(* The theorems.                                                           *)

\* Library and firmware always agree on how far a transfer, and the PROM loop
\* above it, has come; a call that returned false has touched nothing.
THEOREM StandaloneInvariant ==
    ASSUME FabricPrompt
    PROVE  Spec => []StandaloneInv
<1>1. Init => StandaloneInv
  BY InitInv
<1>2. StandaloneInv /\ [Next]_vars => StandaloneInv'
  BY NextInv
<1> QED
  BY <1>1, <1>2, PTL DEF Spec

\* A register method that returns true has carried out exactly the transfers it
\* was asked for, and a reader got what they delivered.
THEOREM ExactCalls ==
    ASSUME FabricPrompt
    PROVE  Spec => []CallExact
<1>1. StandaloneInv => CallExact
  <2> SUFFICES ASSUME StandaloneInv, pc = "ready", ret = "true"
               PROVE  /\ Carried(served, call)
                      /\ ~IsWrite(call) => buf = [i \in 1 .. call.n |-> served[i].val]
    BY DEF CallExact
  <2>1. TypeOK /\ FirmwareInv /\ Delivered /\ OnlyAsked
    BY DEF StandaloneInv
  <2>2. Len(served) = call.n /\ DOMAIN served = 1 .. call.n
    BY <2>1 DEF FirmwareInv, TypeOK, BusTypeOK
  <2>3. Carried(served, call)
    BY <2>1, <2>2 DEF Carried, OnlyAsked
  <2>4. ASSUME ~IsWrite(call)
        PROVE  buf = [i \in 1 .. call.n |-> served[i].val]
    <3>1. Len(buf) = call.n /\ \A i \in 1 .. call.n : buf[i] = served[i].val
      BY <2>1, <2>4 DEF Delivered
    <3>2. buf = [i \in 1 .. call.n |-> buf[i]]
      BY <2>1, <3>1 DEF TypeOK
    <3> QED
      BY <3>1, <3>2
  <2> QED
    BY <2>3, <2>4
<1> QED
  BY <1>1, StandaloneInvariant, PTL

\* EMIO_WritePromData writes the quadlets of its data to the PROM registers in
\* order, and returns true only when all of them are written.
THEOREM PromExactAlways ==
    ASSUME FabricPrompt
    PROVE  Spec => []PromExact
<1>1. StandaloneInv => PromExact
  BY DEF StandaloneInv
<1> QED
  BY <1>1, StandaloneInvariant, PTL

-----------------------------------------------------------------------------
(* The library implements EmioContract.                                    *)

\* The contract's instance talks about the same calls as the library.
LEMMA SameCalls ==
    /\ Contract!Calls = Calls
    /\ Contract!Quadlets = Quadlets
    /\ \A c : (Contract!IsBlock(c) <=> IsBlock(c)) /\ (Contract!IsWrite(c) <=> IsWrite(c))
    /\ \A c, v : Contract!OnBus(c, v) = OnBus(c, v)
    /\ \A e, c, i : /\ Contract!InPlace(e, c, i) <=> InPlace(e, c, i)
                    /\ Contract!Answers(e, c, i) <=> Answers(e, c, i)
<1>1. Contract!Calls = Calls
  BY DEF Calls, Contract!Calls, CallsOf, Contract!CallsOf, Addrs, Contract!Addrs,
     Quadded, Contract!Quadded, Writes, Contract!Writes, Blocks, Contract!Blocks
<1>2. Contract!Quadlets = Quadlets
  BY DEF Quadlets, Contract!Quadlets, Addrs, Contract!Addrs
<1>3. \A c : (Contract!IsBlock(c) <=> IsBlock(c)) /\ (Contract!IsWrite(c) <=> IsWrite(c))
  BY DEF IsBlock, IsWrite, Contract!IsBlock, Contract!IsWrite, Blocks, Writes,
     Contract!Blocks, Contract!Writes
<1>4. \A c, v : Contract!OnBus(c, v) = OnBus(c, v)
  BY <1>3 DEF OnBus, Contract!OnBus, bswap_32, Contract!bswap_32
<1>5. \A c : Contract!IsWrite(c) = IsWrite(c)
  BY Zenon DEF IsWrite, Contract!IsWrite, Writes, Contract!Writes, Blocks, Contract!Blocks
<1>6. \A e, c, i : Contract!InPlace(e, c, i) <=> InPlace(e, c, i)
  BY <1>5, Zenon DEF InPlace, Contract!InPlace, QuadletAddr, Contract!QuadletAddr
<1>7. \A e, c, i : Contract!Answers(e, c, i) <=> Answers(e, c, i)
  BY <1>3, <1>4, <1>6, Zenon DEF Answers, Contract!Answers
<1> QED
  BY <1>1, <1>2, <1>3, <1>4, <1>6, <1>7

\* An access that is neither a read of the data pins nor a return is invisible.
LEMMA HiddenStep ==
    ASSUME UNCHANGED <<served, buf, call, ret>>, pc # "ready", pc' # "ready"
    PROVE  UNCHANGED Contract!vars
BY DEF Contract!vars

\* Entering a method, also as EMIO_WritePromData does, is a contract's Begin.
LEMMA EnterCallImplements ==
    ASSUME pc = "ready", NEW c \in Calls, EnterCall(c)
    PROVE  Contract!Begin
<1>1. call' = c /\ served' = <<>> /\ buf' = <<>>
  BY DEF EnterCall
<1>2. \/ pc' = "ready" /\ ret' = "false" /\ IsBlock(c)
      \/ pc' = "dir" /\ ret' = "none"
  BY DEF EnterCall
<1> QED
  BY <1>1, <1>2, SameCalls DEF Contract!Begin

\* Reading the data pins hands over the quadlet that the firmware delivered.
LEMMA ReadDataImplements ==
    ASSUME StandaloneInv, NEW to, to # "ready", ReadData(to)
    PROVE  Contract!Deliver
<1>1. TypeOK /\ DriverInv /\ FirmwareInv /\ Delivered
  BY DEF StandaloneInv
<1>2. /\ pc = "read" /\ pc' = to /\ buf' = Append(buf, rdata)
      /\ UNCHANGED <<served, call, ret>>
  BY DEF ReadData, Goto
<1>3. ~IsWrite(call) /\ rdata \in Quads /\ buf \in Seq(Quads) /\ OnBus(call, rdata) = rdata
  BY <1>1, <1>2, OnBusSame DEF DriverInv, TypeOK, BusTypeOK
<1>4. Len(buf') = Len(buf) + 1 /\ Len(buf) = q /\ q \in Nat
  BY <1>1, <1>2, <1>3, TypeFacts DEF Delivered
<1>5. OpDone /\ Len(served) = q + 1
  <2>1. Asked = q + 1 /\ Asked > 0
    BY <1>2, <1>4 DEF Asked
  <2> QED
    BY <1>1, <1>2, <2>1 DEF FirmwareInv
<1>6. Len(buf') <= Len(served) /\ rdata = served[Len(buf')].val
  BY <1>1, <1>3, <1>4, <1>5 DEF FirmwareInv, OpDone
<1> QED
  BY <1>2, <1>3, <1>6, SameCalls DEF Contract!Deliver

\* Returning true is a contract's Finish: all quadlets are served and delivered.
LEMMA ReturnImplements ==
    ASSUME StandaloneInv, Return
    PROVE  Contract!Finish
<1>1. pc = "return" /\ pc' = "ready" /\ ret' = "true" /\ UNCHANGED <<served, call, buf>>
  BY DEF Return, Goto
<1>2. Len(served) = call.n /\ (~IsWrite(call) => Len(buf) = call.n)
  BY <1>1 DEF StandaloneInv, FirmwareInv, Delivered
<1> QED
  BY <1>1, <1>2, SameCalls DEF Contract!Finish

\* A failed check of the bus is a contract's Finish, a passed one is invisible.
LEMMA CheckStateImplements ==
    ASSUME NEW write, NEW to, to # "ready", CheckState(write, to)
    PROVE  [Contract!Next]_Contract!vars
<1>1. UNCHANGED <<served, buf, call>> /\ pc = "check"
  BY DEF CheckState, Goto
<1>2. \/ pc' = to /\ ret' = ret
      \/ pc' = "ready" /\ ret' = "false"
  BY DEF CheckState, Goto
<1>3. CASE pc' = to /\ ret' = ret
  BY <1>1, <1>3, HiddenStep
<1>4. CASE pc' = "ready" /\ ret' = "false"
  BY <1>1, <1>4 DEF Contract!Next, Contract!Finish
<1> QED
  BY <1>2, <1>3, <1>4

\* Serving a quadlet is a transaction of the contract.
LEMMA FwServeImplements ==
    ASSUME StandaloneInv, StandaloneInv', LibraryKept, FwServeAs(writeSeen)
    PROVE  Contract!Transact
<1>1. TypeOK /\ FirmwareInv /\ fw.st = "busy" /\ CallInv
  BY DEF StandaloneInv, CallInv, FwServeAs
<1>2. promServed' \in Seq(Quadlets)
  BY DEF StandaloneInv, TypeOK
<1>3. PICK e \in Quadlets : served' = Append(served, e)
  BY <1>1, <1>2, FwServeStep
<1>4. /\ served \in Seq(Quadlets) /\ Len(served') = Len(served) + 1
      /\ served'[Len(served')] = e /\ Len(served') \in DOMAIN served'
  BY <1>1, <1>3 DEF TypeOK, BusTypeOK
<1>5. pc = "wait" /\ UNCHANGED <<pc, call, buf, ret>>
  BY <1>1 DEF FirmwareInv, LibraryKept
<1>6. Answers(e, call, Len(served'))
  BY <1>4, <1>5 DEF StandaloneInv, OnlyAsked
<1>7. InPlace(e, call, Len(served'))
  BY <1>6 DEF Answers
<1> QED
  BY <1>3, <1>5, <1>6, <1>7, SameCalls DEF Contract!Transact

\* Every step of the library and of the firmware is a step of the contract.
LEMMA NextImplements ==
    ASSUME StandaloneInv, StandaloneInv', [Next]_vars
    PROVE  [Contract!Next]_Contract!vars
<1>1. TypeOK
  BY DEF StandaloneInv
<1>2. CASE Enter
  BY <1>2, EnterCallImplements DEF Enter, Contract!Next
<1>3. CASE EnterProm \/ PromReturn
  BY <1>3 DEF EnterProm, PromReturn, busVars, Contract!vars
<1>4. CASE PromWrite
  <2>1. prom \in PromStates /\ prom.i \in Nat /\ prom.i < Len(prom.data)
    BY <1>1, <1>4, PromFacts DEF PromWrite, TypeOK
  <2>2. PromCall(prom.i) \in Calls
    BY <2>1, PromCallIsCall
  <2> QED
    BY <1>4, <2>2, EnterCallImplements DEF PromWrite, PromAt, Contract!Next
<1>5. CASE ReadQuadlet \/ WriteQuadlet \/ ReadBlock \/ WriteBlock
  <2>1. CASE (\E out : SetDirection(out)) \/ WriteData \/ RequestQuadlet \/ RequestBlock \/ LowerLines
    BY <2>1, HiddenStep DEF SetDirection, WriteData, RequestQuadlet, RequestBlock, LowerLines, Goto
  <2>2. CASE \E write, to : to # "ready" /\ CheckState(write, to)
    BY <2>2, CheckStateImplements
  <2>3. CASE \E to : to # "ready" /\ WaitOpDone(to)
    BY <2>3, HiddenStep DEF WaitOpDone, Goto
  <2>4. CASE \E to : to # "ready" /\ ReadData(to)
    BY <2>4, ReadDataImplements DEF Contract!Next
  <2>5. CASE Return
    BY <2>5, ReturnImplements DEF Contract!Next
  <2> QED
    BY <1>5, <2>1, <2>2, <2>3, <2>4, <2>5 DEF ReadQuadlet, WriteQuadlet, ReadBlock, WriteBlock
<1>6. CASE FwTristate
  BY <1>6 DEF FwTristate, busVars, Contract!vars
<1>7. CASE Fabric
  <2>1. CASE FwServeAs(writeSeen)
    BY <1>7, <2>1, FabricCases, FwServeImplements DEF Contract!Next
  <2>2. CASE FwAccept \/ FwNext \/ FwRelease
    BY <1>7, <2>2, FabricCases DEF FwAccept, FwNext, FwRelease, LibraryKept, Contract!vars
  <2> QED
    BY <1>7, <2>1, <2>2, FabricCases
<1>8. CASE UNCHANGED vars
  BY <1>8 DEF vars, busVars, hostVars, Contract!vars
<1> QED
  BY <1>2, <1>3, <1>4, <1>5, <1>6, <1>7, <1>8 DEF Next, Driver

\* The bare-metal library together with the firmware implements EMIO_Interface as
\* EmioContract states it, and excuses no call.
THEOREM LibraryImplements ==
    ASSUME FabricPrompt
    PROVE  Spec => ImplementsContract
<1>1. Init => Contract!Init
  BY SameCalls DEF Init, BusInit, Contract!Init
<1>2. StandaloneInv /\ StandaloneInv' /\ [Next]_vars => [Contract!Next]_Contract!vars
  BY NextImplements
<1> QED
  BY <1>1, <1>2, StandaloneInvariant, PTL DEF Spec, ImplementsContract, Contract!Spec

=============================================================================
