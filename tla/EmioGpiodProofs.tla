---------------------------- MODULE EmioGpiodProofs ----------------------------
(***************************************************************************)
(* Proofs about the gpiod driver, for every address space, set of quadlets *)
(* and set of block lengths. The first part holds whichever libgpiod calls *)
(* fail and however slow the firmware is.                                  *)
(***************************************************************************)
EXTENDS EmioGpiod, EmioCallsProofs

\* What NonEmpty changes of a call.
LEMMA NonEmptyFacts ==
    ASSUME NEW c \in Calls
    PROVE  /\ NonEmpty(c).n = (IF c.n = 0 THEN 1 ELSE c.n)
           /\ NonEmpty(c).addr = c.addr
           /\ IsWrite(NonEmpty(c)) <=> IsWrite(c)
<1>1. \A b \in ByteCounts : Quadded(b) \in Nat
  BY CallsAssumption, SMT DEF Quadded
<1>2. PICK op \in Ops, n \in Nat : c \in CallsOf(op, n)
  BY <1>1 DEF Calls, Ops, Blocks, Writes
<1>3. /\ NonEmpty(c).n = (IF c.n = 0 THEN 1 ELSE c.n)
      /\ NonEmpty(c).addr = c.addr /\ NonEmpty(c).op = c.op
  BY <1>2 DEF CallsOf, NonEmpty
<1> QED
  BY <1>3 DEF IsWrite

\* Types that the steps below use, with the records taken apart.
LEMMA TypeFacts ==
    ASSUME TypeOK
    PROVE  /\ pins \in PinStates /\ fw \in FwStates
           /\ pins.req \in BOOLEAN /\ pins.lsb \in BOOLEAN /\ pins.out \in BOOLEAN
           /\ pins.blkStart \in BOOLEAN /\ pins.blkEnd \in BOOLEAN
           /\ pins.wdata \in Quads /\ pins.addr \in Addrs
           /\ fw.st \in {"idle", "busy", "done"} /\ fw.addr \in Addrs /\ fw.lsb \in BOOLEAN
           /\ rdata \in Quads
           /\ served \in Seq(Quadlets) /\ Len(served) \in Nat
           /\ buf \in Seq(Quads) /\ Len(buf) \in Nat
           /\ call \in Calls /\ call.n \in Nat /\ call.op \in Ops /\ call.addr \in Addrs
           /\ NonEmpty(call).n = (IF call.n = 0 THEN 1 ELSE call.n)
           /\ q \in Nat /\ q <= NonEmpty(call).n
           /\ ~IsBlock(call) => call.n = 1
           /\ IsWrite(call) => call.data \in [1 .. call.n -> Quads]
           /\ isInput \in BOOLEAN /\ useEvents \in BOOLEAN /\ lineOk \in BOOLEAN
           /\ ok \in BOOLEAN /\ wasInput \in BOOLEAN /\ hadEvents \in BOOLEAN
           /\ slipped \in BOOLEAN /\ events \in Nat /\ EventFifo \in Nat
<1>1. call \in Calls /\ q \in 0 .. (IF call.n = 0 THEN 1 ELSE call.n)
  BY DEF TypeOK
<1>2. /\ call.n \in Nat /\ call.op \in Ops /\ call.addr \in Addrs /\ (~IsBlock(call) => call.n = 1)
      /\ IsWrite(call) => call.data \in [1 .. call.n -> Quads]
      /\ NonEmpty(call).n = (IF call.n = 0 THEN 1 ELSE call.n)
  BY <1>1, CallFacts, NonEmptyFacts
<1>3. q \in Nat /\ q <= NonEmpty(call).n
  BY <1>1, <1>2
<1>4. pins \in PinStates /\ fw \in FwStates /\ rdata \in Quads
  BY DEF TypeOK, BusTypeOK
<1>5. /\ pins.req \in BOOLEAN /\ pins.lsb \in BOOLEAN /\ pins.out \in BOOLEAN
      /\ pins.blkStart \in BOOLEAN /\ pins.blkEnd \in BOOLEAN
      /\ pins.wdata \in Quads /\ pins.addr \in Addrs
      /\ fw.st \in {"idle", "busy", "done"} /\ fw.addr \in Addrs /\ fw.lsb \in BOOLEAN
  BY <1>4 DEF PinStates, FwStates
<1>6. served \in Seq(Quadlets) /\ Len(served) \in Nat /\ buf \in Seq(Quads) /\ Len(buf) \in Nat
  BY DEF TypeOK, BusTypeOK
<1>7. /\ isInput \in BOOLEAN /\ useEvents \in BOOLEAN /\ lineOk \in BOOLEAN
      /\ ok \in BOOLEAN /\ wasInput \in BOOLEAN /\ hadEvents \in BOOLEAN
      /\ slipped \in BOOLEAN /\ events \in Nat /\ EventFifo \in Nat
  BY GpiodAssumption DEF TypeOK
<1> QED
  BY <1>1, <1>2, <1>3, <1>4, <1>5, <1>6, <1>7

\* A libgpiod call keeps the types of what it does not set.
LEMMA SetTyped ==
    ASSUME TypeOK, NEW kind, NEW from, NEW newPins, NEW to, NEW bad,
           Set(kind, from, newPins, to, bad), newPins \in PinStates,
           isInput' \in BOOLEAN, lsbVal' \in -2 .. 1, to \in Labels, bad \in Labels
    PROVE  TypeOK'
<1>1. pins' \in PinStates /\ pc' \in Labels /\ ok' \in BOOLEAN /\ slipped' \in BOOLEAN
  BY TypeFacts DEF Set
<1>2. UNCHANGED <<fw, rdata, served, version, useEvents, lineOk, call, wasInput, hadEvents,
                  events, q, buf, ret>>
  BY DEF Set, Frame
<1>3. BusTypeOK'
  BY <1>1, <1>2 DEF TypeOK, BusTypeOK
<1> QED
  BY <1>1, <1>2, <1>3 DEF TypeOK

-----------------------------------------------------------------------------
(* ControlInv: one lemma for each access of the driver.                    *)

LEMMA SetInputControl ==
    ASSUME ControlInv, NEW to, SetInput(to), to \in {"addr", "ctrl"}
    PROVE  ControlInv'
<1>1. TypeOK /\ DirectionKnown /\ LoopInv
  BY DEF ControlInv, GpiodInv
<1>2. to \in Labels /\ "return" \in Labels /\ to # "return"
  BY DEF Labels
<1>3. /\ pc = "dir" /\ UNCHANGED <<call, q, ret, lsbVal, wasInput, useEvents, events>>
      /\ pc' \in {to, "return"} /\ isInput' = (isInput \/ pc' = to)
  BY DEF SetInput, Set, Frame
<1>4. lsbVal' \in -2 .. 1 /\ isInput' \in BOOLEAN
  BY <1>1, <1>3, TypeFacts DEF TypeOK
<1>5. CASE isInput
  <2>1. Set("none", "dir", pins, to, to)
    BY <1>5 DEF SetInput
  <2>2. pins' = pins
    BY <2>1 DEF Set
  <2>3. TypeOK'
    BY <1>1, <1>2, <1>4, <2>1, TypeFacts, SetTyped
  <2> QED
    BY <1>1, <1>2, <1>3, <1>5, <2>2, <2>3
       DEF ControlInv, GpiodInv, DirectionKnown, LoopInv, Before
<1>6. CASE ~isInput
  <2> DEFINE p == [pins EXCEPT !.out = FALSE]
  <2>1. Set("direction", "dir", p, to, "return")
    BY <1>6 DEF SetInput
  <2>2. p \in PinStates /\ p.out = FALSE
    BY <1>1, TypeFacts DEF PinStates
  <2>3. (pins' = p /\ pc' = to) \/ (pins' = pins /\ pc' = "return")
    BY <2>1 DEF Set
  <2> HIDE DEF p
  <2>4. TypeOK'
    BY <1>1, <1>2, <1>4, <2>1, <2>2, SetTyped
  <2>5. DirectionKnown'
    BY <1>1, <1>2, <1>3, <1>6, <2>2, <2>3 DEF DirectionKnown
  <2> QED
    BY <1>1, <1>2, <1>3, <2>4, <2>5 DEF ControlInv, GpiodInv, LoopInv, Before
<1> QED
  BY <1>5, <1>6

\* The quadlet that WriteQuadlet or WriteBlock puts on the lines first.
LEMMA FirstOnBusType ==
    ASSUME ControlInv, pc = "dir", IsWrite(call)
    PROVE  FirstOnBus \subseteq Quads /\ (call.n # 0 => DataOnBus \in Quads)
<1>1. TypeOK /\ q = 0
  BY DEF ControlInv, GpiodInv, LoopInv, Before
<1>2. call.n # 0 => call.data[1] \in Quads
  BY <1>1, TypeFacts
<1> QED
  BY <1>1, <1>2, OnBusType DEF FirstOnBus, DataOnBus

LEMMA SetOutputControl ==
    ASSUME ControlInv, NEW kind, NEW p, SetOutput(kind, p), IsWrite(call),
           p \in PinStates, p.out = pins.out
    PROVE  ControlInv'
<1>1. TypeOK /\ DirectionKnown /\ LoopInv
  BY DEF ControlInv, GpiodInv
<1>2. "addr" \in Labels /\ "return" \in Labels
  BY DEF Labels
<1>3. /\ pc = "dir" /\ UNCHANGED <<call, q, ret, lsbVal, wasInput, useEvents, events>>
      /\ pc' \in {"addr", "return"} /\ isInput' = (isInput /\ pc' # "addr")
  BY DEF SetOutput, SetUnchecked, Set, Frame
<1>4. lsbVal' \in -2 .. 1 /\ isInput' \in BOOLEAN
  BY <1>1, <1>3, TypeFacts DEF TypeOK
<1>5. CASE ~isInput
  <2>1. Set(kind, "dir", p, "addr", "addr")
    BY <1>5 DEF SetOutput, SetUnchecked
  <2>2. pins' \in {p, pins} /\ pc' = "addr"
    BY <2>1 DEF Set
  <2>3. TypeOK'
    BY <1>1, <1>2, <1>4, <2>1, SetTyped
  <2> QED
    BY <1>1, <1>3, <1>5, <2>2, <2>3
       DEF ControlInv, GpiodInv, DirectionKnown, LoopInv, Before
<1>6. CASE isInput
  <2>1. PICK v \in FirstOnBus :
          Set("direction", "dir", [pins EXCEPT !.out = TRUE, !.wdata = v], "addr", "return")
    BY <1>6 DEF SetOutput
  <2> DEFINE r == [pins EXCEPT !.out = TRUE, !.wdata = v]
  <2>2. v \in Quads
    BY <1>3, <2>1, FirstOnBusType
  <2>3. r \in PinStates /\ r.out = TRUE
    BY <1>1, <2>2, TypeFacts DEF PinStates
  <2>4. (pins' = r /\ pc' = "addr") \/ (pins' = pins /\ pc' = "return")
    BY <2>1 DEF Set
  <2>5. Set("direction", "dir", r, "addr", "return")
    BY <2>1
  <2> HIDE DEF r
  <2>6. TypeOK'
    BY <1>1, <1>2, <1>4, <2>3, <2>5, SetTyped
  <2>7. DirectionKnown'
    BY <1>1, <1>3, <1>6, <2>3, <2>4 DEF DirectionKnown
  <2> QED
    BY <1>1, <1>3, <2>6, <2>7 DEF ControlInv, GpiodInv, LoopInv, Before
<1> QED
  BY <1>5, <1>6

\* An access that does not change the direction of the data lines.
LEMMA LineControl ==
    ASSUME ControlInv, NEW kind, NEW from, NEW p, NEW to, NEW bad,
           Set(kind, from, p, to, bad), p \in PinStates, p.out = pins.out,
           isInput' = isInput, lsbVal' \in -2 .. 1, to \in Labels, bad \in Labels
    PROVE  /\ GpiodInv' /\ pc = from /\ pc' \in {to, bad}
           /\ UNCHANGED <<call, q, ret, isInput, wasInput, useEvents, events>>
<1>1. TypeOK /\ DirectionKnown
  BY DEF ControlInv, GpiodInv
<1>2. TypeOK'
  BY <1>1, SetTyped, TypeFacts
<1>3. /\ pins' \in {p, pins} /\ pc = from /\ pc' \in {to, bad}
      /\ UNCHANGED <<call, q, ret, isInput, wasInput, useEvents, events>>
  BY DEF Set, Frame
<1> QED
  BY <1>1, <1>2, <1>3 DEF GpiodInv, DirectionKnown

LEMMA SetDataControl ==
    ASSUME ControlInv, SetData(BlkEndIfLast(q + 1))
    PROVE  ControlInv'
<1>1. TypeOK /\ LoopInv
  BY DEF ControlInv, GpiodInv
<1> DEFINE p == [pins EXCEPT !.wdata = DataOnBus]
           to == BlkEndIfLast(q + 1)
<1>2. Set("setData", "data", p, to, to) /\ UNCHANGED <<isInput, lsbVal>>
  BY DEF SetData, SetUnchecked
<1>3. pc = "data" /\ IsWrite(call) /\ q \in 1 .. call.n - 1 /\ call.n \in Nat /\ IsBlock(call)
  BY <1>1, <1>2, TypeFacts DEF LoopInv, Set
<1>4. DataOnBus \in Quads
  <2>1. q + 1 \in 1 .. call.n
    BY <1>3
  <2>2. call.data[q + 1] \in Quads
    BY <1>1, <1>3, <2>1, TypeFacts
  <2> QED
    BY <2>2, OnBusType DEF DataOnBus
<1>5. p \in PinStates /\ p.out = pins.out
  BY <1>1, <1>4, TypeFacts DEF PinStates
<1>6. to \in {"blkEnd", "toggle"} /\ (to = "blkEnd" => q + 1 = call.n)
  BY DEF BlkEndIfLast
<1>7. lsbVal' \in -2 .. 1 /\ to \in Labels
  BY <1>1, <1>2, <1>6 DEF TypeOK, Labels
<1> HIDE DEF p, to
<1>8. GpiodInv' /\ pc' = to /\ UNCHANGED <<call, q, ret, isInput, wasInput, useEvents, events>>
  BY <1>2, <1>5, <1>7, LineControl
<1>9. LoopInv'
  BY <1>1, <1>3, <1>6, <1>8 DEF LoopInv, Before
<1> QED
  BY <1>8, <1>9 DEF ControlInv

LEMMA SetAddrControl ==
    ASSUME ControlInv, NEW to, NEW bad, SetAddr(to, bad),
           to \in {"ctrl", "lsb"}, bad \in {"ctrl", "lsb", "zero"}, "lsb" \in {to, bad} => IsBlock(call)
    PROVE  ControlInv'
<1>1. TypeOK /\ LoopInv
  BY DEF ControlInv, GpiodInv
<1> DEFINE p == [pins EXCEPT !.addr = call.addr]
<1>2. Set("addr", "addr", p, to, bad) /\ UNCHANGED <<isInput, lsbVal>>
  BY DEF SetAddr
<1>3. p \in PinStates /\ p.out = pins.out
  BY <1>1, TypeFacts DEF PinStates
<1>4. lsbVal' \in -2 .. 1 /\ to \in Labels /\ bad \in Labels
  BY <1>1, <1>2 DEF TypeOK, Labels
<1> HIDE DEF p
<1>5. GpiodInv' /\ pc = "addr" /\ pc' \in {to, bad} /\ UNCHANGED <<call, q, ret, isInput, wasInput, useEvents, events>>
  BY <1>2, <1>3, <1>4, LineControl
<1>6. LoopInv'
  BY <1>1, <1>5 DEF LoopInv, Before
<1> QED
  BY <1>5, <1>6 DEF ControlInv

LEMMA SetCtrlControl ==
    ASSUME ControlInv, NEW from, NEW bS \in BOOLEAN, NEW bE \in BOOLEAN, NEW to, NEW bad,
           SetCtrl(from, bS, bE, to, bad),
           \/ from = "ctrl" /\ to \in {"request", "addr"} /\ bad \in {"request", "return"}
           \/ from = "blkEnd" /\ to = "toggle" /\ bad \in {"toggle", "lower"}
           \/ from = "zero" /\ to = "return" /\ bad = "return"
    PROVE  ControlInv'
<1>1. TypeOK /\ LoopInv
  BY DEF ControlInv, GpiodInv
<1> DEFINE p == [pins EXCEPT !.blkStart = bS, !.blkEnd = bE]
<1>2. Set("ctrl", from, p, to, bad) /\ UNCHANGED <<isInput, lsbVal>>
  BY DEF SetCtrl
<1>3. p \in PinStates /\ p.out = pins.out
  BY <1>1, TypeFacts DEF PinStates
<1>4. lsbVal' \in -2 .. 1 /\ to \in Labels /\ bad \in Labels
  BY <1>1, <1>2 DEF TypeOK, Labels
<1> HIDE DEF p
<1>5. GpiodInv' /\ pc = from /\ pc' \in {to, bad} /\ UNCHANGED <<call, q, ret, isInput, wasInput, useEvents, events>>
  BY <1>2, <1>3, <1>4, LineControl
<1>6. LoopInv'
  BY <1>1, <1>5, TypeFacts DEF LoopInv, Before
<1> QED
  BY <1>5, <1>6 DEF ControlInv

LEMMA SetReqControl ==
    ASSUME ControlInv, NEW from, NEW val \in BOOLEAN, NEW to, NEW bad,
           SetReq(from, val, to, bad),
           \/ /\ from = "request" /\ to \in {"wait", "lower"} /\ bad \in {"wait", "zero"}
              /\ "wait" \in {to, bad} => IsWrite(call) \/ call.n # 0
           \/ from = "lower" /\ {to, bad} \subseteq {"zero", "return"}
    PROVE  ControlInv'
<1>1. TypeOK /\ LoopInv
  BY DEF ControlInv, GpiodInv
<1> DEFINE p == [pins EXCEPT !.req = val]
<1>2. Set("req", from, p, to, bad) /\ UNCHANGED <<isInput, lsbVal>>
  BY DEF SetReq
<1>3. p \in PinStates /\ p.out = pins.out
  BY <1>1, TypeFacts DEF PinStates
<1>4. lsbVal' \in -2 .. 1 /\ to \in Labels /\ bad \in Labels
  BY <1>1, <1>2 DEF TypeOK, Labels
<1> HIDE DEF p
<1>5. GpiodInv' /\ pc = from /\ pc' \in {to, bad} /\ UNCHANGED <<call, q, ret, isInput, wasInput, useEvents, events>>
  BY <1>2, <1>3, <1>4, LineControl
<1>6. NonEmpty(call).n \in Nat \ {0} /\ NonEmpty(call') = NonEmpty(call)
  BY <1>1, <1>5, TypeFacts
<1>7. LoopInv'
  BY <1>1, <1>5, <1>6, TypeFacts DEF LoopInv, Before
<1> QED
  BY <1>5, <1>7 DEF ControlInv

LEMMA SetLsbControl ==
    ASSUME ControlInv, NEW to, SetLsb(to), to \in {"request", "ctrl"}
    PROVE  ControlInv'
<1>1. TypeOK /\ LoopInv
  BY DEF ControlInv, GpiodInv
<1> DEFINE v == lsbVal' # 0
           p == [pins EXCEPT !.lsb = v]
<1>2. Set("lsb", "lsb", p, to, to) /\ lsbVal' = call.addr % 2 /\ isInput' = isInput
  BY DEF SetLsb, SetUnchecked
<1>3. lsbVal' \in -2 .. 1 /\ to \in Labels
  <2>1. call.addr \in Int
    BY <1>1, CallsAssumption, TypeFacts DEF Addrs
  <2> QED
    BY <1>2, <2>1 DEF Labels
<1>4. v \in BOOLEAN
  OBVIOUS
<1> HIDE DEF v
<1>5. p \in PinStates /\ p.out = pins.out
  BY <1>1, <1>4, TypeFacts DEF PinStates
<1> HIDE DEF p
<1>6. GpiodInv' /\ pc = "lsb" /\ pc' = to /\ UNCHANGED <<call, q, ret, isInput, wasInput, useEvents, events>>
  BY <1>2, <1>3, <1>5, LineControl
<1>7. LoopInv'
  BY <1>1, <1>6 DEF LoopInv, Before
<1> QED
  BY <1>6, <1>7 DEF ControlInv

LEMMA ToggleLsbControl ==
    ASSUME ControlInv, ToggleLsb
    PROVE  ControlInv'
<1>1. TypeOK /\ LoopInv
  BY DEF ControlInv, GpiodInv
<1> DEFINE v == lsbVal' # 0
           p == [pins EXCEPT !.lsb = v]
<1>2. Set("lsb", "toggle", p, "wait", "lower") /\ lsbVal' = -lsbVal - 1 /\ isInput' = isInput
  BY DEF ToggleLsb, Complement
<1>3. lsbVal' \in -2 .. 1 /\ "wait" \in Labels /\ "lower" \in Labels
  <2>1. lsbVal \in -2 .. 1
    BY <1>1 DEF TypeOK
  <2> QED
    BY <1>2, <2>1 DEF Labels
<1>4. v \in BOOLEAN
  OBVIOUS
<1> HIDE DEF v
<1>5. p \in PinStates /\ p.out = pins.out
  BY <1>1, <1>4, TypeFacts DEF PinStates
<1> HIDE DEF p
<1>6. /\ GpiodInv' /\ pc = "toggle" /\ pc' \in {"wait", "lower"}
      /\ UNCHANGED <<call, q, ret, isInput, wasInput, useEvents, events>>
  BY <1>2, <1>3, <1>5, LineControl
<1>7. q < NonEmpty(call).n /\ IsBlock(call) /\ call.n # 0
  BY <1>1, <1>6, TypeFacts DEF LoopInv
<1>8. LoopInv'
  BY <1>1, <1>6, <1>7 DEF LoopInv, Before
<1> QED
  BY <1>6, <1>8 DEF ControlInv
\* The three ways in which the methods wait for op_done.
WaitAs(to) ==
    \/ to = "read" /\ ~IsWrite(call) /\ q' = q
    \/ to = "lower" /\ call.op = "WriteQuadlet" /\ q' = q
    \/ /\ to = IF q + 1 < call.n THEN "data" ELSE "lower"
       /\ call.op = "WriteBlock" /\ q' = q + 1

\* A wait takes at most an event and moves on, or gives up.
LEMMA WaitMoves ==
    ASSUME NEW to, WaitOpDone(to)
    PROVE  /\ pc = "wait" /\ Settled
           /\ UNCHANGED <<pins, fw, rdata, served, version, useEvents, lineOk, call, wasInput,
                          hadEvents, slipped, isInput, lsbVal, buf, ret>>
           /\ \/ OpDoneSeen /\ pc' = to /\ ok' = ok
              \/ pc' = "lower" /\ ok' = FALSE /\ events' = events
BY DEF WaitOpDone, OpDoneMissed, Frame

LEMMA WaitControl ==
    ASSUME ControlInv, NEW to, WaitOpDone(to), WaitAs(to)
    PROVE  ControlInv'
<1>1. TypeOK /\ DirectionKnown /\ LoopInv
  BY DEF ControlInv, GpiodInv
<1>2. /\ pc = "wait" /\ pc' \in {to, "lower"} /\ ok' \in BOOLEAN
      /\ UNCHANGED <<pins, fw, rdata, served, version, useEvents, lineOk, call, wasInput,
                     hadEvents, slipped, isInput, lsbVal, buf, ret>>
  BY <1>1, WaitMoves, TypeFacts
<1>3. events' \in 0 .. EventFifo /\ (events' > 0 => events > 0)
  <2>1. events \in 0 .. EventFifo
    BY <1>1 DEF TypeOK
  <2>2. events' = events \/ (events > 0 /\ events' = events - 1)
    BY WaitMoves DEF OpDoneSeen
  <2> QED
    BY <2>1, <2>2, GpiodAssumption
<1>4. q \in Nat /\ call.n \in Nat /\ q < (IF call.n = 0 THEN 1 ELSE call.n) /\ (call.n = 0 => IsWrite(call))
  BY <1>1, <1>2, TypeFacts DEF LoopInv
<1>5. call.op = "WriteQuadlet" => IsWrite(call) /\ ~IsBlock(call)
  BY DEF IsWrite, Writes, IsBlock, Blocks
<1>6. call.op = "WriteBlock" => IsWrite(call) /\ IsBlock(call)
  BY DEF IsWrite, Writes, IsBlock, Blocks
<1>7. q' \in 0 .. (IF call.n = 0 THEN 1 ELSE call.n) /\ to \in {"read", "data", "lower"}
  BY <1>4 DEF WaitAs
<1>8. TypeOK'
  <2>1. pc' \in Labels
    BY <1>2, <1>7 DEF Labels
  <2> QED
    BY <1>1, <1>2, <1>3, <1>7, <2>1 DEF TypeOK, BusTypeOK
<1>9. LoopInv'
  <2>1. CASE to = "read" /\ ~IsWrite(call) /\ q' = q
    BY <1>1, <1>2, <1>3, <1>4, <2>1, TypeFacts DEF LoopInv, Before
  <2>2. CASE to = "lower" /\ call.op = "WriteQuadlet" /\ q' = q
    BY <1>1, <1>2, <1>3, <1>4, <1>5, <2>2, TypeFacts DEF LoopInv, Before
  <2>3. CASE call.op = "WriteBlock" /\ q' = q + 1 /\ to = IF q + 1 < call.n THEN "data" ELSE "lower"
    BY <1>1, <1>2, <1>3, <1>4, <1>6, <2>3, TypeFacts DEF LoopInv, Before
  <2> QED
    BY <2>1, <2>2, <2>3 DEF WaitAs
<1> QED
  BY <1>1, <1>2, <1>8, <1>9 DEF ControlInv, GpiodInv, DirectionKnown

\* The two ways in which the methods read the data lines.
ReadAs(to) ==
    \/ to = "lower" /\ call.op = "ReadQuadlet"
    \/ /\ to = IF q + 1 < call.n THEN BlkEndIfLast(q + 2) ELSE "lower"
       /\ call.op = "ReadBlock"

LEMMA GetDataControl ==
    ASSUME ControlInv, NEW to, GetData(to), ReadAs(to)
    PROVE  ControlInv'
<1>1. TypeOK /\ DirectionKnown /\ LoopInv
  BY DEF ControlInv, GpiodInv
<1>2. /\ pc = "read" /\ pc' \in {to, "lower"} /\ ok' \in {ok, FALSE}
      /\ buf' \in {buf, Append(buf, OnBus(call, rdata))}
      /\ q' = IF IsBlock(call) THEN q + 1 ELSE q
      /\ UNCHANGED <<pins, fw, rdata, served, version, useEvents, lineOk, call, wasInput,
                     hadEvents, slipped, isInput, lsbVal, events, ret>>
  BY DEF GetData, Frame
<1>3. q < call.n /\ ~IsWrite(call) /\ q \in Nat /\ call.n \in Nat
  BY <1>1, <1>2, TypeFacts DEF LoopInv
<1>4. /\ call.op = "ReadQuadlet" => ~IsBlock(call)
      /\ call.op = "ReadBlock" => IsBlock(call)
  BY DEF IsBlock, Blocks
<1>5. buf' \in Seq(Quads) /\ ok' \in BOOLEAN
  <2>1. OnBus(call, rdata) \in Quads /\ buf \in Seq(Quads)
    BY <1>1, TypeFacts, OnBusType
  <2>2. Append(buf, OnBus(call, rdata)) \in Seq(Quads)
    BY <2>1
  <2>3. ok \in BOOLEAN
    BY <1>1, TypeFacts
  <2> QED
    BY <1>2, <2>1, <2>2, <2>3
<1>6. /\ to \in {"lower", "blkEnd", "toggle"}
      /\ to # "lower" => IsBlock(call) /\ q + 1 < call.n /\ (to = "blkEnd" => q + 2 = call.n)
  BY <1>4 DEF ReadAs, BlkEndIfLast
<1>7. TypeOK'
  <2>1. pc' \in Labels
    BY <1>2, <1>6 DEF Labels
  <2>2. q' \in 0 .. (IF call.n = 0 THEN 1 ELSE call.n)
    BY <1>2, <1>3
  <2> QED
    BY <1>1, <1>2, <1>5, <2>1, <2>2 DEF TypeOK, BusTypeOK
<1>8. LoopInv'
  BY <1>1, <1>2, <1>3, <1>6, TypeFacts DEF LoopInv, Before
<1> QED
  BY <1>1, <1>2, <1>7, <1>8 DEF ControlInv, GpiodInv, DirectionKnown

LEMMA ReturnControl ==
    ASSUME ControlInv, Return
    PROVE  ControlInv'
<1>1. TypeOK /\ DirectionKnown /\ LoopInv
  BY DEF ControlInv, GpiodInv
<1>2. /\ pc' = "ready" /\ ret' \in {"true", "false"}
      /\ UNCHANGED <<pins, fw, rdata, served, version, useEvents, lineOk, call, wasInput,
                     hadEvents, slipped, isInput, lsbVal, events, buf, ok, q>>
      /\ pc = "return"
  BY DEF Return, Frame
<1>3. TypeOK'
  BY <1>1, <1>2 DEF TypeOK, BusTypeOK, Labels
<1>4. LoopInv'
  BY <1>1, <1>2 DEF LoopInv, Before
<1> QED
  BY <1>1, <1>2, <1>3, <1>4 DEF ControlInv, GpiodInv, DirectionKnown

LEMMA EnterControl ==
    ASSUME ControlInv, Enter
    PROVE  ControlInv'
<1>1. TypeOK /\ DirectionKnown /\ LoopInv
  BY DEF ControlInv, GpiodInv
<1>2. /\ call' \in Calls /\ q' = 0 /\ buf' = <<>> /\ ok' = TRUE /\ served' = <<>>
      /\ wasInput' = isInput /\ hadEvents' = (events > 0) /\ slipped' = ~Quiet
      /\ pc' \in {"ready", "dir"} /\ ret' \in {"none", "false"} /\ (pc' # "ready" => ret' = "none")
      /\ UNCHANGED <<pins, fw, rdata, version, useEvents, lineOk, isInput, lsbVal, events>>
  BY DEF Enter
<1>3. call'.n \in Nat
  BY <1>2, CallFacts
<1>4. TypeOK'
  <2>1. BusTypeOK'
    BY <1>1, <1>2 DEF TypeOK, BusTypeOK
  <2>2. q' \in 0 .. (IF call'.n = 0 THEN 1 ELSE call'.n) /\ buf' \in Seq(Quads) /\ pc' \in Labels
    BY <1>2, <1>3 DEF Labels
  <2>3. wasInput' \in BOOLEAN /\ hadEvents' \in BOOLEAN /\ slipped' \in BOOLEAN /\ ok' \in BOOLEAN
    BY <1>1, <1>2, TypeFacts
  <2> QED
    BY <1>1, <1>2, <2>1, <2>2, <2>3 DEF TypeOK
<1>5. LoopInv'
  BY <1>1, <1>2 DEF LoopInv, Before
<1> QED
  BY <1>1, <1>2, <1>4, <1>5 DEF ControlInv, GpiodInv, DirectionKnown

LEMMA SetEventModeControl ==
    ASSUME ControlInv, SetEventMode
    PROVE  ControlInv'
<1>1. TypeOK /\ DirectionKnown /\ LoopInv
  BY DEF ControlInv, GpiodInv
<1>2. /\ useEvents' \in BOOLEAN /\ lineOk' \in BOOLEAN /\ events' = 0
      /\ UNCHANGED <<pins, fw, rdata, served, version, isInput, pc, call, q, lsbVal, buf, ok,
                     ret, wasInput, hadEvents, slipped>>
  BY DEF SetEventMode, busVars
<1>3. TypeOK'
  BY <1>1, <1>2, GpiodAssumption DEF TypeOK, BusTypeOK
<1> QED
  BY <1>1, <1>2, <1>3 DEF ControlInv, GpiodInv, DirectionKnown, LoopInv

LEMMA FabricControl ==
    ASSUME ControlInv, Fabric
    PROVE  ControlInv'
<1>1. TypeOK /\ DirectionKnown /\ LoopInv
  BY DEF ControlInv, GpiodInv
<1>2. UNCHANGED <<pins, hostVars>>
  BY DEF Fabric, FwAccept, FwServe, FwServeAs, FwNext, FwRelease
<1>3. fw' \in FwStates
  <2>1. (fw.addr + 1) % AddrSpace \in Addrs
    <3>1. fw.addr + 1 \in Int /\ AddrSpace \in Nat \ {0}
      BY <1>1, TypeFacts, CallsAssumption DEF Addrs
    <3> QED
      BY <3>1, ModSucc DEF Addrs
  <2> QED
    BY <1>1, <2>1, TypeFacts DEF Fabric, FwAccept, FwServe, FwServeAs, FwNext, FwRelease, FwStates
<1>4. events' \in 0 .. EventFifo /\ (events' > 0 => useEvents)
  <2>1. events \in 0 .. EventFifo /\ EventFifo \in Nat
    BY <1>1, GpiodAssumption DEF TypeOK
  <2> QED
    BY <1>1, <2>1 DEF Fabric, EdgeEvent, LoopInv
<1>5. rdata' \in Quads /\ served' \in Seq(Quadlets)
  <2>1. CASE FwServe
    <3>1. PICK v \in IF pins.out THEN {pins.wdata} ELSE Quads :
             /\ rdata' = IF pins.out THEN rdata ELSE v
             /\ served' = Append(served, [addr |-> fw.addr, write |-> pins.out, val |-> v,
                                          blkStart |-> pins.blkStart, blkEnd |-> pins.blkEnd])
      BY <2>1 DEF FwServe, FwServeAs
    <3>2. v \in Quads
      BY <1>1, <3>1, TypeFacts
    <3>3. [addr |-> fw.addr, write |-> pins.out, val |-> v,
           blkStart |-> pins.blkStart, blkEnd |-> pins.blkEnd] \in Quadlets
      BY <1>1, <3>2, TypeFacts DEF Quadlets
    <3> QED
      BY <1>1, <3>1, <3>2, <3>3, TypeFacts
  <2>2. CASE FwAccept \/ FwNext \/ FwRelease
    BY <1>1, <2>2, TypeFacts DEF FwAccept, FwNext, FwRelease
  <2> QED
    BY <2>1, <2>2 DEF Fabric
<1>6. TypeOK'
  <2>1. BusTypeOK'
    BY <1>1, <1>2, <1>3, <1>5 DEF TypeOK, BusTypeOK
  <2> QED
    BY <1>1, <1>2, <1>4, <2>1 DEF TypeOK, hostVars
<1> QED
  BY <1>1, <1>2, <1>4, <1>6 DEF ControlInv, GpiodInv, DirectionKnown, LoopInv, hostVars

\* What the four methods are, apart from the order of their accesses.
LEMMA MethodFacts ==
    /\ ReadQuadlet  => ~IsWrite(call) /\ ~IsBlock(call)
    /\ WriteQuadlet => IsWrite(call) /\ ~IsBlock(call)
    /\ ReadBlock    => ~IsWrite(call) /\ IsBlock(call)
    /\ WriteBlock   => IsWrite(call) /\ IsBlock(call)
BY DEF ReadQuadlet, WriteQuadlet, ReadBlock, WriteBlock, IsWrite, Writes, IsBlock, Blocks

LEMMA ReadQuadletControl ==
    ASSUME ControlInv, ReadQuadlet
    PROVE  ControlInv'
<1>1. ~IsWrite(call) /\ ~IsBlock(call) /\ call.n = 1 /\ call.op = "ReadQuadlet"
  BY MethodFacts, TypeFacts DEF ReadQuadlet, ControlInv, GpiodInv
<1>2. CASE SetInput("addr")
  BY <1>2, SetInputControl
<1>3. CASE SetAddr("ctrl", "ctrl")
  BY <1>3, SetAddrControl
<1>4. CASE SetCtrl("ctrl", FALSE, FALSE, "request", "request")
  BY <1>4, SetCtrlControl
<1>5. CASE SetReq("request", TRUE, "wait", "wait")
  <2>1. call.n # 0
    BY <1>1
  <2> QED
    BY <1>5, <2>1, SetReqControl
<1>6. CASE WaitOpDone("read") /\ q' = q
  BY <1>1, <1>6, WaitControl DEF WaitAs
<1>7. CASE GetData("lower")
  BY <1>1, <1>7, GetDataControl DEF ReadAs
<1>8. CASE SetReq("lower", FALSE, "return", "return")
  BY <1>8, SetReqControl
<1> QED
  BY <1>2, <1>3, <1>4, <1>5, <1>6, <1>7, <1>8, ReturnControl DEF ReadQuadlet

LEMMA WriteQuadletControl ==
    ASSUME ControlInv, WriteQuadlet
    PROVE  ControlInv'
<1>1. IsWrite(call) /\ ~IsBlock(call) /\ call.op = "WriteQuadlet"
  BY MethodFacts DEF WriteQuadlet
<1>2. CASE SetOutput("setData", [pins EXCEPT !.wdata = DataOnBus])
  <2>1. TypeOK /\ pc = "dir" /\ call.n = 1
    BY <1>1, <1>2, TypeFacts DEF ControlInv, GpiodInv, SetOutput, SetUnchecked, Set
  <2>2. DataOnBus \in Quads
    BY <1>1, <2>1, FirstOnBusType
  <2>3. /\ [pins EXCEPT !.wdata = DataOnBus] \in PinStates
        /\ [pins EXCEPT !.wdata = DataOnBus].out = pins.out
    BY <2>1, <2>2, TypeFacts DEF PinStates
  <2> QED
    BY <1>1, <1>2, <2>3, SetOutputControl
<1>3. CASE SetAddr("ctrl", "ctrl")
  BY <1>3, SetAddrControl
<1>4. CASE SetCtrl("ctrl", FALSE, TRUE, "request", "request")
  BY <1>4, SetCtrlControl
<1>5. CASE SetReq("request", TRUE, "wait", "wait")
  BY <1>1, <1>5, SetReqControl
<1>6. CASE WaitOpDone("lower") /\ q' = q
  BY <1>1, <1>6, WaitControl DEF WaitAs
<1>7. CASE SetReq("lower", FALSE, "zero", "zero")
  BY <1>7, SetReqControl
<1>8. CASE SetCtrl("zero", FALSE, FALSE, "return", "return")
  BY <1>8, SetCtrlControl
<1> QED
  BY <1>1, <1>2, <1>3, <1>4, <1>5, <1>6, <1>7, <1>8, ReturnControl DEF WriteQuadlet

LEMMA ReadBlockControl ==
    ASSUME ControlInv, ReadBlock
    PROVE  ControlInv'
<1>1. ~IsWrite(call) /\ IsBlock(call) /\ call.op = "ReadBlock"
  BY MethodFacts DEF ReadBlock
<1>2. CASE SetInput("ctrl")
  BY <1>2, SetInputControl
<1>3. CASE SetCtrl("ctrl", TRUE, FALSE, "addr", "return")
  BY <1>3, SetCtrlControl
<1>4. CASE SetAddr("lsb", "zero")
  BY <1>1, <1>4, SetAddrControl
<1>5. CASE SetLsb("request")
  BY <1>5, SetLsbControl
<1>6. CASE SetReq("request", TRUE, IF call.n = 0 THEN "lower" ELSE "wait", "zero")
  BY <1>6, SetReqControl
<1>7. CASE SetCtrl("blkEnd", FALSE, TRUE, "toggle", "lower")
  BY <1>7, SetCtrlControl
<1>8. CASE WaitOpDone("read") /\ q' = q
  BY <1>1, <1>8, WaitControl DEF WaitAs
<1>9. CASE GetData(IF q + 1 < call.n THEN BlkEndIfLast(q + 2) ELSE "lower")
  BY <1>1, <1>9, GetDataControl DEF ReadAs
<1>10. CASE SetReq("lower", FALSE, "zero", "zero")
  BY <1>10, SetReqControl
<1>11. CASE SetCtrl("zero", FALSE, FALSE, "return", "return")
  BY <1>11, SetCtrlControl
<1> QED
  BY <1>2, <1>3, <1>4, <1>5, <1>6, <1>7, <1>8, <1>9, <1>10, <1>11, ToggleLsbControl,
     ReturnControl DEF ReadBlock

LEMMA WriteBlockControl ==
    ASSUME ControlInv, WriteBlock
    PROVE  ControlInv'
<1>1. IsWrite(call) /\ IsBlock(call) /\ call.op = "WriteBlock"
  BY MethodFacts DEF WriteBlock
<1>2. CASE SetOutput("none", pins)
  BY <1>1, <1>2, SetOutputControl, TypeFacts DEF ControlInv, GpiodInv
<1>3. CASE SetAddr("lsb", "lsb")
  BY <1>1, <1>3, SetAddrControl
<1>4. CASE SetLsb("ctrl")
  BY <1>4, SetLsbControl
<1>5. CASE SetCtrl("ctrl", TRUE, FALSE, "request", "request")
  BY <1>5, SetCtrlControl
<1>6. CASE SetReq("request", TRUE, "wait", "wait")
  BY <1>1, <1>6, SetReqControl
<1>7. CASE WaitOpDone(IF q + 1 < call.n THEN "data" ELSE "lower") /\ q' = q + 1
  BY <1>1, <1>7, WaitControl DEF WaitAs
<1>8. CASE SetCtrl("blkEnd", FALSE, TRUE, "toggle", "toggle")
  BY <1>8, SetCtrlControl
<1>9. CASE SetReq("lower", FALSE, "zero", "zero")
  BY <1>9, SetReqControl
<1>10. CASE SetCtrl("zero", FALSE, FALSE, "return", "return")
  BY <1>10, SetCtrlControl
<1> QED
  BY <1>1, <1>2, <1>3, <1>4, <1>5, <1>6, <1>7, <1>8, <1>9, <1>10, SetDataControl,
     ToggleLsbControl, ReturnControl DEF WriteBlock

LEMMA InitControl == Init => ControlInv
<1> SUFFICES ASSUME Init PROVE ControlInv
  OBVIOUS
<1>1. call \in Calls /\ call.op = "ReadQuadlet" /\ call.n = 1
  BY CallFacts DEF Init, IsBlock, Blocks
<1>2. 0 \in Addrs
  BY CallsAssumption DEF Addrs
<1>3. BusTypeOK
  <2>1. pins \in PinStates
    BY <1>2 DEF Init, BusInit, PinStates
  <2>2. fw \in FwStates
    BY <1>2 DEF Init, BusInit, FwStates
  <2> QED
    BY <2>1, <2>2 DEF Init, BusInit, BusTypeOK
<1>4. TypeOK
  <2>1. events \in 0 .. EventFifo /\ q \in 0 .. (IF call.n = 0 THEN 1 ELSE call.n)
    BY <1>1, GpiodAssumption DEF Init
  <2>2. {isInput, useEvents, lineOk, ok, wasInput, hadEvents, slipped} \subseteq BOOLEAN
    BY DEF Init
  <2>3. version \in {0, 1} /\ pc \in Labels /\ lsbVal \in -2 .. 1 /\ buf \in Seq(Quads) /\ ret = "none"
    BY DEF Init, Labels
  <2> QED
    BY <1>1, <1>3, <2>1, <2>2, <2>3 DEF TypeOK
<1>5. DirectionKnown
  BY DEF Init, BusInit, DirectionKnown
<1>6. LoopInv
  BY DEF Init, LoopInv, Before
<1> QED
  BY <1>4, <1>5, <1>6 DEF ControlInv, GpiodInv

LEMMA NextControl ==
    ASSUME ControlInv, [Next]_vars
    PROVE  ControlInv'
<1>1. CASE UNCHANGED vars
  BY <1>1 DEF vars, busVars, hostVars, ControlInv, GpiodInv, TypeOK, BusTypeOK,
     DirectionKnown, LoopInv
<1> QED
  BY <1>1, EnterControl, SetEventModeControl, FabricControl, ReadQuadletControl,
     WriteQuadletControl, ReadBlockControl, WriteBlockControl DEF Next, Driver

\* Whatever fails, the driver's flag for the direction of the data lines stays right,
\* the loops stay within their blocks and the kernel's queue of events within its
\* length. This needs no assumption about the firmware's speed or about Faulty.
THEOREM ControlInvariant == Spec => []ControlInv
<1>1. ControlInv /\ [Next]_vars => ControlInv'
  BY NextControl
<1> QED
  BY <1>1, InitControl, PTL DEF Spec

\* In particular, types and what isInput says of the direction of the data lines
\* between calls hold whatever libgpiod refuses and however slow the firmware is.
THEOREM GpiodInvariant == Spec => []GpiodInv
<1>1. ControlInv => GpiodInv
  BY DEF ControlInv
<1> QED
  BY <1>1, ControlInvariant, PTL
-----------------------------------------------------------------------------
(* CallInv, with a prompt firmware. A call that has not slipped has looked *)
(* at every failure that it met.                                           *)

\* The libgpiod call failed, and the driver has noticed.
Refused(to, bad) == bad # to /\ pins' = pins /\ pc' = bad /\ ok' = FALSE

\* In a call that has not slipped the lines are set, or the driver knows that they
\* are not.
LEMMA SetCases ==
    ASSUME ~slipped', NEW kind, NEW from, NEW p, NEW to, NEW bad,
           Set(kind, from, p, to, bad)
    PROVE  /\ pc = from /\ Settled /\ ~slipped
           /\ UNCHANGED <<fw, rdata, served, version, useEvents, lineOk, call, wasInput,
                          hadEvents, events, q, buf, ret>>
           /\ Refused(to, bad) \/ (pc' = to /\ pins' = p /\ ok' = ok)
<1>1. /\ pc = from /\ Settled
      /\ UNCHANGED <<fw, rdata, served, version, useEvents, lineOk, call, wasInput,
                     hadEvents, events, q, buf, ret>>
  BY DEF Set, Frame
<1>2. CASE pins' = p /\ pc' = to /\ UNCHANGED <<ok, slipped>>
  BY <1>1, <1>2
<1>3. CASE pins' = pins /\ pc' = bad /\ ok' = (ok /\ bad = to) /\ slipped' = (slipped \/ bad = to)
  <2>1. bad # to /\ ~slipped
    BY <1>3
  <2>2. ok' = FALSE
    BY <1>3, <2>1
  <2> QED
    BY <1>1, <1>3, <2>1, <2>2 DEF Refused
<1> QED
  BY <1>2, <1>3 DEF Set

\* A step that leaves the history and the call alone.
LEMMA HistoryKept ==
    ASSUME OnlyAsked, Within, Framed, UNCHANGED <<served, call, wasInput, hadEvents>>
    PROVE  OnlyAsked' /\ Within' /\ Framed'
BY DEF OnlyAsked, Within, Framed, Mishandled, BlkStart, BlkEnd

\* Before the bus is requested nothing has happened on it.
LEMMA SetupFacts ==
    ASSUME CallInv, pc \in Before
    PROVE  ~pins.req /\ fw.st = "idle" /\ served = <<>> /\ q = 0 /\ (~hadEvents => events = 0)
BY TypeFacts DEF CallInv, ControlInv, GpiodInv, LoopInv, DriverInv, FirmwareInv, InStep, Requested, Before

LEMMA SetupStep ==
    ASSUME CallInv, pc \in Before,
           \/ pc' \in Before
           \/ pc' \in {"zero", "return"} /\ ok' = FALSE,
           pins'.req = pins.req,
           UNCHANGED <<fw, rdata, served, call, wasInput, hadEvents, events, q, buf, ret, useEvents>>
    PROVE  FirmwareInv' /\ InStep' /\ Served' /\ Delivered' /\ OnlyAsked' /\ Within' /\ Framed'
<1>1. TypeOK /\ FirmwareInv /\ InStep /\ Delivered /\ OnlyAsked /\ Within /\ Framed
  BY DEF CallInv, ControlInv, GpiodInv
<1>2. ~pins.req /\ fw.st = "idle" /\ served = <<>> /\ q = 0 /\ (~hadEvents => events = 0)
  BY SetupFacts
<1>3. ~Ended'
  BY DEF Ended, Succeeded, Before
<1>4. FirmwareInv' /\ InStep' /\ Served'
  BY <1>1, <1>2, <1>3 DEF FirmwareInv, InStep, Served, OpDone, Before
<1>5. Delivered'
  BY <1>1, <1>2, <1>3 DEF Delivered, Mishandled, Before
<1> QED
  BY <1>1, <1>4, <1>5, HistoryKept

\* With nothing requested, only the lines that the next quadlet needs matter.
LEMMA SetupLines ==
    ASSUME CallInv, pc \in Before, pins'.req = pins.req, fw' = fw,
           \/ /\ pc' \in Before
              /\ pc' # "dir" => Written(1)'
              /\ pc' = "request" \/ (pc' \in {"addr", "lsb"} /\ ~IsWrite(call')) => Framing(1)'
           \/ pc' \in {"zero", "return"}
    PROVE  LinesInv'
<1>1. ~pins.req /\ fw.st = "idle"
  BY SetupFacts
<1> QED
  BY <1>1 DEF LinesInv, Pending, Before

\* The driver gives up: it takes down what it has put up, without a further step of
\* the call.
LEMMA GiveUpStep ==
    ASSUME ~slipped', CallInv, ControlInv', pins' = pins, ok' = FALSE,
           \/ pc = "addr" /\ pc' = "zero" /\ lsbVal' = lsbVal
           \/ pc = "ctrl" /\ pc' = "return" /\ call.op = "ReadBlock" /\ lsbVal' = lsbVal
           \/ pc = "request" /\ pc' = "zero" /\ call.op # "ReadQuadlet" /\ lsbVal' = lsbVal
           \/ pc = "blkEnd" /\ pc' = "lower" /\ lsbVal' = lsbVal
           \/ pc = "toggle" /\ pc' = "lower" /\ lsbVal' = -lsbVal - 1,
           pc = "addr" => IsBlock(call),
           UNCHANGED <<fw, rdata, served, call, wasInput, hadEvents, events, q, buf, ret, useEvents>>
    PROVE  CallInv'
<1>1. TypeOK /\ LoopInv /\ DriverInv /\ FirmwareInv /\ InStep /\ Served /\ LinesInv /\ Delivered
      /\ OnlyAsked /\ Within /\ Framed
  BY DEF CallInv, ControlInv, GpiodInv
<1>2. Odd' = Odd /\ Stuck' = Stuck /\ At' = At /\ Pending' = Pending /\ ~Ended'
  BY DEF Odd, Stuck, At, Pending, Ended, Succeeded
<1>3. CASE pc \in {"addr", "ctrl", "request"}
  <2>1. pc \in Before /\ ~pins.req /\ fw.st = "idle" /\ pc' \in {"zero", "return"}
    BY <1>3, SetupFacts DEF Before
  <2>2. pc' = "zero" => call.op # "ReadQuadlet"
    BY <1>3 DEF IsBlock, Blocks
  <2>3. DriverInv'
    BY <1>1, <1>3, <2>1, <2>2 DEF DriverInv, Requested
  <2>4. FirmwareInv' /\ InStep' /\ Served' /\ Delivered' /\ OnlyAsked' /\ Within' /\ Framed'
    BY <2>1, SetupStep
  <2>5. LinesInv'
    BY <2>1, SetupLines
  <2> QED
    BY <2>3, <2>4, <2>5 DEF CallInv
<1>4. CASE pc \in {"blkEnd", "toggle"}
  <2>1. /\ pc' = "lower" /\ IsBlock(call) /\ call.op # "ReadQuadlet"
        /\ q \in 1 .. call.n - 1 /\ call.n \in Nat /\ q \in Nat /\ NonEmpty(call).n = call.n
    BY <1>1, <1>4, TypeFacts DEF LoopInv, IsBlock, Blocks
  <2>2. Asked = q /\ Asked' = call.n
    BY <1>4, <2>1 DEF Asked, Before
  <2>3. DriverInv'
    <3>1. lsbVal \in (IF Odd THEN {1, -2} ELSE {0, -1}) /\ (pins.lsb <=> lsbVal # 0)
      BY <1>1, <1>4, <2>1 DEF DriverInv, Requested
    <3>2. CASE Odd
      <4>1. lsbVal \in {1, -2} /\ lsbVal' \in {1, -2}
        BY <1>4, <3>1, <3>2
      <4>2. (lsbVal' # 0 <=> lsbVal # 0) /\ lsbVal' \in (IF Odd THEN {1, -2} ELSE {0, -1})
        BY <3>2, <4>1
      <4> QED
        BY <1>1, <1>2, <1>4, <2>1, <3>1, <4>2 DEF DriverInv, Requested
    <3>3. CASE ~Odd
      <4>1. lsbVal' \in (IF Odd THEN {1, -2} ELSE {0, -1})
        BY <1>4, <3>1, <3>3
      <4> QED
        BY <1>1, <1>2, <1>4, <2>1, <3>3, <4>1 DEF DriverInv, Requested
    <3> QED
      BY <3>2, <3>3
  <2>4. FirmwareInv'
    BY <1>1, <1>2, <1>4, <2>1, <2>2, TypeFacts DEF FirmwareInv, Before
  <2>5. InStep' /\ Served'
    BY <1>1, <1>2, <1>4, <2>1 DEF InStep, Served, OpDone, Before
  <2>6. LinesInv'
    BY <1>1, <1>2, <1>4, <2>1 DEF LinesInv, Framing, Written, Mishandled, Before,
       BlkStart, BlkEnd
  <2>7. Delivered'
    BY <1>1, <1>2, <1>4, <2>1 DEF Delivered, Mishandled, Before
  <2> QED
    BY <1>1, <2>3, <2>4, <2>5, <2>6, <2>7, HistoryKept DEF CallInv
<1> QED
  BY <1>3, <1>4

LEMMA SetInputStep ==
    ASSUME ~slipped', CallInv, ControlInv', NEW to, SetInput(to), ~IsWrite(call),
           \/ to = "addr" /\ ~IsBlock(call)
           \/ to = "ctrl" /\ call.op = "ReadBlock"
    PROVE  CallInv'
<1>1. TypeOK /\ DirectionKnown /\ DriverInv
  BY DEF CallInv, ControlInv, GpiodInv
<1>2. /\ pc = "dir"
      /\ UNCHANGED <<fw, rdata, served, call, wasInput, hadEvents, events, q, buf, ret, useEvents, lsbVal>>
      /\ pc' = to \/ (pc' = "return" /\ ok' = FALSE)
      /\ pins' = [pins EXCEPT !.out = FALSE] \/ (pins' = pins /\ (isInput \/ pc' = "return"))
  BY DEF SetInput, Set, Frame
<1>3. /\ pins'.req = pins.req /\ pins'.blkEnd = pins.blkEnd
      /\ ~pins'.out \/ pc' = "return"
  BY <1>1, <1>2, TypeFacts DEF DirectionKnown, PinStates
<1>4. ~pins.req /\ fw.st = "idle" /\ pc \in Before
  BY <1>2, SetupFacts DEF Before
<1>5. DriverInv'
  BY <1>1, <1>2, <1>3, <1>4, TypeFacts DEF DriverInv, Requested
<1>6. LinesInv'
  BY <1>2, <1>3, <1>4, SetupLines DEF Framing, Written, IsBlock, Blocks, Before,
     BlkStart, BlkEnd
<1>7. FirmwareInv' /\ InStep' /\ Served' /\ Delivered' /\ OnlyAsked' /\ Within' /\ Framed'
  BY <1>2, <1>3, <1>4, SetupStep DEF Before
<1> QED
  BY <1>5, <1>6, <1>7 DEF CallInv

LEMMA SetOutputStep ==
    ASSUME ~slipped', CallInv, ControlInv', NEW kind, NEW p, SetOutput(kind, p), IsWrite(call),
           kind \in {"setData", "none"}, p.out = pins.out, p.req = pins.req,
           p.blkEnd = pins.blkEnd, ~isInput /\ ~Mishandled => p.wdata = DataOnBus
    PROVE  CallInv'
<1>1. TypeOK /\ DirectionKnown /\ DriverInv /\ LoopInv
  BY DEF CallInv, ControlInv, GpiodInv
<1>2. /\ pc = "dir"
      /\ UNCHANGED <<fw, rdata, served, call, wasInput, hadEvents, events, q, buf, ret, useEvents, lsbVal>>
      /\ pc' = "addr" \/ (pc' = "return" /\ ok' = FALSE)
  BY DEF SetOutput, SetUnchecked, Set, Frame
<1>3. ~pins.req /\ fw.st = "idle" /\ q = 0 /\ pc \in Before
  BY <1>2, SetupFacts DEF Before
<1>4. /\ pins'.req = pins.req /\ pins'.blkEnd = pins.blkEnd
      /\ pc' = "addr" => pins'.out /\ (~Mishandled => pins'.wdata = DataOnBus)
  <2>1. CASE ~isInput
    <3>1. pins' = p
      BY <2>1, SetCases DEF SetOutput, SetUnchecked, Refused
    <3> QED
      BY <1>1, <2>1, <3>1, TypeFacts DEF DirectionKnown
  <2>2. CASE isInput
    <3>1. PICK v \in FirstOnBus :
            Set("direction", "dir", [pins EXCEPT !.out = TRUE, !.wdata = v], "addr", "return")
      BY <2>2 DEF SetOutput
    <3>2. ~Mishandled => v = DataOnBus
      BY <3>1 DEF FirstOnBus, Mishandled
    <3>3. (pins' = [pins EXCEPT !.out = TRUE, !.wdata = v]) \/ (pins' = pins /\ pc' = "return")
      BY <3>1 DEF Set
    <3> QED
      BY <1>1, <3>2, <3>3, TypeFacts DEF PinStates
  <2> QED
    BY <2>1, <2>2
<1>5. DriverInv'
  BY <1>1, <1>2, <1>3, <1>4, TypeFacts DEF DriverInv, Requested
<1>6. pc' = "addr" => Written(1)'
  BY <1>2, <1>3, <1>4 DEF Written, DataOnBus, Mishandled
<1>7. LinesInv'
  BY <1>2, <1>3, <1>4, <1>6, SetupLines DEF Before
<1>8. FirmwareInv' /\ InStep' /\ Served' /\ Delivered' /\ OnlyAsked' /\ Within' /\ Framed'
  BY <1>2, <1>3, <1>4, SetupStep DEF Before
<1> QED
  BY <1>5, <1>7, <1>8 DEF CallInv

LEMMA SetAddrStep ==
    ASSUME ~slipped', CallInv, ControlInv', NEW to, NEW bad, SetAddr(to, bad),
           \/ to = "ctrl" /\ ~IsBlock(call) /\ bad = to
           \/ to = "lsb" /\ IsBlock(call) /\ bad \in {to, "zero"}
    PROVE  CallInv'
<1>0. CASE Refused(to, bad)
  BY <1>0, SetCases, GiveUpStep DEF Refused, SetAddr
<1> SUFFICES ASSUME ~Refused(to, bad) PROVE CallInv'
  BY <1>0
<1>1. TypeOK /\ DriverInv /\ LinesInv
  BY DEF CallInv, ControlInv, GpiodInv
<1>2. /\ pc = "addr" /\ pc' = to /\ lsbVal' = lsbVal
      /\ UNCHANGED <<fw, rdata, served, call, wasInput, hadEvents, events, q, buf, ret, useEvents>>
      /\ pins' = [pins EXCEPT !.addr = call.addr]
  BY SetCases DEF SetAddr
<1>3. /\ pins'.addr = call.addr /\ pins'.req = pins.req /\ pins'.out = pins.out
      /\ pins'.wdata = pins.wdata /\ pins'.blkStart = pins.blkStart /\ pins'.blkEnd = pins.blkEnd
  BY <1>1, <1>2, TypeFacts DEF PinStates
<1>4. ~pins.req /\ fw.st = "idle" /\ pc \in Before
  BY <1>2, SetupFacts DEF Before
<1>5. DriverInv'
  BY <1>1, <1>2, <1>3, <1>4 DEF DriverInv, Requested, IsBlock, Blocks
<1>6. Written(1)' /\ (~IsWrite(call) => Framing(1)')
  BY <1>1, <1>2, <1>3 DEF LinesInv, Before, Written, Framing, Mishandled, BlkStart, BlkEnd
<1>7. LinesInv'
  BY <1>2, <1>3, <1>4, <1>6, SetupLines DEF Before
<1>8. FirmwareInv' /\ InStep' /\ Served' /\ Delivered' /\ OnlyAsked' /\ Within' /\ Framed'
  BY <1>2, <1>3, <1>4, SetupStep DEF Before
<1> QED
  BY <1>5, <1>7, <1>8 DEF CallInv

LEMMA SetLsbStep ==
    ASSUME ~slipped', CallInv, ControlInv', NEW to, SetLsb(to),
           \/ to = "request" /\ call.op = "ReadBlock"
           \/ to = "ctrl" /\ call.op = "WriteBlock"
    PROVE  CallInv'
<1>1. TypeOK /\ DriverInv /\ LinesInv
  BY DEF CallInv, ControlInv, GpiodInv
<1>2. /\ pc = "lsb" /\ pc' = to /\ lsbVal' = call.addr % 2
      /\ UNCHANGED <<fw, rdata, served, call, wasInput, hadEvents, events, q, buf, ret, useEvents>>
      /\ pins' = [pins EXCEPT !.lsb = (lsbVal' # 0)]
  BY SetCases DEF SetLsb, SetUnchecked, Refused
<1>3. /\ pins'.lsb = (lsbVal' # 0) /\ pins'.req = pins.req /\ pins'.out = pins.out
      /\ pins'.addr = pins.addr /\ pins'.wdata = pins.wdata
      /\ pins'.blkStart = pins.blkStart /\ pins'.blkEnd = pins.blkEnd
  <2> DEFINE v == lsbVal' # 0
  <2>1. v \in BOOLEAN /\ pins' = [pins EXCEPT !.lsb = v]
    BY <1>2
  <2> HIDE DEF v
  <2>2. /\ pins'.lsb = v /\ pins'.req = pins.req /\ pins'.out = pins.out
        /\ pins'.addr = pins.addr /\ pins'.wdata = pins.wdata
        /\ pins'.blkStart = pins.blkStart /\ pins'.blkEnd = pins.blkEnd
    BY <1>1, <2>1, TypeFacts DEF PinStates
  <2> QED
    BY <2>2 DEF v
<1>4. ~pins.req /\ fw.st = "idle" /\ pc \in Before
  BY <1>2, SetupFacts DEF Before
<1>5. lsbVal' \in IF Odd THEN {1, -2} ELSE {0, -1}
  <2>1. call.addr \in Int
    BY <1>1, CallsAssumption, TypeFacts DEF Addrs
  <2> QED
    BY <1>2, <2>1 DEF Odd
<1>6. Odd' = Odd
  BY <1>2 DEF Odd
<1>7. DriverInv'
  <2>1. (lsbVal \in IF Odd THEN {1, -2} ELSE {0, -1})'
    BY <1>5, <1>6
  <2> QED
    BY <1>1, <1>2, <1>3, <1>4, <2>1 DEF DriverInv, Requested
<1>8. Written(1)' /\ (to = "request" => Framing(1)')
  BY <1>1, <1>2, <1>3 DEF LinesInv, Before, Written, Framing, Mishandled, IsWrite, Writes,
     BlkStart, BlkEnd
<1>9. LinesInv'
  BY <1>2, <1>3, <1>4, <1>8, SetupLines DEF Before
<1>10. FirmwareInv' /\ InStep' /\ Served' /\ Delivered' /\ OnlyAsked' /\ Within' /\ Framed'
  BY <1>2, <1>3, <1>4, SetupStep DEF Before
<1> QED
  BY <1>7, <1>9, <1>10 DEF CallInv

LEMMA SetCtrlStep ==
    ASSUME ~slipped', CallInv, ControlInv', NEW bS \in BOOLEAN, NEW bE \in BOOLEAN, NEW to, NEW bad,
           SetCtrl("ctrl", bS, bE, to, bad),
           \/ to = "request" /\ call.op # "ReadBlock" /\ bad = to
           \/ to = "addr" /\ call.op = "ReadBlock" /\ bad = "return",
           IsBlock(call) => bS /\ ~bE, call.op = "ReadQuadlet" => ~bE
    PROVE  CallInv'
<1>0. CASE Refused(to, bad)
  <2>1. /\ pc = "ctrl"
        /\ UNCHANGED <<fw, rdata, served, call, wasInput, hadEvents, events, q, buf, ret, useEvents>>
    BY SetCases DEF SetCtrl
  <2>2. lsbVal' = lsbVal
    BY DEF SetCtrl
  <2> QED
    BY <1>0, <2>1, <2>2, GiveUpStep DEF Refused
<1> SUFFICES ASSUME ~Refused(to, bad) PROVE CallInv'
  BY <1>0
<1>1. TypeOK /\ DriverInv /\ LinesInv
  BY DEF CallInv, ControlInv, GpiodInv
<1>2. /\ pc = "ctrl" /\ pc' = to /\ lsbVal' = lsbVal
      /\ UNCHANGED <<fw, rdata, served, call, wasInput, hadEvents, events, q, buf, ret, useEvents>>
      /\ pins' = [pins EXCEPT !.blkStart = bS, !.blkEnd = bE]
  BY SetCases DEF SetCtrl
<1>3. /\ pins'.addr = pins.addr /\ pins'.req = pins.req /\ pins'.out = pins.out
      /\ pins'.lsb = pins.lsb /\ pins'.wdata = pins.wdata
      /\ pins'.blkStart = bS /\ pins'.blkEnd = bE
  BY <1>1, <1>2, TypeFacts DEF PinStates
<1>4. ~pins.req /\ fw.st = "idle" /\ pc \in Before
  BY <1>2, SetupFacts DEF Before
<1>5. Odd' = Odd
  BY <1>2 DEF Odd
<1>6. DriverInv'
  BY <1>1, <1>2, <1>3, <1>4, <1>5
     DEF DriverInv, Requested, IsBlock, Blocks, IsWrite, Writes
<1>7. Written(1)' /\ Framing(1)'
  <2>1. Written(1)'
    BY <1>1, <1>2, <1>3 DEF LinesInv, Before, Written, Mishandled
  <2>2. Framing(1)'
    BY <1>1, <1>2, <1>3, TypeFacts DEF Framing, BlkStart, BlkEnd
  <2> QED
    BY <2>1, <2>2
<1>8. LinesInv'
  BY <1>2, <1>3, <1>4, <1>7, SetupLines DEF Before
<1>9. FirmwareInv' /\ InStep' /\ Served' /\ Delivered' /\ OnlyAsked' /\ Within' /\ Framed'
  BY <1>2, <1>3, <1>4, SetupStep DEF Before
<1> QED
  BY <1>6, <1>8, <1>9 DEF CallInv

LEMMA RequestStep ==
    ASSUME ~slipped', CallInv, ControlInv', NEW to, NEW bad, SetReq("request", TRUE, to, bad),
           \/ to = "wait"
           \/ to = "lower" /\ call.n = 0,
           bad \in {to, "zero"}, bad # to => call.op = "ReadBlock"
    PROVE  CallInv'
<1>0. CASE Refused(to, bad)
  <2>1. /\ pc = "request"
        /\ UNCHANGED <<fw, rdata, served, call, wasInput, hadEvents, events, q, buf, ret, useEvents>>
    BY SetCases DEF SetReq
  <2>2. lsbVal' = lsbVal
    BY DEF SetReq
  <2> QED
    BY <1>0, <2>1, <2>2, GiveUpStep DEF Refused
<1> SUFFICES ASSUME ~Refused(to, bad) PROVE CallInv'
  BY <1>0
<1>1. TypeOK /\ LoopInv /\ DriverInv /\ FirmwareInv /\ LinesInv /\ Delivered /\ OnlyAsked
      /\ Within /\ Framed /\ InStep
  BY DEF CallInv, ControlInv, GpiodInv
<1>2. /\ pc = "request" /\ pc' = to /\ lsbVal' = lsbVal
      /\ UNCHANGED <<fw, rdata, served, call, wasInput, hadEvents, events, q, buf, ret, useEvents>>
      /\ pins' = [pins EXCEPT !.req = TRUE]
  BY SetCases DEF SetReq
<1>3. /\ pins'.addr = pins.addr /\ pins'.req /\ pins'.out = pins.out
      /\ pins'.lsb = pins.lsb /\ pins'.wdata = pins.wdata
      /\ pins'.blkStart = pins.blkStart /\ pins'.blkEnd = pins.blkEnd
  BY <1>1, <1>2, TypeFacts DEF PinStates
<1>4. fw.st = "idle" /\ served = <<>> /\ q = 0 /\ (~hadEvents => events = 0)
  BY <1>2, SetupFacts DEF Before
<1>5. Asked' = 1 /\ Odd' = Odd
  BY <1>1, <1>2, <1>4, TypeFacts DEF Asked, Before, Odd
<1>6. DriverInv'
  BY <1>1, <1>2, <1>3, <1>4, <1>5 DEF DriverInv, Requested
<1>7. FirmwareInv' /\ InStep'
  BY <1>1, <1>2, <1>4 DEF FirmwareInv, InStep, OpDone, Before
<1>8. Served'
  BY <1>2, <1>4 DEF Served, OpDone, Ended, Succeeded
<1>9. LinesInv'
  <2>1. Framing(1)' /\ Written(1)'
    BY <1>1, <1>2, <1>3 DEF LinesInv, Before, Framing, Written, Mishandled, BlkStart, BlkEnd
  <2> QED
    BY <1>2, <1>3, <1>4, <1>5, <2>1 DEF LinesInv, Pending, Before
<1>10. Delivered'
  BY <1>1, <1>2, <1>4 DEF Delivered, Mishandled, Ended, Succeeded, Before
<1> QED
  BY <1>1, <1>2, <1>6, <1>7, <1>8, <1>9, <1>10, HistoryKept DEF CallInv

\* Within a block: between the waits for two quadlets.
LEMMA BetweenStep ==
    ASSUME CallInv, pc \in {"data", "blkEnd"}, pc' \in {"blkEnd", "toggle"},
           pins'.req = pins.req, pins'.lsb = pins.lsb, pins'.addr = pins.addr,
           pins'.out = pins.out,
           UNCHANGED <<fw, rdata, served, call, wasInput, hadEvents, events, q, buf, ret, useEvents,
                       lsbVal>>
    PROVE  /\ DriverInv' /\ FirmwareInv' /\ InStep' /\ Served' /\ Delivered'
           /\ OnlyAsked' /\ Within' /\ Framed'
<1>1. TypeOK /\ LoopInv /\ DriverInv /\ FirmwareInv /\ InStep /\ Served /\ Delivered /\ OnlyAsked
      /\ Within /\ Framed
  BY DEF CallInv, ControlInv, GpiodInv
<1>2. Asked = q /\ Asked' = q /\ At' = At /\ Odd' = Odd /\ Stuck' = Stuck
  BY DEF Asked, At, Before, Odd, Stuck
<1>3. IsBlock(call) /\ call.op # "ReadQuadlet"
  BY <1>1 DEF LoopInv, IsBlock, Blocks
<1>4. ~Ended'
  BY DEF Ended, Succeeded
<1>5. DriverInv'
  BY <1>1, <1>2, <1>3 DEF DriverInv, Requested
<1>6. FirmwareInv'
  BY <1>1, <1>2 DEF FirmwareInv, Before
<1>7. InStep' /\ Served'
  BY <1>1, <1>2, <1>4 DEF InStep, Served, OpDone, Before
<1>8. Delivered'
  <2>1. pc = "data" => IsWrite(call)
    BY <1>1 DEF LoopInv
  <2> QED
    BY <1>1, <1>4, <2>1 DEF Delivered, Mishandled, Before
<1> QED
  BY <1>1, <1>5, <1>6, <1>7, <1>8, HistoryKept

\* There the firmware is idle in all but name, so that the lines may change.
LEMMA BetweenLines ==
    ASSUME CallInv, pc \in {"data", "blkEnd"}, pc' \in {"blkEnd", "toggle"},
           pins'.req = pins.req, pins'.lsb = pins.lsb,
           UNCHANGED <<fw, served, call, wasInput, hadEvents, q>>,
           pc' = "blkEnd" => Framing(q)', pc' = "toggle" => Framing(q + 1)', Written(q + 1)'
    PROVE  LinesInv'
<1>1. Asked' = q /\ q' = q
  BY DEF Asked, Before
<1>2. CASE hadEvents
  BY <1>2 DEF LinesInv, Framing, Written, Mishandled, BlkStart, BlkEnd
<1>3. CASE ~hadEvents
  <2>1. fw'.st = "done" /\ ~Pending'
    BY <1>3, TypeFacts DEF CallInv, ControlInv, GpiodInv, InStep, OpDone, Pending
  <2> QED
    BY <1>1, <2>1 DEF LinesInv, Before
<1> QED
  BY <1>2, <1>3

LEMMA SetDataStep ==
    ASSUME ~slipped', CallInv, ControlInv', SetData(BlkEndIfLast(q + 1))
    PROVE  CallInv'
<1>1. TypeOK /\ LoopInv /\ LinesInv
  BY DEF CallInv, ControlInv, GpiodInv
<1> DEFINE to == BlkEndIfLast(q + 1)
<1>2. /\ pc = "data" /\ pc' = to /\ lsbVal' = lsbVal
      /\ UNCHANGED <<fw, rdata, served, call, wasInput, hadEvents, events, q, buf, ret, useEvents>>
      /\ pins' = [pins EXCEPT !.wdata = DataOnBus]
  BY SetCases DEF SetData, SetUnchecked, Refused
<1>3. /\ pins'.addr = pins.addr /\ pins'.req = pins.req /\ pins'.out = pins.out
      /\ pins'.lsb = pins.lsb /\ pins'.wdata = DataOnBus
      /\ pins'.blkStart = pins.blkStart /\ pins'.blkEnd = pins.blkEnd
  BY <1>1, <1>2, TypeFacts DEF PinStates
<1>4. q \in 1 .. call.n - 1 /\ call.n \in Nat
  BY <1>1, <1>2, TypeFacts DEF LoopInv
<1>5. to \in {"blkEnd", "toggle"} /\ (to = "blkEnd" <=> q + 1 = call.n)
  BY DEF BlkEndIfLast
<1> HIDE DEF to
<1>6. Framing(q)
  BY <1>1, <1>2 DEF LinesInv, Asked, Before
<1>7. Framing(q)' /\ (to = "toggle" => Framing(q + 1)')
  BY <1>2, <1>3, <1>4, <1>5, <1>6 DEF Framing, BlkStart, BlkEnd
<1>8. Written(q + 1)'
  BY <1>2, <1>3 DEF Written, DataOnBus
<1>9. LinesInv'
  BY <1>2, <1>3, <1>5, <1>7, <1>8, BetweenLines
<1> QED
  BY <1>2, <1>3, <1>5, <1>9, BetweenStep DEF CallInv

LEMMA BlkEndStep ==
    ASSUME ~slipped', CallInv, ControlInv', NEW bad,
           SetCtrl("blkEnd", FALSE, TRUE, "toggle", bad), bad \in {"toggle", "lower"}
    PROVE  CallInv'
<1>0. CASE Refused("toggle", bad)
  <2>1. /\ pc = "blkEnd"
        /\ UNCHANGED <<fw, rdata, served, call, wasInput, hadEvents, events, q, buf, ret, useEvents>>
    BY SetCases DEF SetCtrl
  <2>2. lsbVal' = lsbVal
    BY DEF SetCtrl
  <2> QED
    BY <1>0, <2>1, <2>2, GiveUpStep DEF Refused
<1> SUFFICES ASSUME ~Refused("toggle", bad) PROVE CallInv'
  BY <1>0
<1>1. TypeOK /\ LoopInv /\ LinesInv
  BY DEF CallInv, ControlInv, GpiodInv
<1>2. /\ pc = "blkEnd" /\ pc' = "toggle" /\ lsbVal' = lsbVal
      /\ UNCHANGED <<fw, rdata, served, call, wasInput, hadEvents, events, q, buf, ret, useEvents>>
      /\ pins' = [pins EXCEPT !.blkStart = FALSE, !.blkEnd = TRUE]
  BY SetCases DEF SetCtrl
<1>3. /\ pins'.addr = pins.addr /\ pins'.req = pins.req /\ pins'.out = pins.out
      /\ pins'.lsb = pins.lsb /\ pins'.wdata = pins.wdata
      /\ ~pins'.blkStart /\ pins'.blkEnd
  BY <1>1, <1>2, TypeFacts DEF PinStates
<1>4. q + 1 = call.n /\ q \in Nat /\ call.n \in Nat
  BY <1>1, <1>2, TypeFacts DEF LoopInv
<1>5. Framing(q + 1)' /\ Written(q + 1)'
  <2>1. q >= 1
    BY <1>1, <1>2, <1>4 DEF LoopInv
  <2> QED
    BY <1>1, <1>2, <1>3, <1>4, <2>1 DEF LinesInv, Framing, Written, Mishandled, BlkStart, BlkEnd
<1>6. LinesInv'
  BY <1>2, <1>3, <1>5, BetweenLines
<1> QED
  BY <1>2, <1>3, <1>6, BetweenStep DEF CallInv

LEMMA ToggleLsbStep ==
    ASSUME ~slipped', CallInv, ControlInv', ToggleLsb
    PROVE  CallInv'
<1>0. CASE Refused("wait", "lower")
  <2>1. /\ pc = "toggle"
        /\ UNCHANGED <<fw, rdata, served, call, wasInput, hadEvents, events, q, buf, ret, useEvents>>
    BY SetCases DEF ToggleLsb
  <2>2. lsbVal' = -lsbVal - 1
    BY DEF ToggleLsb, Complement
  <2> QED
    BY <1>0, <2>1, <2>2, GiveUpStep DEF Refused
<1> SUFFICES ASSUME ~Refused("wait", "lower") PROVE CallInv'
  BY <1>0
<1>1. TypeOK /\ LoopInv /\ DriverInv /\ FirmwareInv /\ InStep /\ Served /\ LinesInv /\ Delivered
      /\ OnlyAsked /\ Within /\ Framed
  BY DEF CallInv, ControlInv, GpiodInv
<1>2. /\ pc = "toggle" /\ pc' = "wait" /\ lsbVal' = -lsbVal - 1
      /\ UNCHANGED <<fw, rdata, served, call, wasInput, hadEvents, events, q, buf, ret, useEvents>>
      /\ pins' = [pins EXCEPT !.lsb = (lsbVal' # 0)]
  BY SetCases DEF ToggleLsb, Complement
<1>3. /\ pins'.lsb = (lsbVal' # 0) /\ pins'.req = pins.req /\ pins'.out = pins.out
      /\ pins'.addr = pins.addr /\ pins'.wdata = pins.wdata
      /\ pins'.blkStart = pins.blkStart /\ pins'.blkEnd = pins.blkEnd
  <2> DEFINE v == lsbVal' # 0
  <2>1. v \in BOOLEAN /\ pins' = [pins EXCEPT !.lsb = v]
    BY <1>2
  <2> HIDE DEF v
  <2>2. /\ pins'.lsb = v /\ pins'.req = pins.req /\ pins'.out = pins.out
        /\ pins'.addr = pins.addr /\ pins'.wdata = pins.wdata
        /\ pins'.blkStart = pins.blkStart /\ pins'.blkEnd = pins.blkEnd
    BY <1>1, <2>1, TypeFacts DEF PinStates
  <2> QED
    BY <2>2 DEF v
<1>4. IsBlock(call) /\ q \in 1 .. call.n - 1 /\ call.n \in Nat /\ q \in Nat /\ pins.req
  BY <1>1, <1>2, TypeFacts DEF LoopInv, DriverInv, Requested
<1>5. Asked = q /\ Asked' = q + 1 /\ At' = At /\ Odd' = Odd /\ Stuck' = Stuck
  BY <1>2 DEF Asked, At, Before, Odd, Stuck
<1>6. /\ lsbVal' \in (IF Odd THEN {1, -2} ELSE {0, -1})
      /\ Odd => pins.lsb /\ pins'.lsb
      /\ ~Odd => (pins'.lsb <=> ~pins.lsb)
  <2>1. lsbVal \in (IF Odd THEN {1, -2} ELSE {0, -1}) /\ (pins.lsb <=> lsbVal # 0)
    BY <1>1, <1>2, <1>4 DEF DriverInv, Requested
  <2>2. CASE Odd
    <3>1. lsbVal \in {1, -2} /\ lsbVal' \in {1, -2}
      BY <1>2, <2>1, <2>2
    <3>2. lsbVal # 0 /\ lsbVal' # 0
      BY <3>1
    <3> QED
      BY <1>3, <2>1, <2>2, <3>1, <3>2
  <2>3. CASE ~Odd
    <3>1. lsbVal \in {0, -1} /\ lsbVal' \in {0, -1} /\ (lsbVal' # 0 <=> lsbVal = 0)
      BY <1>2, <2>1, <2>3
    <3> QED
      BY <1>3, <2>1, <2>3, <3>1
  <2> QED
    BY <2>2, <2>3
<1>7. ~Ended'
  BY <1>2 DEF Ended, Succeeded
<1>8. call.op # "ReadQuadlet"
  BY <1>4 DEF IsBlock, Blocks
<1>9. DriverInv'
  <2>1. (lsbVal \in IF Odd THEN {1, -2} ELSE {0, -1})'
    BY <1>5, <1>6
  <2> QED
    BY <1>1, <1>2, <1>3, <1>8, <2>1 DEF DriverInv, Requested
<1>10. At \in Int
  BY <1>1, TypeFacts DEF At
<1>11. FirmwareInv'
  BY <1>1, <1>2, <1>3, <1>4, <1>5, <1>10 DEF FirmwareInv, Before
<1>12. InStep'
  BY <1>1, <1>2 DEF InStep, OpDone, Before
<1>13. Stuck <=> Odd
  BY <1>4 DEF Stuck
<1>14. ~hadEvents => fw.st = "done" /\ (fw.lsb <=> pins.lsb)
  BY <1>1, <1>2 DEF InStep, OpDone
<1>15. Served'
  <2> SUFFICES ASSUME ~hadEvents, ~Odd PROVE Served'
    BY <1>2, <1>5, <1>13 DEF Served
  <2>1. Len(served) = q /\ Pending'
    BY <1>1, <1>2, <1>3, <1>4, <1>5, <1>6, <1>13, <1>14 DEF Served, Pending
  <2> QED
    BY <1>2, <1>7, <1>14, <2>1 DEF Served
<1>16. LinesInv'
  <2>1. Framing(q + 1)' /\ Written(q + 1)'
    BY <1>1, <1>2, <1>3 DEF LinesInv, Framing, Written, Mishandled, BlkStart, BlkEnd
  <2>2. CASE hadEvents
    BY <1>2, <2>2 DEF LinesInv, Framing, Written, Mishandled, BlkStart, BlkEnd
  <2>3. CASE ~hadEvents
    <3>1. fw'.st = "done" /\ pc' = "wait"
      BY <1>2, <1>14, <2>3
    <3>2. Pending' => At' = q
      <4>1. CASE Odd
        <5>1. fw.lsb /\ pins'.lsb
          BY <1>6, <1>14, <2>3, <4>1
        <5> QED
          BY <1>2, <5>1 DEF Pending
      <4>2. CASE ~Odd
        BY <1>1, <1>2, <1>5, <1>13, <1>14, <2>3, <4>2 DEF Served, At
      <4> QED
        BY <4>1, <4>2
    <3> QED
      BY <1>2, <1>5, <2>1, <3>1, <3>2 DEF LinesInv, Before
  <2> QED
    BY <2>2, <2>3
<1>17. Delivered'
  BY <1>1, <1>2, <1>7 DEF Delivered, Mishandled
<1> QED
  BY <1>1, <1>2, <1>9, <1>11, <1>12, <1>15, <1>16, <1>17, HistoryKept DEF CallInv

\* A wait ends with the quadlet served, unless an event was left over.
LEMMA WaitStep ==
    ASSUME FabricPrompt, ~slipped', CallInv, ControlInv', NEW to, WaitOpDone(to), WaitAs(to)
    PROVE  CallInv'
<1>1. TypeOK /\ LoopInv /\ DriverInv /\ FirmwareInv /\ InStep /\ Served /\ LinesInv /\ Delivered
      /\ OnlyAsked /\ Within /\ Framed
  BY DEF CallInv, ControlInv, GpiodInv
<1>2. /\ pc = "wait" /\ Settled
      /\ UNCHANGED <<pins, fw, rdata, served, useEvents, call, wasInput, hadEvents, lsbVal, buf, ret>>
      /\ \/ OpDoneSeen /\ pc' = to /\ ok' = ok
         \/ pc' = "lower" /\ ok' = FALSE /\ events' = events
  BY WaitMoves
<1>3. /\ q \in Nat /\ call.n \in Nat /\ q < NonEmpty(call).n /\ pins.req
      /\ NonEmpty(call).n = (IF call.n = 0 THEN 1 ELSE call.n)
      /\ ~IsBlock(call) => q = 0 /\ call.n = 1
  BY <1>1, <1>2, TypeFacts DEF LoopInv, DriverInv, Requested, Before
<1>4. /\ to \in {"read", "data", "lower"} /\ q' \in {q, q + 1}
      /\ to = "read" => ~IsWrite(call) /\ q' = q
      /\ to = "data" => IsBlock(call) /\ IsWrite(call) /\ q' = q + 1
      /\ to = "lower" => IsWrite(call) /\ (call.n > 0 => q + 1 = call.n)
  <2>1. call.op = "WriteQuadlet" => IsWrite(call) /\ ~IsBlock(call)
    BY DEF IsWrite, Writes, IsBlock, Blocks
  <2>2. call.op = "WriteBlock" => IsWrite(call) /\ IsBlock(call)
    BY DEF IsWrite, Writes, IsBlock, Blocks
  <2> QED
    BY <1>3, <2>1, <2>2 DEF WaitAs
<1>5. /\ Asked = q + 1 /\ Odd' = Odd /\ Stuck' = Stuck
      /\ Asked' = IF pc' \in {"read", "data"} THEN q + 1 ELSE NonEmpty(call).n
      /\ At' = At /\ Pending' = Pending
  BY <1>2, <1>4 DEF Asked, Odd, Stuck, Before, At, Pending
<1>6. OpDone => ~Pending /\ (fw.lsb <=> pins.lsb)
  BY <1>1, <1>2, <1>3, TypeFacts DEF Settled, EdgePending, OpDone, Pending
<1>7. events' > 0 => events > 0
  BY <1>1, <1>2, TypeFacts DEF OpDoneSeen
<1>8. OpDoneSeen /\ ~hadEvents => OpDone /\ events' = 0
  BY <1>1, <1>2, TypeFacts DEF OpDoneSeen, InStep, LoopInv
<1>9. DriverInv'
  BY <1>1, <1>2, <1>4, <1>5 DEF DriverInv, Requested
<1>10. FirmwareInv'
  <2>1. At \in Int /\ Asked' \in Nat /\ Asked <= Asked'
    BY <1>1, <1>3, <1>4, <1>5, TypeFacts DEF At
  <2>2. At = Asked' => At = Asked \/ fw.st = "idle"
    BY <1>1, <1>3, <1>5, <2>1 DEF FirmwareInv
  <2> QED
    BY <1>1, <1>2, <1>3, <1>4, <1>5, <2>1, <2>2 DEF FirmwareInv, Before
<1>11. InStep'
  BY <1>1, <1>2, <1>4, <1>6, <1>7, <1>8 DEF InStep, OpDone, Before
<1>12. Served'
  <2> SUFFICES ASSUME ~hadEvents, ~Stuck, OpDoneSeen, pc' = to PROVE Served'
    BY <1>2, <1>5 DEF Served, Ended, Succeeded
  <2>1. Len(served) = q + 1
    BY <1>1, <1>2, <1>5, <1>6, <1>8 DEF Served
  <2> QED
    BY <1>2, <1>3, <1>4, <1>5, <2>1 DEF Served, Ended, Succeeded
<1>13. LinesInv'
  <2>1. \A i : (Framing(i)' <=> Framing(i)) /\ (Written(i)' <=> Written(i))
    BY <1>2 DEF Framing, Written, Mishandled, BlkStart, BlkEnd
  <2>2. Framing(q + 1)
    BY <1>1, <1>2, <1>5 DEF LinesInv
  <2>3. Asked' = q + 1 => Framing(Asked)'
    BY <1>2, <2>2 DEF Framing, BlkStart, BlkEnd
  <2>4. fw'.st = "busy" => Framing(At)' /\ Written(At)'
    BY <1>1, <1>2, <1>5 DEF LinesInv, Framing, Written, Mishandled, BlkStart, BlkEnd
  <2>5. Pending' => Framing(At + 1)' /\ Written(At + 1)'
    BY <1>1, <1>2, <1>5 DEF LinesInv, Framing, Written, Mishandled, BlkStart, BlkEnd
  <2>6. fw'.st = "idle" /\ pins'.req => Framing(1)' /\ Written(1)'
    BY <1>1, <1>2 DEF LinesInv, Framing, Written, Mishandled, BlkStart, BlkEnd
  <2> QED
    BY <1>2, <1>4, <1>5, <2>3, <2>4, <2>5, <2>6 DEF LinesInv, Before
<1>14. Delivered'
  BY <1>1, <1>2, <1>4 DEF Delivered, Mishandled, Ended, Succeeded, Before
<1> QED
  BY <1>1, <1>2, <1>9, <1>10, <1>11, <1>12, <1>13, <1>14, HistoryKept DEF CallInv

\* The quadlet that is handed over is the one that was waited for.
LEMMA GetDataStep ==
    ASSUME ~slipped', CallInv, ControlInv', NEW to, GetData(to), ReadAs(to)
    PROVE  CallInv'
<1>1. TypeOK /\ LoopInv /\ DriverInv /\ FirmwareInv /\ InStep /\ Served /\ LinesInv /\ Delivered
      /\ OnlyAsked /\ Within /\ Framed
  BY DEF CallInv, ControlInv, GpiodInv
<1>2. /\ pc = "read"
      /\ \/ pc' = to /\ buf' = Append(buf, OnBus(call, rdata)) /\ ok' = ok
         \/ pc' = "lower" /\ buf' = buf /\ ok' = FALSE
      /\ q' = IF IsBlock(call) THEN q + 1 ELSE q
      /\ UNCHANGED <<pins, fw, rdata, served, useEvents, call, wasInput, hadEvents, lsbVal,
                     events, ret>>
  BY DEF GetData, Frame
<1>3. /\ q \in Nat /\ call.n \in Nat /\ q < call.n /\ pins.req /\ ~IsWrite(call)
      /\ NonEmpty(call).n = call.n
      /\ ~IsBlock(call) => q = 0 /\ call.n = 1
  BY <1>1, <1>2, TypeFacts DEF LoopInv, DriverInv, Requested, Before
<1>4. /\ to \in {"lower", "blkEnd", "toggle"}
      /\ to = "lower" => q + 1 = call.n
      /\ to # "lower" => IsBlock(call) /\ q + 1 < call.n
      /\ to = "blkEnd" <=> (to # "lower" /\ q + 2 = call.n)
  <2>1. call.op = "ReadQuadlet" => ~IsBlock(call)
    BY DEF IsBlock, Blocks
  <2>2. call.op = "ReadBlock" => IsBlock(call)
    BY DEF IsBlock, Blocks
  <2> QED
    BY <1>3, <2>1, <2>2 DEF ReadAs, BlkEndIfLast
<1>5. /\ Asked = q + 1 /\ Odd' = Odd /\ Stuck' = Stuck
      /\ Asked' = IF pc' \in {"blkEnd", "toggle"} THEN q + 1 ELSE call.n
      /\ At' = At /\ Pending' = Pending
  BY <1>2, <1>3, <1>4 DEF Asked, Odd, Stuck, Before, At, Pending
<1>6. /\ buf \in Seq(Quads) /\ Len(buf) \in Nat
      /\ pc' = to /\ ok' = ok =>
            buf' = buf \/ ( /\ Len(buf') = Len(buf) + 1
                            /\ buf'[Len(buf) + 1] = OnBus(call, rdata)
                            /\ \A i \in 1 .. Len(buf) : buf'[i] = buf[i])
  <2>1. OnBus(call, rdata) \in Quads /\ buf \in Seq(Quads) /\ Len(buf) \in Nat
    BY <1>1, TypeFacts, OnBusType
  <2> HIDE DEF OnBus
  <2>2. ASSUME buf' = Append(buf, OnBus(call, rdata))
        PROVE  /\ Len(buf') = Len(buf) + 1
               /\ buf'[Len(buf) + 1] = OnBus(call, rdata)
               /\ \A i \in 1 .. Len(buf) : buf'[i] = buf[i]
    BY <2>1, <2>2
  <2> QED
    BY <1>2, <2>1, <2>2
<1>7. DriverInv'
  BY <1>1, <1>2, <1>4, <1>5 DEF DriverInv, Requested
<1>8. FirmwareInv'
  <2>1. At \in Int /\ Asked' \in Nat /\ Asked <= Asked'
    BY <1>1, <1>3, <1>4, <1>5, TypeFacts DEF At
  <2>2. At = Asked' => At = Asked \/ fw.st = "idle"
    BY <1>1, <1>3, <1>5, <2>1 DEF FirmwareInv
  <2> QED
    BY <1>1, <1>2, <1>3, <1>4, <1>5, <2>1, <2>2 DEF FirmwareInv, Before
<1>9. InStep'
  BY <1>1, <1>2, <1>4 DEF InStep, OpDone, Before
<1>10. Served'
  <2> SUFFICES ASSUME ~hadEvents, ~Stuck PROVE Served'
    BY <1>2, <1>5 DEF Served
  <2>1. Len(served) = q + 1
    BY <1>1, <1>2, <1>5 DEF Served
  <2> QED
    BY <1>2, <1>3, <1>4, <1>5, <2>1 DEF Served, Ended, Succeeded
<1>11. LinesInv'
  <2>1. Framing(q + 1)
    BY <1>1, <1>2, <1>5 DEF LinesInv
  <2>2. pc' = "blkEnd" => Framing(Asked)'
    BY <1>2, <1>5, <2>1 DEF Framing, BlkStart, BlkEnd
  <2>3. pc' = "toggle" => Framing(q + 1)'
    BY <1>2, <1>3, <1>4, <2>1 DEF Framing, BlkStart, BlkEnd
  <2>4. fw'.st = "busy" => Framing(At)' /\ Written(At)'
    BY <1>1, <1>2, <1>5 DEF LinesInv, Framing, Written, Mishandled, BlkStart, BlkEnd
  <2>5. Pending' => Framing(At + 1)' /\ Written(At + 1)'
    BY <1>1, <1>2, <1>5 DEF LinesInv, Framing, Written, Mishandled, BlkStart, BlkEnd
  <2>6. fw'.st = "idle" /\ pins'.req => Framing(1)' /\ Written(1)'
    BY <1>1, <1>2 DEF LinesInv, Framing, Written, Mishandled, BlkStart, BlkEnd
  <2>7. \A i : Written(i)'
    BY <1>2, <1>3 DEF Written
  <2> QED
    BY <1>2, <1>4, <1>5, <2>2, <2>3, <2>4, <2>5, <2>6, <2>7 DEF LinesInv, Before
<1>12. Delivered'
  <2> SUFFICES ASSUME ~Mishandled PROVE Delivered'
    BY <1>2 DEF Delivered, Mishandled
  <2>1. ~hadEvents /\ ~Stuck
    <3>1. call.addr \in Int
      BY <1>1, CallsAssumption, TypeFacts DEF Addrs
    <3> QED
      BY <3>1 DEF Mishandled, Stuck, Odd
  <2>2. Len(buf) = q /\ Len(served) = q + 1 /\ OpDone
    BY <1>1, <1>2, <1>3, <1>5, <2>1 DEF Delivered, Served, InStep
  <2>3. rdata = served[q + 1].val
    BY <1>1, <1>3, <2>2 DEF FirmwareInv, OpDone
  <2>4. \A i \in 1 .. Len(buf) : i <= Len(served) /\ buf[i] = OnBus(call, served[i].val)
    BY <1>1, <1>3 DEF Delivered
  <2>5. ASSUME NEW i \in 1 .. Len(buf')
        PROVE  i <= Len(served') /\ buf'[i] = OnBus(call', served'[i].val)
    <3>1. CASE buf' = buf
      BY <1>2, <2>4, <3>1
    <3>2. CASE i \in 1 .. Len(buf) /\ buf' # buf
      BY <1>2, <1>6, <2>4, <3>2
    <3>3. CASE i = q + 1 /\ buf' # buf
      BY <1>2, <1>6, <2>2, <2>3, <3>3
    <3> QED
      BY <1>2, <1>3, <1>6, <2>2, <3>1, <3>2, <3>3
  <2>7. pc' # "lower" => Len(buf') = q + 1 /\ q' = q + 1
    <3>1. pc' # "lower" => Len(buf') = Len(buf) + 1
      BY <1>1, <1>2, TypeFacts, OnBusType
    <3> QED
      BY <1>2, <1>4, <2>2, <3>1
  <2>8. Ended' => Len(buf') = call.n
    <3>1. Ended' => Len(buf') = Len(buf) + 1 /\ pc' = "lower" /\ pc' = to
      BY <1>1, <1>2, <1>4, TypeFacts, OnBusType DEF Ended, Succeeded
    <3> QED
      BY <1>4, <2>2, <3>1
  <2> QED
    BY <1>2, <1>4, <2>5, <2>7, <2>8 DEF Delivered, Before
<1> QED
  BY <1>1, <1>2, <1>7, <1>8, <1>9, <1>10, <1>11, <1>12, HistoryKept DEF CallInv

\* On the way out: the request is over, or the firmware is told so.
LEMMA EndStep ==
    ASSUME CallInv, pc \in {"lower", "zero"}, pc' \in {"zero", "return"}, ~pins'.req,
           pins'.lsb = pins.lsb, pins'.out = pins.out, pins'.blkEnd = pins.blkEnd \/ ~pins'.blkEnd,
           pc' = "return" => ~pins'.blkEnd,
           fw.st = "busy" => pins'.blkStart = pins.blkStart /\ pins'.blkEnd = pins.blkEnd
                             /\ pins'.wdata = pins.wdata,
           UNCHANGED <<fw, rdata, served, call, wasInput, hadEvents, events, q, buf, ok, ret,
                       useEvents, lsbVal>>
    PROVE  /\ DriverInv' /\ FirmwareInv' /\ InStep' /\ Served' /\ LinesInv' /\ Delivered'
           /\ OnlyAsked' /\ Within' /\ Framed'
<1>1. TypeOK /\ DriverInv /\ FirmwareInv /\ InStep /\ Served /\ LinesInv /\ Delivered
      /\ OnlyAsked /\ Within /\ Framed
  BY DEF CallInv, ControlInv, GpiodInv
<1>2. /\ Asked' = Asked /\ At' = At /\ Odd' = Odd /\ Stuck' = Stuck /\ ~Pending'
      /\ Ended' <=> Ended
  BY DEF Asked, At, Odd, Stuck, Pending, Before, Ended, Succeeded
<1>3. DriverInv'
  BY <1>1, <1>2 DEF DriverInv, Requested
<1>4. FirmwareInv' /\ InStep' /\ Served'
  BY <1>1, <1>2 DEF FirmwareInv, InStep, Served, OpDone, Before
<1>5. LinesInv'
  <2>1. fw'.st = "busy" => Framing(At)' /\ Written(At)'
    BY <1>1, <1>2 DEF LinesInv, Framing, Written, Mishandled, BlkStart, BlkEnd
  <2> QED
    BY <1>2, <2>1 DEF LinesInv, Before
<1>6. Delivered'
  BY <1>1, <1>2 DEF Delivered, Mishandled, Before
<1> QED
  BY <1>1, <1>3, <1>4, <1>5, <1>6, HistoryKept

LEMMA LowerStep ==
    ASSUME ~slipped', CallInv, ControlInv', NEW to, SetReq("lower", FALSE, to, to),
           \/ to = "zero"
           \/ to = "return" /\ call.op = "ReadQuadlet"
    PROVE  CallInv'
<1>1. TypeOK /\ DriverInv
  BY DEF CallInv, ControlInv, GpiodInv
<1>2. /\ pc = "lower" /\ pc' = to /\ lsbVal' = lsbVal /\ ok' = ok
      /\ UNCHANGED <<fw, rdata, served, call, wasInput, hadEvents, events, q, buf, ret, useEvents>>
      /\ pins' = [pins EXCEPT !.req = FALSE]
  BY SetCases DEF SetReq, Refused
<1>3. /\ pins'.addr = pins.addr /\ ~pins'.req /\ pins'.out = pins.out
      /\ pins'.lsb = pins.lsb /\ pins'.wdata = pins.wdata
      /\ pins'.blkStart = pins.blkStart /\ pins'.blkEnd = pins.blkEnd
  BY <1>1, <1>2, TypeFacts DEF PinStates
<1>4. to = "return" => ~pins.blkEnd
  BY <1>1 DEF DriverInv
<1> QED
  BY <1>2, <1>3, <1>4, EndStep DEF CallInv

\* A driver between two accesses finds the firmware done with what it took down.
LEMMA ZeroStep ==
    ASSUME FabricPrompt, ~slipped', CallInv, ControlInv',
           SetCtrl("zero", FALSE, FALSE, "return", "return")
    PROVE  CallInv'
<1>1. TypeOK /\ DriverInv
  BY DEF CallInv, ControlInv, GpiodInv
<1>2. /\ pc = "zero" /\ pc' = "return" /\ lsbVal' = lsbVal /\ ok' = ok /\ Settled
      /\ UNCHANGED <<fw, rdata, served, call, wasInput, hadEvents, events, q, buf, ret, useEvents>>
      /\ pins' = [pins EXCEPT !.blkStart = FALSE, !.blkEnd = FALSE]
  BY SetCases DEF SetCtrl, Refused
<1>3. /\ pins'.addr = pins.addr /\ pins'.req = pins.req /\ pins'.out = pins.out
      /\ pins'.lsb = pins.lsb /\ pins'.wdata = pins.wdata
      /\ ~pins'.blkEnd
  BY <1>1, <1>2, TypeFacts DEF PinStates
<1>4. ~pins.req /\ fw.st = "idle"
  BY <1>1, <1>2 DEF DriverInv, Requested, Settled, EdgePending
<1> QED
  BY <1>2, <1>3, <1>4, EndStep DEF CallInv

LEMMA ReturnStep ==
    ASSUME FabricPrompt, ~slipped', CallInv, ControlInv', Return
    PROVE  CallInv'
<1>1. TypeOK /\ DriverInv /\ FirmwareInv /\ InStep /\ Served /\ LinesInv /\ Delivered
      /\ OnlyAsked /\ Within /\ Framed
  BY DEF CallInv, ControlInv, GpiodInv
<1>2. /\ pc = "return" /\ pc' = "ready" /\ Settled /\ ret' = (IF ok THEN "true" ELSE "false")
      /\ UNCHANGED <<pins, fw, rdata, served, call, wasInput, hadEvents, events, q, buf, ok,
                     useEvents, lsbVal>>
  BY DEF Return, Frame
<1>3. ~pins.req /\ fw.st = "idle"
  BY <1>1, <1>2 DEF DriverInv, Requested, Settled, EdgePending
<1>4. (Ended' <=> Ended) /\ Stuck' = Stuck
  BY <1>1, <1>2, TypeFacts DEF Ended, Succeeded, Stuck, Odd
<1>5. DriverInv' /\ FirmwareInv' /\ InStep' /\ Served'
  BY <1>1, <1>2, <1>3, <1>4 DEF DriverInv, FirmwareInv, InStep, Served, OpDone, Before, Requested
<1>6. LinesInv' /\ Delivered'
  BY <1>1, <1>2, <1>3, <1>4 DEF LinesInv, Delivered, Pending, Before, Mishandled
<1> QED
  BY <1>1, <1>2, <1>5, <1>6, HistoryKept DEF CallInv

\* A call that finds the lines quiet starts from a clean state, whatever the calls
\* before it have done.
LEMMA EnterStep ==
    ASSUME FabricPrompt, ~slipped', ControlInv, ControlInv', Enter
    PROVE  CallInv'
<1>1. TypeOK
  BY DEF ControlInv, GpiodInv
<1>2. /\ pc = "ready" /\ call' \in Calls /\ q' = 0 /\ buf' = <<>> /\ served' = <<>> /\ Settled
      /\ hadEvents' = (events > 0) /\ slipped' = ~Quiet
      /\ pc' = "dir" \/ (pc' = "ready" /\ ret' = "false")
      /\ UNCHANGED <<pins, fw, rdata, useEvents, events>>
  <2>1. pc' = "dir" \/ (pc' = "ready" /\ ret' = "false")
    BY DEF Enter
  <2> QED
    BY <2>1 DEF Enter
<1>3. ~pins.req /\ ~pins.blkEnd /\ fw.st = "idle"
  BY <1>2 DEF Quiet, Settled, EdgePending
<1>4. ~hadEvents' => events' = 0
  <2>1. ~hadEvents' => ~(events > 0)
    BY <1>2, Zenon
  <2> QED
    BY <1>1, <1>2, <2>1, TypeFacts
<1>5. ~Ended'
  BY <1>2 DEF Ended, Succeeded
<1>6. DriverInv' /\ FirmwareInv' /\ InStep' /\ Served'
  BY <1>2, <1>3, <1>4, <1>5
     DEF DriverInv, FirmwareInv, InStep, Served, OpDone, Before, Requested
<1>7. LinesInv' /\ Delivered'
  BY <1>2, <1>3, <1>5 DEF LinesInv, Delivered, Pending, Before
<1>8. OnlyAsked' /\ Within' /\ Framed'
  BY <1>2 DEF OnlyAsked, Within, Framed, BlkStart, BlkEnd
<1> QED
  BY <1>6, <1>7, <1>8 DEF CallInv

LEMMA SetEventModeStep ==
    ASSUME ~slipped', CallInv, ControlInv', SetEventMode
    PROVE  CallInv'
<1>1. TypeOK /\ DriverInv /\ FirmwareInv /\ InStep /\ Served /\ LinesInv /\ Delivered
      /\ OnlyAsked /\ Within /\ Framed
  BY DEF CallInv, ControlInv, GpiodInv
<1>2. /\ pc = "ready" /\ events' = 0
      /\ UNCHANGED <<pins, fw, rdata, served, pc, call, wasInput, hadEvents, q, buf, ok, ret, lsbVal>>
  BY DEF SetEventMode, busVars
<1>3. InStep'
  BY <1>1, <1>2 DEF InStep, OpDone, Before, FirmwareInv
<1>4. DriverInv' /\ FirmwareInv' /\ Served'
  BY <1>1, <1>2 DEF DriverInv, FirmwareInv, Served, Asked, At, OpDone, Pending, Stuck, Odd,
     Ended, Succeeded
<1>5. LinesInv' /\ Delivered'
  BY <1>1, <1>2 DEF LinesInv, Delivered, Asked, At, Pending, Framing, Written, Mishandled,
     Ended, Succeeded, BlkStart, BlkEnd
<1> QED
  BY <1>1, <1>2, <1>3, <1>4, <1>5, HistoryKept DEF CallInv

LEMMA FwAcceptStep ==
    ASSUME ~slipped', CallInv, ControlInv', FwAccept, UNCHANGED <<events, hostVars>>
    PROVE  CallInv'
<1>1. TypeOK /\ LoopInv /\ DriverInv /\ FirmwareInv /\ InStep /\ Served /\ LinesInv /\ Delivered
      /\ OnlyAsked /\ Within /\ Framed
  BY DEF CallInv, ControlInv, GpiodInv
<1>2. /\ fw.st = "idle" /\ pins.req
      /\ UNCHANGED <<pins, rdata, served, events, useEvents, pc, call, q, lsbVal, buf, ok, ret,
                     wasInput, hadEvents>>
      /\ fw'.st = "busy" /\ fw'.addr = pins.addr /\ fw'.lsb = pins.lsb
  BY DEF FwAccept, hostVars
<1>3. /\ served = <<>> /\ At' = 1 /\ Asked' = Asked /\ Odd' = Odd /\ Stuck' = Stuck /\ ~Pending'
      /\ Ended' <=> Ended
  BY <1>1, <1>2 DEF FirmwareInv, At, Asked, Odd, Stuck, Pending, Ended, Succeeded
<1>4. /\ pc \in Requested /\ pins.addr = call.addr /\ (pins.out <=> IsWrite(call))
      /\ IsBlock(call) /\ Odd => pins.lsb
  <2>1. pc \in Requested /\ pins.addr = call.addr /\ (pins.out <=> IsWrite(call))
    BY <1>1, <1>2 DEF DriverInv, Requested
  <2>2. IsBlock(call) /\ Odd => lsbVal \in {1, -2} /\ (pins.lsb <=> lsbVal # 0)
    BY <1>1, <2>1 DEF DriverInv
  <2>3. lsbVal \in {1, -2} => lsbVal # 0
    OBVIOUS
  <2> QED
    BY <2>1, <2>2, <2>3
<1>5. Asked \in Nat \ {0}
  BY <1>1, <1>4, TypeFacts DEF Asked, Requested, Before, LoopInv
<1>6. fw'.addr = QuadletAddr(call, 1)
  BY <1>1, <1>2, <1>4, TypeFacts, AddrFirst
<1>7. DriverInv'
  BY <1>1, <1>2, <1>3, <1>4 DEF DriverInv
<1>8. FirmwareInv'
  BY <1>1, <1>2, <1>3, <1>4, <1>5, <1>6 DEF FirmwareInv, Requested, Before
<1>9. ~hadEvents => pc \in {"wait", "lower"} /\ (pc = "wait" => q = 0 /\ events = 0)
  <2>1. ~OpDone /\ events \in Nat
    BY <1>1, <1>2, TypeFacts DEF OpDone
  <2> QED
    BY <1>1, <1>2, <1>4, <2>1 DEF InStep, Requested
<1>10. InStep'
  BY <1>1, <1>2, <1>4, <1>9 DEF InStep, Before, Requested
<1>11. Served'
  <2>1. ~hadEvents /\ pc = "wait" => Asked = 1
    BY <1>9 DEF Asked, Before
  <2> QED
    BY <1>1, <1>2, <1>3, <1>9, <2>1 DEF Served, OpDone, Requested
<1>12. LinesInv'
  <2>1. Framing(1)' /\ Written(1)'
    BY <1>1, <1>2 DEF LinesInv, Framing, Written, Mishandled, BlkStart, BlkEnd
  <2> QED
    BY <1>1, <1>2, <1>3, <1>4, <2>1
       DEF LinesInv, Framing, Written, Mishandled, Requested, Before, BlkStart, BlkEnd
<1>13. Delivered'
  BY <1>1, <1>2, <1>3 DEF Delivered, Mishandled
<1> QED
  BY <1>1, <1>2, <1>7, <1>8, <1>10, <1>11, <1>12, <1>13, HistoryKept DEF CallInv

LEMMA FwNextStep ==
    ASSUME ~slipped', CallInv, ControlInv', FwNext, UNCHANGED <<events, hostVars>>
    PROVE  CallInv'
<1>1. TypeOK /\ LoopInv /\ DriverInv /\ FirmwareInv /\ InStep /\ Served /\ LinesInv /\ Delivered
      /\ OnlyAsked /\ Within /\ Framed
  BY DEF CallInv, ControlInv, GpiodInv
<1>2. /\ fw.st = "done" /\ pins.req /\ pins.lsb # fw.lsb
      /\ UNCHANGED <<pins, rdata, served, events, useEvents, pc, call, q, lsbVal, buf, ok, ret,
                     wasInput, hadEvents>>
      /\ fw'.st = "busy" /\ fw'.lsb = pins.lsb /\ fw'.addr = (fw.addr + 1) % AddrSpace
  BY DEF FwNext, hostVars
<1>3. /\ At = Len(served) /\ At' = Len(served) + 1 /\ Asked' = Asked /\ Odd' = Odd
      /\ Stuck' = Stuck /\ Pending /\ ~Pending'
      /\ Ended' <=> Ended
  BY <1>2 DEF At, Asked, Odd, Stuck, Pending, Ended, Succeeded
<1>4. At \in 1 .. Asked /\ At # Asked /\ fw.addr = QuadletAddr(call, At) /\ Asked \in Nat
  BY <1>1, <1>2, TypeFacts DEF FirmwareInv, Asked
<1>5. fw'.addr = QuadletAddr(call, At + 1)
  <2>1. At \in Nat \ {0}
    BY <1>4
  <2> QED
    BY <1>1, <1>2, <1>4, <2>1, TypeFacts, AddrNext
<1>6. pc \in Requested /\ pc \notin Before /\ pc # "ready"
  BY <1>1, <1>2 DEF DriverInv, Requested, Before
<1>7. ~Stuck
  <2> SUFFICES ASSUME Stuck PROVE FALSE
    OBVIOUS
  <2>1. fw.lsb
    BY <1>1, <1>2 DEF FirmwareInv, Stuck
  <2>2. lsbVal \in {1, -2} /\ (pins.lsb <=> lsbVal # 0)
    BY <1>1, <1>6 DEF DriverInv, Stuck
  <2>3. pins.lsb
    BY <2>2
  <2> QED
    BY <1>1, <1>2, <2>1, <2>3, TypeFacts
<1>8. DriverInv'
  BY <1>1, <1>2, <1>3, <1>6 DEF DriverInv
<1>9. FirmwareInv'
  BY <1>1, <1>2, <1>3, <1>4, <1>5, <1>6, <1>7 DEF FirmwareInv, Stuck
<1>10. ~hadEvents => pc \in {"wait", "lower"} /\ (pc = "wait" => events = 0)
  <2>1. ~(fw.lsb <=> pins.lsb) /\ events \in Nat
    BY <1>1, <1>2, TypeFacts
  <2> QED
    BY <1>1, <1>6, <2>1 DEF InStep, Requested
<1>11. InStep'
  BY <1>1, <1>2, <1>6, <1>10 DEF InStep, Requested
<1>12. Served'
  <2> SUFFICES ASSUME ~hadEvents PROVE Served'
    BY <1>2 DEF Served
  <2>1. pc = "wait" => At' = Asked'
    <3> SUFFICES ASSUME pc = "wait" PROVE At' = Asked'
      OBVIOUS
    <3>1. Len(served) = q \/ Len(served) = Asked
      BY <1>1, <1>2, <1>7 DEF Served, OpDone
    <3>2. Asked = q + 1
      BY DEF Asked, Before
    <3> QED
      BY <1>3, <1>4, <3>1, <3>2
  <2> QED
    BY <1>1, <1>2, <1>3, <1>10, <2>1 DEF Served, OpDone
<1>13. LinesInv'
  <2>1. Framing(At + 1) /\ Written(At + 1)
    BY <1>1, <1>3 DEF LinesInv
  <2>2. fw'.st = "busy" => Framing(At)' /\ Written(At)'
    BY <1>2, <1>3, <2>1 DEF Framing, Written, Mishandled, BlkStart, BlkEnd
  <2> QED
    BY <1>1, <1>2, <1>3, <1>6, <2>2 DEF LinesInv, Framing, Written, Mishandled, BlkStart, BlkEnd
<1>14. Delivered'
  BY <1>1, <1>2, <1>3 DEF Delivered, Mishandled
<1> QED
  BY <1>1, <1>2, <1>8, <1>9, <1>11, <1>12, <1>13, <1>14, HistoryKept DEF CallInv

LEMMA FwReleaseStep ==
    ASSUME ~slipped', CallInv, ControlInv', FwRelease, UNCHANGED <<events, hostVars>>
    PROVE  CallInv'
<1>1. TypeOK /\ DriverInv /\ FirmwareInv /\ InStep /\ Served /\ LinesInv /\ Delivered
      /\ OnlyAsked /\ Within /\ Framed
  BY DEF CallInv, ControlInv, GpiodInv
<1>2. /\ fw.st # "idle" /\ ~pins.req /\ fw'.st = "idle"
      /\ UNCHANGED <<pins, rdata, served, events, useEvents, pc, call, q, lsbVal, buf, ok, ret,
                     wasInput, hadEvents>>
  BY <1>1, TypeFacts DEF FwRelease, hostVars, FwStates
<1>3. Asked' = Asked /\ Odd' = Odd /\ Stuck' = Stuck /\ ~Pending' /\ (Ended' <=> Ended)
  BY <1>2 DEF Asked, Odd, Stuck, Pending, Ended, Succeeded
<1>4. pc \notin Requested /\ pc \notin Before
  BY <1>1, <1>2 DEF DriverInv, FirmwareInv
<1>5. DriverInv' /\ FirmwareInv'
  BY <1>1, <1>2, <1>3, <1>4 DEF DriverInv, FirmwareInv
<1>6. InStep' /\ Served'
  BY <1>1, <1>2, <1>3, <1>4 DEF InStep, Served, Requested
<1>7. LinesInv' /\ Delivered'
  BY <1>1, <1>2, <1>3, <1>4 DEF LinesInv, Delivered, Mishandled, Requested, Before
<1> QED
  BY <1>1, <1>2, <1>5, <1>6, <1>7, HistoryKept DEF CallInv

\* A served quadlet is the one asked for, next to the right lines.
LEMMA FwServeStep ==
    ASSUME ~slipped', CallInv, ControlInv', FwServe, EdgeEvent, UNCHANGED hostVars
    PROVE  CallInv'
<1>1. TypeOK /\ LoopInv /\ DriverInv /\ FirmwareInv /\ InStep /\ Served /\ LinesInv /\ Delivered
      /\ OnlyAsked /\ Within /\ Framed
  BY DEF CallInv, ControlInv, GpiodInv
<1>2. PICK v \in IF pins.out THEN {pins.wdata} ELSE Quads :
         /\ rdata' = IF pins.out THEN rdata ELSE v
         /\ served' = Append(served, [addr |-> fw.addr, write |-> pins.out, val |-> v,
                                      blkStart |-> pins.blkStart, blkEnd |-> pins.blkEnd])
  BY DEF FwServe, FwServeAs
<1> DEFINE e == [addr |-> fw.addr, write |-> pins.out, val |-> v,
                 blkStart |-> pins.blkStart, blkEnd |-> pins.blkEnd]
<1>3. /\ fw.st = "busy" /\ fw'.st = "done" /\ fw'.addr = fw.addr /\ fw'.lsb = fw.lsb
      /\ UNCHANGED <<pins, useEvents, pc, call, q, lsbVal, buf, ok, ret, wasInput, hadEvents>>
  BY <1>1, TypeFacts DEF FwServe, FwServeAs, hostVars, FwStates
<1>4. v \in Quads /\ e \in Quadlets
  BY <1>1, <1>2, TypeFacts DEF Quadlets
<1>5. /\ e.addr = fw.addr /\ e.write = pins.out /\ e.val = v
      /\ e.blkStart = pins.blkStart /\ e.blkEnd = pins.blkEnd
      /\ pins.out => v = pins.wdata
  BY <1>2
<1> HIDE DEF e
<1>6. /\ Len(served') = Len(served) + 1 /\ Len(served) \in Nat
      /\ DOMAIN served = 1 .. Len(served) /\ DOMAIN served' = 1 .. Len(served) + 1
      /\ served'[Len(served) + 1] = e
      /\ \A i \in 1 .. Len(served) : served'[i] = served[i]
  BY <1>1, <1>2, <1>4, TypeFacts DEF e
<1>7. /\ At = Len(served) + 1 /\ At' = At /\ Asked' = Asked /\ Odd' = Odd /\ Stuck' = Stuck
      /\ Ended' <=> Ended
  BY <1>3, <1>6 DEF At, Asked, Odd, Stuck, Ended, Succeeded
<1>8. pc \notin Before /\ pc # "ready" /\ (pins.out <=> IsWrite(call))
  BY <1>1, <1>3 DEF FirmwareInv, DriverInv
<1>9. /\ At \in 1 .. Asked /\ Asked \in Nat /\ Asked <= NonEmpty(call).n
      /\ fw.addr = QuadletAddr(call, At)
  <2>1. Asked \in Nat /\ Asked <= NonEmpty(call).n
    BY <1>1, <1>8, TypeFacts DEF Asked, LoopInv
  <2> QED
    BY <1>1, <1>3, <2>1 DEF FirmwareInv
<1>10. DriverInv'
  BY <1>1, <1>3, <1>7 DEF DriverInv
<1>11. FirmwareInv'
  <2>1. ~IsWrite(call) => rdata' = served'[Len(served')].val
    BY <1>2, <1>5, <1>6, <1>8
  <2> QED
    BY <1>1, <1>3, <1>7, <1>8, <1>9, <2>1 DEF FirmwareInv
<1>12. ~hadEvents => /\ pc \notin {"read", "data", "blkEnd", "toggle"}
                     /\ pins.req => (fw.lsb <=> pins.lsb)
                     /\ pc = "wait" => events = 0
  <2>1. ~OpDone /\ events \in Nat
    BY <1>1, <1>3, TypeFacts DEF OpDone
  <2> QED
    BY <1>1, <1>3, <2>1 DEF InStep
<1>13. InStep'
  <2>1. events = 0 => events' \in {0, 1}
    BY DEF EdgeEvent
  <2>2. pc = "wait" => pins.req
    BY <1>1 DEF DriverInv, Requested
  <2>3. events' > 0 /\ events' \in {0, 1} => events' = 1
    OBVIOUS
  <2> QED
    BY <1>3, <1>8, <1>12, <2>1, <2>2, <2>3 DEF InStep, OpDone
<1>14. Served'
  <2> SUFFICES ASSUME ~hadEvents, ~Stuck PROVE Served'
    BY <1>3, <1>7 DEF Served
  <2>1. pc = "wait" => Len(served') = Asked
    BY <1>1, <1>3, <1>6, <1>7 DEF Served
  <2>2. ~(Ended /\ call.n > 0)
    <3> SUFFICES ASSUME Ended, call.n > 0 PROVE FALSE
      OBVIOUS
    <3>1. Len(served) = call.n /\ NonEmpty(call).n = call.n
      BY <1>1, TypeFacts DEF Served
    <3> QED
      BY <1>6, <1>7, <1>9, <3>1
  <2> QED
    BY <1>3, <1>7, <1>12, <2>1, <2>2 DEF Served
<1>15. LinesInv'
  <2>1. ~hadEvents => ~Pending'
    BY <1>1, <1>3, <1>12, TypeFacts DEF Pending
  <2>2. hadEvents => \A i : Framing(i)' /\ Written(i)'
    BY <1>3 DEF Framing, Written, Mishandled, BlkStart, BlkEnd
  <2>3. Pending' => Framing(At + 1)' /\ Written(At + 1)'
    <3>1. CASE hadEvents
      BY <1>3, <3>1 DEF Framing, Written, Mishandled, BlkStart, BlkEnd
    <3> QED
      BY <2>1, <3>1
  <2> QED
    BY <1>1, <1>3, <1>7, <1>8, <2>3 DEF LinesInv, Framing, Written, Mishandled, BlkStart, BlkEnd
<1>16. Delivered'
  <2> SUFFICES ASSUME ~Mishandled, ~IsWrite(call) PROVE Delivered'
    BY <1>3 DEF Delivered, Mishandled
  <2>1. ASSUME NEW i \in 1 .. Len(buf)
        PROVE  i <= Len(served') /\ buf[i] = OnBus(call, served'[i].val)
    <3>1. i <= Len(served) /\ buf[i] = OnBus(call, served[i].val)
      BY <1>1 DEF Delivered
    <3>2. i \in 1 .. Len(served)
      BY <1>1, <1>6, <3>1, TypeFacts
    <3> QED
      BY <1>6, <3>1, <3>2
  <2> QED
    BY <1>1, <1>3, <1>7, <2>1 DEF Delivered
<1>17. InPlace(e, NonEmpty(call), At)
  <2>1. e.write = IsWrite(NonEmpty(call))
    <3>1. IsWrite(NonEmpty(call)) <=> IsWrite(call)
      BY <1>1, TypeFacts, NonEmptyFacts
    <3> QED
      BY <1>1, <1>5, <1>8, <3>1, TypeFacts DEF IsWrite
  <2>2. QuadletAddr(NonEmpty(call), At) = QuadletAddr(call, At)
    BY <1>1, TypeFacts, NonEmptyFacts DEF QuadletAddr
  <2>3. At <= NonEmpty(call).n
    <3>1. NonEmpty(call).n \in Nat
      BY <1>1, TypeFacts
    <3> QED
      BY <1>9, <3>1
  <2> QED
    BY <1>5, <1>9, <2>1, <2>2, <2>3 DEF InPlace
<1>18. Within'
  <2> SUFFICES ASSUME NEW i \in 1 .. Len(served) + 1
               PROVE  InPlace(served'[i], NonEmpty(call), i)
    BY <1>3, <1>6 DEF Within
  <2>1. CASE i = Len(served) + 1
    BY <2>1, <1>6, <1>7, <1>17
  <2>2. CASE i \in 1 .. Len(served)
    BY <1>1, <1>6, <2>2 DEF Within
  <2> QED
    BY <1>6, <2>1, <2>2
<1>19. OnlyAsked'
  <2> SUFFICES ASSUME ~Mishandled, NEW i \in 1 .. Len(served) + 1
               PROVE  Answers(served'[i], call, i)
    BY <1>3, <1>6 DEF OnlyAsked, Mishandled
  <2>1. CASE i = Len(served) + 1
    <3>1. NonEmpty(call) = call
      BY <1>1, TypeFacts, NonEmptySame DEF Mishandled
    <3>2. IsWrite(call) => e.val = OnBus(call, call.data[At])
      BY <1>1, <1>3, <1>5, <1>8 DEF LinesInv, Written
    <3> QED
      BY <2>1, <3>1, <3>2, <1>6, <1>7, <1>17 DEF Answers
  <2>2. CASE i \in 1 .. Len(served)
    BY <1>1, <1>6, <2>2 DEF OnlyAsked
  <2> QED
    BY <1>6, <2>1, <2>2
<1>20. Framed'
  <2> SUFFICES ASSUME IsBlock(call), ~hadEvents, NEW i \in 1 .. Len(served) + 1
               PROVE  /\ served'[i].blkStart = BlkStart(i)
                      /\ served'[i].blkEnd = BlkEnd(i)
    BY <1>3, <1>6 DEF Framed, BlkStart, BlkEnd
  <2>1. CASE i = Len(served) + 1
    <3>1. (pins.blkStart <=> BlkStart(i)) /\ (pins.blkEnd <=> BlkEnd(i))
      BY <1>1, <1>3, <1>7, <2>1 DEF LinesInv, Framing
    <3>2. BlkStart(i) \in BOOLEAN /\ BlkEnd(i) \in BOOLEAN
      BY DEF BlkStart, BlkEnd
    <3> QED
      BY <1>1, <1>5, <1>6, <2>1, <3>1, <3>2, TypeFacts
  <2>2. CASE i \in 1 .. Len(served)
    BY <1>1, <1>6, <2>2 DEF Framed
  <2> QED
    BY <1>6, <2>1, <2>2
<1> QED
  BY <1>10, <1>11, <1>13, <1>14, <1>15, <1>16, <1>18, <1>19, <1>20 DEF CallInv

-----------------------------------------------------------------------------
(* All steps.                                                              *)

LEMMA ReadQuadletStep ==
    ASSUME FabricPrompt, ~slipped', CallInv, ControlInv', ReadQuadlet
    PROVE  CallInv'
<1>1. ~IsWrite(call) /\ ~IsBlock(call) /\ call.op = "ReadQuadlet" /\ call.op # "ReadBlock"
  BY MethodFacts DEF ReadQuadlet
<1>2. CASE SetInput("addr")
  BY <1>1, <1>2, SetInputStep
<1>3. CASE SetAddr("ctrl", "ctrl")
  BY <1>1, <1>3, SetAddrStep
<1>4. CASE SetCtrl("ctrl", FALSE, FALSE, "request", "request")
  BY <1>1, <1>4, SetCtrlStep
<1>5. CASE SetReq("request", TRUE, "wait", "wait")
  BY <1>5, RequestStep
<1>6. CASE WaitOpDone("read") /\ q' = q
  BY <1>1, <1>6, WaitStep DEF WaitAs
<1>7. CASE GetData("lower")
  BY <1>1, <1>7, GetDataStep DEF ReadAs
<1>8. CASE SetReq("lower", FALSE, "return", "return")
  BY <1>1, <1>8, LowerStep
<1> QED
  BY <1>2, <1>3, <1>4, <1>5, <1>6, <1>7, <1>8, ReturnStep DEF ReadQuadlet

LEMMA WriteQuadletStep ==
    ASSUME FabricPrompt, ~slipped', CallInv, ControlInv', WriteQuadlet
    PROVE  CallInv'
<1>1. IsWrite(call) /\ ~IsBlock(call) /\ call.op = "WriteQuadlet" /\ call.op # "ReadBlock"
      /\ call.op # "ReadQuadlet"
  BY MethodFacts DEF WriteQuadlet
<1>2. CASE SetOutput("setData", [pins EXCEPT !.wdata = DataOnBus])
  <2> DEFINE p == [pins EXCEPT !.wdata = DataOnBus]
  <2>1. TypeOK
    BY DEF CallInv, ControlInv, GpiodInv
  <2>2. p.out = pins.out /\ p.req = pins.req /\ p.blkEnd = pins.blkEnd /\ p.wdata = DataOnBus
    BY <2>1, TypeFacts DEF PinStates
  <2>3. SetOutput("setData", p)
    BY <1>2
  <2> HIDE DEF p
  <2> QED
    BY <1>1, <2>2, <2>3, SetOutputStep
<1>3. CASE SetAddr("ctrl", "ctrl")
  BY <1>1, <1>3, SetAddrStep
<1>4. CASE SetCtrl("ctrl", FALSE, TRUE, "request", "request")
  BY <1>1, <1>4, SetCtrlStep
<1>5. CASE SetReq("request", TRUE, "wait", "wait")
  BY <1>5, RequestStep
<1>6. CASE WaitOpDone("lower") /\ q' = q
  BY <1>1, <1>6, WaitStep DEF WaitAs
<1>7. CASE SetReq("lower", FALSE, "zero", "zero")
  BY <1>7, LowerStep
<1>8. CASE SetCtrl("zero", FALSE, FALSE, "return", "return")
  BY <1>8, ZeroStep
<1> QED
  BY <1>2, <1>3, <1>4, <1>5, <1>6, <1>7, <1>8, ReturnStep DEF WriteQuadlet

LEMMA ReadBlockStep ==
    ASSUME FabricPrompt, ~slipped', CallInv, ControlInv', ReadBlock
    PROVE  CallInv'
<1>1. ~IsWrite(call) /\ IsBlock(call) /\ call.op = "ReadBlock" /\ call.op # "ReadQuadlet"
  BY MethodFacts DEF ReadBlock
<1>2. CASE SetInput("ctrl")
  BY <1>1, <1>2, SetInputStep
<1>3. CASE SetCtrl("ctrl", TRUE, FALSE, "addr", "return")
  BY <1>1, <1>3, SetCtrlStep
<1>4. CASE SetAddr("lsb", "zero")
  BY <1>1, <1>4, SetAddrStep
<1>5. CASE SetLsb("request")
  BY <1>1, <1>5, SetLsbStep
<1>6. CASE SetReq("request", TRUE, IF call.n = 0 THEN "lower" ELSE "wait", "zero")
  BY <1>1, <1>6, RequestStep
<1>7. CASE SetCtrl("blkEnd", FALSE, TRUE, "toggle", "lower")
  BY <1>7, BlkEndStep
<1>8. CASE WaitOpDone("read") /\ q' = q
  BY <1>1, <1>8, WaitStep DEF WaitAs
<1>9. CASE GetData(IF q + 1 < call.n THEN BlkEndIfLast(q + 2) ELSE "lower")
  BY <1>1, <1>9, GetDataStep DEF ReadAs
<1>10. CASE SetReq("lower", FALSE, "zero", "zero")
  BY <1>10, LowerStep
<1>11. CASE SetCtrl("zero", FALSE, FALSE, "return", "return")
  BY <1>11, ZeroStep
<1> QED
  BY <1>2, <1>3, <1>4, <1>5, <1>6, <1>7, <1>8, <1>9, <1>10, <1>11, ToggleLsbStep,
     ReturnStep DEF ReadBlock

LEMMA WriteBlockStep ==
    ASSUME FabricPrompt, ~slipped', CallInv, ControlInv', WriteBlock
    PROVE  CallInv'
<1>1. IsWrite(call) /\ IsBlock(call) /\ call.op = "WriteBlock" /\ call.op # "ReadQuadlet"
      /\ call.op # "ReadBlock"
  BY MethodFacts DEF WriteBlock
<1>2. CASE SetOutput("none", pins)
  <2>1. ~isInput => Mishandled
    BY <1>1, <1>2 DEF CallInv, ControlInv, LoopInv, Mishandled, SetOutput, SetUnchecked, Set
  <2> QED
    BY <1>1, <1>2, <2>1, SetOutputStep
<1>3. CASE SetAddr("lsb", "lsb")
  BY <1>1, <1>3, SetAddrStep
<1>4. CASE SetLsb("ctrl")
  BY <1>1, <1>4, SetLsbStep
<1>5. CASE SetCtrl("ctrl", TRUE, FALSE, "request", "request")
  BY <1>1, <1>5, SetCtrlStep
<1>6. CASE SetReq("request", TRUE, "wait", "wait")
  BY <1>6, RequestStep
<1>7. CASE WaitOpDone(IF q + 1 < call.n THEN "data" ELSE "lower") /\ q' = q + 1
  BY <1>1, <1>7, WaitStep DEF WaitAs
<1>8. CASE SetCtrl("blkEnd", FALSE, TRUE, "toggle", "toggle")
  BY <1>8, BlkEndStep
<1>9. CASE SetReq("lower", FALSE, "zero", "zero")
  BY <1>9, LowerStep
<1>10. CASE SetCtrl("zero", FALSE, FALSE, "return", "return")
  BY <1>10, ZeroStep
<1> QED
  BY <1>2, <1>3, <1>4, <1>5, <1>6, <1>7, <1>8, <1>9, <1>10, SetDataStep,
     ToggleLsbStep, ReturnStep DEF WriteBlock

\* The steps of the four methods, by what they do. Only calls that change the
\* direction always have their result checked.
Inside == Labels \ {"ready"}

LEMMA DriverKinds ==
    ASSUME Driver
    PROVE  \/ \E kind \in Kinds \cup {"none"} : \E p : \E from, to, bad \in Inside :
                 /\ Set(kind, from, p, to, bad)
                 /\ bad = to => kind \in {"setData", "addr", "lsb", "ctrl", "req", "none"}
           \/ \E to \in Inside : WaitOpDone(to)
           \/ \E to : GetData(to) /\ ReadAs(to)
           \/ Return
<1> DEFINE Setting == \E kind \in Kinds \cup {"none"} : \E p : \E from, to, bad \in Inside :
                         /\ Set(kind, from, p, to, bad)
                         /\ bad = to => kind \in {"setData", "addr", "lsb", "ctrl", "req", "none"}
<1>1. ASSUME NEW kind \in {"setData", "addr", "lsb", "ctrl", "req", "none"}, NEW p,
             NEW from \in Inside, NEW to \in Inside, NEW bad \in Inside,
             Set(kind, from, p, to, bad)
      PROVE  Setting
  BY <1>1 DEF Kinds
<1>2. ASSUME NEW p, NEW to \in {"addr", "ctrl"}, Set("direction", "dir", p, to, "return")
      PROVE  Setting
  <2>1. "direction" \in Kinds \cup {"none"} /\ {"dir", to, "return"} \subseteq Inside /\ to # "return"
    BY DEF Inside, Labels, Kinds
  <2> QED
    BY <1>2, <2>1
<1> HIDE DEF Setting
<1>3. ASSUME NEW to \in {"addr", "ctrl"}, SetInput(to) PROVE Setting
  BY <1>1, <1>2, <1>3 DEF SetInput, Inside, Labels
<1>4. ASSUME NEW kind \in {"setData", "none"}, NEW p, SetOutput(kind, p) PROVE Setting
  BY <1>1, <1>2, <1>4 DEF SetOutput, SetUnchecked, Inside, Labels
<1>5. ASSUME NEW to \in Inside, NEW bad \in Inside, SetAddr(to, bad) \/ SetLsb(to) PROVE Setting
  BY <1>1, <1>5 DEF SetAddr, SetLsb, SetUnchecked, Inside, Labels
<1>6. ASSUME NEW from \in Inside, NEW to \in Inside, NEW bad \in Inside, NEW x, NEW y,
             SetCtrl(from, x, y, to, bad) \/ SetReq(from, x, to, bad)
      PROVE  Setting
  BY <1>1, <1>6 DEF SetCtrl, SetReq
<1>7. ASSUME ToggleLsb \/ SetData(BlkEndIfLast(q + 1)) PROVE Setting
  BY <1>1, <1>7 DEF ToggleLsb, SetData, SetUnchecked, BlkEndIfLast, Inside, Labels
<1>8. {"dir", "data", "addr", "lsb", "ctrl", "request", "wait", "read", "blkEnd", "toggle",
       "lower", "zero", "return"} \subseteq Inside
  BY DEF Inside, Labels
<1>9. Setting \/ (\E to \in Inside : WaitOpDone(to)) \/ (\E to : GetData(to) /\ ReadAs(to)) \/ Return
  <2>1. CASE ReadQuadlet
    BY <2>1, <1>3, <1>5, <1>6, <1>8 DEF ReadQuadlet, ReadAs
  <2>2. CASE WriteQuadlet
    BY <2>2, <1>4, <1>5, <1>6, <1>8 DEF WriteQuadlet
  <2>3. CASE ReadBlock
    BY <2>3, <1>3, <1>5, <1>6, <1>7, <1>8 DEF ReadBlock, ReadAs
  <2>4. CASE WriteBlock
    BY <2>4, <1>4, <1>5, <1>6, <1>7, <1>8 DEF WriteBlock
  <2> QED
    BY <2>1, <2>2, <2>3, <2>4 DEF Driver
<1> QED
  BY <1>9 DEF Setting

\* A call that has slipped stays one.
LEMMA SlippedKept ==
    ASSUME [Next]_vars, ~Enter, slipped
    PROVE  slipped'
<1>1. CASE Driver
  BY <1>1, DriverKinds DEF Set, WaitOpDone, GetData, Return
<1> QED
  BY <1>1 DEF Next, SetEventMode, Fabric, hostVars, vars

LEMMA InitInv == Init => IInv
<1> SUFFICES ASSUME Init PROVE IInv
  OBVIOUS
<1>1. ControlInv
  BY InitControl
<1>2. /\ pc = "ready" /\ ~pins.req /\ ~pins.blkEnd /\ fw.st = "idle" /\ served = <<>>
      /\ events = 0 /\ ret = "none" /\ slipped = FALSE
  BY DEF Init, BusInit
<1>3. ~Ended
  BY <1>2 DEF Ended, Succeeded
<1>4. buf = <<>>
  BY DEF Init
<1>5. DriverInv /\ FirmwareInv /\ InStep /\ Served
  BY <1>2, <1>3 DEF DriverInv, FirmwareInv, InStep, Served, OpDone, Before, Requested
<1>6. LinesInv /\ Delivered
  BY <1>2, <1>3, <1>4 DEF LinesInv, Delivered, Pending, Before
<1>7. OnlyAsked /\ Within /\ Framed
  BY <1>2 DEF OnlyAsked, Within, Framed, BlkStart, BlkEnd
<1> QED
  BY <1>1, <1>2, <1>5, <1>6, <1>7 DEF IInv, CallInv

\* CallInv is kept by every step of a call that does not slip.
LEMMA NextCallInv ==
    ASSUME FabricPrompt, CallInv, ControlInv', ~slipped', [Next]_vars, ~Enter
    PROVE  CallInv'
<1>1. CASE Driver
  BY <1>1, ReadQuadletStep, WriteQuadletStep, ReadBlockStep, WriteBlockStep DEF Driver
<1>2. CASE Fabric
  <2>1. CASE FwServe /\ EdgeEvent /\ UNCHANGED hostVars
    BY <2>1, FwServeStep
  <2>2. CASE FwAccept /\ UNCHANGED <<events, hostVars>>
    BY <2>2, FwAcceptStep
  <2>3. CASE FwNext /\ UNCHANGED <<events, hostVars>>
    BY <2>3, FwNextStep
  <2>4. CASE FwRelease /\ UNCHANGED <<events, hostVars>>
    BY <2>4, FwReleaseStep
  <2> QED
    BY <1>2, <2>1, <2>2, <2>3, <2>4 DEF Fabric
<1>3. CASE UNCHANGED vars
  BY <1>3 DEF vars, busVars, hostVars, CallInv, DriverInv, FirmwareInv, InStep, Served, LinesInv,
     Delivered, OnlyAsked, Within, Framed, Asked, At, Pending, Odd, Stuck, Ended, Succeeded,
     OpDone, Framing, Written, Mishandled, BlkStart, BlkEnd
<1> QED
  BY <1>1, <1>2, <1>3, SetEventModeStep DEF Next

LEMMA NextInv ==
    ASSUME FabricPrompt, IInv, [Next]_vars
    PROVE  IInv'
<1>1. ControlInv /\ ControlInv'
  BY NextControl DEF IInv
<1>2. CASE slipped'
  BY <1>1, <1>2 DEF IInv
<1>3. CASE ~slipped' /\ Enter
  BY <1>1, <1>3, EnterStep DEF IInv
<1>4. CASE ~slipped' /\ ~Enter
  <2>1. CallInv
    BY <1>4, SlippedKept DEF IInv
  <2> QED
    BY <1>1, <1>4, <2>1, NextCallInv DEF IInv
<1> QED
  BY <1>2, <1>3, <1>4

-----------------------------------------------------------------------------
(* The theorems. They hold for every Faulty, and ask only for FabricPrompt.*)

\* The driver, the firmware and the kernel's event queue agree on how far a call has
\* come, except in the situations that Mishandled names and in calls that slip; what a
\* slip has spoilt is over with the call that slipped.
THEOREM Agreement ==
    ASSUME FabricPrompt
    PROVE  Spec => []IInv
<1>1. IInv /\ [Next]_vars => IInv'
  BY NextInv
<1> QED
  BY <1>1, InitInv, PTL DEF Spec

\* A call that returns true and has not slipped has read or written exactly the
\* registers it was asked to, in either wait mode and after any earlier calls.
THEOREM ExactCalls ==
    ASSUME FabricPrompt
    PROVE  Spec => []CallExact
<1>1. IInv => CallExact
  <2> SUFFICES ASSUME IInv, Succeeded, ~Mishandled, ~slipped
               PROVE  Carried
    BY DEF CallExact
  <2>1. TypeOK /\ Served /\ Delivered /\ OnlyAsked
    BY DEF IInv, CallInv, ControlInv, GpiodInv
  <2>2. call.n \in Nat /\ call.n # 0 /\ ~hadEvents /\ ~Stuck /\ Ended
    BY <2>1, TypeFacts DEF Mishandled, Stuck, Odd, Ended
  <2>3. Len(served) = call.n /\ DOMAIN served = 1 .. call.n
    BY <2>1, <2>2, TypeFacts DEF Served
  <2>4. ~IsWrite(call) => Len(buf) = call.n
    BY <2>1, <2>2 DEF Delivered
  <2> QED
    BY <2>1, <2>3, <2>4 DEF Carried, OnlyAsked, Delivered
<1> QED
  BY <1>1, Agreement, PTL

\* Even a call that the contract excuses stays within its registers and its
\* direction, unless it slips.
THEOREM ConfinedAlways ==
    ASSUME FabricPrompt
    PROVE  Spec => []Confined
<1>1. IInv => Confined
  BY DEF IInv, CallInv, Confined
<1> QED
  BY <1>1, Agreement, PTL

\* Beside every quadlet of a block, of whatever length, are the blk_start and blk_end of its
\* place, those of a block of one being blk_start alone. Calls that slip and calls that
\* begin with an event queued are excepted.
THEOREM BlockFramedAlways ==
    ASSUME FabricPrompt
    PROVE  Spec => []BlockFramed
<1>1. IInv => BlockFramed
  BY DEF IInv, CallInv, BlockFramed
<1> QED
  BY <1>1, Agreement, PTL

LEMMA QuietHolds == IInv => QuietBetweenCalls
BY DEF IInv, CallInv, DriverInv, QuietBetweenCalls, Quiet, Requested

\* Between calls req_bus is low and blk_end is not left set, also after failures that
\* the driver has looked at.
THEOREM QuietAlways ==
    ASSUME FabricPrompt
    PROVE  Spec => []QuietBetweenCalls
<1>1. IInv => QuietBetweenCalls
  BY QuietHolds
<1> QED
  BY <1>1, Agreement, PTL

\* No call ever slips if the calls whose results the driver ignores do not fail: then
\* the theorems above and DriverImplements promise what they say of every call. The
\* direction of the data lines, their reading, and the waits may fail at any time.
THEOREM NeverSlips ==
    ASSUME FabricPrompt, Faulty \cap {"setData", "addr", "lsb", "ctrl", "req"} = {}
    PROVE  Spec => []~slipped
<1> DEFINE Inv == IInv /\ ~slipped
<1>1. Init => Inv
  BY InitInv DEF Init
<1>2. Inv /\ [Next]_vars => Inv'
  <2> SUFFICES ASSUME IInv, ~slipped, [Next]_vars PROVE ~slipped'
    BY NextInv
  <2>1. CASE Driver
    <3>1. "none" \notin Faulty
      BY GpiodAssumption DEF Kinds
    <3> QED
      BY <2>1, <3>1, DriverKinds DEF Set, WaitOpDone, GetData, Return
  <2>2. CASE Enter
    BY <2>2 DEF Enter, IInv, CallInv, DriverInv, Quiet, Requested
  <2> QED
    BY <2>1, <2>2 DEF Next, SetEventMode, Fabric, hostVars, vars
<1> QED
  BY <1>1, <1>2, PTL DEF Spec

-----------------------------------------------------------------------------
(* The driver implements EmioContract.                                     *)

\* The contract's instance talks about the same calls as the driver.
LEMMA SameCalls ==
    /\ Contract!Calls = Calls
    /\ Contract!Quadlets = Quadlets
    /\ \A c : (Contract!IsBlock(c) <=> IsBlock(c)) /\ (Contract!IsWrite(c) <=> IsWrite(c))
    /\ \A c : Contract!NonEmpty(c) = NonEmpty(c)
    /\ \A c, v : Contract!OnBus(c, v) = OnBus(c, v)
    /\ \A e, c, i : /\ Contract!InPlace(e, c, i) <=> InPlace(e, c, i)
                    /\ Contract!Answers(e, c, i) <=> Answers(e, c, i)
<1>1. Contract!Calls = Calls
  BY DEF Calls, Contract!Calls, CallsOf, Contract!CallsOf, Addrs, Contract!Addrs,
     Quadded, Contract!Quadded, Writes, Contract!Writes, Blocks, Contract!Blocks
<1>2. Contract!Quadlets = Quadlets
  BY DEF Quadlets, Contract!Quadlets, Addrs, Contract!Addrs
<1>3. \A c : (Contract!IsBlock(c) <=> IsBlock(c)) /\ (Contract!IsWrite(c) <=> IsWrite(c))
  BY DEF IsBlock, IsWrite, Contract!IsBlock, Contract!IsWrite, Blocks, Writes,
     Contract!Blocks, Contract!Writes
<1>4. \A c, v : Contract!OnBus(c, v) = OnBus(c, v)
  BY <1>3 DEF OnBus, Contract!OnBus, bswap_32, Contract!bswap_32
<1>5. \A c : Contract!IsWrite(c) = IsWrite(c)
  BY Zenon DEF IsWrite, Contract!IsWrite, Writes, Contract!Writes, Blocks, Contract!Blocks
<1>6. \A e, c, i : Contract!InPlace(e, c, i) <=> InPlace(e, c, i)
  BY <1>5, Zenon DEF InPlace, Contract!InPlace, QuadletAddr, Contract!QuadletAddr
<1>7. \A e, c, i : Contract!Answers(e, c, i) <=> Answers(e, c, i)
  BY <1>3, <1>4, <1>6, Zenon DEF Answers, Contract!Answers
<1>8. \A c : Contract!NonEmpty(c) = NonEmpty(c)
  BY DEF NonEmpty, Contract!NonEmpty
<1> QED
  BY <1>1, <1>2, <1>3, <1>4, <1>6, <1>7, <1>8

\* A step within a call that touches neither the bus's history nor the caller's
\* buffer is invisible.
LEMMA HiddenStep ==
    ASSUME UNCHANGED <<served, buf, call, ret, wasInput, hadEvents, slipped>>,
           pc # "ready", pc' # "ready"
    PROVE  UNCHANGED Contract!vars
BY DEF Contract!vars, Mishandled

\* Every access to the lines but the reading of data: invisible, or the call is lost.
LEMMA SetImplements ==
    ASSUME TypeOK, NEW kind, NEW from, NEW p, NEW to, NEW bad, Set(kind, from, p, to, bad),
           "ready" \notin {from, to, bad}
    PROVE  [Contract!Next]_Contract!vars
<1>1. /\ UNCHANGED <<served, buf, call, ret, wasInput, hadEvents>>
      /\ pc = from /\ pc' \in {to, bad} /\ slipped \in BOOLEAN
      /\ slipped' = slipped \/ slipped' = (slipped \/ bad = to)
  BY TypeFacts DEF Set, Frame
<1>2. CASE slipped' = slipped
  BY <1>1, <1>2, HiddenStep
<1>3. CASE ~slipped /\ slipped' = TRUE
  <2>1. Mishandled' = Mishandled
    BY <1>1 DEF Mishandled
  <2>2. Contract!Lose
    BY <1>1, <1>3, <2>1 DEF Contract!Lose
  <2> QED
    BY <2>2 DEF Contract!Next
<1> QED
  BY <1>1, <1>2, <1>3

\* Reading the data lines hands over the quadlet that the firmware delivered.
LEMMA GetDataImplements ==
    ASSUME IInv, NEW to, GetData(to), ReadAs(to)
    PROVE  [Contract!Next]_Contract!vars
<1>1. TypeOK /\ LoopInv
  BY DEF IInv, ControlInv, GpiodInv
<1>2. /\ pc = "read" /\ UNCHANGED <<served, call, ret, wasInput, hadEvents, slipped>>
      /\ \/ pc' = to /\ buf' = Append(buf, OnBus(call, rdata))
         \/ pc' = "lower" /\ buf' = buf
  BY DEF GetData, Frame
<1>3. ~IsWrite(call) /\ rdata \in Quads /\ buf \in Seq(Quads)
  BY <1>1, <1>2, TypeFacts DEF LoopInv
<1>4. pc # "ready" /\ pc' # "ready" /\ Mishandled' = Mishandled
  BY <1>2 DEF ReadAs, BlkEndIfLast, Mishandled
<1>5. CASE buf' = buf
  BY <1>2, <1>4, <1>5, HiddenStep
<1>6. CASE buf' = Append(buf, OnBus(call, rdata))
  <2>1. Len(buf') = Len(buf) + 1
    <3>1. OnBus(call, rdata) \in Quads
      BY <1>3, OnBusType
    <3> QED
      BY <1>3, <1>6, <3>1
  <2>2. ~Mishandled /\ ~slipped => Len(buf') <= Len(served) /\ rdata = served[Len(buf')].val
    <3> SUFFICES ASSUME ~Mishandled, ~slipped
                 PROVE  Len(buf') <= Len(served) /\ rdata = served[Len(buf')].val
      OBVIOUS
    <3>1. FirmwareInv /\ InStep /\ Served /\ Delivered
      BY DEF IInv, CallInv
    <3>2. Len(buf) = q /\ Asked = q + 1
      BY <1>2, <1>3, <3>1 DEF Delivered, Asked, Before
    <3>3. ~hadEvents /\ ~Stuck
      BY DEF Mishandled, Stuck, Odd
    <3>4. OpDone /\ Len(served) = q + 1
      BY <1>2, <3>1, <3>2, <3>3 DEF InStep, Served
    <3>5. rdata = served[Len(served)].val
      BY <1>3, <3>1, <3>4 DEF FirmwareInv, OpDone
    <3> QED
      BY <1>1, <2>1, <3>2, <3>4, <3>5, TypeFacts
  <2>3. Contract!Deliver
    BY <1>2, <1>3, <1>4, <1>6, <2>2, SameCalls DEF Contract!Deliver
  <2> QED
    BY <2>3 DEF Contract!Next
<1> QED
  BY <1>2, <1>5, <1>6

\* Serving a quadlet is a transaction of the contract.
LEMMA FwServeImplements ==
    ASSUME IInv, IInv', FwServe, UNCHANGED hostVars
    PROVE  Contract!Transact
<1>1. PICK v \in IF pins.out THEN {pins.wdata} ELSE Quads :
         served' = Append(served, [addr |-> fw.addr, write |-> pins.out, val |-> v,
                                   blkStart |-> pins.blkStart, blkEnd |-> pins.blkEnd])
  BY DEF FwServe, FwServeAs
<1> DEFINE e == [addr |-> fw.addr, write |-> pins.out, val |-> v,
                 blkStart |-> pins.blkStart, blkEnd |-> pins.blkEnd]
<1>2. TypeOK /\ fw.st = "busy"
  BY DEF IInv, ControlInv, GpiodInv, FwServe, FwServeAs
<1>3. e \in Quadlets /\ served \in Seq(Quadlets)
  BY <1>1, <1>2, TypeFacts DEF Quadlets
<1>4. /\ Len(served') = Len(served) + 1 /\ served'[Len(served')] = e
      /\ Len(served') \in DOMAIN served'
  BY <1>1, <1>3
<1>5. UNCHANGED <<pc, call, buf, ret, wasInput, hadEvents, slipped>>
  BY DEF hostVars
<1>6. Mishandled' = Mishandled /\ (pc' # "ready") = (pc # "ready")
  BY <1>5 DEF Mishandled
<1>7. ~slipped => /\ pc # "ready" /\ InPlace(e, NonEmpty(call), Len(served'))
                  /\ ~Mishandled => Answers(e, call, Len(served'))
  <2> SUFFICES ASSUME ~slipped
               PROVE  /\ pc # "ready" /\ InPlace(e, NonEmpty(call), Len(served'))
                      /\ ~Mishandled => Answers(e, call, Len(served'))
    OBVIOUS
  <2>1. FirmwareInv /\ OnlyAsked' /\ Within'
    BY <1>5 DEF IInv, CallInv
  <2> HIDE DEF e
  <2> QED
    BY <1>2, <1>4, <1>5, <1>6, <2>1 DEF FirmwareInv, OnlyAsked, Within
<1> HIDE DEF e
<1>8. served' = Append(served, e)
  BY <1>1 DEF e
<1>9. ~Mishandled /\ ~slipped => InPlace(e, call, Len(served'))
  BY <1>7 DEF Answers
<1> QED
  BY <1>3, <1>5, <1>6, <1>7, <1>8, <1>9, SameCalls DEF Contract!Transact

\* Returning true is a contract's Finish: all quadlets are served and delivered.
LEMMA ReturnImplements ==
    ASSUME IInv, Return
    PROVE  Contract!Finish
<1>1. /\ pc = "return" /\ pc' = "ready" /\ ret' = (IF ok THEN "true" ELSE "false")
      /\ UNCHANGED <<served, call, buf, wasInput, hadEvents, slipped>>
  BY DEF Return, Frame
<1>2. ~Mishandled /\ ~slipped /\ ok => Len(served) = call.n /\ (~IsWrite(call) => Len(buf) = call.n)
  <2> SUFFICES ASSUME ~Mishandled, ~slipped, ok
               PROVE  Len(served) = call.n /\ (~IsWrite(call) => Len(buf) = call.n)
    OBVIOUS
  <2>1. TypeOK /\ Served /\ Delivered
    BY DEF IInv, CallInv, ControlInv, GpiodInv
  <2>2. call.n \in Nat /\ call.n # 0 /\ ~hadEvents /\ ~Stuck /\ Ended
    BY <1>1, <2>1, TypeFacts DEF Mishandled, Stuck, Odd, Ended
  <2> QED
    BY <2>1, <2>2 DEF Served, Delivered
<1>3. Mishandled' = Mishandled
  BY <1>1 DEF Mishandled
<1> QED
  BY <1>1, <1>2, <1>3, SameCalls DEF Contract!Finish

\* Entering a method is a contract's Begin, and only a call that slipped leaves what
\* makes the next one slip.
LEMMA EnterImplements ==
    ASSUME IInv, Enter
    PROVE  Contract!Begin
<1>1. pc = "ready" /\ call' \in Calls /\ served' = <<>> /\ buf' = <<>>
  BY DEF Enter
<1>2. \/ pc' = "ready" /\ ret' = "false" /\ IsBlock(call')
      \/ pc' = "dir" /\ ret' = "none"
  BY DEF Enter
<1>3. Mishandled' \in BOOLEAN
  BY DEF Mishandled
<1>4. slipped' \in {FALSE, slipped}
  <2>1. slipped \in BOOLEAN /\ slipped' \in BOOLEAN
    BY DEF Enter, IInv, ControlInv, GpiodInv, TypeOK
  <2>2. ~slipped => ~slipped'
    BY <1>1, QuietHolds DEF QuietBetweenCalls, Enter
  <2> QED
    BY <2>1, <2>2
<1> QED
  BY <1>1, <1>2, <1>3, <1>4, SameCalls DEF Contract!Begin

\* Every step of the gpiod driver and of the firmware is a step of the contract.
LEMMA NextImplements ==
    ASSUME IInv, IInv', [Next]_vars
    PROVE  [Contract!Next]_Contract!vars
<1>1. CASE Enter
  BY <1>1, EnterImplements DEF Contract!Next
<1>2. CASE SetEventMode
  BY <1>2 DEF SetEventMode, busVars, Contract!vars, Mishandled
<1>3. CASE Driver
  <2>1. CASE \E kind, p : \E from, to, bad \in Inside : Set(kind, from, p, to, bad)
    BY <2>1, SetImplements DEF Inside, IInv, ControlInv, GpiodInv
  <2>2. CASE \E to \in Inside : WaitOpDone(to)
    BY <2>2, WaitMoves, HiddenStep DEF Inside, Labels
  <2>3. CASE \E to : GetData(to) /\ ReadAs(to)
    BY <2>3, GetDataImplements
  <2>4. CASE Return
    BY <2>4, ReturnImplements DEF Contract!Next
  <2> QED
    BY <1>3, <2>1, <2>2, <2>3, <2>4, DriverKinds
<1>4. CASE Fabric
  <2>1. CASE FwServe
    BY <1>4, <2>1, FwServeImplements DEF Fabric, Contract!Next
  <2>2. CASE FwAccept \/ FwNext \/ FwRelease
    BY <1>4, <2>2 DEF Fabric, FwAccept, FwNext, FwRelease, hostVars, Contract!vars, Mishandled
  <2> QED
    BY <1>4, <2>1, <2>2 DEF Fabric
<1>5. CASE UNCHANGED vars
  BY <1>5 DEF vars, busVars, hostVars, Contract!vars, Mishandled
<1> QED
  BY <1>1, <1>2, <1>3, <1>4, <1>5 DEF Next

\* The gpiod driver together with the firmware and the kernel's event queue
\* implements EMIO_Interface as EmioContract states it, whichever libgpiod calls fail.
THEOREM DriverImplements ==
    ASSUME FabricPrompt
    PROVE  Spec => ImplementsContract
<1>1. Init => Contract!Init
  <2> SUFFICES ASSUME Init PROVE Contract!Init
    OBVIOUS
  <2>1. ~Mishandled
    <3>1. call.n = 1 /\ ~IsBlock(call)
      BY CallFacts DEF Init, IsBlock, Blocks
    <3> QED
      BY <3>1 DEF Init, Mishandled, IsBlock, Blocks
  <2> QED
    BY <2>1, SameCalls DEF Init, BusInit, Contract!Init
<1>2. IInv /\ IInv' /\ [Next]_vars => [Contract!Next]_Contract!vars
  BY NextImplements
<1> QED
  BY <1>1, <1>2, Agreement, PTL DEF Spec, ImplementsContract, Contract!Spec

=============================================================================
