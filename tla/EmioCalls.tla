------------------------------ MODULE EmioCalls ------------------------------
(***************************************************************************)
(* The calls of EMIO_Interface (fpgav3_emio.h) that reach the FPGA         *)
(* registers, and the bus transactions each of them stands for. Shared by  *)
(* the drivers, the bus and the contract; it has no state.                 *)
(***************************************************************************)
EXTENDS Integers, Sequences

CONSTANTS
    AddrSpace,    \* number of register addresses (2^16 in the code)
    Quads,        \* the 32-bit values told apart
    Swap,         \* bswap_32 on Quads
    ByteCounts    \* the block lengths, in bytes, that callers ask for

ASSUME CallsAssumption ==
    /\ AddrSpace \in Nat \ {0} /\ AddrSpace % 2 = 0
    /\ Quads # {}
    /\ Swap \in [Quads -> Quads] /\ \A v \in Quads : Swap[Swap[v]] = v
    /\ ByteCounts \subseteq Nat

Addrs == 0 .. AddrSpace - 1

bswap_32(v) == Swap[v]

Blocks == {"ReadBlock", "WriteBlock"}
Writes == {"WriteQuadlet", "WriteBlock"}
Ops    == Blocks \cup Writes \cup {"ReadQuadlet"}

\* A block of nBytes is rounded up to whole quadlets.
Quadded(nBytes) == (nBytes + 3) \div 4

\* A call: its method, start address, number of quadlets, and for a write the
\* array of that many quadlets.
CallsOf(op, n) ==
    [op : {op}, addr : Addrs, n : {n},
     data : IF op \in Writes THEN [1 .. n -> Quads] ELSE {<<>>}]

Calls ==
    UNION ({CallsOf(op, 1) : op \in {"ReadQuadlet", "WriteQuadlet"}} \cup
           {CallsOf(op, Quadded(b)) : op \in Blocks, b \in ByteCounts})

IsBlock(c) == c.op \in Blocks
IsWrite(c) == c.op \in Writes

\* Address of the i-th quadlet of call c (uint16_t arithmetic).
QuadletAddr(c, i) == (c.addr + i - 1) % AddrSpace

\* Block data is in memory order and is swapped on the way; quadlets are not.
OnBus(c, v) == IF IsBlock(c) THEN bswap_32(v) ELSE v

\* A bus transaction: register, direction, value, and the block pins beside it.
Quadlets == [addr : Addrs, write : BOOLEAN, val : Quads,
             blkStart : BOOLEAN, blkEnd : BOOLEAN]

\* Bus transaction e goes where the i-th one of call c should, the way it should.
InPlace(e, c, i) ==
    /\ i <= c.n
    /\ e.addr = QuadletAddr(c, i)
    /\ e.write = IsWrite(c)

\* Call c with its start address counted in if it is an empty block.
NonEmpty(c) == [c EXCEPT !.n = IF c.n = 0 THEN 1 ELSE c.n]

\* Bus transaction e is the i-th one that call c asks for.
Answers(e, c, i) ==
    /\ InPlace(e, c, i)
    /\ IsWrite(c) => e.val = OnBus(c, c.data[i])

=============================================================================
