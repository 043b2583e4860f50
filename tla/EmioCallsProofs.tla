--------------------------- MODULE EmioCallsProofs ---------------------------
(***************************************************************************)
(* Facts about calls and register addresses that the driver proofs use.    *)
(***************************************************************************)
EXTENDS EmioCalls, TLAPS

\* A positive multiple of N is at least N.
LEMMA MultipleBound ==
    ASSUME NEW N \in Nat \ {0}, NEW e \in Int, e >= 1
    PROVE  N * e >= N
<1>1. N * e = N * (e - 1) + N
  BY SMT
<1>2. N * (e - 1) >= 0
  BY SMT
<1> QED
  BY <1>1, <1>2, SMT

\* Quotient and remainder are unique.
LEMMA RemainderUnique ==
    ASSUME NEW N \in Nat \ {0}, NEW d \in Int, NEW r \in 0 .. N - 1,
           NEW e \in Int, NEW s \in 0 .. N - 1, N * d + r = N * e + s
    PROVE  r = s /\ d = e
<1>1. N * (d - e) = s - r /\ N * (e - d) = r - s
  BY SMT
<1>2. CASE d - e >= 1
  BY <1>1, <1>2, MultipleBound, SMT
<1>3. CASE e - d >= 1
  BY <1>1, <1>3, MultipleBound, SMT
<1>4. CASE d = e
  BY <1>1, <1>4, SMT
<1> QED
  BY <1>2, <1>3, <1>4, SMT

\* The remainder of N * d + r.
LEMMA Remainder ==
    ASSUME NEW N \in Nat \ {0}, NEW d \in Int, NEW r \in 0 .. N - 1
    PROVE  (N * d + r) % N = r
<1> DEFINE x == N * d + r
<1>1. x \in Int
  BY SMT
<1>2. x \div N \in Int /\ x % N \in 0 .. N - 1 /\ x = N * (x \div N) + (x % N)
  BY <1>1, SMT
<1> DEFINE e == x \div N
           s == x % N
<1>3. e \in Int /\ s \in 0 .. N - 1 /\ N * d + r = N * e + s
  BY <1>2
<1> HIDE DEF e, s
<1>4. r = s
  BY <1>3, RemainderUnique
<1> QED
  BY <1>4 DEF s

\* Adding one and reducing commute.
LEMMA ModSucc ==
    ASSUME NEW N \in Nat \ {0}, NEW x \in Int
    PROVE  /\ x % N \in 0 .. N - 1
           /\ (x + 1) % N = ((x % N) + 1) % N
           /\ ((x % N) + 1) % N = IF (x % N) + 1 = N THEN 0 ELSE (x % N) + 1
<1> DEFINE d == x \div N
           r == x % N
<1>1. d \in Int /\ r \in 0 .. N - 1 /\ x = N * d + r
  BY SMT
<1> HIDE DEF d, r
<1>2. CASE r + 1 = N
  <2>1. x + 1 = N * (d + 1) + 0
    BY <1>1, <1>2, SMT
  <2>2. (x + 1) % N = 0
    BY <1>1, <2>1, Remainder
  <2>3. (r + 1) % N = 0
    <3>1. r + 1 = N * 1 + 0
      BY <1>2, SMT
    <3> QED
      BY <3>1, Remainder
  <2> QED
    BY <1>1, <1>2, <2>2, <2>3 DEF r
<1>3. CASE r + 1 # N
  <2>1. x + 1 = N * d + (r + 1) /\ r + 1 \in 0 .. N - 1
    BY <1>1, <1>3, SMT
  <2>2. (x + 1) % N = r + 1
    BY <1>1, <2>1, Remainder
  <2>3. (r + 1) % N = r + 1
    BY <2>1, <1>1, SMT
  <2> QED
    BY <1>1, <1>3, <2>2, <2>3 DEF r
<1> QED
  BY <1>2, <1>3

-----------------------------------------------------------------------------
\* The shape of a call.
LEMMA CallFacts ==
    ASSUME NEW c \in Calls
    PROVE  /\ c.op \in Ops /\ c.addr \in Addrs /\ c.n \in Nat
           /\ ~IsBlock(c) => c.n = 1
           /\ IsWrite(c) => c.data \in [1 .. c.n -> Quads]
<1>1. \A b \in ByteCounts : Quadded(b) \in Nat
  BY CallsAssumption, SMT DEF Quadded
<1>2. PICK op \in Ops, n \in Nat :
         c \in CallsOf(op, n) /\ (op \notin Blocks => n = 1)
  BY <1>1 DEF Calls, Ops, Blocks, Writes
<1> QED
  BY <1>2 DEF CallsOf, IsBlock, IsWrite

\* A call that is not empty is not changed by NonEmpty.
LEMMA NonEmptySame ==
    ASSUME NEW c \in Calls, c.n # 0
    PROVE  NonEmpty(c) = c
<1>1. \A b \in ByteCounts : Quadded(b) \in Nat
  BY CallsAssumption, SMT DEF Quadded
<1>2. PICK op \in Ops, n \in Nat : c \in CallsOf(op, n)
  BY <1>1 DEF Calls, Ops, Blocks, Writes
<1> QED
  BY <1>2 DEF CallsOf, NonEmpty

\* The first quadlet is at the call's address.
LEMMA AddrFirst ==
    ASSUME NEW c \in Calls
    PROVE  QuadletAddr(c, 1) = c.addr
<1>1. c.addr \in 0 .. AddrSpace - 1
  BY CallFacts DEF Addrs
<1>2. c.addr + 1 - 1 = AddrSpace * 0 + c.addr
  BY <1>1, CallsAssumption, SMT
<1> QED
  BY <1>1, <1>2, Remainder, CallsAssumption DEF QuadletAddr

\* Addresses of successive quadlets: the firmware's increment leads from one to
\* the next, and its last bit toggles, also where uint16_t wraps around.
LEMMA AddrNext ==
    ASSUME NEW c \in Calls, NEW i \in Nat \ {0}
    PROVE  /\ QuadletAddr(c, i) \in Addrs
           /\ QuadletAddr(c, i + 1) = (QuadletAddr(c, i) + 1) % AddrSpace
           /\ (QuadletAddr(c, i + 1) % 2 = 1) # (QuadletAddr(c, i) % 2 = 1)
<1> DEFINE x == c.addr + i - 1
           a == x % AddrSpace
<1>1. x \in Int /\ c.addr + (i + 1) - 1 = x + 1
  BY CallFacts, CallsAssumption, SMT DEF Addrs
<1>2. /\ a \in 0 .. AddrSpace - 1
      /\ (x + 1) % AddrSpace = (a + 1) % AddrSpace
      /\ (a + 1) % AddrSpace = IF a + 1 = AddrSpace THEN 0 ELSE a + 1
  BY <1>1, ModSucc, CallsAssumption
<1>3. QuadletAddr(c, i) = a /\ QuadletAddr(c, i + 1) = (x + 1) % AddrSpace
  BY <1>1 DEF QuadletAddr
<1> HIDE DEF a, x
<1> QED
  BY <1>2, <1>3, CallsAssumption, SMT DEF Addrs

\* Swapping keeps to the set of quadlets.
LEMMA OnBusType ==
    ASSUME NEW c, NEW v \in Quads
    PROVE  OnBus(c, v) \in Quads
BY CallsAssumption DEF OnBus, bswap_32

=============================================================================
