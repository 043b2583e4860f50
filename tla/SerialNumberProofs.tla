-------------------------- MODULE SerialNumberProofs --------------------------
(***************************************************************************)
(* The partition invariant of SerialNumber is inductive, for serial        *)
(* numbers of any characters and buffers of any size: since the sector was *)
(* erased its cells hold a beginning of the number, and what is read of    *)
(* them, whatever lies in the uninitialised memory behind, is such a       *)
(* beginning too.                                                          *)
(***************************************************************************)
EXTENDS SerialNumber, SequenceTheorems, WellFoundedInduction, TLAPS

-----------------------------------------------------------------------------
(* The first byte of a kind, as strchr and the end of a C string find it.  *)

\* A set of positions that is not empty has a first one (strchr).
LEMMA NatLeast ==
    ASSUME NEW T, T \subseteq Nat, T # {}
    PROVE  \E x \in T : \A y \in T : x <= y
<1>1. PICK x \in T : \A y \in T : <<y, x>> \notin OpToRel(<, Nat)
  BY WFMin, NatLessThanWellFounded, Zenon
<1>2. x \in Nat /\ \A y \in T : y \in Nat
  OBVIOUS
<1>3. \A y \in T : ~ (y < x)
  BY <1>1, <1>2, Zenon DEF OpToRel
<1>4. \A y \in T : x <= y
  BY <1>2, <1>3
<1> QED
  BY <1>4

\* The position that First names is the only one with its property (strchr).
LEMMA FirstIs ==
    ASSUME NEW N \in Nat, NEW m, DOMAIN m = 1 .. N, NEW S,
           NEW i \in 1 .. N, m[i] \in S, \A j \in 1 .. i - 1 : m[j] \notin S
    PROVE  First(m, S) = i
<1>1. \A k \in DOMAIN m : m[k] \in S /\ (\A j \in 1 .. k - 1 : m[j] \notin S) => k = i
  <2> SUFFICES ASSUME NEW k \in 1 .. N, m[k] \in S, \A j \in 1 .. k - 1 : m[j] \notin S
               PROVE  k = i
    OBVIOUS
  <2>1. ~ (k < i) /\ ~ (i < k)
    OBVIOUS
  <2> QED
    BY <2>1
<1> QED
  BY <1>1 DEF First

\* There is a first byte of the kind if there is one (strchr).
LEMMA FirstExists ==
    ASSUME NEW N \in Nat, NEW m, DOMAIN m = 1 .. N, NEW S, \E i \in 1 .. N : m[i] \in S
    PROVE  /\ First(m, S) \in 1 .. N
           /\ m[First(m, S)] \in S
           /\ \A j \in 1 .. First(m, S) - 1 : m[j] \notin S
<1> DEFINE T == {i \in 1 .. N : m[i] \in S}
<1>1. PICK x \in T : \A y \in T : x <= y
  <2>1. T \subseteq Nat /\ T # {}
    OBVIOUS
  <2> QED
    BY <2>1, NatLeast
<1>2. \A j \in 1 .. x - 1 : m[j] \notin S
  BY <1>1
<1>3. First(m, S) = x
  BY <1>1, <1>2, FirstIs
<1> QED
  BY <1>1, <1>2, <1>3

-----------------------------------------------------------------------------
(* Serial numbers, and the memory that GetFpgaSerialNumber works on.       *)

\* A serial number is a sequence of characters, short enough for the buffer or the
\* first that is not (ProgramFpgaSerialNumber).
LEMMA SerialNumberType ==
    ASSUME NEW s \in SerialNumbers
    PROVE  /\ s \in Seq(Chars) /\ Len(s) \in 0 .. SnSize
           /\ s = [k \in 1 .. Len(s) |-> s[k]]
           /\ \A k \in 1 .. Len(s) : s[k] \in Chars
<1>1. PICK n \in 0 .. SnSize : s \in [1 .. n -> Chars]
  BY DEF SerialNumbers
<1>2. n \in Nat
  BY SerialAssumption
<1>3. s \in Seq(Chars) /\ Len(s) = n
  BY <1>1, <1>2
<1> QED
  BY <1>1, <1>3

\* The buffer and what is behind it, when the read has filled its cells
\* (GetFpgaSerialNumber).
Image(a, m) == [k \in Memory |-> IF k < SnSize THEN a[k] ELSE m[k]]

\* The string that is read is one, whatever was in memory (GetFpgaSerialNumber).
LEMMA CStringType ==
    ASSUME NEW a \in [Area -> Cells], NEW m \in Uninitialised
    PROVE  CString(Terminated(Image(a, m))) \in Seq(Bytes)
<1> DEFINE N == SnSize + Beyond
           i == Image(a, m)
           t == Terminated(i)
<1>1. N \in Nat /\ N \in 1 .. N /\ SnSize \in 1 .. N /\ ~ (N < SnSize) /\ Memory = 1 .. N
  BY SerialAssumption DEF Memory
<1>2. i \in [1 .. N -> Bytes] /\ i[N] = Nul
  <2>1. \A k \in 1 .. N : IF k < SnSize THEN a[k] \in Bytes ELSE m[k] \in Bytes
    BY <1>1, SerialAssumption DEF Area, Cells, Bytes, Uninitialised
  <2>2. m[N] = Nul
    BY DEF Uninitialised
  <2> QED
    BY <1>1, <2>1, <2>2 DEF Image
<1> HIDE DEF i
<1>3. t \in [1 .. N -> Bytes] /\ \E k \in 1 .. N : t[k] \in {Nul}
  <2> DEFINE p == First(i, {Blank, Nul})
  <2>1. p \in 1 .. N /\ i[p] \in {Blank, Nul}
    <3>1. \E k \in 1 .. N : i[k] \in {Blank, Nul}
      BY <1>1, <1>2
    <3> QED
      BY <1>1, <1>2, <3>1, FirstExists
  <2>2. t = IF i[p] = Blank THEN [i EXCEPT ![p] = Nul] ELSE [i EXCEPT ![SnSize] = Nul]
    BY DEF Terminated
  <2>3. Nul \in Bytes
    BY DEF Bytes
  <2> QED
    BY <1>1, <1>2, <2>1, <2>2, <2>3
<1> HIDE DEF t
<1> DEFINE q == First(t, {Nul})
<1>4. q \in 1 .. N
  BY <1>1, <1>3, FirstExists
<1>5. [k \in 1 .. q - 1 |-> t[k]] \in [1 .. q - 1 -> Bytes]
  BY <1>1, <1>3, <1>4
<1>6. [k \in 1 .. q - 1 |-> t[k]] \in Seq(Bytes)
  <2> HIDE DEF q
  <2>1. q - 1 \in Nat
    BY <1>4
  <2> QED
    BY <1>5, <2>1
<1> QED
  BY <1>6 DEF CString, t, i

\* The beginning of a number, with erased cells behind it, is read as that beginning
\* (GetFpgaSerialNumber).
LEMMA CStringOfTorn ==
    ASSUME sn \in SerialNumbers, Len(sn) < SnSize, ~Full, NEW n \in 0 .. Len(sn),
           NEW m \in Uninitialised
    PROVE  CString(Terminated(Image(Torn(n), m))) = [k \in 1 .. n |-> sn[k]]
<1> DEFINE N == SnSize + Beyond
           i == Image(Torn(n), m)
           p == n + 1
           t == [i EXCEPT ![p] = Nul]
<1>1. /\ N \in Nat /\ SnSize \in Nat /\ Memory = 1 .. N /\ n \in Nat
      /\ p \in 1 .. N /\ p < SnSize /\ p \in Area /\ ~ (p <= n) /\ p - 1 = n
      /\ \A k \in 1 .. n : k \in 1 .. Len(sn) /\ k \in 1 .. N /\ k < SnSize /\ k \in Area
                           /\ k <= n /\ k # p
  <2>1. Len(sn) \in Nat /\ Len(sn) + 1 < SnSize
    BY SerialNumberType, SerialAssumption DEF Full
  <2> QED
    BY <2>1, SerialAssumption DEF Memory, Area
<1> HIDE DEF N, p
<1>2. /\ DOMAIN i = 1 .. N
      /\ \A k \in 1 .. n : i[k] = sn[k] /\ sn[k] \notin {Blank, Nul}
      /\ i[p] = Blank
  <2>1. \A k \in 1 .. n : sn[k] \in Chars
    BY <1>1, SerialNumberType
  <2>2. /\ \A k \in 1 .. n : sn[k] \notin {Blank, Nul}
    BY <2>1, SerialAssumption
  <2>3. i[p] = Torn(n)[p] /\ \A k \in 1 .. n : i[k] = Torn(n)[k]
    BY <1>1 DEF Image
  <2>4. Torn(n)[p] = Blank /\ \A k \in 1 .. n : Torn(n)[k] = sn[k]
    BY <1>1 DEF Torn
  <2> QED
    BY <1>1, <2>2, <2>3, <2>4 DEF Image
<1> HIDE DEF i
<1>3. First(i, {Blank, Nul}) = p
  <2>1. \A j \in 1 .. p - 1 : i[j] \notin {Blank, Nul}
    BY <1>1, <1>2
  <2>2. i[p] \in {Blank, Nul}
    BY <1>2
  <2> QED
    BY <1>1, <1>2, <2>1, <2>2, FirstIs
<1>4. Terminated(i) = t
  BY <1>2, <1>3 DEF Terminated
<1>5. /\ DOMAIN t = 1 .. N /\ t[p] = Nul
      /\ \A k \in 1 .. n : t[k] = sn[k] /\ t[k] \notin {Nul}
  BY <1>1, <1>2
<1> HIDE DEF t
<1>6. First(t, {Nul}) = p
  <2>1. \A j \in 1 .. p - 1 : t[j] \notin {Nul}
    BY <1>1, <1>5
  <2>2. t[p] \in {Nul}
    BY <1>5
  <2> QED
    BY <1>1, <1>5, <2>1, <2>2, FirstIs
<1>7. CString(t) = [k \in 1 .. n |-> t[k]]
  BY <1>1, <1>6 DEF CString
<1>8. [k \in 1 .. n |-> t[k]] = [k \in 1 .. n |-> sn[k]]
  BY <1>5
<1> QED
  BY <1>4, <1>7, <1>8 DEF i

-----------------------------------------------------------------------------
(* What the cells hold.                                                    *)

\* A written cell is a cell again (ProgramFpgaSerialNumber).
LEMMA WrittenType ==
    ASSUME TypeOK, NEW n \in 0 .. Len(sn), Len(sn) < SnSize
    PROVE  WrittenUpTo(n) \in [Area -> Cells]
<1>1. Len(sn) \in Nat /\ \A k \in 1 .. Len(sn) : sn[k] \in Chars
  BY SerialNumberType DEF TypeOK
<1>2. \A k \in Area : k <= n => k \in 1 .. Len(sn)
  BY <1>1, SerialAssumption DEF Area
<1>3. \A k \in Area : k <= n => Programmed(area[k], sn[k]) \in Cells
  BY <1>1, <1>2 DEF Programmed, Cells
<1>4. \A k \in Area : area[k] \in Cells
  BY DEF TypeOK
<1> QED
  BY <1>3, <1>4 DEF WrittenUpTo

\* On an erased sector a write of n characters leaves these (ProgramFpgaSerialNumber).
LEMMA WrittenOnErased ==
    ASSUME NEW n \in Nat, area = Torn(0)
    PROVE  WrittenUpTo(n) = Torn(n)
<1>1. \A k \in Area : k \in Nat /\ k > 0 /\ area[k] = Blank
  BY SerialAssumption DEF Area, Torn
<1>2. \A k \in Area : (IF k <= n THEN Programmed(area[k], sn[k]) ELSE area[k])
                      = (IF k <= n THEN sn[k] ELSE Blank)
  BY <1>1 DEF Programmed
<1> QED
  BY <1>2 DEF WrittenUpTo, Torn

\* What has been read is a prefix of the number (GetFpgaSerialNumber).
LEMMA GotIsPrefix == TypeOK /\ GotInv => TornIsPrefix
<1> SUFFICES ASSUME TypeOK, GotInv, erased, ~Full, got # NotRead
             PROVE  Len(got) <= Len(sn) /\ got = SubSeq(sn, 1, Len(got))
  BY DEF TornIsPrefix
<1>1. PICK n \in 0 .. Len(sn) : got = [k \in 1 .. n |-> sn[k]]
  BY DEF GotInv
<1>2. sn \in Seq(Chars) /\ Len(sn) \in Nat
  BY SerialNumberType DEF TypeOK
<1>3. n \in Nat /\ n <= Len(sn)
  BY <1>2
<1>4. Len(got) = n
  <2>1. DOMAIN got = 1 .. n /\ got \in Seq(Bytes)
    BY <1>1 DEF TypeOK
  <2> QED
    BY <2>1, <1>3, LenProperties
<1>5. SubSeq(sn, 1, n) = [k \in 1 .. n |-> sn[k]]
  BY <1>2, <1>3
<1> QED
  BY <1>1, <1>3, <1>4, <1>5

-----------------------------------------------------------------------------
(* The invariant, step by step.                                            *)

\* The invariant holds before the first call, whatever is in flash.
LEMMA InitInv == Init => PartitionInv
<1> SUFFICES ASSUME Init PROVE PartitionInv
  OBVIOUS
<1>1. sn \in SerialNumbers
  <2>1. 0 \in 0 .. SnSize
    BY SerialAssumption
  <2>2. sn \in [1 .. 0 -> Chars]
    BY DEF Init
  <2> QED
    BY <2>1, <2>2 DEF SerialNumbers
<1>2. NotRead \in Seq(Bytes)
  BY DEF NotRead, Bytes
<1>3. area \in [Area -> Cells]
  BY DEF Init
<1>4. TypeOK
  BY <1>1, <1>2, <1>3 DEF Init, TypeOK
<1> QED
  BY <1>4 DEF Init, PartitionInv, WrittenInv, GotInv, TornIsPrefix

\* The types and the cells, whatever step is taken (ProgramFpgaSerialNumber,
\* GetFpgaSerialNumber).
LEMMA StepTyped ==
    ASSUME TypeOK, WrittenInv, Next
    PROVE  TypeOK'
<1>0. /\ NotRead \in Seq(Bytes) /\ <<>> \in Seq(Bytes)
      /\ HeaderWritten \in Headers /\ "junk" \in Headers
  BY DEF NotRead, Bytes, HeaderWritten, Headers
<1>1. CASE Program
  BY <1>0, <1>1 DEF Program, TypeOK
<1>2. CASE Erase
  <2>1. [k \in Area |-> Blank] \in [Area -> Cells] /\ "blank" \in Headers
    BY DEF Cells, Headers
  <2>2. area' \in [Area -> Cells] /\ hdr' \in Headers
    BY <1>2, <2>1 DEF Erase, TypeOK
  <2> QED
    BY <1>0, <1>2, <2>2 DEF Erase, TypeOK
<1>3. CASE WriteHeader
  BY <1>0, <1>3 DEF WriteHeader, TypeOK
<1>4. CASE WriteSn
  <2>1. area' \in [Area -> Cells]
    BY <1>4, WrittenType DEF WriteSn, WrittenInv
  <2> QED
    BY <1>0, <1>4, <2>1 DEF WriteSn, TypeOK
<1>5. CASE PowerLoss
  <2>1. area' \in [Area -> Cells] /\ hdr' \in Headers
    <3>1. CASE pc = "sn" /\ hdr' = hdr /\ \E n \in 0 .. Len(sn) : area' = WrittenUpTo(n)
      BY <3>1, WrittenType DEF WrittenInv, TypeOK
    <3>2. CASE pc = "erase" /\ hdr' \in Headers /\ area' \in [Area -> Cells]
      BY <3>2
    <3>3. CASE pc = "header" /\ hdr' \in {hdr, "junk", HeaderWritten} /\ area' = area
      BY <1>0, <3>3 DEF TypeOK
    <3> QED
      BY <1>5, <3>1, <3>2, <3>3 DEF PowerLoss
  <2> QED
    BY <1>5, <2>1 DEF PowerLoss, TypeOK
<1>6. CASE GetHeader
  BY <1>0, <1>6 DEF GetHeader, TypeOK
<1>7. CASE GetSn
  <2>1. got' \in Seq(Bytes)
    <3>1. CASE got' = <<>>
      BY <1>0, <3>1
    <3>2. CASE \E m \in Uninitialised : got' = CString(Terminated(Image(area, m)))
      BY <3>2, CStringType DEF TypeOK
    <3> QED
      BY <1>7, <3>1, <3>2 DEF GetSn, Image
  <2> QED
    BY <1>7, <2>1 DEF GetSn, TypeOK
<1> QED
  BY <1>1, <1>2, <1>3, <1>4, <1>5, <1>6, <1>7 DEF Next

\* What a torn write leaves depends on the number alone (ProgramFpgaSerialNumber).
LEMMA TornKept ==
    ASSUME sn' = sn
    PROVE  \A n : Torn(n)' = Torn(n)
BY DEF Torn

\* The cells hold a beginning of the number after every step
\* (ProgramFpgaSerialNumber).
LEMMA StepWritten ==
    ASSUME TypeOK, WrittenInv, Next
    PROVE  WrittenInv'
<1>1. CASE Program
  BY <1>1 DEF Program, WrittenInv
<1>2. CASE Erase
  <2>1. Len(sn) \in Nat /\ 0 \in 0 .. Len(sn)
    BY SerialNumberType, SerialAssumption DEF TypeOK
  <2>2. ASSUME area' = [k \in Area |-> Blank] PROVE area' = Torn(0)
    <3>1. \A k \in Area : ~ (k <= 0)
      BY DEF Area
    <3> QED
      BY <2>2, <3>1 DEF Torn
  <2>3. Torn(0)' = Torn(0) /\ sn' = sn /\ Len(sn) < SnSize /\ ret' = "none" /\ pc' = "header"
    BY <1>2, TornKept DEF Erase, WrittenInv
  <2>4. erased' => area' = Torn(0)'
    BY <1>2, <2>2, <2>3 DEF Erase
  <2> QED
    BY <2>1, <2>3, <2>4 DEF WrittenInv
<1>3. CASE WriteHeader
  <2>1. pc' # "idle" => ret' = "none" /\ pc' = "sn"
    BY <1>3 DEF WriteHeader, WrittenInv
  <2>2. /\ pc # "idle" /\ pc' # "erase" /\ ret' # "true" /\ UNCHANGED <<area, sn, erased>>
    BY <1>3 DEF WriteHeader, WrittenInv
  <2>3. \A n : Torn(n)' = Torn(n)
    BY <2>2, TornKept
  <2>4. erased => Len(sn) < SnSize /\ \E n \in 0 .. Len(sn) : area = Torn(n) /\ n = 0
    BY <2>2 DEF WrittenInv
  <2>5. Len(sn) < SnSize
    BY <2>2 DEF WrittenInv
  <2> QED
    BY <2>1, <2>2, <2>3, <2>4, <2>5 DEF WrittenInv
<1>4. CASE WriteSn
  <2>1. PICK n \in 0 .. Len(sn) : area' = WrittenUpTo(n)
                                  /\ ret' = IF n = Len(sn) THEN "true" ELSE "false"
    BY <1>4 DEF WriteSn
  <2>2. pc = "sn" /\ pc' = "idle" /\ UNCHANGED <<sn, erased>>
    BY <1>4 DEF WriteSn
  <2>3. erased => Len(sn) < SnSize /\ area = Torn(0)
    BY <2>2 DEF WrittenInv
  <2>4. n \in Nat
    BY SerialNumberType DEF TypeOK
  <2>5. erased => area' = Torn(n)'
    BY <2>1, <2>2, <2>3, <2>4, WrittenOnErased, TornKept
  <2> QED
    BY <2>1, <2>2, <2>3, <2>5 DEF WrittenInv
<1>5. CASE PowerLoss
  <2>1. pc # "idle" /\ pc' = "idle" /\ ret' = "none" /\ UNCHANGED <<sn, erased>>
        /\ \A n : Torn(n)' = Torn(n)
    BY <1>5, TornKept DEF PowerLoss, WrittenInv
  <2>2. SUFFICES ASSUME erased PROVE \E n \in 0 .. Len(sn) : area' = Torn(n)
    BY <2>1, <2>2 DEF WrittenInv
  <2>3. area = Torn(0) /\ pc # "erase" /\ Len(sn) \in Nat
    BY <2>1, <2>2, SerialNumberType DEF WrittenInv, TypeOK
  <2>4. CASE pc = "header" /\ area' = area
    BY <2>3, <2>4
  <2>5. CASE \E n \in 0 .. Len(sn) : area' = WrittenUpTo(n)
    BY <2>3, <2>5, WrittenOnErased
  <2> QED
    BY <1>5, <2>3, <2>4, <2>5 DEF PowerLoss
<1>6. CASE GetHeader \/ GetSn
  <2>1. UNCHANGED <<area, pc, sn, ret, erased>>
    BY <1>6 DEF GetHeader, GetSn
  <2> QED
    BY <2>1, TornKept DEF WrittenInv
<1> QED
  BY <1>1, <1>2, <1>3, <1>4, <1>5, <1>6 DEF Next

\* The empty string is the shortest beginning of a number (GetFpgaSerialNumber).
LEMMA EmptyIsBeginning == <<>> = [k \in 1 .. 0 |-> sn[k]]
OBVIOUS

\* What is read is a beginning of the number after every step (GetFpgaSerialNumber).
LEMMA StepGot ==
    ASSUME TypeOK, WrittenInv, GotInv, Next
    PROVE  GotInv'
<1>1. CASE Program \/ Erase \/ WriteSn
  BY <1>1 DEF Program, Erase, WriteSn, GotInv
<1>2. CASE WriteHeader \/ PowerLoss
  BY <1>2 DEF WriteHeader, PowerLoss, WrittenInv, GotInv, Full
<1>0. ASSUME UNCHANGED <<sn, ret, erased>>, got' = <<>> PROVE GotInv'
  <2>1. 0 \in 0 .. Len(sn)
    BY SerialNumberType, SerialAssumption DEF TypeOK
  <2>2. got' = [k \in 1 .. 0 |-> sn'[k]]
    BY <1>0, EmptyIsBeginning
  <2> QED
    BY <1>0, <2>1, <2>2 DEF GotInv
<1>3. CASE GetHeader
  <2>1. UNCHANGED <<sn, ret, erased>> /\ (got' = got \/ got' = <<>>)
    BY <1>3 DEF GetHeader
  <2> QED
    BY <1>0, <2>1 DEF GotInv, Full
<1>4. CASE GetSn
  <2>1. UNCHANGED <<sn, ret, erased>>
    BY <1>4 DEF GetSn
  <2>2. CASE \E m \in Uninitialised : got' = CString(Terminated(Image(area, m)))
    <3> SUFFICES ASSUME erased, ~Full
                 PROVE  \E n \in 0 .. Len(sn) : /\ got' = [k \in 1 .. n |-> sn[k]]
                                                /\ ret = "true" => n \in {0, Len(sn)}
      BY <2>1 DEF GotInv, Full
    <3>1. PICK n \in 0 .. Len(sn) : area = Torn(n) /\ (ret = "true" => n = Len(sn))
      BY DEF WrittenInv
    <3>2. got' = [k \in 1 .. n |-> sn[k]]
      BY <2>2, <3>1, CStringOfTorn DEF WrittenInv, TypeOK
    <3> QED
      BY <3>1, <3>2
  <2> QED
    BY <1>0, <1>4, <2>1, <2>2 DEF GetSn, Image
<1> QED
  BY <1>1, <1>2, <1>3, <1>4 DEF Next

\* No call of either function, failure or power loss breaks the invariant.
LEMMA NextInv == PartitionInv /\ [Next]_vars => PartitionInv'
<1> SUFFICES ASSUME PartitionInv, [Next]_vars PROVE PartitionInv'
  OBVIOUS
<1>1. CASE Next
  <2>1. TypeOK' /\ WrittenInv' /\ GotInv'
    BY <1>1, StepTyped, StepWritten, StepGot DEF PartitionInv
  <2>2. TornIsPrefix'
    BY <2>1, GotIsPrefix, PTL
  <2> QED
    BY <2>1, <2>2 DEF PartitionInv
<1>2. CASE UNCHANGED vars
  BY <1>2 DEF vars, PartitionInv, TypeOK, WrittenInv, GotInv, TornIsPrefix, Torn, Full
<1> QED
  BY <1>1, <1>2

-----------------------------------------------------------------------------
\* Once the sector is erased, its cells and all that is read of them are a beginning
\* of the new number, whichever call fails and wherever power is lost; never a number
\* mixed from the old one and the new (ProgramFpgaSerialNumber, GetFpgaSerialNumber).
THEOREM PartitionInvariant == Spec => []PartitionInv
<1>1. Init => PartitionInv
  BY InitInv
<1>2. PartitionInv /\ [Next]_vars => PartitionInv'
  BY NextInv
<1> QED
  BY <1>1, <1>2, PTL DEF Spec

\* What was programmed is what is read, for every number that leaves room in the
\* buffer, whatever the uninitialised memory held (GetFpgaSerialNumber).
THEOREM ReadBackAlways == Spec => []ReadBack
<1>1. PartitionInv => ReadBack
  <2> SUFFICES ASSUME PartitionInv, ret = "true", erased, ~Full, got # NotRead
               PROVE  got \in {<<>>, sn}
    BY DEF ReadBack
  <2>1. PICK n \in {0, Len(sn)} : got = [k \in 1 .. n |-> sn[k]]
    BY DEF PartitionInv, GotInv
  <2>2. sn = [k \in 1 .. Len(sn) |-> sn[k]]
    BY SerialNumberType DEF PartitionInv, TypeOK
  <2> QED
    BY <2>1, <2>2, EmptyIsBeginning
<1> QED
  BY <1>1, PartitionInvariant, PTL

=============================================================================
