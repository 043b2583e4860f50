----------------------------- MODULE SerialNumber -----------------------------
(***************************************************************************)
(* The FPGA serial number in its flash partition: ProgramFpgaSerialNumber  *)
(* and GetFpgaSerialNumber (fpgav3_qspi.cpp), as fpgav3sn and fpgav3init   *)
(* call them.                                                              *)
(*                                                                         *)
(* The partition is a header ("FPGA ", five bytes, taken as one) and the   *)
(* cells behind it. One step of ProgramFpgaSerialNumber is one system      *)
(* call; power may fail at any of them, and any of them may fail.          *)
(* GetFpgaSerialNumber, which another process may run meanwhile, works on  *)
(* a C buffer that its callers leave uninitialised, and on the memory      *)
(* behind it.                                                              *)
(***************************************************************************)
EXTENDS Integers, Sequences

CONSTANTS
    Chars,     \* characters of a serial number
    SnSize,    \* FPGA_SN_SIZE, the length of the buffer (9)
    Beyond,    \* cells of memory behind the buffer that matter
    Blank,     \* an erased cell (0xff)
    Nul,       \* the C string terminator
    Junk       \* any other value of a cell

ASSUME SerialAssumption ==
    /\ SnSize \in Nat \ {0, 1} /\ Beyond \in Nat \ {0}
    /\ {Blank, Nul, Junk} \cap Chars = {}
    /\ Blank # Nul /\ Junk \notin {Blank, Nul}

Area  == 1 .. SnSize          \* the cells behind the header
Cells == Chars \cup {Blank, Junk}
Memory == 1 .. SnSize + Beyond
Bytes == Chars \cup {Blank, Nul, Junk}

\* Arguments of ProgramFpgaSerialNumber, the first that is too long included.
SerialNumbers == UNION {[1 .. n -> Chars] : n \in 0 .. SnSize}

VARIABLES
    hdr,      \* the header in flash
    area,     \* the cells behind it
    pc,       \* next call of ProgramFpgaSerialNumber, "idle" when it is not running
    sn,       \* its argument
    ret,      \* what it returned
    erased,   \* history: its erase has been carried out
    rd,       \* a GetFpgaSerialNumber has seen the header and goes on to the number
    got       \* the string that GetFpgaSerialNumber gave since erase or return

vars == <<hdr, area, pc, sn, ret, erased, rd, got>>

Headers == {"FPGA", "blank", "junk"}
NotRead == <<Nul>>   \* no C string contains it

TypeOK ==
    /\ hdr \in Headers
    /\ area \in [Area -> Cells]
    /\ pc \in {"idle", "erase", "header", "sn"}
    /\ sn \in SerialNumbers
    /\ ret \in {"none", "true", "false"}
    /\ erased \in BOOLEAN
    /\ rd \in BOOLEAN
    /\ got \in Seq(Bytes)

-----------------------------------------------------------------------------
(* The flash: what is not in src/.                                         *)

Programmed(old, new) == IF old = Blank \/ old = new THEN new ELSE Junk

\* The first n characters of the serial number written.
WrittenUpTo(n) == [k \in Area |-> IF k <= n THEN Programmed(area[k], sn[k]) ELSE area[k]]

HeaderWritten == IF hdr = "junk" THEN "junk" ELSE "FPGA"

-----------------------------------------------------------------------------
Init ==
    /\ hdr \in Headers
    /\ \E v \in Cells : area = [k \in Area |-> v]
    /\ pc = "idle"
    /\ sn = <<>> /\ ret = "none" /\ erased = FALSE
    /\ rd = FALSE /\ got = NotRead

\* ProgramFpgaSerialNumber is called; it refuses what is too long, and gives up if
\* the device cannot be opened.
Program ==
    /\ pc = "idle"
    /\ sn' \in SerialNumbers
    /\ \/ Len(sn') < SnSize /\ pc' = "erase" /\ ret' = "none"
       \/ pc' = "idle" /\ ret' = "false"
    /\ erased' = FALSE /\ got' = NotRead
    /\ UNCHANGED <<hdr, area, rd>>

\* MEMUNLOCK and MEMERASE of the sector; failures are not noticed.
Erase ==
    /\ pc = "erase" /\ pc' = "header"
    /\ \/ hdr' = "blank" /\ area' = [k \in Area |-> Blank] /\ erased' = TRUE
       \/ erased' = FALSE /\ UNCHANGED <<hdr, area>>
    /\ got' = NotRead
    /\ UNCHANGED <<sn, ret, rd>>

\* write(fd, "FPGA ", 5); a failure, perhaps half way, ends the function.
WriteHeader ==
    /\ pc = "header"
    /\ \/ hdr' = HeaderWritten /\ pc' = "sn" /\ ret' = ret
       \/ hdr' \in {hdr, "junk"} /\ pc' = "idle" /\ ret' = "false"
    /\ UNCHANGED <<area, sn, erased, rd, got>>

\* Mutant: a short write goes unnoticed.
WriteSn_Unchecked ==
    /\ pc = "sn" /\ pc' = "idle"
    /\ \E n \in 0 .. Len(sn) : area' = WrittenUpTo(n)
    /\ ret' = "true" /\ got' = NotRead
    /\ UNCHANGED <<hdr, sn, erased, rd>>

\* write(fd, sn, sn_len), which may be cut short.
WriteSn ==
    /\ pc = "sn" /\ pc' = "idle"
    /\ \E n \in 0 .. Len(sn) :
          /\ area' = WrittenUpTo(n)
          /\ ret' = IF n = Len(sn) THEN "true" ELSE "false"
    /\ got' = NotRead
    /\ UNCHANGED <<hdr, sn, erased, rd>>

\* Power fails: a sector that was being erased may hold anything, of a write some
\* bytes are there.
PowerLoss ==
    /\ pc # "idle" /\ pc' = "idle"
    /\ \/ pc = "erase" /\ hdr' \in Headers /\ area' \in [Area -> Cells]
       \/ pc = "header" /\ hdr' \in {hdr, "junk", HeaderWritten} /\ area' = area
       \/ pc = "sn" /\ hdr' = hdr /\ \E n \in 0 .. Len(sn) : area' = WrittenUpTo(n)
    /\ rd' = FALSE
    /\ UNCHANGED <<sn, ret, erased, got>>

\* Position of the first byte of m that is in S.
First(m, S) == CHOOSE i \in DOMAIN m : m[i] \in S /\ \A j \in 1 .. i - 1 : m[j] \notin S

\* The characters of the C string at the start of m.
CString(m) == [k \in 1 .. First(m, {Nul}) - 1 |-> m[k]]

\* Mutant: the string is not cut at the first erased byte.
Terminated_NotCut(m) == [m EXCEPT ![SnSize] = Nul]

\* strchr(sn, 0xff), which looks no further than a terminator, and the assignment
\* that ends the string there or at the end of the buffer.
Terminated(m) ==
    LET p == First(m, {Blank, Nul})
    IN  IF m[p] = Blank THEN [m EXCEPT ![p] = Nul] ELSE [m EXCEPT ![SnSize] = Nul]

\* The last byte of the buffer, which read() does not fill, and the memory behind
\* it: anything, with a terminator somewhere.
Uninitialised ==
    {m \in [SnSize .. SnSize + Beyond -> {Blank, Nul, Junk}] : m[SnSize + Beyond] = Nul}

\* GetFpgaSerialNumber is called, by any process at any time. Without the header,
\* or if the device cannot be opened or read, it leaves the empty string it began with.
GetHeader ==
    /\ ~rd
    /\ \/ hdr = "FPGA" /\ rd' = TRUE /\ got' = got
       \/ rd' = FALSE /\ got' = <<>>
    /\ UNCHANGED <<hdr, area, pc, sn, ret, erased>>

\* It reads what follows the header; if that fails the string is still empty.
GetSn ==
    /\ rd /\ rd' = FALSE
    /\ \/ got' = <<>>
       \/ \E m \in Uninitialised :
             got' = CString(Terminated([k \in Memory |-> IF k < SnSize THEN area[k] ELSE m[k]]))
    /\ UNCHANGED <<hdr, area, pc, sn, ret, erased>>

Next == Program \/ Erase \/ WriteHeader \/ WriteSn \/ PowerLoss \/ GetHeader \/ GetSn

Spec == Init /\ [][Next]_vars

-----------------------------------------------------------------------------
(* Properties.                                                             *)

\* A serial number that fills the buffer, as "1234-567" does.
Full == Len(sn) = SnSize - 1

\* What was programmed is what is read: after ProgramFpgaSerialNumber returned true
\* (and its erase, which it does not check, was carried out) GetFpgaSerialNumber
\* gives that number, whatever was in flash and in memory before, or an empty string
\* if the device cannot be read. Numbers that fill the buffer are left out: see
\* FullReadBack.
ReadBack == ret = "true" /\ erased /\ ~Full => got \in {NotRead, <<>>, sn}

\* A programming that is cut short by a failed write or a power loss, or that is
\* still going on, never shows a number mixed from the old and the new: once the
\* sector is erased, what is read is a prefix of the new one.
TornIsPrefix ==
    erased /\ ~Full /\ got # NotRead =>
        Len(got) <= Len(sn) /\ got = SubSeq(sn, 1, Len(got))

\* fpgav3_qspi.h: "Serial number format is 1234-56 or 1234-567, so maximum length
\* (including null termination) is 9 bytes", so such a number is read back too.
FullReadBack == ret = "true" /\ erased => got \in {NotRead, <<>>, sn}

-----------------------------------------------------------------------------
(* The inductive invariant behind ReadBack and TornIsPrefix.               *)

\* What the sector holds when n characters of the number have been written since
\* its erase.
Torn(n) == [k \in Area |-> IF k <= n THEN sn[k] ELSE Blank]

\* Since the erase, the cells hold a beginning of the number: nothing before
\* write(fd, sn, sn_len), and all of it if the function returned true.
WrittenInv ==
    /\ pc # "idle" => Len(sn) < SnSize /\ ret = "none"
    /\ pc = "erase" => ~erased
    /\ erased => /\ Len(sn) < SnSize
                 /\ \E n \in 0 .. Len(sn) : /\ area = Torn(n)
                                            /\ pc # "idle" => n = 0
                                            /\ ret = "true" => n = Len(sn)

\* What has been read since the erase is such a beginning, too.
GotInv ==
    erased /\ ~Full /\ got # NotRead =>
        \E n \in 0 .. Len(sn) : /\ got = [k \in 1 .. n |-> sn[k]]
                                /\ ret = "true" => n \in {0, Len(sn)}

\* The types, with every cell of the partition a byte that could be there, what is
\* in flash and what has been read of it (ProgramFpgaSerialNumber).
PartitionInv == TypeOK /\ WrittenInv /\ GotInv /\ TornIsPrefix

=============================================================================
