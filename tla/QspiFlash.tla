------------------------------ MODULE QspiFlash ------------------------------
(***************************************************************************)
(* ProgramFlash (fpgav3_qspi.cpp): brings a flash partition up to date     *)
(* with a boot image on the SD card, sector by sector. fpgav3init runs it  *)
(* on every boot, and power may fail at any moment of it.                  *)
(*                                                                         *)
(* Bytes are abstract cells. Erasing a sector blanks it; writing can only  *)
(* clear bits, so what is written over a cell that is not blank is lost.   *)
(* One step is one system call. ProgramFlash ignores the results of read,  *)
(* lseek, ioctl, fstat and write: Faulty is the set of calls that may fail.*)
(* A read or write that fails may have transferred a part; MEMGETINFO and  *)
(* fstat that fail leave the structure they are to fill uninitialised.     *)
(***************************************************************************)
EXTENDS Integers

CONSTANTS
    EraseSize,   \* cells in a sector
    FlashSize,   \* cells in the partition
    Cells,       \* values of a cell
    Blank,       \* an erased cell (0xff)
    Zero,        \* a cell with all bits cleared
    Files,       \* the images that may be on the SD card
    Garbage,     \* what an uninitialised size may be
    Faulty       \* kinds of calls that may fail

Partition == 0 .. FlashSize - 1

ASSUME FlashAssumption ==
    /\ EraseSize \in Nat \ {0} /\ FlashSize \in Nat /\ FlashSize >= EraseSize
    /\ {Blank, Zero} \subseteq Cells
    /\ \A f \in Files : f.len \in Nat /\ f.data \in [0 .. f.len - 1 -> Cells]
    /\ Garbage \subseteq Nat
    /\ Faulty \subseteq {"open", "info", "stat", "readFile", "readFlash", "erase", "write"}

VARIABLES
    flash,      \* the partition
    file,       \* the image on the SD card
    pc,         \* next call of ProgramFlash; "off" between two runs
    erasesize,  \* mtd_info.erasesize and ei.length
    size,       \* src_stat.st_size
    nBytes,     \* start of the current sector
    fpos, dpos, \* file offsets of fdFile and fdFlash
    fileBuf, devBuf,
    ret,        \* what the last run returned
    faulted,    \* history: a call has failed in this run
    short       \* history: the flash was read in part for the first sector

sizeVars == <<erasesize, size>>
bufVars == <<fileBuf, devBuf>>
vars == <<flash, file, pc, sizeVars, nBytes, fpos, dpos, bufVars, ret, faulted, short>>

\* The places of a buffer.
Offsets == 0 .. erasesize - 1

Running == {"readFile", "readFlash", "compare", "erase", "write"}

TypeOK ==
    /\ flash \in [Partition -> Cells]
    /\ file \in Files
    /\ pc \in Running \cup {"off", "done"}
    /\ erasesize \in Nat /\ size \in Nat
    /\ nBytes \in Nat /\ fpos \in Nat /\ dpos \in Nat
    /\ fileBuf \in [Offsets -> Cells] /\ devBuf \in [Offsets -> Cells]
    /\ ret \in {"none", "true", "false"}
    /\ faulted \in BOOLEAN /\ short \in BOOLEAN

Lesser(a, b) == IF a < b THEN a ELSE b

\* Bytes of the image that belong to the current sector.
nb == Lesser(size - nBytes, erasesize)

-----------------------------------------------------------------------------
(* The MTD device: what is not in src/.                                    *)

\* Programming clears bits of a cell and sets none.
Programmed(old, new) == CASE old = Blank -> new
                          [] new = Blank -> old
                          [] old = new   -> old
                          [] OTHER       -> Zero

\* n cells of buffer b written to partition f at position pos.
Written(f, b, pos, n) ==
    [c \in Partition |-> IF c \in pos .. pos + n - 1 THEN Programmed(f[c], b[c - pos]) ELSE f[c]]

\* The cells that MEMERASE of erasesize cells from nBytes on blanks: none if that is
\* not a number of whole sectors, or begins beyond the partition. What would lie beyond
\* the partition is left out.
Erasing ==
    IF nBytes < FlashSize /\ \E k \in 1 .. FlashSize : erasesize = k * EraseSize
    THEN Partition \cap (nBytes .. nBytes + erasesize - 1) ELSE {}

\* A read or write at pos of n cells stops at the end of the partition.
Available(pos, n) == Lesser(n, FlashSize - pos)

-----------------------------------------------------------------------------
\* What the buffers hold between two runs.
Unused == [k \in 0 .. EraseSize - 1 |-> Blank]

Init ==
    /\ flash \in {[c \in Partition |-> v] : v \in Cells}
    /\ file \in Files
    /\ pc = "off" /\ erasesize = EraseSize /\ size = 0
    /\ nBytes = 0 /\ fpos = 0 /\ dpos = 0
    /\ fileBuf = Unused /\ devBuf = Unused
    /\ ret = "none" /\ faulted = FALSE /\ short = FALSE

\* Where the loop goes when it is at byte n of an image of len bytes.
Loop(n, len) == IF n < len THEN "readFile" ELSE "done"

\* A boot, perhaps with a new image; malloc leaves the buffers as they come.
Start ==
    /\ pc = "off"
    /\ file' \in Files
    /\ \/ erasesize' = EraseSize
       \/ "info" \in Faulty /\ erasesize' \in Garbage
    /\ \/ size' = file'.len
       \/ "stat" \in Faulty /\ size' \in Garbage
    /\ faulted' = (erasesize' # EraseSize \/ size' # file'.len)
    /\ pc' = Loop(0, size')
    /\ ret' = IF pc' = "done" THEN "true" ELSE "none"
    /\ nBytes' = 0 /\ fpos' = 0 /\ dpos' = 0 /\ short' = FALSE
    /\ \E v, w \in Cells : fileBuf' = [k \in Offsets' |-> v] /\ devBuf' = [k \in Offsets' |-> w]
    /\ UNCHANGED flash

\* A file or the device cannot be opened, or there is no memory.
Refuse ==
    /\ pc = "off"
    /\ "open" \in Faulty
    /\ pc' = "done" /\ ret' = "false"
    /\ UNCHANGED <<flash, file, sizeVars, nBytes, fpos, dpos, bufVars, faulted, short>>

\* The next iteration of the loop, or the end of it.
NextSector ==
    /\ nBytes' = nBytes + erasesize
    /\ pc' = Loop(nBytes', size)
    /\ ret' = IF pc' = "done" THEN "true" ELSE ret

\* A call of the given kind fails, and nothing notices.
Fails(kind) == kind \in Faulty /\ faulted' = TRUE

Works == faulted' = faulted

\* A call of the given kind transfers m of the n cells that it could.
Transfers(kind, m, n) == IF m = n THEN Works ELSE Fails(kind)

\* Buffer b with its first m cells taken from cells pos, pos + 1, ... of data.
Filled(b, m, data, pos) == [k \in Offsets |-> IF k < m THEN data[pos + k] ELSE b[k]]

\* The file ends, whatever size says.
ReadFile ==
    /\ pc = "readFile" /\ pc' = "readFlash"
    /\ LET n == Lesser(nb, file.len - fpos)
       IN  \E m \in 0 .. n :
             /\ Transfers("readFile", m, n)
             /\ fileBuf' = Filled(fileBuf, m, file.data, fpos) /\ fpos' = fpos + m
    /\ UNCHANGED <<flash, file, sizeVars, nBytes, dpos, devBuf, ret, short>>

\* Mutant: a whole sector is read also where the image ends within one.
ReadFlash_WholeSector ==
    /\ pc = "readFlash" /\ pc' = "compare"
    /\ Works
    /\ devBuf' = Filled(devBuf, Available(dpos, erasesize), flash, dpos)
    /\ dpos' = dpos + Available(dpos, erasesize)
    /\ UNCHANGED <<flash, file, sizeVars, nBytes, fpos, fileBuf, ret, short>>

ReadFlash ==
    /\ pc = "readFlash" /\ pc' = "compare"
    /\ \E m \in 0 .. Available(dpos, nb) :
          /\ Transfers("readFlash", m, Available(dpos, nb))
          /\ devBuf' = Filled(devBuf, m, flash, dpos) /\ dpos' = dpos + m
          /\ short' = (short \/ (nBytes = 0 /\ m \in 1 .. nb - 1))
    /\ UNCHANGED <<flash, file, sizeVars, nBytes, fpos, fileBuf, ret>>

\* Mutant: only the first byte is compared.
Same_First == nb > 0 => fileBuf[0] = devBuf[0]

\* Mutant: every sector is rewritten.
Same_Never == FALSE

\* memcmp(fileBuf, devBuf, nb) == 0
Same == \A k \in 0 .. nb - 1 : fileBuf[k] = devBuf[k]

\* Mutant: no lseek back.
Compare_NoSeek ==
    /\ pc = "compare"
    /\ \/ Same /\ NextSector
       \/ ~Same /\ pc' = "erase" /\ UNCHANGED <<nBytes, ret>>
    /\ UNCHANGED <<flash, file, sizeVars, fpos, dpos, bufVars, faulted, short>>

\* Sector up to date: next one. Otherwise back up in the device file; lseek to a
\* negative offset fails and leaves the position.
Compare ==
    /\ pc = "compare"
    /\ \/ Same /\ NextSector /\ dpos' = dpos
       \/ /\ ~Same
          /\ pc' = "erase"
          /\ dpos' = IF dpos >= nb THEN dpos - nb ELSE dpos
          /\ UNCHANGED <<nBytes, ret>>
    /\ UNCHANGED <<flash, file, sizeVars, fpos, bufVars, faulted, short>>

\* Mutant: the sector is not erased.
Erase_Skipped ==
    /\ pc = "erase" /\ pc' = "write"
    /\ Works
    /\ UNCHANGED <<flash, file, sizeVars, nBytes, fpos, dpos, bufVars, ret, short>>

\* Cells at which an erase or a write is under way.
InProgress == CASE pc = "erase" -> Erasing
                [] pc = "write" -> Partition \cap (dpos .. dpos + nb - 1)
                [] OTHER        -> {}

\* What was under way is not finished: its cells may hold anything.
Torn ==
    \E g \in [InProgress -> Cells] :
        flash' = [c \in Partition |-> IF c \in InProgress THEN g[c] ELSE flash[c]]

\* MEMUNLOCK and MEMERASE from nBytes on.
Erase ==
    /\ pc = "erase" /\ pc' = "write"
    /\ \/ Works /\ flash' = [c \in Partition |-> IF c \in Erasing THEN Blank ELSE flash[c]]
       \/ Fails("erase") /\ Torn
    /\ UNCHANGED <<file, sizeVars, nBytes, fpos, dpos, bufVars, ret, short>>

Write ==
    /\ pc = "write"
    /\ \E m \in 0 .. Available(dpos, nb) :
          /\ Transfers("write", m, Available(dpos, nb))
          /\ flash' = Written(flash, fileBuf, dpos, m) /\ dpos' = dpos + m
    /\ NextSector
    /\ UNCHANGED <<file, sizeVars, fpos, bufVars, short>>

Step == ReadFile \/ ReadFlash \/ Compare \/ Erase \/ Write

\* Power fails, or the program is killed.
PowerLoss ==
    /\ pc # "off" /\ pc' = "off"
    /\ Torn
    /\ erasesize' = EraseSize /\ size' = 0
    /\ nBytes' = 0 /\ fpos' = 0 /\ dpos' = 0
    /\ fileBuf' = Unused /\ devBuf' = Unused
    /\ ret' = "none" /\ faulted' = FALSE /\ short' = FALSE
    /\ UNCHANGED file

Next == Start \/ Refuse \/ Step \/ PowerLoss

Spec == Init /\ [][Next]_vars

\* fpgav3init is started on every boot and runs on.
FairSpec == Spec /\ WF_vars(Start \/ Step)

-----------------------------------------------------------------------------
(* Properties.                                                             *)

Fits == file.len <= FlashSize

\* The first n cells of the partition are those of the image.
Holds(n) == \A c \in 0 .. Lesser(n, file.len) - 1 : flash[c] = file.data[c]

\* A run in which no call failed leaves the image in flash, whatever earlier runs,
\* power losses during an erase or a write, or failed calls have left there.
ImageWritten == pc = "done" /\ ret = "true" /\ ~faulted /\ Fits => Holds(file.len)

\* As long as no call fails, the loop keeps both file offsets and both buffers in
\* step with nBytes: sectors behind it hold the image, and what is compared and
\* written belongs to it.
LoopInv ==
    ~faulted /\ Fits /\ pc \in Running =>
        /\ Holds(nBytes)
        /\ fpos = IF pc = "readFile" THEN nBytes ELSE nBytes + nb
        /\ dpos = IF pc = "compare" THEN nBytes + nb ELSE nBytes
        /\ pc # "readFile" => \A k \in 0 .. nb - 1 : fileBuf[k] = file.data[nBytes + k]
        /\ pc = "compare" => \A k \in 0 .. nb - 1 : devBuf[k] = flash[nBytes + k]
        /\ pc = "erase" => \E k \in 0 .. nb - 1 : flash[nBytes + k] # file.data[nBytes + k]
        /\ pc = "write" => \A k \in 0 .. nb - 1 : flash[nBytes + k] = Blank

\* A size that the loop goes by is not the true one.
Misread == erasesize # EraseSize \/ size # file.len

\* How far the device's offset can run ahead of the loop. The lseek of the first sector
\* fails if the read before it got less than nb but something.
Ahead == IF short THEN EraseSize - 1 ELSE 0

\* If calls fail, the offsets fall behind; the device's runs ahead, by less than a sector,
\* only if the first read of the device got a part.
OffsetsInv ==
    /\ fpos <= file.len /\ dpos <= FlashSize
    /\ pc \in Running =>
          /\ nBytes < size
          /\ Misread => faulted
          /\ ~Misread =>
                /\ nBytes = 0 \/ nBytes >= EraseSize
                /\ dpos <= nBytes + Ahead + (IF pc = "compare" THEN nb ELSE 0)
                /\ pc = "compare" /\ nBytes = 0 /\ ~short => dpos \in {0, nb}

\* The inductive invariant of ProgramFlash: offsets and buffers are in step with the
\* loop until a call fails; after, the offsets are where OffsetsInv says.
FlashInv == TypeOK /\ OffsetsInv /\ LoopInv /\ ImageWritten

\* "To avoid unnecessary erase/write cycles": a sector that already holds its part
\* of the image is never erased.
NoNeedlessErase ==
    pc = "erase" /\ ~faulted /\ Fits => ~Holds(nBytes + EraseSize)

\* Even if calls fail and the offsets fall out of step, and even if power fails, no cell
\* beyond the sector of the image that is being worked on is changed. There are two
\* exceptions, which the code does not guard against: after a failed MEMGETINFO or fstat
\* anything may be erased and written, and once the read of the device for the first
\* sector got only a part, writes reach into the sector behind.
BeyondImageKept ==
    [][\A c \in Partition : flash'[c] # flash[c] /\ ~Misread =>
          nBytes < file.len /\ c < nBytes + EraseSize + Ahead]_vars

\* Unless power or calls fail again and again, the image gets into flash: a run that
\* was cut short is made good by the next one.
ImageGetsWritten ==
    \/ []<>(Fits => Holds(file.len))
    \/ []<>(faulted \/ ret = "false")
    \/ []<><<PowerLoss>>_vars

=============================================================================
