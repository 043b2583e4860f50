--------------------------- MODULE QspiFlashProofs ---------------------------
(***************************************************************************)
(* Proofs about ProgramFlash, for every sector and partition size, every   *)
(* image and every combination of failing calls and power losses.          *)
(***************************************************************************)
EXTENDS QspiFlash, TLAPS

\* What the assumption and the type invariant say about the current image.
LEMMA Sizes ==
    ASSUME TypeOK
    PROVE  /\ EraseSize \in Nat \ {0} /\ FlashSize \in Nat /\ FlashSize >= EraseSize
           /\ Blank \in Cells /\ Zero \in Cells
           /\ file.len \in Nat /\ file.data \in [0 .. file.len - 1 -> Cells]
           /\ erasesize \in Nat /\ size \in Nat
           /\ nBytes \in Nat /\ fpos \in Nat /\ dpos \in Nat
           /\ nBytes < size => /\ nb \in 0 .. erasesize /\ nBytes + nb <= size
                               /\ nb = erasesize \/ nBytes + nb = size
BY FlashAssumption DEF TypeOK, nb, Lesser

\* While no call has failed, the loop goes by the true sizes.
LEMMA TrueSizes ==
    ASSUME OffsetsInv, pc \in Running, ~faulted
    PROVE  ~Misread /\ erasesize = EraseSize /\ size = file.len /\ nBytes < file.len
BY DEF OffsetsInv, Misread

\* A cell at most a sector behind the start of a transfer is in the buffer.
LEMMA InBuffer ==
    ASSUME NEW pos \in Nat, NEW n \in Nat, NEW len \in Nat, n <= len,
           NEW c \in pos .. pos + n - 1
    PROVE  c - pos \in 0 .. len - 1
OBVIOUS

\* What a transfer at pos of n cells gets: all of them if the partition has them.
LEMMA AvailableBound ==
    ASSUME NEW pos \in Nat, NEW n \in Nat, pos <= FlashSize
    PROVE  /\ Available(pos, n) \in Nat /\ Available(pos, n) <= n
           /\ pos + Available(pos, n) <= FlashSize
           /\ pos + n <= FlashSize => Available(pos, n) = n
BY FlashAssumption DEF Available, Lesser

\* A transfer that ends within the partition reaches only cells of it.
LEMMA InPartition ==
    ASSUME NEW pos \in Nat, NEW n \in Nat, pos + n <= FlashSize, NEW k \in Nat, k < n
    PROVE  pos + k \in Partition /\ pos + k \in pos .. pos + n - 1
BY FlashAssumption DEF Partition

\* Programming yields cells, and what is programmed into a blank cell can be read back.
LEMMA ProgrammedCell ==
    ASSUME NEW old \in Cells, NEW new \in Cells
    PROVE  Programmed(old, new) \in Cells /\ (old = Blank => Programmed(old, new) = new)
BY FlashAssumption DEF Programmed

\* A buffer filled with cells holds cells, those of data first.
LEMMA FilledBuffer ==
    ASSUME NEW b \in [Offsets -> Cells], NEW m \in Nat, NEW pos \in Nat, NEW len \in Nat,
           NEW data \in [0 .. len - 1 -> Cells], pos + m <= len, erasesize \in Nat
    PROVE  /\ Filled(b, m, data, pos) \in [Offsets -> Cells]
           /\ m <= erasesize => \A k \in 0 .. m - 1 : Filled(b, m, data, pos)[k] = data[pos + k]
<1>1. ASSUME NEW k \in Offsets
      PROVE  (IF k < m THEN data[pos + k] ELSE b[k]) \in Cells
  <2>1. k \in Nat
    BY DEF Offsets
  <2>2. CASE k < m
    <3>1. pos + k \in 0 .. len - 1
      BY <2>1, <2>2
    <3> QED
      BY <2>2, <3>1
  <2> QED
    BY <2>1, <2>2
<1>2. ASSUME m <= erasesize, NEW k \in 0 .. m - 1
      PROVE  Filled(b, m, data, pos)[k] = data[pos + k]
  <2>1. k \in Offsets /\ k < m
    BY <1>2 DEF Offsets
  <2> QED
    BY <2>1 DEF Filled
<1> QED
  BY <1>1, <1>2 DEF Filled

\* What is torn is within what was under way.
LEMMA TornCells ==
    ASSUME TypeOK, Torn
    PROVE  /\ flash' \in [Partition -> Cells]
           /\ \A c \in Partition : flash'[c] # flash[c] => c \in InProgress
BY DEF Torn, TypeOK

\* A transfer moves at most what it could, and all of it if it does not fail.
LEMMA TransferStep ==
    ASSUME NEW kind, NEW n \in Nat, NEW m \in 0 .. n, Transfers(kind, m, n), faulted \in BOOLEAN
    PROVE  /\ m \in Nat /\ m <= n
           /\ faulted' \in BOOLEAN /\ (faulted => faulted')
           /\ ~faulted' => m = n
<1>1. CASE m = n
  BY <1>1 DEF Transfers, Works
<1>2. CASE m # n
  <2>1. faulted' = TRUE
    BY <1>2, Zenon DEF Transfers, Fails
  <2> QED
    BY <2>1
<1> QED
  BY <1>1, <1>2

LEMMA InitFlash == Init => FlashInv
<1> SUFFICES ASSUME Init PROVE FlashInv
  OBVIOUS
<1>1. TypeOK
  <2>1. Unused \in [0 .. EraseSize - 1 -> Cells]
    BY FlashAssumption DEF Unused
  <2>2. flash \in [Partition -> Cells]
    BY DEF Init
  <2> QED
    BY <2>1, <2>2, FlashAssumption DEF Init, TypeOK, Offsets
<1> QED
  BY <1>1, FlashAssumption DEF Init, FlashInv, OffsetsInv, LoopInv, ImageWritten, Running

\* A run begins with nothing read and nothing programmed.
LEMMA StartStep ==
    ASSUME FlashInv, Start
    PROVE  FlashInv'
<1>1. TypeOK
  BY DEF FlashInv
<1>2. /\ nBytes' = 0 /\ fpos' = 0 /\ dpos' = 0 /\ file' \in Files /\ flash' = flash
      /\ pc' = (IF 0 < size' THEN "readFile" ELSE "done")
      /\ faulted' = (erasesize' # EraseSize \/ size' # file'.len) /\ short' = FALSE
  BY DEF Start, Loop
<1>3. /\ file'.len \in Nat /\ EraseSize \in Nat \ {0} /\ FlashSize \in Nat
      /\ erasesize' \in Nat /\ size' \in Nat
  BY <1>2, FlashAssumption DEF Start
<1>4. TypeOK'
  <2>1. fileBuf' \in [Offsets' -> Cells] /\ devBuf' \in [Offsets' -> Cells]
    BY DEF Start
  <2>2. ret' \in {"none", "true", "false"}
    BY DEF Start
  <2>3. faulted' \in BOOLEAN /\ short' \in BOOLEAN
    BY <1>2
  <2> QED
    BY <1>1, <1>2, <1>3, <2>1, <2>2, <2>3 DEF TypeOK, Running
<1>5. OffsetsInv'
  <2>1. Misread' => faulted'
    BY <1>2 DEF Misread
  <2>2. Ahead' = 0
    BY <1>2 DEF Ahead
  <2>3. fpos' <= file'.len /\ dpos' <= FlashSize
    BY <1>2, <1>3
  <2>4. pc' \in Running => pc' = "readFile" /\ nBytes' < size'
    BY <1>2 DEF Running
  <2>5. dpos' <= nBytes' + Ahead' + 0 /\ nBytes' = 0
    BY <1>2, <2>2
  <2>6. pc' = "readFile" => (IF pc' = "compare" THEN nb' ELSE 0) = 0 /\ pc' # "compare"
    OBVIOUS
  <2> QED
    BY <2>1, <2>3, <2>4, <2>5, <2>6, Zenon DEF OffsetsInv
<1>6. \A n \in Nat : n = 0 \/ file'.len = 0 => Holds(n)'
  BY <1>3 DEF Holds, Lesser
<1>7. ~faulted' => size' = file'.len
  BY <1>2
<1>8. LoopInv' /\ ImageWritten'
  BY <1>2, <1>3, <1>6, <1>7 DEF LoopInv, ImageWritten, Running
<1> QED
  BY <1>4, <1>5, <1>8 DEF FlashInv

LEMMA RefuseStep ==
    ASSUME FlashInv, Refuse
    PROVE  FlashInv'
<1>1. TypeOK'
  BY DEF FlashInv, Refuse, TypeOK, bufVars, sizeVars, Offsets
<1> QED
  BY <1>1 DEF Refuse, FlashInv, OffsetsInv, LoopInv, ImageWritten, Running

\* After a power loss nothing is known but that cells are cells.
LEMMA PowerLossStep ==
    ASSUME FlashInv, PowerLoss
    PROVE  FlashInv'
<1>1. TypeOK'
  <2>1. flash' \in [Partition -> Cells]
    BY TornCells DEF PowerLoss, FlashInv
  <2>2. Unused \in [0 .. EraseSize - 1 -> Cells]
    BY FlashAssumption DEF Unused
  <2> QED
    BY <2>1, <2>2, FlashAssumption DEF PowerLoss, FlashInv, TypeOK, Offsets
<1>2. OffsetsInv'
  BY <1>1, FlashAssumption DEF PowerLoss, OffsetsInv, TypeOK, Running
<1> QED
  BY <1>1, <1>2 DEF PowerLoss, FlashInv, LoopInv, ImageWritten, Running

\* The image read so far is the current sector's.
LEMMA ReadFileStep ==
    ASSUME FlashInv, ReadFile
    PROVE  FlashInv'
<1>1. TypeOK /\ OffsetsInv /\ LoopInv
  BY DEF FlashInv
<1>2. /\ pc = "readFile" /\ pc' = "readFlash"
      /\ UNCHANGED <<flash, file, erasesize, size, nBytes, dpos, devBuf, ret, short>>
  BY DEF ReadFile, sizeVars
<1> DEFINE n == Lesser(nb, file.len - fpos)
<1>3. PICK m \in 0 .. n : /\ Transfers("readFile", m, n)
                          /\ fileBuf' = Filled(fileBuf, m, file.data, fpos) /\ fpos' = fpos + m
  BY DEF ReadFile
<1>4. /\ nBytes < size /\ nb' = nb /\ nb \in Nat /\ nb <= erasesize
      /\ fpos <= file.len /\ fpos \in Nat /\ file.len \in Nat
  BY <1>1, <1>2, Sizes DEF OffsetsInv, Running, nb
<1>5. n \in Nat /\ n <= nb /\ fpos + n <= file.len /\ (fpos + nb <= file.len => n = nb)
  BY <1>4 DEF Lesser
<1> HIDE DEF n
<1>6. m \in Nat /\ m <= n /\ faulted' \in BOOLEAN /\ (faulted => faulted') /\ (~faulted' => m = n)
  BY <1>1, <1>3, <1>5, TransferStep DEF TypeOK
<1>7. /\ fileBuf' \in [Offsets -> Cells]
      /\ \A k \in 0 .. m - 1 : fileBuf'[k] = file.data[fpos + k]
  <2>1. fileBuf \in [Offsets -> Cells] /\ fpos + m <= file.len /\ m <= erasesize /\ erasesize \in Nat
    BY <1>1, <1>4, <1>5, <1>6, Sizes DEF TypeOK
  <2>2. file.data \in [0 .. file.len - 1 -> Cells]
    BY <1>1, Sizes
  <2> DEFINE data == file.data
             len == file.len
  <2>3. fileBuf' = Filled(fileBuf, m, data, fpos)
    BY <1>3
  <2>4. /\ data \in [0 .. len - 1 -> Cells] /\ len \in Nat /\ fpos \in Nat /\ m \in Nat
        /\ fpos + m <= len
    BY <1>4, <1>6, <2>1, <2>2
  <2>5. fileBuf' \in [Offsets -> Cells] /\ \A k \in 0 .. m - 1 : fileBuf'[k] = data[fpos + k]
    <3> HIDE DEF data, len
    <3> QED
      BY <2>1, <2>3, <2>4, FilledBuffer
  <2> QED
    BY <2>5
<1>8. TypeOK'
  BY <1>1, <1>2, <1>3, <1>4, <1>6, <1>7 DEF TypeOK, Offsets, Running
<1>9. OffsetsInv'
  BY <1>1, <1>2, <1>3, <1>4, <1>5, <1>6 DEF OffsetsInv, Misread, Ahead, Running
<1>10. LoopInv'
  <2> SUFFICES ASSUME ~faulted', Fits
               PROVE  /\ Holds(nBytes)' /\ fpos' = nBytes + nb /\ dpos = nBytes
                      /\ \A k \in 0 .. nb - 1 : fileBuf'[k] = file.data[nBytes + k]
    BY <1>2, <1>4 DEF LoopInv, Fits, Running
  <2>1. fpos = nBytes /\ dpos = nBytes /\ Holds(nBytes)
    BY <1>1, <1>2, <1>6 DEF LoopInv, Running
  <2>2. size = file.len
    BY <1>1, <1>2, <1>6, TrueSizes DEF Running
  <2>3. m = nb
    BY <1>1, <1>4, <1>5, <1>6, <2>1, <2>2, Sizes
  <2> QED
    BY <1>2, <1>3, <1>7, <2>1, <2>3 DEF Holds
<1> QED
  BY <1>2, <1>8, <1>9, <1>10 DEF FlashInv, ImageWritten

\* The flash read so far is the current sector's.
LEMMA ReadFlashStep ==
    ASSUME FlashInv, ReadFlash
    PROVE  FlashInv'
<1>1. TypeOK /\ OffsetsInv /\ LoopInv
  BY DEF FlashInv
<1>2. /\ pc = "readFlash" /\ pc' = "compare"
      /\ UNCHANGED <<flash, file, erasesize, size, nBytes, fpos, fileBuf, ret>>
  BY DEF ReadFlash, sizeVars
<1> DEFINE av == Available(dpos, nb)
<1>3. PICK m \in 0 .. av : /\ Transfers("readFlash", m, av)
                           /\ devBuf' = Filled(devBuf, m, flash, dpos) /\ dpos' = dpos + m
                           /\ short' = (short \/ (nBytes = 0 /\ m \in 1 .. nb - 1))
  BY DEF ReadFlash
<1>4. /\ nBytes < size /\ nb' = nb /\ nb \in Nat /\ nb <= erasesize /\ nBytes \in Nat
      /\ dpos <= FlashSize /\ dpos \in Nat /\ FlashSize \in Nat /\ EraseSize \in Nat \ {0}
  BY <1>1, <1>2, Sizes DEF OffsetsInv, Running, nb
<1>5. av \in Nat /\ av <= nb /\ dpos + av <= FlashSize /\ (dpos + nb <= FlashSize => av = nb)
  BY <1>4, AvailableBound
<1> HIDE DEF av
<1>6. m \in Nat /\ m <= av /\ faulted' \in BOOLEAN /\ (faulted => faulted') /\ (~faulted' => m = av)
  BY <1>1, <1>3, <1>5, TransferStep DEF TypeOK
<1>7. /\ devBuf' \in [Offsets -> Cells]
      /\ \A k \in 0 .. m - 1 : devBuf'[k] = flash[dpos + k]
  <2>1. devBuf \in [Offsets -> Cells] /\ dpos + m <= FlashSize /\ m <= erasesize /\ erasesize \in Nat
    BY <1>1, <1>4, <1>5, <1>6, Sizes DEF TypeOK
  <2>2. flash \in [0 .. FlashSize - 1 -> Cells]
    BY <1>1 DEF TypeOK, Partition
  <2> QED
    BY <1>3, <1>4, <1>6, <2>1, <2>2, FilledBuffer
<1>8. TypeOK'
  <2>1. short' \in BOOLEAN
    BY <1>1, <1>3 DEF TypeOK
  <2> QED
    BY <1>1, <1>2, <1>3, <1>4, <1>6, <1>7, <2>1 DEF TypeOK, Offsets, Running
<1>9. OffsetsInv'
  <2>1. ~Misread => dpos <= nBytes + Ahead /\ (nBytes = 0 \/ nBytes >= EraseSize)
    BY <1>1, <1>2, <1>4 DEF OffsetsInv, Running, Ahead
  <2>2. Misread' <=> Misread
    BY <1>2 DEF Misread
  <2>7. Misread => faulted'
    <3>1. pc \in Running
      BY <1>2 DEF Running
    <3> QED
      BY <1>1, <1>6, <3>1, Zenon DEF OffsetsInv
  <2>3. Ahead \in Nat /\ Ahead' \in Nat /\ Ahead <= Ahead' /\ (~short => Ahead = 0)
    <3>1. CASE short
      <4>1. short'
        BY <1>3, <3>1
      <4> QED
        BY <1>4, <3>1, <4>1 DEF Ahead
    <3>2. CASE ~short
      BY <1>4, <3>2 DEF Ahead
    <3> QED
      BY <3>1, <3>2
  <2>4. ~Misread /\ nBytes = 0 /\ ~short' => dpos' \in {0, nb}
    <3> SUFFICES ASSUME ~Misread, nBytes = 0, ~short' PROVE dpos' \in {0, nb}
      OBVIOUS
    <3>0. ~short /\ Ahead = 0
      BY <1>3 DEF Ahead
    <3>1. dpos = 0
      BY <1>4, <2>1, <3>0
    <3>2. m \notin 1 .. nb - 1
      BY <1>3
    <3> QED
      BY <1>3, <1>4, <1>5, <1>6, <3>1, <3>2
  <2>5. ~Misread => dpos' <= nBytes + Ahead' + nb
    <3> SUFFICES ASSUME ~Misread PROVE dpos' <= nBytes + Ahead' + nb
      OBVIOUS
    <3>1. dpos' = dpos + m /\ m <= nb /\ m \in Nat
      BY <1>3, <1>4, <1>5, <1>6
    <3>2. dpos <= nBytes + Ahead /\ Ahead <= Ahead'
      BY <2>1, <2>3
    <3>3. dpos \in Nat /\ nBytes \in Nat /\ nb \in Nat /\ Ahead \in Nat /\ Ahead' \in Nat
      BY <1>4, <2>3
    <3>4. \A a \in Nat : Ahead <= a => dpos + m <= nBytes + a + nb
      BY <3>1, <3>2, <3>3
    <3> QED
      BY <3>1, <3>2, <3>3, <3>4
  <2>6. dpos' <= FlashSize /\ fpos <= file.len
    BY <1>1, <1>3, <1>4, <1>5, <1>6 DEF OffsetsInv
  <2> QED
    BY <1>2, <1>4, <1>6, <2>1, <2>2, <2>7, <2>4, <2>5, <2>6 DEF OffsetsInv, Running
<1>10. LoopInv'
  <2> SUFFICES ASSUME ~faulted', Fits
               PROVE  /\ Holds(nBytes)' /\ fpos = nBytes + nb /\ dpos' = nBytes + nb
                      /\ \A k \in 0 .. nb - 1 : fileBuf[k] = file.data[nBytes + k]
                      /\ \A k \in 0 .. nb - 1 : devBuf'[k] = flash[nBytes + k]
    BY <1>2, <1>4 DEF LoopInv, Fits, Running
  <2>1. /\ fpos = nBytes + nb /\ dpos = nBytes /\ Holds(nBytes)
        /\ \A k \in 0 .. nb - 1 : fileBuf[k] = file.data[nBytes + k]
    BY <1>1, <1>2, <1>6 DEF LoopInv, Running
  <2>2. size = file.len
    BY <1>1, <1>2, <1>6, TrueSizes DEF Running
  <2>3. m = nb
    BY <1>1, <1>4, <1>5, <1>6, <2>1, <2>2, Sizes DEF Fits
  <2> QED
    BY <1>2, <1>3, <1>7, <2>1, <2>3 DEF Holds
<1> QED
  BY <1>2, <1>8, <1>9, <1>10 DEF FlashInv, ImageWritten

\* The end of an iteration: the current sector holds its part of the image, and the
\* offsets are where the next sector begins.
LEMMA SectorDone ==
    ASSUME TypeOK, OffsetsInv, TypeOK', NextSector, UNCHANGED <<file, sizeVars, fpos, short>>,
           pc \in {"compare", "write"}, ~Misread => dpos' <= nBytes + Ahead + nb,
           dpos' <= FlashSize, faulted => faulted',
           ~faulted' /\ Fits => /\ fpos = nBytes + nb /\ dpos' = nBytes + nb
                                /\ Holds(nBytes)'
    PROVE  FlashInv'
<1>1. /\ nBytes < size /\ nBytes' = nBytes + erasesize /\ fpos <= file.len
      /\ pc' = (IF nBytes' < size THEN "readFile" ELSE "done")
      /\ erasesize' = erasesize /\ size' = size
  BY DEF OffsetsInv, Running, NextSector, Loop, sizeVars
<1>2. /\ ~Misread => erasesize = EraseSize /\ size = file.len
      /\ (Misread' <=> Misread) /\ (Misread => faulted) /\ Ahead' = Ahead
  BY <1>1 DEF Misread, Ahead, OffsetsInv, Running
<1>3. nb \in Nat /\ nb <= erasesize /\ (nBytes' < size => nb = erasesize)
  BY <1>1, Sizes
<1>4. Ahead \in Nat
  BY Sizes DEF Ahead
<1>5. OffsetsInv'
  <2>1. pc' \in Running => nBytes' < size /\ pc' = "readFile"
    BY <1>1 DEF Running
  <2>2. ~Misread => dpos' <= nBytes' + Ahead /\ nBytes' >= EraseSize
    <3>1. nBytes \in Nat /\ erasesize \in Nat /\ dpos' \in Nat
      BY Sizes DEF TypeOK
    <3> SUFFICES ASSUME ~Misread PROVE dpos' <= nBytes' + Ahead /\ nBytes' >= EraseSize
      OBVIOUS
    <3>2. erasesize = EraseSize /\ nBytes' = nBytes + erasesize /\ dpos' <= nBytes + Ahead + nb
      BY <1>1, <1>2
    <3> QED
      BY <1>3, <1>4, <3>1, <3>2
  <2>3. Misread' => faulted'
    BY <1>2
  <2>4. fpos' <= file'.len
    BY <1>1
  <2>5. Ahead' = Ahead /\ Ahead + 0 = Ahead /\ Ahead \in Nat /\ nBytes' \in Nat
    BY <1>2, <1>4 DEF TypeOK
  <2>6. pc' \in Running => /\ pc' # "compare"
                          /\ nBytes' + Ahead' + (IF pc' = "compare" THEN nb' ELSE 0) = nBytes' + Ahead
    BY <2>1, <2>5
  <2> QED
    BY <1>1, <1>2, <2>1, <2>2, <2>3, <2>4, <2>6 DEF OffsetsInv
<1>6. LoopInv'
  <2> SUFFICES ASSUME ~faulted', Fits, pc' = "readFile"
               PROVE  Holds(nBytes)' /\ fpos' = nBytes' /\ dpos' = nBytes'
    BY <1>1 DEF LoopInv, Fits, Running
  <2> QED
    BY <1>1, <1>3
<1>7. ImageWritten'
  <2> SUFFICES ASSUME ~faulted', Fits, pc' = "done"
               PROVE  Holds(file.len)'
    BY DEF ImageWritten, Fits
  <2>1. file.len <= nBytes' /\ file.len \in Nat /\ nBytes' \in Nat
    BY <1>1, <1>2, Sizes
  <2>2. Lesser(nBytes', file.len) = file.len /\ Lesser(file.len, file.len) = file.len
    BY <2>1 DEF Lesser
  <2> QED
    BY <2>2 DEF Holds, Lesser
<1> QED
  BY <1>5, <1>6, <1>7 DEF FlashInv

\* A sector that is up to date is left; otherwise the device goes back to its start.
LEMMA CompareStep ==
    ASSUME FlashInv, Compare
    PROVE  FlashInv'
<1>1. TypeOK /\ OffsetsInv /\ LoopInv
  BY DEF FlashInv
<1>2. /\ pc = "compare" /\ pc \in Running
      /\ UNCHANGED <<flash, file, erasesize, size, sizeVars, fpos, fileBuf, devBuf, faulted, short>>
  BY DEF Compare, bufVars, sizeVars, Running
<1>3. /\ nBytes < size /\ nb \in Nat /\ nb <= erasesize /\ nBytes \in Nat /\ erasesize \in Nat
      /\ fpos <= file.len /\ dpos <= FlashSize /\ dpos \in Nat /\ FlashSize \in Nat
      /\ EraseSize \in Nat \ {0}
  BY <1>1, <1>2, Sizes DEF OffsetsInv
<1>4. ~Misread => /\ dpos <= nBytes + Ahead + nb /\ (nBytes = 0 \/ nBytes >= EraseSize)
                  /\ (nBytes = 0 /\ ~short => dpos \in {0, nb})
                  /\ erasesize = EraseSize
  BY <1>1, <1>2 DEF OffsetsInv, Misread
<1>5. ~faulted /\ Fits => /\ Holds(nBytes) /\ fpos = nBytes + nb /\ dpos = nBytes + nb
                          /\ \A k \in 0 .. nb - 1 : fileBuf[k] = file.data[nBytes + k]
                          /\ \A k \in 0 .. nb - 1 : devBuf[k] = flash[nBytes + k]
                          /\ size = file.len
  BY <1>1, <1>2, TrueSizes DEF LoopInv
<1>6. CASE Same /\ NextSector /\ dpos' = dpos
  <2>1. TypeOK'
    BY <1>1, <1>2, <1>3, <1>6 DEF TypeOK, NextSector, Loop, Running, Offsets
  <2>2. ~faulted /\ Fits => Holds(nBytes)'
    <3> SUFFICES ASSUME ~faulted, Fits,
                        NEW c \in 0 .. Lesser(nBytes + erasesize, file.len) - 1
                 PROVE  flash[c] = file.data[c]
      BY <1>2, <1>6 DEF Holds, NextSector
    <3>1. c \in Nat /\ c < nBytes + nb
      BY <1>1, <1>3, <1>5, Sizes DEF Lesser
    <3>2. CASE c < nBytes
      BY <1>1, <1>3, <1>5, <3>1, <3>2, Sizes DEF Holds, Lesser
    <3>3. CASE c >= nBytes
      <4>1. c - nBytes \in 0 .. nb - 1 /\ nBytes + (c - nBytes) = c
        BY <1>3, <3>1, <3>3
      <4>2. flash[nBytes + (c - nBytes)] = file.data[nBytes + (c - nBytes)]
        BY <1>5, <1>6, <4>1 DEF Same
      <4> QED
        BY <4>1, <4>2
    <3> QED
      BY <1>3, <3>1, <3>2, <3>3
  <2> QED
    BY <1>1, <1>2, <1>3, <1>4, <1>5, <1>6, <2>1, <2>2, SectorDone
<1>7. CASE /\ ~Same /\ pc' = "erase" /\ UNCHANGED <<nBytes, ret>>
           /\ dpos' = IF dpos >= nb THEN dpos - nb ELSE dpos
  <2>1. nb' = nb /\ dpos' \in Nat /\ dpos' <= FlashSize
    BY <1>2, <1>3, <1>7 DEF nb
  <2>2. TypeOK'
    BY <1>1, <1>2, <1>7, <2>1 DEF TypeOK, Offsets, Running
  <2>3. ~Misread => dpos' <= nBytes + Ahead
    <3> SUFFICES ASSUME ~Misread PROVE dpos' <= nBytes + Ahead
      OBVIOUS
    <3>1. CASE dpos >= nb
      BY <1>3, <1>4, <1>7, <3>1 DEF Ahead
    <3>2. CASE ~(dpos >= nb)
      BY <1>3, <1>4, <1>7, <3>2 DEF Ahead
    <3> QED
      BY <3>1, <3>2
  <2>4. OffsetsInv'
    <3>1. (Misread' <=> Misread) /\ Ahead' = Ahead /\ (Misread => faulted')
      BY <1>1, <1>2 DEF Misread, Ahead, OffsetsInv
    <3>2. Ahead \in Nat
      BY <1>3 DEF Ahead
    <3> QED
      BY <1>2, <1>3, <1>4, <1>7, <2>1, <2>3, <3>1, <3>2 DEF OffsetsInv, Running
  <2>5. ~faulted /\ Fits => \E k \in 0 .. nb - 1 : flash[nBytes + k] # file.data[nBytes + k]
    BY <1>5, <1>7 DEF Same
  <2>6. LoopInv'
    <3> SUFFICES ASSUME ~faulted, Fits
                 PROVE  /\ Holds(nBytes)' /\ fpos = nBytes + nb /\ dpos' = nBytes
                        /\ \A k \in 0 .. nb - 1 : fileBuf[k] = file.data[nBytes + k]
      BY <1>2, <1>7, <2>1, <2>5 DEF LoopInv, Fits, Running
    <3> QED
      BY <1>2, <1>3, <1>5, <1>7 DEF Holds
  <2> QED
    BY <1>7, <2>2, <2>4, <2>6 DEF FlashInv, ImageWritten
<1> QED
  BY <1>6, <1>7 DEF Compare

\* MEMERASE of the true size erases a sector.
LEMMA ErasingSector ==
    ASSUME erasesize = EraseSize, nBytes < FlashSize
    PROVE  Erasing = Partition \cap (nBytes .. nBytes + EraseSize - 1)
<1>1. 1 \in 1 .. FlashSize /\ erasesize = 1 * EraseSize
  BY FlashAssumption
<1> QED
  BY <1>1 DEF Erasing

\* Erasing blanks the current sector and keeps those behind it.
LEMMA EraseStep ==
    ASSUME FlashInv, Erase
    PROVE  FlashInv'
<1>1. TypeOK /\ OffsetsInv /\ LoopInv
  BY DEF FlashInv
<1>2. /\ pc = "erase" /\ pc \in Running /\ pc' = "write"
      /\ UNCHANGED <<file, erasesize, size, nBytes, fpos, dpos, fileBuf, devBuf, ret, short>>
  BY DEF Erase, bufVars, sizeVars, Running
<1>3. nBytes < size /\ nb' = nb /\ nb \in Nat /\ nb <= erasesize /\ nBytes \in Nat
  BY <1>1, <1>2, Sizes DEF OffsetsInv, nb
<1>4. faulted' \in BOOLEAN /\ (faulted => faulted')
  BY <1>1 DEF Erase, Works, Fails, TypeOK
<1>5. flash' \in [Partition -> Cells]
  <2>1. CASE flash' = [c \in Partition |-> IF c \in Erasing THEN Blank ELSE flash[c]]
    BY <1>1, <2>1, Sizes DEF TypeOK
  <2> QED
    BY <1>1, <2>1, TornCells DEF Erase
<1>6. TypeOK'
  BY <1>1, <1>2, <1>4, <1>5 DEF TypeOK, Offsets, Running
<1>7. OffsetsInv'
  <2>1. (Misread' <=> Misread) /\ Ahead' = Ahead /\ (Misread => faulted)
    BY <1>1, <1>2 DEF Misread, Ahead, OffsetsInv
  <2> QED
    BY <1>1, <1>2, <1>3, <1>4, <2>1 DEF OffsetsInv, Running
<1>8. LoopInv'
  <2> SUFFICES ASSUME ~faulted', Fits
               PROVE  /\ Holds(nBytes)' /\ fpos = nBytes + nb /\ dpos = nBytes
                      /\ \A k \in 0 .. nb - 1 : fileBuf[k] = file.data[nBytes + k]
                      /\ \A k \in 0 .. nb - 1 : flash'[nBytes + k] = Blank
    BY <1>2, <1>3 DEF LoopInv, Fits, Running
  <2>1. /\ Holds(nBytes) /\ fpos = nBytes + nb /\ dpos = nBytes
        /\ \A k \in 0 .. nb - 1 : fileBuf[k] = file.data[nBytes + k]
    BY <1>1, <1>2, <1>4 DEF LoopInv
  <2>2. erasesize = EraseSize /\ size = file.len /\ nBytes < file.len
    BY <1>1, <1>2, <1>4, TrueSizes
  <2>3. /\ nBytes + nb <= FlashSize /\ nBytes < FlashSize /\ nb <= EraseSize
        /\ EraseSize \in Nat /\ FlashSize \in Nat /\ file.len \in Nat
    BY <1>1, <1>3, <2>2, Sizes DEF Fits
  <2>4. flash' = [c \in Partition |-> IF c \in nBytes .. nBytes + EraseSize - 1
                                        THEN Blank ELSE flash[c]]
    <3>1. flash' = [c \in Partition |-> IF c \in Erasing THEN Blank ELSE flash[c]]
      BY DEF Erase, Fails
    <3> QED
      BY <2>2, <2>3, <3>1, ErasingSector
  <2>5. ASSUME NEW k \in 0 .. nb - 1 PROVE flash'[nBytes + k] = Blank
    <3>1. nBytes + k \in Partition
      <4>1. k \in Nat /\ k < nb
        BY <1>3
      <4> QED
        BY <1>3, <2>3, <4>1, InPartition
    <3>2. nBytes + k \in nBytes .. nBytes + EraseSize - 1
      BY <1>3, <2>3
    <3> QED
      BY <2>4, <3>1, <3>2
  <2>6. ASSUME NEW c \in 0 .. Lesser(nBytes, file.len) - 1 PROVE flash'[c] = file.data[c]
    <3>1. c \in Partition /\ c < nBytes
      BY <1>3, <2>2, <2>3 DEF Partition, Lesser
    <3>2. flash'[c] = flash[c]
      BY <1>3, <2>3, <2>4, <3>1
    <3> QED
      BY <2>1, <3>2 DEF Holds
  <2>7. Holds(nBytes)'
    BY <1>2, <2>6 DEF Holds
  <2> QED
    BY <2>1, <2>5, <2>7
<1> QED
  BY <1>2, <1>6, <1>7, <1>8 DEF FlashInv, ImageWritten

\* Writing puts the sector's part of the image where it was blanked.
LEMMA WriteStep ==
    ASSUME FlashInv, Write
    PROVE  FlashInv'
<1>1. TypeOK /\ OffsetsInv /\ LoopInv
  BY DEF FlashInv
<1>2. /\ pc = "write" /\ pc \in Running /\ NextSector
      /\ UNCHANGED <<file, erasesize, size, sizeVars, fpos, fileBuf, devBuf, short>>
  BY DEF Write, bufVars, sizeVars, Running
<1> DEFINE av == Available(dpos, nb)
<1>3. PICK m \in 0 .. av : /\ Transfers("write", m, av)
                           /\ flash' = Written(flash, fileBuf, dpos, m) /\ dpos' = dpos + m
  BY DEF Write
<1>4. /\ nBytes < size /\ nb \in Nat /\ nb <= erasesize /\ nBytes \in Nat /\ erasesize \in Nat
      /\ dpos <= FlashSize /\ dpos \in Nat /\ FlashSize \in Nat /\ EraseSize \in Nat \ {0}
  BY <1>1, <1>2, Sizes DEF OffsetsInv
<1>5. av \in Nat /\ av <= nb /\ dpos + av <= FlashSize /\ (dpos + nb <= FlashSize => av = nb)
  BY <1>4, AvailableBound
<1> HIDE DEF av
<1>6. m \in Nat /\ m <= av /\ faulted' \in BOOLEAN /\ (faulted => faulted') /\ (~faulted' => m = av)
  BY <1>1, <1>3, <1>5, TransferStep DEF TypeOK
<1>7. flash' \in [Partition -> Cells]
  <2> SUFFICES ASSUME NEW c \in Partition
               PROVE  (IF c \in dpos .. dpos + m - 1
                          THEN Programmed(flash[c], fileBuf[c - dpos]) ELSE flash[c]) \in Cells
    BY <1>3 DEF Written
  <2>1. CASE c \in dpos .. dpos + m - 1
    <3>1. m <= erasesize
      BY <1>4, <1>5, <1>6
    <3>2. c - dpos \in Offsets
      BY <1>4, <1>6, <2>1, <3>1, InBuffer DEF Offsets
    <3> QED
      BY <1>1, <2>1, <3>2, ProgrammedCell DEF TypeOK
  <2> QED
    BY <1>1, <2>1 DEF TypeOK
<1>8. TypeOK'
  <2>1. dpos' \in Nat /\ nBytes' \in Nat
    BY <1>2, <1>3, <1>4, <1>6 DEF NextSector
  <2>2. pc' \in Running \cup {"off", "done"} /\ ret' \in {"none", "true", "false"}
    BY <1>1, <1>2 DEF NextSector, Loop, Running, TypeOK
  <2> QED
    BY <1>1, <1>2, <1>6, <1>7, <2>1, <2>2 DEF TypeOK, Offsets
<1>9. ~faulted' /\ Fits => fpos = nBytes + nb /\ dpos' = nBytes + nb /\ Holds(nBytes)'
  <2> SUFFICES ASSUME ~faulted', Fits
               PROVE  fpos = nBytes + nb /\ dpos' = nBytes + nb /\ Holds(nBytes)'
    OBVIOUS
  <2>1. /\ Holds(nBytes) /\ fpos = nBytes + nb /\ dpos = nBytes
        /\ \A k \in 0 .. nb - 1 : fileBuf[k] = file.data[nBytes + k]
        /\ \A k \in 0 .. nb - 1 : flash[nBytes + k] = Blank
    BY <1>1, <1>2, <1>6 DEF LoopInv
  <2>2. size = file.len /\ nBytes + nb <= file.len /\ (nb = erasesize \/ nBytes + nb = file.len)
        /\ file.len \in Nat /\ file.len <= FlashSize
    BY <1>1, <1>2, <1>4, <1>6, TrueSizes, Sizes DEF Fits
  <2>3. m = nb
    BY <1>4, <1>5, <1>6, <2>1, <2>2
  <2> SUFFICES ASSUME NEW c \in 0 .. Lesser(nBytes + erasesize, file.len) - 1
               PROVE  flash'[c] = file.data[c]
    BY <1>2, <1>3, <2>1, <2>3 DEF Holds, NextSector
  <2>4. c \in Partition /\ c \in Nat /\ c < nBytes + nb
    BY <1>4, <2>2 DEF Partition, Lesser
  <2>5. CASE c < nBytes
    <3>1. flash'[c] = flash[c]
      BY <1>3, <1>4, <2>1, <2>4, <2>5 DEF Written
    <3> QED
      BY <1>4, <2>1, <2>2, <2>4, <2>5, <3>1 DEF Holds, Lesser
  <2>6. CASE c >= nBytes
    <3>1. c - nBytes \in 0 .. nb - 1 /\ nBytes + (c - nBytes) = c /\ c \in nBytes .. nBytes + nb - 1
      BY <1>4, <2>4, <2>6
    <3>2. c - nBytes \in Offsets
      BY <1>4, <3>1, InBuffer DEF Offsets
    <3>3. flash'[c] = Programmed(flash[c], fileBuf[c - nBytes])
      BY <1>3, <2>1, <2>3, <2>4, <3>1 DEF Written
    <3>4. flash[c] = Blank /\ fileBuf[c - nBytes] = file.data[c]
      BY <2>1, <3>1
    <3> QED
      BY <1>1, <2>4, <3>2, <3>3, <3>4, ProgrammedCell DEF TypeOK
  <2> QED
    BY <1>4, <2>4, <2>5, <2>6
<1>10. ~Misread => dpos' <= nBytes + Ahead + nb
  <2>1. ~Misread => dpos <= nBytes + Ahead
    BY <1>1, <1>2, <1>4 DEF OffsetsInv, Ahead
  <2>2. Ahead \in Nat
    BY <1>4 DEF Ahead
  <2> QED
    BY <1>3, <1>4, <1>5, <1>6, <2>1, <2>2
<1>11. dpos' <= FlashSize
  BY <1>3, <1>4, <1>5, <1>6
<1> QED
  BY <1>1, <1>2, <1>6, <1>8, <1>9, <1>10, <1>11, SectorDone

\* Every step, power losses and failing calls included, keeps the invariant.
LEMMA NextFlash ==
    ASSUME FlashInv, [Next]_vars
    PROVE  FlashInv'
<1>1. CASE UNCHANGED vars
  BY <1>1 DEF vars, bufVars, sizeVars, FlashInv, TypeOK, OffsetsInv, LoopInv, ImageWritten, Holds,
     Fits, nb, Running, Offsets, Misread, Ahead
<1> QED
  BY <1>1, StartStep, RefuseStep, PowerLossStep, ReadFileStep, ReadFlashStep, CompareStep,
     EraseStep, WriteStep DEF Next, Step

-----------------------------------------------------------------------------
(* The theorems.                                                           *)

\* Offsets and buffers are in step with the loop until a call fails.
THEOREM FlashInvariant == Spec => []FlashInv
<1>1. FlashInv /\ [Next]_vars => FlashInv'
  BY NextFlash
<1> QED
  BY <1>1, InitFlash, PTL DEF Spec

\* A run of ProgramFlash in which no call fails leaves the image in flash, whatever
\* power losses and failed runs left there before.
THEOREM ImageIsWritten == Spec => []ImageWritten
<1>1. FlashInv => ImageWritten
  BY DEF FlashInv
<1> QED
  BY <1>1, FlashInvariant, PTL

\* A sector that already holds its part of the image is not erased.
THEOREM ErasedOnlyIfDifferent == Spec => []NoNeedlessErase
<1>1. FlashInv => NoNeedlessErase
  <2> SUFFICES ASSUME FlashInv, pc = "erase", ~faulted, Fits
               PROVE  ~Holds(nBytes + EraseSize)
    BY DEF NoNeedlessErase
  <2>1. TypeOK /\ pc \in Running
    BY DEF FlashInv, Running
  <2>2. erasesize = EraseSize /\ size = file.len /\ nBytes < file.len
    BY <2>1, TrueSizes DEF FlashInv
  <2>3. PICK k \in 0 .. nb - 1 : flash[nBytes + k] # file.data[nBytes + k]
    BY <2>1 DEF FlashInv, LoopInv
  <2>4. nBytes + k \in 0 .. Lesser(nBytes + EraseSize, file.len) - 1
    BY <2>1, <2>2, Sizes DEF Lesser
  <2> QED
    BY <2>3, <2>4 DEF Holds
<1> QED
  BY <1>1, FlashInvariant, PTL

\* No step, whichever calls fail, changes a cell beyond the sector that is being worked on,
\* with two exceptions: sizes that MEMGETINFO or fstat failed to give, and a first read of the
\* device that got only a part, after which writes reach less than a sector further.
THEOREM BeyondImageIsKept == Spec => BeyondImageKept
<1> DEFINE Kept == \A c \in Partition : flash'[c] # flash[c] /\ ~Misread =>
                       nBytes < file.len /\ c < nBytes + EraseSize + Ahead
<1>1. ASSUME FlashInv, [Next]_vars PROVE [Kept]_vars
  <2>1. TypeOK /\ OffsetsInv
    BY <1>1 DEF FlashInv
  <2>2. ASSUME pc \in {"erase", "write"}, ~Misread
        PROVE  /\ nBytes < file.len
               /\ \A c \in InProgress : c < nBytes + EraseSize + Ahead
    <3>1. /\ erasesize = EraseSize /\ nBytes < file.len /\ dpos <= nBytes + Ahead
          /\ Ahead \in Nat /\ nBytes \in Nat /\ dpos \in Nat /\ EraseSize \in Nat
          /\ nb \in Nat /\ nb <= EraseSize
      BY <2>1, <2>2, Sizes DEF OffsetsInv, Misread, Running, Ahead
    <3>2. ASSUME NEW c \in InProgress, pc = "erase" PROVE c < nBytes + EraseSize + Ahead
      <4>1. c \in nBytes .. nBytes + EraseSize - 1
        BY <3>1, <3>2 DEF InProgress, Erasing
      <4> QED
        BY <3>1, <4>1
    <3>3. ASSUME NEW c \in InProgress, pc = "write" PROVE c < nBytes + EraseSize + Ahead
      <4>1. c \in dpos .. dpos + nb - 1
        BY <3>3 DEF InProgress
      <4> QED
        BY <3>1, <4>1
    <3> QED
      BY <2>2, <3>1, <3>2, <3>3
  <2>3. ASSUME pc \in {"erase", "write"},
               \A c \in Partition : flash'[c] # flash[c] => c \in InProgress
        PROVE  Kept
    BY <2>2, <2>3
  <2>4. CASE UNCHANGED flash
    BY <2>4
  <2>5. CASE Erase
    <3>1. \A c \in Partition : flash'[c] # flash[c] => c \in InProgress
      <4>1. CASE flash' = [c \in Partition |-> IF c \in Erasing THEN Blank ELSE flash[c]]
        BY <2>5, <4>1 DEF Erase, InProgress
      <4> QED
        BY <2>1, <2>5, <4>1, TornCells DEF Erase
    <3> QED
      BY <2>3, <2>5, <3>1 DEF Erase
  <2>6. CASE Write
    <3>1. PICK m \in 0 .. Available(dpos, nb) : flash' = Written(flash, fileBuf, dpos, m)
      BY <2>6 DEF Write
    <3>2. /\ pc \in Running /\ dpos \in Nat /\ dpos <= FlashSize /\ nb \in Nat
      BY <2>1, <2>6, Sizes DEF Write, Running, OffsetsInv
    <3>3. Available(dpos, nb) \in Nat /\ Available(dpos, nb) <= nb
      BY <3>2, AvailableBound
    <3>4. m <= nb /\ m \in Nat
      BY <3>2, <3>3
    <3>5. ASSUME NEW c \in Partition, flash'[c] # flash[c] PROVE c \in InProgress
      <4>1. c \in dpos .. dpos + m - 1
        BY <3>1, <3>5 DEF Written
      <4>2. c \in dpos .. dpos + nb - 1
        BY <3>2, <3>4, <4>1
      <4> QED
        BY <2>6, <3>5, <4>2 DEF InProgress, Write
    <3> QED
      BY <2>3, <2>6, <3>5 DEF Write
  <2>7. CASE PowerLoss
    <3>1. \A c \in Partition : flash'[c] # flash[c] => c \in InProgress
      BY <2>1, <2>7, TornCells DEF PowerLoss
    <3>2. CASE pc \in {"erase", "write"}
      BY <2>3, <3>1, <3>2
    <3>3. CASE pc \notin {"erase", "write"}
      BY <3>1, <3>3 DEF InProgress
    <3> QED
      BY <3>2, <3>3
  <2> QED
    BY <1>1, <2>4, <2>5, <2>6, <2>7
       DEF Next, Step, Start, Refuse, ReadFile, ReadFlash, Compare, vars
<1> QED
  BY <1>1, FlashInvariant, PTL DEF Spec, BeyondImageKept

=============================================================================
