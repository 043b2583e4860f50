------------------------------- MODULE MemTest -------------------------------
(***************************************************************************)
(* The DDR memory test of the manufacturing test (memtest.c): memtest_all  *)
(* with its fifteen tests, which write a pattern, clean and invalidate the *)
(* caches, read the pattern back, and count and log what differs.          *)
(*                                                                         *)
(* A word is one number with one bit for each of the four byte lanes; of   *)
(* the patterns this is bit 0 of every byte, so that 0x55 is 1 and 0xAA is *)
(* 0, and of an address enough bits to tell addresses apart. The memory    *)
(* has one fault, or none. Behind the caches a write reaches the memory at *)
(* any time up to the next DCacheInvalidate; a read finds the cache first. *)
(***************************************************************************)
EXTENDS Integers, Sequences, FiniteSets

CONSTANTS
    Lanes,      \* byte lanes (4)
    Start,      \* first word under test
    Size,       \* number of words under test, a multiple of four
    LineWords,  \* words of a cache line
    LogMax,     \* errors that err_buf has room for (80)
    ErrLimit,   \* errors in every lane after which a test stops early (1000)
    Faults,     \* faults the memory may have
    Selections, \* sets of tests to run: values of the mask sel
    MaxRuns     \* calls of memtest_all

\* Powers of two, as a function by recursion.
Pow2[n \in Nat] == IF n = 0 THEN 1 ELSE 2 * Pow2[n - 1]

Values == 0 .. Pow2[Lanes] - 1
Window == 0 .. Size - 1                     \* words, relative to Start
Modes  == 0 .. 14
Lane(v, l) == (v \div Pow2[l]) % 2

\* A fault: none; a bit of a word stuck at a value; an address line that is not
\* connected; or a memory that reads the same everywhere.
FaultSet ==
    [kind : {"none"}] \cup [kind : {"stuck"}, word : Window, lane : 0 .. Lanes - 1, bit : {0, 1}]
    \cup [kind : {"line"}, line : 0 .. Size] \cup [kind : {"dead"}, data : Values]

ASSUME MemTestAssumption ==
    /\ Lanes \in Nat \ {0, 1} /\ Start \in Nat /\ Size \in Nat \ {0} /\ Size % 4 = 0
    /\ LineWords \in Nat \ {0} /\ LogMax \in Nat \ {0} /\ ErrLimit \in Nat
    /\ Faults \subseteq FaultSet /\ Selections \subseteq SUBSET Modes /\ MaxRuns \in Nat

VARIABLES
    mPc,      \* where memtest_all is
    mSel,     \* sel: the tests to run
    mBus,     \* bus_width
    mFault,   \* the fault of the memory
    mMem,     \* the memory
    mCache,   \* the caches: a function from the dirty words to their values
    mMode,    \* the test that runs
    mI,       \* its loop counter, in words
    mSeed,    \* rseed
    mMerr,    \* merr: words in error in this test
    mLerr,    \* lerrcnt: bytes in error in this test, per lane
    mWerr,    \* werr: words in error in all tests
    mErr,     \* errcnt: bytes in error in all tests, per lane
    mEpp,     \* epp: the tests that found an error
    mMail,    \* the mailbox registers ERR_INFO
    mLog,     \* err_buf, and what lies before it
    mHist,    \* history: the first errors met, as many as the log takes, in order
    mRuns     \* calls so far

mVars == <<mPc, mSel, mBus, mFault, mMem, mCache, mMode, mI, mSeed, mMerr, mLerr,
           mWerr, mErr, mEpp, mMail, mLog, mHist, mRuns>>

NoErrors == [l \in 0 .. Lanes - 1 |-> 0]
Zero == <<0, 0, 0>>

-----------------------------------------------------------------------------
(* The memory and the caches: what is not in src/.                         *)

NoWords == [w \in {} |-> 0]

\* The cell that an address selects.
Cell(w) ==
    IF mFault.kind = "line" /\ Lane(w, mFault.line) = 1 THEN w - Pow2[mFault.line] ELSE w

\* What word w reads when its cell holds v.
Reads(w, v) ==
    CASE mFault.kind = "stuck" /\ mFault.word = w ->
            v + (mFault.bit - Lane(v, mFault.lane)) * Pow2[mFault.lane]
      [] mFault.kind = "dead" -> mFault.data
      [] OTHER -> v

\* The memories that result when the words W of c reach it, in any order: of two
\* words that share a cell, either may come last.
WrittenBack(c, W) ==
    LET For   == [x \in Window |-> {w \in W : Cell(w) = x}]
        early == [x \in Window |-> IF For[x] = {} THEN mMem[x]
                                   ELSE c[CHOOSE w \in For[x] : \A v \in For[x] : w <= v]]
        late  == [x \in Window |-> IF For[x] = {} THEN mMem[x]
                                   ELSE c[CHOOSE w \in For[x] : \A v \in For[x] : v <= w]]
    IN  {[x \in Window |-> IF x \in H THEN late[x] ELSE early[x]] :
            H \in SUBSET {x \in Window : Cardinality(For[x]) > 1}}

Load(w) == IF w \in DOMAIN mCache THEN mCache[w] ELSE Reads(w, mMem[Cell(w)])

-----------------------------------------------------------------------------
(* The patterns.                                                           *)

Ones == Pow2[Lanes] - 1
Low  == Pow2[Lanes \div 2] - 1     \* 0x0000FFFF
High == Ones - Low                 \* 0xFFFF0000

\* d0 .. d3 of tests 1 to 8.
Simple32 == << <<0, 0, 0, 0>>, <<Ones, Ones, Ones, Ones>>, <<0, 0, 0, 0>>,
               <<Ones, Ones, Ones, Ones>>, <<0, Ones, 0, Ones>>, <<Ones, 0, Ones, 0>>,
               <<Ones, 0, Ones, 0>>, <<0, Ones, 0, Ones>> >>
Simple16(m) == IF m \in {5, 8} THEN High ELSE Low
SimpleWord(m, i) ==
    IF m \in 5 .. 8 /\ mBus = 16 THEN Simple16(m) ELSE Simple32[m][(i % 4) + 1]

\* pattern1 and pattern1_16bit, and the words that update_patterns makes of them;
\* of the sixteen words that share an inverted bit, the first ones.
Pattern1 == <<0, 0, Ones, 0, 0, Ones, 0, Ones, Ones, Ones, 0, Ones, Ones, 0, Ones, 0>>
Pattern1_16bit == <<0, Low, High, High, Ones, High, Low, Low,
                    0, Low, High, High, Ones, High, Low, Low>>
update_patterns(i) == IF mBus = 32 THEN Pattern1[(i % 16) + 1] ELSE Pattern1_16bit[(i % 16) + 1]
Inverted(v) == Ones - v

\* One step of the linear feedback shift register, and its value for word i.
YLFSR(a) == (2 * a + ((Lane(a, Lanes - 1) + Lane(a, Lanes - 2) + 1) % 2)) % Pow2[Lanes]
Random(m, seed, i) ==
    LET r[k \in 0 .. i + 1] == IF k = 0 THEN (19 * m + seed) % Pow2[Lanes] ELSE YLFSR(r[k - 1])
    IN  r[i + 1]

\* The word that test m writes at i and expects there.
Ref(m, seed, i) ==
    CASE m = 0 -> (Start + i) % Pow2[Lanes]
      [] m \in 1 .. 8 -> SimpleWord(m, i)
      [] m = 9 -> update_patterns(i)
      [] m = 10 -> Inverted(update_patterns(i))
      [] m \in 11 .. 14 -> Random(m, seed, i)

-----------------------------------------------------------------------------
MemInit ==
    /\ mPc = "idle" /\ mSel = {} /\ mBus \in {16, 32} /\ mFault \in Faults
    /\ mMem = [x \in Window |-> 0] /\ mCache = NoWords
    /\ mMode = 0 /\ mI = 0 /\ mSeed = 0 /\ mMerr = 0 /\ mLerr = NoErrors
    /\ mWerr = 0 /\ mErr = NoErrors /\ mEpp = {}
    /\ mMail = Zero /\ mLog = [k \in -1 .. LogMax - 1 |-> Zero]
    /\ mHist = <<>> /\ mRuns = 0

\* Mutant: the first error goes to the second place.
error_info_OffByOne(w, e) ==
    /\ mMail' = IF w <= 1 THEN e ELSE mMail
    /\ mLog' = IF w < LogMax THEN [mLog EXCEPT ![w] = e] ELSE mLog

\* error_info when werr is w. With none counted yet it writes before err_buf.
error_info(w, e) ==
    /\ mMail' = IF w <= 1 THEN e ELSE mMail
    /\ mLog' = IF w <= LogMax THEN [mLog EXCEPT ![w - 1] = e] ELSE mLog

Cleared(log) == [k \in DOMAIN log |-> IF k >= 0 THEN Zero ELSE log[k]]

\* memtest_all up to its first test. The log is cleared after the mailbox, which
\* error_info does, and with it the place before the log.
memtest_all ==
    /\ mPc \in {"idle", "done"} /\ mRuns < MaxRuns /\ mRuns' = mRuns + 1
    /\ mSel' \in Selections
    /\ mMail' = Zero /\ mLog' = Cleared([mLog EXCEPT ![-1] = Zero])
    /\ mWerr' = 0 /\ mEpp' = {} /\ mErr' = NoErrors /\ mHist' = <<>>
    /\ mPc' = "next" /\ mMode' = 0
    /\ UNCHANGED <<mBus, mFault, mMem, mCache, mI, mSeed, mMerr, mLerr>>

\* The next test that sel names. A test of random words changes the seed first.
NextTest ==
    /\ mPc = "next"
    /\ IF mMode \in mSel
       THEN /\ mPc' = "write" /\ mMode' = mMode
            /\ mSeed' = IF mMode >= 11 THEN (mSeed + 3) % Pow2[Lanes] ELSE mSeed
       ELSE /\ mPc' = IF mMode = 14 THEN "done" ELSE "next"
            /\ mMode' = IF mMode = 14 THEN 14 ELSE mMode + 1
            /\ mSeed' = mSeed
    /\ mI' = 0 /\ mMerr' = 0 /\ mLerr' = NoErrors
    /\ UNCHANGED <<mSel, mBus, mFault, mMem, mCache, mWerr, mErr, mEpp, mMail, mLog,
                   mHist, mRuns>>

\* The loop that writes. Some lines of the cache have been written back when it ends.
WritePass ==
    /\ mPc = "write" /\ mPc' = "flush"
    /\ \E ref \in {[w \in Window |-> Ref(mMode, mSeed, w)]},
         C \in SUBSET {w \div LineWords : w \in Window} :
          /\ mCache' = [w \in {w \in Window : w \div LineWords \in C} |-> ref[w]]
          /\ mMem' \in WrittenBack(ref, {w \in Window : w \div LineWords \notin C})
    /\ UNCHANGED <<mSel, mBus, mFault, mMode, mI, mSeed, mMerr, mLerr, mWerr, mErr, mEpp,
                   mMail, mLog, mHist, mRuns>>

\* Mutant: nothing is written back or invalidated.
DCacheInvalidate_Nothing ==
    /\ mPc = "flush" /\ mPc' = "read"
    /\ UNCHANGED <<mSel, mBus, mFault, mMem, mCache, mMode, mI, mSeed, mMerr, mLerr, mWerr,
                   mErr, mEpp, mMail, mLog, mHist, mRuns>>

\* Dirty lines are written back, and nothing stays in the caches.
DCacheInvalidate ==
    /\ mPc = "flush" /\ mPc' = "read"
    /\ mMem' \in WrittenBack(mCache, DOMAIN mCache) /\ mCache' = NoWords
    /\ UNCHANGED <<mSel, mBus, mFault, mMode, mI, mSeed, mMerr, mLerr, mWerr, mErr, mEpp,
                   mMail, mLog, mHist, mRuns>>

\* The address that a test reports for word i: memtest_simple, which works on four
\* words at a time, reports the address of the group plus 4 + j.
Reported(m, i) ==
    IF m \in 1 .. 8 THEN 4 * (Start + i - (i % 4)) + 4 + (i % 4) ELSE 4 * (Start + i)

\* Every lane has so many errors that the test stops; memtest_simple looks only
\* after a group of four.
TooMany(lerr) ==
    (mMode \in 1 .. 8 => mI % 4 = 3) /\ \A l \in DOMAIN lerr : lerr[l] > ErrLimit

\* One word of the loop that reads and compares.
ReadCompare ==
    /\ mPc = "read" /\ mI < Size
    /\ LET data == Load(mI)
           ref  == Ref(mMode, mSeed, mI)
           lerr == [l \in DOMAIN mLerr |->
                       mLerr[l] + IF Lane(data, l) # Lane(ref, l) THEN 1 ELSE 0]
       IN  /\ IF data = ref
              THEN UNCHANGED <<mWerr, mMerr, mMail, mLog, mHist>>
              ELSE /\ mWerr' = mWerr + 1 /\ mMerr' = mMerr + 1
                   /\ error_info(mWerr + 1, <<Reported(mMode, mI), ref, data>>)
                   /\ mHist' = IF Len(mHist) = LogMax THEN mHist ELSE Append(mHist,
                         [mode |-> mMode, word |-> mI, ref |-> ref, data |-> data])
           /\ mLerr' = lerr
           /\ mPc' = IF TooMany(lerr) THEN "sum" ELSE "read"
           /\ mI' = mI + 1
    /\ UNCHANGED <<mSel, mBus, mFault, mMem, mCache, mMode, mSeed, mErr, mEpp, mRuns>>

\* The counts of the test are added to those of all tests. A test runs once, so
\* that the sum of the 1 << mode is a set.
AddUp ==
    /\ mPc = "sum" \/ (mPc = "read" /\ mI = Size)
    /\ mErr' = [l \in DOMAIN mErr |-> mErr[l] + mLerr[l]]
    /\ mEpp' = IF mMerr > 0 THEN mEpp \cup {mMode} ELSE mEpp
    /\ mPc' = IF mMode = 14 THEN "done" ELSE "next"
    /\ mMode' = IF mMode = 14 THEN 14 ELSE mMode + 1
    /\ UNCHANGED <<mSel, mBus, mFault, mMem, mCache, mI, mSeed, mMerr, mLerr, mWerr, mMail,
                   mLog, mHist, mRuns>>

MemNext ==
    memtest_all \/ NextTest \/ WritePass \/ DCacheInvalidate \/ ReadCompare \/ AddUp

MemSpec == MemInit /\ [][MemNext]_mVars

-----------------------------------------------------------------------------
(* Properties.                                                             *)

\* The seed of the random test m in a run of memtest_all that has ended: rseed is
\* advanced once for every random test.
Later(m) == {k \in mSel \cap (11 .. 14) : k > m}
SeedOf(m) == (mSeed - 3 * Cardinality(Later(m))) % Pow2[Lanes]

\* A test can show the fault if no content of the memory would read as its pattern.
Shows(m) ==
    \E i, j \in Window :
        Cell(i) = Cell(j) /\ Reads(j, Ref(m, SeedOf(m), i)) # Ref(m, SeedOf(m), j)

\* memtest_all reports exactly the tests that can show the fault of the memory: none
\* of a good memory, each one that a fault contradicts, whatever the caches hold; and
\* it blames a stuck bit on its own byte lane, once for each such test.
FaultFound ==
    mPc = "done" =>
        /\ mEpp = {m \in mSel : Shows(m)}
        /\ mFault.kind = "stuck" =>
              mErr = [NoErrors EXCEPT ![mFault.lane] = Cardinality(mEpp)]

\* The words passed in this test, each with what it reads and what it should; those in
\* error; and those with an error in lane l.
Passed   == {<<w, Load(w), Ref(mMode, mSeed, w)>> : w \in 0 .. mI - 1}
Bad      == {p \in Passed : p[2] # p[3]}
BadIn(l) == {p \in Bad : Lane(p[2], l) # Lane(p[3], l)}

Entry(h, e) ==
    e[2] = h.ref /\ e[3] = h.data /\ (h.mode \notin 1 .. 8 => e[1] = 4 * (Start + h.word))

\* The counts of the test are those of the words passed.
CountsExact ==
    mPc \in {"read", "sum"} =>
        /\ mMerr = Cardinality(Bad)
        /\ \A l \in 0 .. Lanes - 1 : mLerr[l] = Cardinality(BadIn(l))

\* The log is the first errors in the order in which they were met, with nothing behind
\* them, and the mailbox is its first entry. The address is left out for
\* memtest_simple, which reports another one.
LogExact ==
    /\ Len(mHist) = IF mWerr < LogMax THEN mWerr ELSE LogMax
    /\ \A k \in 1 .. LogMax :
          IF k <= mWerr THEN Entry(mHist[k], mLog[k - 1]) ELSE mLog[k - 1] = Zero
    /\ mMail = mLog[0]

\* Counters, mailbox and log tell the same story as the memory (error_info, which goes
\* by werr, with tests that stop early).
ErrorsExact == CountsExact /\ LogExact

=============================================================================
