------------------------------- MODULE EyeTest -------------------------------
(***************************************************************************)
(* The DDR eye measurements of the manufacturing test (memtest.c):         *)
(* measure_write_eye and measure_read_eye, which move the sampling point   *)
(* of every byte lane away from the middle of the bit until the memory     *)
(* test fails, and weye_test1, which does so for a range of drive          *)
(* strengths and keeps the best one (find_best_eye).                       *)
(*                                                                         *)
(* A lane works at the offsets of an interval, its eye, which depends on   *)
(* the drive strength; the memory test that decides is in MemTest. The     *)
(* write measurement changes a list of register values that ddrc_init      *)
(* writes to the controller; the read measurement writes the registers     *)
(* itself. Units are those of the code: 128 to a bit.                      *)
(***************************************************************************)
EXTENDS Integers, Sequences, FiniteSets

CONSTANTS
    Eyes,      \* tables of eyes: drive strength and lane to <<first, last>> offset
    EyeSteps,  \* step sizes: 4, 2 or 1
    Dqs,       \* dqs ratio of a lane, register R55
    Fwe        \* difference of the registers R5A and R50

EyeLanes == 0 .. 3

ASSUME EyeAssumption ==
    /\ EyeSteps \subseteq {1, 2, 4} /\ Dqs \in 0 .. 895 /\ Fwe \in 0 .. 895
    /\ \A t \in Eyes : t \in Seq([EyeLanes -> Int \X Int]) /\ t # <<>>

VARIABLES
    ePc,     \* where the measurement is
    eKind,   \* "write", "read" or "weye", the tests that measure
    eTable,  \* the eyes of this memory
    eTrain,  \* the controller adds the offset to its own training result (R46)
    eStep,   \* step size
    eDrive,  \* drive strength in use
    eHw,     \* registers of the controller
    eList,   \* ddrc_reg_values
    eSave,   \* what was saved of them: of the list, or of the registers
    eOrig,   \* history: the registers when the test began
    eThen,   \* where to go on after the registers have been written
    eK,      \* direction of the search, 0 for up
    eM,      \* its step
    eEye,    \* mineye and maxeye per lane
    eRes,    \* gresult: the result of each measurement
    eChoice  \* the choice of find_best_eye

eVars == <<ePc, eKind, eTable, eTrain, eStep, eDrive, eHw, eList, eSave, eOrig, eThen,
           eK, eM, eEye, eRes, eChoice>>

All(v) == [l \in EyeLanes |-> v]
Unseen == All(<<9999, -9999>>)

\* The registers: enable bit, read data training, write offset (R46, 7 bits), write
\* ratio (R5F, 10 bits), read ratio (R50) and gate ratio (R5A) of each lane.
Default == [en |-> TRUE, train |-> TRUE, off |-> All(64), wd |-> All(Dqs + 64),
            rd |-> All(53), we |-> All(53 + Fwe)]

\* Timing: everything but the enable bit.
Timing(r) == <<r.train, r.off, r.wd, r.rd, r.we>>

-----------------------------------------------------------------------------
\* The offset that a lane works with: of the ratio, or, with training, of the offset
\* register. What the hardware makes of them is not in src/.
Effective(l) ==
    IF eKind = "read" THEN eHw.rd[l]
    ELSE IF eTrain    THEN eHw.off[l]
    ELSE eHw.wd[l] - Dqs

Works(l) == LET eye == eTable[eDrive][l]
            IN  eye[1] <= Effective(l) /\ Effective(l) <= eye[2]

EyeInit ==
    /\ ePc = "idle" /\ eKind = "write" /\ eTable \in Eyes /\ eTrain \in BOOLEAN
    /\ eStep \in EyeSteps /\ eDrive = 1
    /\ eHw = Default /\ eList = Default /\ eSave = Default /\ eOrig = Default
    /\ eThen = "test" /\ eK = 0 /\ eM = 0 /\ eEye = Unseen /\ eRes = <<>> /\ eChoice = 0

\* ddrc_get: the list becomes a copy of the registers. The control register is in it
\* twice, first and last, and the enable bit of the first is cleared; the list as
\* modelled holds the last.
ddrc_get == eList' = eHw

\* The start of the menu's write eye test and of weye_test1.
WriteEyeTest ==
    /\ ePc = "idle" /\ ePc' = "begin"
    /\ \/ eKind' = "write" /\ eStep' = eStep
       \/ eKind' = "weye" /\ eStep' = 4
    /\ ddrc_get /\ eOrig' = eHw
    /\ UNCHANGED <<eTable, eTrain, eDrive, eHw, eSave, eThen, eK, eM, eEye, eRes, eChoice>>

\* measure_write_eye up to its loop: the list is saved.
measure_write_eye ==
    /\ ePc = "begin" /\ ePc' = "offset"
    /\ eSave' = eList /\ eK' = 0 /\ eM' = 0 /\ eEye' = Unseen
    /\ UNCHANGED <<eKind, eTable, eTrain, eStep, eDrive, eHw, eList, eOrig, eThen, eRes,
                   eChoice>>

\* measure_read_eye up to its loop: registers saved, controller and training off.
measure_read_eye ==
    /\ ePc = "idle" /\ ePc' = "offset" /\ eKind' = "read"
    /\ eSave' = eHw /\ eOrig' = eHw
    /\ eHw' = [eHw EXCEPT !.en = FALSE, !.train = FALSE]
    /\ eK' = 0 /\ eM' = 0 /\ eEye' = Unseen
    /\ UNCHANGED <<eTable, eTrain, eStep, eDrive, eList, eThen, eRes, eChoice>>

mmax == 64 \div eStep
Offset == IF eK = 0 THEN 64 + eStep * eM ELSE 60 - eStep * eM
InRange == eM <= mmax /\ Offset >= 0 /\ Offset <= 128

\* update_reglist of the offset fields, which keep 7 and 10 bits.
WithOffset(r, off) ==
    [r EXCEPT !.off = [l \in EyeLanes |-> off[l] % 128],
              !.wd  = [l \in EyeLanes |-> (Dqs + off[l]) % 1024]]

\* Mutant: the new offset also goes to the saved copy.
LoadOffset_Saved ==
    /\ ePc = "offset" /\ InRange /\ ePc' = "disable" /\ eThen' = "test"
    /\ eList' = WithOffset(eList, All(Offset)) /\ eSave' = eList'
    /\ UNCHANGED <<eKind, eTable, eTrain, eStep, eDrive, eHw, eOrig, eK, eM, eEye, eRes,
                   eChoice>>

\* The next offset, put into the list for the write measurement.
LoadOffset ==
    /\ ePc = "offset" /\ InRange /\ ePc' = "disable" /\ eThen' = "test"
    /\ eList' = IF eKind = "read" THEN eList ELSE WithOffset(eList, All(Offset))
    /\ UNCHANGED <<eKind, eTable, eTrain, eStep, eDrive, eHw, eSave, eOrig, eK, eM, eEye,
                   eRes, eChoice>>

\* A direction is done: the other, or the end of the measurement.
EndDirection(pc) ==
    /\ eM' = 0 /\ eK' = 1
    /\ ePc' = IF eK = 0 THEN "offset" ELSE pc

LoopEnds ==
    /\ ePc = "offset" /\ ~InRange /\ EndDirection("restore")
    /\ UNCHANGED <<eKind, eTable, eTrain, eStep, eDrive, eHw, eList, eSave, eOrig, eThen,
                   eEye, eRes, eChoice>>

\* ddrc_init, or the same done by measure_read_eye: first the control register without
\* the enable bit, ...
DisableController ==
    /\ ePc = "disable" /\ ePc' = "program"
    /\ eHw' = [eHw EXCEPT !.en = FALSE]
    /\ UNCHANGED <<eKind, eTable, eTrain, eStep, eDrive, eList, eSave, eOrig, eThen, eK,
                   eM, eEye, eRes, eChoice>>

\* ... then the timing: all of the list, or the read ratios of the lanes, or all
\* that measure_read_eye saved, ...
ProgramTiming ==
    /\ ePc = "program" /\ ePc' = "enable"
    /\ eHw' = IF eKind # "read" THEN [eList EXCEPT !.en = eHw.en]
              ELSE IF eThen = "test"
              THEN [eHw EXCEPT !.rd = All(Offset),
                               !.we = [l \in EyeLanes |->
                                          Offset + (eSave.we[l] - eSave.rd[l])]]
              ELSE [eSave EXCEPT !.en = eHw.en]
    /\ UNCHANGED <<eKind, eTable, eTrain, eStep, eDrive, eList, eSave, eOrig, eThen, eK,
                   eM, eEye, eRes, eChoice>>

\* ... and last the control register as it was.
EnableController ==
    /\ ePc = "enable" /\ ePc' = eThen
    /\ eHw' = [eHw EXCEPT !.en = IF eKind = "read" THEN eSave.en ELSE eList.en]
    /\ UNCHANGED <<eKind, eTable, eTrain, eStep, eDrive, eList, eSave, eOrig, eThen, eK,
                   eM, eEye, eRes, eChoice>>

Wider(eye, i) == <<IF i < eye[1] THEN i ELSE eye[1], IF i > eye[2] THEN i ELSE eye[2]>>

\* Mutant: one lane that fails ends the search for all.
TestOffset_AnyLane ==
    /\ ePc = "test"
    /\ eEye' = [l \in EyeLanes |-> IF Works(l) THEN Wider(eEye[l], Offset) ELSE eEye[l]]
    /\ IF \A l \in EyeLanes : Works(l)
       THEN ePc' = "offset" /\ eM' = eM + 1 /\ eK' = eK
       ELSE EndDirection("restore")
    /\ UNCHANGED <<eKind, eTable, eTrain, eStep, eDrive, eHw, eList, eSave, eOrig, eThen,
                   eRes, eChoice>>

\* memtest_all at this offset, and what is made of its per-lane counts.
TestOffset ==
    /\ ePc = "test"
    /\ eEye' = [l \in EyeLanes |-> IF Works(l) THEN Wider(eEye[l], Offset) ELSE eEye[l]]
    /\ IF \E l \in EyeLanes : Works(l)
       THEN ePc' = "offset" /\ eM' = eM + 1 /\ eK' = eK
       ELSE EndDirection("restore")
    /\ UNCHANGED <<eKind, eTable, eTrain, eStep, eDrive, eHw, eList, eSave, eOrig, eThen,
                   eRes, eChoice>>

\* The end of a measurement: the list, or the registers, are restored and the result
\* is given. The caller of measure_write_eye writes the list to the controller, or
\* goes on to the next drive strength.
EndMeasurement ==
    /\ ePc = "restore" /\ eRes' = Append(eRes, eEye)
    /\ eList' = IF eKind = "read" THEN eList ELSE eSave
    /\ IF eKind = "weye"
       THEN IF eDrive = Len(eTable) THEN ePc' = "choose" /\ eDrive' = eDrive
                                    ELSE ePc' = "begin" /\ eDrive' = eDrive + 1
       ELSE ePc' = "disable" /\ eDrive' = eDrive
    /\ eThen' = "end"
    /\ UNCHANGED <<eKind, eTable, eTrain, eStep, eHw, eSave, eOrig, eK, eM, eEye, eChoice>>

-----------------------------------------------------------------------------
(* find_best_eye.                                                          *)

Width(r, l) == r[l][2] - r[l][1]
Total(f) == f[0] + f[1] + f[2] + f[3]

\* qual1: the sum of the widths, none if a lane has no eye.
Qual1(r) == IF \E l \in EyeLanes : Width(r, l) <= 0 THEN 0
            ELSE Total([l \in EyeLanes |-> Width(r, l)])

\* qual2: how far the widths are from that sum, which the code takes for their mean.
Qual2(r) ==
    LET w(l) == IF Width(r, l) <= 0 THEN 0 ELSE Width(r, l)
    IN  Total([l \in EyeLanes |-> (Qual1(r) - w(l)) * (Qual1(r) - w(l))]) \div 4

\* Mutant: variation between lanes counts for a setting, not against it.
Qual3_Added(r) == Qual2(r) - Qual1(r) * Qual1(r)

Qual3(r) == Qual1(r) * Qual1(r) - Qual2(r)

\* maxpos[0]: the first of the best, unless all are as bad as the start value.
BestOf(q, S) ==
    LET top == {i \in S : q[i] > -9999 /\ \A j \in S : q[j] <= q[i]}
    IN  IF top = {} THEN 0 ELSE CHOOSE i \in top : \A j \in top : i <= j

\* The results that find_best_eye may return, 1 for the first experiment and 0 for
\* none. Among the best two or three the neighbours decide; those of the first and of
\* the last are outside the array, and may be anything.
find_best_eye(res) ==
    LET q   == [i \in DOMAIN res |-> Qual3(res[i])]
        p0  == BestOf(q, DOMAIN q)
        p1  == BestOf(q, DOMAIN q \ {p0})
        p2  == BestOf(q, DOMAIN q \ {p0, p1})
        same(a, b) == a # 0 /\ b # 0 /\ q[a] = q[b]
        tied == IF same(p0, p1) THEN {p0, p1} \cup (IF same(p1, p2) THEN {p2} ELSE {}) ELSE {p0}
        near(i) == q[i - 1] + q[i + 1]
        edge == \E i \in tied : i - 1 \notin DOMAIN q \/ i + 1 \notin DOMAIN q
    IN  IF Cardinality(tied) = 3 /\ p1 = p0 + 1 /\ p2 = p1 + 1 THEN {p1}
        ELSE IF Cardinality(tied) = 1 \/ edge THEN tied
        ELSE LET top == {i \in tied : \A j \in tied : near(i) >= near(j)}
             IN  {CHOOSE i \in top : \A j \in top : i <= j}

Centre(eye) == (eye[1] + eye[2]) \div 2

\* weye_test1 after its measurements: centre and drive strength of the choice, and
\* ddrc_init. Without a choice both are read from what lies before the results.
ImplementChoice ==
    /\ ePc = "choose" /\ ePc' = "disable" /\ eThen' = "end"
    /\ eChoice' \in find_best_eye(eRes)
    /\ IF eChoice' = 0
       THEN /\ eDrive' = 0
            /\ \E off \in {All(0), All(64)} : eList' = WithOffset(eList, off)
       ELSE /\ eDrive' = eChoice'
            /\ eList' = WithOffset(eList, [l \in EyeLanes |-> Centre(eRes[eChoice'][l])])
    /\ UNCHANGED <<eKind, eTable, eTrain, eStep, eHw, eSave, eOrig, eK, eM, eEye, eRes>>

EyeNext ==
    \/ WriteEyeTest \/ measure_write_eye \/ measure_read_eye \/ LoadOffset \/ LoopEnds
    \/ DisableController \/ ProgramTiming \/ EnableController \/ TestOffset
    \/ EndMeasurement \/ ImplementChoice

EyeSpec == EyeInit /\ [][EyeNext]_eVars

-----------------------------------------------------------------------------
(* Properties.                                                             *)

Grid == {i \in 0 .. 128 : (i >= 64 /\ (i - 64) % eStep = 0) \/ (i <= 60 /\ (60 - i) % eStep = 0)}

\* With training the register takes 128 for 0: a lane that works at 0 but not at 128.
Wraps(eye) == eKind # "read" /\ eTrain /\ (eye[1] <= 0) # (eye[2] >= 128)

\* An eye that is open at the middle of the bit is measured to the last offset of the
\* grid at either end, whatever the other lanes do; any other is not reported wider
\* than it is. The offset 128, which the 7-bit field cannot hold, is left out.
EyeMeasured ==
    \A d \in DOMAIN eRes, l \in EyeLanes :
        LET eye == eTable[d][l]
            on  == {i \in Grid : eye[1] <= i /\ i <= eye[2]}
            got == eRes[d][l]
        IN  ~Wraps(eye) =>
               /\ {60, 64} \subseteq on =>
                     /\ got[1] \in on /\ \A i \in on : got[1] <= i
                     /\ got[2] \in on /\ \A i \in on : i <= got[2]
               /\ got = <<9999, -9999>> \/ {got[1], got[2]} \subseteq on

\* A measurement ends with the controller as it found it; the optimisation with the
\* controller enabled and every lane at the centre of the eye that was measured at the
\* drive strength that is now set.
SettingsRestored ==
    ePc = "end" =>
        IF eKind # "weye" THEN eHw = eOrig
        ELSE eChoice # 0 => /\ eDrive = eChoice /\ eHw.en
                            /\ eHw = WithOffset(eOrig, [l \in EyeLanes |->
                                         Centre(eRes[eChoice][l])])

\* The settings of the memory controller survive a measurement, and its timing changes
\* only while it is disabled, in every order of saving, loading, failing and restoring
\* (ddrc_init, measure_write_eye, measure_read_eye, weye_test1).
SettingsKept == [][SettingsRestored' /\ (Timing(eHw') # Timing(eHw) => ~eHw'.en)]_eVars

Open(r) == \A l \in EyeLanes : Width(r, l) > 0

\* If any drive strength opens the eye of every lane, the one chosen does, and no
\* other is as wide in every lane and wider in one: although find_best_eye takes the
\* sum of the widths for their mean, its quality still grows with every width.
ParetoChosen ==
    ePc = "end" /\ eKind = "weye" /\ (\E d \in DOMAIN eRes : Open(eRes[d])) =>
        /\ eChoice # 0 /\ Open(eRes[eChoice])
        /\ ~ \E d \in DOMAIN eRes :
                /\ Open(eRes[d])
                /\ \A l \in EyeLanes : Width(eRes[d], l) >= Width(eRes[eChoice], l)
                /\ eRes[d] # eRes[eChoice]
                /\ \E l \in EyeLanes : Width(eRes[d], l) > Width(eRes[eChoice], l)

-----------------------------------------------------------------------------
(* The inductive invariant behind SettingsKept.                            *)

Fields == DOMAIN Default

\* The list that the test leaves behind, or the centred one, which ddrc_init is about
\* to write.
LastList ==
    IF eKind = "weye"
    THEN eChoice # 0 => /\ eDrive = eChoice
                        /\ eList = WithOffset(Default, [l \in EyeLanes |->
                                       Centre(eRes[eChoice][l])])
    ELSE eKind = "write" => eList = Default

\* What was saved is what there was when the test began, and on the way out the list
\* and the registers return to it (measure_write_eye, measure_read_eye, weye_test1).
EyeInv ==
    /\ eKind \in {"write", "read", "weye"}
    /\ ePc \in {"idle", "begin", "offset", "disable", "program", "enable", "test",
                "restore", "choose", "end"}
    /\ eThen \in {"test", "end"}
    /\ DOMAIN eHw = Fields /\ DOMAIN eList = Fields
    /\ eOrig = Default
    /\ ePc = "idle" => eHw = Default
    /\ ePc \notin {"idle", "begin"} => eSave = Default
    /\ ePc \in {"begin", "choose"} => eList = Default /\ eKind # "read"
    /\ ePc = "choose" => eKind = "weye"
    /\ ePc = "program" => eHw.en = FALSE
    /\ ePc \in {"disable", "program", "enable"} /\ eThen = "end" => LastList
    /\ ePc = "enable" /\ eThen = "end" =>
          eHw = [(IF eKind = "read" THEN eSave ELSE eList) EXCEPT !.en = FALSE]
    /\ SettingsRestored

-----------------------------------------------------------------------------
(* The invariants behind EyeMeasured and ParetoChosen.                     *)

\* A measurement is going on, up to its result; and an offset is being set for a test.
Setting   == ePc = "test" \/ (ePc \in {"disable", "program", "enable"} /\ eThen = "test")
Measuring == Setting \/ ePc \in {"offset", "restore"}

EyeTypes ==
    /\ eTable \in Eyes /\ eTrain \in BOOLEAN /\ eStep \in {1, 2, 4}
    /\ eK \in {0, 1} /\ eM \in Nat
    /\ eEye \in [EyeLanes -> Int \X Int] /\ eRes \in Seq([EyeLanes -> Int \X Int])
    /\ Measuring \/ ePc \in {"idle", "begin"} =>
          eDrive = Len(eRes) + 1 /\ eDrive \in DOMAIN eTable
    /\ ePc = "idle" => eRes = <<>>
    /\ ePc = "restore" => eK = 1
    /\ ePc = "begin" => eRes = <<>> \/ eKind = "weye"

\* The offset that is being set is in the list, and then in the registers.
OffsetSet ==
    Setting =>
        /\ InRange
        /\ eKind # "read" => /\ eList.off = All(Offset % 128)
                             /\ eList.wd = All((Dqs + Offset) % 1024)
        /\ ePc \in {"enable", "test"} =>
              IF eKind = "read" THEN eHw.rd = All(Offset)
              ELSE eHw.off = eList.off /\ eHw.wd = eList.wd

\* The offsets at which lane l works.
On(l) == {i \in Grid : eTable[eDrive][l][1] <= i /\ i <= eTable[eDrive][l][2]}

\* The offsets that the search has passed. After a direction has ended these are all
\* of it, for a lane that works where the search begins.
PassedUp(l, i)   == i >= 64 /\ IF eK = 0 THEN i < 64 + eStep * eM ELSE 64 \in On(l)
PassedDown(l, i) == i <= 60 /\ eK = 1 /\ IF ePc = "restore" THEN 60 \in On(l)
                                                          ELSE i > 60 - eStep * eM

\* What has been found of the eye of lane l: nothing that is not there, and everything
\* that the search has passed.
Found(l) ==
    /\ eEye[l] = <<9999, -9999>> \/ {eEye[l][1], eEye[l][2]} \subseteq On(l)
    /\ \A i \in On(l) :
          PassedUp(l, i) \/ PassedDown(l, i) => eEye[l][1] <= i /\ i <= eEye[l][2]

EyesFound == Measuring => \A l \in EyeLanes : ~Wraps(eTable[eDrive][l]) => Found(l)

\* The choice stands until it is in force.
ChoiceInv ==
    eKind = "weye" /\ (ePc = "end" \/ (ePc \in {"disable", "program", "enable"} /\ eThen = "end"))
        => eChoice \in find_best_eye(eRes)

MeasureInv == EyeTypes /\ OffsetSet /\ EyesFound /\ EyeMeasured /\ ChoiceInv /\ ParetoChosen

=============================================================================
