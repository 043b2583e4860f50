---------------------------- MODULE MfgTestProofs ----------------------------
(***************************************************************************)
(* Proofs about the programs on the bare processor. The manufacturing      *)
(* test: its command loop, its eye measurements, the switch test and the   *)
(* memory test, for any mailbox contents, number of commands, eyes,        *)
(* switch, memory, fault and selection of tests. The demo application: the *)
(* reader of its command line, for any line.                               *)
(***************************************************************************)
EXTENDS MfgTest, BoardId, EyeTest, MemTest, DemoApp, FiniteSetTheorems,
        WellFoundedInduction, TLAPS

\* The settings that menu commands change one after the other, and what the sizes of
\* the tests are made from: the scale doubles from one call of 'e' to the next.
SettingsOK == tScale \in 1 .. 1023 /\ tTemp \in 1 .. 1024 /\ tSel \in 0 .. 7

\* A window as WindowInMemory wants it.
Inside(w) == w \in Int \X Int /\ w[1] >= 1 /\ w[2] >= 1 /\ w[1] + w[2] <= 1024

\* The inductive invariant.
MfgInv == SettingsOK /\ tReq \in Requests /\ Inside(tWin)

\* The limits of a start/size test hold whatever the two numbers are.
LEMMA ClampedInside ==
    ASSUME NEW a \in Int, NEW n \in Int
    PROVE  Inside(Clamped(a, n))
BY DEF Inside, Clamped

\* The product of MAILBOX_START and a megabyte, in megabytes, is a number, however
\* the overflow of an int turns out.
LEMMA StartNumber ==
    ASSUME NEW n \in Nat
    PROVE  StartMB(n) \subseteq Int
<1>1. (n % 4096) \in Int
  OBVIOUS
<1> QED
  BY <1>1 DEF StartMB

\* Behind the first megabyte there is room for 1023.
LEMMA SizeInside ==
    ASSUME NEW n \in 1 .. 1023
    PROVE  Inside(<<1, n>>)
BY DEF Inside

\* The windows of a fixed size.
LEMMA FixedWindows == Inside(<<1, 1>>) /\ Inside(<<1, 64>>)
<1>1. 1 \in 1 .. 1023 /\ 64 \in 1 .. 1023
  OBVIOUS
<1> QED
  BY <1>1, SizeInside

\* The fixed sizes of the menu commands.
LEMMA FixedInside ==
    ASSUME NEW c \in DOMAIN Fixed
    PROVE  Inside(<<1, Fixed[c]>>)
<1>1. Fixed[c] \in 1 .. 1023
  BY DEF Fixed
<1> QED
  BY <1>1, SizeInside

\* The sizes of the test loop.
LEMMA LoopInside ==
    ASSUME NEW i \in 0 .. 7
    PROVE  Inside(<<1, test_sizes[i + 1]>>)
<1>1. test_sizes[i + 1] \in 1 .. 1023
  BY DEF test_sizes
<1> QED
  BY <1>1, SizeInside

\* Whatever the command is, its window is inside the memory (memtest_run).
LEMMA WindowsInside ==
    ASSUME SettingsOK, NEW req \in Requests
    PROVE  \A w \in Windows(req) : Inside(w)
<1>1. CASE req.cmd = "start"
  <2>1. req \in [cmd : {"start"}, start : StartRegs, size : SizeRegs]
    BY <1>1 DEF Requests, MenuCmds, Fixed
  <2>2. req.start \in Nat /\ req.size \in Nat
    <3>1. StartRegs \subseteq Nat /\ SizeRegs \subseteq Nat
      BY MfgAssumption
    <3> QED
      BY <2>1, <3>1
  <2>3. (req.size % 1024) \in Int
    BY <2>2
  <2>4. \A a \in StartMB(req.start) : Inside(Clamped(a, req.size % 1024))
    BY <2>2, <2>3, StartNumber, ClampedInside
  <2>5. Windows(req) = StartWindows(req)
    BY <1>1, Zenon DEF Windows, Fixed
  <2> QED
    BY <2>4, <2>5 DEF StartWindows
<1>2. CASE req.cmd # "start"
  <2>1. Inside(<<1, 1>>) /\ Inside(<<1, 64>>)
    BY FixedWindows
  <2>2. Inside(<<1, tScale>>)
    BY SizeInside DEF SettingsOK
  <2>3. Inside(<<1, test_sizes[tSel + 1]>>)
    BY LoopInside DEF SettingsOK
  <2>4. req.cmd \in DOMAIN Fixed => Inside(<<1, Fixed[req.cmd]>>)
    BY FixedInside
  <2> QED
    BY <1>2, <2>1, <2>2, <2>3, <2>4 DEF Windows, NoTest
<1> QED
  BY <1>1, <1>2

\* The scale of the eye tests and the size of the test loop stay in their ranges.
LEMMA SettingsStep == ASSUME SettingsOK, MfgNext PROVE SettingsOK'
<1>1. CASE memtest_run
  BY <1>1 DEF memtest_run, SettingsOK
<1>2. CASE RunCommand
  <2>1. CASE tReq.cmd = "scale"
    <3> DEFINE t == tTemp * 2
               s == IF t > 128 THEN t - 1 ELSE t
    <3>1. tSel' = tSel /\ NextScale
      BY <1>2, <2>1 DEF RunCommand
    <3>2. \/ s > 1023 /\ tScale' = 1 /\ tTemp' = 1
          \/ s <= 1023 /\ tScale' = s /\ tTemp' = t
      BY <3>1 DEF NextScale, SettingsOK
    <3>3. s \in Int /\ t \in Int /\ s >= 1 /\ t >= 1 /\ s >= t - 1
      BY DEF SettingsOK
    <3> HIDE DEF t, s
    <3>4. CASE s > 1023
      BY <3>1, <3>2, <3>3, <3>4 DEF SettingsOK
    <3>5. CASE s <= 1023
      <4>1. tScale' = s /\ tTemp' = t
        BY <3>2, <3>3, <3>5
      <4> QED
        BY <3>1, <3>3, <3>5, <4>1 DEF SettingsOK
    <3> QED
      BY <3>3, <3>4, <3>5
  <2>2. CASE tReq.cmd # "scale"
    BY <1>2, <2>2 DEF RunCommand, SettingsOK
  <2> QED
    BY <2>1, <2>2
<1>3. CASE HostCommand \/ WaitGo \/ ReportDone
  <2>1. UNCHANGED <<tScale, tTemp, tSel>>
    BY <1>3 DEF HostCommand, WaitGo, ReportDone
  <2> QED
    BY <2>1 DEF SettingsOK
<1> QED
  BY <1>1, <1>2, <1>3 DEF MfgNext

\* Every step keeps the invariant.
LEMMA MfgStep == ASSUME MfgInv, MfgNext PROVE MfgInv'
<1>1. SettingsOK'
  BY SettingsStep DEF MfgInv
<1>2. tReq' \in Requests /\ Inside(tWin')
  <2>1. NoReq \in Requests /\ [cmd |-> "s"] \in Requests
    BY DEF NoReq, Requests, MenuCmds, Fixed
  <2>2. Inside(NoTest)
    BY FixedWindows DEF NoTest
  <2>3. CASE RunCommand
    BY <2>3, WindowsInside DEF RunCommand, MfgInv
  <2>4. CASE memtest_run \/ HostCommand \/ WaitGo \/ ReportDone
    BY <2>1, <2>2, <2>4 DEF memtest_run, HostCommand, WaitGo, ReportDone, MfgInv
  <2> QED
    BY <2>3, <2>4 DEF MfgNext
<1> QED
  BY <1>1, <1>2 DEF MfgInv

\* The program starts with the smallest window and size.
LEMMA MfgInitHolds == MfgInit => MfgInv
<1> SUFFICES ASSUME MfgInit
             PROVE  MfgInv
  OBVIOUS
<1>1. SettingsOK
  BY DEF MfgInit, SettingsOK
<1>2. tReq \in Requests
  BY DEF MfgInit, NoReq, Requests, MenuCmds, Fixed
<1>3. Inside(tWin)
  BY FixedWindows DEF MfgInit, NoTest
<1> QED
  BY <1>1, <1>2, <1>3 DEF MfgInv

\* Every test of every command stays between the first megabyte and the end of the
\* memory, for all values in the mailbox and any number of commands (memtest_run).
THEOREM WindowAlwaysInMemory == MfgSpec => []WindowInMemory
<1>1. MfgInv /\ [MfgNext]_<<tVars>> => MfgInv'
  <2>1. MfgInv /\ UNCHANGED <<tVars>> => MfgInv'
    BY DEF tVars, MfgInv, SettingsOK
  <2> QED
    BY <2>1, MfgStep
<1>2. MfgInv => WindowInMemory
  BY DEF MfgInv, Inside, WindowInMemory
<1> QED
  BY <1>1, <1>2, MfgInitHolds, PTL DEF MfgSpec

-----------------------------------------------------------------------------
(* The board-id switch (TestBoardID).                                      *)

\* The switch has not been read before the test.
LEMMA SwitchInit == BoardIdInit => SwitchInv
BY BoardIdAssumption
   DEF BoardIdInit, SwitchInv, BoardIdTypeOK, OnlyBounced, Counted

\* A turned switch may bounce, but everything read before it was turned was good
\* (TestBoardID).
LEMMA TurnStep == ASSUME SwitchInv, Turn PROVE SwitchInv'
<1>1. iPrev \in iAt \cup {16}
  BY DEF SwitchInv, OnlyBounced, BoardIdTypeOK, Turn
<1>2. UNCHANGED <<iPc, iOk, iLast, iPrev, iDeb, iAt>> /\ iRest' = 0
      /\ iSw' \in Ids /\ iBounce' \in 0 .. MaxBounce
  BY DEF Turn
<1>3. BoardIdTypeOK'
  BY <1>2, BoardIdAssumption DEF SwitchInv, BoardIdTypeOK
<1> QED
  BY <1>1, <1>2, <1>3 DEF SwitchInv, OnlyBounced, Counted

\* A spoilt reading that is repeated is one more, and one fewer is left to be spoilt.
LEMMA OneLess ==
    ASSUME NEW deb \in Int, NEW bounce \in Int, NEW max \in Int, deb + 1 + bounce <= max,
           NEW deb2 \in Int, NEW bounce2 \in Int, deb2 <= deb + 1, bounce2 = bounce - 1
    PROVE  deb2 + 1 + bounce2 <= max
OBVIOUS

\* The first reading of a kind counts as one, whatever is left to be spoilt.
LEMMA NoneLeft ==
    ASSUME NEW bounce \in Int, NEW max \in Int, bounce <= max,
           NEW deb2 \in Int, NEW bounce2 \in Int, deb2 <= 0, bounce2 = bounce - 1
    PROVE  deb2 + 1 + bounce2 <= max
OBVIOUS

\* One reading, good or spoilt, keeps the count right (TestBoardID).
LEMMA ReadSwitchStep == ASSUME SwitchInv, ReadSwitch PROVE SwitchInv'
<1> DEFINE D == Debounce
           bounce == iBounce > 0
<1>0. /\ D \in Nat /\ D > 0 /\ MaxBounce \in Nat /\ MaxBounce <= D /\ 16 \notin Ids
      /\ iDeb \in 0 .. D /\ iBounce \in 0 .. MaxBounce /\ iRest \in 0 .. D + 1
      /\ iOk \subseteq iAt /\ iAt \subseteq Ids /\ iSw \in Ids
      /\ iLast \in Ids \cup {16} /\ iPrev \in Ids \cup {16}
      /\ (iLast # 16 => iLast \in iOk)
  BY BoardIdAssumption DEF SwitchInv, BoardIdTypeOK
<1>1. PICK id \in IF bounce THEN Ids ELSE {iSw} :
         LET new == id # iLast /\ Repeated(id) >= D
         IN  /\ iPrev' = id
             /\ iDeb' = IF new THEN 0 ELSE IF Repeated(id) > D THEN D ELSE Repeated(id)
             /\ iOk' = IF new THEN iOk \cup {id} ELSE iOk
             /\ iLast' = IF new THEN id ELSE iLast
  BY DEF ReadSwitch
<1> DEFINE new == id # iLast /\ Repeated(id) >= D
<1>2. /\ iBounce' = IF bounce THEN iBounce - 1 ELSE 0
      /\ iRest' = IF bounce \/ iRest > D THEN iRest ELSE iRest + 1
      /\ iAt' = IF bounce THEN iAt ELSE iAt \cup {iSw}
      /\ iPc' = iPc /\ iSw' = iSw /\ iPc' = "id"
  BY DEF ReadSwitch
<1>3. id \in Ids /\ (~bounce => id = iSw) /\ iAt \subseteq iAt' /\ (~bounce => id \in iAt')
  BY <1>0, <1>1, <1>2
<1>4. Repeated(id) \in 0 .. D + 1 /\ (id # iPrev => Repeated(id) = 0)
      /\ (id = iPrev => Repeated(id) = iDeb + 1)
  BY <1>0 DEF Repeated
<1>5. /\ new => iDeb' = 0 /\ iOk' = iOk \cup {id} /\ iLast' = id
      /\ ~new => iDeb' \in 0 .. D /\ iDeb' <= Repeated(id) /\ iOk' = iOk /\ iLast' = iLast
      /\ ~new /\ Repeated(id) <= D => iDeb' = Repeated(id)
      /\ iPrev' = id
  BY <1>0, <1>1, <1>4
<1> HIDE DEF new
<1>6. ASSUME new PROVE id \in iAt'
  <2>1. id = iPrev /\ iDeb + 1 >= D
    BY <1>0, <1>4, <1>6 DEF new
  <2>2. bounce => iPrev \in iAt \cup {16}
    BY <1>0, <2>1 DEF SwitchInv, OnlyBounced
  <2>3. id # 16
    BY <1>0, <1>3
  <2> QED
    BY <1>2, <1>3, <2>1, <2>2, <2>3
<1>7. BoardIdTypeOK'
  <2>1. iOk' \subseteq Ids /\ iAt' \subseteq Ids /\ iLast' \in Ids \cup {16} /\ iDeb' \in 0 .. D
    BY <1>0, <1>2, <1>3, <1>5
  <2>2. iBounce' \in 0 .. MaxBounce /\ iRest' \in 0 .. D + 1
    BY <1>0, <1>2
  <2> QED
    BY <1>0, <1>2, <1>3, <1>5, <2>1, <2>2 DEF BoardIdTypeOK
<1>8. iOk' \subseteq iAt' /\ (iLast' # 16 => iLast' \in iOk')
  BY <1>0, <1>3, <1>5, <1>6
<1>9. OnlyBounced'
  <2> SUFFICES ASSUME id \notin iAt' \cup {16}
               PROVE  iRest' = 0 /\ iDeb' + 1 + iBounce' <= MaxBounce
    BY <1>5 DEF OnlyBounced
  <2>1. bounce /\ id \notin iAt \cup {16} /\ ~new
    BY <1>3, <1>6
  <2>2. iRest = 0
    BY <1>0, <2>1 DEF SwitchInv, Counted
  <2>3. iBounce' = iBounce - 1 /\ iRest' = 0 /\ iDeb' \in 0 .. D /\ iDeb' <= Repeated(id)
    BY <1>2, <1>5, <2>1, <2>2
  <2>4. /\ iDeb \in Int /\ iDeb' \in Int /\ iBounce \in Int /\ iBounce <= MaxBounce
        /\ MaxBounce \in Int /\ iBounce' \in Int /\ iBounce' = iBounce - 1 /\ iRest' = 0
    BY <1>0, <2>3
  <2>5. CASE id = iPrev
    <3>1. iDeb + 1 + iBounce <= MaxBounce
      BY <2>1, <2>5 DEF SwitchInv, OnlyBounced
    <3>2. Repeated(id) = iDeb + 1
      BY <1>4, <2>5
    <3>3. iDeb' <= iDeb + 1
      BY <2>3, <3>2
    <3> QED
      BY <2>4, <3>1, <3>3, OneLess
  <2>6. CASE id # iPrev
    <3>1. Repeated(id) = 0
      BY <1>4, <2>6
    <3>2. iDeb' <= 0
      BY <2>3, <3>1
    <3> QED
      BY <2>4, <3>2, NoneLeft
  <2> QED
    BY <2>5, <2>6
<1>10. Counted'
  <2> SUFFICES ASSUME iRest' > 0
               PROVE  /\ iBounce' = 0 /\ id = iSw
                      /\ iSw \in iOk' \/ (iRest' <= D /\ iRest' <= iDeb' + 1)
    BY <1>2, <1>5 DEF Counted
  <2>1. ~bounce
    BY <1>0, <1>2 DEF SwitchInv, Counted
  <2>2. iBounce' = 0 /\ id = iSw
    BY <1>2, <1>3, <2>1
  <2>3. SUFFICES ASSUME iSw \notin iOk' PROVE iRest' <= D /\ iRest' <= iDeb' + 1
    BY <2>2
  <2>4. ~new /\ id # iLast /\ iSw \notin iOk
    <3>1. ~new /\ iSw \notin iOk
      BY <1>5, <2>2, <2>3
    <3> QED
      BY <1>0, <1>3, <2>2, <3>1
  <2>5. Repeated(id) < D /\ iDeb' = Repeated(id)
    BY <1>0, <1>4, <1>5, <2>4 DEF new
  <2>6. CASE iRest = 0
    BY <1>0, <1>2, <1>4, <2>1, <2>5, <2>6
  <2>7. CASE iRest > 0
    <3>1. iPrev = id /\ iRest <= D /\ iRest <= iDeb + 1
      BY <2>2, <2>4, <2>7 DEF SwitchInv, Counted
    <3> QED
      BY <1>0, <1>2, <1>4, <2>1, <2>5, <3>1
  <2> QED
    BY <1>0, <2>6, <2>7
<1> QED
  BY <1>7, <1>8, <1>9, <1>10 DEF SwitchInv

\* Every step keeps the invariant (TestBoardID).
LEMMA SwitchStep == SwitchInv /\ [BoardIdNext]_iVars => SwitchInv'
<1> SUFFICES ASSUME SwitchInv, [BoardIdNext]_iVars PROVE SwitchInv'
  OBVIOUS
<1>1. CASE TestBoardID
  BY <1>1, BoardIdAssumption
     DEF TestBoardID, SwitchInv, BoardIdTypeOK, OnlyBounced, Counted
<1>2. CASE Turn
  BY <1>2, TurnStep
<1>3. CASE ReadSwitch
  BY <1>3, ReadSwitchStep
<1>4. CASE AllFound \/ UNCHANGED iVars
  BY <1>4 DEF AllFound, iVars, SwitchInv, BoardIdTypeOK, OnlyBounced, Counted
<1> QED
  BY <1>1, <1>2, <1>3, <1>4 DEF BoardIdNext

\* For any set of positions and any debounce count: no position is found at which the
\* switch never was, and one at which it stays is found, provided that a turned switch
\* does not bounce for longer than the count (TestBoardID).
THEOREM SwitchSeenAlways == BoardIdSpec => []SwitchSeen
<1>1. SwitchInv => SwitchSeen
  BY BoardIdAssumption DEF SwitchInv, BoardIdTypeOK, Counted, SwitchSeen
<1> QED
  BY <1>1, SwitchInit, SwitchStep, PTL DEF BoardIdSpec

-----------------------------------------------------------------------------
(* The registers of the memory controller (measure_write_eye,              *)
(* measure_read_eye, weye_test1, ddrc_init).                               *)

\* The fields of the registers and of the list (ddrc_reg_values).
LEMMA FieldsAre == Fields = {"en", "train", "off", "wd", "rd", "we"}
BY DEF Fields, Default

\* Nothing has been saved or changed before the test.
LEMMA EyeInitHolds == EyeInit => EyeInv
BY DEF EyeInit, EyeInv, SettingsRestored, Fields

\* The registers with one field changed (update_reglist).
LEMMA RegisterChanged ==
    ASSUME NEW e, NEW t, NEW o, NEW w, NEW r, NEW g, NEW a
    PROVE  LET R == [en |-> e, train |-> t, off |-> o, wd |-> w, rd |-> r, we |-> g]
           IN  /\ [R EXCEPT !.en = a]
                  = [en |-> a, train |-> t, off |-> o, wd |-> w, rd |-> r, we |-> g]
               /\ [R EXCEPT !.off = a]
                  = [en |-> e, train |-> t, off |-> a, wd |-> w, rd |-> r, we |-> g]
               /\ [R EXCEPT !.wd = a]
                  = [en |-> e, train |-> t, off |-> o, wd |-> a, rd |-> r, we |-> g]
OBVIOUS

\* A change of the enable bit is undone by a second one (ddrc_init).
LEMMA EnableUndone ==
    ASSUME NEW e, NEW t, NEW o, NEW w, NEW r, NEW g, NEW a
    PROVE  [[[en |-> e, train |-> t, off |-> o, wd |-> w, rd |-> r, we |-> g]
               EXCEPT !.en = a] EXCEPT !.en = e]
           = [en |-> e, train |-> t, off |-> o, wd |-> w, rd |-> r, we |-> g]
<1>1. [[en |-> e, train |-> t, off |-> o, wd |-> w, rd |-> r, we |-> g] EXCEPT !.en = a]
      = [en |-> a, train |-> t, off |-> o, wd |-> w, rd |-> r, we |-> g]
  BY RegisterChanged
<1>2. [[en |-> a, train |-> t, off |-> o, wd |-> w, rd |-> r, we |-> g] EXCEPT !.en = e]
      = [en |-> e, train |-> t, off |-> o, wd |-> w, rd |-> r, we |-> g]
  BY RegisterChanged
<1> QED
  BY <1>1, <1>2, Zenon

\* The list with other offsets: all else is as it was (update_reglist).
LEMMA WithOffsetIs ==
    ASSUME NEW off
    PROVE  WithOffset(Default, off) =
             [en |-> TRUE, train |-> TRUE, off |-> [l \in EyeLanes |-> off[l] % 128],
              wd |-> [l \in EyeLanes |-> (Dqs + off[l]) % 1024],
              rd |-> All(53), we |-> All(53 + Fwe)]
<1> DEFINE x == [l \in EyeLanes |-> off[l] % 128]
           y == [l \in EyeLanes |-> (Dqs + off[l]) % 1024]
<1>1. WithOffset(Default, off) = [[Default EXCEPT !.off = x] EXCEPT !.wd = y]
  BY DEF WithOffset
<1> HIDE DEF x, y
<1> DEFINE t == TRUE
           a == All(53)
           b == All(53 + Fwe)
           w == All(Dqs + 64)
           o == All(64)
<1>2. Default = [en |-> t, train |-> t, off |-> o, wd |-> w, rd |-> a, we |-> b]
  BY DEF Default
<1> HIDE DEF t, a, b, w, o
<1>3. [Default EXCEPT !.off = x]
      = [en |-> t, train |-> t, off |-> x, wd |-> w, rd |-> a, we |-> b]
  BY <1>2, RegisterChanged
<1>4. [[en |-> t, train |-> t, off |-> x, wd |-> w, rd |-> a, we |-> b] EXCEPT !.wd = y]
      = [en |-> t, train |-> t, off |-> x, wd |-> y, rd |-> a, we |-> b]
  BY RegisterChanged
<1> QED
  BY <1>1, <1>3, <1>4, Zenon DEF x, y, t, a, b

\* DisableController, timing and EnableController leave what was in the list or was
\* saved (ddrc_init, measure_read_eye).
LEMMA ListWritten ==
    ASSUME NEW src, src = Default \/ \E off : src = WithOffset(Default, off),
           NEW b
    PROVE  [[src EXCEPT !.en = b] EXCEPT !.en = src.en] = src /\ src.en = TRUE
<1>1. CASE src = Default
  BY <1>1, EnableUndone DEF Default
<1>2. CASE \E off : src = WithOffset(Default, off)
  <2>1. PICK off : src = WithOffset(Default, off)
    BY <1>2
  <2> DEFINE t == TRUE   \* opaque: a Boolean is not a value to the provers
             o == [l \in EyeLanes |-> off[l] % 128]
             w == [l \in EyeLanes |-> (Dqs + off[l]) % 1024]
             r == All(53)
             g == All(53 + Fwe)
  <2>2. src = [en |-> t, train |-> t, off |-> o, wd |-> w, rd |-> r, we |-> g]
    BY <2>1, WithOffsetIs
  <2> HIDE DEF t, o, w, r, g
  <2>3. src.en = t
    BY <2>2
  <2> DEFINE e == TRUE
  <2>4. src = [en |-> e, train |-> t, off |-> o, wd |-> w, rd |-> r, we |-> g]
    BY <2>2 DEF t
  <2> HIDE DEF e
  <2>5. [[en |-> e, train |-> t, off |-> o, wd |-> w, rd |-> r, we |-> g] EXCEPT !.en = b]
        = [en |-> b, train |-> t, off |-> o, wd |-> w, rd |-> r, we |-> g]
    BY RegisterChanged
  <2>6. [[en |-> b, train |-> t, off |-> o, wd |-> w, rd |-> r, we |-> g] EXCEPT !.en = t]
        = [en |-> t, train |-> t, off |-> o, wd |-> w, rd |-> r, we |-> g]
    BY RegisterChanged
  <2>7. [[src EXCEPT !.en = b] EXCEPT !.en = t] = src
    BY <2>2, <2>4, <2>5, <2>6
  <2> QED
    BY <2>3, <2>7, Zenon DEF t
<1> QED
  BY <1>1, <1>2

\* The registers and the list keep their fields (memtest.c).
LEMMA FieldsStep ==
    ASSUME EyeInv, EyeNext
    PROVE  DOMAIN eHw' = Fields /\ DOMAIN eList' = Fields
<1>1. DOMAIN eHw = Fields /\ DOMAIN eList = Fields /\ DOMAIN Default = Fields
  BY DEF EyeInv, Fields
<1>2. \A off : DOMAIN WithOffset(eList, off) = Fields
  BY <1>1 DEF WithOffset
<1>3. ePc \notin {"idle", "begin"} => DOMAIN eSave = Fields
  BY <1>1 DEF EyeInv
<1>4. CASE WriteEyeTest \/ measure_write_eye \/ LoopEnds \/ TestOffset
  BY <1>1, <1>4 DEF WriteEyeTest, ddrc_get, measure_write_eye, LoopEnds, TestOffset
<1>5. CASE measure_read_eye
  BY <1>1, <1>5 DEF measure_read_eye
<1>6. CASE LoadOffset \/ ImplementChoice
  BY <1>1, <1>2, <1>6 DEF LoadOffset, ImplementChoice
<1>7. CASE DisableController \/ EnableController
  BY <1>1, <1>7 DEF DisableController, EnableController
<1>8. CASE ProgramTiming
  BY <1>1, <1>3, <1>8 DEF ProgramTiming
<1>9. CASE EndMeasurement
  BY <1>1, <1>3, <1>9 DEF EndMeasurement
<1> QED
  BY <1>4, <1>5, <1>6, <1>7, <1>8, <1>9 DEF EyeNext

\* Every step of a measurement keeps the invariant (memtest.c).
LEMMA EyeStep == ASSUME EyeInv, EyeNext PROVE EyeInv'
<1>0. DOMAIN eHw' = Fields /\ DOMAIN eList' = Fields
  BY FieldsStep
<1> USE DEF LastList
<1>1. CASE WriteEyeTest
  BY <1>0, <1>1 DEF WriteEyeTest, ddrc_get, EyeInv, SettingsRestored
<1>2. CASE measure_write_eye
  BY <1>0, <1>2 DEF measure_write_eye, EyeInv, SettingsRestored
<1>3. CASE measure_read_eye
  BY <1>0, <1>3 DEF measure_read_eye, EyeInv, SettingsRestored
<1>4. CASE LoadOffset
  BY <1>0, <1>4 DEF LoadOffset, EyeInv, SettingsRestored
<1>5. CASE LoopEnds
  BY <1>0, <1>5 DEF LoopEnds, EndDirection, EyeInv, SettingsRestored
<1>6. CASE DisableController
  BY <1>0, <1>6 DEF DisableController, EyeInv, SettingsRestored, Default
<1>7. CASE ProgramTiming
  <2>1. /\ ePc = "program" /\ ePc' = "enable" /\ eHw.en = FALSE
        /\ UNCHANGED <<eKind, eDrive, eList, eSave, eOrig, eThen, eRes, eChoice>>
    BY <1>0, <1>7 DEF ProgramTiming, EyeInv
  <2>2. ASSUME eThen = "end"
        PROVE  eHw' = [(IF eKind = "read" THEN eSave ELSE eList) EXCEPT !.en = FALSE]
    <3>1. CASE eKind = "read"
      BY <1>7, <2>1, <2>2, <3>1 DEF ProgramTiming
    <3>2. CASE eKind # "read"
      BY <1>7, <2>1, <2>2, <3>2 DEF ProgramTiming
    <3> QED
      BY <3>1, <3>2
  <2> QED
    BY <1>0, <2>1, <2>2 DEF EyeInv, SettingsRestored
<1>8. CASE EnableController
  <2>1. /\ ePc = "enable" /\ ePc' = eThen
        /\ UNCHANGED <<eKind, eDrive, eList, eSave, eOrig, eThen, eRes, eChoice>>
        /\ eHw' = [eHw EXCEPT !.en = IF eKind = "read" THEN eSave.en ELSE eList.en]
        /\ eSave = Default /\ eOrig = Default
    BY <1>0, <1>8 DEF EnableController, EyeInv
  <2>2. ASSUME eThen = "end" PROVE SettingsRestored'
    <3> DEFINE src == IF eKind = "read" THEN eSave ELSE eList
    <3>1. eHw = [src EXCEPT !.en = FALSE] /\ LastList
      BY <2>1, <2>2 DEF EyeInv
    <3>2. eHw' = [[src EXCEPT !.en = FALSE] EXCEPT !.en = src.en]
      BY <2>1, <3>1
    <3>3. ASSUME src = Default \/ \E off : src = WithOffset(Default, off)
          PROVE  eHw' = src /\ src.en = TRUE
      BY <3>2, <3>3, ListWritten, Zenon
    <3>4. CASE eKind = "weye"
      BY <2>1, <3>1, <3>3, <3>4 DEF SettingsRestored
    <3>5. CASE eKind # "weye"
      <4>1. src = Default
        BY <2>1, <3>1, <3>5 DEF EyeInv
      <4> QED
        BY <2>1, <3>3, <3>5, <4>1 DEF SettingsRestored
    <3> QED
      BY <3>4, <3>5
  <2>3. eThen # "end" => SettingsRestored'
    BY <2>1 DEF SettingsRestored
  <2> QED
    BY <1>0, <2>1, <2>2, <2>3 DEF EyeInv
<1>9. CASE TestOffset
  BY <1>0, <1>9 DEF TestOffset, EndDirection, EyeInv, SettingsRestored
<1>10. CASE EndMeasurement
  BY <1>0, <1>10 DEF EndMeasurement, EyeInv, SettingsRestored
<1>11. CASE ImplementChoice
  BY <1>0, <1>11 DEF ImplementChoice, EyeInv, SettingsRestored
<1> QED
  BY <1>1, <1>2, <1>3, <1>4, <1>5, <1>6, <1>7, <1>8, <1>9, <1>10, <1>11 DEF EyeNext

\* The timing of the controller changes only while it is disabled (ddrc_init,
\* measure_read_eye).
LEMMA TimingStep ==
    ASSUME EyeInv, EyeNext, Timing(eHw') # Timing(eHw)
    PROVE  ~eHw'.en
<1>1. CASE measure_read_eye
  <2>1. eHw = Default /\ eHw' = [eHw EXCEPT !.en = FALSE, !.train = FALSE]
    BY <1>1 DEF measure_read_eye, EyeInv
  <2> QED
    BY <2>1 DEF Default
<1>2. CASE ProgramTiming
  <2>1. eHw.en = FALSE
    BY <1>2 DEF ProgramTiming, EyeInv
  <2> QED
    BY <1>2, <2>1 DEF ProgramTiming
<1>3. CASE DisableController \/ EnableController
  <2>1. PICK a : eHw' = [eHw EXCEPT !.en = a]
    BY <1>3 DEF DisableController, EnableController
  <2>2. DOMAIN eHw = {"en", "train", "off", "wd", "rd", "we"}
    BY FieldsAre DEF EyeInv
  <2>3. /\ eHw'.train = eHw.train /\ eHw'.off = eHw.off /\ eHw'.wd = eHw.wd
        /\ eHw'.rd = eHw.rd /\ eHw'.we = eHw.we
    BY <2>1, <2>2
  <2> QED
    BY <2>3 DEF Timing
<1>4. CASE \/ WriteEyeTest \/ measure_write_eye \/ LoadOffset \/ LoopEnds \/ TestOffset
           \/ EndMeasurement \/ ImplementChoice
  BY <1>4 DEF WriteEyeTest, measure_write_eye, LoadOffset, LoopEnds, TestOffset,
              EndMeasurement, ImplementChoice
<1> QED
  BY <1>1, <1>2, <1>3, <1>4 DEF EyeNext

\* A step that leaves the test alone (eVars).
LEMMA EyeStays == EyeInv /\ UNCHANGED eVars => EyeInv'
BY DEF eVars, EyeInv, LastList, SettingsRestored

\* For every table of eyes, step size and order of the tests: a measurement ends with
\* the controller as it found it, the optimisation with the choice in force, and the
\* timing changes only while the controller is disabled (measure_write_eye,
\* measure_read_eye, weye_test1, ddrc_init).
THEOREM SettingsAlwaysKept == EyeSpec => SettingsKept
<1>1. EyeInv /\ [EyeNext]_eVars => EyeInv'
  BY EyeStays, EyeStep
<1>2. EyeInv /\ EyeInv' /\ [EyeNext]_eVars
      => [SettingsRestored' /\ (Timing(eHw') # Timing(eHw) => ~eHw'.en)]_eVars
  <2>1. EyeInv' => SettingsRestored'
    BY DEF EyeInv
  <2> QED
    BY <2>1, TimingStep
<1> QED
  BY <1>1, <1>2, EyeInitHolds, PTL DEF EyeSpec, SettingsKept

-----------------------------------------------------------------------------
(* What a measurement finds (measure_write_eye, measure_read_eye).          *)

\* The grid of offsets and the search on it, for each step size of the menu
\* (measure_write_eye, measure_read_eye).
LEMMA OnTheGrid ==
    ASSUME EyeTypes, InRange
    PROVE  /\ Offset \in Grid
           /\ eK = 0 => \A i \in Grid : i >= 64 /\ i < 64 + eStep * (eM + 1)
                                         => i < 64 + eStep * eM \/ i = Offset
           /\ eK = 1 => \A i \in Grid : i <= 60 /\ i > 60 - eStep * (eM + 1)
                                         => i > 60 - eStep * eM \/ i = Offset
<1>1. eStep \in {1, 2, 4} /\ eM \in Nat /\ eK \in {0, 1}
  BY DEF EyeTypes
<1>2. CASE eStep = 1
  BY <1>1, <1>2 DEF InRange, Offset, Grid, mmax
<1>3. CASE eStep = 2
  BY <1>1, <1>3 DEF InRange, Offset, Grid, mmax
<1>4. CASE eStep = 4
  BY <1>1, <1>4 DEF InRange, Offset, Grid, mmax
<1> QED
  BY <1>1, <1>2, <1>3, <1>4

\* The loop ends when all of a direction has been passed.
LEMMA PassedAll ==
    ASSUME EyeTypes, ~InRange
    PROVE  \A i \in Grid : /\ eK = 0 => i < 64 + eStep * eM
                           /\ eK = 1 => i > 60 - eStep * eM
<1>1. eStep \in {1, 2, 4} /\ eM \in Nat /\ eK \in {0, 1}
  BY DEF EyeTypes
<1>2. CASE eStep = 1
  BY <1>1, <1>2 DEF InRange, Offset, Grid, mmax
<1>3. CASE eStep = 2
  BY <1>1, <1>3 DEF InRange, Offset, Grid, mmax
<1>4. CASE eStep = 4
  BY <1>1, <1>4 DEF InRange, Offset, Grid, mmax
<1> QED
  BY <1>1, <1>2, <1>3, <1>4

\* The eye of a lane at the drive strength in use.
LEMMA EyeOfLane ==
    ASSUME EyeTypes, Measuring, NEW l \in EyeLanes
    PROVE  /\ eTable[eDrive][l][1] \in Int /\ eTable[eDrive][l][2] \in Int
           /\ eEye[l] \in Int \X Int /\ eEye[l][1] \in Int /\ eEye[l][2] \in Int
<1>1. eTable \in Seq([EyeLanes -> Int \X Int]) /\ eDrive \in DOMAIN eTable
  BY EyeAssumption DEF EyeTypes
<1>2. eTable[eDrive] \in [EyeLanes -> Int \X Int]
  BY <1>1
<1>3. eTable[eDrive][l] \in Int \X Int
  BY <1>2
<1> QED
  BY <1>3 DEF EyeTypes

\* A lane works at the offset that is set if its eye holds that offset, with and
\* without training, in the registers of both measurements (update_reglist).
LEMMA WorksInEye ==
    ASSUME EyeTypes, OffsetSet, ePc = "test", NEW l \in EyeLanes,
           ~Wraps(eTable[eDrive][l])
    PROVE  Works(l) <=> Offset \in On(l)
<1> DEFINE a == eTable[eDrive][l][1]
           b == eTable[eDrive][l][2]
<1>1. a \in Int /\ b \in Int
  BY EyeOfLane DEF Measuring, Setting
<1>2. InRange /\ Setting
  BY DEF OffsetSet, Setting
<1>3. Offset \in Grid /\ Offset \in 0 .. 128
  BY <1>2, OnTheGrid DEF Grid
<1>4. Dqs \in 0 .. 895
  BY EyeAssumption
<1>5. Offset \in On(l) <=> a <= Offset /\ Offset <= b
  BY <1>3 DEF On
<1>6. Works(l) <=> a <= Effective(l) /\ Effective(l) <= b
  BY DEF Works
<1>7. CASE eKind = "read"
  <2>1. eHw.rd = All(Offset)
    BY <1>2, <1>7 DEF OffsetSet
  <2>2. eHw.rd[l] = Offset
    BY <2>1 DEF All
  <2>3. Effective(l) = eHw.rd[l]
    BY <1>7 DEF Effective
  <2> QED
    BY <2>2, <2>3, <1>5, <1>6
<1>8. CASE eKind # "read"
  <2>1. eHw.off = All(Offset % 128) /\ eHw.wd = All((Dqs + Offset) % 1024)
    BY <1>2, <1>8 DEF OffsetSet
  <2>2. eHw.off[l] = Offset % 128 /\ eHw.wd[l] = (Dqs + Offset) % 1024
    BY <2>1 DEF All
  <2>3. CASE ~eTrain
    <3>1. Effective(l) = eHw.wd[l] - Dqs
      BY <1>8, <2>3 DEF Effective
    <3>2. ((Dqs + Offset) % 1024) - Dqs = Offset
      BY <1>3, <1>4
    <3> QED
      BY <2>2, <3>1, <3>2, <1>5, <1>6
  <2>4. CASE eTrain
    <3>1. Effective(l) = Offset % 128
      BY <1>8, <2>2, <2>4 DEF Effective
    <3>2. (a <= 0) <=> (b >= 128)
      BY <1>8, <2>4, <1>1 DEF Wraps
    <3>3. CASE Offset < 128
      BY <3>1, <3>3, <1>3, <1>5, <1>6
    <3>4. CASE Offset = 128
      BY <3>1, <3>2, <3>4, <1>1, <1>5, <1>6
    <3> QED
      BY <3>3, <3>4, <1>3
  <2> QED
    BY <2>3, <2>4
<1> QED
  BY <1>7, <1>8

\* What every step leaves alone once a test has begun: the memory, the step size and
\* the kind of the test (memtest.c).
LEMMA TestFixed ==
    ASSUME EyeNext
    PROVE  /\ eTable' = eTable /\ eTrain' = eTrain
           /\ ePc # "idle" => eStep' = eStep /\ eKind' = eKind
BY DEF EyeNext, WriteEyeTest, measure_write_eye, measure_read_eye, LoadOffset, LoopEnds,
       DisableController, ProgramTiming, EnableController, TestOffset, EndMeasurement,
       ImplementChoice

\* Types, and the drive strength that the next result belongs to (weye_test1).
LEMMA EyeTypesStep ==
    ASSUME EyeInv, EyeTypes, EyeNext
    PROVE  EyeTypes'
<1>1. /\ eTable \in Seq([EyeLanes -> Int \X Int]) /\ eTable # <<>>
      /\ EyeSteps \subseteq {1, 2, 4}
  BY EyeAssumption DEF EyeTypes
<1> USE DEF EyeTypes, Measuring, Setting
<1>2. CASE WriteEyeTest
  BY <1>1, <1>2 DEF WriteEyeTest
<1>3. CASE measure_write_eye
  <2>1. eEye' \in [EyeLanes -> Int \X Int]
    BY <1>3 DEF measure_write_eye, Unseen, All
  <2> QED
    BY <1>3, <2>1 DEF measure_write_eye
<1>4. CASE measure_read_eye
  <2>1. eEye' \in [EyeLanes -> Int \X Int]
    BY <1>4 DEF measure_read_eye, Unseen, All
  <2> QED
    BY <1>4, <2>1 DEF measure_read_eye
<1>5. CASE LoadOffset
  BY <1>5 DEF LoadOffset
<1>6. CASE LoopEnds
  BY <1>6 DEF LoopEnds, EndDirection
<1>7. CASE DisableController
  BY <1>7 DEF DisableController
<1>8. CASE ProgramTiming
  BY <1>8 DEF ProgramTiming
<1>9. CASE EnableController
  BY <1>9 DEF EnableController, EyeInv
<1>10. CASE TestOffset
  <2>1. Offset \in Int
    BY <1>10 DEF Offset
  <2>2. \A l \in EyeLanes : Wider(eEye[l], Offset) \in Int \X Int
    BY <2>1 DEF Wider
  <2>3. eEye' \in [EyeLanes -> Int \X Int]
    BY <1>10, <2>2 DEF TestOffset
  <2> QED
    BY <1>10, <2>3 DEF TestOffset, EndDirection
<1>11. CASE EndMeasurement
  <2>1. eRes' \in Seq([EyeLanes -> Int \X Int]) /\ Len(eRes') = Len(eRes) + 1
    BY <1>11 DEF EndMeasurement
  <2>2. eDrive = Len(eRes) + 1 /\ eDrive \in 1 .. Len(eTable)
    BY <1>1, <1>11 DEF EndMeasurement
  <2>3. CASE eKind = "weye" /\ eDrive # Len(eTable)
    <3>1. eDrive' = Len(eRes') + 1 /\ eDrive' \in DOMAIN eTable
      BY <1>1, <1>11, <2>1, <2>2, <2>3 DEF EndMeasurement
    <3> QED
      BY <1>11, <2>1, <2>3, <3>1 DEF EndMeasurement
  <2>4. CASE ~(eKind = "weye" /\ eDrive # Len(eTable))
    BY <1>11, <2>1, <2>4 DEF EndMeasurement
  <2> QED
    BY <2>3, <2>4
<1>12. CASE ImplementChoice
  BY <1>12 DEF ImplementChoice
<1> QED
  BY <1>2, <1>3, <1>4, <1>5, <1>6, <1>7, <1>8, <1>9, <1>10, <1>11, <1>12 DEF EyeNext

\* The offset goes into the list, from there into the registers, and stays until the
\* test (update_reglist, ddrc_init).
LEMMA OffsetStep ==
    ASSUME EyeInv, EyeTypes, OffsetSet, EyeNext
    PROVE  OffsetSet'
<1>1. DOMAIN eList = Fields /\ DOMAIN eHw = Fields
  BY DEF EyeInv
<1> USE FieldsAre
<1>2. CASE \/ WriteEyeTest \/ measure_write_eye \/ measure_read_eye \/ LoopEnds
           \/ TestOffset \/ EndMeasurement \/ ImplementChoice
  <2>1. ~Setting'
    BY <1>2 DEF WriteEyeTest, measure_write_eye, measure_read_eye, LoopEnds, TestOffset,
                EndDirection, EndMeasurement, ImplementChoice, Setting
  <2> QED
    BY <2>1 DEF OffsetSet
<1>3. CASE LoadOffset
  <2>1. /\ InRange /\ ePc' = "disable" /\ eKind' = eKind
        /\ eK' = eK /\ eM' = eM /\ eStep' = eStep
        /\ eKind # "read" => eList' = WithOffset(eList, All(Offset))
    BY <1>3 DEF LoadOffset
  <2>2. InRange' /\ Offset' = Offset
    BY <2>1 DEF InRange, Offset, mmax
  <2>3. ASSUME eKind # "read"
        PROVE  eList'.off = All(Offset % 128) /\ eList'.wd = All((Dqs + Offset) % 1024)
    <3>1. /\ eList'.off = [l \in EyeLanes |-> All(Offset)[l] % 128]
          /\ eList'.wd = [l \in EyeLanes |-> (Dqs + All(Offset)[l]) % 1024]
      BY <1>1, <2>1, <2>3 DEF WithOffset
    <3>2. \A l \in EyeLanes : All(Offset)[l] = Offset
      BY DEF All
    <3>3. \A v : All(v) = [l \in EyeLanes |-> v]
      BY DEF All
    <3> QED
      BY <3>1, <3>2, <3>3
  <2> QED
    BY <2>1, <2>2, <2>3 DEF OffsetSet
<1>4. CASE DisableController \/ ProgramTiming \/ EnableController
  <2>1. /\ UNCHANGED <<eKind, eK, eM, eStep, eList>>
        /\ Setting' => Setting
        /\ ~(ePc' = "disable")
    BY <1>4 DEF DisableController, ProgramTiming, EnableController, Setting, EyeInv
  <2>2. InRange' = InRange /\ Offset' = Offset
    BY <2>1 DEF InRange, Offset, mmax
  <2>3. ASSUME Setting', ePc' \in {"enable", "test"}
        PROVE  IF eKind = "read" THEN eHw'.rd = All(Offset)
               ELSE eHw'.off = eList.off /\ eHw'.wd = eList.wd
    <3>1. CASE ProgramTiming
      <4>1. eThen = "test"
        BY <2>3, <3>1 DEF ProgramTiming, Setting
      <4>2. CASE eKind = "read"
        BY <1>1, <3>1, <4>1, <4>2 DEF ProgramTiming
      <4>3. CASE eKind # "read"
        <5>1. eHw' = [eList EXCEPT !.en = eHw.en]
          BY <3>1, <4>3 DEF ProgramTiming
        <5>2. eHw'.off = eList.off /\ eHw'.wd = eList.wd
          BY <1>1, <5>1
        <5> QED
          BY <4>3, <5>2
      <4> QED
        BY <4>2, <4>3
    <3>2. CASE EnableController
      <4>1. PICK a : eHw' = [eHw EXCEPT !.en = a]
        BY <3>2 DEF EnableController
      <4>2. eHw'.rd = eHw.rd /\ eHw'.off = eHw.off /\ eHw'.wd = eHw.wd
        BY <1>1, <4>1
      <4>3. Setting /\ ePc = "enable"
        BY <2>1, <2>3, <3>2 DEF EnableController
      <4> QED
        BY <4>2, <4>3 DEF OffsetSet
    <3>3. CASE DisableController
      BY <2>3, <3>3 DEF DisableController
    <3> QED
      BY <1>4, <3>1, <3>2, <3>3
  <2> QED
    BY <2>1, <2>2, <2>3 DEF OffsetSet
<1> QED
  BY <1>2, <1>3, <1>4 DEF EyeNext

\* An eye is an interval of the grid (the assumption about the memory).
LEMMA Between ==
    ASSUME EyeTypes, Measuring, NEW l \in EyeLanes, NEW i \in On(l), NEW j \in On(l),
           NEW k \in Grid, i <= k, k <= j
    PROVE  k \in On(l)
<1>1. i \in Int /\ j \in Int /\ k \in Int
  BY DEF On, Grid
<1> QED
  BY <1>1, EyeOfLane DEF On

\* A lane that works widens its eye by the offset (measure_write_eye, measure_read_eye).
LEMMA FoundMore ==
    ASSUME EyeTypes, OffsetSet, TestOffset, NEW l \in EyeLanes,
           ~Wraps(eTable[eDrive][l]), Found(l), Works(l)
    PROVE  Found(l)'
<1>1. ePc = "test" /\ Setting /\ Measuring /\ InRange
  BY DEF TestOffset, Setting, Measuring, OffsetSet
<1>2. /\ ePc' = "offset" /\ eM' = eM + 1 /\ eK' = eK /\ eEye'[l] = Wider(eEye[l], Offset)
      /\ UNCHANGED <<eTable, eStep, eDrive>>
  BY DEF TestOffset
<1>3. Offset \in On(l) /\ Offset \in Int
  BY <1>1, WorksInEye DEF On, Grid
<1>4. On(l)' = On(l) /\ \A i \in On(l) : i \in Int /\ i \in Grid
  BY <1>2 DEF On, Grid
<1> DEFINE a == eEye[l][1]
           b == eEye[l][2]
<1>5. a \in Int /\ b \in Int
  BY <1>1, EyeOfLane
<1>6. /\ eEye'[l] = <<IF Offset < a THEN Offset ELSE a, IF Offset > b THEN Offset ELSE b>>
  BY <1>2 DEF Wider
<1> DEFINE c == eEye'[l][1]
           d == eEye'[l][2]
<1>7. c = (IF Offset < a THEN Offset ELSE a) /\ d = (IF Offset > b THEN Offset ELSE b)
  BY <1>6
<1>8. c \in On(l) /\ d \in On(l)
  <2>1. CASE eEye[l] = <<9999, -9999>>
    <3>1. a = 9999 /\ b = -9999 /\ Offset \in 0 .. 128
      BY <2>1, <1>3 DEF On, Grid
    <3> QED
      BY <1>3, <1>7, <3>1
  <2>2. CASE a \in On(l) /\ b \in On(l)
    BY <1>3, <1>7, <2>2
  <2> QED
    BY <2>1, <2>2 DEF Found
<1>9. ASSUME NEW i \in On(l), PassedUp(l, i)' \/ PassedDown(l, i)'
      PROVE  c <= i /\ i <= d
  <2>1. PassedUp(l, i) \/ PassedDown(l, i) \/ i = Offset
    <3>1. i \in Grid /\ i \in Int
      BY <1>4
    <3>2. eK \in {0, 1}
      BY DEF EyeTypes
    <3>3. CASE eK = 0
      <4>1. i >= 64 /\ i < 64 + eStep * (eM + 1)
        BY <1>2, <1>9, <3>3 DEF PassedUp, PassedDown
      <4>2. i < 64 + eStep * eM \/ i = Offset
        BY <1>1, <3>1, <3>3, <4>1, OnTheGrid
      <4> QED
        BY <3>3, <4>1, <4>2 DEF PassedUp
    <3>4. CASE eK = 1
      <4>1. PassedUp(l, i) \/ (i <= 60 /\ i > 60 - eStep * (eM + 1))
        BY <1>2, <1>4, <1>9, <3>4 DEF PassedUp, PassedDown
      <4>2. i <= 60 /\ i > 60 - eStep * (eM + 1) => i > 60 - eStep * eM \/ i = Offset
        BY <1>1, <3>1, <3>4, OnTheGrid
      <4> QED
        BY <1>1, <3>4, <4>1, <4>2 DEF PassedDown
    <3> QED
      BY <3>2, <3>3, <3>4
  <2>2. i \in Int /\ (PassedUp(l, i) \/ PassedDown(l, i) => a <= i /\ i <= b)
    BY <1>4 DEF Found
  <2> QED
    BY <1>3, <1>5, <1>7, <2>1, <2>2
<1> QED
  BY <1>4, <1>8, <1>9 DEF Found

\* A lane whose eye does not hold the offset loses nothing when the search goes on for
\* the others, or ends (measure_write_eye, measure_read_eye).
LEMMA FoundNoMore ==
    ASSUME EyeTypes, OffsetSet, TestOffset, NEW l \in EyeLanes,
           ~Wraps(eTable[eDrive][l]), Found(l), ~Works(l)
    PROVE  Found(l)'
<1>1. ePc = "test" /\ Setting /\ Measuring /\ InRange
  BY DEF TestOffset, Setting, Measuring, OffsetSet
<1>2. eEye'[l] = eEye[l] /\ UNCHANGED <<eTable, eStep, eDrive>>
  BY DEF TestOffset
<1>3. Offset \notin On(l) /\ Offset \in Int /\ Offset \in Grid
  BY <1>1, WorksInEye, OnTheGrid DEF Grid
<1>4. On(l)' = On(l) /\ \A i \in On(l) : i \in Int /\ i \in Grid
  BY <1>2 DEF On, Grid
<1>5. eK \in {0, 1} /\ eStep \in Int /\ eM \in Nat
  BY DEF EyeTypes
<1>6. ASSUME NEW i \in On(l), PassedUp(l, i)' \/ PassedDown(l, i)'
      PROVE  PassedUp(l, i) \/ PassedDown(l, i)
  <2>1. i \in Int /\ i \in Grid
    BY <1>4
  <2>2. CASE ePc' = "offset" /\ eM' = eM + 1 /\ eK' = eK
    <3>1. CASE eK = 0
      <4>1. i >= 64 /\ i < 64 + eStep * (eM + 1)
        BY <1>2, <1>6, <2>2, <3>1 DEF PassedUp, PassedDown
      <4>2. i < 64 + eStep * eM
        BY <1>1, <1>3, <2>1, <3>1, <4>1, OnTheGrid
      <4> QED
        BY <3>1, <4>1, <4>2 DEF PassedUp
    <3>2. CASE eK = 1
      <4>1. PassedUp(l, i) \/ (i <= 60 /\ i > 60 - eStep * (eM + 1))
        BY <1>2, <1>4, <1>6, <2>2, <3>2 DEF PassedUp, PassedDown
      <4>2. i <= 60 /\ i > 60 - eStep * (eM + 1) => i > 60 - eStep * eM
        BY <1>1, <1>3, <2>1, <3>2, OnTheGrid
      <4> QED
        BY <1>1, <3>2, <4>1, <4>2 DEF PassedDown
    <3> QED
      BY <1>5, <3>1, <3>2
  <2>3. CASE EndDirection("restore")
    <3>1. eM' = 0 /\ eK' = 1 /\ ePc' = (IF eK = 0 THEN "offset" ELSE "restore")
      BY <2>3 DEF EndDirection
    <3>2. eStep' * eM' = 0
      BY <1>2, <1>5, <3>1
    <3>3. CASE eK = 0
      <4>1. i >= 64 /\ 64 \in On(l)
        BY <1>4, <1>6, <2>1, <3>1, <3>2, <3>3 DEF PassedUp, PassedDown
      <4>2. Offset = 64 + eStep * eM /\ eStep * eM \in Nat
        BY <3>3 DEF Offset, EyeTypes
      <4>3. i < Offset
        BY <1>1, <1>3, <2>1, <4>1, <4>2, Between
      <4> QED
        BY <3>3, <4>1, <4>2, <4>3 DEF PassedUp
    <3>4. CASE eK = 1
      <4>1. PassedUp(l, i) \/ (i <= 60 /\ 60 \in On(l))
        BY <1>4, <1>6, <3>1, <3>4 DEF PassedUp, PassedDown
      <4>2. Offset = 60 - eStep * eM /\ eStep * eM \in Nat
        BY <3>4 DEF Offset, EyeTypes
      <4>3. i <= 60 /\ 60 \in On(l) => i > Offset
        BY <1>1, <1>3, <2>1, <4>2, Between
      <4> QED
        BY <1>1, <3>4, <4>1, <4>2, <4>3 DEF PassedDown
    <3> QED
      BY <1>5, <3>3, <3>4
  <2> QED
    BY <2>2, <2>3 DEF TestOffset
<1> QED
  BY <1>2, <1>4, <1>6 DEF Found

\* At the end of the range a direction has passed all there is.
LEMMA FoundAtEnd ==
    ASSUME EyeTypes, LoopEnds, NEW l \in EyeLanes, Found(l)
    PROVE  Found(l)'
<1>1. /\ ~InRange /\ ePc = "offset" /\ eM' = 0 /\ eK' = 1
      /\ ePc' = (IF eK = 0 THEN "offset" ELSE "restore")
      /\ UNCHANGED <<eTable, eStep, eDrive, eEye>>
  BY DEF LoopEnds, EndDirection
<1>2. On(l)' = On(l) /\ \A i \in On(l) : i \in Int /\ i \in Grid
  BY <1>1 DEF On, Grid
<1>3. eK \in {0, 1} /\ eStep \in Int /\ eStep' * eM' = 0
  BY <1>1 DEF EyeTypes
<1>4. ASSUME NEW i \in On(l), PassedUp(l, i)' \/ PassedDown(l, i)'
      PROVE  PassedUp(l, i) \/ PassedDown(l, i)
  <2>1. i \in Int /\ i \in Grid
    BY <1>2
  <2>2. CASE eK = 0
    <3>1. i >= 64
      BY <1>1, <1>3, <1>4, <2>1, <2>2 DEF PassedUp, PassedDown
    <3> QED
      BY <1>1, <2>1, <2>2, <3>1, PassedAll DEF PassedUp
  <2>3. CASE eK = 1
    <3>1. PassedUp(l, i) \/ i <= 60
      BY <1>1, <1>2, <1>4, <2>3 DEF PassedUp, PassedDown
    <3> QED
      BY <1>1, <2>1, <2>3, <3>1, PassedAll DEF PassedDown
  <2> QED
    BY <1>3, <2>2, <2>3
<1> QED
  BY <1>1, <1>2, <1>4 DEF Found

\* Every step of the search, for every lane (measure_write_eye, measure_read_eye).
LEMMA EyesFoundStep ==
    ASSUME EyeInv, EyeTypes, OffsetSet, EyesFound, EyeTypes', EyeNext
    PROVE  EyesFound'
<1>1. CASE WriteEyeTest \/ EndMeasurement \/ ImplementChoice
  <2>1. ~Measuring'
    BY <1>1 DEF WriteEyeTest, EndMeasurement, ImplementChoice, Measuring, Setting
  <2> QED
    BY <2>1 DEF EyesFound
<1>2. CASE measure_write_eye \/ measure_read_eye
  <2>1. eK' = 0 /\ eM' = 0 /\ eEye' = Unseen
    BY <1>2 DEF measure_write_eye, measure_read_eye
  <2>2. \A l \in EyeLanes : Found(l)'
    <3> SUFFICES ASSUME NEW l \in EyeLanes PROVE Found(l)'
      OBVIOUS
    <3>1. eEye'[l] = <<9999, -9999>>
      BY <2>1 DEF Unseen, All
    <3>2. \A i \in On(l)' : i \in Int
      BY DEF On, Grid
    <3>3. eStep' \in Int
      BY DEF EyeTypes
    <3>4. \A i \in On(l)' : ~PassedUp(l, i)' /\ ~PassedDown(l, i)'
      BY <2>1, <3>2, <3>3 DEF PassedUp, PassedDown
    <3> QED
      BY <3>1, <3>4 DEF Found
  <2> QED
    BY <2>2 DEF EyesFound
<1>3. CASE LoadOffset \/ DisableController \/ ProgramTiming \/ EnableController
  <2>1. /\ UNCHANGED <<eTable, eTrain, eKind, eStep, eDrive, eK, eM, eEye>>
        /\ Measuring' => Measuring /\ ePc # "restore" /\ ePc' # "restore"
    BY <1>3 DEF LoadOffset, DisableController, ProgramTiming, EnableController, Measuring,
                Setting, EyeInv
  <2>2. ASSUME Measuring', NEW l \in EyeLanes, ~Wraps(eTable[eDrive][l])' PROVE Found(l)'
    <3>1. Wraps(eTable[eDrive][l]) <=> Wraps(eTable[eDrive][l])'
      BY <2>1 DEF Wraps
    <3>2. Found(l)
      BY <2>1, <2>2, <3>1 DEF EyesFound
    <3>3. On(l)' = On(l)
      BY <2>1 DEF On, Grid
    <3> QED
      BY <2>1, <2>2, <3>2, <3>3 DEF Found, PassedUp, PassedDown
  <2> QED
    BY <2>2 DEF EyesFound
<1>4. CASE LoopEnds \/ TestOffset
  <2>1. /\ UNCHANGED <<eTable, eTrain, eKind, eDrive>>
        /\ Measuring
    BY <1>4 DEF LoopEnds, TestOffset, Measuring, Setting
  <2>2. ASSUME NEW l \in EyeLanes, ~Wraps(eTable[eDrive][l])' PROVE Found(l)'
    <3>1. Wraps(eTable[eDrive][l]) <=> Wraps(eTable[eDrive][l])'
      BY <2>1 DEF Wraps
    <3>2. ~Wraps(eTable[eDrive][l]) /\ Found(l)
      BY <2>1, <2>2, <3>1 DEF EyesFound
    <3> QED
      BY <1>4, <3>2, FoundMore, FoundNoMore, FoundAtEnd
  <2> QED
    BY <2>2 DEF EyesFound
<1> QED
  BY <1>1, <1>2, <1>3, <1>4 DEF EyeNext

\* What EyeMeasured says of one lane of one result.
LaneMeasured(eye, got, grid) ==
    LET on == {i \in grid : eye[1] <= i /\ i <= eye[2]}
    IN  /\ {60, 64} \subseteq on =>
              /\ got[1] \in on /\ \A i \in on : got[1] <= i
              /\ got[2] \in on /\ \A i \in on : i <= got[2]
        /\ got = <<9999, -9999>> \/ {got[1], got[2]} \subseteq on

\* Both directions are done: the eye of a lane is the result that is promised.
LEMMA FoundAll ==
    ASSUME EyeTypes, EyesFound, ePc = "restore", NEW l \in EyeLanes,
           ~Wraps(eTable[eDrive][l])
    PROVE  LaneMeasured(eTable[eDrive][l], eEye[l], Grid)
<1>1. Found(l) /\ eK = 1
  BY DEF EyesFound, Measuring, EyeTypes
<1>2. \A i \in On(l) : i \in Int /\ i \in Grid /\ (i >= 64 \/ i <= 60)
  BY DEF On, Grid
<1>3. ASSUME 60 \in On(l), 64 \in On(l)
      PROVE  \A i \in On(l) : eEye[l][1] <= i /\ i <= eEye[l][2]
  BY <1>1, <1>2, <1>3 DEF Found, PassedUp, PassedDown
<1>4. eEye[l][1] \in Int /\ eEye[l][2] \in Int
  BY EyeOfLane DEF Measuring
<1>5. ASSUME 60 \in On(l), 64 \in On(l)
      PROVE  eEye[l][1] \in On(l) /\ eEye[l][2] \in On(l)
  <2>1. eEye[l][1] <= 60
    BY <1>3, <1>5
  <2>2. eEye[l] # <<9999, -9999>>
    BY <2>1
  <2> QED
    BY <1>1, <2>2 DEF Found
<1>6. eEye[l] = <<9999, -9999>> \/ {eEye[l][1], eEye[l][2]} \subseteq On(l)
  BY <1>1 DEF Found
<1> QED
  BY <1>3, <1>5, <1>6 DEF LaneMeasured, On

\* What EyeMeasured says, lane by lane.
LEMMA MeasuredLanes ==
    EyeMeasured <=> \A d \in DOMAIN eRes, l \in EyeLanes :
                       ~Wraps(eTable[d][l]) => LaneMeasured(eTable[d][l], eRes[d][l], Grid)
BY DEF EyeMeasured, LaneMeasured

\* A new result is right, and the others stay so.
LEMMA MeasuredStep ==
    ASSUME EyeInv, EyeTypes, EyesFound, EyeMeasured, EyeNext
    PROVE  EyeMeasured'
<1>1. eTable' = eTable /\ eTrain' = eTrain
  BY TestFixed
<1>2. CASE ePc = "idle"
  <2>1. eRes' = <<>>
    BY <1>2 DEF EyeTypes, EyeNext, WriteEyeTest, measure_write_eye, measure_read_eye,
                LoadOffset, LoopEnds, DisableController, ProgramTiming, EnableController,
                TestOffset, EndMeasurement, ImplementChoice
  <2>2. DOMAIN eRes' = {}
    BY <2>1
  <2> QED
    BY <2>2 DEF EyeMeasured
<1>3. CASE ePc # "idle"
  <2>1. eStep' = eStep /\ eKind' = eKind
    BY <1>3, TestFixed
  <2>2. Grid' = Grid /\ \A eye : Wraps(eye)' = Wraps(eye)
    BY <1>1, <2>1 DEF Grid, Wraps
  <2>3. \A d \in DOMAIN eRes, l \in EyeLanes :
           ~Wraps(eTable[d][l]) => LaneMeasured(eTable[d][l], eRes[d][l], Grid)
    BY MeasuredLanes
  <2>4. CASE EndMeasurement
    <3>1. /\ ePc = "restore" /\ eRes' = Append(eRes, eEye)
          /\ eRes \in Seq([EyeLanes -> Int \X Int]) /\ eEye \in [EyeLanes -> Int \X Int]
          /\ eDrive = Len(eRes) + 1
      BY <2>4 DEF EndMeasurement, EyeTypes, Measuring
    <3>2. ASSUME NEW d \in DOMAIN eRes', NEW l \in EyeLanes, ~Wraps(eTable[d][l])
          PROVE  LaneMeasured(eTable[d][l], eRes'[d][l], Grid)
      <4>1. CASE d \in DOMAIN eRes
        <5>1. eRes'[d] = eRes[d]
          BY <3>1, <4>1
        <5> QED
          BY <2>3, <3>2, <4>1, <5>1
      <4>2. CASE d \notin DOMAIN eRes
        <5>1. d = eDrive /\ eRes'[d] = eEye
          BY <3>1, <4>2
        <5> QED
          BY <3>1, <3>2, <5>1, FoundAll
      <4> QED
        BY <4>1, <4>2
    <3> QED
      BY <1>1, <2>2, <3>2 DEF EyeMeasured, LaneMeasured
  <2>5. CASE ~EndMeasurement
    <3>1. eRes' = eRes
      BY <2>5 DEF EyeNext, WriteEyeTest, measure_write_eye, measure_read_eye,
                  LoadOffset, LoopEnds, DisableController, ProgramTiming,
                  EnableController, TestOffset, ImplementChoice
    <3> QED
      BY <1>1, <2>2, <2>3, <3>1 DEF EyeMeasured, LaneMeasured
  <2> QED
    BY <2>4, <2>5
<1> QED
  BY <1>2, <1>3

\* The choice that is made stands (weye_test1, ddrc_init).
LEMMA ChoiceStep ==
    ASSUME EyeInv, ChoiceInv, EyeNext
    PROVE  ChoiceInv'
<1>1. CASE ImplementChoice
  <2>1. eChoice' \in find_best_eye(eRes) /\ eRes' = eRes
    BY <1>1 DEF ImplementChoice
  <2> QED
    BY <2>1 DEF ChoiceInv
<1>2. CASE DisableController \/ ProgramTiming \/ EnableController
  <2>1. /\ UNCHANGED <<eKind, eThen, eRes, eChoice>>
        /\ ePc \in {"disable", "program", "enable"}
        /\ ePc' = "end" => eThen = "end"
    BY <1>2 DEF DisableController, ProgramTiming, EnableController
  <2> QED
    BY <2>1 DEF ChoiceInv
<1>3. CASE \/ WriteEyeTest \/ measure_write_eye \/ measure_read_eye \/ LoadOffset
           \/ LoopEnds \/ TestOffset
  BY <1>3 DEF WriteEyeTest, measure_write_eye, measure_read_eye, LoadOffset, LoopEnds,
              TestOffset, EndDirection, ChoiceInv
<1>4. CASE EndMeasurement
  BY <1>4 DEF EndMeasurement, ChoiceInv
<1> QED
  BY <1>1, <1>2, <1>3, <1>4 DEF EyeNext

\* What holds before the test begins.
LEMMA MeasureInit == EyeInit => EyeTypes /\ OffsetSet /\ EyesFound /\ EyeMeasured /\ ChoiceInv
<1> SUFFICES ASSUME EyeInit
             PROVE  EyeTypes /\ OffsetSet /\ EyesFound /\ EyeMeasured /\ ChoiceInv
  OBVIOUS
<1>1. ePc = "idle" /\ eRes = <<>> /\ ~Setting /\ ~Measuring
  BY DEF EyeInit, Measuring, Setting
<1>2. EyeTypes
  <2>1. eTable \in Seq([EyeLanes -> Int \X Int]) /\ eTable # <<>> /\ EyeSteps \subseteq {1, 2, 4}
    BY EyeAssumption DEF EyeInit
  <2>2. 1 \in DOMAIN eTable /\ eRes \in Seq([EyeLanes -> Int \X Int]) /\ Len(eRes) = 0
    BY <1>1, <2>1
  <2>3. eEye \in [EyeLanes -> Int \X Int]
    BY DEF EyeInit, Unseen, All
  <2> QED
    BY <1>1, <2>1, <2>2, <2>3 DEF EyeInit, EyeTypes
<1>3. DOMAIN eRes = {}
  BY <1>1
<1> QED
  BY <1>1, <1>2, <1>3 DEF OffsetSet, EyesFound, EyeMeasured, ChoiceInv

\* The same for what has been measured and chosen.
LEMMA MeasureStays ==
    EyeTypes /\ OffsetSet /\ EyesFound /\ EyeMeasured /\ ChoiceInv /\ UNCHANGED eVars
    => EyeTypes' /\ OffsetSet' /\ EyesFound' /\ EyeMeasured' /\ ChoiceInv'
<1> SUFFICES ASSUME EyeTypes, OffsetSet, EyesFound, EyeMeasured, ChoiceInv, UNCHANGED eVars
             PROVE  EyeTypes' /\ OffsetSet' /\ EyesFound' /\ EyeMeasured' /\ ChoiceInv'
  OBVIOUS
<1> USE DEF eVars
<1>1. EyeTypes'
  BY DEF EyeTypes, Measuring, Setting
<1>2. OffsetSet'
  BY DEF OffsetSet, Setting, InRange, Offset, mmax
<1>3. \A l \in EyeLanes : (Found(l) <=> Found(l)')
                         /\ (Wraps(eTable[eDrive][l]) <=> Wraps(eTable[eDrive][l])')
  BY DEF Found, PassedUp, PassedDown, On, Grid, Wraps
<1>4. EyesFound'
  BY <1>3 DEF EyesFound, Measuring, Setting
<1>5. EyeMeasured'
  BY DEF EyeMeasured, Grid, Wraps
<1>6. ChoiceInv'
  BY DEF ChoiceInv
<1> QED
  BY <1>1, <1>2, <1>4, <1>5, <1>6

-----------------------------------------------------------------------------
(* The choice of a drive strength (find_best_eye).                         *)

\* A set of numbers has a least element: all induction below is by it.
LEMMA LeastNumber ==
    ASSUME NEW S, S \subseteq Nat, S # {}
    PROVE  \E n \in S : \A m \in S : n <= m
<1>1. PICK n \in S : \A m \in S : ~(<<m, n>> \in OpToRel(<, Nat))
  BY WFMin, NatLessThanWellFounded
<1>2. \A m \in S : ~(m < n)
  BY <1>1 DEF OpToRel
<1> QED
  BY <1>2

Results == [EyeLanes -> Int \X Int]

\* The product of numbers grows with both.
LEMMA ProductGrows ==
    ASSUME NEW a \in Nat, NEW b \in Nat, NEW c \in Nat, NEW d \in Nat, a <= c, b <= d
    PROVE  /\ a * b \in Nat /\ c * d \in Nat /\ a * b <= c * d
           /\ a < c /\ b >= 1 => a * b + 1 <= c * d
           /\ b < d /\ a >= 1 => a * b + 1 <= c * d
<1>1. a * b \in Nat /\ a * d \in Nat /\ c * b \in Nat /\ c * d \in Nat
  OBVIOUS
<1>2. (c - a) * d >= 0 /\ a * (d - b) >= 0
  OBVIOUS
<1>3. (c - a) * d = c * d - a * d /\ a * (d - b) = a * d - a * b
  OBVIOUS
<1>4. a < c /\ b >= 1 => (c - a) * d >= 1
  <2> SUFFICES ASSUME a < c, b >= 1 PROVE (c - a) * d >= 1
    OBVIOUS
  <2>1. c - a \in Nat /\ c - a >= 1 /\ d >= 1
    OBVIOUS
  <2> QED
    BY <2>1
<1>5. b < d /\ a >= 1 => a * (d - b) >= 1
  <2> SUFFICES ASSUME b < d, a >= 1 PROVE a * (d - b) >= 1
    OBVIOUS
  <2>1. d - b \in Nat /\ d - b >= 1
    OBVIOUS
  <2> QED
    BY <2>1
<1> QED
  BY <1>1, <1>2, <1>3, <1>4, <1>5

\* qual3 of four widths, when q is taken for their mean; the code takes their sum. With
\* S for the sum, 4 qual3 is 4 S^2 - (2 S^2 + the sum of the squares), but for rounding.
Spread(q, a, b, c, d) ==
    q * q - (((q - a) * (q - a) + (q - b) * (q - b) + (q - c) * (q - c)
              + (q - d) * (q - d)) \div 4)
Quality(a, b, c, d) == Spread(a + b + c + d, a, b, c, d)

\* Four times qual3, but for the rounding.
Form(a, b, c, d) ==
    a * a + b * b + c * c + d * d
    + 4 * (a * b + a * c + a * d + b * c + b * d + c * d)

LEMMA QualityRounds ==
    ASSUME NEW a \in Int, NEW b \in Int, NEW c \in Int, NEW d \in Int
    PROVE  /\ Quality(a, b, c, d) \in Int /\ Form(a, b, c, d) \in Int
           /\ Form(a, b, c, d) <= 4 * Quality(a, b, c, d)
           /\ 4 * Quality(a, b, c, d) <= Form(a, b, c, d) + 3
<1> DEFINE s == (a + b + c + d) * (a + b + c + d)
           n == (a + b + c + d - a) * (a + b + c + d - a)
                + (a + b + c + d - b) * (a + b + c + d - b)
                + (a + b + c + d - c) * (a + b + c + d - c)
                + (a + b + c + d - d) * (a + b + c + d - d)
           f == Form(a, b, c, d)
<1>1. s \in Int /\ n \in Int /\ f \in Int
  BY DEF Form
<1>2. 4 * s - n = f
  BY DEF Form
<1>3. Quality(a, b, c, d) = s - (n \div 4)
  BY DEF Quality, Spread
<1> HIDE DEF s, n, f
<1>4. n \div 4 \in Int /\ 4 * (n \div 4) <= n /\ n <= 4 * (n \div 4) + 3
  BY <1>1
<1> QED
  BY <1>1, <1>2, <1>3, <1>4 DEF f

\* Wider lanes make a better quality.
LEMMA QualityGrows ==
    ASSUME NEW a \in Nat, NEW b \in Nat, NEW c \in Nat, NEW d \in Nat,
           NEW u \in Nat, NEW v \in Nat, NEW x \in Nat, NEW y \in Nat,
           a >= 1, b >= 1, c >= 1, d >= 1, a <= u, b <= v, c <= x, d <= y,
           a < u \/ b < v \/ c < x \/ d < y
    PROVE  Quality(a, b, c, d) < Quality(u, v, x, y)
<1>1. /\ a * a \in Nat /\ u * u \in Nat /\ a * a <= u * u
      /\ b * b \in Nat /\ v * v \in Nat /\ b * b <= v * v
      /\ c * c \in Nat /\ x * x \in Nat /\ c * c <= x * x
      /\ d * d \in Nat /\ y * y \in Nat /\ d * d <= y * y
  BY ProductGrows
<1>2. a * b \in Nat /\ u * v \in Nat /\ a * b <= u * v /\ (a < u \/ b < v => a * b + 1 <= u * v)
  BY ProductGrows
<1>3. a * c \in Nat /\ u * x \in Nat /\ a * c <= u * x
  BY ProductGrows
<1>4. a * d \in Nat /\ u * y \in Nat /\ a * d <= u * y
  BY ProductGrows
<1>5. b * c \in Nat /\ v * x \in Nat /\ b * c <= v * x
  BY ProductGrows
<1>6. b * d \in Nat /\ v * y \in Nat /\ b * d <= v * y
  BY ProductGrows
<1>7. c * d \in Nat /\ x * y \in Nat /\ c * d <= x * y /\ (c < x \/ d < y => c * d + 1 <= x * y)
  BY ProductGrows
<1>8. Form(a, b, c, d) + 4 <= Form(u, v, x, y)
  BY <1>1, <1>2, <1>3, <1>4, <1>5, <1>6, <1>7 DEF Form
<1>9. /\ Quality(a, b, c, d) \in Int /\ Form(a, b, c, d) \in Int
      /\ 4 * Quality(a, b, c, d) <= Form(a, b, c, d) + 3
  BY QualityRounds
<1>10. /\ Quality(u, v, x, y) \in Int /\ Form(u, v, x, y) \in Int
       /\ Form(u, v, x, y) <= 4 * Quality(u, v, x, y)
  BY QualityRounds
<1> QED
  BY <1>8, <1>9, <1>10

\* qual1 to qual3 of a result.
LEMMA Qualities ==
    ASSUME NEW r \in Results
    PROVE  /\ \A l \in EyeLanes : Width(r, l) \in Int
           /\ Qual3(r) \in Int
           /\ Open(r) => /\ Qual3(r) = Quality(Width(r, 0), Width(r, 1), Width(r, 2), Width(r, 3))
                         /\ Qual3(r) >= 1
           /\ ~Open(r) => Qual3(r) <= 0
<1> DEFINE a == Width(r, 0)
           b == Width(r, 1)
           c == Width(r, 2)
           d == Width(r, 3)
<1>1. \A l \in EyeLanes : Width(r, l) \in Int
  BY DEF Results, Width
<1>2. a \in Int /\ b \in Int /\ c \in Int /\ d \in Int /\ EyeLanes = {0, 1, 2, 3}
  BY <1>1 DEF EyeLanes
<1>3. Open(r) <=> (a > 0 /\ b > 0 /\ c > 0 /\ d > 0)
  BY <1>2 DEF Open
<1> HIDE DEF a, b, c, d
<1>4. CASE Open(r)
  <2>1. \A l \in EyeLanes : ~(Width(r, l) <= 0)
    BY <1>1, <1>4 DEF Open
  <2>2. Qual1(r) = a + b + c + d
    BY <1>2, <2>1 DEF Qual1, Total, a, b, c, d
  <2>3. Qual2(r) = ((Qual1(r) - a) * (Qual1(r) - a) + (Qual1(r) - b) * (Qual1(r) - b)
                    + (Qual1(r) - c) * (Qual1(r) - c) + (Qual1(r) - d) * (Qual1(r) - d)) \div 4
    BY <1>2, <2>1 DEF Qual2, Total, a, b, c, d
  <2>4. Qual3(r) = Quality(a, b, c, d)
    <3>1. Qual3(r) = Spread(Qual1(r), a, b, c, d)
      BY <2>3, Zenon DEF Qual3, Spread
    <3> QED
      BY <2>2, <3>1, Zenon DEF Quality
  <2>5. a \in Nat /\ b \in Nat /\ c \in Nat /\ d \in Nat /\ a >= 1 /\ b >= 1
    BY <1>2, <1>3, <1>4
  <2>6. /\ a * a \in Nat /\ b * b \in Nat /\ c * c \in Nat /\ d * d \in Nat /\ a * b \in Nat
        /\ a * c \in Nat /\ a * d \in Nat /\ b * c \in Nat /\ b * d \in Nat /\ c * d \in Nat
    BY <2>5, ProductGrows
  <2>7. a * b >= 1
    BY <2>5
  <2>8. Form(a, b, c, d) >= 1
    BY <2>6, <2>7 DEF Form
  <2>9. /\ Quality(a, b, c, d) \in Int /\ Form(a, b, c, d) \in Int
        /\ Form(a, b, c, d) <= 4 * Quality(a, b, c, d)
    BY <2>5, QualityRounds
  <2> QED
    BY <1>1, <1>4, <2>4, <2>8, <2>9 DEF a, b, c, d
<1>5. CASE ~Open(r)
  <2>1. Qual1(r) = 0
    BY <1>1, <1>5 DEF Qual1, Open
  <2> DEFINE w(l) == IF Width(r, l) <= 0 THEN 0 ELSE Width(r, l)
             e == w(0)
             f == w(1)
             g == w(2)
             h == w(3)
  <2>2. e \in Nat /\ f \in Nat /\ g \in Nat /\ h \in Nat
    BY <1>2 DEF a, b, c, d
  <2>3. Qual2(r) = ((0 - e) * (0 - e) + (0 - f) * (0 - f) + (0 - g) * (0 - g)
                    + (0 - h) * (0 - h)) \div 4
    BY <1>2, <2>1 DEF Qual2, Total
  <2> HIDE DEF w, e, f, g, h
  <2>4. (0 - e) * (0 - e) = e * e /\ (0 - f) * (0 - f) = f * f /\ (0 - g) * (0 - g) = g * g
        /\ (0 - h) * (0 - h) = h * h
    BY <2>2
  <2>5. e * e \in Nat /\ f * f \in Nat /\ g * g \in Nat /\ h * h \in Nat
    BY <2>2
  <2>6. Qual2(r) \in Nat
    BY <2>3, <2>4, <2>5
  <2>7. Qual3(r) = 0 * 0 - Qual2(r)
    BY <2>1 DEF Qual3
  <2> QED
    BY <1>1, <1>5, <2>6, <2>7
<1> QED
  BY <1>4, <1>5

\* Of the positions in a table some are the best, and of those one is the first.
LEMMA BestExists ==
    ASSUME NEW n \in Nat, NEW q \in [1 .. n -> Int], NEW S \in SUBSET (1 .. n), S # {}
    PROVE  \E i \in S : \A j \in S : q[j] <= q[i]
<1> DEFINE Top(k) == \E i \in S : i <= k /\ \A j \in S : j <= k => q[j] <= q[i]
           Best(k) == (\A j \in S : j > k) \/ Top(k)
           Fails == {k \in 0 .. n : ~Best(k)}
<1>1. \A j \in S : j \in Int /\ j >= 1 /\ j <= n /\ q[j] \in Int
  OBVIOUS
<1>2. ASSUME NEW k \in 1 .. n, Best(k - 1) PROVE Best(k)
  <2>1. CASE k \notin S
    <3>1. \A j \in S : j # k
      BY <2>1
    <3>2. \A j \in S : (j <= k <=> j <= k - 1) /\ (j > k <=> j > k - 1)
      BY <1>1, <3>1
    <3> QED
      BY <1>2, <3>2
  <2>2. CASE k \in S /\ \A j \in S : j > k - 1
    <3>1. \A j \in S : j <= k => j = k
      BY <1>1, <2>2
    <3>2. q[k] <= q[k] /\ k <= k
      BY <1>1, <2>2
    <3>3. Top(k)
      BY <2>2, <3>1, <3>2
    <3> QED
      BY <3>3
  <2>3. CASE k \in S /\ Top(k - 1)
    <3>1. PICK i \in S : i <= k - 1 /\ \A j \in S : j <= k - 1 => q[j] <= q[i]
      BY <2>3
    <3>2. \A j \in S : j <= k => j <= k - 1 \/ j = k
      BY <1>1
    <3>3. q[i] \in Int /\ q[k] \in Int /\ i <= k
      BY <1>1, <2>3, <3>1
    <3>4. CASE q[k] <= q[i]
      <4>1. \A j \in S : j <= k => q[j] <= q[i]
        BY <3>1, <3>2, <3>4
      <4> QED
        BY <3>3, <4>1
    <3>5. CASE q[k] > q[i]
      <4>1. \A j \in S : j <= k => q[j] <= q[k]
        BY <1>1, <3>1, <3>2, <3>3, <3>5
      <4> QED
        BY <2>3, <4>1
    <3> QED
      BY <3>3, <3>4, <3>5
  <2> QED
    BY <1>2, <2>1, <2>2, <2>3
<1>3. Best(0)
  BY <1>1
<1> HIDE DEF Best
<1>4. Fails = {}
  <2> SUFFICES ASSUME Fails # {} PROVE FALSE
    OBVIOUS
  <2>1. \A k \in Fails : k \in Nat /\ k <= n /\ ~Best(k)
    OBVIOUS
  <2>2. \A k \in 0 .. n : k \notin Fails => Best(k)
    OBVIOUS
  <2> HIDE DEF Fails
  <2>3. Fails \subseteq Nat
    BY <2>1
  <2>4. PICK k \in Fails : \A m \in Fails : k <= m
    BY <2>3, LeastNumber
  <2>5. k # 0
    BY <1>3, <2>1
  <2>6. k \in 1 .. n /\ k - 1 \in 0 .. n /\ ~(k <= k - 1)
    BY <2>1, <2>5
  <2>7. k - 1 \notin Fails
    BY <2>4, <2>6
  <2> QED
    BY <1>2, <2>1, <2>2, <2>6, <2>7
<1>5. Best(n)
  <2>1. n \in 0 .. n
    OBVIOUS
  <2> QED
    BY <1>4, <2>1
<1>6. Top(n)
  <2>1. PICK j \in S : TRUE
    OBVIOUS
  <2>2. ~(j > n)
    BY <1>1
  <2> HIDE DEF Top
  <2> QED
    BY <1>5, <2>2 DEF Best
<1> QED
  BY <1>1, <1>6

\* The start value of the search for the best.
Worst == -9999

\* maxpos: none, or a position of the set whose quality no other of it exceeds.
LEMMA BestOfIs ==
    ASSUME NEW n \in Nat, NEW q \in [1 .. n -> Int], NEW S \in SUBSET (1 .. n)
    PROVE  /\ BestOf(q, S) = 0 \/ (BestOf(q, S) \in S /\ \A j \in S : q[j] <= q[BestOf(q, S)])
           /\ (\E i \in S : q[i] > Worst) => BestOf(q, S) \in S
<1> DEFINE top == {i \in S : q[i] > Worst /\ \A j \in S : q[j] <= q[i]}
           first == CHOOSE i \in top : \A j \in top : i <= j
<1>1. BestOf(q, S) = IF top = {} THEN 0 ELSE first
  BY DEF BestOf, Worst
<1>2. top \subseteq Nat /\ \A i \in top : i \in S /\ \A j \in S : q[j] <= q[i]
  <2>1. S \subseteq Nat
    OBVIOUS
  <2> QED
    BY <2>1
<1>3. ASSUME NEW i \in S, q[i] > Worst PROVE top # {}
  <2>1. PICK k \in S : \A j \in S : q[j] <= q[k]
    BY BestExists
  <2>2. q[i] \in Int /\ q[k] \in Int /\ q[i] <= q[k]
    BY <2>1
  <2>3. q[k] > Worst
    BY <1>3, <2>2 DEF Worst
  <2>4. k \in top
    BY <2>1, <2>3
  <2> QED
    BY <2>4
<1> HIDE DEF top
<1>4. top # {} => first \in top
  <2> SUFFICES ASSUME top # {} PROVE first \in top
    OBVIOUS
  <2>1. \E i \in top : \A j \in top : i <= j
    BY <1>2, LeastNumber
  <2> QED
    BY <2>1
<1> HIDE DEF first
<1>5. BestOf(q, S) = 0 \/ BestOf(q, S) \in top
  BY <1>1, <1>4
<1>6. (\E i \in S : q[i] > Worst) => BestOf(q, S) \in top
  BY <1>1, <1>3, <1>4
<1>7. BestOf(q, S) \in top
      => BestOf(q, S) \in S /\ \A j \in S : q[j] <= q[BestOf(q, S)]
  BY <1>2
<1> QED
  BY <1>5, <1>6, <1>7, Zenon

\* What find_best_eye returns has the best quality of all, if any result has more than
\* the start value of the search: the rest of the work is only about which of them.
LEMMA ChoiceIsBest ==
    ASSUME NEW res \in Seq(Results), NEW c \in find_best_eye(res),
           \E i \in DOMAIN res : Qual3(res[i]) > Worst
    PROVE  c \in DOMAIN res /\ \A j \in DOMAIN res : Qual3(res[j]) <= Qual3(res[c])
<1> DEFINE n == Len(res)
           q == [i \in DOMAIN res |-> Qual3(res[i])]
           p0 == BestOf(q, DOMAIN q)
           p1 == BestOf(q, DOMAIN q \ {p0})
           p2 == BestOf(q, DOMAIN q \ {p0, p1})
           same(a, b) == a # 0 /\ b # 0 /\ q[a] = q[b]
           tied == IF same(p0, p1) THEN {p0, p1} \cup (IF same(p1, p2) THEN {p2} ELSE {})
                   ELSE {p0}
           near(i) == q[i - 1] + q[i + 1]
           edge == \E i \in tied : i - 1 \notin DOMAIN q \/ i + 1 \notin DOMAIN q
           top == {i \in tied : \A j \in tied : near(i) >= near(j)}
           first == CHOOSE i \in top : \A j \in top : i <= j
<1>1. n \in Nat /\ DOMAIN res = 1 .. n /\ DOMAIN q = 1 .. n
  OBVIOUS
<1>2. q \in [1 .. n -> Int]
  <2>1. \A i \in 1 .. n : res[i] \in Results
    BY <1>1
  <2> QED
    BY <1>1, <2>1, Qualities
<1>3. c \in IF Cardinality(tied) = 3 /\ p1 = p0 + 1 /\ p2 = p1 + 1 THEN {p1}
            ELSE IF Cardinality(tied) = 1 \/ edge THEN tied
            ELSE {first}
  BY Zenon DEF find_best_eye
<1>4. \A i \in DOMAIN res : q[i] = Qual3(res[i])
  OBVIOUS
<1> HIDE DEF n, q
<1>5. p0 \in 1 .. n /\ \A j \in 1 .. n : q[j] <= q[p0]
  <2>1. \E i \in 1 .. n : q[i] > Worst
    BY <1>1, <1>4
  <2>2. p0 = BestOf(q, 1 .. n)
    BY <1>1
  <2>3. (1 .. n) \in SUBSET (1 .. n)
    OBVIOUS
  <2>4. BestOf(q, 1 .. n) \in 1 .. n
    BY <1>1, <1>2, <2>1, <2>3, BestOfIs
  <2>5. BestOf(q, 1 .. n) # 0
    BY <2>4
  <2>6. \/ BestOf(q, 1 .. n) = 0
        \/ /\ BestOf(q, 1 .. n) \in 1 .. n
           /\ \A j \in 1 .. n : q[j] <= q[BestOf(q, 1 .. n)]
    BY <1>1, <1>2, <2>3, BestOfIs, Zenon
  <2> QED
    BY <2>2, <2>5, <2>6, Zenon
<1>6. (p1 = 0 \/ p1 \in 1 .. n) /\ (p2 = 0 \/ p2 \in 1 .. n)
  <2>1. (DOMAIN q \ {p0}) \in SUBSET (1 .. n) /\ (DOMAIN q \ {p0, p1}) \in SUBSET (1 .. n)
    BY <1>1
  <2> DEFINE S1 == DOMAIN q \ {p0}
             S2 == DOMAIN q \ {p0, p1}
  <2> HIDE DEF S1, S2
  <2>2. \A S \in SUBSET (1 .. n) : BestOf(q, S) = 0 \/ BestOf(q, S) \in 1 .. n
    <3> SUFFICES ASSUME NEW S \in SUBSET (1 .. n)
                 PROVE  BestOf(q, S) = 0 \/ BestOf(q, S) \in 1 .. n
      OBVIOUS
    <3>1. BestOf(q, S) = 0 \/ (BestOf(q, S) \in S /\ \A j \in S : q[j] <= q[BestOf(q, S)])
      BY <1>1, <1>2, BestOfIs, Zenon
    <3> QED
      BY <3>1
  <2>3. BestOf(q, S1) = 0 \/ BestOf(q, S1) \in 1 .. n
    BY <2>1, <2>2 DEF S1
  <2>4. BestOf(q, S2) = 0 \/ BestOf(q, S2) \in 1 .. n
    BY <2>1, <2>2 DEF S2
  <2> QED
    BY <2>3, <2>4 DEF S1, S2
<1> HIDE DEF p0, p1, p2
<1>7. /\ tied \subseteq 1 .. n /\ p0 \in tied /\ \A i \in tied : q[i] = q[p0]
      /\ tied # {p0} => p1 \in tied
  <2>1. CASE ~same(p0, p1)
    BY <1>5, <2>1
  <2>2. CASE same(p0, p1) /\ ~same(p1, p2)
    <3>1. tied = {p0, p1} /\ p1 \in 1 .. n /\ q[p1] = q[p0]
      BY <1>6, <2>2
    <3> QED
      BY <1>5, <3>1
  <2>3. CASE same(p0, p1) /\ same(p1, p2)
    <3>1. tied = {p0, p1, p2} /\ p1 \in 1 .. n /\ q[p1] = q[p0] /\ p2 \in 1 .. n /\ q[p2] = q[p0]
      BY <1>6, <2>3
    <3> QED
      BY <1>5, <3>1
  <2> HIDE DEF same, tied
  <2> QED
    BY <2>1, <2>2, <2>3, Zenon
<1>8. Cardinality(tied) = 3 => p1 \in tied
  <2>1. Cardinality({p0}) = 1
    BY FS_Singleton
  <2> QED
    BY <1>7, <2>1
<1> HIDE DEF tied
<1>9. ~edge => first \in tied
  <2> SUFFICES ASSUME ~edge PROVE first \in tied
    OBVIOUS
  <2> DEFINE g == [i \in 1 .. n |-> IF i \in tied THEN near(i) ELSE 0]
  <2>1. \A i \in tied : near(i) \in Int
    BY <1>1, <1>2
  <2>2. g \in [1 .. n -> Int] /\ \A i \in tied : g[i] = near(i)
    BY <1>7, <2>1
  <2> HIDE DEF g
  <2>3. PICK i \in tied : \A j \in tied : g[j] <= g[i]
    <3>1. tied \in SUBSET (1 .. n) /\ tied # {}
      BY <1>7
    <3> QED
      BY <1>1, <2>2, <3>1, BestExists, Zenon
  <2>4. \A j \in tied : near(i) >= near(j)
    <3> SUFFICES ASSUME NEW j \in tied PROVE near(i) >= near(j)
      OBVIOUS
    <3>1. g[j] <= g[i] /\ g[i] = near(i) /\ g[j] = near(j) /\ near(i) \in Int /\ near(j) \in Int
      BY <2>1, <2>2, <2>3
    <3> HIDE DEF near
    <3> QED
      BY <3>1
  <2>5. i \in top
    BY <2>4
  <2>6. top \subseteq tied
    OBVIOUS
  <2> HIDE DEF top
  <2>7. top \subseteq Nat /\ top # {}
    <3>1. 1 .. n \subseteq Nat
      BY <1>1
    <3> QED
      BY <1>7, <2>5, <2>6, <3>1
  <2>8. \E k \in top : \A j \in top : k <= j
    BY <2>7, LeastNumber, Zenon
  <2>9. first \in top
    BY <2>8, Zenon
  <2> HIDE DEF first
  <2> QED
    BY <2>6, <2>9
<1>10. c \in tied
  BY <1>3, <1>8, <1>9
<1>11. c \in 1 .. n /\ q[c] = q[p0]
  BY <1>7, <1>10
<1> QED
  BY <1>1, <1>4, <1>5, <1>11

\* A choice out of results of which one is open: it is open, and no other is better in
\* one lane and as good in all.
LEMMA ChoicePareto ==
    ASSUME NEW res \in Seq(Results), NEW c \in find_best_eye(res),
           NEW e \in DOMAIN res, Open(res[e])
    PROVE  /\ c \in DOMAIN res /\ c # 0 /\ Open(res[c])
           /\ \A d \in DOMAIN res :
                 ~ /\ Open(res[d])
                   /\ \A l \in EyeLanes : Width(res[d], l) >= Width(res[c], l)
                   /\ \E l \in EyeLanes : Width(res[d], l) > Width(res[c], l)
<1>1. \A i \in DOMAIN res : res[i] \in Results
  OBVIOUS
<1>2. Qual3(res[e]) >= 1 /\ Qual3(res[e]) \in Int
  BY <1>1, Qualities
<1>3. c \in DOMAIN res /\ \A j \in DOMAIN res : Qual3(res[j]) <= Qual3(res[c])
  BY <1>2, ChoiceIsBest DEF Worst
<1>4. Qual3(res[c]) \in Int /\ Qual3(res[c]) >= 1
  BY <1>1, <1>2, <1>3, Qualities
<1>5. Open(res[c])
  BY <1>1, <1>3, <1>4, Qualities
<1>6. ASSUME NEW d \in DOMAIN res, Open(res[d]),
             \A l \in EyeLanes : Width(res[d], l) >= Width(res[c], l),
             NEW k \in EyeLanes, Width(res[d], k) > Width(res[c], k)
      PROVE  FALSE
  <2> DEFINE a(i, l) == Width(res[i], l)
  <2>1. \A l \in EyeLanes : a(c, l) \in Int /\ a(c, l) > 0 /\ a(d, l) \in Int /\ a(d, l) > 0
                            /\ a(c, l) <= a(d, l)
    BY <1>1, <1>3, <1>5, <1>6, Qualities DEF Open
  <2>2. a(c, 0) < a(d, 0) \/ a(c, 1) < a(d, 1) \/ a(c, 2) < a(d, 2) \/ a(c, 3) < a(d, 3)
    BY <1>6 DEF EyeLanes
  <2>3. /\ Qual3(res[c]) = Quality(a(c, 0), a(c, 1), a(c, 2), a(c, 3))
        /\ Qual3(res[d]) = Quality(a(d, 0), a(d, 1), a(d, 2), a(d, 3))
        /\ Qual3(res[d]) \in Int
    BY <1>1, <1>3, <1>5, <1>6, Qualities
  <2>4. Qual3(res[d]) <= Qual3(res[c])
    BY <1>3
  <2> HIDE DEF a
  <2>5. \A i \in {c, d} : /\ a(i, 0) \in Nat /\ a(i, 0) >= 1 /\ a(i, 1) \in Nat /\ a(i, 1) >= 1
                          /\ a(i, 2) \in Nat /\ a(i, 2) >= 1 /\ a(i, 3) \in Nat /\ a(i, 3) >= 1
    BY <2>1 DEF EyeLanes
  <2>6. a(c, 0) <= a(d, 0) /\ a(c, 1) <= a(d, 1) /\ a(c, 2) <= a(d, 2) /\ a(c, 3) <= a(d, 3)
    BY <2>1 DEF EyeLanes
  <2>7. Quality(a(c, 0), a(c, 1), a(c, 2), a(c, 3)) < Quality(a(d, 0), a(d, 1), a(d, 2), a(d, 3))
    BY <2>2, <2>5, <2>6, QualityGrows
  <2> QED
    BY <1>4, <2>3, <2>4, <2>7
<1> QED
  BY <1>3, <1>5, <1>6

-----------------------------------------------------------------------------
(* The invariant of a measurement and of a choice.                         *)

\* Whoever reads the choice at the end finds none better (find_best_eye, weye_test1).
LEMMA ChosenIsPareto == ASSUME EyeTypes, ChoiceInv PROVE ParetoChosen
<1> SUFFICES ASSUME ePc = "end", eKind = "weye", NEW e \in DOMAIN eRes, Open(eRes[e])
             PROVE  /\ eChoice # 0 /\ Open(eRes[eChoice])
                    /\ ~ \E d \in DOMAIN eRes :
                           /\ Open(eRes[d])
                           /\ \A l \in EyeLanes : Width(eRes[d], l) >= Width(eRes[eChoice], l)
                           /\ eRes[d] # eRes[eChoice]
                           /\ \E l \in EyeLanes : Width(eRes[d], l) > Width(eRes[eChoice], l)
  BY DEF ParetoChosen
<1>1. eRes \in Seq(Results)
  BY DEF EyeTypes, Results
<1>2. eChoice \in find_best_eye(eRes)
  BY DEF ChoiceInv
<1> QED
  BY <1>1, <1>2, ChoicePareto

\* For every memory, step size and order of the tests: what has been set, found, chosen
\* and saved at every point of the measurements and of weye_test1.
THEOREM MeasureInvariant == EyeSpec => [](EyeInv /\ MeasureInv)
<1> DEFINE I == /\ EyeInv /\ EyeTypes /\ OffsetSet /\ EyesFound /\ EyeMeasured
                /\ ChoiceInv
<1>1. EyeInit => I
  BY EyeInitHolds, MeasureInit
<1>2. I /\ [EyeNext]_eVars => I'
  <2>1. I /\ UNCHANGED eVars => I'
    BY EyeStays, MeasureStays
  <2>2. I /\ EyeNext => I'
    BY EyeStep, EyeTypesStep, OffsetStep, EyesFoundStep, MeasuredStep, ChoiceStep
  <2> QED
    BY <2>1, <2>2
<1>3. I => EyeInv /\ MeasureInv
  BY ChosenIsPareto DEF MeasureInv
<1> QED
  BY <1>1, <1>2, <1>3, PTL DEF EyeSpec

\* For every memory, step size and order of the tests: an eye that is open at the middle
\* of the bit is measured to its last offsets on the grid, whatever the other lanes do,
\* and no eye is reported wider than it is (measure_write_eye, measure_read_eye,
\* weye_test1).
THEOREM EyesAlwaysMeasured == EyeSpec => []EyeMeasured
<1>1. EyeInv /\ MeasureInv => EyeMeasured
  BY DEF MeasureInv
<1> QED
  BY <1>1, MeasureInvariant, PTL

\* For every memory and step size: if some drive strength opens the eye of every lane,
\* weye_test1 ends with one that does and than which none is wider in a lane and as wide
\* in all, although find_best_eye takes the sum of the widths for their mean.
THEOREM ChoiceAlwaysPareto == EyeSpec => []ParetoChosen
<1>1. EyeInv /\ MeasureInv => ParetoChosen
  BY DEF MeasureInv
<1> QED
  BY <1>1, MeasureInvariant, PTL

-----------------------------------------------------------------------------
(* The memory test: numbers.                                               *)

\* Repeated application of a function to a start value, as often as wanted.
Repeats(g, n, s, F) == g[0] = s /\ \A k \in 1 .. n : g[k] = F[g[k - 1]]

LEMMA RepeatsExist ==
    ASSUME NEW S, NEW s \in S, NEW F \in [S -> S], NEW n \in Nat
    PROVE  \E g \in [0 .. n -> S] : Repeats(g, n, s, F)
<1> DEFINE Fails == {i \in Nat : ~ \E g \in [0 .. i -> S] : Repeats(g, i, s, F)}
<1>1. SUFFICES ASSUME Fails # {} PROVE FALSE
  OBVIOUS
<1>2. PICK i \in Fails : \A j \in Fails : i <= j
  BY <1>1, LeastNumber
<1>3. CASE i = 0
  <2> DEFINE g == [k \in 0 .. 0 |-> s]
  <2>1. g \in [0 .. 0 -> S] /\ Repeats(g, 0, s, F)
    BY DEF Repeats
  <2> QED
    BY <1>2, <1>3, <2>1
<1>4. CASE i # 0
  <2>1. i \in Nat /\ i - 1 \in Nat /\ i - 1 \notin Fails
    BY <1>2, <1>4
  <2>2. PICK g \in [0 .. i - 1 -> S] : Repeats(g, i - 1, s, F)
    BY <2>1
  <2> DEFINE h == [k \in 0 .. i |-> IF k = i THEN F[g[i - 1]] ELSE g[k]]
  <2>3. h \in [0 .. i -> S]
    BY <2>1, <2>2
  <2>4. h[0] = s
    BY <2>1, <2>2 DEF Repeats
  <2>5. ASSUME NEW k \in 1 .. i
        PROVE  h[k] = F[h[k - 1]]
    <3>1. k - 1 \in 0 .. i - 1 /\ k - 1 # i
      BY <2>1
    <3>2. h[k - 1] = g[k - 1]
      BY <2>1, <3>1
    <3>3. CASE k = i
      BY <2>1, <3>2, <3>3
    <3>4. CASE k # i
      <4>1. k \in 1 .. i - 1 /\ h[k] = g[k]
        BY <2>1, <3>4
      <4> QED
        BY <2>2, <3>2, <4>1 DEF Repeats
    <3> QED
      BY <3>3, <3>4
  <2> QED
    BY <1>2, <2>3, <2>4, <2>5 DEF Repeats
<1> QED
  BY <1>3, <1>4

LEMMA RepeatsSame ==
    ASSUME NEW s, NEW F, NEW n \in Nat, NEW m \in Nat, NEW g, NEW h,
           Repeats(g, n, s, F), Repeats(h, m, s, F), NEW k \in Nat, k <= n, k <= m
    PROVE  g[k] = h[k]
<1> DEFINE Fails == {i \in Nat : i <= n /\ i <= m /\ g[i] # h[i]}
<1>1. SUFFICES ASSUME Fails # {} PROVE FALSE
  OBVIOUS
<1>2. PICK i \in Fails : \A j \in Fails : i <= j
  BY <1>1, LeastNumber
<1>3. i # 0
  BY <1>2 DEF Repeats
<1>4. i \in 1 .. n /\ i \in 1 .. m /\ i - 1 \in Nat /\ i - 1 \notin Fails
  BY <1>2, <1>3
<1>5. g[i - 1] = h[i - 1]
  BY <1>4
<1> QED
  BY <1>2, <1>4, <1>5 DEF Repeats

\* The powers of a base: the recursion has a solution.
LEMMA PowersExist ==
    ASSUME NEW b \in Nat
    PROVE  \E p \in [Nat -> Nat] : p = [n \in Nat |-> IF n = 0 THEN 1 ELSE b * p[n - 1]]
<1> DEFINE F == [x \in Nat |-> b * x]
           G(n) == CHOOSE g \in [0 .. n -> Nat] : Repeats(g, n, 1, F)
           p == [n \in Nat |-> G(n)[n]]
<1>1. ASSUME NEW n \in Nat
      PROVE  G(n) \in [0 .. n -> Nat] /\ Repeats(G(n), n, 1, F)
  <2>1. F \in [Nat -> Nat]
    OBVIOUS
  <2>2. \E g \in [0 .. n -> Nat] : Repeats(g, n, 1, F)
    BY <2>1, RepeatsExist
  <2> QED
    BY <2>2
<1> HIDE DEF G
<1>2. p \in [Nat -> Nat]
  <2>1. \A n \in Nat : n \in 0 .. n
    OBVIOUS
  <2>2. \A n \in Nat : G(n)[n] \in Nat
    BY <1>1, <2>1
  <2> QED
    BY <2>2
<1>3. p[0] = 1
  BY <1>1 DEF Repeats
<1>4. ASSUME NEW n \in Nat, n # 0
      PROVE  p[n] = b * p[n - 1]
  <2>1. n \in 1 .. n /\ n - 1 \in Nat /\ n - 1 \in 0 .. n /\ n - 1 <= n
    BY <1>4
  <2>2. G(n)[n] = F[G(n)[n - 1]] /\ G(n)[n - 1] \in Nat
    BY <1>1, <2>1 DEF Repeats
  <2>3. G(n)[n - 1] = G(n - 1)[n - 1]
    <3> DEFINE a == G(n)
               c == G(n - 1)
               m == n - 1
    <3>1. Repeats(a, n, 1, F) /\ Repeats(c, m, 1, F) /\ m \in Nat /\ m <= n /\ m <= m
      BY <1>1, <2>1
    <3> HIDE DEF a, c, m, F
    <3>2. a[m] = c[m]
      BY <3>1, RepeatsSame
    <3> QED
      BY <3>2 DEF a, c, m
  <2>4. F[G(n)[n - 1]] = b * G(n)[n - 1]
    BY <2>2
  <2> QED
    BY <2>1, <2>2, <2>3, <2>4
<1>5. p = [n \in Nat |-> IF n = 0 THEN 1 ELSE b * p[n - 1]]
  BY <1>2, <1>3, <1>4
<1> QED
  BY <1>2, <1>5

\* Whatever satisfies the recursion is those powers.
LEMMA PowersUnique ==
    ASSUME NEW b \in Nat, NEW q, q = [n \in Nat |-> IF n = 0 THEN 1 ELSE b * q[n - 1]]
    PROVE  /\ q \in [Nat -> Nat] /\ q[0] = 1
           /\ \A n \in Nat : q[n + 1] = b * q[n]
<1>1. PICK p \in [Nat -> Nat] : p = [n \in Nat |-> IF n = 0 THEN 1 ELSE b * p[n - 1]]
  BY PowersExist
<1> DEFINE Fails == {i \in Nat : q[i] # p[i]}
<1>2. Fails = {}
  <2>1. SUFFICES ASSUME Fails # {} PROVE FALSE
    OBVIOUS
  <2>2. PICK i \in Fails : \A j \in Fails : i <= j
    BY <2>1, LeastNumber
  <2>3. i # 0
    BY <1>1, <2>2
  <2>4. i - 1 \in Nat /\ i - 1 \notin Fails
    BY <2>2, <2>3
  <2> QED
    BY <1>1, <2>2, <2>3, <2>4
<1>3. q \in [Nat -> Nat]
  BY <1>1, <1>2
<1>4. ASSUME NEW n \in Nat PROVE q[n + 1] = b * q[n]
  <2>1. n + 1 \in Nat /\ n + 1 # 0 /\ (n + 1) - 1 = n
    OBVIOUS
  <2> QED
    BY <2>1
<1> QED
  BY <1>3, <1>4

LEMMA Pow2Recursion ==
    /\ Pow2 \in [Nat -> Nat]
    /\ Pow2[0] = 1
    /\ \A n \in Nat : Pow2[n + 1] = 2 * Pow2[n]
<1>1. Pow2 = [n \in Nat |-> IF n = 0 THEN 1 ELSE 2 * Pow2[n - 1]]
  <2>1. \E p : p = [n \in Nat |-> IF n = 0 THEN 1 ELSE 2 * p[n - 1]]
    BY PowersExist
  <2> QED
    BY <2>1 DEF Pow2
<1> QED
  BY <1>1, PowersUnique

LEMMA Pow2Positive == \A n \in Nat : Pow2[n] \in Nat /\ Pow2[n] >= 1
<1> DEFINE Fails == {i \in Nat : ~(Pow2[i] >= 1)}
<1>1. Pow2 \in [Nat -> Nat] /\ Pow2[0] = 1 /\ \A n \in Nat : Pow2[n + 1] = 2 * Pow2[n]
  BY Pow2Recursion
<1>2. Fails = {}
  <2>1. SUFFICES ASSUME Fails # {} PROVE FALSE
    OBVIOUS
  <2>2. PICK i \in Fails : \A j \in Fails : i <= j
    BY <2>1, LeastNumber
  <2>3. i - 1 \in Nat /\ i - 1 \notin Fails /\ (i - 1) + 1 = i
    BY <1>1, <2>2
  <2>4. Pow2[i] = 2 * Pow2[i - 1] /\ Pow2[i - 1] \in Nat /\ Pow2[i - 1] >= 1
    BY <1>1, <2>3
  <2> QED
    BY <2>2, <2>4
<1> QED
  BY <1>1, <1>2

LEMMA Pow2Product == \A a, d \in Nat : Pow2[a + d] = Pow2[a] * Pow2[d]
<1> TAKE a \in Nat
<1> DEFINE Fails == {d \in Nat : Pow2[a + d] # Pow2[a] * Pow2[d]}
<1>1. Pow2 \in [Nat -> Nat] /\ Pow2[0] = 1 /\ \A n \in Nat : Pow2[n + 1] = 2 * Pow2[n]
  BY Pow2Recursion
<1>2. Fails = {}
  <2>1. SUFFICES ASSUME Fails # {} PROVE FALSE
    OBVIOUS
  <2>2. PICK i \in Fails : \A j \in Fails : i <= j
    BY <2>1, LeastNumber
  <2>3. i # 0
    <3>1. a + 0 = a /\ Pow2[a] \in Nat
      BY <1>1
    <3> QED
      BY <1>1, <2>2, <3>1
  <2>4. i - 1 \in Nat /\ i - 1 \notin Fails /\ (i - 1) + 1 = i /\ a + (i - 1) \in Nat
        /\ (a + (i - 1)) + 1 = a + i
    BY <2>2, <2>3
  <2>5. Pow2[a + i] = 2 * Pow2[a + (i - 1)] /\ Pow2[i] = 2 * Pow2[i - 1]
    BY <1>1, <2>4
  <2>6. Pow2[a + (i - 1)] = Pow2[a] * Pow2[i - 1]
    BY <2>4
  <2>7. ASSUME NEW x \in Nat, NEW y \in Nat
        PROVE  2 * (x * y) = x * (2 * y)
    OBVIOUS
  <2>8. Pow2[a] \in Nat /\ Pow2[i - 1] \in Nat
    BY <1>1, <2>4
  <2> QED
    BY <2>2, <2>5, <2>6, <2>7, <2>8
<1> QED
  BY <1>2

\* Division with remainder.
LEMMA Division ==
    ASSUME NEW a \in Int, NEW b \in Nat, b >= 1
    PROVE  a \div b \in Int /\ a % b \in 0 .. b - 1 /\ a = b * (a \div b) + (a % b)
OBVIOUS

LEMMA MultipleBound ==
    ASSUME NEW b \in Nat, b >= 1, NEW e \in Int, e >= 1
    PROVE  b * e >= b
<1>1. b * e = b * (e - 1) + b
  BY SMT
<1>2. b * (e - 1) >= 0
  BY SMT
<1> QED
  BY <1>1, <1>2, SMT

LEMMA DivisionUnique ==
    ASSUME NEW b \in Nat, b >= 1, NEW q \in Int, NEW r \in 0 .. b - 1
    PROVE  (b * q + r) \div b = q /\ (b * q + r) % b = r
<1> DEFINE a == b * q + r
           e == a \div b
           s == a % b
<1>1. a \in Int
  OBVIOUS
<1>2. e \in Int /\ s \in 0 .. b - 1 /\ b * q + r = b * e + s
  <2> HIDE DEF a
  <2>1. e \in Int /\ s \in 0 .. b - 1 /\ a = b * e + s
    BY <1>1, Division
  <2> QED
    BY <2>1 DEF a
<1> HIDE DEF e, s
<1>3. b * (q - e) = s - r /\ b * (e - q) = r - s
  BY <1>2, SMT
<1>4. ~(q - e >= 1)
  BY <1>2, <1>3, MultipleBound, SMT
<1>5. ~(e - q >= 1)
  BY <1>2, <1>3, MultipleBound, SMT
<1>6. q = e
  BY <1>2, <1>4, <1>5
<1>7. r = s
  BY <1>2, <1>6
<1> QED
  BY <1>6, <1>7 DEF e, s

\* Dividing by a product is dividing twice.
LEMMA DivisionTwice ==
    ASSUME NEW a \in Int, NEW b \in Nat, b >= 1, NEW c \in Nat, c >= 1
    PROVE  a \div (b * c) = (a \div b) \div c
<1> DEFINE q == a \div b
           r == a % b
           s == q \div c
           t == q % c
<1>1. q \in Int /\ r \in 0 .. b - 1 /\ a = b * q + r
  BY Division
<1>2. s \in Int /\ t \in 0 .. c - 1 /\ q = c * s + t
  <2> HIDE DEF q
  <2> QED
    BY <1>1, Division
<1> HIDE DEF q, r, s, t
<1>3. a = (b * c) * s + (b * t + r)
  <2>1. b * (c * s + t) = (b * c) * s + b * t
    BY <1>2
  <2> QED
    BY <1>1, <1>2, <2>1
<1>4. b * c \in Nat /\ b * c >= 1 /\ b * t + r \in 0 .. (b * c) - 1
  <2>1. b * c = b * (c - 1) + b
    BY SMT
  <2>2. b * t >= 0 /\ b * t \in Int /\ b * (c - 1) >= 0 /\ b * ((c - 1) - t) >= 0
    BY <1>2, SMT
  <2>3. b * ((c - 1) - t) = b * (c - 1) - b * t
    BY <1>2, SMT
  <2>4. b * (c - 1) \in Int
    BY SMT
  <2> DEFINE x == b * c
             y == b * (c - 1)
             z == b * t
  <2> HIDE DEF x, y, z
  <2>5. x = y + b /\ z >= 0 /\ z \in Int /\ y >= 0 /\ y - z >= 0 /\ y \in Int
    BY <2>1, <2>2, <2>3, <2>4 DEF x, y, z
  <2>6. x \in Nat /\ x >= 1 /\ z + r \in 0 .. x - 1
    BY <1>1, <2>5
  <2> QED
    BY <2>6 DEF x, z
<1> DEFINE B == b * c
           R == b * t + r
<1>5. B \in Nat /\ B >= 1 /\ R \in 0 .. B - 1 /\ a = B * s + R
  BY <1>3, <1>4
<1> HIDE DEF B, R
<1>6. a \div B = s
  BY <1>2, <1>5, DivisionUnique
<1> QED
  BY <1>6 DEF B, s, q

\* A number between two multiples of two has the half of the lower one.
LEMMA HalfSame ==
    ASSUME NEW q \in Int, NEW e \in {1, -1}, q % 2 = (IF e = 1 THEN 0 ELSE 1)
    PROVE  (q + e) % 2 = 1 - (q % 2) /\ (q + e) \div 2 = q \div 2
OBVIOUS

\* Changing one bit of a number changes this bit and no other.
LEMMA OneBit ==
    ASSUME NEW v \in Int, NEW j \in Nat, NEW b \in {0, 1}, Lane(v, j) # b
    PROVE  LET u == v + (b - Lane(v, j)) * Pow2[j]
           IN  u \in Int /\ Lane(u, j) = b /\ \A l \in Nat : l # j => Lane(u, l) = Lane(v, l)
<1> DEFINE P == Pow2[j]
           e == b - Lane(v, j)
           u == v + e * P
           q == v \div P
           r == v % P
<1>1. P \in Nat /\ P >= 1
  BY Pow2Positive
<1>2. q \in Int /\ r \in 0 .. P - 1 /\ v = P * q + r
  <2> HIDE DEF P
  <2> QED
    BY <1>1, Division
<1>3. Lane(v, j) = q % 2
  BY DEF Lane
<1>4. e \in {1, -1} /\ q % 2 = (IF e = 1 THEN 0 ELSE 1) /\ b = 1 - (q % 2)
  <2> HIDE DEF q
  <2> QED
    BY <1>2, <1>3
<1> HIDE DEF q, r, e
<1>5. (q + e) % 2 = b /\ (q + e) \div 2 = q \div 2
  BY <1>2, <1>4, HalfSame
<1> HIDE DEF P
<1>6. u = P * (q + e) + r
  <2>1. CASE e = 1
    BY <1>1, <1>2, <2>1
  <2>2. CASE e = -1
    BY <1>1, <1>2, <2>2
  <2> QED
    BY <1>4, <2>1, <2>2
<1>7. u \in Int
  BY <1>1, <1>2, <1>4
<1>8. u \div P = q + e
  <2> DEFINE x == q + e
  <2>1. x \in Int /\ u = P * x + r
    BY <1>2, <1>4, <1>6
  <2> HIDE DEF x, u
  <2> QED
    BY <1>1, <1>2, <2>1, DivisionUnique DEF x
<1>9. Lane(u, j) = b
  BY <1>5, <1>8 DEF Lane, P
<1> HIDE DEF u
<1>10. ASSUME NEW l \in Nat, l < j
       PROVE  Lane(u, l) = Lane(v, l)
  <2> DEFINE L == Pow2[l]
             X == Pow2[j - l - 1]
             s == v \div L
             t == v % L
  <2>1. L \in Nat /\ L >= 1 /\ X \in Nat /\ X >= 1 /\ P = L * (2 * X)
    <3>1. j - l - 1 \in Nat /\ (j - l - 1) + 1 = j - l /\ j - l \in Nat /\ l + (j - l) = j
      BY <1>10
    <3>2. Pow2[j - l] = 2 * Pow2[j - l - 1] /\ Pow2[j] = Pow2[l] * Pow2[j - l]
      BY <3>1, Pow2Recursion, Pow2Product
    <3> QED
      BY <3>1, <3>2, Pow2Positive DEF P
  <2> HIDE DEF L, X
  <2>2. s \in Int /\ t \in 0 .. L - 1 /\ v = L * s + t
    BY <2>1, Division
  <2> HIDE DEF s, t
  <2>3. s + 2 * (e * X) \in Int /\ e * X \in Int
    BY <1>4, <2>1, <2>2
  <2>4. u = L * (s + 2 * (e * X)) + t
    <3>1. u = (L * s + t) + e * (L * (2 * X))
      BY <2>1, <2>2 DEF u
    <3>2. CASE e = 1
      BY <2>1, <2>2, <3>1, <3>2
    <3>3. CASE e = -1
      BY <2>1, <2>2, <3>1, <3>3
    <3> QED
      BY <1>4, <3>2, <3>3
  <2>5. u \div L = s + 2 * (e * X)
    BY <2>1, <2>2, <2>3, <2>4, DivisionUnique
  <2>6. (s + 2 * (e * X)) % 2 = s % 2
    <3> DEFINE y == e * X
    <3>1. y \in Int
      BY <2>3
    <3> HIDE DEF y
    <3>2. (s + 2 * y) % 2 = s % 2
      BY <2>2, <3>1
    <3> QED
      BY <3>2 DEF y
  <2> QED
    BY <2>5, <2>6 DEF Lane, L, s
<1>11. ASSUME NEW l \in Nat, l > j
       PROVE  Lane(u, l) = Lane(v, l)
  <2> DEFINE L == Pow2[l]
             X == Pow2[l - j - 1]
  <2>1. L \in Nat /\ X \in Nat /\ X >= 1 /\ L = (P * 2) * X
    <3>1. l - j - 1 \in Nat /\ (l - j - 1) + 1 = l - j /\ l - j \in Nat /\ j + (l - j) = l
      BY <1>11
    <3>2. Pow2[l - j] = 2 * Pow2[l - j - 1] /\ Pow2[l] = Pow2[j] * Pow2[l - j]
      BY <3>1, Pow2Recursion, Pow2Product
    <3>3. \A x, y \in Nat : x * (2 * y) = (x * 2) * y
      OBVIOUS
    <3> QED
      BY <1>1, <3>1, <3>2, <3>3, Pow2Positive DEF P
  <2> HIDE DEF L, X
  <2>2. P * 2 \in Nat /\ P * 2 >= 1
    BY <1>1
  <2>3. ASSUME NEW x \in Int
        PROVE  x \div L = ((x \div P) \div 2) \div X
    <3>1. x \div (P * 2) = (x \div P) \div 2
      <4>1. \A c \in Nat : c >= 1 => x \div (P * c) = (x \div P) \div c
        BY <1>1, DivisionTwice
      <4>2. 2 \in Nat /\ 2 >= 1
        OBVIOUS
      <4> QED
        BY <4>1, <4>2, Zenon
    <3> DEFINE M == P * 2
    <3> HIDE DEF M
    <3>2. x \div (M * X) = (x \div M) \div X
      BY <2>1, <2>2, DivisionTwice DEF M
    <3> QED
      BY <2>1, <3>1, <3>2 DEF M
  <2>4. u \div L = v \div L
    BY <1>2, <1>5, <1>7, <1>8, <2>3 DEF q
  <2> QED
    BY <2>4 DEF Lane, L
<1>12. \A l \in Nat : l # j => l < j \/ l > j
  OBVIOUS
<1> QED
  BY <1>7, <1>9, <1>10, <1>11, <1>12 DEF u, e, P

\* Where memtest_all is, and the counters that a test starts with.
Phases ==
    /\ mPc \in {"idle", "next", "write", "flush", "read", "sum", "done"}
    /\ mI \in 0 .. Size
    /\ mPc \in {"write", "flush"} => mI = 0 /\ mMerr = 0 /\ mLerr = NoErrors
    /\ DOMAIN mLerr = 0 .. Lanes - 1
    /\ mPc \in {"read", "sum"} => IsFiniteSet(Passed)

\* The log has its places, and the history is a sequence.
LogShape ==
    /\ mWerr \in Nat
    /\ DOMAIN mLog = -1 .. LogMax - 1
    /\ \E S : mHist \in Seq(S)

\* The inductive invariant behind ErrorsExact.
MemInv == Phases /\ LogShape /\ ErrorsExact

LEMMA MemInitHolds == MemInit => MemInv
<1> SUFFICES ASSUME MemInit PROVE MemInv
  OBVIOUS
<1> USE MemTestAssumption
<1>1. Phases
  BY DEF MemInit, Phases, NoErrors
<1>2. LogShape
  <2>1. mHist \in Seq({})
    BY DEF MemInit
  <2> QED
    BY <2>1 DEF MemInit, LogShape
<1>3. CountsExact
  BY DEF MemInit, CountsExact
<1>4. LogExact
  BY DEF MemInit, LogExact, Zero
<1> QED
  BY <1>1, <1>2, <1>3, <1>4 DEF MemInv, ErrorsExact

\* What the words passed read does not change while the caches and the memory do not.
LEMMA LoadsSame ==
    ASSUME UNCHANGED <<mMem, mCache, mFault>>
    PROVE  \A w : Load(w)' = Load(w)
BY DEF Load, Reads, Cell

\* Nor do the patterns.
LEMMA RefsSame ==
    ASSUME UNCHANGED <<mBus, mMode, mSeed>>
    PROVE  \A w : Ref(mMode, mSeed, w)' = Ref(mMode, mSeed, w)
BY DEF Ref, SimpleWord, update_patterns

LEMMA PassedSame ==
    ASSUME UNCHANGED <<mMem, mCache, mFault, mBus, mMode, mSeed, mI>>
    PROVE  Passed' = Passed
BY LoadsSame, RefsSame DEF Passed

LEMMA CountsSame ==
    ASSUME UNCHANGED <<mMem, mCache, mFault, mBus, mMode, mSeed, mI, mMerr, mLerr>>,
           mPc' \in {"read", "sum"} => mPc \in {"read", "sum"}, CountsExact
    PROVE  CountsExact'
BY PassedSame DEF CountsExact, Bad, BadIn

LEMMA LogSame ==
    ASSUME UNCHANGED <<mWerr, mLog, mHist, mMail>>, LogShape, LogExact
    PROVE  LogShape' /\ LogExact'
BY DEF LogShape, LogExact

\* The call clears counters, mailbox and log, and the place before the log.
LEMMA CallStep ==
    ASSUME MemInv, memtest_all
    PROVE  MemInv'
<1> USE MemTestAssumption
<1>1. Phases'
  BY DEF MemInv, Phases, memtest_all
<1>2. LogShape'
  <2>1. mHist' \in Seq({})
    BY DEF memtest_all
  <2>2. DOMAIN mLog' = DOMAIN mLog /\ mWerr' \in Nat
    BY DEF memtest_all, Cleared
  <2> QED
    BY <2>1, <2>2 DEF MemInv, LogShape
<1>3. CountsExact'
  BY DEF memtest_all, CountsExact
<1>4. LogExact'
  <2>1. DOMAIN mLog = -1 .. LogMax - 1
    BY DEF MemInv, LogShape
  <2>2. \A k \in 0 .. LogMax - 1 : mLog'[k] = Zero
    BY <2>1 DEF memtest_all, Cleared
  <2>3. Len(mHist') = 0 /\ mWerr' = 0 /\ mMail' = Zero
    BY DEF memtest_all
  <2> QED
    BY <2>2, <2>3 DEF LogExact
<1> QED
  BY <1>1, <1>2, <1>3, <1>4 DEF MemInv, ErrorsExact

\* The steps that touch neither the words read nor the log.
LEMMA PassStep ==
    ASSUME MemInv, NextTest \/ WritePass \/ AddUp
    PROVE  MemInv'
<1> USE MemTestAssumption
<1>1. Phases'
  BY DEF MemInv, Phases, NextTest, WritePass, AddUp, NoErrors
<1>2. LogShape' /\ LogExact'
  BY LogSame DEF MemInv, ErrorsExact, NextTest, WritePass, AddUp
<1>3. CountsExact'
  BY DEF NextTest, WritePass, AddUp, CountsExact
<1> QED
  BY <1>1, <1>2, <1>3 DEF MemInv, ErrorsExact

\* No word has been passed when reading begins.
LEMMA FlushStep ==
    ASSUME MemInv, DCacheInvalidate
    PROVE  MemInv'
<1> USE MemTestAssumption
<1>1. mI' = 0 /\ mMerr' = 0 /\ mLerr' = NoErrors /\ mPc' = "read"
  BY DEF MemInv, Phases, DCacheInvalidate
<1>2. Passed' = {}
  BY <1>1 DEF Passed
<1>3. Phases'
  BY <1>1, <1>2, FS_EmptySet DEF Phases, NoErrors
<1>4. LogShape' /\ LogExact'
  BY LogSame DEF MemInv, ErrorsExact, DCacheInvalidate
<1>5. CountsExact'
  <2>1. Bad' = {} /\ \A l : BadIn(l)' = {}
    BY <1>2 DEF Bad, BadIn
  <2> QED
    BY <1>1, <2>1, FS_EmptySet DEF CountsExact, NoErrors
<1> QED
  BY <1>3, <1>4, <1>5 DEF MemInv, ErrorsExact

\* One more word has been passed, and it was not among the others.
LEMMA OneMorePassed ==
    ASSUME MemInv, ReadCompare
    PROVE  LET p == <<mI, Load(mI), Ref(mMode, mSeed, mI)>>
           IN  Passed' = Passed \cup {p} /\ p \notin Passed
<1> DEFINE p == <<mI, Load(mI), Ref(mMode, mSeed, mI)>>
<1>1. mI \in Nat /\ mI' = mI + 1
  BY MemTestAssumption DEF MemInv, Phases, ReadCompare
<1>2. Passed' = {<<w, Load(w), Ref(mMode, mSeed, w)>> : w \in 0 .. mI}
  BY <1>1, LoadsSame, RefsSame DEF Passed, ReadCompare
<1>3. 0 .. mI = (0 .. mI - 1) \cup {mI}
  BY <1>1
<1>4. Passed' = Passed \cup {p}
  BY <1>2, <1>3 DEF Passed
<1>5. p \notin Passed
  <2> SUFFICES ASSUME NEW w \in 0 .. mI - 1,
                      p = <<w, Load(w), Ref(mMode, mSeed, w)>>
               PROVE  FALSE
    BY DEF Passed
  <2>1. mI = w
    OBVIOUS
  <2> QED
    BY <1>1, <2>1
<1> QED
  BY <1>4, <1>5

\* A set grows by one element if a new one belongs to it.
LEMMA CountOneMore ==
    ASSUME NEW S, IsFiniteSet(S), NEW x, x \notin S
    PROVE  Cardinality(S \cup {x}) = Cardinality(S) + 1
BY FS_AddElement

\* The counts of the test follow the words (memtest_simple and the other tests).
LEMMA ReadCounts ==
    ASSUME MemInv, ReadCompare
    PROVE  Phases' /\ CountsExact'
<1> DEFINE data == Load(mI)
           ref  == Ref(mMode, mSeed, mI)
           p    == <<mI, data, ref>>
           lerr == [l \in DOMAIN mLerr |->
                       mLerr[l] + IF Lane(data, l) # Lane(ref, l) THEN 1 ELSE 0]
<1> USE MemTestAssumption
<1>1. Passed' = Passed \cup {p} /\ p \notin Passed
  BY OneMorePassed
<1>2. IsFiniteSet(Passed) /\ mI \in 0 .. Size /\ mI < Size
  BY DEF MemInv, Phases, ReadCompare
<1>3. mMerr = Cardinality(Bad) /\ \A l \in 0 .. Lanes - 1 : mLerr[l] = Cardinality(BadIn(l))
  BY DEF MemInv, ErrorsExact, CountsExact, ReadCompare
<1>4. IsFiniteSet(Bad) /\ \A l : IsFiniteSet(BadIn(l))
  BY <1>2, FS_Subset DEF Bad, BadIn
<1>5. p[2] = data /\ p[3] = ref
  OBVIOUS
<1>6. Bad' = IF data = ref THEN Bad ELSE Bad \cup {p}
  BY <1>1, <1>5 DEF Bad
<1>7. ASSUME NEW l
      PROVE  BadIn(l)' = IF Lane(data, l) # Lane(ref, l) THEN BadIn(l) \cup {p} ELSE BadIn(l)
  BY <1>1, <1>5, <1>6 DEF BadIn
<1>8. p \notin Bad /\ \A l : p \notin BadIn(l)
  BY <1>1 DEF Bad, BadIn
<1>9. mMerr' = IF data = ref THEN mMerr ELSE mMerr + 1
  BY DEF ReadCompare
<1>10. mLerr' = lerr
  BY DEF ReadCompare
<1>11. DOMAIN mLerr = 0 .. Lanes - 1
  BY DEF MemInv, Phases
<1> HIDE DEF data, ref, p
<1>12. mMerr' = Cardinality(Bad')
  BY <1>3, <1>4, <1>6, <1>8, <1>9, CountOneMore
<1>13. ASSUME NEW l \in 0 .. Lanes - 1
       PROVE  mLerr'[l] = Cardinality(BadIn(l)')
  <2>1. mLerr'[l] = mLerr[l] + IF Lane(data, l) # Lane(ref, l) THEN 1 ELSE 0
    BY <1>10, <1>11
  <2>2. Cardinality(BadIn(l)) \in Nat
    BY <1>4, FS_CardinalityType
  <2>3. CASE Lane(data, l) # Lane(ref, l)
    BY <1>3, <1>4, <1>7, <1>8, <2>1, <2>3, CountOneMore
  <2>4. CASE Lane(data, l) = Lane(ref, l)
    BY <1>3, <1>7, <2>1, <2>2, <2>4
  <2> QED
    BY <2>3, <2>4
<1>14. IsFiniteSet(Passed')
  BY <1>1, <1>2, FS_AddElement
<1>15. mPc' \in {"read", "sum"} /\ mI' = mI + 1
  BY DEF ReadCompare
<1>16. DOMAIN mLerr' = 0 .. Lanes - 1
  BY <1>10, <1>11
<1>17. Phases'
  BY <1>2, <1>14, <1>15, <1>16 DEF Phases
<1> QED
  BY <1>12, <1>13, <1>17 DEF CountsExact

\* Log and mailbox follow the first errors (error_info).
LEMMA ReadLogs ==
    ASSUME MemInv, ReadCompare
    PROVE  LogShape' /\ LogExact'
<1> DEFINE data == Load(mI)
           ref  == Ref(mMode, mSeed, mI)
           e    == <<Reported(mMode, mI), ref, data>>
           h    == [mode |-> mMode, word |-> mI, ref |-> ref, data |-> data]
           w    == mWerr + 1
<1> USE MemTestAssumption
<1>1. CASE data = ref
  <2>1. UNCHANGED <<mWerr, mLog, mHist, mMail>>
    BY <1>1 DEF ReadCompare
  <2> QED
    BY <2>1, LogSame DEF MemInv, ErrorsExact
<1>2. CASE data # ref
  <2>1. /\ mWerr' = w
        /\ mMail' = IF w <= 1 THEN e ELSE mMail
        /\ mLog' = IF w <= LogMax THEN [mLog EXCEPT ![w - 1] = e] ELSE mLog
        /\ mHist' = IF Len(mHist) = LogMax THEN mHist ELSE Append(mHist, h)
    BY <1>2 DEF ReadCompare, error_info
  <2>2. Entry(h, e)
    BY DEF Entry, Reported
  <2> HIDE DEF data, ref, e, h
  <2>3. mWerr \in Nat /\ DOMAIN mLog = -1 .. LogMax - 1
    BY DEF MemInv, LogShape
  <2>4. PICK S : mHist \in Seq(S)
    BY DEF MemInv, LogShape
  <2>5. /\ Len(mHist) = IF mWerr < LogMax THEN mWerr ELSE LogMax
        /\ \A k \in 1 .. LogMax :
              IF k <= mWerr THEN Entry(mHist[k], mLog[k - 1]) ELSE mLog[k - 1] = Zero
        /\ mMail = mLog[0]
    BY DEF MemInv, ErrorsExact, LogExact
  <2>6. mHist \in Seq(S \cup {h})
    BY <2>4
  <2>7. /\ Append(mHist, h) \in Seq(S \cup {h})
        /\ Len(Append(mHist, h)) = Len(mHist) + 1
        /\ Append(mHist, h)[Len(mHist) + 1] = h
        /\ \A k \in 1 .. Len(mHist) : Append(mHist, h)[k] = mHist[k]
    BY <2>6
  <2>8. LogShape'
    <3>1. mHist' \in Seq(S \cup {h})
      BY <2>1, <2>6, <2>7
    <3>2. mWerr' \in Nat /\ DOMAIN mLog' = -1 .. LogMax - 1
      BY <2>1, <2>3
    <3> QED
      BY <3>1, <3>2 DEF LogShape
  <2>9. CASE mWerr < LogMax
    <3>1. /\ mLog' = [mLog EXCEPT ![mWerr] = e] /\ mHist' = Append(mHist, h)
          /\ Len(mHist) = mWerr
      BY <2>1, <2>3, <2>5, <2>9
    <3>2. \A k \in 0 .. LogMax - 1 : mLog'[k] = IF k = mWerr THEN e ELSE mLog[k]
      BY <2>3, <3>1
    <3>3. Len(mHist') = IF mWerr' < LogMax THEN mWerr' ELSE LogMax
      BY <2>1, <2>3, <2>7, <2>9, <3>1
    <3>4. ASSUME NEW k \in 1 .. LogMax
          PROVE  IF k <= mWerr' THEN Entry(mHist'[k], mLog'[k - 1]) ELSE mLog'[k - 1] = Zero
      <4>1. CASE k = mWerr + 1
        <5>1. mHist'[k] = h /\ mLog'[k - 1] = e
          BY <2>3, <2>7, <3>1, <3>2, <4>1
        <5> QED
          BY <2>1, <2>2, <2>3, <4>1, <5>1
      <4>2. CASE k <= mWerr
        <5>1. mHist'[k] = mHist[k] /\ mLog'[k - 1] = mLog[k - 1]
          BY <2>3, <2>7, <3>1, <3>2, <4>2
        <5> QED
          BY <2>1, <2>3, <2>5, <4>2, <5>1
      <4>3. CASE k > mWerr + 1
        <5>1. mLog'[k - 1] = mLog[k - 1]
          BY <2>3, <3>2, <4>3
        <5>2. ~(k <= mWerr) /\ ~(k <= mWerr')
          BY <2>1, <2>3, <4>3
        <5>3. mLog[k - 1] = Zero
          BY <2>5, <5>2
        <5> QED
          BY <5>1, <5>2, <5>3
      <4> QED
        BY <2>3, <4>1, <4>2, <4>3
    <3>5. mMail' = mLog'[0]
      BY <2>1, <2>3, <2>5, <2>9, <3>2
    <3> QED
      BY <2>8, <3>3, <3>4, <3>5 DEF LogExact
  <2>10. CASE mWerr >= LogMax
    <3>1. mLog' = mLog /\ mHist' = mHist /\ mMail' = mMail
      BY <2>1, <2>3, <2>5, <2>10
    <3>2. \A k \in 1 .. LogMax : k <= mWerr /\ k <= mWerr'
      BY <2>1, <2>3, <2>10
    <3>3. Len(mHist') = IF mWerr' < LogMax THEN mWerr' ELSE LogMax
      BY <2>1, <2>3, <2>5, <2>10, <3>1
    <3> QED
      BY <2>5, <2>8, <3>1, <3>2, <3>3 DEF LogExact
  <2> QED
    BY <2>3, <2>9, <2>10
<1> QED
  BY <1>1, <1>2

\* Every step keeps the account of the errors.
LEMMA MemInvStep == MemInv /\ [MemNext]_mVars => MemInv'
<1>1. MemInv /\ MemNext => MemInv'
  <2>1. MemInv /\ ReadCompare => MemInv'
    BY ReadCounts, ReadLogs DEF MemInv, ErrorsExact
  <2> QED
    BY <2>1, CallStep, PassStep, FlushStep DEF MemNext
<1>2. MemInv /\ UNCHANGED mVars => MemInv'
  <2> SUFFICES ASSUME MemInv, UNCHANGED mVars PROVE MemInv'
    OBVIOUS
  <2>1. Phases'
    BY PassedSame DEF MemInv, Phases, mVars
  <2>2. CountsExact' /\ LogExact' /\ LogShape'
    BY CountsSame, LogSame DEF MemInv, ErrorsExact, mVars
  <2> QED
    BY <2>1, <2>2 DEF MemInv, ErrorsExact
<1> QED
  BY <1>1, <1>2

\* For any size of memory, log and error limit, any fault and any selection of tests:
\* counters, mailbox and log always agree with what the memory read (memtest_all,
\* error_info).
THEOREM ErrorsAlwaysExact == MemSpec => []ErrorsExact
<1>1. MemInv => ErrorsExact
  BY DEF MemInv
<1> QED
  BY <1>1, MemInvStep, MemInitHolds, PTL DEF MemSpec

\* The pattern words are numbers.
LEMMA LaneType == \A v \in Int, l \in Nat : Lane(v, l) \in {0, 1}
<1> TAKE v \in Int, l \in Nat
<1>1. v \div Pow2[l] \in Int
  BY Pow2Positive, Division
<1> QED
  BY <1>1 DEF Lane

LEMMA YLFSRType ==
    ASSUME NEW a \in Int
    PROVE  YLFSR(a) \in Int
<1>1. Lanes \in Nat /\ Lanes - 1 \in Nat /\ Lanes - 2 \in Nat
  BY MemTestAssumption
<1>2. Lane(a, Lanes - 1) \in {0, 1} /\ Lane(a, Lanes - 2) \in {0, 1}
  BY <1>1, LaneType
<1>3. Pow2[Lanes] \in Nat /\ Pow2[Lanes] >= 1
  BY <1>1, Pow2Positive
<1> DEFINE x == 2 * a + ((Lane(a, Lanes - 1) + Lane(a, Lanes - 2) + 1) % 2)
<1>4. x \in Int
  BY <1>2
<1> HIDE DEF x
<1>5. x % Pow2[Lanes] \in Int
  BY <1>3, <1>4, Division
<1> QED
  BY <1>5 DEF YLFSR, x

LEMMA RandomType ==
    ASSUME NEW m \in Nat, NEW seed \in Int, NEW i \in Nat
    PROVE  Random(m, seed, i) \in Int
<1> DEFINE n  == i + 1
           s0 == (19 * m + seed) % Pow2[Lanes]
           F  == [a \in Int |-> YLFSR(a)]
           is(r) == r = [k \in 0 .. n |-> IF k = 0 THEN s0 ELSE YLFSR(r[k - 1])]
           r0 == CHOOSE r : is(r)
<1>1. Pow2[Lanes] \in Nat /\ Pow2[Lanes] >= 1
  BY Pow2Positive, MemTestAssumption
<1>2. s0 \in Int
  <2>1. 19 * m + seed \in Int
    OBVIOUS
  <2> QED
    BY <1>1, <2>1, Division
<1>3. F \in [Int -> Int]
  BY YLFSRType
<1>4. n \in Nat /\ n \in 0 .. n /\ n # 0 /\ n - 1 \in 0 .. n
  OBVIOUS
<1> HIDE DEF s0, n
<1>5. PICK g \in [0 .. n -> Int] : Repeats(g, n, s0, F)
  BY <1>2, <1>3, <1>4, RepeatsExist
<1>6. ASSUME NEW k \in 0 .. n
      PROVE  g[k] = IF k = 0 THEN s0 ELSE YLFSR(g[k - 1])
  <2>1. CASE k = 0
    BY <1>5, <2>1 DEF Repeats
  <2>2. CASE k # 0
    <3>1. k \in 1 .. n /\ k - 1 \in 0 .. n
      BY <1>4, <2>2
    <3>2. g[k] = F[g[k - 1]] /\ g[k - 1] \in Int
      BY <1>5, <3>1 DEF Repeats
    <3> QED
      BY <2>2, <3>2
  <2> QED
    BY <2>1, <2>2
<1>7. is(g)
  BY <1>5, <1>6
<1>8. is(r0)
  BY <1>7
<1>9. Random(m, seed, i) = r0[n]
  BY DEF Random, n, s0
<1> HIDE DEF r0
<1>10. \A k \in 0 .. n : r0[k] = IF k = 0 THEN s0 ELSE YLFSR(r0[k - 1])
  BY <1>8
<1> HIDE DEF is
<1> DEFINE Bad2 == {k \in Nat : k <= n /\ r0[k] # g[k]}
<1>11. Bad2 = {}
  <2>1. SUFFICES ASSUME Bad2 # {} PROVE FALSE
    OBVIOUS
  <2>2. PICK k \in Bad2 : \A j \in Bad2 : k <= j
    BY <2>1, LeastNumber
  <2>3. k \in 0 .. n
    BY <1>4, <2>2
  <2>4. k # 0
    BY <1>6, <1>10, <2>2, <2>3
  <2>5. k - 1 \in Nat /\ k - 1 \notin Bad2 /\ k - 1 <= n
    BY <1>4, <2>2, <2>3, <2>4
  <2> QED
    BY <1>6, <1>10, <2>2, <2>3, <2>4, <2>5
<1>12. r0[n] = g[n] /\ g[n] \in Int
  BY <1>4, <1>5, <1>11
<1> QED
  BY <1>9, <1>12

LEMMA RefType ==
    ASSUME NEW m \in Modes, NEW seed \in Int, NEW i \in Nat
    PROVE  Ref(m, seed, i) \in Int
<1>1. Ones \in Int /\ Low \in Int /\ High \in Int
  <2>1. Lanes \in Nat /\ Lanes \div 2 \in Nat
    BY MemTestAssumption
  <2> QED
    BY <2>1, Pow2Positive DEF Ones, Low, High
<1>2. i % 4 \in 0 .. 3 /\ i % 16 \in 0 .. 15
  OBVIOUS
<1>3. CASE m = 0
  <2>1. Pow2[Lanes] \in Nat /\ Pow2[Lanes] >= 1 /\ Start + i \in Int
    BY Pow2Positive, MemTestAssumption
  <2>2. (Start + i) % Pow2[Lanes] \in Int
    BY <2>1, Division
  <2> QED
    BY <1>3, <2>2 DEF Ref
<1>4. CASE m \in 1 .. 8
  <2>1. Simple32[m][(i % 4) + 1] \in Int
    <3>1. (i % 4) + 1 \in 1 .. 4
      BY <1>2
    <3>2. Simple32[m] \in [1 .. 4 -> Int]
      BY <1>1, <1>4 DEF Simple32
    <3> QED
      BY <3>1, <3>2
  <2>2. SimpleWord(m, i) \in Int
    BY <1>1, <2>1 DEF SimpleWord, Simple16
  <2> QED
    BY <1>4, <2>2 DEF Ref
<1>5. update_patterns(i) \in Int
  <2>1. (i % 16) + 1 \in 1 .. 16
    BY <1>2
  <2>2. Pattern1 \in [1 .. 16 -> Int] /\ Pattern1_16bit \in [1 .. 16 -> Int]
    BY <1>1 DEF Pattern1, Pattern1_16bit
  <2> QED
    BY <2>1, <2>2 DEF update_patterns
<1>6. CASE m \in {9, 10}
  <2>1. Inverted(update_patterns(i)) \in Int
    BY <1>1, <1>5 DEF Inverted
  <2>2. Ref(m, seed, i) = IF m = 9 THEN update_patterns(i) ELSE Inverted(update_patterns(i))
    BY <1>6 DEF Ref
  <2> QED
    BY <1>5, <2>1, <2>2
<1>7. CASE m \in 11 .. 14
  <2>1. m \in Nat /\ Ref(m, seed, i) = Random(m, seed, i)
    BY <1>7 DEF Ref
  <2> QED
    BY <2>1, RandomType
<1> QED
  BY <1>3, <1>4, <1>6, <1>7 DEF Modes

-----------------------------------------------------------------------------
(* What the memory holds.                                                  *)

\* The memory holds the pattern, as far as the cells of the words can: of the words
\* that share a cell, the cell holds one.
InMemory(w) == \E v \in Window : Cell(v) = Cell(w) /\ mMem[Cell(w)] = Ref(mMode, mSeed, v)

MemoryInv ==
    /\ mFault \in FaultSet /\ mMode \in Modes /\ mSeed \in Int
    /\ mPc = "flush" =>
          /\ DOMAIN mCache \subseteq Window
          /\ \A w \in Window : IF w \in DOMAIN mCache THEN mCache[w] = Ref(mMode, mSeed, w)
                                                      ELSE InMemory(w)
    /\ mPc \in {"read", "sum"} => mCache = NoWords /\ \A w \in Window : InMemory(w)
    /\ mPc = "sum" => mI = Size \/ mMerr > 0

LEMMA FaultKinds ==
    ASSUME mFault \in FaultSet
    PROVE  /\ mFault.kind \in {"none", "stuck", "line", "dead"}
           /\ mFault.kind = "stuck" => /\ mFault.word \in Window /\ mFault.lane \in 0 .. Lanes - 1
                                       /\ mFault.bit \in {0, 1}
           /\ mFault.kind = "line" => mFault.line \in 0 .. Size
BY DEF FaultSet

\* An address line that is missing leads to a word below.
LEMMA CellType ==
    ASSUME mFault \in FaultSet, NEW w \in Window
    PROVE  Cell(w) \in Window
<1>1. CASE mFault.kind = "line" /\ Lane(w, mFault.line) = 1
  <2> DEFINE P == Pow2[mFault.line]
             q == w \div P
             r == w % P
  <2>1. P \in Nat /\ P >= 1 /\ w \in Nat /\ w < Size /\ Size \in Nat
    BY <1>1, FaultKinds, Pow2Positive, MemTestAssumption DEF Window
  <2> HIDE DEF P
  <2>2. q \in Int /\ r \in 0 .. P - 1 /\ w = P * q + r
    BY <2>1, Division
  <2>3. q % 2 = 1
    BY <1>1 DEF Lane, P
  <2> HIDE DEF q, r
  <2>4. q >= 1
    <3>1. SUFFICES ASSUME q <= -1 PROVE FALSE
      BY <2>2, <2>3
    <3>2. P * (-q) >= P
      BY <2>1, <2>2, <3>1, MultipleBound
    <3>3. P * (-q) = -(P * q)
      BY <2>1, <2>2
    <3> QED
      BY <2>1, <2>2, <3>2, <3>3
  <2>5. P * q >= P
    BY <2>1, <2>2, <2>4, MultipleBound
  <2>6. w - P >= 0
    BY <2>1, <2>2, <2>5
  <2> QED
    BY <1>1, <2>1, <2>6 DEF Cell, P, Window
<1>2. CASE ~(mFault.kind = "line" /\ Lane(w, mFault.line) = 1)
  BY <1>2 DEF Cell
<1> QED
  BY <1>1, <1>2

\* A non-empty part of the window has a first and a last word.
LEMMA FirstAndLast ==
    ASSUME NEW S \in SUBSET Window, S # {}
    PROVE  /\ (CHOOSE w \in S : \A v \in S : w <= v) \in S
           /\ (CHOOSE w \in S : \A v \in S : v <= w) \in S
<1>1. S \subseteq Nat
  BY DEF Window
<1>2. \E w \in S : \A v \in S : w <= v
  BY <1>1, LeastNumber
<1>3. \E w \in S : \A v \in S : v <= w
  <2> DEFINE T == {Size - w : w \in S}
  <2>1. T \subseteq Nat /\ T # {}
    <3>1. \A w \in S : Size - w \in Nat
      BY MemTestAssumption DEF Window
    <3> QED
      BY <3>1
  <2>2. PICK n \in T : \A m \in T : n <= m
    BY <2>1, LeastNumber
  <2>3. PICK w \in S : n = Size - w
    BY <2>2
  <2>4. ASSUME NEW v \in S PROVE v <= w
    <3>1. Size - w <= Size - v
      BY <2>2, <2>3
    <3>2. v \in Nat /\ w \in Nat /\ Size \in Nat
      BY <1>1, MemTestAssumption
    <3> QED
      BY <3>1, <3>2
  <2> QED
    BY <2>4
<1> QED
  BY <1>2, <1>3

\* When words are written back, their cells hold one of theirs, and the other cells
\* what they held.
LEMMA WrittenBackHolds ==
    ASSUME NEW c, NEW W \in SUBSET Window, NEW mem \in WrittenBack(c, W), NEW x \in Window
    PROVE  IF \E v \in W : Cell(v) = x THEN \E v \in W : Cell(v) = x /\ mem[x] = c[v]
                                       ELSE mem[x] = mMem[x]
<1> DEFINE For == [y \in Window |-> {w \in W : Cell(w) = y}]
           first == CHOOSE w \in For[x] : \A v \in For[x] : w <= v
           last  == CHOOSE w \in For[x] : \A v \in For[x] : v <= w
           early == [y \in Window |-> IF For[y] = {} THEN mMem[y]
                                      ELSE c[CHOOSE w \in For[y] : \A v \in For[y] : w <= v]]
           late  == [y \in Window |-> IF For[y] = {} THEN mMem[y]
                                      ELSE c[CHOOSE w \in For[y] : \A v \in For[y] : v <= w]]
<1>1. PICK H : mem = [y \in Window |-> IF y \in H THEN late[y] ELSE early[y]]
  BY DEF WrittenBack
<1>2. For[x] = {w \in W : Cell(w) = x}
  OBVIOUS
<1>3. For[x] # {} => last \in For[x] /\ first \in For[x]
  <2>1. For[x] \in SUBSET Window
    BY <1>2
  <2> HIDE DEF For
  <2> QED
    BY <2>1, FirstAndLast
<1>4. /\ early[x] = IF For[x] = {} THEN mMem[x] ELSE c[first]
      /\ late[x] = IF For[x] = {} THEN mMem[x] ELSE c[last]
  <2> HIDE DEF For
  <2> QED
    OBVIOUS
<1> HIDE DEF For, first, last, early, late
<1>5. mem[x] = early[x] \/ mem[x] = late[x]
  BY <1>1
<1> QED
  BY <1>2, <1>3, <1>4, <1>5

LEMMA CellsSame ==
    ASSUME mFault' = mFault
    PROVE  \A w, v : Cell(w)' = Cell(w) /\ Reads(w, v)' = Reads(w, v)
BY DEF Cell, Reads

\* What the steps leave alone, the memory keeps.
LEMMA MemorySame ==
    ASSUME MemoryInv, UNCHANGED <<mMem, mCache, mFault, mBus, mMode, mSeed>>,
           mPc' \in {"flush", "read", "sum"} => mPc' = mPc, mPc' = "sum" => mI' = mI /\ mMerr' = mMerr
    PROVE  MemoryInv'
<1>1. \A w : Ref(mMode, mSeed, w)' = Ref(mMode, mSeed, w)
  BY RefsSame
<1>2. \A w : InMemory(w)' <=> InMemory(w)
  BY <1>1, CellsSame DEF InMemory
<1> QED
  BY <1>1, <1>2 DEF MemoryInv

\* The loop that writes: every word is in the cache or in its cell (memtest_simple and
\* the other tests).
LEMMA WriteHolds ==
    ASSUME MemoryInv, WritePass
    PROVE  MemoryInv'
<1>1. PICK C \in SUBSET {w \div LineWords : w \in Window} :
         LET ref == [w \in Window |-> Ref(mMode, mSeed, w)]
         IN  /\ mCache' = [w \in {w \in Window : w \div LineWords \in C} |-> ref[w]]
             /\ mMem' \in WrittenBack(ref, {w \in Window : w \div LineWords \notin C})
  BY DEF WritePass
<1> DEFINE ref == [w \in Window |-> Ref(mMode, mSeed, w)]
           W == {w \in Window : w \div LineWords \notin C}
<1>2. mPc' = "flush" /\ UNCHANGED <<mFault, mBus, mMode, mSeed>>
  BY DEF WritePass
<1>3. DOMAIN mCache' \subseteq Window /\ \A w \in DOMAIN mCache' : mCache'[w] = Ref(mMode, mSeed, w)
  BY <1>1
<1>4. ASSUME NEW w \in Window, w \notin DOMAIN mCache'
      PROVE  InMemory(w)'
  <2>1. w \in W /\ W \in SUBSET Window /\ Cell(w) \in Window
    BY <1>1, <1>4, CellType DEF MemoryInv
  <2> HIDE DEF W, ref
  <2>2. mMem' \in WrittenBack(ref, W)
    BY <1>1 DEF ref, W
  <2>3. PICK v \in W : Cell(v) = Cell(w) /\ mMem'[Cell(w)] = ref[v]
    BY <2>1, <2>2, WrittenBackHolds
  <2>4. v \in Window /\ mMem'[Cell(w)] = Ref(mMode, mSeed, v)
    BY <2>1, <2>3 DEF ref
  <2> QED
    BY <1>2, <2>3, <2>4, RefsSame, CellsSame DEF InMemory
<1>5. \A w : Ref(mMode, mSeed, w)' = Ref(mMode, mSeed, w)
  BY <1>2, RefsSame
<1> QED
  BY <1>2, <1>3, <1>4, <1>5 DEF MemoryInv

\* Then every word is in its cell (DCacheInvalidate).
LEMMA FlushHolds ==
    ASSUME MemoryInv, DCacheInvalidate
    PROVE  MemoryInv'
<1>1. /\ mPc = "flush" /\ mPc' = "read" /\ UNCHANGED <<mFault, mBus, mMode, mSeed>>
      /\ mMem' \in WrittenBack(mCache, DOMAIN mCache) /\ mCache' = NoWords
  BY DEF DCacheInvalidate
<1>2. ASSUME NEW w \in Window
      PROVE  InMemory(w)'
  <2>1. DOMAIN mCache \in SUBSET Window /\ Cell(w) \in Window
    BY <1>1, CellType DEF MemoryInv
  <2>2. CASE \E v \in DOMAIN mCache : Cell(v) = Cell(w)
    <3>1. PICK v \in DOMAIN mCache : Cell(v) = Cell(w) /\ mMem'[Cell(w)] = mCache[v]
      BY <1>1, <2>1, <2>2, WrittenBackHolds
    <3>2. v \in Window /\ mCache[v] = Ref(mMode, mSeed, v)
      BY <1>1, <2>1 DEF MemoryInv
    <3> QED
      BY <1>1, <3>1, <3>2, RefsSame, CellsSame DEF InMemory
  <2>3. CASE ~ \E v \in DOMAIN mCache : Cell(v) = Cell(w)
    <3>1. mMem'[Cell(w)] = mMem[Cell(w)]
      BY <1>1, <2>1, <2>3, WrittenBackHolds
    <3>2. InMemory(w)
      BY <1>1, <2>3 DEF MemoryInv
    <3> QED
      BY <1>1, <3>1, <3>2, RefsSame, CellsSame DEF InMemory
  <2> QED
    BY <2>2, <2>3
<1> QED
  BY <1>1, <1>2 DEF MemoryInv

\* A test shows the fault under a seed.
ShowsWith(m, s) ==
    \E i, j \in Window : Cell(i) = Cell(j) /\ Reads(j, Ref(m, s, i)) # Ref(m, s, j)

\* What a word reads while the test compares.
LEMMA WordReads ==
    ASSUME MemoryInv, mPc \in {"read", "sum"}, NEW w \in Window
    PROVE  \E v \in Window : Cell(v) = Cell(w) /\ Load(w) = Reads(w, Ref(mMode, mSeed, v))
<1>1. mCache = NoWords /\ InMemory(w)
  BY DEF MemoryInv
<1>2. Load(w) = Reads(w, mMem[Cell(w)])
  BY <1>1 DEF Load, NoWords
<1> QED
  BY <1>1, <1>2 DEF InMemory

\* A test that can show the fault meets a word in error, whichever of the words that
\* share a cell came last; any other test meets none.
LEMMA ErrorShown ==
    ASSUME MemoryInv, mPc \in {"read", "sum"}
    PROVE  (\E w \in Window : Load(w) # Ref(mMode, mSeed, w)) <=> ShowsWith(mMode, mSeed)
<1>1. ASSUME NEW w \in Window, Load(w) # Ref(mMode, mSeed, w)
      PROVE  ShowsWith(mMode, mSeed)
  <2>1. PICK v \in Window : Cell(v) = Cell(w) /\ Load(w) = Reads(w, Ref(mMode, mSeed, v))
    BY WordReads
  <2> QED
    BY <1>1, <2>1 DEF ShowsWith
<1>2. ASSUME ShowsWith(mMode, mSeed)
      PROVE  \E w \in Window : Load(w) # Ref(mMode, mSeed, w)
  <2>1. PICK i \in Window, j \in Window :
           Cell(i) = Cell(j) /\ Reads(j, Ref(mMode, mSeed, i)) # Ref(mMode, mSeed, j)
    BY <1>2 DEF ShowsWith
  <2>2. mFault.kind \in {"none", "stuck", "line", "dead"}
    BY FaultKinds DEF MemoryInv
  <2>3. CASE mFault.kind = "line"
    <3>1. \A w, v : Reads(w, v) = v
      BY <2>3 DEF Reads
    <3>2. mCache = NoWords /\ InMemory(i) /\ InMemory(j)
      BY DEF MemoryInv
    <3>3. Load(i) = mMem[Cell(i)] /\ Load(j) = mMem[Cell(i)]
      BY <2>1, <3>1, <3>2 DEF Load, NoWords
    <3>4. Ref(mMode, mSeed, i) # Ref(mMode, mSeed, j)
      BY <2>1, <3>1
    <3> QED
      BY <3>3, <3>4
  <2>4. CASE mFault.kind # "line"
    <3>1. \A w : Cell(w) = w
      BY <2>4 DEF Cell
    <3>2. i = j
      BY <2>1, <3>1
    <3>3. PICK v \in Window : Cell(v) = Cell(j) /\ Load(j) = Reads(j, Ref(mMode, mSeed, v))
      BY WordReads
    <3>4. v = j
      BY <3>1, <3>3
    <3> QED
      BY <2>1, <3>2, <3>3, <3>4
  <2> QED
    BY <2>3, <2>4
<1> QED
  BY <1>1, <1>2

\* The words in error are there when they are counted.
LEMMA CountedErrors ==
    ASSUME MemInv, mPc \in {"read", "sum"}
    PROVE  /\ IsFiniteSet(Bad) /\ mMerr = Cardinality(Bad) /\ mMerr \in Nat
           /\ mMerr > 0 <=> \E w \in 0 .. mI - 1 : Load(w) # Ref(mMode, mSeed, w)
<1>1. IsFiniteSet(Bad) /\ mMerr = Cardinality(Bad)
  BY FS_Subset DEF MemInv, ErrorsExact, Phases, CountsExact, Bad
<1>2. mMerr \in Nat
  BY <1>1, FS_CardinalityType
<1>3. mMerr = 0 <=> Bad = {}
  BY <1>1, FS_EmptySet
<1>4. Bad # {} <=> (\E w \in 0 .. mI - 1 : Load(w) # Ref(mMode, mSeed, w))
  <2>1. ASSUME NEW w \in 0 .. mI - 1, Load(w) # Ref(mMode, mSeed, w)
        PROVE  <<w, Load(w), Ref(mMode, mSeed, w)>> \in Bad
    BY <2>1 DEF Bad, Passed
  <2>2. ASSUME NEW p \in Bad
        PROVE  \E w \in 0 .. mI - 1 : Load(w) # Ref(mMode, mSeed, w)
    <3>1. PICK w \in 0 .. mI - 1 : p = <<w, Load(w), Ref(mMode, mSeed, w)>>
      BY DEF Bad, Passed
    <3>2. p[2] # p[3]
      BY DEF Bad
    <3> QED
      BY <3>1, <3>2
  <2> QED
    BY <2>1, <2>2
<1> QED
  BY <1>1, <1>2, <1>3, <1>4

\* A test that stops early has found errors (memtest_simple and the other tests).
LEMMA CompareHolds ==
    ASSUME MemInv, MemoryInv, ReadCompare
    PROVE  MemoryInv'
<1> USE MemTestAssumption
<1>1. UNCHANGED <<mMem, mCache, mFault, mBus, mMode, mSeed>> /\ mPc = "read" /\ mPc' \in {"read", "sum"}
  BY DEF ReadCompare
<1>2. \A w : Ref(mMode, mSeed, w)' = Ref(mMode, mSeed, w)
  BY <1>1, RefsSame
<1>3. \A w : InMemory(w)' <=> InMemory(w)
  BY <1>1, <1>2, CellsSame DEF InMemory
<1>4. mPc' = "sum" => mMerr' > 0
  <2>1. SUFFICES ASSUME mPc' = "sum" PROVE mMerr' > 0
    OBVIOUS
  <2>2. TooMany([l \in DOMAIN mLerr |->
           mLerr[l] + IF Lane(Load(mI), l) # Lane(Ref(mMode, mSeed, mI), l) THEN 1 ELSE 0])
    BY <2>1 DEF ReadCompare
  <2>3. 0 \in DOMAIN mLerr /\ mLerr[0] = Cardinality(BadIn(0))
    BY <1>1 DEF MemInv, ErrorsExact, Phases, CountsExact
  <2>4. mLerr[0] + (IF Lane(Load(mI), 0) # Lane(Ref(mMode, mSeed, mI), 0) THEN 1 ELSE 0) > ErrLimit
    BY <2>2, <2>3 DEF TooMany
  <2>5. mMerr \in Nat /\ IsFiniteSet(Bad) /\ mMerr = Cardinality(Bad)
    BY <1>1, CountedErrors
  <2>6. mMerr' = (IF Load(mI) = Ref(mMode, mSeed, mI) THEN mMerr ELSE mMerr + 1)
    BY DEF ReadCompare
  <2>7. CASE Load(mI) # Ref(mMode, mSeed, mI)
    BY <2>5, <2>6, <2>7
  <2>8. CASE Load(mI) = Ref(mMode, mSeed, mI)
    <3>1. Cardinality(BadIn(0)) \in Nat /\ Cardinality(BadIn(0)) <= mMerr
      BY <2>5, FS_Subset, FS_CardinalityType DEF BadIn
    <3>2. mLerr[0] > 0
      BY <2>3, <2>4, <2>8, <3>1
    <3> QED
      BY <2>3, <2>5, <2>6, <2>8, <3>1, <3>2
  <2> QED
    BY <2>7, <2>8
<1> QED
  BY <1>1, <1>2, <1>3, <1>4 DEF MemoryInv

\* At the end of a test its count is positive if and only if it can show the fault.
LEMMA TestFinds ==
    ASSUME MemInv, MemoryInv, mPc = "sum" \/ (mPc = "read" /\ mI = Size)
    PROVE  mMerr > 0 <=> ShowsWith(mMode, mSeed)
<1>1. mPc \in {"read", "sum"} /\ (mI = Size \/ mMerr > 0) /\ mI \in 0 .. Size
  BY DEF MemoryInv, MemInv, Phases
<1>2. mMerr > 0 <=> \E w \in 0 .. mI - 1 : Load(w) # Ref(mMode, mSeed, w)
  BY <1>1, CountedErrors
<1>3. (\E w \in Window : Load(w) # Ref(mMode, mSeed, w)) <=> ShowsWith(mMode, mSeed)
  BY <1>1, ErrorShown
<1>4. 0 .. mI - 1 \subseteq Window /\ (mI = Size => 0 .. mI - 1 = Window)
  BY <1>1, MemTestAssumption DEF Window
<1> QED
  BY <1>1, <1>2, <1>3, <1>4

\* A stuck bit puts its own word in error, once and in its own lane.
LEMMA StuckCount ==
    ASSUME MemInv, MemoryInv, mPc \in {"read", "sum"}, mFault.kind = "stuck"
    PROVE  \A l \in 0 .. Lanes - 1 :
              mLerr[l] = IF l = mFault.lane /\ mMerr > 0 THEN 1 ELSE 0
<1> DEFINE x   == mFault.word
           ref == Ref(mMode, mSeed, x)
           b   == <<x, Load(x), ref>>
<1>1. x \in Window /\ mFault.lane \in 0 .. Lanes - 1 /\ mFault.bit \in {0, 1}
  BY FaultKinds DEF MemoryInv
<1>2. \A w : Cell(w) = w
  BY DEF Cell
<1>3. \A w \in Window : Load(w) = Reads(w, Ref(mMode, mSeed, w))
  BY <1>2, WordReads
<1>4. \A w \in Window : w # x => Load(w) = Ref(mMode, mSeed, w)
  BY <1>3 DEF Reads
<1>5. Load(x) = ref + (mFault.bit - Lane(ref, mFault.lane)) * Pow2[mFault.lane]
  BY <1>1, <1>3 DEF Reads
<1>6. ref \in Int
  BY <1>1, RefType DEF MemoryInv, Window
<1> HIDE DEF ref
<1>7. Bad \subseteq {b}
  <2> SUFFICES ASSUME NEW w \in 0 .. mI - 1, Load(w) # Ref(mMode, mSeed, w)
               PROVE  <<w, Load(w), Ref(mMode, mSeed, w)>> = b
    BY DEF Bad, Passed
  <2>1. w \in Window
    BY MemTestAssumption DEF MemInv, Phases, Window
  <2> QED
    BY <1>4, <2>1 DEF ref
<1>8. IsFiniteSet(Bad) /\ mMerr = Cardinality(Bad) /\ mMerr \in Nat
  BY CountedErrors
<1>9. \A l \in 0 .. Lanes - 1 : mLerr[l] = Cardinality(BadIn(l))
  BY DEF MemInv, ErrorsExact, CountsExact
<1>10. b[2] = Load(x) /\ b[3] = ref
  OBVIOUS
<1> HIDE DEF x, b
<1>11. CASE Bad = {}
  <2>1. mMerr = 0 /\ \A l : BadIn(l) = {}
    BY <1>8, <1>11, FS_EmptySet DEF BadIn
  <2> QED
    BY <1>9, <2>1, FS_EmptySet
<1>12. CASE Bad # {}
  <2>1. Bad = {b} /\ Load(x) # ref
    BY <1>7, <1>10, <1>12 DEF Bad
  <2>2. Cardinality({b}) = 1
    BY FS_Singleton
  <2>3. Lane(ref, mFault.lane) # mFault.bit
    <3>1. SUFFICES ASSUME Lane(ref, mFault.lane) = mFault.bit PROVE FALSE
      OBVIOUS
    <3>2. mFault.bit - Lane(ref, mFault.lane) = 0 /\ Pow2[mFault.lane] \in Nat
      BY <1>1, <3>1, Pow2Positive
    <3>3. Load(x) = ref
      BY <1>5, <1>6, <3>2
    <3> QED
      BY <2>1, <3>3
  <2>4. /\ Lane(Load(x), mFault.lane) = mFault.bit
        /\ \A l \in Nat : l # mFault.lane => Lane(Load(x), l) = Lane(ref, l)
    BY <1>1, <1>5, <1>6, <2>3, OneBit
  <2>5. ASSUME NEW l \in 0 .. Lanes - 1
        PROVE  mLerr[l] = IF l = mFault.lane /\ mMerr > 0 THEN 1 ELSE 0
    <3>1. CASE l = mFault.lane
      <4>1. BadIn(l) = {b}
        BY <1>10, <2>1, <2>3, <2>4, <3>1 DEF BadIn
      <4>2. mLerr[l] = 1
        BY <1>9, <2>2, <4>1
      <4>3. mMerr = 1
        BY <1>8, <2>1, <2>2
      <4> QED
        BY <3>1, <4>2, <4>3
    <3>2. CASE l # mFault.lane
      <4>1. BadIn(l) = {}
        BY <1>10, <2>1, <2>4, <3>2 DEF BadIn
      <4> QED
        BY <1>9, <3>2, <4>1, FS_EmptySet
    <3> QED
      BY <3>1, <3>2
  <2> QED
    BY <2>5
<1> QED
  BY <1>11, <1>12

-----------------------------------------------------------------------------
(* The tests of a call, one after the other.                               *)

\* The tests that have been added up, and those that have chosen their seed.
Past  == IF mPc = "done" THEN 14 ELSE mMode - 1
Begun == IF mPc = "done" THEN 14 ELSE IF mPc \in {"idle", "next"} THEN mMode - 1 ELSE mMode

\* The random tests of this call up to n, each of which advances the seed.
Randoms(n) == Cardinality(mSel \cap (11 .. n))
SeedFrom(s, n) == (s + 3 * Randoms(n)) % Pow2[Lanes]

\* What has been reported, when s was the seed of the call.
Reported0(s) == {m \in mSel : m <= Past /\ ShowsWith(m, SeedFrom(s, m))}

RunInv ==
    /\ mSel \subseteq Modes
    /\ mSeed \in Values
    /\ mPc \in {"write", "flush", "read", "sum"} => mMode \in mSel
    /\ \E s \in Int : mSeed = SeedFrom(s, Begun) /\ mEpp = Reported0(s)
    /\ mFault.kind = "stuck" => mErr = [NoErrors EXCEPT ![mFault.lane] = Cardinality(mEpp)]

LEMMA Modulus == Pow2[Lanes] \in Nat /\ Pow2[Lanes] >= 1
BY Pow2Positive, MemTestAssumption

LEMMA ModularSum ==
    ASSUME NEW x \in Int, NEW y \in Int, NEW b \in Nat, b >= 1
    PROVE  ((x % b) + y) % b = (x + y) % b
<1> DEFINE q == x \div b
           r == x % b
           p == (r + y) \div b
           s == (r + y) % b
<1>1. q \in Int /\ r \in 0 .. b - 1 /\ x = b * q + r
  BY Division
<1> HIDE DEF q, r
<1>2. p \in Int /\ s \in 0 .. b - 1 /\ r + y = b * p + s
  <2> DEFINE z == r + y
  <2>1. z \in Int
    BY <1>1
  <2> HIDE DEF z
  <2>2. z \div b \in Int /\ z % b \in 0 .. b - 1 /\ z = b * (z \div b) + (z % b)
    BY <2>1, Division
  <2> QED
    BY <2>2 DEF z
<1> HIDE DEF p, s
<1>3. x + y = b * (q + p) + s
  <2>1. b * (q + p) = b * q + b * p
    BY <1>1, <1>2
  <2> QED
    BY <1>1, <1>2, <2>1
<1> DEFINE t == q + p
<1>4. t \in Int /\ x + y = b * t + s
  BY <1>1, <1>2, <1>3
<1> HIDE DEF t
<1>5. (x + y) % b = s
  BY <1>2, <1>4, DivisionUnique
<1> QED
  BY <1>5 DEF s, r

LEMMA RandomsType ==
    ASSUME NEW n \in Int
    PROVE  Randoms(n) \in Nat /\ IsFiniteSet(mSel \cap (11 .. n))
<1>1. IsFiniteSet(11 .. n)
  BY FS_Interval
<1>2. IsFiniteSet(mSel \cap (11 .. n))
  BY <1>1, FS_Subset
<1> QED
  BY <1>2, FS_CardinalityType DEF Randoms

LEMMA RandomsStep ==
    ASSUME NEW n \in Modes
    PROVE  Randoms(n) = Randoms(n - 1) + IF n \in mSel /\ n >= 11 THEN 1 ELSE 0
<1> DEFINE S == mSel \cap (11 .. n - 1)
<1>1. IsFiniteSet(S) /\ Cardinality(S) \in Nat
  BY RandomsType DEF Randoms, Modes
<1>2. CASE n \in mSel /\ n >= 11
  <2>1. mSel \cap (11 .. n) = S \cup {n} /\ n \notin S
    BY <1>2 DEF Modes
  <2> HIDE DEF S
  <2>2. Cardinality(S \cup {n}) = Cardinality(S) + 1
    BY <1>1, <2>1, CountOneMore
  <2> QED
    BY <1>2, <2>1, <2>2 DEF Randoms, S
<1>3. CASE ~(n \in mSel /\ n >= 11)
  <2>1. mSel \cap (11 .. n) = S
    BY <1>3 DEF Modes
  <2>2. Randoms(n) = Cardinality(S) /\ Randoms(n - 1) = Cardinality(S)
    BY <2>1 DEF Randoms
  <2> QED
    BY <1>1, <1>3, <2>2
<1> QED
  BY <1>2, <1>3

\* The seed that SeedOf works out from the last one is that of the test.
LEMMA SeedOfIs ==
    ASSUME NEW s \in Int, mSeed = SeedFrom(s, 14), NEW m \in Modes
    PROVE  SeedOf(m) = SeedFrom(s, m)
<1> DEFINE A == mSel \cap (11 .. m)
           B == Later(m)
           M == Pow2[Lanes]
<1>1. m \in Int /\ m <= 14
  BY DEF Modes
<1>2. IsFiniteSet(A) /\ IsFiniteSet(B)
  <2>1. IsFiniteSet(mSel \cap (11 .. 14))
    BY RandomsType
  <2> QED
    BY <1>1, <2>1, RandomsType, FS_Subset DEF Later
<1>3. A \cup B = mSel \cap (11 .. 14) /\ A \cap B = {}
  BY <1>1 DEF Later
<1> HIDE DEF A, B
<1>4. Cardinality(A \cup B) = Cardinality(A) + Cardinality(B) - Cardinality({})
  BY <1>2, <1>3, FS_Union
<1>5. Cardinality(A) \in Nat /\ Cardinality(B) \in Nat /\ Cardinality({}) = 0
  BY <1>2, FS_CardinalityType, FS_EmptySet
<1>6. Randoms(14) = Cardinality(A) + Cardinality(B) /\ Randoms(m) = Cardinality(A)
  <2>1. Randoms(14) = Cardinality(A \cup B)
    BY <1>3 DEF Randoms
  <2>2. Randoms(m) = Cardinality(A)
    BY DEF Randoms, A
  <2> QED
    BY <1>3, <1>4, <1>5, <2>1, <2>2
<1> DEFINE x == s + 3 * (Cardinality(A) + Cardinality(B))
           y == -(3 * Cardinality(B))
<1>7. x \in Int /\ y \in Int /\ x + y = s + 3 * Cardinality(A)
  BY <1>5
<1> HIDE DEF x, y, M
<1>8. mSeed = x % M
  BY <1>6 DEF SeedFrom, x, M
<1>9. ((x % M) + y) % M = (x + y) % M
  BY <1>7, Modulus, ModularSum DEF M
<1>10. SeedOf(m) = (mSeed - 3 * Cardinality(B)) % M
  BY DEF SeedOf, B, M
<1>11. mSeed - 3 * Cardinality(B) = (x % M) + y
  <2>1. x % M \in Int
    <3>1. M \in Nat /\ M >= 1
      BY Modulus DEF M
    <3> QED
      BY <1>7, <3>1, Division
  <2> QED
    BY <1>5, <1>8, <2>1 DEF y
<1> QED
  BY <1>6, <1>7, <1>9, <1>10, <1>11 DEF SeedFrom, M

LEMMA MemoryInitHolds == MemInit => MemoryInv /\ RunInv
<1> SUFFICES ASSUME MemInit PROVE MemoryInv /\ RunInv
  OBVIOUS
<1>1. MemoryInv
  BY MemTestAssumption DEF MemInit, MemoryInv, Modes
<1>2. mSeed = 0 /\ mSel = {} /\ mEpp = {} /\ mErr = NoErrors /\ mPc = "idle" /\ mMode = 0
  BY DEF MemInit
<1>3. 0 % Pow2[Lanes] = 0 /\ 0 \in Values
  <2>1. Pow2[Lanes] * 0 + 0 = 0 /\ 0 \in 0 .. Pow2[Lanes] - 1
    BY Modulus
  <2> QED
    BY <2>1, Modulus, DivisionUnique DEF Values
<1>4. Randoms(Begun) = 0
  BY <1>2, FS_EmptySet DEF Randoms
<1>5. mSeed = SeedFrom(0, Begun) /\ mEpp = Reported0(0)
  BY <1>2, <1>3, <1>4 DEF SeedFrom, Reported0
<1>6. mFault.kind = "stuck" => mErr = [NoErrors EXCEPT ![mFault.lane] = Cardinality(mEpp)]
  BY <1>1, <1>2, FS_EmptySet, FaultKinds DEF NoErrors, MemoryInv
<1> QED
  BY <1>1, <1>2, <1>3, <1>5, <1>6 DEF RunInv

\* Neither the fault nor the width of the bus changes.
LEMMA ShowsSame ==
    ASSUME UNCHANGED <<mFault, mBus>>
    PROVE  \A m, s : ShowsWith(m, s)' <=> ShowsWith(m, s)
<1>1. \A m, s, w : Ref(m, s, w)' = Ref(m, s, w)
  BY DEF Ref, SimpleWord, update_patterns
<1> QED
  BY <1>1, CellsSame DEF ShowsWith

\* A call begins with the seed that the last one left.
LEMMA CallRuns ==
    ASSUME RunInv, MemoryInv, memtest_all
    PROVE  RunInv' /\ MemoryInv'
<1>1. /\ mSel' \in Selections /\ mEpp' = {} /\ mErr' = NoErrors /\ mPc' = "next" /\ mMode' = 0
      /\ UNCHANGED <<mFault, mSeed>>
  BY DEF memtest_all
<1>2. mSel' \subseteq Modes
  BY <1>1, MemTestAssumption
<1>3. Begun' = -1 /\ Past' = -1
  BY <1>1 DEF Begun, Past
<1>4. Randoms(Begun)' = 0
  <2>1. (mSel \cap (11 .. Begun))' = {}
    BY <1>3
  <2> QED
    BY <2>1, FS_EmptySet DEF Randoms
<1>5. mSeed \in Values /\ mSeed \in Int /\ mSeed % Pow2[Lanes] = mSeed
  <2>1. mSeed \in 0 .. Pow2[Lanes] - 1
    BY DEF RunInv, Values
  <2>2. Pow2[Lanes] * 0 + mSeed = mSeed /\ mSeed \in Int
    BY <2>1, Modulus
  <2> QED
    BY <2>1, <2>2, Modulus, DivisionUnique DEF Values
<1> PICK s \in Int : s = mSeed
  BY <1>5
<1>6. mSeed' = SeedFrom(s, Begun)'
  <2>1. s + 3 * 0 = mSeed
    BY <1>5
  <2> QED
    BY <1>1, <1>4, <1>5, <2>1 DEF SeedFrom
<1>7. Reported0(s)' = {}
  <2>1. \A m \in mSel' : ~(m <= Past')
    BY <1>2, <1>3 DEF Modes
  <2> QED
    BY <2>1 DEF Reported0
<1>8. mFault'.kind = "stuck" => mErr' = [NoErrors EXCEPT ![mFault'.lane] = Cardinality(mEpp')]
  BY <1>1, FS_EmptySet, FaultKinds DEF NoErrors, MemoryInv
<1>9. RunInv'
  <2>1. mSeed' = SeedFrom(s, Begun)' /\ mEpp' = Reported0(s)'
    BY <1>1, <1>6, <1>7
  <2> QED
    BY <1>1, <1>2, <1>5, <1>8, <2>1 DEF RunInv
<1>10. MemoryInv'
  BY <1>1 DEF MemoryInv, Modes
<1> QED
  BY <1>9, <1>10

\* The steps of a test leave the account of the tests alone.
LEMMA TestRuns ==
    ASSUME RunInv, WritePass \/ DCacheInvalidate \/ ReadCompare
    PROVE  RunInv'
<1>1. /\ UNCHANGED <<mSel, mSeed, mFault, mBus, mMode, mErr, mEpp>>
      /\ mPc \in {"write", "flush", "read"} /\ mPc' \in {"flush", "read", "sum"}
  BY DEF WritePass, DCacheInvalidate, ReadCompare
<1>2. Begun' = Begun /\ Past' = Past
  BY <1>1 DEF Begun, Past
<1>3. PICK s \in Int : mSeed = SeedFrom(s, Begun) /\ mEpp = Reported0(s)
  BY DEF RunInv
<1>4. \A n : SeedFrom(s, n)' = SeedFrom(s, n)
  BY <1>1 DEF SeedFrom, Randoms
<1>5. Reported0(s)' = Reported0(s)
  BY <1>1, <1>2, <1>4, ShowsSame DEF Reported0
<1>6. mSeed' = SeedFrom(s, Begun)' /\ mEpp' = Reported0(s)'
  BY <1>1, <1>2, <1>3, <1>4, <1>5
<1> QED
  BY <1>1, <1>6 DEF RunInv

\* A random test advances the seed; a test that is not selected changes nothing.
LEMMA NextRuns ==
    ASSUME RunInv, MemoryInv, NextTest
    PROVE  RunInv' /\ MemoryInv'
<1>1. /\ UNCHANGED <<mSel, mFault, mBus, mErr, mEpp>> /\ mPc = "next"
      /\ mMode \in Modes /\ mSel \subseteq Modes
  BY DEF NextTest, RunInv, MemoryInv
<1>2. Begun = mMode - 1 /\ Past = mMode - 1
  BY <1>1 DEF Begun, Past
<1>3. Begun' = mMode /\ Past' = IF mMode \in mSel THEN mMode - 1 ELSE mMode
  <2>1. CASE mMode \in mSel
    BY <2>1 DEF NextTest, Begun, Past
  <2>2. CASE mMode \notin mSel
    <3>1. mPc' = IF mMode = 14 THEN "done" ELSE "next"
      BY <2>2 DEF NextTest
    <3>2. mMode' = IF mMode = 14 THEN 14 ELSE mMode + 1
      BY <2>2 DEF NextTest
    <3>3. CASE mMode = 14
      BY <2>2, <3>1, <3>3 DEF Begun, Past
    <3>4. CASE mMode # 14
      BY <1>1, <2>2, <3>1, <3>2, <3>4 DEF Begun, Past, Modes
    <3> QED
      BY <3>3, <3>4
  <2> QED
    BY <2>1, <2>2
<1>4. PICK s \in Int : mSeed = SeedFrom(s, Begun) /\ mEpp = Reported0(s)
  BY DEF RunInv
<1>5. \A n : SeedFrom(s, n)' = SeedFrom(s, n)
  BY <1>1 DEF SeedFrom, Randoms
<1> DEFINE M == Pow2[Lanes]
           x == s + 3 * Randoms(mMode - 1)
<1>6. Randoms(mMode - 1) \in Nat /\ Randoms(mMode) \in Nat /\ x \in Int
  <2>1. mMode \in Int /\ mMode - 1 \in Int
    BY <1>1 DEF Modes
  <2>2. Randoms(mMode - 1) \in Nat /\ Randoms(mMode) \in Nat
    BY <2>1, RandomsType
  <2> QED
    BY <2>2
<1>7. Randoms(mMode) = Randoms(mMode - 1) + IF mMode \in mSel /\ mMode >= 11 THEN 1 ELSE 0
  BY <1>1, RandomsStep
<1>8. mSeed = x % M
  BY <1>2, <1>4 DEF SeedFrom
<1> HIDE DEF x, M
<1>9. mSeed' = IF mMode \in mSel /\ mMode >= 11 THEN (mSeed + 3) % M ELSE mSeed
  BY DEF NextTest, M
<1>10. mSeed' = SeedFrom(s, mMode)
  <2>1. CASE mMode \in mSel /\ mMode >= 11
    <3>1. s + 3 * Randoms(mMode) = x + 3
      BY <1>6, <1>7, <2>1 DEF x
    <3>2. ((x % M) + 3) % M = (x + 3) % M
      BY <1>6, Modulus, ModularSum DEF M
    <3> QED
      BY <1>8, <1>9, <2>1, <3>1, <3>2 DEF SeedFrom, M
  <2>2. CASE ~(mMode \in mSel /\ mMode >= 11)
    <3>1. Randoms(mMode) = Randoms(mMode - 1)
      BY <1>6, <1>7, <2>2
    <3> QED
      BY <1>8, <1>9, <2>2, <3>1 DEF SeedFrom, x, M
  <2> QED
    BY <2>1, <2>2
<1>11. mSeed' \in Values
  <2>1. s + 3 * Randoms(mMode) \in Int
    BY <1>6
  <2>2. (s + 3 * Randoms(mMode)) % M \in 0 .. M - 1
    BY <2>1, Modulus, Division DEF M
  <2> QED
    BY <1>10, <2>2 DEF SeedFrom, M, Values
<1>12. Reported0(s)' = Reported0(s)
  <2>1. \A m \in mSel : m <= Past' <=> m <= Past
    <3>1. CASE mMode \in mSel
      BY <1>2, <1>3, <3>1
    <3>2. CASE mMode \notin mSel
      BY <1>1, <1>2, <1>3, <3>2 DEF Modes
    <3> QED
      BY <3>1, <3>2
  <2> QED
    BY <1>1, <1>5, <2>1, ShowsSame DEF Reported0
<1>13. mPc' \in {"write", "next", "done"} /\ (mPc' = "write" => mMode' \in mSel')
  BY <1>1 DEF NextTest
<1>14. RunInv'
  <2>1. mSeed' = SeedFrom(s, Begun)' /\ mEpp' = Reported0(s)'
    BY <1>1, <1>3, <1>4, <1>5, <1>10, <1>12
  <2> QED
    BY <1>1, <1>11, <1>13, <2>1 DEF RunInv
<1>15. MemoryInv'
  <2>1. mMode' \in Modes
    BY <1>1 DEF NextTest, Modes
  <2>2. mSeed' \in Int
    BY <1>11, Modulus DEF Values
  <2> QED
    BY <1>1, <1>13, <2>1, <2>2 DEF MemoryInv
<1> QED
  BY <1>14, <1>15

LEMMA ModesFinite == IsFiniteSet(Modes)
<1>1. 0 \in Int /\ 14 \in Int
  OBVIOUS
<1> QED
  BY <1>1, FS_Interval DEF Modes

\* The end of a test: it is reported if it can show the fault, and what a stuck bit has
\* added is one in its own lane.
LEMMA SumRuns ==
    ASSUME MemInv, RunInv, MemoryInv, AddUp
    PROVE  RunInv' /\ MemoryInv'
<1>1. /\ UNCHANGED <<mSel, mSeed, mFault, mBus>> /\ mPc \in {"read", "sum"}
      /\ mMode \in Modes /\ mSel \subseteq Modes /\ mMode \in mSel
  BY DEF AddUp, RunInv, MemoryInv
<1>2. Begun = mMode /\ Past = mMode - 1
  BY <1>1 DEF Begun, Past
<1>3. Begun' = mMode /\ Past' = mMode /\ mPc' \in {"next", "done"} /\ mMode' \in Modes
  <2>1. mPc' = IF mMode = 14 THEN "done" ELSE "next"
    BY DEF AddUp
  <2>2. mMode' = IF mMode = 14 THEN 14 ELSE mMode + 1
    BY DEF AddUp
  <2>3. CASE mMode = 14
    BY <2>1, <2>2, <2>3 DEF Begun, Past, Modes
  <2>4. CASE mMode # 14
    BY <1>1, <2>1, <2>2, <2>4 DEF Begun, Past, Modes
  <2> QED
    BY <2>3, <2>4
<1>4. PICK s \in Int : mSeed = SeedFrom(s, Begun) /\ mEpp = Reported0(s)
  BY DEF RunInv
<1>5. \A n : SeedFrom(s, n)' = SeedFrom(s, n)
  BY <1>1 DEF SeedFrom, Randoms
<1>6. mMerr > 0 <=> ShowsWith(mMode, SeedFrom(s, mMode))
  <2>1. mMerr > 0 <=> ShowsWith(mMode, mSeed)
    BY TestFinds DEF AddUp
  <2> QED
    BY <1>2, <1>4, <2>1
<1>7. mEpp' = IF mMerr > 0 THEN mEpp \cup {mMode} ELSE mEpp
  BY DEF AddUp
<1>8. mEpp' = Reported0(s)'
  <2>1. Reported0(s)' = {m \in mSel : m <= mMode /\ ShowsWith(m, SeedFrom(s, m))}
    BY <1>1, <1>3, <1>5, ShowsSame DEF Reported0
  <2>2. Reported0(s) = {m \in mSel : m <= mMode - 1 /\ ShowsWith(m, SeedFrom(s, m))}
    BY <1>2 DEF Reported0
  <2>3. \A m \in mSel : m <= mMode <=> (m <= mMode - 1 \/ m = mMode)
    BY <1>1 DEF Modes
  <2> QED
    BY <1>1, <1>4, <1>6, <1>7, <2>1, <2>2, <2>3
<1>9. mFault.kind = "stuck" => mErr' = [NoErrors EXCEPT ![mFault.lane] = Cardinality(mEpp')]
  <2> SUFFICES ASSUME mFault.kind = "stuck"
               PROVE  mErr' = [NoErrors EXCEPT ![mFault.lane] = Cardinality(mEpp')]
    OBVIOUS
  <2>1. mErr = [NoErrors EXCEPT ![mFault.lane] = Cardinality(mEpp)]
    BY DEF RunInv
  <2>2. \A l \in 0 .. Lanes - 1 : mLerr[l] = IF l = mFault.lane /\ mMerr > 0 THEN 1 ELSE 0
    BY <1>1, StuckCount
  <2>3. mErr' = [l \in DOMAIN mErr |-> mErr[l] + mLerr[l]]
    BY DEF AddUp
  <2>4. IsFiniteSet(mEpp) /\ mMode \notin mEpp /\ Cardinality(mEpp) \in Nat
    <3>1. IsFiniteSet(Modes)
      BY ModesFinite
    <3>2. mEpp \subseteq Modes
      BY <1>1, <1>4 DEF Reported0
    <3>3. ~(mMode <= Past)
      BY <1>1, <1>2 DEF Modes
    <3>4. mMode \notin mEpp
      BY <1>4, <3>3 DEF Reported0
    <3> QED
      BY <3>1, <3>2, <3>4, FS_Subset, FS_CardinalityType
  <2>5. Cardinality(mEpp') = Cardinality(mEpp) + IF mMerr > 0 THEN 1 ELSE 0
    <3>1. Cardinality(mEpp \cup {mMode}) = Cardinality(mEpp) + 1
      BY <2>4, CountOneMore
    <3> QED
      BY <1>7, <2>4, <3>1
  <2> DEFINE c == Cardinality(mEpp)
             d == Cardinality(mEpp')
  <2>6. c \in Nat /\ d = c + (IF mMerr > 0 THEN 1 ELSE 0)
    BY <2>4, <2>5
  <2>7. mErr = [NoErrors EXCEPT ![mFault.lane] = c]
    BY <2>1
  <2> HIDE DEF c, d
  <2>8. mErr = [l \in 0 .. Lanes - 1 |-> IF l = mFault.lane THEN c ELSE 0]
    BY <2>7 DEF NoErrors
  <2>9. mErr' = [l \in 0 .. Lanes - 1 |-> IF l = mFault.lane THEN d ELSE 0]
    BY <2>2, <2>3, <2>6, <2>8
  <2>10. mErr' = [NoErrors EXCEPT ![mFault.lane] = d]
    BY <2>9 DEF NoErrors
  <2> QED
    BY <2>10 DEF d
<1>10. RunInv'
  <2>1. mSeed' = SeedFrom(s, Begun)' /\ mEpp' = Reported0(s)'
    BY <1>1, <1>2, <1>3, <1>4, <1>5, <1>8
  <2>2. mSeed' \in Values
    BY <1>1 DEF RunInv
  <2> QED
    BY <1>1, <1>3, <1>9, <2>1, <2>2 DEF RunInv
<1>11. MemoryInv'
  BY <1>1, <1>3 DEF MemoryInv
<1> QED
  BY <1>10, <1>11

\* What a call that has ended reports.
LEMMA Reports ==
    ASSUME RunInv
    PROVE  FaultFound
<1>1. ASSUME mPc = "done"
      PROVE  mEpp = {m \in mSel : Shows(m)}
  <2>1. Begun = 14 /\ Past = 14
    BY <1>1 DEF Begun, Past
  <2>2. PICK s \in Int : mSeed = SeedFrom(s, 14) /\ mEpp = Reported0(s)
    BY <2>1 DEF RunInv
  <2>3. \A m \in mSel : Shows(m) <=> ShowsWith(m, SeedFrom(s, m))
    BY <2>2, SeedOfIs DEF Shows, ShowsWith, RunInv
  <2>4. \A m \in mSel : m <= Past
    BY <2>1 DEF RunInv, Modes
  <2> QED
    BY <2>2, <2>3, <2>4 DEF Reported0
<1>2. mFault.kind = "stuck" => mErr = [NoErrors EXCEPT ![mFault.lane] = Cardinality(mEpp)]
  BY DEF RunInv
<1> QED
  BY <1>1, <1>2 DEF FaultFound

\* For any size of memory, number of lanes, cache line and error limit, any fault and
\* any selection of tests: memtest_all reports exactly the tests that can show the
\* fault, however the caches hold and write back the words, and blames a stuck bit on
\* its own byte lane (memtest_all and its fifteen tests).
THEOREM FaultAlwaysFound == MemSpec => []FaultFound
<1> DEFINE I == MemInv /\ MemoryInv /\ RunInv
<1>1. MemInit => I
  BY MemInitHolds, MemoryInitHolds
<1>2. I /\ [MemNext]_mVars => I'
  <2>1. I /\ [MemNext]_mVars => MemInv'
    BY MemInvStep
  <2>2. I /\ MemNext => MemoryInv' /\ RunInv'
    <3>1. I /\ ReadCompare => MemoryInv' /\ RunInv'
      BY CompareHolds, TestRuns
    <3>2. I /\ WritePass => MemoryInv' /\ RunInv'
      BY WriteHolds, TestRuns
    <3>3. I /\ DCacheInvalidate => MemoryInv' /\ RunInv'
      BY FlushHolds, TestRuns
    <3> QED
      BY <3>1, <3>2, <3>3, CallRuns, NextRuns, SumRuns DEF MemNext
  <2>3. I /\ UNCHANGED mVars => MemoryInv' /\ RunInv'
    <3> SUFFICES ASSUME I, UNCHANGED mVars PROVE MemoryInv' /\ RunInv'
      OBVIOUS
    <3>1. MemoryInv'
      BY MemorySame DEF mVars
    <3>2. PICK s \in Int : mSeed = SeedFrom(s, Begun) /\ mEpp = Reported0(s)
      BY DEF RunInv
    <3>3. \A n : SeedFrom(s, n)' = SeedFrom(s, n)
      BY DEF SeedFrom, Randoms, mVars
    <3>4. Begun' = Begun /\ Past' = Past
      BY DEF Begun, Past, mVars
    <3>5. Reported0(s)' = Reported0(s)
      BY <3>3, <3>4, ShowsSame DEF Reported0, mVars
    <3>6. mSeed' = SeedFrom(s, Begun)' /\ mEpp' = Reported0(s)'
      BY <3>2, <3>3, <3>4, <3>5 DEF mVars
    <3>7. RunInv'
      BY <3>6 DEF RunInv, mVars
    <3> QED
      BY <3>1, <3>7
  <2> QED
    BY <2>1, <2>2, <2>3
<1>3. I => FaultFound
  BY Reports
<1> QED
  BY <1>1, <1>2, <1>3, PTL DEF MemSpec

-----------------------------------------------------------------------------
(* The demo application: the command line.                                 *)

\* Row k holds the letters of w.
Holds(k, w) == \A n \in 1 .. Len(w) : dArgv[k][n - 1] = w[n]

\* Row k holds w as a string of C.
HoldsString(k, w) == Len(w) <= MaxLine /\ Holds(k, w) /\ dArgv[k][Len(w)] = Nul

\* While a line is read, argv holds the words so far: those that are complete as
\* strings, and the one that is being read.
Reading ==
    /\ dIgnore = FALSE /\ dSpace \in BOOLEAN
    /\ dWords \in Seq(Seq(Letters))
    /\ dArgc \in 0 .. MaxArg /\ dNum \in 0 .. MaxLine
    /\ Len(dWords) = (IF dSpace THEN dArgc ELSE dArgc + 1)
    /\ dNum = (IF dSpace THEN 0 ELSE Len(dWords[dArgc + 1]))
    /\ ~dSpace => dNum > 0 /\ Holds(dArgc, dWords[dArgc + 1])
    /\ \A k \in 1 .. dArgc : HoldsString(k - 1, dWords[k])
    /\ dArgc < MaxArg => dArgv[MaxArg] = Rows(Junk)[MaxArg]
    /\ DOMAIN dArgv = 0 .. MaxArg
    /\ \A k \in 0 .. MaxArg : DOMAIN dArgv[k] = 0 .. MaxLine

\* The inductive invariant behind LineParsed.
DemoInv ==
    /\ dPc \in {"prompt", "read", "run"}
    /\ dPc = "read" => Reading
    /\ LineParsed

\* What is read out of a row.
StringIn(row) ==
    LET ends == {n \in 0 .. MaxLine : row[n] = Nul}
        len  == IF ends = {} THEN MaxLine + 1 ELSE CHOOSE n \in ends : \A m \in ends : n <= m
    IN  [n \in 1 .. len |-> row[n - 1]]

\* A row that holds a string is read back as that string.
LEMMA StringReadBack ==
    ASSUME NEW row, NEW w \in Seq(Letters), Len(w) <= MaxLine,
           \A n \in 1 .. Len(w) : row[n - 1] = w[n], row[Len(w)] = Nul
    PROVE  StringIn(row) = w
<1> DEFINE ends == {n \in 0 .. MaxLine : row[n] = Nul}
<1> USE DemoAssumption
<1>1. Len(w) \in Nat /\ w = [n \in 1 .. Len(w) |-> w[n]]
  OBVIOUS
<1>2. Len(w) \in ends
  BY <1>1
<1>3. ASSUME NEW n \in ends
      PROVE  Len(w) <= n
  <2>1. SUFFICES ASSUME n < Len(w) PROVE FALSE
    BY <1>1
  <2>2. n + 1 \in 1 .. Len(w) /\ (n + 1) - 1 = n
    BY <1>1, <2>1
  <2>3. row[(n + 1) - 1] = w[n + 1] /\ w[n + 1] \in Letters
    BY <2>2
  <2> QED
    BY <2>2, <2>3 DEF Nul
<1>4. (CHOOSE n \in ends : \A m \in ends : n <= m) = Len(w)
  BY <1>1, <1>2, <1>3
<1>5. StringIn(row) = [n \in 1 .. Len(w) |-> row[n - 1]]
  BY <1>2, <1>4 DEF StringIn
<1> QED
  BY <1>1, <1>5

LEMMA ArgOfStringNext ==
    ASSUME NEW k \in 0 .. MaxArg, NEW w \in Seq(Letters), HoldsString(k, w)'
    PROVE  Arg(k)' = w
<1>1. Arg(k)' = StringIn(dArgv'[k])
  BY DEF Arg, StringIn
<1> QED
  BY <1>1, StringReadBack DEF HoldsString, Holds

LEMMA DemoInitHolds == DemoInit => DemoInv
BY DEF DemoInit, DemoInv, LineParsed

\* A line begins.
LEMMA LineBegins ==
    ASSUME get_input
    PROVE  DemoInv'
<1>1. dWords' \in Seq(Seq(Letters)) /\ Len(dWords') = 0
  BY DEF get_input
<1>2. dArgv' = Rows(Junk)
  BY DEF get_input
<1> QED
  BY <1>1, <1>2, DemoAssumption DEF get_input, DemoInv, Reading, LineParsed, Rows

\* The words that a letter makes.
LEMMA ExtendedIs ==
    ASSUME Reading, NEW c \in Letters
    PROVE  /\ Extended(c) \in Seq(Seq(Letters))
           /\ Len(Extended(c)) = dArgc + 1
           /\ \A k \in 1 .. dArgc : Extended(c)[k] = dWords[k]
           /\ Len(Extended(c)[dArgc + 1]) = dNum + 1
           /\ Extended(c)[dArgc + 1][dNum + 1] = c
           /\ ~dSpace => \A n \in 1 .. dNum : Extended(c)[dArgc + 1][n] = dWords[dArgc + 1][n]
<1> USE DemoAssumption
<1>1. c # Space
  BY DEF Space
<1>2. dArgc \in Nat /\ dWords \in Seq(Seq(Letters))
  BY DEF Reading
<1>3. CASE dSpace = TRUE
  <2>1. Extended(c) = Append(dWords, <<c>>) /\ Len(dWords) = dArgc /\ dNum = 0
    BY <1>1, <1>3 DEF Extended, Reading
  <2>2. <<c>> \in Seq(Letters) /\ Len(<<c>>) = 1 /\ <<c>>[1] = c
    OBVIOUS
  <2> QED
    BY <1>2, <1>3, <2>1, <2>2
<1>4. CASE dSpace = FALSE
  <2> DEFINE w == dWords[dArgc + 1]
  <2>1. /\ Extended(c) = [dWords EXCEPT ![Len(dWords)] = Append(@, c)]
        /\ Len(dWords) = dArgc + 1 /\ dNum = Len(w)
    BY <1>1, <1>4 DEF Extended, Reading
  <2>2. w \in Seq(Letters)
    BY <1>2, <2>1
  <2>3. /\ Append(w, c) \in Seq(Letters) /\ Len(Append(w, c)) = Len(w) + 1
        /\ Append(w, c)[Len(w) + 1] = c /\ \A n \in 1 .. Len(w) : Append(w, c)[n] = w[n]
    BY <2>2
  <2>4. Extended(c) = [dWords EXCEPT ![dArgc + 1] = Append(w, c)]
    BY <2>1
  <2> HIDE DEF w
  <2>5. /\ Extended(c) \in Seq(Seq(Letters)) /\ Len(Extended(c)) = dArgc + 1
        /\ Extended(c)[dArgc + 1] = Append(w, c)
        /\ \A k \in 1 .. dArgc : Extended(c)[k] = dWords[k]
    BY <1>2, <2>1, <2>3, <2>4
  <2> QED
    BY <2>1, <2>3, <2>5 DEF w
<1> QED
  BY <1>3, <1>4 DEF Reading

\* A letter is added to a word, begins one, or is too many (get_input).
LEMMA LetterStep ==
    ASSUME Reading, dPc = "read", NEW c \in Letters, Letter(c)
    PROVE  DemoInv'
<1> USE DemoAssumption
<1> DEFINE W == Extended(c)
<1>1. /\ W \in Seq(Seq(Letters)) /\ Len(W) = dArgc + 1
      /\ \A k \in 1 .. dArgc : W[k] = dWords[k]
      /\ Len(W[dArgc + 1]) = dNum + 1 /\ W[dArgc + 1][dNum + 1] = c
      /\ ~dSpace => \A n \in 1 .. dNum : W[dArgc + 1][n] = dWords[dArgc + 1][n]
  BY ExtendedIs
<1>2. dWords' = W /\ dSpace' = FALSE
  BY DEF Letter
<1>3. dArgc \in 0 .. MaxArg /\ dNum \in 0 .. MaxLine
  BY DEF Reading
<1> HIDE DEF W
<1>4. CASE dNum < MaxLine
  <2>1. dArgv' = Stored(c) /\ dNum' = dNum + 1 /\ dPc' = "read" /\ dArgc' = dArgc
        /\ dIgnore' = FALSE
    BY <1>4 DEF Letter, Reading
  <2>2. DOMAIN dArgv = 0 .. MaxArg /\ \A k \in 0 .. MaxArg : DOMAIN dArgv[k] = 0 .. MaxLine
    BY DEF Reading
  <2>3. /\ DOMAIN dArgv' = 0 .. MaxArg
        /\ \A k \in 0 .. MaxArg : DOMAIN dArgv'[k] = 0 .. MaxLine
        /\ \A k \in 0 .. MaxArg : k # dArgc => dArgv'[k] = dArgv[k]
        /\ \A n \in 0 .. MaxLine :
              dArgv'[dArgc][n] = (IF n = dNum THEN c ELSE dArgv[dArgc][n])
    BY <1>3, <2>1, <2>2 DEF Stored
  <2>4. ASSUME NEW k \in 1 .. dArgc'
        PROVE  HoldsString(k - 1, dWords[k])'
    <3>1. HoldsString(k - 1, dWords[k]) /\ k - 1 \in 0 .. MaxArg /\ k - 1 # dArgc
      BY <1>3, <2>1 DEF Reading
    <3>2. dArgv'[k - 1] = dArgv[k - 1] /\ dWords'[k] = dWords[k]
      BY <1>1, <1>2, <2>1, <2>3, <3>1
    <3> QED
      BY <3>1, <3>2 DEF HoldsString, Holds
  <2>5. Holds(dArgc, dWords[dArgc + 1])'
    <3> SUFFICES ASSUME NEW n \in 1 .. dNum + 1
                 PROVE  dArgv'[dArgc][n - 1] = W[dArgc + 1][n]
      BY <1>1, <1>2, <2>1 DEF Holds
    <3>1. n - 1 \in 0 .. MaxLine /\ n - 1 \in 0 .. dNum
      BY <1>3, <1>4
    <3>2. CASE n = dNum + 1
      BY <1>1, <1>3, <2>3, <3>1, <3>2
    <3>3. CASE n # dNum + 1
      <4>1. n \in 1 .. dNum /\ dArgv'[dArgc][n - 1] = dArgv[dArgc][n - 1]
        BY <1>3, <2>3, <3>1, <3>3
      <4>2. dSpace = FALSE /\ dNum = Len(dWords[dArgc + 1])
        BY <1>3, <4>1 DEF Reading
      <4> QED
        BY <1>1, <4>1, <4>2 DEF Reading, Holds
    <3> QED
      BY <3>2, <3>3
  <2>6. dArgc' < MaxArg => dArgv'[MaxArg] = Rows(Junk)[MaxArg]
    <3>1. dArgc < MaxArg => dArgv'[MaxArg] = dArgv[MaxArg]
      BY <1>3, <2>3
    <3> QED
      BY <2>1, <3>1 DEF Reading
  <2>7. /\ dArgc' \in 0 .. MaxArg /\ dNum' \in 0 .. MaxLine /\ dNum' > 0
        /\ Len(dWords') = dArgc' + 1 /\ dNum' = Len(dWords'[dArgc' + 1])
    BY <1>1, <1>2, <1>3, <1>4, <2>1
  <2>8. Reading'
    BY <1>1, <1>2, <2>1, <2>3, <2>4, <2>5, <2>6, <2>7 DEF Reading
  <2> QED
    BY <2>1, <2>8 DEF DemoInv, LineParsed
<1>5. CASE ~(dNum < MaxLine)
  <2>1. dPc' = "run" /\ dIgnore' = TRUE /\ dArgc' = 0
    BY <1>5 DEF Letter, Ignored
  <2>2. ~Fits'
    <3>1. dArgc + 1 \in DOMAIN dWords' /\ Len(dWords'[dArgc + 1]) > MaxLine
      BY <1>1, <1>2, <1>3, <1>5
    <3> QED
      BY <3>1 DEF Fits
  <2> QED
    BY <2>1, <2>2 DEF DemoInv, LineParsed
<1> QED
  BY <1>4, <1>5

\* A terminator ends the word that is being read.
LEMMA TerminatorStored ==
    ASSUME Reading, dSpace = FALSE, dArgv' = Stored(Nul), dWords' = dWords
    PROVE  /\ \A k \in 1 .. dArgc + 1 : Len(dWords[k]) <= MaxLine /\ HoldsString(k - 1, dWords[k])'
           /\ dArgc < MaxArg => dArgv'[MaxArg] = dArgv[MaxArg]
           /\ DOMAIN dArgv' = 0 .. MaxArg
           /\ \A k \in 0 .. MaxArg : DOMAIN dArgv'[k] = 0 .. MaxLine
<1> USE DemoAssumption
<1>1. /\ dArgc \in 0 .. MaxArg /\ dNum \in 0 .. MaxLine /\ dNum = Len(dWords[dArgc + 1])
      /\ Holds(dArgc, dWords[dArgc + 1])
      /\ DOMAIN dArgv = 0 .. MaxArg /\ \A k \in 0 .. MaxArg : DOMAIN dArgv[k] = 0 .. MaxLine
  BY DEF Reading
<1>2. /\ DOMAIN dArgv' = 0 .. MaxArg
      /\ \A k \in 0 .. MaxArg : DOMAIN dArgv'[k] = 0 .. MaxLine
      /\ \A k \in 0 .. MaxArg : k # dArgc => dArgv'[k] = dArgv[k]
      /\ \A n \in 0 .. MaxLine :
            dArgv'[dArgc][n] = (IF n = dNum THEN Nul ELSE dArgv[dArgc][n])
  BY <1>1 DEF Stored
<1>3. ASSUME NEW k \in 1 .. dArgc
      PROVE  Len(dWords[k]) <= MaxLine /\ HoldsString(k - 1, dWords[k])'
  <2>1. HoldsString(k - 1, dWords[k])
    BY DEF Reading
  <2>2. k - 1 \in 0 .. MaxArg /\ k - 1 # dArgc
    BY <1>1
  <2>3. dArgv'[k - 1] = dArgv[k - 1]
    BY <1>2, <2>2
  <2> QED
    BY <2>1, <2>3 DEF HoldsString, Holds
<1>4. ASSUME NEW k \in {dArgc + 1}
      PROVE  HoldsString(k - 1, dWords[k])'
  <2>1. dWords'[k] = dWords[k] /\ Len(dWords[k]) = dNum /\ Holds(dArgc, dWords[k]) /\ k - 1 = dArgc
    BY <1>1
  <2>2. \A n \in 1 .. dNum : dArgv'[dArgc][n - 1] = dArgv[dArgc][n - 1]
    <3>1. \A n \in 1 .. dNum : n - 1 \in 0 .. MaxLine /\ n - 1 # dNum
      BY <1>1
    <3> QED
      BY <1>1, <1>2, <3>1
  <2>3. dArgv'[dArgc][dNum] = Nul
    BY <1>1, <1>2
  <2> QED
    BY <1>1, <2>1, <2>2, <2>3 DEF HoldsString, Holds
<1>5. 1 .. dArgc + 1 = (1 .. dArgc) \cup {dArgc + 1}
  BY <1>1
<1>6. dArgc < MaxArg => dArgv'[MaxArg] = dArgv[MaxArg]
  BY <1>1, <1>2
<1>7. Len(dWords[dArgc + 1]) <= MaxLine
  BY <1>1
<1> QED
  BY <1>2, <1>3, <1>4, <1>5, <1>6, <1>7

\* A space ends an argument, or is one argument too many (get_input).
LEMMA SpaceStep ==
    ASSUME Reading, EndOfArg
    PROVE  DemoInv'
<1> USE DemoAssumption
<1>1. dSpace = FALSE /\ dArgv' = Stored(Nul) /\ dWords' = dWords /\ dPc = "read"
  BY DEF EndOfArg, Reading
<1>2. /\ dArgc \in 0 .. MaxArg /\ dWords \in Seq(Seq(Letters)) /\ Len(dWords) = dArgc + 1
      /\ dArgc < MaxArg => dArgv[MaxArg] = Rows(Junk)[MaxArg]
      /\ dIgnore = FALSE
  BY <1>1 DEF Reading
<1>3. /\ \A k \in 1 .. dArgc + 1 : HoldsString(k - 1, dWords[k])'
      /\ dArgc < MaxArg => dArgv'[MaxArg] = dArgv[MaxArg]
      /\ DOMAIN dArgv' = 0 .. MaxArg
      /\ \A k \in 0 .. MaxArg : DOMAIN dArgv'[k] = 0 .. MaxLine
  BY <1>1, TerminatorStored
<1>4. CASE dArgc < MaxArg
  <2>1. /\ dArgc' = dArgc + 1 /\ dNum' = 0 /\ dSpace' = TRUE /\ dPc' = "read"
        /\ dIgnore' = FALSE
    BY <1>1, <1>2, <1>4 DEF EndOfArg
  <2>2. dArgc' \in 0 .. MaxArg /\ dNum' \in 0 .. MaxLine /\ Len(dWords') = dArgc'
    BY <1>1, <1>2, <1>4, <2>1
  <2>3. \A k \in 1 .. dArgc' : HoldsString(k - 1, dWords[k])'
    BY <1>3, <2>1
  <2>4. dArgv'[MaxArg] = Rows(Junk)[MaxArg]
    BY <1>2, <1>3, <1>4
  <2>5. Reading'
    BY <1>1, <1>2, <1>3, <2>1, <2>2, <2>3, <2>4 DEF Reading
  <2> QED
    BY <2>1, <2>5 DEF DemoInv, LineParsed
<1>5. CASE ~(dArgc < MaxArg)
  <2>1. dPc' = "run" /\ dIgnore' = TRUE /\ dArgc' = 0
    BY <1>5 DEF EndOfArg, Ignored
  <2>2. ~Fits'
    BY <1>1, <1>2, <1>5 DEF Fits
  <2> QED
    BY <2>1, <2>2 DEF DemoInv, LineParsed
<1> QED
  BY <1>4, <1>5

\* The carriage return (get_input).
LEMMA ReturnStep ==
    ASSUME Reading, EndOfLine
    PROVE  DemoInv'
<1> USE DemoAssumption
<1>1. /\ dArgv' = Stored(Nul) /\ dWords' = dWords /\ dPc' = "run" /\ dSpace' = dSpace
      /\ dArgc' = (IF dSpace THEN dArgc ELSE dArgc + 1) /\ dIgnore' = FALSE
  BY DEF EndOfLine, Reading
<1>2. /\ dArgc \in 0 .. MaxArg /\ dWords \in Seq(Seq(Letters)) /\ dSpace \in BOOLEAN
      /\ Len(dWords) = dArgc' /\ dNum \in 0 .. MaxLine
      /\ dArgc < MaxArg => dArgv[MaxArg] = Rows(Junk)[MaxArg]
  BY <1>1 DEF Reading
<1>3. ASSUME NEW k \in 1 .. dArgc'
      PROVE  HoldsString(k - 1, dWords[k])' /\ k - 1 \in 0 .. MaxArg
  <2>1. CASE dSpace = TRUE
    <3>1. k \in 1 .. dArgc /\ HoldsString(k - 1, dWords[k])
      BY <1>1, <2>1 DEF Reading
    <3>2. dArgv'[k - 1] = dArgv[k - 1]
      BY <1>1, <1>2, <3>1 DEF Stored, Reading
    <3> QED
      BY <1>1, <1>2, <3>1, <3>2 DEF HoldsString, Holds
  <2>2. CASE dSpace = FALSE
    <3>1. k \in 1 .. dArgc + 1
      BY <1>1, <2>2
    <3>2. k - 1 \in 0 .. MaxArg
      BY <1>2, <3>1
    <3>3. HoldsString(k - 1, dWords[k])'
      BY <1>1, <2>2, <3>1, TerminatorStored
    <3> QED
      BY <3>2, <3>3
  <2> QED
    BY <1>2, <2>1, <2>2
<1>4. ASSUME NEW k \in 1 .. dArgc'
      PROVE  Arg(k - 1)' = dWords'[k]
  <2>1. dWords'[k] \in Seq(Letters)
    BY <1>1, <1>2
  <2>2. HoldsString(k - 1, dWords[k])' /\ k - 1 \in 0 .. MaxArg
    BY <1>3
  <2> QED
    BY <2>1, <2>2, ArgOfStringNext
<1>5. dArgc' = Len(dWords') /\ dArgc' <= MaxArg + 1
  BY <1>1, <1>2
<1>6. ~Fits' => dArgc' = MaxArg + 1
  <2>1. \A k \in DOMAIN dWords' : Len(dWords'[k]) <= MaxLine
    BY <1>1, <1>2, <1>3 DEF HoldsString
  <2> QED
    BY <1>1, <1>2, <1>5, <2>1 DEF Fits
<1>7. Fits' /\ ~(Len(dWords') = MaxArg /\ dSpace') => dArgv'[MaxArg] = Rows(Junk)[MaxArg]
  <2> SUFFICES ASSUME Fits', ~(Len(dWords') = MaxArg /\ dSpace')
               PROVE  dArgv'[MaxArg] = Rows(Junk)[MaxArg]
    OBVIOUS
  <2>1. dArgc < MaxArg
    BY <1>1, <1>2 DEF Fits
  <2>2. dArgv'[MaxArg] = dArgv[MaxArg]
    BY <1>1, <1>2, <2>1 DEF Stored, Reading
  <2> QED
    BY <1>2, <2>1, <2>2
<1> QED
  BY <1>1, <1>4, <1>5, <1>6, <1>7 DEF DemoInv, LineParsed

LEMMA DemoInvStep == DemoInv /\ [DemoNext]_dVars => DemoInv'
<1>1. DemoInv /\ DemoNext => DemoInv'
  <2> SUFFICES ASSUME DemoInv, DemoNext PROVE DemoInv'
    OBVIOUS
  <2>1. CASE get_input
    BY <2>1, LineBegins
  <2>2. CASE EndOfArg
    BY <2>2, SpaceStep DEF DemoInv, EndOfArg
  <2>3. ASSUME NEW c \in Letters, Letter(c) PROVE DemoInv'
    BY <2>3, LetterStep DEF DemoInv, Letter
  <2>4. CASE EndOfLine
    BY <2>4, ReturnStep DEF DemoInv, EndOfLine
  <2>5. CASE Dispatch
    BY <2>5 DEF Dispatch, DemoInv, LineParsed
  <2> QED
    BY <2>1, <2>2, <2>3, <2>4, <2>5 DEF DemoNext
<1>2. DemoInv /\ UNCHANGED dVars => DemoInv'
  <2> SUFFICES ASSUME DemoInv, UNCHANGED dVars PROVE DemoInv'
    OBVIOUS
  <2>1. Reading => Reading'
    BY DEF dVars, Reading, HoldsString, Holds
  <2>2. LineParsed => LineParsed'
    <3>1. \A k : Arg(k)' = Arg(k)
      BY DEF dVars, Arg
    <3>2. Fits' <=> Fits
      BY DEF dVars, Fits
    <3> QED
      BY <3>1, <3>2 DEF dVars, LineParsed
  <2> QED
    BY <2>1, <2>2 DEF dVars, DemoInv
<1> QED
  BY <1>1, <1>2

\* For rows, lines and words of any length: every line that fits is taken word for
\* word, and nothing is written behind argv but in the case that LineParsed names
\* (get_input).
THEOREM LineAlwaysParsed == DemoSpec => []LineParsed
<1>1. DemoInv /\ [DemoNext]_dVars => DemoInv'
  BY DemoInvStep
<1>2. DemoInv => LineParsed
  BY DEF DemoInv
<1> QED
  BY <1>1, <1>2, DemoInitHolds, PTL DEF DemoSpec

-----------------------------------------------------------------------------
(* The demo application: the calls that it makes.                         *)

LEMMA PowerRecursion ==
    ASSUME NEW b \in Nat
    PROVE  /\ Power(b) \in [Nat -> Nat] /\ Power(b)[0] = 1
           /\ \A n \in Nat : Power(b)[n + 1] = b * Power(b)[n]
<1> DEFINE q == Power(b)
<1>1. q = [n \in Nat |-> IF n = 0 THEN 1 ELSE b * q[n - 1]]
  BY PowersExist DEF Power
<1> HIDE DEF q
<1>2. /\ q \in [Nat -> Nat] /\ q[0] = 1
      /\ \A n \in Nat : q[n + 1] = b * q[n]
  BY <1>1, PowersUnique
<1> QED
  BY <1>2 DEF q

LEMMA PowerPositive ==
    ASSUME NEW n \in Nat
    PROVE  Power(2)[n] \in Nat /\ Power(2)[n] >= 1
<1> DEFINE p == Power(2)
           Fails == {i \in Nat : ~(p[i] >= 1)}
<1>1. p \in [Nat -> Nat] /\ p[0] = 1 /\ \A i \in Nat : p[i + 1] = 2 * p[i]
  BY PowerRecursion
<1> HIDE DEF p
<1>2. Fails = {}
  <2>1. SUFFICES ASSUME Fails # {} PROVE FALSE
    OBVIOUS
  <2>2. PICK i \in Fails : \A j \in Fails : i <= j
    BY <2>1, LeastNumber
  <2>3. i - 1 \in Nat /\ i - 1 \notin Fails
    BY <1>1, <2>2
  <2>4. p[(i - 1) + 1] = 2 * p[i - 1] /\ (i - 1) + 1 = i
    BY <1>1, <2>3
  <2> QED
    BY <1>1, <2>2, <2>3, <2>4
<1> QED
  BY <1>1, <1>2 DEF p

\* A function by recursion over the places of a sequence.
Steps(g, n, s, F) == g[0] = s /\ \A k \in 1 .. n : g[k] = F[k][g[k - 1]]

LEMMA StepsExist ==
    ASSUME NEW N \in Nat, NEW S, NEW s \in S, NEW F, \A k \in 1 .. N : F[k] \in [S -> S]
    PROVE  \E g \in [0 .. N -> S] : Steps(g, N, s, F)
<1> DEFINE Is(g, n) == g[0] = s /\ \A k \in 1 .. n : g[k] = F[k][g[k - 1]]
           Fails == {n \in Nat : n <= N /\ ~ \E g \in [0 .. n -> S] : Is(g, n)}
<1>1. Fails = {}
  <2>1. SUFFICES ASSUME Fails # {} PROVE FALSE
    OBVIOUS
  <2>2. PICK i \in Fails : \A j \in Fails : i <= j
    BY <2>1, LeastNumber
  <2>3. i # 0
    <3> DEFINE g == [k \in 0 .. 0 |-> s]
    <3>1. g \in [0 .. 0 -> S] /\ Is(g, 0)
      OBVIOUS
    <3> QED
      BY <2>2, <3>1
  <2>4. i \in 1 .. N /\ i - 1 \in Nat /\ i - 1 \notin Fails
    <3>1. i \in Nat /\ i <= N
      BY <2>2
    <3> HIDE DEF Fails
    <3> QED
      BY <2>2, <2>3, <3>1
  <2>5. PICK g \in [0 .. i - 1 -> S] : Is(g, i - 1)
    BY <2>4
  <2> DEFINE h == [k \in 0 .. i |-> IF k = i THEN F[i][g[i - 1]] ELSE g[k]]
  <2>6. g[i - 1] \in S /\ F[i][g[i - 1]] \in S
    BY <2>4, <2>5
  <2>7. h \in [0 .. i -> S] /\ h[0] = s
    BY <2>4, <2>5, <2>6
  <2>8. ASSUME NEW k \in 1 .. i
        PROVE  h[k] = F[k][h[k - 1]]
    <3>1. k - 1 \in 0 .. i - 1 /\ k - 1 \in 0 .. i /\ k - 1 # i
      BY <2>4
    <3>2. h[k - 1] = g[k - 1]
      BY <3>1
    <3>3. CASE k = i
      BY <2>4, <3>2, <3>3
    <3>4. CASE k # i
      <4>1. k \in 1 .. i - 1 /\ h[k] = g[k]
        BY <2>4, <3>4
      <4> QED
        BY <2>5, <3>2, <4>1
    <3> QED
      BY <3>3, <3>4
  <2>9. Is(h, i)
    BY <2>7, <2>8
  <2> HIDE DEF h, Is
  <2>10. \E f \in [0 .. i -> S] : Is(f, i)
    BY <2>7, <2>9
  <2> QED
    BY <2>2, <2>10
<1> HIDE DEF Is
<1>2. \E g \in [0 .. N -> S] : Is(g, N)
  BY <1>1
<1> QED
  BY <1>2 DEF Is, Steps

\* The number of leading digits is well defined.
LEMMA LeadingIs ==
    ASSUME NEW word \in Seq(Nat), NEW base \in Nat
    PROVE  /\ Leading(word, base) \in 0 .. Len(word)
           /\ \A k \in 1 .. Leading(word, base) : word[k] < base
           /\ Leading(word, base) < Len(word) => word[Leading(word, base) + 1] >= base
<1> DEFINE N == Len(word)
           Ok(n) == /\ \A k \in 1 .. n : word[k] < base
                    /\ n < N => word[n + 1] >= base
           Ends == {n \in Nat : n = N \/ (n < N /\ word[n + 1] >= base)}
<1>1. N \in Nat /\ N \in Ends
  OBVIOUS
<1>2. PICK n \in Ends : \A m \in Ends : n <= m
  BY <1>1, LeastNumber
<1>3. n \in 0 .. N
  BY <1>1
<1>4. ASSUME NEW k \in 1 .. n PROVE word[k] < base
  <2>1. k - 1 \in Nat /\ k - 1 < n /\ (k - 1) + 1 = k /\ k \in 1 .. N
    BY <1>3
  <2>2. k - 1 \notin Ends
    BY <1>2, <2>1
  <2>3. word[k] \in Nat
    BY <2>1
  <2> QED
    BY <1>3, <2>1, <2>2, <2>3
<1>5. Ok(n)
  BY <1>1, <1>4
<1>6. \E m \in 0 .. N : Ok(m)
  BY <1>3, <1>5
<1> QED
  BY <1>6 DEF Leading

\* The loop over the digits, without the width of a word.
HornerOf(h, word, base) ==
    /\ h \in [0 .. Len(word) -> Nat] /\ h[0] = 0
    /\ \A k \in 1 .. Len(word) : h[k] = base * h[k - 1] + word[k]

LEMMA HornerExists ==
    ASSUME NEW word \in Seq(Nat), NEW base \in Nat
    PROVE  \E h : HornerOf(h, word, base)
<1> DEFINE N == Len(word)
           F == [k \in 1 .. N |-> [x \in Nat |-> base * x + word[k]]]
<1>1. N \in Nat
  OBVIOUS
<1>2. \A k \in 1 .. N : word[k] \in Nat
  OBVIOUS
<1>3. \A k \in 1 .. N : F[k] \in [Nat -> Nat]
  <2>1. ASSUME NEW k \in 1 .. N, NEW x \in Nat PROVE base * x + word[k] \in Nat
    BY <1>2
  <2> QED
    BY <2>1
<1>a. \A k \in 1 .. N : F[k] = [x \in Nat |-> base * x + word[k]]
  OBVIOUS
<1> HIDE DEF F
<1>4. PICK h \in [0 .. N -> Nat] : Steps(h, N, 0, F)
  BY <1>1, <1>3, StepsExist
<1>5. ASSUME NEW k \in 1 .. N PROVE h[k] = base * h[k - 1] + word[k]
  <2>1. k - 1 \in 0 .. N
    BY <1>1
  <2>2. h[k - 1] \in Nat
    BY <1>4, <2>1
  <2>3. F[k] = [x \in Nat |-> base * x + word[k]]
    BY <1>a
  <2>4. h[k] = F[k][h[k - 1]]
    BY <1>4 DEF Steps
  <2> QED
    BY <2>2, <2>3, <2>4
<1> QED
  BY <1>4, <1>5 DEF HornerOf, Steps

\* Sum is the last value of its recursion.
LEMMA SumIs ==
    ASSUME NEW word \in Seq(Nat), NEW base \in Nat, NEW len \in 0 .. Len(word)
    PROVE  \E s \in [0 .. len -> Nat] :
              /\ s[0] = 0 /\ Sum(word, len, base) = s[len]
              /\ \A n \in 1 .. len : s[n] = s[n - 1] + word[len + 1 - n] * Power(base)[n - 1]
<1> DEFINE T == [n \in 1 .. len |-> word[len + 1 - n] * Power(base)[n - 1]]
           is(s) == s = [n \in 0 .. len |-> IF n = 0 THEN 0
                                ELSE s[n - 1] + word[len + 1 - n] * Power(base)[n - 1]]
           c == CHOOSE s : is(s)
<1>1. len \in Nat /\ len \in 0 .. len
  OBVIOUS
<1>2. T \in [1 .. len -> Nat]
  <2>1. SUFFICES ASSUME NEW n \in 1 .. len
                 PROVE  word[len + 1 - n] * Power(base)[n - 1] \in Nat
    OBVIOUS
  <2>2. len + 1 - n \in 1 .. Len(word) /\ n - 1 \in Nat
    OBVIOUS
  <2>3. word[len + 1 - n] \in Nat
    BY <2>2
  <2>4. Power(base)[n - 1] \in Nat
    BY <2>2, PowerRecursion
  <2> QED
    BY <2>3, <2>4
<1> DEFINE F == [n \in 1 .. len |-> [x \in Nat |-> x + T[n]]]
<1>3. \A n \in 1 .. len : T[n] = word[len + 1 - n] * Power(base)[n - 1]
  OBVIOUS
<1> HIDE DEF T
<1>4. \A n \in 1 .. len : F[n] \in [Nat -> Nat]
  <2>1. ASSUME NEW n \in 1 .. len, NEW x \in Nat PROVE x + T[n] \in Nat
    BY <1>2
  <2> QED
    BY <2>1
<1>a. \A n \in 1 .. len : F[n] = [x \in Nat |-> x + T[n]]
  OBVIOUS
<1> HIDE DEF F
<1>5. PICK g \in [0 .. len -> Nat] : Steps(g, len, 0, F)
  BY <1>1, <1>4, StepsExist
<1>6. \A n \in 1 .. len : g[n] = g[n - 1] + T[n]
  <2>1. \A n \in 1 .. len : n - 1 \in 0 .. len
    OBVIOUS
  <2> QED
    BY <1>5, <1>a, <2>1 DEF Steps
<1>7. is(g)
  <2>1. \A n \in 0 .. len : n # 0 => n \in 1 .. len
    OBVIOUS
  <2>2. \A n \in 0 .. len : g[n] = IF n = 0 THEN 0
                                ELSE g[n - 1] + word[len + 1 - n] * Power(base)[n - 1]
    BY <1>3, <1>5, <1>6, <2>1 DEF Steps
  <2>3. DOMAIN g = 0 .. len
    BY <1>5
  <2> QED
    BY <2>2, <2>3
<1>8. is(c)
  BY <1>7
<1>9. Sum(word, len, base) = c[len]
  BY DEF Sum
<1> HIDE DEF c
<1>10. \A n \in 0 .. len : c[n] = IF n = 0 THEN 0 ELSE c[n - 1] + T[n]
  <2>1. \A n \in 0 .. len : c[n] = IF n = 0 THEN 0
                                ELSE c[n - 1] + word[len + 1 - n] * Power(base)[n - 1]
    BY <1>8
  <2>2. \A n \in 0 .. len : n # 0 => n \in 1 .. len
    OBVIOUS
  <2> QED
    BY <1>3, <2>1, <2>2
<1> HIDE DEF is
<1> DEFINE Fails == {n \in Nat : n <= len /\ c[n] # g[n]}
<1>11. Fails = {}
  <2>1. SUFFICES ASSUME Fails # {} PROVE FALSE
    OBVIOUS
  <2>2. PICK i \in Fails : \A j \in Fails : i <= j
    BY <2>1, LeastNumber
  <2>3. i \in 0 .. len
    BY <2>2
  <2>4. i # 0
    BY <1>5, <1>10, <2>2, <2>3 DEF Steps
  <2>5. i \in 1 .. len /\ i - 1 \in Nat /\ i - 1 <= len /\ i - 1 \notin Fails
    BY <2>2, <2>3, <2>4
  <2> QED
    BY <1>6, <1>10, <2>2, <2>3, <2>4, <2>5
<1>12. Sum(word, len, base) = g[len]
  BY <1>1, <1>9, <1>11
<1> QED
  BY <1>3, <1>5, <1>6, <1>12 DEF Steps

LEMMA Distribute ==
    ASSUME NEW a \in Nat, NEW b \in Nat, NEW c \in Nat, NEW d \in Nat
    PROVE  (a * b + c) * d = b * (a * d) + c * d
OBVIOUS

\* The loop over the first len digits computes their sum: what it has of the digits that
\* are left out, times a power of the base, and the sum of the last n.
LEMMA HornerIsSum ==
    ASSUME NEW word \in Seq(Nat), NEW base \in Nat, NEW len \in 0 .. Len(word),
           NEW h, HornerOf(h, word, base)
    PROVE  h[len] = Sum(word, len, base)
<1> DEFINE P == Power(base)
<1>1. P \in [Nat -> Nat] /\ P[0] = 1 /\ \A n \in Nat : P[n + 1] = base * P[n]
  BY PowerRecursion
<1>2. PICK s \in [0 .. len -> Nat] :
              /\ s[0] = 0 /\ Sum(word, len, base) = s[len]
              /\ \A n \in 1 .. len : s[n] = s[n - 1] + word[len + 1 - n] * P[n - 1]
  BY SumIs
<1> HIDE DEF P
<1>3. /\ h \in [0 .. Len(word) -> Nat] /\ h[0] = 0
      /\ \A k \in 1 .. Len(word) : h[k] = base * h[k - 1] + word[k]
  BY DEF HornerOf
<1>0. len \in Nat /\ Len(word) \in Nat /\ len <= Len(word)
  OBVIOUS
<1> DEFINE Meets(n) == h[len] = h[len - n] * P[n] + s[n]
           Fails == {n \in Nat : n <= len /\ ~Meets(n)}
<1>4. Meets(0)
  <2>1. len - 0 = len /\ len \in 0 .. Len(word)
    BY <1>0
  <2>2. h[len] \in Nat
    BY <1>3, <2>1
  <2>3. h[len - 0] = h[len]
    BY <2>1
  <2>4. h[len] * 1 + 0 = h[len]
    BY <2>2
  <2> QED
    BY <1>1, <1>2, <2>3, <2>4
<1>5. ASSUME NEW m \in Nat, m + 1 <= len, Meets(m)
      PROVE  Meets(m + 1)
  <2> DEFINE k == len - m
             i == m + 1
  <2>1. /\ k \in 1 .. Len(word) /\ k - 1 = len - i /\ len + 1 - i = k
        /\ i \in 1 .. len /\ i - 1 = m /\ m \in 0 .. len /\ k - 1 \in 0 .. Len(word)
    BY <1>0, <1>5
  <2>2. h[len] = h[k] * P[m] + s[m]
    BY <1>5
  <2>3. P[i] = base * P[m] /\ P[m] \in Nat
    BY <1>1
  <2> HIDE DEF k, i, Meets
  <2>4. h[k] = base * h[k - 1] + word[k] /\ h[k - 1] \in Nat /\ word[k] \in Nat
    <3>1. h[k] = base * h[k - 1] + word[k]
      BY <1>3, <2>1
    <3>2. h[k - 1] \in Nat
      BY <1>3, <2>1
    <3>3. word[k] \in Nat
      BY <2>1
    <3> QED
      BY <3>1, <3>2, <3>3
  <2>5. s[i] = s[m] + word[k] * P[m] /\ s[m] \in Nat
    <3>1. s[i] = s[i - 1] + word[len + 1 - i] * P[i - 1]
      BY <1>2, <2>1
    <3>2. s[m] \in Nat
      BY <1>2, <2>1
    <3>3. s[i - 1] = s[m] /\ P[i - 1] = P[m] /\ word[len + 1 - i] = word[k]
      BY <2>1
    <3> QED
      BY <3>1, <3>2, <3>3
  <2> DEFINE a == h[k - 1]
             c == word[k]
             d == P[m]
             x == a * (base * d)
             y == c * d
  <2>6. (base * a + c) * d = x + y /\ x \in Nat /\ y \in Nat
    <3> HIDE DEF a, c, d
    <3>1. a \in Nat /\ c \in Nat /\ d \in Nat
      BY <2>3, <2>4 DEF a, c, d
    <3>2. (a * base + c) * d = base * (a * d) + c * d /\ a * base = base * a
      BY <3>1, Distribute
    <3>3. base * (a * d) = a * (base * d)
      BY <3>1
    <3>4. base * d \in Nat
      BY <3>1
    <3>5. x \in Nat /\ y \in Nat
      BY <3>1, <3>4
    <3> QED
      BY <3>2, <3>3, <3>5
  <2>8. h[len] = (x + y) + s[m] /\ s[i] = s[m] + y /\ x = h[k - 1] * P[i]
    BY <2>2, <2>3, <2>4, <2>5, <2>6
  <2> HIDE DEF x, y, a, c, d
  <2>9. h[len] = x + s[i]
    BY <2>5, <2>6, <2>8
  <2>10. h[len] = h[len - i] * P[i] + s[i]
    BY <2>1, <2>8, <2>9 DEF a
  <2> QED
    BY <2>10 DEF Meets, i
<1> HIDE DEF Meets
<1>6. Fails = {}
  <2>1. SUFFICES ASSUME Fails # {} PROVE FALSE
    OBVIOUS
  <2>2. PICK i \in Fails : \A j \in Fails : i <= j
    BY <2>1, LeastNumber
  <2>3. i - 1 \in Nat /\ i - 1 \notin Fails /\ (i - 1) + 1 = i /\ i <= len
    BY <1>4, <2>2
  <2> QED
    BY <1>0, <1>5, <2>2, <2>3
<1>7. h[len] = h[0] * P[len] + s[len]
  <2>1. Meets(len) /\ len - len = 0
    BY <1>0, <1>6
  <2> QED
    BY <2>1 DEF Meets
<1>8. P[len] \in Nat /\ s[len] \in Nat
  BY <1>0, <1>1, <1>2
<1> QED
  BY <1>2, <1>3, <1>7, <1>8

\* Multiples of a modulus do not count.
LEMMA ModularMultiple ==
    ASSUME NEW M \in Nat, M >= 1, NEW t \in Int, NEW z \in Int
    PROVE  (M * t + z) % M = z % M
<1> DEFINE q == z \div M
           s == z % M
           u == t + q
<1>1. q \in Int /\ s \in 0 .. M - 1 /\ z = M * q + s
  BY Division
<1> HIDE DEF q, s
<1>2. u \in Int /\ M * u = M * t + M * q
  BY <1>1
<1> HIDE DEF u
<1>3. M * t + z = M * u + s
  <2>1. M * t \in Int /\ M * q \in Int /\ s \in Int
    BY <1>1
  <2> QED
    BY <1>1, <1>2, <2>1
<1>4. (M * u + s) % M = s
  BY <1>1, <1>2, DivisionUnique
<1> QED
  BY <1>3, <1>4 DEF s

\* A step of the loop over the digits may take the remainder before or after.
LEMMA ModularStep ==
    ASSUME NEW M \in Nat, M >= 1, NEW b \in Nat, NEW x \in Nat, NEW c \in Nat
    PROVE  (b * (x % M) + c) % M = (b * x + c) % M
<1> DEFINE q == x \div M
           r == x % M
           t == b * q
           z == b * r + c
<1>1. q \in Int /\ r \in 0 .. M - 1 /\ x = M * q + r
  BY Division
<1> HIDE DEF q, r
<1>2. t \in Int /\ z \in Int
  BY <1>1
<1>3. b * x = M * t + b * r
  <2>1. b * (M * q + r) = M * (b * q) + b * r
    BY <1>1
  <2> QED
    BY <1>1, <2>1
<1>4. b * x + c = M * t + z
  <2> DEFINE y == M * t
             w == b * r
  <2>1. y \in Int /\ w \in Int
    BY <1>1, <1>2
  <2>2. b * x = y + w /\ z = w + c
    BY <1>3
  <2> HIDE DEF y, w, z
  <2>3. b * x + c = y + z
    BY <2>1, <2>2
  <2> QED
    BY <2>3 DEF y
<1> HIDE DEF t, z
<1>5. (M * t + z) % M = z % M
  BY <1>2, ModularMultiple
<1> QED
  BY <1>4, <1>5 DEF z, r

\* The loop of get_hex and get_dec, which stops at the first other character and cuts
\* to the width of a word at each digit, computes the value of the leading digits.
LEMMA DigitsValue ==
    ASSUME NEW word \in Seq(Nat), NEW base \in Nat
    PROVE  Digits(word, base) = Value(word, base)
<1> DEFINE N == Len(word)
           L == Leading(word, base)
           M == Power(2)[WordBits]
           f == FALSE   \* opaque: a Boolean is not a value to the provers
           t == TRUE
           st(p, c) == IF p[2] \/ c >= base THEN <<p[1], t>>
                       ELSE <<(base * p[1] + c) % M, f>>
           is(v) == v = [n \in 0 .. N |-> IF n = 0 THEN <<0, f>> ELSE st(v[n - 1], word[n])]
           d == CHOOSE v : is(v)
<1>1. M \in Nat /\ M >= 1
  BY PowerPositive, DemoAssumption
<1>2. N \in Nat /\ L \in 0 .. N
  BY LeadingIs
<1>3. /\ \A k \in 1 .. L : word[k] < base
      /\ L < N => word[L + 1] >= base
  BY LeadingIs
<1>4. PICK h : HornerOf(h, word, base)
  BY HornerExists
<1>5. /\ h \in [0 .. N -> Nat] /\ h[0] = 0
      /\ \A k \in 1 .. N : h[k] = base * h[k - 1] + word[k]
  BY <1>4 DEF HornerOf
<1>6. \A k \in 1 .. N : word[k] \in Nat
  OBVIOUS
<1>7. Digits(word, base) = d[N][1]
  BY DEF Digits
<1> HIDE DEF L, M, f, t
<1> DEFINE g == [n \in 0 .. N |-> IF n <= L THEN <<h[n] % M, f>> ELSE <<h[L] % M, t>>]
<1>8. ASSUME NEW n \in 0 .. N
      PROVE  g[n] = IF n = 0 THEN <<0, f>> ELSE st(g[n - 1], word[n])
  <2>1. CASE n = 0
    <3>1. 0 % M = 0
      <4>1. (M * 0 + 0) % M = 0 /\ M * 0 + 0 = 0
        BY <1>1, DivisionUnique
      <4> QED
        BY <4>1
    <3>2. n <= L
      BY <1>2, <2>1
    <3> QED
      BY <1>5, <2>1, <3>1, <3>2
  <2>2. CASE n # 0 /\ n <= L
    <3>1. n \in 1 .. N /\ n \in 1 .. L /\ n - 1 \in 0 .. N /\ n - 1 <= L
      BY <1>2, <2>2
    <3>2. g[n - 1] = <<h[n - 1] % M, f>> /\ g[n] = <<h[n] % M, f>>
      BY <2>2, <3>1
    <3>3. h[n] = base * h[n - 1] + word[n] /\ h[n - 1] \in Nat /\ word[n] \in Nat
      BY <1>5, <1>6, <3>1
    <3>4. (base * (h[n - 1] % M) + word[n]) % M = h[n] % M
      <4> DEFINE x == h[n - 1]
                 c == word[n]
      <4>1. x \in Nat /\ c \in Nat
        BY <3>3
      <4> HIDE DEF x, c
      <4>2. (base * (x % M) + c) % M = (base * x + c) % M
        BY <1>1, <4>1, ModularStep
      <4> QED
        BY <3>3, <4>2 DEF x, c
    <3>5. ~(word[n] >= base)
      BY <1>3, <3>1, <3>3
    <3> HIDE DEF g
    <3>6. g[n - 1][1] = h[n - 1] % M /\ g[n - 1][2] = f
      BY <3>2
    <3>7. ~g[n - 1][2]
      BY <3>6, Zenon DEF f
    <3>8. st(g[n - 1], word[n]) = <<(base * (h[n - 1] % M) + word[n]) % M, f>>
      BY <3>5, <3>6, <3>7
    <3> QED
      BY <2>2, <3>2, <3>4, <3>8
  <2>3. CASE n # 0 /\ n = L + 1
    <3>1. n - 1 = L /\ n - 1 \in 0 .. N /\ L < N /\ ~(n <= L)
      BY <1>2, <2>3
    <3>2. g[n - 1] = <<h[L] % M, f>> /\ g[n] = <<h[L] % M, t>>
      BY <2>3, <3>1
    <3>3. word[n] >= base
      BY <1>3, <2>3, <3>1
    <3> HIDE DEF g
    <3>4. st(g[n - 1], word[n]) = <<h[L] % M, t>>
      <4>1. g[n - 1][1] = h[L] % M
        BY <3>2
      <4> QED
        BY <3>3, <4>1
    <3> QED
      BY <2>3, <3>2, <3>4
  <2>4. CASE n # 0 /\ n > L + 1
    <3>1. n - 1 \in 0 .. N /\ ~(n - 1 <= L) /\ ~(n <= L)
      BY <1>2, <2>4
    <3>2. g[n - 1] = <<h[L] % M, t>> /\ g[n] = <<h[L] % M, t>>
      BY <2>4, <3>1
    <3> HIDE DEF g
    <3>3. st(g[n - 1], word[n]) = <<h[L] % M, t>>
      <4>1. g[n - 1][1] = h[L] % M /\ g[n - 1][2] = t
        BY <3>2
      <4>2. g[n - 1][2]
        BY <4>1, Zenon DEF t
      <4> QED
        BY <4>1, <4>2
    <3> QED
      BY <2>4, <3>2, <3>3
  <2> QED
    BY <1>2, <2>1, <2>2, <2>3, <2>4
<1>9. DOMAIN g = 0 .. N /\ g = [n \in 0 .. N |-> g[n]]
  OBVIOUS
<1>10. g[N] = <<h[L] % M, g[N][2]>>
  BY <1>2
<1> HIDE DEF g, st
<1>11. is(g)
  BY <1>8, <1>9
<1>12. is(d)
  BY <1>11
<1> HIDE DEF d
<1>13. \A n \in 0 .. N : d[n] = IF n = 0 THEN <<0, f>> ELSE st(d[n - 1], word[n])
  BY <1>12
<1> HIDE DEF is, N
<1> DEFINE Fails == {n \in Nat : n <= N /\ d[n] # g[n]}
<1>14. Fails = {}
  <2>1. SUFFICES ASSUME Fails # {} PROVE FALSE
    OBVIOUS
  <2>2. PICK i \in Fails : \A j \in Fails : i <= j
    BY <2>1, LeastNumber
  <2>3. i \in 0 .. N
    BY <1>2, <2>2
  <2>4. i # 0
    BY <1>8, <1>13, <2>2, <2>3
  <2>5. i - 1 \in Nat /\ i - 1 <= N /\ i - 1 \notin Fails
    BY <1>2, <2>2, <2>3, <2>4
  <2>6. d[i - 1] = g[i - 1]
    BY <2>5
  <2> QED
    BY <1>8, <1>13, <2>2, <2>3, <2>4, <2>6
<1>15. d[N] = g[N]
  BY <1>2, <1>14
<1>16. Digits(word, base) = h[L] % M
  BY <1>7, <1>10, <1>15
<1>17. h[L] = Sum(word, L, base)
  BY <1>2, <1>4, HornerIsSum DEF N
<1> QED
  BY <1>16, <1>17 DEF Value, L, M

\* When a line has been read and has words, main sees those words.
Seen ==
    dPc = "run" =>
        \/ dArgc = 0
        \/ dArgc \in Nat /\ dArgc = Len(dWords) /\ dWords \in Seq(Seq(Letters))

\* The inductive invariant behind CallMeant.
MeantInv == DemoInv /\ Seen /\ CallMeant

\* A line is over.
LEMMA SeenHolds ==
    ASSUME DemoInv, dPc = "read", EndOfArg \/ EndOfLine \/ \E c \in Letters : Letter(c)
    PROVE  Seen'
<1>1. Reading
  BY DEF DemoInv
<1>2. CASE EndOfArg
  BY <1>2 DEF EndOfArg, Ignored, Seen
<1>3. CASE EndOfLine
  BY <1>1, <1>3 DEF EndOfLine, Seen, Reading
<1>4. ASSUME NEW c \in Letters, Letter(c) PROVE Seen'
  BY <1>4 DEF Letter, Ignored, Seen
<1> QED
  BY <1>2, <1>3, <1>4

\* A character is a number.
LEMMA WordIsNumbers ==
    ASSUME NEW word \in Seq(Letters)
    PROVE  word \in Seq(Nat)
<1>1. Letters \subseteq Nat
  BY DemoAssumption
<1>2. Len(word) \in Nat /\ word = [n \in 1 .. Len(word) |-> word[n]]
  OBVIOUS
<1>3. ASSUME NEW n \in 1 .. Len(word) PROVE word[n] \in Nat
  <2>1. word[n] \in Letters
    BY <1>2
  <2> QED
    BY <1>1, <2>1
<1>4. [n \in 1 .. Len(word) |-> word[n]] \in Seq(Nat)
  BY <1>2, <1>3
<1> QED
  BY <1>2, <1>4

\* What the words of a line are converted to.
LEMMA WordsConverted ==
    ASSUME DemoInv, Seen, dPc = "run", NEW k \in 1 .. dArgc
    PROVE  /\ Arg(k - 1) = dWords[k]
           /\ get_hex(dWords[k]) = Value(dWords[k], 16)
           /\ get_dec(dWords[k]) = Value(dWords[k], 10)
<1>1. dWords \in Seq(Seq(Letters)) /\ k \in 1 .. Len(dWords)
  BY DEF Seen
<1>2. dWords[k] \in Seq(Nat)
  <2>1. dWords[k] \in Seq(Letters)
    BY <1>1
  <2> QED
    BY <2>1, WordIsNumbers
<1>3. Arg(k - 1) = dWords[k]
  BY DEF DemoInv, LineParsed
<1> QED
  BY <1>2, <1>3, DigitsValue DEF get_hex, get_dec

LEMMA ValueType ==
    ASSUME NEW word \in Seq(Nat), NEW base \in Nat
    PROVE  Value(word, base) \in Nat
<1>1. Power(2)[WordBits] \in Nat /\ Power(2)[WordBits] >= 1
  BY PowerPositive, DemoAssumption
<1>2. Leading(word, base) \in 0 .. Len(word)
  BY LeadingIs
<1>3. Sum(word, Leading(word, base), base) \in Nat
  <2> DEFINE L == Leading(word, base)
  <2>1. L \in 0 .. Len(word)
    BY <1>2
  <2> HIDE DEF L
  <2>2. PICK s \in [0 .. L -> Nat] : Sum(word, L, base) = s[L]
    BY <2>1, SumIs
  <2>3. L \in 0 .. L
    BY <2>1
  <2> QED
    BY <2>2, <2>3 DEF L
<1> DEFINE x == Sum(word, Leading(word, base), base)
           m == Power(2)[WordBits]
<1>4. x \in Int /\ m \in Nat /\ m >= 1
  BY <1>1, <1>3
<1> HIDE DEF x, m
<1>5. x % m \in Nat
  BY <1>4, Division
<1> QED
  BY <1>5 DEF Value, x, m

\* The call that main makes of a line.
LEMMA DispatchMeant ==
    ASSUME DemoInv, Seen, Dispatch
    PROVE  CallMeant'
<1> USE DemoAssumption
<1>1. dPc = "run" /\ dWords' = dWords
  BY DEF Dispatch
<1>2. \A k \in 1 .. dArgc :
          /\ Arg(k - 1) = dWords[k]
          /\ get_hex(dWords[k]) = Value(dWords[k], 16)
          /\ get_dec(dWords[k]) = Value(dWords[k], 10)
  BY <1>1, WordsConverted
<1>3. dArgc \in Nat /\ (dArgc > 0 => dArgc = Len(dWords) /\ dWords \in Seq(Seq(Letters)))
  BY <1>1 DEF Seen
<1>4. dArgc >= 2 =>
          Arg(1) = dWords[2] /\ Address(Arg(1)) = Value(dWords[2], 16) % Power(2)[AddrBits]
  <2> SUFFICES ASSUME dArgc >= 2
               PROVE  Arg(1) = dWords[2] /\ get_hex(Arg(1)) = Value(dWords[2], 16)
    BY DEF Address
  <2>1. 2 \in 1 .. dArgc /\ 2 - 1 = 1
    BY <1>3
  <2> QED
    BY <1>2, <2>1
<1>5. dArgc >= 3 =>
          /\ Arg(2) = dWords[3] /\ get_hex(Arg(2)) = Value(dWords[3], 16)
          /\ get_dec(Arg(2)) = Value(dWords[3], 10) /\ Value(dWords[3], 10) \in Nat
  <2> SUFFICES ASSUME dArgc >= 3
               PROVE  /\ Arg(2) = dWords[3] /\ get_hex(Arg(2)) = Value(dWords[3], 16)
                      /\ get_dec(Arg(2)) = Value(dWords[3], 10) /\ Value(dWords[3], 10) \in Nat
    OBVIOUS
  <2>1. 3 \in 1 .. dArgc /\ 3 - 1 = 2
    BY <1>3
  <2>2. dWords[3] \in Seq(Letters)
    BY <1>3, <2>1
  <2>3. dWords[3] \in Seq(Nat)
    BY <2>2, WordIsNumbers
  <2> QED
    BY <1>2, <2>1, <2>3, ValueType
<1>6. dArgc >= 3 /\ Value(dWords[3], 10) < Power(2)[WordBits - 1] =>
          /\ dArgc = 3 => Quads = Least(MaxQuads, Value(dWords[3], 10))
          /\ dArgc > 3 => Quads = Least(Least(MaxQuads, Value(dWords[3], 10)), Len(dWords) - 3)
  <2> DEFINE n == Value(dWords[3], 10)
  <2> SUFFICES ASSUME dArgc >= 3, n < Power(2)[WordBits - 1]
               PROVE  /\ dArgc = 3 => Quads = Least(MaxQuads, n)
                      /\ dArgc > 3 => Quads = Least(Least(MaxQuads, n), Len(dWords) - 3)
    OBVIOUS
  <2>1. get_dec(Arg(2)) = n /\ n \in Nat /\ dArgc = Len(dWords)
    BY <1>3, <1>5
  <2>2. Power(2)[WordBits - 1] \in Nat
    BY PowerPositive
  <2> HIDE DEF n
  <2>3. Signed(get_dec(Arg(2))) = n
    BY <2>1, <2>2 DEF Signed
  <2> DEFINE cut == IF n > MaxQuads THEN MaxQuads ELSE n
  <2>4. Quads = IF dArgc > 3 /\ cut > dArgc - 3 THEN dArgc - 3 ELSE cut
    BY <2>3 DEF Quads
  <2>5. cut = Least(MaxQuads, n) /\ cut \in Int
    BY <2>1 DEF Least
  <2> HIDE DEF cut
  <2>6. dArgc > 3 => Quads = Least(cut, Len(dWords) - 3)
    BY <1>3, <2>1, <2>4, <2>5 DEF Least
  <2>7. dArgc = 3 => Quads = cut
    BY <2>4
  <2> QED
    BY <2>5, <2>6, <2>7
<1> DEFINE cmd == IF dArgc > 0 /\ Arg(0) \in DOMAIN Command THEN Command[Arg(0)] ELSE "other"
<1>7. CASE cmd = "quad" /\ dArgc > 2
  <2>1. dCall' = [op |-> "WriteQuadlet", addr |-> Address(Arg(1)), data |-> <<get_hex(Arg(2))>>]
    BY <1>7 DEF Dispatch
  <2> QED
    BY <1>1, <1>3, <1>4, <1>5, <1>7, <2>1 DEF CallMeant
<1>8. CASE cmd = "quad" /\ dArgc = 2
  <2>1. dCall' = [op |-> "ReadQuadlet", addr |-> Address(Arg(1))]
    BY <1>8 DEF Dispatch
  <2> QED
    BY <1>1, <1>3, <1>4, <1>8, <2>1 DEF CallMeant
<1>9. CASE cmd = "block" /\ dArgc > 3
  <2>1. dCall' = [op |-> "WriteBlock", addr |-> Address(Arg(1)), num |-> Quads,
                  data |-> [i \in 1 .. Quads |-> get_hex(Arg(2 + i))]]
    BY <1>9 DEF Dispatch
  <2>2. ASSUME NEW i \in DOMAIN dCall'.data
        PROVE  dCall'.data[i] = Value(dWords[3 + i], 16)
    <3>1. i \in 1 .. Quads
      BY <2>1
    <3>2. i >= 1 /\ i <= dArgc - 3 /\ i \in Int
      <4> DEFINE num == Signed(get_dec(Arg(2)))
                 cut == IF num > MaxQuads THEN MaxQuads ELSE num
      <4>1. num \in Int
        <5>1. Power(2)[WordBits] \in Nat /\ get_dec(Arg(2)) \in Nat
          BY <1>3, <1>5, <1>9, PowerPositive
        <5> QED
          BY <5>1 DEF Signed
      <4>2. Quads = IF dArgc > 3 /\ cut > dArgc - 3 THEN dArgc - 3 ELSE cut
        BY DEF Quads
      <4> HIDE DEF num
      <4>3. cut \in Int
        BY <4>1
      <4> HIDE DEF cut
      <4>4. Quads \in Int /\ Quads <= dArgc - 3
        BY <1>3, <1>9, <4>2, <4>3
      <4> QED
        BY <1>3, <3>1, <4>4
    <3>3. 3 + i \in 1 .. dArgc /\ (3 + i) - 1 = 2 + i
      BY <1>3, <3>2
    <3>4. Arg(2 + i) = dWords[3 + i] /\ get_hex(dWords[3 + i]) = Value(dWords[3 + i], 16)
      BY <1>2, <3>3
    <3> QED
      BY <2>1, <3>1, <3>4
  <2>3. /\ dCall'.op = "WriteBlock" /\ dCall'.addr = Value(dWords[2], 16) % Power(2)[AddrBits]
        /\ dCall'.num = Quads
    BY <1>3, <1>4, <1>9, <2>1
  <2> QED
    BY <1>1, <1>3, <1>6, <1>9, <2>2, <2>3 DEF CallMeant
<1>10. CASE cmd = "block" /\ dArgc = 3
  <2>1. dCall' = [op |-> "ReadBlock", addr |-> Address(Arg(1)), num |-> Quads]
    BY <1>10 DEF Dispatch
  <2> QED
    BY <1>1, <1>3, <1>4, <1>6, <1>10, <2>1 DEF CallMeant
<1>11. CASE /\ ~(cmd = "quad" /\ dArgc > 2) /\ ~(cmd = "quad" /\ dArgc = 2)
            /\ ~(cmd = "block" /\ dArgc > 3) /\ ~(cmd = "block" /\ dArgc = 3)
  <2>1. dCall' = NoCall
    BY <1>11 DEF Dispatch
  <2> QED
    BY <2>1 DEF CallMeant, NoCall
<1> QED
  BY <1>7, <1>8, <1>9, <1>10, <1>11

\* For rows, lines, counts and words of any length and any width of a word: every
\* register call has the address, the data and the number of quadlets that the line
\* says, but for counts that are negative as an int (main, get_hex, get_dec).
THEOREM CallAlwaysMeant == DemoSpec => []CallMeant
<1>1. DemoInit => MeantInv
  BY DemoInitHolds DEF MeantInv, DemoInit, Seen, CallMeant, NoCall
<1>2. MeantInv /\ [DemoNext]_dVars => Seen' /\ CallMeant'
  <2> SUFFICES ASSUME MeantInv, [DemoNext]_dVars PROVE Seen' /\ CallMeant'
    OBVIOUS
  <2>1. CASE get_input
    BY <2>1 DEF get_input, Seen, CallMeant
  <2>2. CASE EndOfArg \/ EndOfLine \/ \E c \in Letters : Letter(c)
    <3>1. dPc = "read" /\ dPc' \in {"read", "run"}
      BY <2>2 DEF EndOfArg, EndOfLine, Letter, Ignored
    <3>2. CallMeant'
      BY <3>1 DEF CallMeant
    <3> QED
      BY <2>2, <3>1, <3>2, SeenHolds DEF MeantInv
  <2>3. CASE Dispatch
    <3>1. Seen'
      BY <2>3 DEF Dispatch, Seen
    <3> QED
      BY <2>3, <3>1, DispatchMeant DEF MeantInv
  <2>4. CASE UNCHANGED dVars
    BY <2>4 DEF dVars, MeantInv, Seen, CallMeant
  <2> QED
    BY <2>1, <2>2, <2>3, <2>4 DEF DemoNext
<1>3. DemoInv /\ [DemoNext]_dVars => DemoInv'
  BY DemoInvStep
<1>4. MeantInv => DemoInv /\ CallMeant
  BY DEF MeantInv
<1>5. MeantInv /\ [DemoNext]_dVars => MeantInv'
  BY <1>2, <1>3, <1>4 DEF MeantInv
<1> QED
  BY <1>1, <1>4, <1>5, PTL DEF DemoSpec

=============================================================================
