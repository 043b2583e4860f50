------------------------------- MODULE MfgTest -------------------------------
(***************************************************************************)
(* memtest_run (memtest.c), the command loop of the memory tests of the    *)
(* manufacturing test, which a host can drive through mailbox registers.   *)
(*                                                                         *)
(* Memory is counted in megabytes, the unit of every command. The tests    *)
(* themselves are MemTest and EyeTest; here each is one step, of which the *)
(* window of memory that it uses matters. In the mailbox a host writes a   *)
(* command and then a new value of GO, and waits for DONE to change.       *)
(***************************************************************************)
EXTENDS Integers

CONSTANTS
    StartRegs,   \* values that a host puts in MAILBOX_START for a start/size test
    SizeRegs,    \* and in MAILBOX_SIZE
    MaxCmds      \* commands of a host in one call of memtest_run

\* Bit 15 of MAILBOX_START tells a menu command from a start/size test.
ASSUME MfgAssumption ==
    /\ StartRegs \subseteq {n \in Nat : (n \div 32768) % 2 = 0} /\ SizeRegs \subseteq Nat
    /\ MaxCmds \in Nat

\* Menu commands: memory tests of fixed size, test loop, eye tests, write only and
\* read only, settings that matter here, and all others.
Fixed == [s |-> 1, one |-> 32, two |-> 64, three |-> 128, four |-> 255, five |-> 511,
          six |-> 1023]
MenuCmds == DOMAIN Fixed \cup {"loop", "weye", "write eye", "read eye", "write only",
                               "read only", "scale", "default", "size", "other"}
Requests == [cmd : MenuCmds] \cup [cmd : {"start"}, start : StartRegs, size : SizeRegs]

VARIABLES
    tPc,      \* "menu", "wait", "run" or "report"
    tRemote,  \* remote_mode
    tGo,      \* MAILBOX_GO
    tSeen,    \* go: the value acted upon
    tDone,    \* MAILBOX_DONE
    tReq,     \* what the host asked for, or the menu command in local mode
    tWin,     \* start and size of the window of memory that the command tests
    tScale,   \* testsize_scl
    tTemp,    \* the static variable that the scale is made from
    tSel,     \* test_size_sel
    tRes,     \* the mailbox holds the result of the last command
    tCount,   \* history: commands of the host
    tAwait    \* the host waits for DONE

tVars == <<tPc, tRemote, tGo, tSeen, tDone, tReq, tWin, tScale, tTemp, tSel, tRes, tCount,
           tAwait>>

test_sizes == <<16, 32, 64, 127, 128, 255, 511, 1023>>

NoReq  == [cmd |-> "other"]
NoTest == <<1, 1>>           \* no window: the smallest

MfgInit ==
    /\ tPc = "menu" /\ tRemote \in BOOLEAN /\ tGo = 0 /\ tSeen = 0 /\ tDone = 0
    /\ tReq = NoReq /\ tWin = NoTest /\ tScale = 1 /\ tTemp = 1 /\ tSel = 0
    /\ tRes = FALSE /\ tCount = 0 /\ tAwait = FALSE

-----------------------------------------------------------------------------
(* memtest_run.                                                            *)

\* TestMemory from the menu: memtest_run up to its loop. MAILBOX_XREGV decides once
\* whether a host is in charge.
memtest_run ==
    /\ tPc = "menu" /\ tPc' = "wait"
    /\ tGo' = 0 /\ tSeen' = 0 /\ tDone' = 0 /\ tScale' = 1
    /\ tCount' = 0 /\ tAwait' = FALSE /\ tRes' = FALSE /\ tReq' = NoReq /\ tWin' = NoTest
    /\ UNCHANGED <<tRemote, tTemp, tSel>>

\* The host, which is not in src/: a command, another value of GO, then it waits.
HostCommand ==
    /\ tRemote /\ tPc = "wait" /\ ~tAwait /\ tCount < MaxCmds
    /\ tReq' \in Requests /\ tGo' = (tGo + 1) % 3
    /\ tCount' = tCount + 1 /\ tAwait' = TRUE /\ tRes' = FALSE
    /\ UNCHANGED <<tPc, tRemote, tSeen, tDone, tWin, tScale, tTemp, tSel>>

\* The loop that waits for GO to change; without a host the command is always 's'.
WaitGo ==
    /\ tPc = "wait" /\ tPc' = "run"
    /\ \/ tRemote /\ tGo # tSeen /\ tSeen' = tGo /\ tReq' = tReq
       \/ ~tRemote /\ tSeen' = tSeen /\ tReq' = [cmd |-> "s"]
    /\ UNCHANGED <<tRemote, tGo, tDone, tWin, tScale, tTemp, tSel, tRes, tCount, tAwait>>

\* MAILBOX_START * mbyte in megabytes. From 2048 on the product overflows an int: it
\* wraps around, or the compiler has the comparisons made with the factor.
StartMB(n) == {n, IF n % 4096 >= 2048 THEN (n % 4096) - 4096 ELSE n % 4096}

\* Mutant: the end of the window is not looked at.
Clamped_NoEnd(start, size) ==
    <<IF start < 1 \/ start > 1023 THEN 1 ELSE start, IF size < 1 THEN 1 ELSE size>>

\* The limits on a start/size test. The sum stays below 2048 MB, where an int ends.
Clamped(start, size) ==
    LET a == IF start < 1 \/ start > 1023 THEN 1 ELSE start
        n == IF size < 1 THEN 1 ELSE size
    IN  IF a + n > 1024 THEN <<1, 16>> ELSE <<a, n>>

StartWindows(req) == {Clamped(s, req.size % 1024) : s \in StartMB(req.start)}

\* The windows that the command may test.
Windows(req) ==
    CASE req.cmd = "start" -> StartWindows(req)
      [] req.cmd \in DOMAIN Fixed -> {<<1, Fixed[req.cmd]>>}
      [] req.cmd = "loop" -> {<<1, test_sizes[tSel + 1]>>}
      [] req.cmd = "weye" -> {<<1, 1>>}
      [] req.cmd \in {"write eye", "read eye"} -> {<<1, tScale>>}
      [] req.cmd \in {"write only", "read only"} -> {<<1, 64>>}
      [] OTHER -> {NoTest}

\* Command 'e': 2, 4 .. 128, 255, 511, 1023, and again 1.
NextScale ==
    LET t == tTemp * 2
        s == IF t > 128 THEN t - 1 ELSE t
    IN  IF s > 1023 THEN tScale' = 1 /\ tTemp' = 1 ELSE tScale' = s /\ tTemp' = t

\* The eye tests put their result in the mailbox themselves.
Measures == {"write eye", "read eye"}
\* Commands with the flag mem_test, whose result is uploaded with DONE.
MemTests == {"start", "two", "three", "four", "five", "six"}

\* The chain of commands. Two of them return from memtest_run.
RunCommand ==
    /\ tPc = "run"
    /\ tPc' = IF tReq.cmd \in {"s", "one"} THEN "menu" ELSE "report"
    /\ tWin' \in Windows(tReq)
    /\ CASE tReq.cmd = "scale"   -> NextScale /\ tSel' = tSel
         [] tReq.cmd = "default" -> tScale' = 1 /\ UNCHANGED <<tTemp, tSel>>
         [] tReq.cmd = "size"    -> tSel' = (tSel + 1) % 8 /\ UNCHANGED <<tScale, tTemp>>
         [] OTHER                -> UNCHANGED <<tScale, tTemp, tSel>>
    /\ tRes' = (tRes \/ tReq.cmd \in Measures)
    /\ UNCHANGED <<tRemote, tGo, tSeen, tDone, tReq, tCount, tAwait>>

\* Mutant: DONE is reported before the result is there.
ReportDone_NoUpload ==
    /\ tPc = "report" /\ tPc' = "wait"
    /\ tDone' = tDone + 1 /\ tRes' = tRes /\ tWin' = NoTest /\ tAwait' = FALSE
    /\ UNCHANGED <<tRemote, tGo, tSeen, tReq, tScale, tTemp, tSel, tCount>>

\* upload_memtest_results and DONE, in remote mode; the host sees DONE.
ReportDone ==
    /\ tPc = "report" /\ tPc' = "wait"
    /\ tRes' = (tRes \/ tReq.cmd \in MemTests) /\ tWin' = NoTest
    /\ tDone' = tDone + 1 /\ tAwait' = FALSE
    /\ UNCHANGED <<tRemote, tGo, tSeen, tReq, tScale, tTemp, tSel, tCount>>

MfgNext == memtest_run \/ HostCommand \/ WaitGo \/ RunCommand \/ ReportDone

MfgSpec == MfgInit /\ [][MfgNext]_<<tVars>>

\* The program runs on; a host may stop.
MfgFairness == WF_<<tVars>>(WaitGo \/ RunCommand \/ ReportDone)

-----------------------------------------------------------------------------
(* Properties.                                                             *)

\* Every test stays between the first megabyte, where the program is, and the end of
\* the memory, and its end does not overflow an int: for every value that a host may
\* put in the mailbox, 32-bit products that wrap around included, and every sequence
\* of settings.
WindowInMemory ==
    /\ tWin[1] >= 1 /\ tWin[2] >= 1
    /\ tWin[1] + tWin[2] <= 1024

\* While a host is in charge DONE counts its commands, one for one, and whoever sees
\* DONE after a command that has a result finds the result of this command.
Answered ==
    tRemote /\ tPc \in {"wait", "run", "report"} =>
        /\ tDone = tCount - (IF tAwait THEN 1 ELSE 0)
        /\ ~tAwait /\ tCount > 0 /\ tReq.cmd \in MemTests \cup Measures => tRes

\* Every command is answered in the end, each once and with its own result, except
\* the two that return to the menu without reporting DONE (memtest_run).
RemoteServed ==
    \A n \in 1 .. MaxCmds :
        tCount = n /\ tAwait /\ tReq.cmd \notin {"s", "one"} ~> tCount = n /\ ~tAwait /\ Answered

=============================================================================
