----------------------------- MODULE MCPrograms -----------------------------
(***************************************************************************)
(* The programs on the bare processor: the parts of the manufacturing test *)
(* and the demo application. One of them runs, with its own constants.     *)
(***************************************************************************)
EXTENDS MemTest, EyeTest, MfgTest, BoardId, DemoApp, TLC

VARIABLE prog    \* the program that runs

MCFaults ==
    {[kind |-> "none"], [kind |-> "dead", data |-> 0], [kind |-> "dead", data |-> 9]}
    \cup {[kind |-> "line", line |-> 0]}
    \cup [kind : {"stuck"}, word : {0}, lane : {1}, bit : {0, 1}]
    \cup [kind : {"stuck"}, word : {5}, lane : {3}, bit : {0, 1}]
MCSelections == {{0, 1, 5, 9, 12}, {2, 3, 4, 6, 7, 8, 10, 11, 13, 14}}

\* Eyes of a lane: open at the middle of the bit, at its edges, beside it, cut off at
\* either end, or closed; lane 1 may differ from the others.
Spans == {<<20, 100>>, <<30, 64>>, <<61, 63>>, <<0, 90>>, <<70, 90>>, <<33, 128>>,
          <<40, 60>>, <<0, 0>>}
Pair(a, b) == [l \in EyeLanes |-> IF l = 1 THEN b ELSE a]
MCEyes ==
    {<<Pair(a, b)>> : a \in Spans, b \in Spans}
    \cup {<<Pair(a, b), Pair(a, a), Pair(b, a)>> :
            a \in Spans, b \in {<<24, 96>>, <<20, 100>>, <<50, 70>>}}
    \cup {[d \in 1 .. 4 |-> Pair(<<20, 100>>, <<20, 100>>)],
          <<Pair(<<4, 124>>, <<0, 0>>), Pair(<<0, 120>>, <<0, 0>>)>>}

\* Zero, the limits, and values whose product with a megabyte wraps around.
MCStartRegs == {0, 2, 512, 1008, 1009, 1023, 1024, 2048, 4095, 4101}
MCSizeRegs == {0, 16, 512, 1023, 1040}

MCCommand == (<<15>> :> "block") @@ (<<5>> :> "quad") @@ (<<5, 5>> :> "help")

\* A program that does not run has one initial state.
Init ==
    /\ prog \in {"memory", "eye", "commands", "switch", "demo"}
    /\ MemInit     /\ (prog = "memory" \/ (mBus = 32 /\ mFault.kind = "none"))
    /\ EyeInit     /\ (prog = "eye" \/ (eTable = <<Pair(<<0, 0>>, <<0, 0>>)>> /\ eTrain /\ eStep = 4))
    /\ MfgInit     /\ (prog = "commands" \/ tRemote)
    /\ BoardIdInit /\ (prog = "switch" \/ iSw = 0)
    /\ DemoInit

Next ==
    \/ prog = "memory"   /\ MemNext     /\ UNCHANGED <<prog, eVars, tVars, iVars, dVars>>
    \/ prog = "eye"      /\ EyeNext     /\ UNCHANGED <<prog, mVars, tVars, iVars, dVars>>
    \/ prog = "commands" /\ MfgNext     /\ UNCHANGED <<prog, mVars, eVars, iVars, dVars>>
    \/ prog = "switch"   /\ BoardIdNext /\ UNCHANGED <<prog, mVars, eVars, tVars, dVars>>
    \/ prog = "demo"     /\ DemoNext    /\ UNCHANGED <<prog, mVars, eVars, tVars, iVars>>

vars == <<prog, mVars, eVars, tVars, iVars, dVars>>

Spec == Init /\ [][Next]_vars /\ MfgFairness
=============================================================================
