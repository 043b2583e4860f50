------------------------------- MODULE BoardId -------------------------------
(***************************************************************************)
(* TestBoardID (menu.c of the manufacturing test): the operator turns the  *)
(* board-id switch through all its positions, and the program marks every  *)
(* position that it has read often enough in a row.                        *)
(***************************************************************************)
EXTENDS Integers, FiniteSets

CONSTANTS
    Ids,         \* positions of the board-id switch (0 .. 15)
    Debounce,    \* repetitions after which a reading counts (10)
    MaxBounce    \* readings that a turned switch may spoil

ASSUME BoardIdAssumption ==
    /\ IsFiniteSet(Ids) /\ 16 \notin Ids
    /\ Debounce \in Nat \ {0} /\ MaxBounce \in Nat /\ MaxBounce <= Debounce

VARIABLES
    iPc,      \* "menu" or "id"
    iOk,      \* switchOK: positions found
    iLast,    \* last_id
    iPrev,    \* prev_id
    iDeb,     \* debounce, up to Debounce
    iSw,      \* the switch
    iBounce,  \* readings that it will still spoil
    iRest,    \* history: good readings at this position, up to Debounce + 1
    iAt       \* history: positions at which there was one

iVars == <<iPc, iOk, iLast, iPrev, iDeb, iSw, iBounce, iRest, iAt>>

BoardIdInit ==
    /\ iPc = "menu" /\ iOk = {} /\ iLast = 16 /\ iPrev = 16 /\ iDeb = 0
    /\ iSw \in Ids /\ iBounce = 0 /\ iRest = 0 /\ iAt = {}

TestBoardID ==
    /\ iPc = "menu" /\ iPc' = "id"
    /\ iOk' = {} /\ iLast' = 16 /\ iPrev' = 16 /\ iDeb' = 0
    /\ iRest' = 0 /\ iAt' = {}
    /\ UNCHANGED <<iSw, iBounce>>

\* The operator turns the switch, slower than it is read; its contacts bounce.
Turn ==
    /\ iPc = "id" /\ iRest > 0
    /\ iSw' \in Ids \ {iSw} /\ iBounce' \in 0 .. MaxBounce /\ iRest' = 0
    /\ UNCHANGED <<iPc, iOk, iLast, iPrev, iDeb, iAt>>

\* Mutant: a changed reading does not start the count again.
Repeated_NoReset(id) == iDeb + 1

\* The repetitions of a reading.
Repeated(id) == IF id = iPrev THEN iDeb + 1 ELSE 0

\* One turn of the loop that reads the switch.
ReadSwitch ==
    /\ iPc = "id" /\ iOk # Ids
    /\ \E id \in IF iBounce > 0 THEN Ids ELSE {iSw} :
          LET new == id # iLast /\ Repeated(id) >= Debounce
          IN  /\ iPrev' = id
              /\ iDeb' = IF new THEN 0
                         ELSE IF Repeated(id) > Debounce THEN Debounce ELSE Repeated(id)
              /\ iOk' = IF new THEN iOk \cup {id} ELSE iOk
              /\ iLast' = IF new THEN id ELSE iLast
    /\ iBounce' = IF iBounce > 0 THEN iBounce - 1 ELSE 0
    /\ iRest' = IF iBounce > 0 \/ iRest > Debounce THEN iRest ELSE iRest + 1
    /\ iAt' = IF iBounce > 0 THEN iAt ELSE iAt \cup {iSw}
    /\ UNCHANGED <<iPc, iSw>>

AllFound ==
    /\ iPc = "id" /\ iOk = Ids /\ iPc' = "menu"
    /\ UNCHANGED <<iOk, iLast, iPrev, iDeb, iSw, iBounce, iRest, iAt>>

BoardIdNext == TestBoardID \/ Turn \/ ReadSwitch \/ AllFound

BoardIdSpec == BoardIdInit /\ [][BoardIdNext]_iVars

-----------------------------------------------------------------------------
(* Properties.                                                             *)

\* A position is found only if the switch really was there, and has been found once it
\* stayed there for Debounce + 1 readings, however its contacts bounce (TestBoardID).
SwitchSeen ==
    iPc = "id" =>
        /\ iOk \subseteq iAt
        /\ iRest > Debounce => iSw \in iOk

-----------------------------------------------------------------------------
(* The inductive invariant behind SwitchSeen.                              *)

BoardIdTypeOK ==
    /\ iPc \in {"menu", "id"}
    /\ iOk \subseteq Ids /\ iAt \subseteq Ids
    /\ iLast \in Ids \cup {16} /\ iPrev \in Ids \cup {16} /\ iSw \in Ids
    /\ iDeb \in 0 .. Debounce /\ iBounce \in 0 .. MaxBounce /\ iRest \in 0 .. Debounce + 1

\* A reading at which the switch never was can have been repeated only while its
\* contacts bounced, which leaves fewer readings to be spoilt.
OnlyBounced ==
    iPrev \notin iAt \cup {16} => iRest = 0 /\ iDeb + 1 + iBounce <= MaxBounce

\* At rest, every good reading has been counted until the position was found.
Counted ==
    iRest > 0 =>
        /\ iBounce = 0 /\ iPrev = iSw
        /\ iSw \in iOk \/ (iRest <= Debounce /\ iRest <= iDeb + 1)

\* Whatever the loop of TestBoardID has read, its count never runs ahead of the
\* switch, nor behind it.
SwitchInv ==
    /\ BoardIdTypeOK
    /\ iLast # 16 => iLast \in iOk
    /\ iOk \subseteq iAt
    /\ OnlyBounced /\ Counted

=============================================================================
