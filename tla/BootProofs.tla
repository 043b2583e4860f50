------------------------------ MODULE BootProofs ------------------------------
(***************************************************************************)
(* Proofs about Boot, for every set of boards, of other bits of the status *)
(* register and every value of the read buffer. BootInv is inductive; its  *)
(* parts are proved one after the other, each with one step per action.    *)
(***************************************************************************)
EXTENDS Boot, TLAPS

-----------------------------------------------------------------------------
(* The sets of values, which stay closed in the proofs below.              *)

\* Status register 2 with the quad-enable bit set is a status register 2, and so is
\* what the read buffer holds after the chip ID (FpgaV3_Init_SD).
LEMMA Registers ==
    /\ IdByte \in SR2s
    /\ \A r \in SR2s : [r EXCEPT !.qe = TRUE] \in SR2s
BY BootAssumption DEF SR2s

\* CopyFile makes a file of the three kinds.
LEMMA FileContents ==
    /\ "none" \in Contents /\ "part" \in Contents /\ "full" \in Contents
    /\ NoFiles \in [Named -> Contents]
    /\ \A s \in Contents : CopyOpened(s) \subseteq Contents
BY DEF Contents, NoFiles, CopyOpened

\* The places where the programs can be (FpgaV3_Init_SD, FpgaV3_Init_QSPI, main).
LEMMA PlaceNames ==
    \A p \in {"off", "fsbl", "sr2", "wren", "wrsr2", "emio", "snread", "handoff", "halt",
              "shell", "start", "export", "copy", "convert", "libdir", "libcopy", "load",
              "mtd0", "eth", "net", "prom", "done"} : p \in Places
BY DEF Places, Hook, Steps

\* The calls that can fail, one at a time.
LEMMA Failures ==
    /\ {} \in SUBSET Fallible
    /\ \A f \in {"qspi", "status", "export", "fpga", "eth", "net", "prom"} :
           {f} \in SUBSET Fallible
BY DEF Fallible

\* What every step of the hook leaves alone, and the types of what it changes.
LEMMA HookedType ==
    ASSUME TypeOK
    PROVE  \A p \in Places, f \in SUBSET Fallible :
               Hooked(p, f) => /\ pc' \in Places /\ fails' \in SUBSET Fallible
                               /\ UNCHANGED <<setting, net, seen, files>>
BY DEF TypeOK, Hooked

\* The same of fpgav3init.
LEMMA RanType ==
    ASSUME TypeOK
    PROVE  \A p \in Places, f \in SUBSET Fallible :
               Ran(p, f) => /\ pc' \in Places /\ fails' \in SUBSET Fallible
                            /\ UNCHANGED <<flash, rbuf, setting>>
BY DEF TypeOK, Ran

-----------------------------------------------------------------------------
\* Every step of the boot keeps the types; FpgaLoad relies on the firmware's name being
\* that of a board which has one.
LEMMA TypeStep == TypeOK /\ InitInv /\ [Next]_vars => TypeOK'
<1> SUFFICES ASSUME TypeOK, InitInv, [Next]_vars
             PROVE  TypeOK'
  OBVIOUS
<1> DEFINE Progress == pc' \in Places /\ fails' \in SUBSET Fallible
<1>1. CASE PowerOn
  BY <1>1, PlaceNames, Registers DEF PowerOn, TypeOK, flash, fabric, files, setting
<1>2. CASE PowerLoss
  BY <1>2, PlaceNames, Registers, FileContents, BootAssumption DEF PowerLoss, RamLost,
     TypeOK, flash, fabric, files, setting
<1>3. CASE Settle
  BY <1>3, PlaceNames, Registers DEF Settle, TypeOK, flash, fabric, files, setting
<1>4. CASE FsblHookBeforeHandoff
  <2>1. Progress /\ UNCHANGED <<setting, net, seen, files>>
    BY <1>4, HookedType, PlaceNames, Failures DEF FsblHookBeforeHandoff
  <2> QED
    BY <1>4, <2>1 DEF FsblHookBeforeHandoff, TypeOK, flash, fabric, files, setting
<1>5. CASE ReadId
  <2>1. Progress /\ UNCHANGED <<setting, net, seen, files>>
    BY <1>5, HookedType, PlaceNames, Failures DEF ReadId
  <2>2. rbuf' \in SR2s
    BY <1>5, Registers DEF ReadId, TypeOK
  <2> QED
    BY <1>5, <2>1, <2>2 DEF ReadId, TypeOK, flash, fabric, files, setting
<1>6. CASE ReadStatusReg2
  <2>1. Progress /\ UNCHANGED <<setting, net, seen, files>>
    BY <1>6, HookedType, PlaceNames, Failures DEF ReadStatusReg2
  <2>2. rbuf' \in SR2s
    BY <1>6 DEF ReadStatusReg2, TypeOK
  <2> QED
    BY <1>6, <2>1, <2>2 DEF ReadStatusReg2, TypeOK, flash, fabric, files, setting
<1>7. CASE WriteEnable
  <2>1. Progress /\ UNCHANGED <<setting, net, seen, files>>
    BY <1>7, HookedType, PlaceNames, Failures DEF WriteEnable
  <2>2. wel' \in BOOLEAN
    BY <1>7 DEF WriteEnable, TypeOK
  <2> QED
    BY <1>7, <2>1, <2>2 DEF WriteEnable, TypeOK, flash, fabric, files, setting
<1>8. CASE WriteStatusReg2
  <2>1. Progress /\ UNCHANGED <<setting, net, seen, files>>
    BY <1>8, HookedType, PlaceNames, Failures DEF WriteStatusReg2
  <2>2. rbuf' \in SR2s /\ wbuf' \in SR2s /\ settling' \in BOOLEAN
    BY <1>8, Registers DEF WriteStatusReg2, TypeOK
  <2> QED
    BY <1>8, <2>1, <2>2 DEF WriteStatusReg2, TypeOK, flash, fabric, files, setting
<1>9. CASE EmioInit
  <2>1. Progress /\ UNCHANGED <<setting, net, seen, files>>
    BY <1>9, HookedType, PlaceNames, Failures DEF EmioInit
  <2> QED
    BY <1>9, <2>1 DEF EmioInit, TypeOK, flash, fabric, files, setting
<1>10. CASE CopySerial
  <2>1. Progress /\ UNCHANGED <<setting, net, seen, files>>
    BY <1>10, HookedType, PlaceNames, Failures DEF CopySerial
  <2>2. prom' \in {"reset", "torn", "sn", "blank"}
    BY <1>10 DEF CopySerial, TypeOK
  <2> QED
    BY <1>10, <2>1, <2>2 DEF CopySerial, TypeOK, flash, fabric, files, setting
<1>11. CASE Handoff
  BY <1>11, PlaceNames, Registers DEF Handoff, TypeOK, flash, fabric, files, setting
<1>12. CASE Shell
  <2>1. Progress
    BY <1>12, PlaceNames DEF Shell, TypeOK
  <2>2. serial' \in {"sn", "blank"} /\ seen' \in Boards
    BY <1>12, BootAssumption DEF Shell, TypeOK
  <2> QED
    BY <1>12, <2>1, <2>2 DEF Shell, TypeOK, flash, fabric, files
<1>13. CASE DetectBoard
  <2>1. Progress /\ UNCHANGED <<flash, rbuf, setting>>
    BY <1>13, RanType, PlaceNames, Failures DEF DetectBoard
  <2>2. seen' \in Boards
    BY <1>13 DEF DetectBoard, TypeOK
  <2> QED
    BY <1>13, <2>1, <2>2 DEF DetectBoard, TypeOK, flash, fabric, files, setting
<1>14. CASE ExportFpgaInfo
  <2>1. Progress /\ UNCHANGED <<flash, rbuf, setting>>
    BY <1>14, RanType, PlaceNames, Failures DEF ExportFpgaInfo, FirmwareName
  <2>2. env' \in {""} \cup Boards
    BY <1>14 DEF ExportFpgaInfo, TypeOK
  <2> QED
    BY <1>14, <2>1, <2>2 DEF ExportFpgaInfo, TypeOK, flash, fabric, files, setting
<1>15. CASE CopyBit
  <2>1. Progress /\ UNCHANGED <<flash, rbuf, setting>>
    BY <1>15, RanType, PlaceNames, Failures DEF CopyBit
  <2>2. made' \in Contents
    BY <1>15, FileContents DEF CopyBit, TypeOK
  <2> QED
    BY <1>15, <2>1, <2>2 DEF CopyBit, TypeOK, flash, fabric, files, setting
<1>16. CASE ConvertBitstream
  <2>1. Progress /\ UNCHANGED <<flash, rbuf, setting>>
    BY <1>16, RanType, PlaceNames, Failures DEF ConvertBitstream
  <2>2. made' \in Contents
    BY <1>16, FileContents DEF ConvertBitstream, TypeOK
  <2> QED
    BY <1>16, <2>1, <2>2 DEF ConvertBitstream, TypeOK, flash, fabric, files, setting
<1>17. CASE MakeLibFirmware
  <2>1. Progress /\ UNCHANGED <<flash, rbuf, setting>>
    BY <1>17, RanType, PlaceNames, Failures DEF MakeLibFirmware
  <2>2. made' \in Contents
    BY <1>17, FileContents DEF MakeLibFirmware, TypeOK
  <2> QED
    BY <1>17, <2>1, <2>2 DEF MakeLibFirmware, TypeOK, flash, fabric, files, setting
<1>18. CASE CopyBin
  <2>1. Progress /\ UNCHANGED <<flash, rbuf, setting>>
    BY <1>18, RanType, PlaceNames, Failures DEF CopyBin
  <2>2. made' \in Contents /\ lib' \in [Named -> Contents]
    BY <1>18, FileContents DEF CopyBin, TypeOK
  <2> QED
    BY <1>18, <2>1, <2>2 DEF CopyBin, TypeOK, flash, fabric, files, setting
<1>19. CASE FpgaLoad
  <2>1. Progress /\ UNCHANGED <<flash, rbuf, setting>>
    BY <1>19, RanType, PlaceNames, Failures DEF FpgaLoad
  <2>2. /\ fpga' \in {"BCFG", "off"} \cup Named /\ eth' \in BOOLEAN
        /\ prom' \in {"reset", "torn", "sn", "blank"}
    BY <1>19 DEF FpgaLoad, TypeOK, InitInv, FirmwareName, fabric
  <2> QED
    BY <1>19, <2>1, <2>2 DEF FpgaLoad, TypeOK, flash, fabric, files, setting
<1>20. CASE ProgramFlash
  <2>1. Progress /\ UNCHANGED <<flash, rbuf, setting>>
    BY <1>20, RanType, PlaceNames, Failures DEF ProgramFlash
  <2> QED
    BY <1>20, <2>1 DEF ProgramFlash, TypeOK, flash, fabric, files, setting
<1>21. CASE EnableEthernet
  <2>1. Progress /\ UNCHANGED <<flash, rbuf, setting>>
    BY <1>21, RanType, PlaceNames, Failures DEF EnableEthernet
  <2>2. eth' \in BOOLEAN
    BY <1>21 DEF EnableEthernet, TypeOK
  <2> QED
    BY <1>21, <2>1, <2>2 DEF EnableEthernet, TypeOK, flash, fabric, files, setting
<1>22. CASE SetMACandIP
  <2>1. Progress /\ UNCHANGED <<flash, rbuf, setting>>
    BY <1>22, RanType, PlaceNames, Failures DEF SetMACandIP
  <2>2. net' \in BOOLEAN
    BY <1>22 DEF SetMACandIP, TypeOK
  <2> QED
    BY <1>22, <2>1, <2>2 DEF SetMACandIP, TypeOK, flash, fabric, files, setting
<1>23. CASE CopyQspiToFpga
  <2>1. Progress /\ UNCHANGED <<flash, rbuf, setting>>
    BY <1>23, RanType, PlaceNames, Failures DEF CopyQspiToFpga
  <2>2. prom' \in {"reset", "torn", "sn", "blank"}
    BY <1>23 DEF CopyQspiToFpga, TypeOK
  <2> QED
    BY <1>23, <2>1, <2>2 DEF CopyQspiToFpga, TypeOK, flash, fabric, files, setting
<1>24. CASE UNCHANGED vars
  BY <1>24 DEF vars, TypeOK, flash, fabric, files, setting
<1> QED
  BY <1>1, <1>2, <1>3, <1>4, <1>5, <1>6, <1>7, <1>8, <1>9, <1>10, <1>11, <1>12, <1>13,
     <1>14, <1>15, <1>16, <1>17, <1>18, <1>19, <1>20, <1>21, <1>22, <1>23, <1>24 DEF
     Next

-----------------------------------------------------------------------------
(* The hook of the boot loader.                                            *)

\* What fpgav3init does keeps the invariant of the hook.
LEMMA HookOver ==
    ASSUME HookInv, UNCHANGED flash, pc' \in Steps \cup {"shell", "halt"}
    PROVE  HookInv'
<1>1. pc' \notin Hook \cup {"off", "handoff"}
  BY DEF Steps, Hook
<1> QED
  BY <1>1 DEF HookInv, flash, Hook

\* What WriteStatusReg2 sends is the register as it is, with the quad-enable bit.
LEMMA WriteKeepsBits ==
    ASSUME TypeOK, HookInv, WriteStatusReg2
    PROVE  settling' => wbuf'.qe /\ wbuf'.other = sr2'.other
<1>1. rbuf = sr2 /\ ~settling
  BY DEF WriteStatusReg2, HookInv, Hook
<1>2. settling' => wbuf' = [rbuf EXCEPT !.qe = TRUE]
  BY <1>1 DEF WriteStatusReg2
<1> QED
  BY <1>1, <1>2 DEF WriteStatusReg2, TypeOK, SR2s

\* Every step keeps the invariant of the hook: what was read of the register is still
\* in the buffer when it is written, and nothing else is being written then.
LEMMA HookStep == TypeOK /\ HookInv /\ [Next]_vars => HookInv'
<1> SUFFICES ASSUME TypeOK, HookInv, [Next]_vars
             PROVE  HookInv'
  OBVIOUS
<1>1. CASE PowerOn
  BY <1>1 DEF PowerOn, TypeOK, HookInv, Hook, flash, fabric, files, setting
<1>2. CASE PowerLoss
  BY <1>2 DEF PowerLoss, RamLost, TypeOK, HookInv, Hook, flash, fabric, files, setting
<1>3. CASE Settle
  BY <1>3 DEF Settle, TypeOK, HookInv, Hook, flash, fabric, files, setting
<1>4. CASE FsblHookBeforeHandoff
  BY <1>4 DEF FsblHookBeforeHandoff, Hooked, TypeOK, HookInv, Hook, flash, fabric,
     files, setting
<1>5. CASE ReadId
  BY <1>5 DEF ReadId, Hooked, TypeOK, HookInv, Hook, flash, fabric, files, setting
<1>6. CASE ReadStatusReg2
  BY <1>6 DEF ReadStatusReg2, Hooked, TypeOK, HookInv, Hook, flash, fabric, files,
     setting
<1>7. CASE WriteEnable
  BY <1>7 DEF WriteEnable, Hooked, TypeOK, HookInv, Hook, flash, fabric, files, setting
<1>8. CASE WriteStatusReg2
  <2>1. pc' = "handoff" /\ fpga' = fpga /\ fpga = "BCFG"
    BY <1>8 DEF WriteStatusReg2, Hooked, fabric, HookInv, Hook
  <2> QED
    BY <1>8, <2>1, WriteKeepsBits DEF HookInv, Hook
<1>9. CASE EmioInit
  BY <1>9 DEF EmioInit, Hooked, TypeOK, HookInv, Hook, flash, fabric, files, setting
<1>10. CASE CopySerial
  BY <1>10 DEF CopySerial, Hooked, TypeOK, HookInv, Hook, flash, fabric, files, setting
<1>11. CASE Handoff
  BY <1>11, HookOver DEF Handoff, Steps
<1>12. CASE Shell
  BY <1>12, HookOver DEF Shell, Steps
<1>13. CASE DetectBoard
  BY <1>13, HookOver DEF DetectBoard, Ran, Steps
<1>14. CASE ExportFpgaInfo
  BY <1>14, HookOver DEF ExportFpgaInfo, Ran, Steps, FirmwareName
<1>15. CASE CopyBit
  BY <1>15, HookOver DEF CopyBit, Ran, Steps
<1>16. CASE ConvertBitstream
  BY <1>16, HookOver DEF ConvertBitstream, Ran, Steps
<1>17. CASE MakeLibFirmware
  BY <1>17, HookOver DEF MakeLibFirmware, Ran, Steps
<1>18. CASE CopyBin
  BY <1>18, HookOver DEF CopyBin, Ran, Steps
<1>19. CASE FpgaLoad
  BY <1>19, HookOver DEF FpgaLoad, Ran, Steps
<1>20. CASE ProgramFlash
  BY <1>20, HookOver DEF ProgramFlash, Ran, Steps
<1>21. CASE EnableEthernet
  BY <1>21, HookOver DEF EnableEthernet, Ran, Steps
<1>22. CASE SetMACandIP
  BY <1>22, HookOver DEF SetMACandIP, Ran, Steps
<1>23. CASE CopyQspiToFpga
  BY <1>23, HookOver DEF CopyQspiToFpga, Ran, Steps
<1>24. CASE UNCHANGED vars
  BY <1>24 DEF vars, HookInv, Hook, flash, fabric, files, setting
<1> QED
  BY <1>1, <1>2, <1>3, <1>4, <1>5, <1>6, <1>7, <1>8, <1>9, <1>10, <1>11, <1>12, <1>13,
     <1>14, <1>15, <1>16, <1>17, <1>18, <1>19, <1>20, <1>21, <1>22, <1>23, <1>24 DEF
     Next

\* Every step keeps the promise of the hook.
LEMMA HookDeliversStep == TypeOK /\ HookInv /\ HookDelivers /\ [Next]_vars => HookDelivers'
<1> SUFFICES ASSUME TypeOK, HookInv, HookDelivers, [Next]_vars
             PROVE  HookDelivers'
  OBVIOUS
<1>1. CASE PowerOn
  BY <1>1 DEF PowerOn, HookDelivers
<1>2. CASE PowerLoss
  BY <1>2 DEF PowerLoss, HookDelivers
<1>3. CASE Settle
  BY <1>3 DEF Settle, HookDelivers, setting, fabric, HookInv
<1>4. CASE FsblHookBeforeHandoff
  BY <1>4 DEF FsblHookBeforeHandoff, Hooked, HookDelivers, HookInv, Hook, TypeOK, SR2s,
     flash, setting
<1>5. CASE ReadId
  BY <1>5 DEF ReadId, Hooked, HookDelivers, HookInv, Hook, TypeOK, SR2s, flash, setting
<1>6. CASE ReadStatusReg2
  BY <1>6 DEF ReadStatusReg2, Hooked, HookDelivers, HookInv, Hook, TypeOK, SR2s, flash,
     setting
<1>7. CASE WriteEnable
  BY <1>7 DEF WriteEnable, Hooked, HookDelivers, HookInv, Hook, TypeOK, SR2s, flash,
     setting
<1>8. CASE WriteStatusReg2
  <2>1. mode' = "SD" /\ wel
    BY <1>8 DEF WriteStatusReg2, Hooked, setting, HookInv
  <2>2. fails' = {} => settling'
    BY <1>8, <2>1 DEF WriteStatusReg2, Hooked
  <2> QED
    BY <1>8, <2>1, <2>2, WriteKeepsBits DEF HookDelivers
<1>9. CASE EmioInit
  BY <1>9 DEF EmioInit, Hooked, HookDelivers, HookInv, Hook, TypeOK, SR2s, flash,
     setting
<1>10. CASE CopySerial
  BY <1>10 DEF CopySerial, Hooked, HookDelivers, HookInv, Hook, TypeOK, SR2s, flash,
     setting
<1>11. CASE Handoff
  BY <1>11 DEF Handoff, HookDelivers
<1>12. CASE Shell
  BY <1>12 DEF Shell, HookDelivers
<1>13. CASE DetectBoard
  BY <1>13 DEF DetectBoard, Ran, HookDelivers
<1>14. CASE ExportFpgaInfo
  BY <1>14 DEF ExportFpgaInfo, Ran, HookDelivers, FirmwareName
<1>15. CASE CopyBit
  BY <1>15 DEF CopyBit, Ran, HookDelivers
<1>16. CASE ConvertBitstream
  BY <1>16 DEF ConvertBitstream, Ran, HookDelivers
<1>17. CASE MakeLibFirmware
  BY <1>17 DEF MakeLibFirmware, Ran, HookDelivers
<1>18. CASE CopyBin
  BY <1>18 DEF CopyBin, Ran, HookDelivers
<1>19. CASE FpgaLoad
  BY <1>19 DEF FpgaLoad, Ran, HookDelivers
<1>20. CASE ProgramFlash
  BY <1>20 DEF ProgramFlash, Ran, HookDelivers
<1>21. CASE EnableEthernet
  BY <1>21 DEF EnableEthernet, Ran, HookDelivers
<1>22. CASE SetMACandIP
  BY <1>22 DEF SetMACandIP, Ran, HookDelivers
<1>23. CASE CopyQspiToFpga
  BY <1>23 DEF CopyQspiToFpga, Ran, HookDelivers
<1>24. CASE UNCHANGED vars
  BY <1>24 DEF vars, HookDelivers, flash, fabric, setting
<1> QED
  BY <1>1, <1>2, <1>3, <1>4, <1>5, <1>6, <1>7, <1>8, <1>9, <1>10, <1>11, <1>12, <1>13,
     <1>14, <1>15, <1>16, <1>17, <1>18, <1>19, <1>20, <1>21, <1>22, <1>23, <1>24 DEF
     Next

\* Every step keeps the quad-enable bit and the other bits of the register.
LEMMA QeStep ==
    ASSUME HookInv, [Next]_vars
    PROVE  [sr2'.other = sr2.other /\ (sr2.qe => sr2'.qe)]_vars
<1>1. CASE PowerLoss
  BY <1>1 DEF PowerLoss, HookInv
<1>2. CASE Settle
  BY <1>2 DEF Settle, HookInv
<1>3. CASE Next /\ ~PowerLoss /\ ~Settle
  <2>1. sr2' = sr2
    BY <1>3 DEF Next, flash, Hooked, Ran, PowerOn, FsblHookBeforeHandoff, ReadId,
       ReadStatusReg2, WriteEnable, WriteStatusReg2, EmioInit, CopySerial, Handoff,
       Shell, DetectBoard, ExportFpgaInfo, CopyBit, ConvertBitstream, MakeLibFirmware,
       CopyBin, FpgaLoad, ProgramFlash, EnableEthernet, SetMACandIP, CopyQspiToFpga
  <2> QED
    BY <2>1
<1> QED
  BY <1>1, <1>2, <1>3

-----------------------------------------------------------------------------
(* fpgav3init.                                                             *)

\* Where fpgav3init does not run, it has promised nothing.
LEMMA NotRunning ==
    ASSUME pc' \in Hook \cup {"off", "handoff", "shell", "halt"}
    PROVE  InitInv' /\ InitDelivers'
BY DEF Hook, InitInv, InitDelivers

\* Every step of fpgav3init achieves its part or records that it failed, and does not
\* undo the parts before it.
LEMMA InitStep ==
    TypeOK /\ InitInv /\ HookInv /\ InitDelivers /\ [Next]_vars => InitInv' /\ InitDelivers'
<1> SUFFICES ASSUME TypeOK, HookInv, InitInv, InitDelivers, [Next]_vars
             PROVE  InitInv' /\ InitDelivers'
  OBVIOUS
<1>1. CASE PowerOn
  BY <1>1, NotRunning DEF PowerOn, Hook
<1>2. CASE PowerLoss
  BY <1>2, NotRunning DEF PowerLoss, Hook
<1>3. CASE Settle
  BY <1>3 DEF Settle, InitInv, InitDelivers, Failed, fabric, files, setting
<1>4. CASE FsblHookBeforeHandoff
  BY <1>4, NotRunning DEF FsblHookBeforeHandoff, Hook, Hooked
<1>5. CASE ReadId
  BY <1>5, NotRunning DEF ReadId, Hook, Hooked
<1>6. CASE ReadStatusReg2
  BY <1>6, NotRunning DEF ReadStatusReg2, Hook, Hooked
<1>7. CASE WriteEnable
  BY <1>7, NotRunning DEF WriteEnable, Hook, Hooked
<1>8. CASE WriteStatusReg2
  BY <1>8, NotRunning DEF WriteStatusReg2, Hook, Hooked
<1>9. CASE EmioInit
  BY <1>9, NotRunning DEF EmioInit, Hook, Hooked
<1>10. CASE CopySerial
  BY <1>10, NotRunning DEF CopySerial, Hook, Hooked
<1>11. CASE Handoff
  BY <1>11 DEF Handoff, InitInv, InitDelivers
<1>12. CASE Shell
  BY <1>12 DEF Shell, InitInv, InitDelivers
<1>13. CASE DetectBoard
  BY <1>13 DEF DetectBoard, Ran, TypeOK, InitInv, InitDelivers, Failed, FirmwareName,
     flash, fabric, files, setting
<1>14. CASE ExportFpgaInfo
  <2>1. pc' = IF seen \in Named THEN "copy" ELSE "mtd0"
    BY <1>14, BootAssumption DEF ExportFpgaInfo, Ran, TypeOK, FirmwareName
  <2>2. /\ UNCHANGED <<board, fpga, seen>>
        /\ "export" \in fails' \/ env' = seen
        /\ "status" \in fails => "status" \in fails'
    BY <1>14 DEF ExportFpgaInfo, Ran, setting, fabric
  <2>3. "status" \in fails \/ (seen = board /\ fpga = "BCFG")
    BY <1>14 DEF ExportFpgaInfo, InitInv
  <2> QED
    BY <2>1, <2>2, <2>3 DEF InitInv, InitDelivers, Failed
<1>15. CASE CopyBit
  BY <1>15 DEF CopyBit, Ran, TypeOK, InitInv, InitDelivers, Failed, FirmwareName,
     flash, fabric, files, setting, CopyOpened, CopyOk
<1>16. CASE ConvertBitstream
  BY <1>16 DEF ConvertBitstream, Ran, TypeOK, InitInv, InitDelivers, Failed,
     FirmwareName, flash, fabric, files, setting
<1>17. CASE MakeLibFirmware
  BY <1>17 DEF MakeLibFirmware, Ran, TypeOK, InitInv, InitDelivers, Failed,
     FirmwareName, flash, fabric, files, setting
<1>18. CASE CopyBin
  BY <1>18 DEF CopyBin, Ran, TypeOK, InitInv, InitDelivers, Failed, FirmwareName,
     flash, fabric, files, setting, CopyOpened, CopyOk
<1>19. CASE FpgaLoad
  BY <1>19 DEF FpgaLoad, Ran, TypeOK, InitInv, InitDelivers, Failed, FirmwareName,
     flash, fabric, files, setting
<1>20. CASE ProgramFlash
  BY <1>20 DEF ProgramFlash, Ran, TypeOK, InitInv, InitDelivers, Failed, FirmwareName,
     flash, fabric, files, setting
<1>21. CASE EnableEthernet
  BY <1>21 DEF EnableEthernet, Ran, TypeOK, InitInv, InitDelivers, Failed,
     FirmwareName, flash, fabric, files, setting
<1>22. CASE SetMACandIP
  BY <1>22 DEF SetMACandIP, Ran, TypeOK, InitInv, InitDelivers, Failed, FirmwareName,
     flash, fabric, files, setting
<1>23. CASE CopyQspiToFpga
  BY <1>23 DEF CopyQspiToFpga, Ran, TypeOK, InitInv, InitDelivers, Failed,
     FirmwareName, flash, fabric, files, setting
<1>24. CASE UNCHANGED vars
  BY <1>24 DEF vars, InitInv, InitDelivers, Failed, flash, fabric, files, setting
<1> QED
  BY <1>1, <1>2, <1>3, <1>4, <1>5, <1>6, <1>7, <1>8, <1>9, <1>10, <1>11, <1>12, <1>13,
     <1>14, <1>15, <1>16, <1>17, <1>18, <1>19, <1>20, <1>21, <1>22, <1>23, <1>24 DEF
     Next

\* Every step keeps the right firmware: only FpgaLoad changes it, and it loads that of
\* the board that was seen, which is the board that is there or one that was misread.
LEMMA FirmwareStep ==
    HookInv /\ InitInv /\ RightFirmware /\ [Next]_vars => RightFirmware'
<1> SUFFICES ASSUME HookInv, InitInv, RightFirmware, [Next]_vars
             PROVE  RightFirmware'
  OBVIOUS
<1>0. "BCFG" \notin Named /\ "off" \notin Named
  BY BootAssumption
<1>1. CASE PowerOn
  BY <1>0, <1>1 DEF PowerOn, RightFirmware, fabric, setting
<1>2. CASE PowerLoss
  BY <1>0, <1>2 DEF PowerLoss, RamLost, RightFirmware, fabric, setting
<1>3. CASE Settle
  BY <1>0, <1>3 DEF Settle, RightFirmware, fabric, setting
<1>4. CASE FsblHookBeforeHandoff
  BY <1>0, <1>4 DEF FsblHookBeforeHandoff, Hooked, HookInv, Hook, RightFirmware,
     fabric, setting
<1>5. CASE ReadId
  BY <1>0, <1>5 DEF ReadId, Hooked, HookInv, Hook, RightFirmware, fabric, setting
<1>6. CASE ReadStatusReg2
  BY <1>0, <1>6 DEF ReadStatusReg2, Hooked, HookInv, Hook, RightFirmware, fabric,
     setting
<1>7. CASE WriteEnable
  BY <1>0, <1>7 DEF WriteEnable, Hooked, HookInv, Hook, RightFirmware, fabric, setting
<1>8. CASE WriteStatusReg2
  BY <1>0, <1>8 DEF WriteStatusReg2, Hooked, HookInv, Hook, RightFirmware, fabric,
     setting
<1>9. CASE EmioInit
  BY <1>0, <1>9 DEF EmioInit, Hooked, HookInv, Hook, RightFirmware, fabric, setting
<1>10. CASE CopySerial
  BY <1>0, <1>10 DEF CopySerial, Hooked, HookInv, Hook, RightFirmware, fabric, setting
<1>11. CASE Handoff
  BY <1>0, <1>11 DEF Handoff, HookInv, Hook, RightFirmware, fabric, setting
<1>12. CASE Shell
  BY <1>0, <1>12 DEF Shell, RightFirmware, fabric, setting
<1>13. CASE DetectBoard
  BY <1>0, <1>13 DEF DetectBoard, Ran, RightFirmware, fabric, setting
<1>14. CASE ExportFpgaInfo
  BY <1>0, <1>14 DEF ExportFpgaInfo, Ran, RightFirmware, fabric, setting
<1>15. CASE CopyBit
  BY <1>0, <1>15 DEF CopyBit, Ran, RightFirmware, fabric, setting
<1>16. CASE ConvertBitstream
  BY <1>0, <1>16 DEF ConvertBitstream, Ran, RightFirmware, fabric, setting
<1>17. CASE MakeLibFirmware
  BY <1>0, <1>17 DEF MakeLibFirmware, Ran, RightFirmware, fabric, setting
<1>18. CASE CopyBin
  BY <1>0, <1>18 DEF CopyBin, Ran, RightFirmware, fabric, setting
<1>19. CASE FpgaLoad
  BY <1>0, <1>19 DEF FpgaLoad, Ran, InitInv, FirmwareName, RightFirmware, fabric,
     setting
<1>20. CASE ProgramFlash
  BY <1>0, <1>20 DEF ProgramFlash, Ran, RightFirmware, fabric, setting
<1>21. CASE EnableEthernet
  BY <1>0, <1>21 DEF EnableEthernet, Ran, RightFirmware, fabric, setting
<1>22. CASE SetMACandIP
  BY <1>0, <1>22 DEF SetMACandIP, Ran, RightFirmware, fabric, setting
<1>23. CASE CopyQspiToFpga
  BY <1>0, <1>23 DEF CopyQspiToFpga, Ran, RightFirmware, fabric, setting
<1>24. CASE UNCHANGED vars
  BY <1>24 DEF vars, RightFirmware, fabric, setting
<1> QED
  BY <1>1, <1>2, <1>3, <1>4, <1>5, <1>6, <1>7, <1>8, <1>9, <1>10, <1>11, <1>12, <1>13,
     <1>14, <1>15, <1>16, <1>17, <1>18, <1>19, <1>20, <1>21, <1>22, <1>23, <1>24 DEF
     Next

-----------------------------------------------------------------------------
(* The theorems.                                                           *)

\* A board that has never been powered on satisfies the invariant.
LEMMA InitHolds == Init => BootInv
<1> SUFFICES ASSUME Init
             PROVE  BootInv
  OBVIOUS
<1>1. TypeOK
  BY BootAssumption DEF Init, TypeOK, Places, Contents, NoFiles, SR2s
<1>2. HookInv /\ InitInv /\ BootDelivers
  BY DEF Init, HookInv, InitInv, BootDelivers, HookDelivers, InitDelivers, Hook
<1>3. RightFirmware
  BY BootAssumption DEF Init, RightFirmware
<1> QED
  BY <1>1, <1>2, <1>3 DEF BootInv

\* The inductive invariant: what the hook and fpgav3init find when they run, and what
\* they have achieved, over any number of power cycles and runs.
THEOREM BootInvariant == Spec => []BootInv
<1>1. BootInv /\ [Next]_vars => BootInv'
  BY TypeStep, HookStep, InitStep, HookDeliversStep, FirmwareStep DEF BootInv, BootDelivers
<1> QED
  BY InitHolds, <1>1, PTL DEF Spec

\* Boot loader and fpgav3init deliver what they promise, for any boards: each thing is
\* as it should be unless its own step failed (FsblHookBeforeHandoff, main).
THEOREM BootDeliversAlways == Spec => []BootDelivers
<1>1. BootInv => BootDelivers
  BY DEF BootInv
<1> QED
  BY <1>1, BootInvariant, PTL

\* The FPGA never runs the firmware of another board than the one that is there, unless
\* the status register was misread (FpgaLoad of ProgramFpga).
THEOREM RightFirmwareAlways == Spec => []RightFirmware
<1>1. BootInv => RightFirmware
  BY DEF BootInv
<1> QED
  BY <1>1, BootInvariant, PTL

\* The hook never clears the quad-enable bit, nor changes another bit of the register,
\* whenever power fails (FpgaV3_Init_SD).
THEOREM QeKeptAlways == Spec => QeKept
<1>1. BootInv /\ [Next]_vars => [sr2'.other = sr2.other /\ (sr2.qe => sr2'.qe)]_vars
  BY QeStep DEF BootInv
<1> QED
  BY <1>1, BootInvariant, PTL DEF Spec, QeKept

=============================================================================
